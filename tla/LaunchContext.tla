---------------------------- MODULE LaunchContext ----------------------------
(***************************************************************************)
(* LaunchContext and the part of SuspendedImage's constructor that uses    *)
(* it: the environment block, the pinned directory, and the child that is  *)
(* created by path in that directory.  An environment is a sequence of     *)
(* entries [key, size, valid], keys numbers in the ordinal order without   *)
(* case, sizes in UTF-16 units.  A path is a way (a drive and the          *)
(* ancestors it names) and a name; the other processes of the machine may  *)
(* lead a way elsewhere and rename, remove or make directories.            *)
(***************************************************************************)
EXTENDS Integers, FiniteSets, Sequences

CONSTANTS
  Environments,  \* what the caller or the system may hand over
  MaxUnits, MaxEntries, MaxEntryUnits,
  Ways, Trees, Names,  \* ways lead into trees, whose names hold directories
  Ids,           \* identities of directories: volume and file id
  Nothing

ASSUME NothingAssumption == Nothing \notin Trees \cup Ids

Entries == [key : Int, size : Nat, valid : BOOLEAN]

\* An empty block has two terminators, and they fit.
ASSUME EnvironmentAssumption ==
  /\ Environments \subseteq Seq(Entries)
  /\ MaxUnits \in Nat /\ MaxUnits >= 2 /\ MaxEntries \in Nat /\ MaxEntryUnits \in Nat

VARIABLES
  step,      \* the call that comes next
  env,       \* entries, whether they are captured, index, units, block
  leads,     \* the tree that each way leads into
  holds,     \* the directory at each name of each tree
  path,      \* the way and name that the context keeps
  pin,       \* the directory whose handle the context holds
  child,     \* the directory the child was started in
  error,
  rerouted   \* a way led elsewhere since the directory was compared

vars == <<step, env, leads, holds, path, pin, child, error, rerouted>>
world == <<leads, holds>>

Init ==
  /\ \E entries \in Environments, captured \in BOOLEAN :
       /\ env = [entries |-> entries, captured |-> captured, index |-> 1, units |-> 0, block |-> << >>]
       /\ step = IF captured THEN "capture" ELSE "prepare"
  /\ leads \in [Ways -> Trees]
  /\ \E id \in Ids, t \in Trees, n \in Names :
       holds = [p \in Trees \X Names |-> IF p = <<t, n>> THEN id ELSE Nothing]
  /\ path \in Ways \X Names
  /\ pin = Nothing /\ child = Nothing /\ error = "none" /\ rerouted = FALSE

Fail(reason) == error' = reason /\ step' = "failed"

\* The directory that opening a path finds.
Found(p) == IF leads[p[1]] = Nothing THEN Nothing ELSE holds[<<leads[p[1]], p[2]>>]

-----------------------------------------------------------------------------
\* Mutant of ScanRefuses: two terminators are kept free after every entry.
ScanRefusesEarly(offset) == offset >= MaxUnits - 2

ScanRefuses(offset) == offset >= MaxUnits - 1

\* The system has no block to give.
NoSnapshot ==
  /\ step = "capture" /\ env.index = 1 /\ Fail("launch_environment_capture_failed")
  /\ UNCHANGED <<env, world, path, pin, child, rerouted>>

\* One entry of the system's block: the scan stops where the block would not
\* fit with its last terminator.
Capture ==
  /\ step = "capture"
  /\ LET entry == env.entries[env.index]
         offset == env.units + entry.size
     IN IF env.index > Len(env.entries)
        THEN step' = "prepare" /\ env' = [env EXCEPT !.index = 1, !.units = 0] /\ UNCHANGED error
        ELSE IF env.index > MaxEntries \/ ScanRefuses(offset)
             THEN Fail("launch_environment_limit") /\ UNCHANGED env
             ELSE /\ env' = [env EXCEPT !.index = @ + 1, !.units = offset + 1]
                  /\ UNCHANGED <<step, error>>
  /\ UNCHANGED <<world, path, pin, child, rerouted>>

\* prepare: the directory's spelling and the number of entries come first.
Prepare ==
  /\ step = "prepare"
  /\ \/ Fail("launch_directory_input") /\ UNCHANGED env
     \/ Len(env.entries) > MaxEntries /\ Fail("launch_environment_limit") /\ UNCHANGED env
     \/ /\ Len(env.entries) <= MaxEntries
        /\ env' = [env EXCEPT !.units = IF env.entries = << >> THEN 2 ELSE 1]
        /\ step' = "check" /\ UNCHANGED error
  /\ UNCHANGED <<world, path, pin, child, rerouted>>

\* One entry of the list: its form, and the room it leaves.
Check ==
  /\ step = "check" /\ env.index <= Len(env.entries)
  /\ LET entry == env.entries[env.index]
     IN IF ~ entry.valid \/ entry.size > MaxEntryUnits
        THEN Fail("launch_environment_entry") /\ UNCHANGED env
        ELSE IF entry.size + 1 > MaxUnits - env.units
             THEN Fail("launch_environment_limit") /\ UNCHANGED env
             ELSE /\ env' = [env EXCEPT !.index = @ + 1, !.units = @ + entry.size + 1]
                  /\ UNCHANGED <<step, error>>
  /\ UNCHANGED <<world, path, pin, child, rerouted>>

InOrder(block) == \A i \in 1 .. Len(block) - 1 : block[i].key < block[i + 1].key

\* The entries sorted by key, in some order where keys are equal.
Sorted(entries) ==
  {s \in [DOMAIN entries -> {entries[i] : i \in DOMAIN entries}] :
     /\ \A i, j \in DOMAIN s : i < j => s[i].key <= s[j].key
     /\ \A e \in {entries[i] : i \in DOMAIN entries} :
          Cardinality({i \in DOMAIN s : s[i] = e}) = Cardinality({i \in DOMAIN entries : entries[i] = e})}

\* Keys that are equal without case are refused; the block is made and hashed.
Sort ==
  /\ step = "check" /\ env.index > Len(env.entries)
  /\ \E s \in Sorted(env.entries) :
       IF InOrder(s)
       THEN \/ env' = [env EXCEPT !.block = s] /\ step' = "pin" /\ UNCHANGED error
            \/ Fail("launch_environment_hash_failed") /\ UNCHANGED env
       ELSE Fail("launch_environment_duplicate") /\ UNCHANGED env
  /\ UNCHANGED <<world, path, pin, child, rerouted>>

-----------------------------------------------------------------------------
\* The directory is opened; nobody may delete or rename it from here on.
Pin ==
  /\ step = "pin"
  /\ IF Found(path) = Nothing
     THEN Fail("launch_directory_unavailable") /\ UNCHANGED pin
     ELSE pin' = Found(path) /\ step' = "resolve" /\ UNCHANGED error
  /\ UNCHANGED <<env, world, path, child, rerouted>>

\* The handle's own path: some way that leads to where it is.
Resolve ==
  /\ step = "resolve"
  /\ \/ \E p \in Ways \X Names :
          Found(p) = pin /\ path' = p /\ step' = "match" /\ UNCHANGED error
     \/ Fail("launch_directory_resolution") /\ UNCHANGED path
  /\ pin' = IF step' = "failed" THEN Nothing ELSE pin
  /\ UNCHANGED <<env, world, child, rerouted>>

SameDirectory(id) == id = pin

\* directory_matches, before the job and the child are made.
Match ==
  /\ step = "match"
  /\ IF SameDirectory(Found(path))
     THEN step' = "create" /\ rerouted' = FALSE /\ UNCHANGED error
     ELSE Fail("observer_context_directory_changed") /\ UNCHANGED rerouted
  /\ UNCHANGED <<env, world, path, pin, child>>

\* CreateProcessW in the directory of that path, or a failure there or on the
\* way to it (the executable's path, the job).
Create ==
  /\ step = "create"
  /\ \/ Found(path) # Nothing /\ child' = Found(path) /\ step' = "created" /\ UNCHANGED error
     \/ Fail("observer_create_failed") /\ UNCHANGED child
  /\ UNCHANGED <<env, world, path, pin, rerouted>>

\* Other processes; what they did before the directory is opened is in Init.
Abroad == step \in {"pin", "resolve", "match", "create"}

Reroute ==
  /\ Abroad
  /\ \E w \in Ways, t \in Trees \cup {Nothing} : t # leads[w] /\ leads' = [leads EXCEPT ![w] = t]
  /\ rerouted' = TRUE
  /\ UNCHANGED <<step, env, holds, path, pin, child, error>>

\* Mutant of Movable: the pin shares deletion.
MovableAlways(id) == id # Nothing

Movable(id) == id # Nothing /\ id # pin

Rename ==
  /\ Abroad
  /\ \E t \in Trees, m, n \in Names :
       /\ Movable(holds[<<t, m>>]) /\ holds[<<t, n>>] = Nothing
       /\ holds' = [holds EXCEPT ![<<t, n>>] = holds[<<t, m>>], ![<<t, m>>] = Nothing]
  /\ UNCHANGED <<step, env, leads, path, pin, child, error, rerouted>>

\* An id is not given again to another directory.
Make ==
  /\ Abroad
  /\ \E p \in DOMAIN holds, id \in Ids :
       /\ holds[p] = Nothing /\ \A q \in DOMAIN holds : holds[q] # id
       /\ id # pin
       /\ holds' = [holds EXCEPT ![p] = id]
  /\ UNCHANGED <<step, env, leads, path, pin, child, error, rerouted>>

Remove ==
  /\ Abroad
  /\ \E p \in DOMAIN holds : Movable(holds[p]) /\ holds' = [holds EXCEPT ![p] = Nothing]
  /\ UNCHANGED <<step, env, leads, path, pin, child, error, rerouted>>

Others == Reroute \/ Rename \/ Make \/ Remove

Construct == NoSnapshot \/ Capture \/ Prepare \/ Check \/ Sort \/ Pin \/ Resolve \/ Match \/ Create

Next == Construct \/ Others \/ (step \in {"created", "failed"} /\ UNCHANGED vars)

Spec == Init /\ [][Next]_vars

-----------------------------------------------------------------------------
\* Units of a block: each entry with its terminator, and the last one; an
\* empty block has two.
BlockUnits(entries) ==
  LET upto[i \in 0 .. Len(entries)] == IF i = 0 THEN 1 ELSE upto[i - 1] + entries[i].size + 1
  IN IF entries = << >> THEN 2 ELSE upto[Len(entries)]

TooLarge == BlockUnits(env.entries) > MaxUnits \/ Len(env.entries) > MaxEntries
WellFormed == \A i \in DOMAIN env.entries : env.entries[i].valid /\ env.entries[i].size <= MaxEntryUnits

\* The scan of the system's block and the list's own count refuse the same
\* environments for their size, although one counts offsets before the last
\* terminators and the other units with them; and what is handed to the child
\* is the whole environment, its keys strictly in order, within the limit.
EnvironmentExact ==
  /\ WellFormed /\ error \notin {"none", "launch_directory_input", "launch_environment_capture_failed"} =>
       (error = "launch_environment_limit" <=> TooLarge)
  /\ step \in {"pin", "resolve", "match", "create", "created"} =>
       /\ WellFormed /\ ~ TooLarge
       /\ BlockUnits(env.block) = env.units
       /\ \A i, j \in DOMAIN env.block : i < j => env.block[i].key < env.block[j].key
       /\ {env.block[i] : i \in DOMAIN env.block} = {env.entries[i] : i \in DOMAIN env.entries}

\* The child starts in the directory that was pinned, whatever was renamed,
\* removed or put in its place, unless a way led elsewhere after the last
\* comparison.
StartsWherePinned == step = "created" => child = pin \/ rerouted
=============================================================================
