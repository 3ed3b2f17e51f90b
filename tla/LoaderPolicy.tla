---------------------------- MODULE LoaderPolicy ----------------------------
(***************************************************************************)
(* PreparedLoaderPolicy: a recipe of files with their sizes and hashes is  *)
(* checked as a whole, then each file is opened, measured, hashed and      *)
(* compared, and all stay open.  A file is open for reading and shared for *)
(* reading only.  Other processes write, replace and remove the files that *)
(* are not open.  A file is [name, bytes, content], name the one its       *)
(* handle resolves to; the hash stands for the content.                    *)
(***************************************************************************)
EXTENDS Integers, Sequences

CONSTANTS
  Recipes,   \* sequences of [origin, name, bytes, content, valid]
  Origins, Names,
  Files,     \* what other processes put at a path
  Contents,  \* what a file can hold
  MaxFiles, MaxBytes, Budget,
  Nothing

ASSUME PolicyAssumption ==
  /\ Budget \in Nat /\ MaxBytes \in Nat /\ Nothing \notin Files
  /\ Recipes \subseteq
       Seq([origin : Origins, name : Names, bytes : Nat, content : Contents, valid : BOOLEAN])
  /\ Files \subseteq [name : Names, bytes : Nat, content : Contents]

VARIABLES
  recipe, step, index,
  total,     \* bytes declared so far
  charged,   \* bytes of the files opened so far
  consumed,  \* bytes that were read and hashed
  disk,      \* the file at each path
  handle,    \* the path that is open and not yet compared
  result,    \* what the open handle was found to be
  held,      \* paths of the files that stay open
  refusal,   \* the file that was refused, and whether the system failed
  error

vars == <<recipe, step, index, total, charged, consumed, disk, handle, result, held, refusal, error>>

Paths == Origins \X Names
PathOf(spec) == <<spec.origin, spec.name>>

Init ==
  /\ recipe \in Recipes
  /\ step = "input" /\ index = 1 /\ total = 0 /\ charged = 0 /\ consumed = 0
  /\ disk = [p \in Paths |-> LET wanted == {i \in DOMAIN recipe : PathOf(recipe[i]) = p}
                             IN IF wanted = {} THEN Nothing
                                ELSE LET spec == recipe[CHOOSE i \in wanted : TRUE]
                                     IN [name |-> spec.name, bytes |-> spec.bytes, content |-> spec.content]]
  /\ handle = Nothing /\ result = Nothing /\ held = << >> /\ refusal = Nothing /\ error = "none"

Refuse(reason) == error' = reason /\ step' = "refused"

\* The engine's digest, the number of files and the two directories.
Input ==
  /\ step = "input"
  /\ \/ Refuse("loader_policy_engine_mismatch")
     \/ Refuse("loader_policy_input")
     \/ Len(recipe) \in 1 .. MaxFiles /\ step' = "check" /\ UNCHANGED error
  /\ UNCHANGED <<recipe, index, total, charged, consumed, disk, handle, result, held, refusal>>

\* Mutant of OverBudget: the total before this file is compared.
OverBudgetBefore(sum, bytes) == sum - bytes > Budget

OverBudget(sum, bytes) == sum > Budget

\* One line of the recipe.
Check ==
  /\ step = "check" /\ index <= Len(recipe)
  /\ LET spec == recipe[index]
         sum == total + spec.bytes
     IN IF ~ spec.valid \/ spec.bytes = 0 \/ spec.bytes > MaxBytes
        THEN Refuse("loader_policy_spec") /\ UNCHANGED <<index, total>>
        ELSE IF \E j \in 1 .. index - 1 : recipe[j].name = spec.name
             THEN Refuse("loader_policy_duplicate") /\ UNCHANGED <<index, total>>
             ELSE /\ total' = sum
                  /\ IF OverBudget(sum, spec.bytes)
                     THEN Refuse("loader_policy_byte_limit") /\ UNCHANGED index
                     ELSE index' = index + 1 /\ UNCHANGED <<step, error>>
  /\ UNCHANGED <<recipe, charged, consumed, disk, handle, result, held, refusal>>

Checked ==
  /\ step = "check" /\ index > Len(recipe)
  /\ step' = "open" /\ index' = 1
  /\ UNCHANGED <<recipe, total, charged, consumed, disk, handle, result, held, refusal, error>>

-----------------------------------------------------------------------------
Unavailable(found, system) ==
  /\ Refuse("loader_policy_file_unavailable")
  /\ refusal' = [file |-> found, system |-> system] /\ handle' = Nothing /\ result' = Nothing

\* The file is opened, if it is there and the system allows it.
Open ==
  /\ step = "open" /\ index <= Len(recipe)
  /\ LET p == PathOf(recipe[index])
     IN \/ /\ disk[p] # Nothing
           /\ handle' = p /\ step' = "measure" /\ UNCHANGED <<result, refusal, error>>
        \/ Unavailable(disk[p], disk[p] # Nothing)
  /\ UNCHANGED <<recipe, index, total, charged, consumed, disk, held>>

\* Its size, within what is left, and its name.
Measure ==
  /\ step = "measure"
  /\ LET file == disk[handle]
     IN IF file.bytes \in 1 .. MaxBytes /\ file.bytes <= Budget - charged
        THEN /\ result' = [name |-> file.name, bytes |-> file.bytes, content |-> Nothing]
             /\ step' = "hash" /\ UNCHANGED <<handle, refusal, error>>
        ELSE Unavailable(file, FALSE)
  /\ UNCHANGED <<recipe, index, total, charged, consumed, disk, held>>

\* As many bytes are read as were measured; what is there now is hashed.
Hash ==
  /\ step = "hash"
  /\ \/ /\ disk[handle].bytes >= result.bytes
        /\ result' = [result EXCEPT !.content = disk[handle].content]
        /\ consumed' = consumed + result.bytes
        /\ step' = "compare" /\ UNCHANGED <<handle, refusal, error>>
     \/ /\ \E n \in 0 .. result.bytes : consumed' = consumed + n
        /\ Unavailable(disk[handle], disk[handle].bytes >= result.bytes)
  /\ UNCHANGED <<recipe, index, total, charged, disk, held>>

Matches(spec, file) == file.name = spec.name /\ file.bytes = spec.bytes /\ file.content = spec.content

\* The file is the one of the recipe and is kept, or the policy is refused.
Compare ==
  /\ step = "compare"
  /\ charged' = charged + result.bytes
  /\ IF Matches(recipe[index], result)
     THEN /\ held' = Append(held, handle) /\ index' = index + 1 /\ step' = "open"
          /\ UNCHANGED <<refusal, error>>
     ELSE /\ Refuse("loader_policy_file_mismatch")
          /\ refusal' = [file |-> result, system |-> FALSE] /\ UNCHANGED <<held, index>>
  /\ handle' = Nothing /\ result' = Nothing
  /\ UNCHANGED <<recipe, total, consumed, disk>>

Ready ==
  /\ step = "open" /\ index > Len(recipe)
  /\ step' = "ready"
  /\ UNCHANGED <<recipe, index, total, charged, consumed, disk, handle, result, held, refusal, error>>

\* pins(): nothing of a policy that was refused.
pins == IF error = "none" THEN held ELSE << >>

-----------------------------------------------------------------------------
Opened(p) == p = handle \/ \E i \in DOMAIN held : held[i] = p

\* Mutant of Shared: other processes may write what is open.
SharedToWrite(p) == TRUE

Shared(p) == ~ Opened(p)

\* Other processes, from the first opening on; what came before is the same
\* as a change before the next file.
Others ==
  /\ step \in {"open", "measure", "hash", "compare", "ready"}
  /\ \E p \in {PathOf(recipe[i]) : i \in DOMAIN recipe}, f \in Files \cup {Nothing} :
       /\ Shared(p) /\ f # disk[p]
       /\ disk' = [disk EXCEPT ![p] = f]
       /\ p = handle => f # Nothing
  /\ UNCHANGED <<recipe, step, index, total, charged, consumed, handle, result, held, refusal, error>>

Prepare == Input \/ Check \/ Checked \/ Open \/ Measure \/ Hash \/ Compare \/ Ready

Next == Prepare \/ Others \/ (step \in {"ready", "refused"} /\ UNCHANGED vars)

Spec == Init /\ [][Next]_vars

-----------------------------------------------------------------------------
\* The pins of a finished policy are the files of the recipe, in its order,
\* and each path still leads to that file whatever others do; never are more
\* bytes read than the budget, however the files grew after the recipe was
\* made; a recipe that was let through is never refused because of the budget:
\* a file that is refused really differs from the recipe or the system failed.
PinsAreRecipe ==
  /\ step = "ready" =>
       /\ Len(pins) = Len(recipe)
       /\ \A i \in DOMAIN recipe : pins[i] = PathOf(recipe[i]) /\ Matches(recipe[i], disk[pins[i]])
  /\ consumed <= Budget
  /\ step = "refused" /\ refusal # Nothing =>
       refusal.system \/ refusal.file = Nothing \/ ~ Matches(recipe[index], refusal.file)
  /\ step = "refused" => pins = << >>
=============================================================================
