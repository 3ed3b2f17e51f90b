------------------------- MODULE LoaderObservation -------------------------
(***************************************************************************)
(* LoaderObservation::run_impl: the debugger loop of an observed game      *)
(* start.  The observer holds the debuggee at one debug event at a time,   *)
(* judges it, and either continues the debuggee or finishes the run, which *)
(* kills the debuggee.  Its instruments are the four debug registers of    *)
(* the main thread; its memory of the address space is the mapping ledger. *)
(*                                                                         *)
(* The debuggee is free: it loads and unloads what it likes, where it      *)
(* likes, starts threads, exits, raises exceptions, rewrites its own debug *)
(* registers.  What the handlers read from its memory is an input too: a   *)
(* check on it may refuse the stop whatever came before.                   *)
(***************************************************************************)
EXTENDS LoaderStages

CONSTANTS
  Bases, NullBase, MaxMappings, Limits, MaxEvent,   \* of the mapping ledger
  Placements,    \* the <<file, base>> pairs the debuggee may try to load
  Unloadable,    \* the bases it may try to unload
  Pins,          \* the files of the pins argument
  Ntdll, Proxy, Asi,   \* the pinned files the observer knows by role
  CodecModules,  \* codec->modules, a sequence of pinned files
  RunGoals,      \* the goals tried
  EventLimit, ThreadLimit, ByteLimit,   \* LoaderLimits
  FileBytes,     \* the size of each file
  MayRefuse,     \* do reads of its memory and calls of the system fail?
  MayTamper      \* may the debuggee write its own debug registers?

ASSUME LoaderAssumption ==
  /\ RunGoals \subseteq Goals
  /\ EventLimit \in 1 .. 160
  /\ ThreadLimit \in 1 .. 16
  /\ ByteLimit \in Nat \ {0}
  /\ {Ntdll, Proxy, Asi} \subseteq Pins
  /\ CodecModules \in Seq(Pins) /\ Len(CodecModules) \in 1 .. 3
  /\ MayRefuse \in BOOLEAN /\ MayTamper \in BOOLEAN
  \* The checks before the run refuse a limit of zero or above the ledger's array.
  /\ NullBase \in Bases /\ MaxMappings \in Nat /\ Limits \subseteq 1 .. MaxMappings
  /\ \A p \in Placements : p[2] \in Bases /\ FileBytes[p[1]] \in Nat

VARIABLES
  goal,          \* the last permit the run was given
  reason,        \* trace.reason, "running" until finish
  started,       \* child.loader_started_: the preflight checks have passed
  pending,       \* child.pending_: a debug event is held
  event_count, thread_count,
  modules,       \* trace.modules
  charged_bytes,
  breakpoint_candidate,   \* the loader's initial breakpoint was seen
  stop,          \* the armed stages, each with its current stop
  continued,     \* the armed stages whose stop the debuggee was released to
  passed,        \* the stages whose last stop was accepted
  found,         \* proxy_mapping_id, codec_mapping_ids, asi_mapping_id
  arm_event,     \* codec_arm_event, asi_arm_event, and that of the binding stop
  dr,            \* DR0 .. DR3 of the main thread, and the enabled ones of DR7
  disturbed,     \* history: the debuggee wrote its debug registers
  limit, history, active_, last_event, transition   \* the ledger

ledger == <<limit, history, active_, last_event, transition>>
Ledger == INSTANCE MappingLedger

clocks == <<event_count, thread_count>>
evidence == <<found, arm_event, passed>>
vars == <<goal, reason, started, pending, clocks, modules, charged_bytes,
          breakpoint_candidate, stop, continued, evidence, dr, disturbed, ledger>>

-----------------------------------------------------------------------------
\* Addresses an execution breakpoint may hold: a stop, or a guard.
None == <<"none", 0>>
Iat == <<"iat", 0>>       \* the import slot the proxy rewrites, watched by DR1
End == <<"end", 0>>       \* the end of the ASI scan, in DR2
Call == <<"call", 0>>     \* the ASI call once it has returned, in DR2
Guard == <<"guard", 0>>   \* the branch of a second instance, in DR3
Other == <<"other", 0>>

Armed == DOMAIN stop
Running == reason = "running"

\* The member of a set of stages that comes last on the run's line.
Last(stages) ==
  CHOOSE s \in stages : \A t \in stages : Rank[t] <= Rank[s]

\* The early stage whose stop the debuggee runs towards.
EarlyStage == Last(continued \ (LateStages \cup {"bootstrap"}))

\* The address the next stop is expected at.  The calls of the bootstrap all
\* return to the return address of the ASI load.
expected_address ==
  IF Armed \cap LateStages # {}
  THEN LET s == Last(Armed \cap LateStages) IN <<s, stop[s]>>
  ELSE <<EarlyStage, stop[EarlyStage]>>

\* Mutant of HandlerStage: the early stages are looked at before the bootstrap.
HandlerStageEarlyFirst ==
  IF Armed \cap LateStages # {} THEN Last(Armed \cap LateStages) ELSE EarlyStage

\* The stage whose handler takes a stop that passed the guards.
HandlerStage ==
  IF Armed \cap LateStages # {} THEN Last(Armed \cap LateStages)
  ELSE IF "bootstrap" \in Armed THEN "bootstrap"
  ELSE EarlyStage

\* Mutant of watched_dr7: the ASI guard is expected as soon as it is armed for
\* the end of the scan, whatever the instance stage enabled.
watched_dr7_no_instance == IF "asi_call" \in continued THEN {0, 1, 2} ELSE {0, 1}

watched_dr7 ==
  IF "instance" \in Armed THEN {0, 1, 2, 3}
  ELSE IF "asi_call" \in continued THEN {0, 1, 2}
  ELSE {0, 1}

\* What DR2 should hold while it is watched.
watched_dr2 == IF "startup_return" \in Armed THEN Call ELSE End

-----------------------------------------------------------------------------
\* finish(reason): the run ends and the debuggee is killed.  When its exit
\* cannot be confirmed, that is what the run reports.
Finish(r) == reason' \in {r, "loader_exit_unconfirmed"}

Conclude(r) == IF r = "none" THEN UNCHANGED reason ELSE Finish(r)

\* An input of the run that the system or the debuggee spoils.
Fault(reasons) == MayRefuse /\ \E r \in reasons : Finish(r)

Init ==
  /\ Ledger!Init
  /\ goal \in RunGoals
  /\ reason = "running"
  /\ started = FALSE
  /\ pending = TRUE
  /\ event_count = 1
  /\ thread_count = 1
  /\ modules = <<>>
  /\ charged_bytes = 0
  /\ breakpoint_candidate = FALSE
  /\ stop = <<>>
  /\ continued = {}
  /\ passed = {}
  /\ found = [proxy |-> 0, codec |-> <<>>, asi |-> 0]
  /\ arm_event = [codec |-> 0, binding |-> 0, asi |-> 0]
  /\ dr = [r0 |-> None, r1 |-> None, r2 |-> None, r3 |-> None, on |-> {}]
  /\ disturbed = FALSE

\* run_* on a thread that does not own the child: refused, the child untouched.
WrongThread ==
  /\ Running /\ ~ started
  /\ reason' = "loader_owner_thread"
  /\ UNCHANGED <<goal, started, pending, clocks, modules, charged_bytes, stop, continued,
                 breakpoint_candidate, evidence, dr, disturbed, ledger>>

\* The checks of the limits, of the pins, of each permit against the one it
\* builds on, and of the entry point; then the entry stop is armed.
Begin ==
  /\ Running /\ ~ started
  /\ \/ /\ Fault(PreflightRefusals(goal))
        /\ UNCHANGED <<started, stop, dr>>
     \/ /\ started' = TRUE
        /\ IF "entry" \in Permitted(goal)
           THEN /\ stop' = [s \in {"entry"} |-> 1]
                /\ dr' = [dr EXCEPT !.r0 = <<"entry", 1>>, !.on = {0}]
           ELSE UNCHANGED <<stop, dr>>
        /\ UNCHANGED reason
  /\ UNCHANGED <<goal, pending, clocks, modules, charged_bytes, breakpoint_candidate,
                 continued, evidence, disturbed, ledger>>

\* Mutant of Continue: one event more than the limit.
ContinuePastLimit ==
  /\ Running /\ started /\ pending
  /\ \/ event_count > EventLimit /\ Finish("loader_event_limit") /\ UNCHANGED <<pending, continued>>
     \/ Finish("loader_timeout") /\ UNCHANGED <<pending, continued>>
     \/ /\ event_count <= EventLimit
        /\ pending' = FALSE
        /\ continued' = Armed \ (IF breakpoint_candidate THEN {} ELSE {"entry"})
        /\ UNCHANGED reason
  /\ UNCHANGED <<goal, started, clocks, modules, charged_bytes, breakpoint_candidate,
                 stop, evidence, dr, disturbed, ledger>>

\* The top of the loop: the held event is released, unless a limit is reached.
Continue ==
  /\ Running /\ started /\ pending
  /\ \/ event_count >= EventLimit /\ Finish("loader_event_limit") /\ UNCHANGED <<pending, continued>>
     \/ /\ event_count < EventLimit
        /\ Finish("loader_timeout") \/ Fault({"loader_continue_failed"})
        /\ UNCHANGED <<pending, continued>>
     \/ /\ event_count < EventLimit
        /\ pending' = FALSE
        /\ continued' = Armed \ (IF breakpoint_candidate THEN {} ELSE {"entry"})
        /\ UNCHANGED reason
  /\ UNCHANGED <<goal, started, clocks, modules, charged_bytes, breakpoint_candidate,
                 stop, evidence, dr, disturbed, ledger>>

\* Mutant of WaitEnds: the wait for an event is not bounded by the deadline.
WaitForever == FALSE /\ UNCHANGED vars

\* No event comes before the deadline, or the wait fails.
WaitEnds ==
  /\ Running /\ ~ pending /\ started
  /\ Finish("loader_timeout") \/ Fault({"loader_wait_failed"})
  /\ UNCHANGED <<goal, started, pending, clocks, modules, charged_bytes, stop, continued,
                 breakpoint_candidate, evidence, dr, disturbed, ledger>>

\* The debuggee writes the debug registers of its main thread, or raises
\* exceptions that look like the observer's.  Once per run.
Tamper ==
  /\ MayTamper /\ Running /\ started /\ ~ pending /\ ~ disturbed
  /\ disturbed' = TRUE
  /\ \/ UNCHANGED dr
     \/ \E r \in {"r0", "r1", "r2", "r3"} : dr' = [dr EXCEPT ![r] = Other]
     \/ \E on \in {{}, {0, 1, 2, 3}} : dr' = [dr EXCEPT !.on = on]
  /\ UNCHANGED <<goal, reason, started, pending, clocks, modules, charged_bytes, stop,
                 continued, breakpoint_candidate, evidence, ledger>>

-----------------------------------------------------------------------------
\* What a received event does to the loop's own state.
Receive ==
  /\ Running /\ ~ pending /\ started
  /\ pending' = TRUE
  /\ event_count' = event_count + 1

\* The parts of the state the events other than exceptions leave alone.
Unmoved == UNCHANGED <<goal, started, breakpoint_candidate, stop, continued, evidence,
                       dr, disturbed>>

\* An event of a process that is not the child: it is never resumed.
ForeignEvent ==
  /\ Running /\ ~ pending /\ started
  /\ event_count' = event_count + 1
  /\ Fault({"loader_event_identity"})
  /\ Unmoved
  /\ UNCHANGED <<pending, thread_count, modules, charged_bytes, ledger>>

\* Mutant of LoadRefusal: loads are accepted while the ASI is being looked for.
LoadRefusalAnyTime(error) == error

\* Why the loop ends after a load the ledger answered with this error: between
\* the binding stop and the return of the ASI load nothing may be loaded, the
\* ASI itself excepted.
LoadRefusal(error) ==
  IF error # "none" THEN error
  ELSE IF "binding" \in continued /\ "asi_return" \notin continued THEN "binding_unexpected_load"
  ELSE "none"

\* LOAD_DLL.  The mapping joins trace.modules before it is judged; the ledger
\* hears of it once its file is known.
LoadDll(file, base) ==
  /\ Receive
  /\ Unmoved
  /\ UNCHANGED thread_count
  /\ \/ /\ Len(modules) >= limit
        /\ Finish("loader_module_limit")
        /\ UNCHANGED <<modules, charged_bytes, ledger>>
     \/ /\ Len(modules) < limit
        /\ LET affordable == FileBytes[file] <= ByteLimit - charged_bytes
               judged == affordable /\ base # NullBase /\ file \in Pins
           IN /\ charged_bytes' = IF affordable THEN charged_bytes + FileBytes[file]
                                  ELSE charged_bytes
              /\ IF judged THEN Ledger!Admit(base, event_count') ELSE UNCHANGED ledger
              /\ modules' = Append(modules,
                   [file |-> file, base |-> base, event_index |-> event_count',
                    unload_event_index |-> 0,
                    mapping_id |-> IF judged THEN transition'.mapping_id ELSE 0])
              /\ IF ~ affordable THEN Finish("loader_file_or_byte_limit")
                 ELSE IF base = NullBase THEN Finish("loader_module_metadata")
                 ELSE IF file \notin Pins THEN Finish("loader_module_not_pinned")
                 ELSE Conclude(LoadRefusal(transition'.error))
     \/ /\ Fault({"loader_module_metadata", "loader_file_or_byte_limit"})
        /\ UNCHANGED <<modules, charged_bytes, ledger>>

\* Mutant of UnloadRefusal: the proxy may go.
UnloadRefusalAnyProxy(i) ==
  IF "binding" \in continued /\ (\E n \in DOMAIN found.codec : modules[i].mapping_id = found.codec[n])
  THEN "binding_mapping_retired"
  ELSE IF "asi_call" \in Permitted(goal) /\ modules[i].file = Asi THEN "asi_mapping_retired"
  ELSE "none"

\* Why the loop ends when this module is unloaded: a mapping a later check
\* builds on is gone.  The ASI is recognised by its file, wherever it was.
UnloadRefusal(i) ==
  IF modules[i].mapping_id = found.proxy THEN "proxy_mapping_retired"
  ELSE IF "binding" \in continued
          /\ \E n \in DOMAIN found.codec : modules[i].mapping_id = found.codec[n]
       THEN "binding_mapping_retired"
  ELSE IF "asi_call" \in Permitted(goal) /\ modules[i].file = Asi THEN "asi_mapping_retired"
  ELSE "none"

\* Mutant of MarkUnloaded: trace.modules is not told of the unload.
MarkUnloadedNot(id) == UNCHANGED modules

MarkUnloaded(id) ==
  modules' = [i \in DOMAIN modules |->
                IF modules[i].mapping_id = id
                THEN [modules[i] EXCEPT !.unload_event_index = event_count']
                ELSE modules[i]]

\* UNLOAD_DLL.
UnloadDll(base) ==
  /\ Receive
  /\ Unmoved
  /\ UNCHANGED <<thread_count, charged_bytes>>
  /\ Ledger!Retire(base, event_count')
  /\ LET id == transition'.mapping_id
         retired == {i \in DOMAIN modules : modules[i].mapping_id = id}
     IN IF transition'.error # "none"
        THEN Finish(transition'.error) /\ UNCHANGED modules
        ELSE IF retired = {}
        THEN Finish("loader_mapping_history_mismatch") /\ UNCHANGED modules
        ELSE /\ MarkUnloaded(id)
             /\ Conclude(UnloadRefusal(CHOOSE i \in retired : TRUE))

\* CREATE_THREAD.
CreateThread ==
  /\ Receive
  /\ Unmoved
  /\ thread_count' = thread_count + 1
  /\ Conclude(IF thread_count' > ThreadLimit THEN "loader_thread_limit" ELSE "none")
  /\ UNCHANGED <<modules, charged_bytes, ledger>>

\* EXIT_PROCESS, and the kinds of event the loop does not expect.
OtherEvent ==
  /\ Receive
  /\ Unmoved
  /\ Finish("loader_early_exit") \/ Fault({"loader_unexpected_event"})
  /\ UNCHANGED <<thread_count, modules, charged_bytes, ledger>>

-----------------------------------------------------------------------------
\* An exception of the debuggee: its kind ("step" for a first-chance single
\* step of the main thread, "breakpoint" for its first-chance breakpoint,
\* "other"), the address it is reported at, and the cause bits of DR6.
\* EIP is that address.
Register(i) == IF i = 0 THEN dr.r0 ELSE IF i = 2 THEN dr.r2 ELSE dr.r3

\* What the processor reports while nobody else touches the debug registers:
\* an enabled execution breakpoint before its instruction, or the watched slot
\* after a write to it.
GenuineTraps ==
  {[kind |-> "step", addr |-> Register(i),
    bits |-> {j \in dr.on \ {1} : Register(j) = Register(i)}] : i \in dr.on \ {1}}
  \cup {[kind |-> "step", addr |-> Other, bits |-> {1}] : i \in dr.on \cap {1}}

ForgedTraps ==
  [kind : {"step"}, addr : {dr.r0, dr.r2, Other}, bits : SUBSET {0, 1, 2, 3}]

InitialTraps ==
  {[kind |-> "breakpoint", addr |-> <<"image", b>>, bits |-> {}] : b \in Bases}
  \cup {[kind |-> "other", addr |-> Other, bits |-> {}]}

Traps == InitialTraps \cup GenuineTraps \cup (IF disturbed THEN ForgedTraps ELSE {})

\* trace.initial_breakpoint_continued
Released == "entry" \in continued

\* The live admitted mappings of a file, and the first of them in trace.modules.
Mapped(file) ==
  {i \in DOMAIN modules : /\ modules[i].file = file
                          /\ Ledger!Active(modules[i].mapping_id, modules[i].base)}
First(set) == CHOOSE i \in set : \A j \in set : i <= j

\* The exception before the entry stop is released: the loader's own initial
\* breakpoint in ntdll, or the end of the run.
InitialBreakpoint(trap) ==
  /\ ~ Released
  /\ breakpoint_candidate' =
       (\/ breakpoint_candidate
        \/ /\ trap.kind = "breakpoint"
           /\ \E i \in Mapped(Ntdll) : trap.addr = <<"image", modules[i].base>>)
  /\ IF breakpoint_candidate' /\ "entry" \in Permitted(goal)
     THEN \/ Fault({"entry_preinitialization_drift"})
          \/ Conclude(IF dr.r0 # <<"entry", 1>> \/ dr.on # {0}
                      THEN "entry_breakpoint_lost_before_initialization" ELSE "none")
     ELSE Finish(IF breakpoint_candidate' THEN "loader_breakpoint_candidate"
                 ELSE "loader_exception")
  /\ UNCHANGED <<stop, evidence, dr>>

\* The guards every exception passes once the entry stop is released, in the
\* code's order; "none" hands the stop to a handler.
GuardVerdict(trap) ==
  LET watched == "startup" \in continued
      scanning == "asi_call" \in continued
  IN IF trap.kind # "step" THEN "entry_unexpected_exception"
     ELSE IF watched /\ (\/ dr.r0 # expected_address
                         \/ dr.r1 # Iat
                         \/ dr.on # watched_dr7
                         \/ scanning /\ dr.r2 # watched_dr2)
     THEN "entry_breakpoint_identity"
     ELSE IF "instance" \in Armed /\ dr.r3 # Guard THEN "instance_guard_identity"
     ELSE IF "instance" \in Armed /\ 3 \in trap.bits THEN "instance_forbidden_branch"
     ELSE IF scanning /\ 2 \in trap.bits
     THEN IF trap.bits # {2} \/ trap.addr # dr.r2 THEN "entry_breakpoint_identity"
          ELSE IF "startup_return" \in Armed THEN "startup_return_extra_asi_call"
          ELSE IF "asi_return" \in continued THEN "asi_return_skipped"
          ELSE "asi_candidate_missing"
     ELSE IF watched /\ 1 \in trap.bits
     THEN IF trap.bits # {1} THEN "entry_breakpoint_identity" ELSE "startup_iat_written"
     ELSE IF trap.addr # expected_address THEN "entry_unexpected_exception"
     ELSE IF \/ dr.r0 # expected_address
             \/ trap.bits # {0}
             \/ dr.on # (IF watched THEN watched_dr7 ELSE {0})
     THEN "entry_breakpoint_identity"
     ELSE "none"

-----------------------------------------------------------------------------
\* What is left of the verdicts on stops: the checks against the observer's own
\* record of mappings.

\* The verdict on the mapping of a file: found in the order of trace.modules,
\* loaded after its stop was armed, and at the handle the load returned.
MappingVerdict(file, armed_at, handles, missing, stale, elsewhere, ambiguous) ==
  LET some == Mapped(file)
  IN IF some = {} THEN missing
     ELSE IF modules[First(some)].event_index <= armed_at THEN stale
     ELSE IF modules[First(some)].base \notin handles THEN elsewhere
     ELSE IF Cardinality(some) > 1 THEN ambiguous
     ELSE "none"

ProxyVerdict ==
  MappingVerdict(Proxy, -1, Bases, "proxy_mapping_missing", "none", "none",
                 "proxy_mapping_ambiguous")

\* The handle of the load is that of the first codec module.
CodecVerdicts(handle) ==
  [n \in DOMAIN CodecModules |->
     MappingVerdict(CodecModules[n], arm_event.codec, IF n = 1 THEN {handle} ELSE Bases,
                    "codec_mapping_missing", "codec_mapping_not_fresh",
                    "codec_handle_mismatch", "codec_mapping_ambiguous")]

AsiVerdict(handle) ==
  MappingVerdict(Asi, arm_event.asi, {handle}, "asi_mapping_missing",
                 "asi_mapping_not_fresh", "asi_handle_mismatch", "asi_mapping_ambiguous")

FirstRefusal(verdicts) ==
  LET bad == {n \in DOMAIN verdicts : verdicts[n] # "none"}
  IN IF bad = {} THEN "none" ELSE verdicts[First(bad)]

\* Mutant of CodecPreloaded: nobody asks what was mapped before.
CodecPreloadedUnasked == FALSE

CodecPreloaded == \E n \in DOMAIN CodecModules : Mapped(CodecModules[n]) # {}

CodecGone ==
  \E n \in DOMAIN found.codec :
    LET id == found.codec[n]
    IN ~ \E i \in DOMAIN modules : modules[i].mapping_id = id /\ Ledger!Active(id, modules[i].base)

\* Why the handler of a stop refuses it on the record of mappings alone.
Rejection(s, handle) ==
  CASE s = "entry" /\ "proxy" \in Permitted(goal) -> ProxyVerdict
    [] s = "startup" /\ "codec" \in Permitted(goal) /\ CodecPreloaded -> "codec_module_preloaded"
    [] s = "codec" -> FirstRefusal(CodecVerdicts(handle))
    [] s = "binding" /\ CodecGone -> "binding_mapping_retired"
    [] s = "binding" /\ ~ CodecGone /\ "asi_call" \in Permitted(goal) /\ Mapped(Asi) # {}
         -> "asi_module_preloaded"
    [] s = "asi_call" /\ Mapped(Asi) # {} -> "asi_module_preloaded"
    [] s = "asi_return" -> AsiVerdict(handle)
    [] OTHER -> "none"

\* The identifiers the handler keeps of the mappings it found.
Findings(s) ==
  CASE s = "entry" /\ "proxy" \in Permitted(goal) ->
         [found EXCEPT !.proxy = modules[First(Mapped(Proxy))].mapping_id]
    [] s = "codec" ->
         [found EXCEPT !.codec = [n \in DOMAIN CodecModules |->
                                    modules[First(Mapped(CodecModules[n]))].mapping_id]]
    [] s = "asi_return" -> [found EXCEPT !.asi = modules[First(Mapped(Asi))].mapping_id]
    [] OTHER -> found

-----------------------------------------------------------------------------
\* Arming a stop.
FromInstance(s) == s \in LateStages /\ Rank[s] >= Rank["instance"]
Scanning(s) == s \in {"asi_call", "asi_return", "bootstrap"} \cup LateStages

\* Where the debuggee stops next, and what is enabled from then on.
Address(s, k) == IF s = "bootstrap" THEN <<"asi_return", 1>> ELSE <<s, k>>

Enabled(s) ==
  IF s = "proxy" THEN {0}
  ELSE IF FromInstance(s) THEN {0, 1, 2, 3}
  ELSE IF Scanning(s) THEN {0, 1, 2}
  ELSE {0, 1}

\* Mutant of Rewritten: the return of startup forgets to move DR2 from the end
\* of the ASI scan to its call.
RewrittenKeepsEnd(s, k) ==
  [dr EXCEPT !.r0 = IF s = "bootstrap" THEN @ ELSE <<s, k>>,
             !.r1 = IF s = "startup" THEN Iat ELSE @,
             !.r2 = IF s \in {"asi_call", "asi_return"} THEN End ELSE @,
             !.r3 = IF s = "instance" THEN Guard ELSE @,
             !.on = CASE s \in {"startup", "instance"} -> Enabled(s)
                      [] s \in {"asi_call", "asi_return"} -> @ \cup {2}
                      [] OTHER -> @]

\* The registers the handler writes: each stage changes only its own.
Rewritten(s, k) ==
  [dr EXCEPT !.r0 = IF s = "bootstrap" THEN @ ELSE <<s, k>>,
             !.r1 = IF s = "startup" THEN Iat ELSE @,
             !.r2 = CASE s \in {"asi_call", "asi_return"} -> End
                      [] s = "startup_return" -> Call
                      [] OTHER -> @,
             !.r3 = IF s = "instance" THEN Guard ELSE @,
             !.on = CASE s \in {"startup", "instance"} -> Enabled(s)
                      [] s \in {"asi_call", "asi_return"} -> @ \cup {2}
                      [] OTHER -> @]

\* What is read back after the write.
Verified(s, k, registers) ==
  /\ registers.r0 = Address(s, k)
  /\ registers.on = Enabled(s)
  /\ s # "proxy" => registers.r1 = Iat
  /\ Scanning(s) => registers.r2 = (IF s \in LateStages THEN Call ELSE End)
  /\ FromInstance(s) => registers.r3 = Guard

Arm(s, k) ==
  \/ /\ Verified(s, k, Rewritten(s, k))
     /\ stop' = [t \in Armed \cup {s} |-> IF t = s THEN k ELSE stop[t]]
     /\ dr' = Rewritten(s, k)
     /\ arm_event' = CASE s = "codec" -> [arm_event EXCEPT !.codec = event_count']
                       [] s = "binding" -> [arm_event EXCEPT !.binding = event_count']
                       [] s = "asi_return" -> [arm_event EXCEPT !.asi = event_count']
                       [] OTHER -> arm_event
     /\ UNCHANGED reason
  \/ /\ \/ ~ Verified(s, k, Rewritten(s, k)) /\ \E r \in ArmFailures(s) : Finish(r)
        \/ Fault(ArmFailures(s))
     /\ UNCHANGED <<stop, dr, arm_event>>

\* Mutant of StageDone: a stage with several stops is done one stop early.
StageDoneEarly(s, k) == k >= Stops(s) - 1

StageDone(s, k) == k = Stops(s)

\* The stop held: the next stop of its stage is armed, or the first one of the
\* next stage once its preconditions hold, or the run has what it was asked for.
Proceed(s, k) ==
  IF ~ StageDone(s, k)
  THEN /\ \E j \in NextStops(s, k) : Arm(s, j)
       /\ UNCHANGED passed
  ELSE LET line == Line(goal)
           i == Index(line, s)
       IN /\ passed' = passed \cup {s}
          /\ IF i = Len(line)
             THEN /\ Fault(ClosingChecks(s, goal)) \/ \E r \in Success(goal) : Finish(r)
                  /\ UNCHANGED <<stop, dr, arm_event>>
             ELSE \/ /\ Fault(Preconditions(line[i + 1], goal))
                     /\ UNCHANGED <<stop, dr, arm_event>>
                  \/ Arm(line[i + 1], 1)

\* The handler of a stop that passed the guards.
Handle(s, handle) ==
  \/ /\ Fault(StopChecks(s, stop[s]))
     /\ UNCHANGED <<stop, evidence, dr>>
  \/ /\ Rejection(s, handle) # "none"
     /\ Finish(Rejection(s, handle))
     /\ UNCHANGED <<stop, evidence, dr>>
  \/ /\ Rejection(s, handle) = "none"
     /\ found' = Findings(s)
     /\ Proceed(s, stop[s])

\* The handle a LoadLibrary call of the debuggee returned, where one is read.
Handles(s) == IF s \in {"codec", "asi_return"} THEN Bases \ {NullBase} ELSE {NullBase}

\* EXCEPTION.
Exception(trap) ==
  /\ Receive
  /\ UNCHANGED <<goal, started, thread_count, modules, charged_bytes, continued, disturbed, ledger>>
  /\ \/ InitialBreakpoint(trap)
     \/ /\ Released
        /\ UNCHANGED breakpoint_candidate
        /\ IF GuardVerdict(trap) # "none"
           THEN /\ Finish(GuardVerdict(trap)) \/ Fault({"entry_context_read_failed"})
                /\ UNCHANGED <<stop, evidence, dr>>
           ELSE \E handle \in Handles(HandlerStage) : Handle(HandlerStage, handle)

\* The steps of the observer, which its thread takes, and those of the debuggee
\* and the system, which need not come.
Observer == Begin \/ Continue \/ WaitEnds

Debuggee ==
  \/ \E p \in Placements : LoadDll(p[1], p[2])
  \/ \E base \in Unloadable : UnloadDll(base)
  \/ CreateThread
  \/ OtherEvent
  \/ ForeignEvent
  \/ \E trap \in Traps : Exception(trap)
  \/ Tamper

Next == Observer \/ Debuggee \/ WrongThread \/ (~ Running /\ UNCHANGED vars)

\* The loop's thread always gets to run, and a wait ends at the deadline.
Spec ==
  /\ Init /\ [][Next]_vars
  /\ WF_vars(Begin) /\ WF_vars(Continue) /\ WF_vars(WaitEnds)

-----------------------------------------------------------------------------
\* Every variable has its type, and no count passes the limit that guards it.
TypeOK ==
  /\ goal \in Goals
  /\ started \in BOOLEAN /\ pending \in BOOLEAN
  /\ event_count \in 1 .. EventLimit
  /\ thread_count \in 1 .. ThreadLimit + 1
  /\ Len(modules) <= limit
  /\ charged_bytes \in 0 .. ByteLimit
  /\ Armed \subseteq Permitted(goal)
  /\ \A s \in Armed : stop[s] \in 1 .. Stops(s)
  /\ continued \subseteq Armed /\ passed \subseteq Armed
  /\ dr.on \subseteq {0, 1, 2, 3}
  /\ DOMAIN found.codec \in {{}, DOMAIN CodecModules}

\* The observer blames the debug registers only when the debuggee wrote them:
\* the address, the guards and the mask the loop expects at a stop are always
\* those the handlers armed, along every line (the chains of conditions that
\* compute them are over thirty flags long).
IdentityAlarmIsReal ==
  reason \in {"entry_breakpoint_identity", "instance_guard_identity",
              "entry_breakpoint_lost_before_initialization"} => disturbed

\* The stop the debuggee runs towards is the one armed last, and the handler
\* the loop will choose for it is the one of its stage: no stage is judged by
\* the handler of another.
NextHandlerOwnsStop ==
  (Running /\ started /\ ~ pending /\ Released /\ ~ disturbed)
    => /\ HandlerStage = Last(Armed)
       /\ dr.r0 = Address(HandlerStage, stop[HandlerStage])

\* What a handler writes to the debug registers is what it reads back: arming
\* fails only because the system refused, or the debuggee interfered.
ArmingHolds ==
  (\E s \in Stages : reason \in ArmFailures(s)) => disturbed \/ MayRefuse

\* A run that blames the debug registers, at a stop or while it arms the next
\* one, blames a debuggee that wrote them or a system that refused.
AlarmsAreReal == IdentityAlarmIsReal /\ ArmingHolds

\* While the run goes on, the mappings its verdicts rest on are mapped: the
\* proxy since the entry stop, the codec modules since theirs, the ASI since
\* its load returned.
MappingsTrusted ==
  Running =>
    /\ found.proxy # 0 => Ledger!Live(found.proxy)
    /\ ("binding" \in continued) => \A n \in DOMAIN found.codec : Ledger!Live(found.codec[n])
    /\ found.asi # 0 => Ledger!Live(found.asi)

\* trace.modules and the ledger tell the same story of every admitted mapping.
LedgerInStep ==
  \A i \in DOMAIN modules :
    LET m == modules[i]
    IN m.mapping_id # 0 =>
         /\ m.mapping_id = i
         /\ history[i].base = m.base
         /\ history[i].load_event = m.event_index
         /\ history[i].unload_event = m.unload_event_index

\* Nothing is mapped between the stop after the codec bindings and the call
\* that loads the ASI, and the ASI's own mapping is newer than that call.
QuietScan ==
  (Running /\ "binding" \in Armed) =>
    \A i \in DOMAIN modules :
      modules[i].event_index > arm_event.binding =>
        "asi_return" \in Armed /\ modules[i].event_index > arm_event.asi

\* Refusals the code keeps for states it means never to reach: the ledger's
\* own limit and order, a record out of step with the ledger, and mappings
\* older than the stop they are looked for at.
DefensiveUnreachable ==
  reason \notin {"loader_mapping_invalid_limit", "loader_mapping_limit",
                 "loader_mapping_event_order", "loader_mapping_history_mismatch",
                 "codec_mapping_not_fresh", "asi_mapping_not_fresh"}

\* The run is a walk along its line, and it ends whatever the debuggee does.
Walk == INSTANCE LineWalk WITH
  at <- IF Armed = {} THEN <<"start", 0>> ELSE <<Last(Armed), stop[Last(Armed)]>>,
  outcome <- IF Running THEN "walking" ELSE IF reason \in Success(goal) THEN "verified" ELSE "refused"

WalkKept == Walk!Spec
=============================================================================
