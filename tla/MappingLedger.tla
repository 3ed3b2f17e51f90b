--------------------------- MODULE MappingLedger ---------------------------
(***************************************************************************)
(* LoaderMappingLedger: the observer's own record of which DLL mappings of *)
(* the debuggee are live.  Bases are reused by Windows, so a mapping is    *)
(* named by an identifier that the ledger never hands out twice.           *)
(***************************************************************************)
EXTENDS Integers, Sequences, FiniteSets

CONSTANTS
  Bases,          \* the image bases a debug event may carry, the null base included
  NullBase,       \* the zero address
  MaxMappings,    \* max_loader_mappings, 64 in the code
  Limits,         \* the limits a ledger may be constructed with, invalid ones included
  MaxEvent        \* bound on the event numbers a caller passes

ASSUME LedgerAssumption ==
  /\ NullBase \in Bases
  /\ MaxMappings \in Nat
  /\ Limits \subseteq Nat
  /\ MaxEvent \in Nat

VARIABLES
  limit,       \* limit_
  history,     \* history_[0 .. count_ - 1]: base, id, load_event, unload_event
  active_,     \* active_
  last_event,  \* last_event_
  transition   \* the MappingTransition the last call returned

vars == <<limit, history, active_, last_event, transition>>

LoaderMapping ==
  [base : Bases, id : Nat, load_event : Nat, unload_event : Nat]

Errors == {"none", "loader_mapping_invalid_limit", "loader_mapping_invalid_base",
           "loader_mapping_event_order", "loader_mapping_base_active",
           "loader_mapping_limit", "loader_mapping_not_active"}

\* history() is the span of the first count_ entries, so count_ is its length.
count_ == Len(history)

\* An entry whose mapping is still in the debuggee's address space.
Live(i) == history[i].unload_event = 0

\* active(id, base): does this identifier still name the mapping at this base?
Active(id, base) ==
  /\ id \in 1 .. count_
  /\ base # NullBase
  /\ history[id].base = base
  /\ Live(id)

active_count == active_
unload_count == count_ - active_

\* Mutant of Validate: the event of the last change is accepted again.
ValidateSameEvent(base, event) ==
  IF limit = 0 \/ limit > MaxMappings THEN "loader_mapping_invalid_limit"
  ELSE IF base = NullBase THEN "loader_mapping_invalid_base"
  ELSE IF event = 0 \/ event < last_event THEN "loader_mapping_event_order"
  ELSE "none"

\* validate(base, event): the error shared by admit and retire, "none" when none.
Validate(base, event) ==
  IF limit = 0 \/ limit > MaxMappings THEN "loader_mapping_invalid_limit"
  ELSE IF base = NullBase THEN "loader_mapping_invalid_base"
  ELSE IF event = 0 \/ event <= last_event THEN "loader_mapping_event_order"
  ELSE "none"

BaseIsLive(base) == \E i \in 1 .. count_ : history[i].base = base /\ Live(i)

\* Mutant of AdmitError: no scan for a live mapping at the same base.
AdmitErrorNoScan(base, event) ==
  IF Validate(base, event) # "none" THEN Validate(base, event)
  ELSE IF count_ = limit THEN "loader_mapping_limit"
  ELSE "none"

\* Mutant of AdmitError: the limit applied to the live mappings instead of all.
AdmitErrorActiveLimit(base, event) ==
  IF Validate(base, event) # "none" THEN Validate(base, event)
  ELSE IF BaseIsLive(base) THEN "loader_mapping_base_active"
  ELSE IF active_ = limit THEN "loader_mapping_limit"
  ELSE "none"

\* The error admit(base, event) returns, "none" when it admits.
AdmitError(base, event) ==
  IF Validate(base, event) # "none" THEN Validate(base, event)
  ELSE IF BaseIsLive(base) THEN "loader_mapping_base_active"
  ELSE IF count_ = limit THEN "loader_mapping_limit"
  ELSE "none"

\* The error retire(base, event) returns, "none" when it retires.
RetireError(base, event) ==
  IF Validate(base, event) # "none" THEN Validate(base, event)
  ELSE IF ~ BaseIsLive(base) THEN "loader_mapping_not_active"
  ELSE "none"

-----------------------------------------------------------------------------

Init ==
  /\ limit \in Limits
  /\ history = <<>>
  /\ active_ = 0
  /\ last_event = 0
  /\ transition = [mapping_id |-> 0, error |-> "none"]

Refuse(error) ==
  /\ error # "none"
  /\ transition' = [mapping_id |-> 0, error |-> error]
  /\ UNCHANGED <<limit, history, active_, last_event>>

\* Mutant of Admit: the identifier taken from the live count.
AdmitIdFromActive(base, event) ==
  \/ Refuse(AdmitError(base, event))
  \/ /\ AdmitError(base, event) = "none"
     /\ history' = Append(history, [base |-> base, id |-> active_ + 1,
                                    load_event |-> event, unload_event |-> 0])
     /\ active_' = active_ + 1
     /\ last_event' = event
     /\ transition' = [mapping_id |-> active_ + 1, error |-> "none"]
     /\ UNCHANGED limit

\* Mutant of Admit: a retired entry of the same base is brought back to life.
AdmitReviving(base, event) ==
  \/ Refuse(AdmitError(base, event))
  \/ /\ AdmitError(base, event) = "none"
     /\ LET old == {i \in 1 .. count_ : history[i].base = base}
        IN history' = IF old = {}
                      THEN Append(history, [base |-> base, id |-> count_ + 1,
                                            load_event |-> event, unload_event |-> 0])
                      ELSE [i \in 1 .. count_ |->
                              IF i \in old THEN [history[i] EXCEPT !.unload_event = 0]
                              ELSE history[i]]
     /\ active_' = active_ + 1
     /\ last_event' = event
     /\ transition' = [mapping_id |-> count_ + 1, error |-> "none"]
     /\ UNCHANGED limit

\* admit(base, event): a LOAD_DLL debug event whose file was already checked.
Admit(base, event) ==
  \/ Refuse(AdmitError(base, event))
  \/ /\ AdmitError(base, event) = "none"
     /\ history' = Append(history, [base |-> base, id |-> count_ + 1,
                                    load_event |-> event, unload_event |-> 0])
     /\ active_' = active_ + 1
     /\ last_event' = event
     /\ transition' = [mapping_id |-> count_ + 1, error |-> "none"]
     /\ UNCHANGED limit

\* Mutant of Retire: the live count is decremented before the scan.
RetireCountsFirst(base, event) ==
  /\ active_' = active_ - 1
  /\ UNCHANGED <<limit, history, last_event>>
  /\ transition' = [mapping_id |-> 0, error |-> RetireError(base, event)]

\* Mutant of Retire: the live count is not maintained.
RetireKeepsCount(base, event) ==
  /\ RetireError(base, event) = "none"
  /\ \E i \in 1 .. count_ :
       /\ history[i].base = base /\ Live(i)
       /\ history' = [history EXCEPT ![i].unload_event = event]
       /\ transition' = [mapping_id |-> history[i].id, error |-> "none"]
  /\ last_event' = event
  /\ UNCHANGED <<limit, active_>>

\* retire(base, event): an UNLOAD_DLL debug event.  The loop takes the first
\* live entry with that base.
Retire(base, event) ==
  \/ Refuse(RetireError(base, event))
  \/ /\ RetireError(base, event) = "none"
     /\ \E i \in 1 .. count_ :
          /\ history[i].base = base /\ Live(i)
          /\ \A j \in 1 .. i - 1 : ~ (history[j].base = base /\ Live(j))
          /\ history' = [history EXCEPT ![i].unload_event = event]
          /\ transition' = [mapping_id |-> history[i].id, error |-> "none"]
     /\ active_' = active_ - 1
     /\ last_event' = event
     /\ UNCHANGED limit

Next == \E base \in Bases, event \in 0 .. MaxEvent :
          Admit(base, event) \/ Retire(base, event)

Spec == Init /\ [][Next]_vars

-----------------------------------------------------------------------------

\* Every variable keeps the type its C++ field has.
TypeOK ==
  /\ limit \in Limits
  /\ history \in Seq(LoaderMapping)
  /\ active_ \in Nat
  /\ last_event \in Nat
  /\ transition \in [mapping_id : Nat, error : Errors]

\* "IDs are never reused, even for the same base": the identifier of an entry
\* is its position, whatever was retired before it was admitted.
IdsArePositions == \A i \in 1 .. count_ : history[i].id = i

\* A recorded mapping is never of the null base: active(id, 0) is always false.
NoNullMapping == \A i \in 1 .. count_ : history[i].base # NullBase

\* Two live mappings never share a base, so retire has one candidate at most
\* and a live base determines one identifier.
LiveBasesDistinct ==
  \A i, j \in 1 .. count_ :
    Live(i) /\ Live(j) /\ history[i].base = history[j].base => i = j

\* Loads are recorded in event order, an unload comes after its load, nothing
\* is later than last_event_, and one debug event makes at most one change: no
\* event number is both a load and an unload, or unloads two mappings.
EventsOrdered ==
  /\ \A i \in 1 .. count_ :
       /\ history[i].load_event \in 1 .. last_event
       /\ ~ Live(i) => history[i].unload_event \in history[i].load_event + 1 .. last_event
  /\ \A i, j \in 1 .. count_ :
       /\ i < j => history[i].load_event < history[j].load_event
       /\ ~ Live(i) => history[i].unload_event # history[j].load_event
       /\ ~ Live(i) /\ i # j => history[i].unload_event # history[j].unload_event

\* active_count() and unload_count() count what history() shows, and neither
\* unsigned counter ever wraps below zero.
CountsAgree == active_ = Cardinality({i \in 1 .. count_ : Live(i)})

\* The array of 64 entries is never indexed past its end.
WithinArray == count_ <= limit /\ (count_ > 0 => limit <= MaxMappings)

\* What a reader of the ledger relies on, in one invariant.
LedgerInvariant ==
  /\ TypeOK /\ IdsArePositions /\ NoNullMapping /\ LiveBasesDistinct
  /\ EventsOrdered /\ CountsAgree /\ WithinArray

\* What one step does to the history: entries are neither removed nor renamed,
\* and the only field that ever changes is unload_event, once, from zero.
HistoryStep ==
  /\ Len(history') >= Len(history)
  /\ \A i \in 1 .. Len(history) :
       /\ history'[i].base = history[i].base
       /\ history'[i].id = history[i].id
       /\ history'[i].load_event = history[i].load_event
       /\ history[i].unload_event # 0 => history'[i].unload_event = history[i].unload_event

\* History is append-only and a retired entry stays retired: an identifier
\* kept by the observer after an unload never becomes valid again, even when
\* the same DLL is mapped at the same base.
HistoryAppendOnly == [][HistoryStep]_vars
=============================================================================
