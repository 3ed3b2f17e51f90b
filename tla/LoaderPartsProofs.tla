------------------------- MODULE LoaderPartsProofs -------------------------
(***************************************************************************)
(* The two parts of the observer that keep a state of their own.  The      *)
(* ledger's invariants hold for every limit, every set of bases and every  *)
(* sequence of calls; the suppression's for every answer of its port.      *)
(***************************************************************************)
EXTENDS MCLoaderParts, FiniteSetTheorems, SequenceTheorems, TLAPS

\* The part of the invariant that does not count.
Shape ==
  /\ limit \in Limits
  /\ history \in Seq(LoaderMapping)
  /\ last_event \in Nat
  /\ transition \in [mapping_id : Nat, error : Errors]
  /\ IdsArePositions /\ NoNullMapping /\ LiveBasesDistinct
  /\ EventsOrdered /\ WithinArray

LiveSet == {i \in 1 .. count_ : Live(i)}

\* A refused call leaves the ledger as it was and reports one of its errors.
LEMMA RefuseKeeps ==
  ASSUME Shape, NEW error \in Errors, Refuse(error)
  PROVE  Shape' /\ UNCHANGED <<history, active_>>
  BY DEF Shape, Refuse, IdsArePositions, NoNullMapping, LiveBasesDistinct,
         EventsOrdered, WithinArray, count_, Live

\* Every answer of admit and retire is one of the ledger's errors.
LEMMA ErrorTypes ==
  ASSUME NEW base, NEW event
  PROVE  AdmitError(base, event) \in Errors /\ RetireError(base, event) \in Errors
  BY DEF AdmitError, RetireError, Validate, Errors

\* What a successful admit does: one new live entry at the end.
LEMMA AdmitShape ==
  ASSUME Shape, NEW base \in Bases, NEW event \in 0 .. MaxEvent,
         AdmitError(base, event) = "none",
         history' = Append(history, [base |-> base, id |-> count_ + 1,
                                    load_event |-> event, unload_event |-> 0]),
         last_event' = event,
         transition' = [mapping_id |-> count_ + 1, error |-> "none"],
         UNCHANGED limit
  PROVE  Shape' /\ LiveSet' = LiveSet \cup {count_ + 1} /\ count_ + 1 \notin LiveSet
<1> DEFINE new == [base |-> base, id |-> count_ + 1, load_event |-> event, unload_event |-> 0]
<1>1. /\ base # NullBase /\ event > last_event /\ event \in Nat /\ event > 0
      /\ ~ BaseIsLive(base) /\ count_ # limit /\ limit <= MaxMappings
  BY LedgerAssumption DEF AdmitError, Validate, Shape, WithinArray
<1>2. /\ count_ \in Nat /\ limit \in Nat /\ MaxMappings \in Nat
      /\ history \in Seq(LoaderMapping) /\ last_event \in Nat
  BY LedgerAssumption DEF Shape, count_
<1>3. new \in LoaderMapping
  BY <1>1, <1>2 DEF LoaderMapping
<1>4. /\ history' \in Seq(LoaderMapping)
      /\ Len(history') = count_ + 1
      /\ \A i \in 1 .. count_ : history'[i] = history[i]
      /\ history'[count_ + 1] = new
  BY <1>2, <1>3 DEF count_
<1>5. IdsArePositions'
  BY <1>2, <1>4 DEF IdsArePositions, Shape, count_
<1>6. NoNullMapping'
  BY <1>1, <1>2, <1>4 DEF NoNullMapping, Shape, count_
<1>7. LiveBasesDistinct'
  BY <1>1, <1>2, <1>4 DEF LiveBasesDistinct, Shape, count_, Live, BaseIsLive
<1>8. EventsOrdered'
  <2> USE <1>1, <1>2
  <2>1. \A i \in 1 .. count_ : history[i] \in LoaderMapping
    BY DEF count_
  <2>2. \A i \in 1 .. count_ :
          /\ history[i].load_event \in 1 .. last_event /\ history[i].unload_event \in Nat
          /\ ~ Live(i) => history[i].unload_event \in history[i].load_event + 1 .. last_event
    BY <2>1 DEF EventsOrdered, Shape, LoaderMapping
  <2>3. (1 .. Len(history))' = 1 .. count_ + 1
    BY <1>4
  <2>4. \A i \in 1 .. count_ + 1 :
          /\ history'[i].load_event \in 1 .. event
          /\ history'[i].unload_event # 0 =>
               history'[i].unload_event \in history'[i].load_event + 1 .. event
    BY <1>4, <2>2 DEF Live
  <2>5. ASSUME NEW i \in 1 .. count_ + 1, NEW j \in 1 .. count_ + 1
        PROVE  /\ i < j => history'[i].load_event < history'[j].load_event
               /\ history'[i].unload_event # 0 =>
                    history'[i].unload_event # history'[j].load_event
               /\ history'[i].unload_event # 0 /\ i # j =>
                    history'[i].unload_event # history'[j].unload_event
    <3>1. CASE i \in 1 .. count_ /\ j \in 1 .. count_
      BY <1>4, <3>1 DEF EventsOrdered, Shape, Live
    <3>2. CASE i \in 1 .. count_ /\ j = count_ + 1
      BY <1>4, <2>2, <3>2 DEF Live
    <3>3. CASE i = count_ + 1
      BY <1>4, <3>3
    <3>4. \/ i = count_ + 1
          \/ i \in 1 .. count_ /\ (j \in 1 .. count_ \/ j = count_ + 1)
      OBVIOUS
    <3> QED
      BY <3>1, <3>2, <3>3, <3>4
  <2> QED
    BY <2>3, <2>4, <2>5 DEF EventsOrdered, count_, Live
<1>9. WithinArray'
  BY <1>1, <1>2, <1>4 DEF WithinArray, Shape, count_
<1>10. LiveSet' = LiveSet \cup {count_ + 1} /\ count_ + 1 \notin LiveSet
  BY <1>2, <1>4 DEF LiveSet, count_, Live
<1> QED
  BY <1>1, <1>2, <1>4, <1>5, <1>6, <1>7, <1>8, <1>9, <1>10 DEF Shape, Errors

\* What a successful retire does: one live entry gets its unload event.
LEMMA RetireShape ==
  ASSUME Shape, NEW base \in Bases, NEW event \in 0 .. MaxEvent,
         RetireError(base, event) = "none",
         NEW i \in 1 .. count_,
         history[i].base = base, Live(i),
         history' = [history EXCEPT ![i].unload_event = event],
         last_event' = event,
         transition' = [mapping_id |-> history[i].id, error |-> "none"],
         UNCHANGED limit
  PROVE  Shape' /\ LiveSet' = LiveSet \ {i} /\ i \in LiveSet
<1>1. base # NullBase /\ event > last_event /\ event \in Nat /\ event > 0
  BY LedgerAssumption DEF RetireError, Validate, Shape
<1>2. /\ count_ \in Nat /\ history \in Seq(LoaderMapping) /\ last_event \in Nat
      /\ \A j \in 1 .. count_ : history[j] \in LoaderMapping
  BY DEF Shape, count_
<1>3. /\ history' \in Seq(LoaderMapping)
      /\ Len(history') = count_
      /\ \A j \in 1 .. count_ : j # i => history'[j] = history[j]
      /\ history'[i] = [history[i] EXCEPT !.unload_event = event]
  <2>1. [history[i] EXCEPT !.unload_event = event] \in LoaderMapping
    BY <1>1, <1>2 DEF LoaderMapping
  <2>2. history' = [history EXCEPT ![i] = [history[i] EXCEPT !.unload_event = event]]
    OBVIOUS
  <2> QED
    BY <1>2, <2>1, <2>2 DEF count_
<1>4. /\ history'[i].base = history[i].base /\ history'[i].id = history[i].id
      /\ history'[i].load_event = history[i].load_event
      /\ history'[i].unload_event = event
  BY <1>2, <1>3 DEF LoaderMapping
<1>5. IdsArePositions' /\ NoNullMapping' /\ WithinArray'
  BY <1>2, <1>3, <1>4 DEF IdsArePositions, NoNullMapping, WithinArray, Shape, count_
<1>6. LiveBasesDistinct'
  BY <1>1, <1>2, <1>3, <1>4 DEF LiveBasesDistinct, Shape, count_, Live
<1>7. EventsOrdered'
  <2> USE <1>1, <1>2
  <2>1. \A j \in 1 .. count_ :
          /\ history[j].load_event \in 1 .. last_event /\ history[j].unload_event \in Nat
          /\ ~ Live(j) => history[j].unload_event \in history[j].load_event + 1 .. last_event
    BY DEF EventsOrdered, Shape, LoaderMapping
  <2>2. (1 .. Len(history))' = 1 .. count_
    BY <1>3
  <2>3. \A j \in 1 .. count_ :
          /\ history'[j].load_event \in 1 .. event
          /\ history'[j].unload_event # 0 =>
               history'[j].unload_event \in history'[j].load_event + 1 .. event
    BY <1>3, <1>4, <2>1 DEF Live
  <2>4. ASSUME NEW j \in 1 .. count_, NEW k \in 1 .. count_
        PROVE  /\ j < k => history'[j].load_event < history'[k].load_event
               /\ history'[j].unload_event # 0 =>
                    history'[j].unload_event # history'[k].load_event
               /\ history'[j].unload_event # 0 /\ j # k =>
                    history'[j].unload_event # history'[k].unload_event
    <3>1. CASE j # i /\ k # i
      BY <1>3, <3>1 DEF EventsOrdered, Shape, Live
    <3>2. CASE j = i
      BY <1>3, <1>4, <2>1, <3>2 DEF EventsOrdered, Shape, Live
    <3>3. CASE j # i /\ k = i
      BY <1>3, <1>4, <2>1, <3>3 DEF EventsOrdered, Shape, Live
    <3> QED
      BY <3>1, <3>2, <3>3
  <2> QED
    BY <2>2, <2>3, <2>4 DEF EventsOrdered, count_, Live
<1>8. LiveSet' = LiveSet \ {i} /\ i \in LiveSet
  BY <1>1, <1>2, <1>3, <1>4 DEF LiveSet, count_, Live
<1> QED
  BY <1>1, <1>2, <1>3, <1>5, <1>6, <1>7, <1>8 DEF Shape, Errors, LoaderMapping

\* The live entries are finitely many, so adding or removing one moves the
\* count by exactly one.
LEMMA LiveSetFinite ==
  ASSUME count_ \in Nat
  PROVE  IsFiniteSet(LiveSet)
<1>1. IsFiniteSet(1 .. count_)
  BY FS_Interval
<1> QED
  BY <1>1, FS_Subset DEF LiveSet

\* TypeOK, the identifier, base, order, counter and bound properties hold in
\* every reachable state of the ledger, for every limit and set of bases.
THEOREM LedgerSafe == Spec => []LedgerInvariant
<1>1. Init => LedgerInvariant
  <2> SUFFICES ASSUME Init PROVE LedgerInvariant
    OBVIOUS
  <2>1. {i \in 1 .. Len(history) : Live(i)} = {} /\ Len(history) = 0
    BY DEF Init
  <2>2. Cardinality({}) = 0
    BY FS_EmptySet
  <2> QED
    BY <2>1, <2>2, LedgerAssumption
    DEF Init, LedgerInvariant, TypeOK, IdsArePositions, NoNullMapping, LiveBasesDistinct,
        EventsOrdered, CountsAgree, WithinArray, count_, Errors
<1>2. LedgerInvariant /\ [Next]_vars => LedgerInvariant'
  <2> SUFFICES ASSUME LedgerInvariant, [Next]_vars PROVE LedgerInvariant'
    OBVIOUS
  <2>1. Shape /\ CountsAgree /\ active_ \in Nat /\ count_ \in Nat
    BY DEF LedgerInvariant, Shape, TypeOK, count_
  <2>2. IsFiniteSet(LiveSet)
    BY <2>1, LiveSetFinite
  <2>3. ASSUME Shape', active_' \in Nat, CountsAgree' PROVE LedgerInvariant'
    BY <2>3 DEF LedgerInvariant, Shape, TypeOK
  <2>4. ASSUME NEW error \in Errors, Refuse(error) PROVE LedgerInvariant'
    <3>1. Shape' /\ UNCHANGED <<history, active_>>
      BY <2>1, <2>4, RefuseKeeps
    <3>2. active_' \in Nat /\ CountsAgree'
      BY <2>1, <3>1 DEF CountsAgree, count_, Live
    <3> QED
      BY <2>3, <3>1, <3>2
  <2>5. ASSUME NEW base \in Bases, NEW event \in 0 .. MaxEvent, Admit(base, event)
        PROVE  LedgerInvariant'
    <3>1. CASE Refuse(AdmitError(base, event))
      BY <2>4, <3>1, ErrorTypes
    <3>2. CASE ~ Refuse(AdmitError(base, event))
      <4>1. Shape' /\ LiveSet' = LiveSet \cup {count_ + 1} /\ count_ + 1 \notin LiveSet
            /\ active_' = active_ + 1
        BY <2>1, <2>5, <3>2, AdmitShape DEF Admit
      <4>2. Cardinality(LiveSet') = Cardinality(LiveSet) + 1
        BY <2>2, <4>1, FS_AddElement
      <4>3. active_' \in Nat /\ CountsAgree'
        BY <2>1, <4>1, <4>2 DEF CountsAgree, LiveSet
      <4> QED
        BY <2>3, <4>1, <4>3
    <3> QED
      BY <3>1, <3>2
  <2>6. ASSUME NEW base \in Bases, NEW event \in 0 .. MaxEvent, Retire(base, event)
        PROVE  LedgerInvariant'
    <3>1. CASE Refuse(RetireError(base, event))
      BY <2>4, <3>1, ErrorTypes
    <3>2. CASE ~ Refuse(RetireError(base, event))
      <4>1. PICK i \in 1 .. count_ :
              /\ history[i].base = base /\ Live(i)
              /\ history' = [history EXCEPT ![i].unload_event = event]
              /\ transition' = [mapping_id |-> history[i].id, error |-> "none"]
        BY <2>6, <3>2 DEF Retire
      <4>2. /\ Shape' /\ LiveSet' = LiveSet \ {i} /\ i \in LiveSet
            /\ active_' = active_ - 1
        BY <2>1, <2>6, <3>2, <4>1, RetireShape DEF Retire
      <4>3. /\ Cardinality(LiveSet') = Cardinality(LiveSet) - 1
            /\ Cardinality(LiveSet') \in Nat
        <5>1. /\ IsFiniteSet(LiveSet \ {i})
              /\ Cardinality(LiveSet \ {i}) = Cardinality(LiveSet) - 1
          BY <2>2, <4>2, FS_RemoveElement
        <5>2. Cardinality(LiveSet \ {i}) \in Nat
          BY <5>1, FS_CardinalityType
        <5> QED
          BY <4>2, <5>1, <5>2
      <4>4. active_' \in Nat /\ CountsAgree'
        BY <2>1, <4>2, <4>3 DEF CountsAgree, LiveSet
      <4> QED
        BY <2>3, <4>2, <4>4
    <3> QED
      BY <3>1, <3>2
  <2>7. CASE UNCHANGED vars
    BY <2>7 DEF vars, LedgerInvariant, TypeOK, IdsArePositions, NoNullMapping,
       LiveBasesDistinct, EventsOrdered, CountsAgree, WithinArray, count_, Live
  <2> QED
    BY <2>5, <2>6, <2>7 DEF Next
<1> QED
  BY <1>1, <1>2, PTL DEF Spec

\* No call removes, renames or revives an entry: an identifier kept after an
\* unload stays dead even when its base is mapped again.
THEOREM HistoryOnlyGrows == Spec => HistoryAppendOnly
<1>1. LedgerInvariant /\ [Next]_vars => [HistoryStep]_vars
  <2> SUFFICES ASSUME LedgerInvariant, Next PROVE HistoryStep
    BY DEF vars
  <2>1. /\ history \in Seq(LoaderMapping) /\ count_ \in Nat
        /\ \A i \in 1 .. count_ : history[i] \in LoaderMapping
    BY DEF LedgerInvariant, TypeOK, count_
  <2>2. PICK base \in Bases, event \in 0 .. MaxEvent : Admit(base, event) \/ Retire(base, event)
    BY DEF Next
  <2>3. CASE UNCHANGED history
    BY <2>1, <2>3 DEF HistoryStep
  <2>4. CASE history' = Append(history, [base |-> base, id |-> count_ + 1,
                                         load_event |-> event, unload_event |-> 0])
    BY <2>1, <2>4 DEF HistoryStep, count_
  <2>5. ASSUME NEW i \in 1 .. count_, Live(i),
               history' = [history EXCEPT ![i].unload_event = event]
        PROVE  HistoryStep
    <3>1. Len(history') = Len(history)
      BY <2>1, <2>5
    <3>2. ASSUME NEW j \in 1 .. count_
          PROVE  /\ history'[j].base = history[j].base
                 /\ history'[j].id = history[j].id
                 /\ history'[j].load_event = history[j].load_event
                 /\ history[j].unload_event # 0 => history'[j].unload_event = history[j].unload_event
      <4>1. CASE j = i
        <5>1. history[i].unload_event = 0
          BY <2>5 DEF Live
        <5>2. history'[i] = [history[i] EXCEPT !.unload_event = event]
          <6>1. i \in DOMAIN history
            BY <2>1, LenProperties DEF count_
          <6> QED
            BY <2>5, <6>1, Zenon
        <5> QED
          <6>1. /\ history'[i].base = history[i].base /\ history'[i].id = history[i].id
                /\ history'[i].load_event = history[i].load_event
            BY <2>1, <5>2 DEF LoaderMapping
          <6> QED
            BY <4>1, <5>1, <6>1
      <4>2. CASE j # i
        BY <2>1, <2>5, <4>2
      <4> QED
        BY <4>1, <4>2
    <3> QED
      BY <2>1, <3>1, <3>2 DEF HistoryStep, count_
  <2> QED
    BY <2>2, <2>3, <2>4, <2>5 DEF Admit, Retire, Refuse
<1> QED
  BY <1>1, LedgerSafe, PTL DEF Spec, HistoryAppendOnly

-----------------------------------------------------------------------------
Phases == {"idle", "write", "readback", "undo", "return", "finished"}

\* The transaction's variables, and its history of writes as far as it goes.
SuppressionTypes ==
  /\ regs \in {"call", "after", "other"} /\ debug \in {"event", "armed", "hit", "cleared", "other"}
  /\ phase \in Phases
  /\ write_attempted \in BOOLEAN /\ applied \in BOOLEAN /\ restore_attempted \in BOOLEAN
  /\ restored \in BOOLEAN /\ return_reached \in BOOLEAN /\ verified \in BOOLEAN
  /\ written \in [replacement : Nat, target : Nat]

\* Each write is counted by the flag that forbids the next one.
WritesCounted ==
  /\ written.replacement = IF write_attempted /\ phase # "write" THEN 1 ELSE 0
  /\ written.target = IF restore_attempted THEN 1 ELSE 0
  /\ restore_attempted => write_attempted /\ phase \in {"idle", "finished"}

\* Where the call in progress is, and what has come of it so far.
PhaseSays ==
  /\ phase \in {"write", "readback"} => write_attempted /\ ~ applied /\ failure = "none"
  /\ phase = "undo" => write_attempted /\ ~ applied /\ failure # "none"
  /\ phase = "return" => applied /\ ~ return_reached
  /\ phase \in {"return", "finished"} => write_attempted
  /\ applied => write_attempted /\ failure = "none"
  /\ phase = "idle" /\ write_attempted /\ ~ applied => restore_attempted
  /\ phase = "idle" /\ applied /\ ~ restore_attempted =>
       regs = "after" /\ debug = "armed"
  /\ restored => restore_attempted /\ regs = "call" /\ debug = "cleared"
  /\ verified => phase = "finished" /\ restored /\ applied /\ return_reached

SuppressionInvariant == SuppressionTypes /\ WritesCounted /\ PhaseSays

\* Nothing was written or attempted before the first call.
LEMMA SuppressionInitially == Suppression!Init => SuppressionInvariant
<1> SUFFICES ASSUME Suppression!Init PROVE SuppressionInvariant
  OBVIOUS
<1>1. SuppressionTypes
  BY DEF Suppression!Init, SuppressionTypes, Phases
<1>2. WritesCounted
  BY DEF Suppression!Init, WritesCounted
<1>3. PhaseSays
  BY DEF Suppression!Init, PhaseSays
<1> QED
  BY <1>1, <1>2, <1>3 DEF SuppressionInvariant

\* apply() is refused, or goes on to its only write.
LEMMA ApplyKeeps == SuppressionInvariant /\ Suppression!Apply => SuppressionInvariant'
<1> SUFFICES ASSUME SuppressionInvariant, Suppression!Apply PROVE SuppressionInvariant'
  OBVIOUS
<1> USE DEF SuppressionInvariant, SuppressionTypes
<1>1. UNCHANGED <<regs, debug, applied, restore_attempted, restored, return_reached, verified, written>>
      /\ phase = "idle"
  BY DEF Suppression!Apply
<1>2. CASE UNCHANGED <<write_attempted, phase>> /\ (UNCHANGED failure \/ ~ write_attempted)
  BY <1>1, <1>2 DEF WritesCounted, PhaseSays
<1>3. CASE ~ Suppression!Spent /\ write_attempted' = TRUE /\ phase' = "write" /\ UNCHANGED failure
  <2>1. ~ write_attempted /\ ~ restore_attempted /\ ~ applied /\ failure = "none" /\ ~ restored /\ ~ verified
    BY <1>3 DEF Suppression!Spent, PhaseSays
  <2> QED
    BY <1>1, <1>3, <2>1 DEF WritesCounted, PhaseSays, Phases
<1> QED
  BY <1>2, <1>3 DEF Suppression!Apply, Suppression!Spent

\* The replacement is written, whatever of it takes effect.
LEMMA WriteKeeps == SuppressionInvariant /\ Suppression!WriteReplacement => SuppressionInvariant'
BY DEF Suppression!WriteReplacement, Suppression!Write, Suppression!replacement, SuppressionInvariant, SuppressionTypes, WritesCounted, PhaseSays, Phases

\* apply() succeeds only on a context that is the replacement.
LEMMA ReadbackKeeps == SuppressionInvariant /\ Suppression!Readback => SuppressionInvariant'
<1> SUFFICES ASSUME SuppressionInvariant, Suppression!Readback PROVE SuppressionInvariant'
  OBVIOUS
<1> USE DEF SuppressionInvariant, SuppressionTypes
<1>1. UNCHANGED <<regs, debug, write_attempted, restore_attempted, restored, return_reached, verified, written>>
      /\ phase = "readback"
  BY DEF Suppression!Readback
<1>2. write_attempted /\ ~ applied /\ failure = "none" /\ ~ restore_attempted /\ ~ restored /\ ~ verified
  BY <1>1 DEF PhaseSays, WritesCounted
<1>3. CASE failure' # "none" /\ phase' = "undo" /\ UNCHANGED applied
  BY <1>1, <1>2, <1>3 DEF PhaseSays, WritesCounted, Phases
<1>4. CASE regs = "after" /\ debug = "armed" /\ applied' = TRUE /\ phase' = "idle" /\ UNCHANGED failure
  BY <1>1, <1>2, <1>4 DEF PhaseSays, WritesCounted, Phases
<1>5. Suppression!ReadsBack(Suppression!replacement) => regs = "after" /\ debug = "armed"
  BY DEF Suppression!ReadsBack, Suppression!replacement, Suppression!context
<1> QED
  BY <1>3, <1>4, <1>5 DEF Suppression!Readback

\* restore() writes at most once, and only then.
LEMMA RestoresOnce ==
  ASSUME SuppressionInvariant, Suppression!Restores
  PROVE  \/ /\ write_attempted /\ ~ restore_attempted /\ restore_attempted' = TRUE
            /\ regs' \in {"call", "after", "other"} /\ debug' \in {"event", "armed", "hit", "cleared", "other"}
            /\ written' \in [replacement : Nat, target : Nat]
            /\ written'.replacement = written.replacement /\ written'.target = written.target + 1
            /\ restored' \in BOOLEAN /\ (restored' => regs' = "call" /\ debug' = "cleared")
         \/ /\ ~ write_attempted \/ restore_attempted
            /\ UNCHANGED <<regs, debug, restore_attempted, restored, written>>
<1> USE DEF SuppressionInvariant, SuppressionTypes
<1>1. CASE Suppression!Restorable
  <2>1. /\ restore_attempted' = TRUE
        /\ regs' \in {regs, "call", "other"} /\ debug' \in {debug, "cleared", "other"}
        /\ written' = [written EXCEPT !["target"] = @ + 1]
        /\ restored' \in (IF regs' = "call" /\ debug' = "cleared" THEN BOOLEAN ELSE {FALSE})
    BY <1>1 DEF Suppression!Restores, Suppression!Write, Suppression!target
  <2>2. /\ written' \in [replacement : Nat, target : Nat]
        /\ written'.replacement = written.replacement /\ written'.target = written.target + 1
    BY <2>1
  <2>3. restored' \in BOOLEAN /\ (restored' => regs' = "call" /\ debug' = "cleared")
    BY <2>1
  <2> QED
    BY <1>1, <2>1, <2>2, <2>3 DEF Suppression!Restorable
<1>2. CASE ~ Suppression!Restorable
  BY <1>2 DEF Suppression!Restores, Suppression!Restorable
<1> QED
  BY <1>1, <1>2

\* Undone after a failed apply, or put back by the caller: once either way.
LEMMA RestoreKeeps ==
  SuppressionInvariant /\ (Suppression!Undo \/ Suppression!Restore) => SuppressionInvariant'
<1> SUFFICES ASSUME SuppressionInvariant, Suppression!Undo \/ Suppression!Restore
             PROVE  SuppressionInvariant'
  OBVIOUS
<1>1. /\ UNCHANGED <<failure, write_attempted, applied, return_reached, verified>>
      /\ phase \in {"undo", "idle"} /\ phase' = "idle"
  BY DEF Suppression!Undo, Suppression!Restore
<1>2. ~ verified /\ (phase = "undo" => write_attempted)
  BY <1>1 DEF SuppressionInvariant, PhaseSays
<1>3. Suppression!Restores
  BY DEF Suppression!Undo, Suppression!Restore
<1>4. CASE /\ write_attempted /\ ~ restore_attempted /\ restore_attempted' = TRUE
           /\ regs' \in {"call", "after", "other"} /\ debug' \in {"event", "armed", "hit", "cleared", "other"}
           /\ written' \in [replacement : Nat, target : Nat]
           /\ written'.replacement = written.replacement /\ written'.target = written.target + 1
           /\ restored' \in BOOLEAN /\ (restored' => regs' = "call" /\ debug' = "cleared")
  <2>1. SuppressionTypes'
    BY <1>1, <1>4 DEF SuppressionInvariant, SuppressionTypes, Phases
  <2>2. WritesCounted'
    BY <1>1, <1>4 DEF SuppressionInvariant, WritesCounted
  <2>3. PhaseSays'
    BY <1>1, <1>2, <1>4 DEF SuppressionInvariant, PhaseSays
  <2> QED
    BY <2>1, <2>2, <2>3 DEF SuppressionInvariant
<1>5. CASE /\ ~ write_attempted \/ restore_attempted
           /\ UNCHANGED <<regs, debug, restore_attempted, restored, written>>
  <2>1. SuppressionTypes'
    BY <1>1, <1>5 DEF SuppressionInvariant, SuppressionTypes, Phases
  <2>2. WritesCounted'
    BY <1>1, <1>2, <1>5 DEF SuppressionInvariant, WritesCounted
  <2>3. PhaseSays'
    BY <1>1, <1>2, <1>5 DEF SuppressionInvariant, PhaseSays, WritesCounted
  <2> QED
    BY <2>1, <2>2, <2>3 DEF SuppressionInvariant
<1> QED
  BY <1>3, <1>4, <1>5, RestoresOnce

\* The debuggee runs from the replacement to its next stop.
LEMMA ContinueKeeps == SuppressionInvariant /\ Suppression!Continue => SuppressionInvariant'
BY DEF Suppression!Continue, SuppressionInvariant, SuppressionTypes, WritesCounted, PhaseSays, Phases

\* The stop after the call ends the run, verified only if the restore went well.
LEMMA ReturnSiteKeeps == SuppressionInvariant /\ Suppression!ReturnSite => SuppressionInvariant'
<1> SUFFICES ASSUME SuppressionInvariant, Suppression!ReturnSite PROVE SuppressionInvariant'
  OBVIOUS
<1>1. /\ UNCHANGED <<failure, write_attempted, applied>> /\ return_reached' = TRUE
      /\ phase = "return" /\ phase' = "finished"
  BY DEF Suppression!ReturnSite
<1>2. applied /\ write_attempted /\ ~ restore_attempted /\ ~ restored /\ ~ verified /\ failure = "none"
  BY <1>1 DEF SuppressionInvariant, PhaseSays, WritesCounted
<1>3. CASE UNCHANGED <<regs, debug, restore_attempted, restored, verified, written>>
  <2>1. SuppressionTypes' /\ WritesCounted'
    BY <1>1, <1>2, <1>3 DEF SuppressionInvariant, SuppressionTypes, WritesCounted, Phases
  <2>2. PhaseSays'
    BY <1>1, <1>2, <1>3 DEF SuppressionInvariant, PhaseSays
  <2> QED
    BY <2>1, <2>2 DEF SuppressionInvariant
<1>4. CASE Suppression!Restores /\ verified' = restored'
  <2>1. /\ restore_attempted' = TRUE
        /\ regs' \in {"call", "after", "other"} /\ debug' \in {"event", "armed", "hit", "cleared", "other"}
        /\ written' \in [replacement : Nat, target : Nat]
        /\ written'.replacement = written.replacement /\ written'.target = written.target + 1
        /\ restored' \in BOOLEAN /\ (restored' => regs' = "call" /\ debug' = "cleared")
    BY <1>2, <1>4, RestoresOnce
  <2>2. SuppressionTypes'
    BY <1>1, <1>4, <2>1 DEF SuppressionInvariant, SuppressionTypes, Phases
  <2>3. WritesCounted'
    BY <1>1, <1>2, <2>1 DEF SuppressionInvariant, WritesCounted
  <2>4. PhaseSays'
    BY <1>1, <1>2, <1>4, <2>1 DEF SuppressionInvariant, PhaseSays
  <2> QED
    BY <2>2, <2>3, <2>4 DEF SuppressionInvariant
<1> QED
  BY <1>3, <1>4 DEF Suppression!ReturnSite

\* Every step of the transaction and of its caller keeps the invariant.
LEMMA SuppressionKept == SuppressionInvariant /\ [Suppression!Next]_(Suppression!vars) => SuppressionInvariant'
BY ApplyKeeps, WriteKeeps, ReadbackKeeps, RestoreKeeps, ContinueKeeps, ReturnSiteKeeps
DEF Suppression!Next, Suppression!Finished, Suppression!vars, SuppressionInvariant, SuppressionTypes, WritesCounted, PhaseSays, Phases

\* apply and restore write each context once at most, however often they are
\* called and whatever the port reports (platform_suppression.cpp).
THEOREM SuppressionMovesOnce == Suppression!Spec => []MovedOnce
<1>1. SuppressionInvariant => MovedOnce
  BY DEF SuppressionInvariant, WritesCounted, MovedOnce, Suppression!MovedOnce
<1> QED
  BY <1>1, SuppressionInitially, SuppressionKept, PTL DEF Suppression!Spec

\* An apply that answered left the replacement, or undid what it could and says so.
THEOREM SuppressionAppliesOrUndoes == Suppression!Spec => []AppliesOrUndoes
<1>1. SuppressionInvariant => AppliesOrUndoes
  BY DEF SuppressionInvariant, PhaseSays, AppliesOrUndoes, Suppression!AppliesOrUndoes, Suppression!AppliedIsReplaced,
    Suppression!FailureIsUndone, Suppression!context, Suppression!replacement, Suppression!target
<1> QED
  BY <1>1, SuppressionInitially, SuppressionKept, PTL DEF Suppression!Spec

\* A verified suppression was applied without a failure, stopped at its return
\* with the replacement, and is back at its call.
THEOREM SuppressionRoundTrip == Suppression!Spec => []VerifiedRoundTrip
<1>1. SuppressionInvariant => VerifiedRoundTrip
  BY DEF SuppressionInvariant, PhaseSays, VerifiedRoundTrip, Suppression!VerifiedRoundTrip,
    Suppression!context, Suppression!target
<1> QED
  BY <1>1, SuppressionInitially, SuppressionKept, PTL DEF Suppression!Spec
=============================================================================
