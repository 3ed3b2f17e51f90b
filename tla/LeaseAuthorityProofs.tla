------------------------ MODULE LeaseAuthorityProofs ------------------------
(***************************************************************************)
(* The gate's safety for every clock, every lease length, every width of   *)
(* its counters and every sequence of calls.                               *)
(***************************************************************************)
EXTENDS LeaseAuthority, SequenceTheorems, TLAPS

\* No entry of a log is ahead of the epoch counter, and those of the current
\* epoch are not ahead of the last sequence consumed in it.
Bounded(log, last) ==
  \A i \in 1 .. Len(log) :
    /\ log[i].owner <= last_owner
    /\ log[i].owner = last_owner => log[i].sequence <= last

\* While a grant is held, the current epoch's entries came from its session.
SessionOfGrant ==
  grant # NoGrant =>
    \A i \in 1 .. Len(motions) : motions[i].owner = last_owner => motions[i].session = grant.session

\* The inductive invariant.
LeaseInvariant ==
  /\ TypeOK /\ FencedHoldsNothing /\ DeadlineSound
  /\ Bounded(motions, last_motion) /\ Bounded(renewals, last_renewal)
  /\ SessionOfGrant
  /\ MotionsIncreasing /\ RenewalsIncreasing /\ OneSessionPerOwner

\* Appending an entry of the current epoch with an unused sequence number
\* keeps a log increasing and bounded.
LEMMA AppendKeeps ==
  ASSUME NEW log \in Seq(Entries), NEW last \in Nat, NEW e \in Entries, last_owner \in Nat,
         Increasing(log), Bounded(log, last), e.owner = last_owner, e.sequence > last
  PROVE  /\ Append(log, e) \in Seq(Entries)
         /\ Increasing(Append(log, e))
         /\ Bounded(Append(log, e), e.sequence)
<1> DEFINE new == Append(log, e)
<1>1. /\ new \in Seq(Entries) /\ Len(new) = Len(log) + 1 /\ Len(log) \in Nat
      /\ \A i \in 1 .. Len(log) : new[i] = log[i] /\ log[i] \in Entries
      /\ new[Len(log) + 1] = e
  BY AppendProperties, LenProperties
<1>2. \A i \in 1 .. Len(log) : log[i].owner \in Nat /\ log[i].sequence \in Nat
  BY <1>1, LeaseAssumption DEF Entries
<1>3. e.sequence \in Nat /\ e.owner \in Nat
  BY LeaseAssumption DEF Entries
<1> HIDE DEF new
<1>4. \A i \in 1 .. Len(new) : i \in 1 .. Len(log) \/ i = Len(log) + 1
  BY <1>1
<1>5. Increasing(new)
  <2> SUFFICES ASSUME NEW i \in 1 .. Len(new), NEW j \in 1 .. Len(new), i < j
               PROVE  \/ new[i].owner < new[j].owner
                      \/ new[i].owner = new[j].owner /\ new[i].sequence < new[j].sequence
    BY DEF Increasing
  <2>1. CASE j \in 1 .. Len(log)
    <3>1. i \in 1 .. Len(log)
      BY <1>1, <2>1
    <3> QED
      BY <1>1, <2>1, <3>1 DEF Increasing
  <2>2. CASE j = Len(log) + 1
    <3>1. i \in 1 .. Len(log)
      BY <1>1, <2>2
    <3> QED
      BY <1>1, <1>2, <1>3, <2>2, <3>1 DEF Bounded
  <2> QED
    BY <1>4, <2>1, <2>2
<1>6. Bounded(new, e.sequence)
  BY <1>1, <1>2, <1>3, <1>4 DEF Bounded
<1> QED
  BY <1>1, <1>5, <1>6 DEF new

\* The entries of both logs have the types of their fields.
LEMMA EntryTypes ==
  ASSUME TypeOK
  PROVE  /\ \A i \in 1 .. Len(motions) : motions[i] \in Entries
         /\ \A i \in 1 .. Len(renewals) : renewals[i] \in Entries
         /\ \A e \in Entries : e.owner \in Nat /\ e.sequence \in Nat
<1>1. motions \in Seq(Entries) /\ renewals \in Seq(Entries)
  BY DEF TypeOK
<1>2. \A e \in Entries : e.owner \in Nat /\ e.sequence \in Nat
  BY LeaseAssumption DEF Entries
<1> QED
  BY <1>1, <1>2

\* Dropping the grant, with or without a fence and a later stamp, keeps the
\* invariant: every way out of a grant goes through here.
LEMMA DropKeeps ==
  ASSUME LeaseInvariant, last_stamp' \in Stamp, fenced' \in BOOLEAN, grant' = NoGrant,
         UNCHANGED <<last_owner, last_motion, last_renewal, history>>
  PROVE  LeaseInvariant'
  BY DEF LeaseInvariant, TypeOK, FencedHoldsNothing, DeadlineSound, Bounded, SessionOfGrant,
     MotionsIncreasing, RenewalsIncreasing, OneSessionPerOwner, Increasing, history

\* A sampled clock that did not go back keeps the invariant of a held grant.
LEMMA StampKeeps ==
  ASSUME LeaseInvariant, NEW now \in Stamp, ~ Discontinuous(now), last_stamp' = now,
         UNCHANGED <<last_owner, last_motion, last_renewal, fenced, grant, history>>
  PROVE  LeaseInvariant'
<1>1. DeadlineSound'
  BY LeaseAssumption
  DEF LeaseInvariant, TypeOK, DeadlineSound, Discontinuous, Stamp, LeaseGrant, history
<1>2. TypeOK' /\ FencedHoldsNothing'
  BY DEF LeaseInvariant, TypeOK, FencedHoldsNothing, history
<1>3. Bounded(motions, last_motion)' /\ Bounded(renewals, last_renewal)' /\ SessionOfGrant'
  BY DEF LeaseInvariant, Bounded, SessionOfGrant, history
<1>4. MotionsIncreasing' /\ RenewalsIncreasing' /\ OneSessionPerOwner'
  BY DEF LeaseInvariant, MotionsIncreasing, RenewalsIncreasing, OneSessionPerOwner,
     Increasing, history
<1> QED
  BY <1>1, <1>2, <1>3, <1>4 DEF LeaseInvariant

\* A step that changes nothing keeps the invariant.
LEMMA StutterKeeps ==
  ASSUME LeaseInvariant, UNCHANGED vars
  PROVE  LeaseInvariant'
  BY DEF LeaseInvariant, TypeOK, FencedHoldsNothing, DeadlineSound, Bounded, SessionOfGrant,
     MotionsIncreasing, RenewalsIncreasing, OneSessionPerOwner, Increasing, vars, state_, history

LEMMA SuspendKeeps ==
  ASSUME LeaseInvariant, SuspendOrResume
  PROVE  LeaseInvariant'
<1>1. last_stamp' \in Stamp
  BY DEF LeaseInvariant, TypeOK, SuspendOrResume
<1> QED
  BY <1>1, DropKeeps DEF SuspendOrResume

LEMMA UnusableKeeps ==
  ASSUME LeaseInvariant, NEW now \in Stamp, Unusable(now)
  PROVE  LeaseInvariant'
<1>1. fenced \in BOOLEAN
  BY DEF LeaseInvariant, TypeOK
<1>2. CASE UNCHANGED <<state_, history>>
  BY <1>2, StutterKeeps DEF vars
<1>3. CASE SuspendOrResume
  BY <1>3, SuspendKeeps
<1>4. CASE /\ ~ Discontinuous(now) /\ last_stamp' = now
           /\ UNCHANGED <<last_owner, last_motion, last_renewal, fenced, grant, history>>
  BY <1>4, StampKeeps
<1>5. CASE /\ last_stamp' = now /\ grant' = NoGrant
           /\ UNCHANGED <<last_owner, last_motion, last_renewal, fenced, history>>
  BY <1>1, <1>5, DropKeeps
<1> QED
  BY <1>2, <1>3, <1>4, <1>5 DEF Unusable

\* A fresh epoch starts ahead of everything either log holds.
LEMMA IssueKeeps ==
  ASSUME LeaseInvariant, NEW now \in Stamp, NEW args \in IssueInputs,
         ~ fenced, ~ Discontinuous(now), IssueGrant(now, args)
  PROVE  LeaseInvariant'
<1>1. CASE /\ last_stamp' = now /\ fenced' = TRUE /\ grant' = NoGrant
           /\ UNCHANGED <<last_owner, last_motion, last_renewal, history>>
  BY <1>1, DropKeeps
<1>2. CASE /\ last_owner # MaxOwner /\ ~ Overflows(now)
           /\ last_owner' = last_owner + 1
           /\ last_motion' = 0 /\ last_renewal' = 0 /\ UNCHANGED fenced
           /\ grant' = NewGrant(now, last_owner + 1, args)
           /\ last_stamp' = now /\ since' = now
           /\ UNCHANGED <<motions, renewals>>
  <2>1. /\ now.domain \in Domains /\ now.microseconds \in 0 .. MaxMicroseconds
        /\ now.microseconds + Lease \in 0 .. MaxMicroseconds
        /\ last_owner \in Nat /\ last_owner + 1 \in 1 .. MaxOwner
    BY <1>2, LeaseAssumption DEF Overflows, Stamp, LeaseInvariant, TypeOK
  <2>2. /\ args.session \in Sessions /\ args.catalog \in Catalogs
        /\ args.state \in StateRevisions /\ args.field_mask \in SUBSET Fields
    BY LeaseAssumption
  <2>3. grant' \in LeaseGrant
    BY <1>2, <2>1, <2>2 DEF NewGrant, LeaseGrant, Stamp
  <2>4. TypeOK'
    BY <1>2, <2>1, <2>3, LeaseAssumption DEF LeaseInvariant, TypeOK
  <2>5. DeadlineSound' /\ FencedHoldsNothing'
    BY <1>2, <2>1 DEF DeadlineSound, FencedHoldsNothing, NewGrant
  <2>6. /\ \A i \in 1 .. Len(motions) : motions[i].owner < last_owner + 1
        /\ \A i \in 1 .. Len(renewals) : renewals[i].owner < last_owner + 1
        /\ \A i \in 1 .. Len(motions) : motions[i].owner \in Nat
        /\ \A i \in 1 .. Len(renewals) : renewals[i].owner \in Nat
    BY <2>1, EntryTypes DEF LeaseInvariant, Bounded
  <2>7. Bounded(motions, last_motion)' /\ Bounded(renewals, last_renewal)' /\ SessionOfGrant'
    <3>1. \A i \in 1 .. Len(motions) :
            motions[i].owner <= last_owner + 1 /\ motions[i].owner # last_owner + 1
      BY <2>1, <2>6
    <3>2. \A i \in 1 .. Len(renewals) :
            renewals[i].owner <= last_owner + 1 /\ renewals[i].owner # last_owner + 1
      BY <2>1, <2>6
    <3> QED
      BY <1>2, <3>1, <3>2 DEF Bounded, SessionOfGrant
  <2>8. MotionsIncreasing' /\ RenewalsIncreasing' /\ OneSessionPerOwner'
    BY <1>2 DEF LeaseInvariant, MotionsIncreasing, RenewalsIncreasing, OneSessionPerOwner,
       Increasing
  <2> QED
    BY <2>4, <2>5, <2>7, <2>8 DEF LeaseInvariant
<1> QED
  BY <1>1, <1>2 DEF IssueGrant

LEMMA UsableFacts ==
  ASSUME LeaseInvariant, NEW now \in Stamp, Usable(now)
  PROVE  /\ ~ fenced /\ grant # NoGrant /\ grant \in LeaseGrant
         /\ now.domain = last_stamp.domain /\ now.domain = since.domain
         /\ now.microseconds \in since.microseconds .. since.microseconds + Lease - 1
         /\ last_owner \in Nat /\ grant.owner = last_owner
<1>1. /\ grant # NoGrant /\ grant \in LeaseGrant
      /\ last_owner \in Nat
      /\ last_stamp \in Stamp /\ since \in Stamp
  BY LeaseAssumption DEF Usable, LeaseInvariant, TypeOK
<1>2. /\ now.microseconds \in Nat /\ last_stamp.microseconds \in Nat
      /\ since.microseconds \in Nat /\ Lease \in Nat
  BY <1>1, LeaseAssumption DEF Stamp
<1> QED
  BY <1>1, <1>2 DEF Usable, Discontinuous, LeaseInvariant, DeadlineSound

\* accept() against a live grant.
LEMMA AcceptKeeps ==
  ASSUME LeaseInvariant, NEW now \in Stamp, NEW p \in Proposals, Usable(now), Accept(now, p),
         motions' # motions
  PROVE  LeaseInvariant'
<1> DEFINE e == Entry(p.owner, p.session, p.sequence)
<1>1. /\ last_stamp' = now /\ AcceptVerdict(p) = "accepted" /\ last_motion' = p.sequence
      /\ motions' = Append(motions, e)
      /\ UNCHANGED <<last_owner, last_renewal, fenced, grant, renewals, since>>
  <2>1. ~ Unusable(now)
    BY DEF Unusable, Usable, SuspendOrResume, history
  <2> QED
    BY <2>1 DEF Accept
<1>2. /\ ~ fenced /\ grant # NoGrant /\ grant \in LeaseGrant
      /\ last_owner \in Nat /\ grant.owner = last_owner
      /\ ~ Discontinuous(now)
  BY UsableFacts DEF Usable
<1>3. p.session = grant.session /\ p.owner = grant.owner /\ ~ (p.sequence <= last_motion)
  BY <1>1 DEF AcceptVerdict
<1>4. /\ p.sequence \in 0 .. MaxSequence /\ last_motion \in 0 .. MaxSequence
      /\ p.sequence > last_motion /\ p.sequence \in 1 .. MaxSequence
  BY <1>3, LeaseAssumption DEF OwnerProposal, LeaseInvariant, TypeOK
<1>5. e \in Entries /\ e.owner = last_owner /\ e.sequence = p.sequence
      /\ e.session = grant.session
  BY <1>2, <1>3, <1>4 DEF Entry, Entries, LeaseGrant
<1>6. /\ motions \in Seq(Entries) /\ last_motion \in Nat /\ MaxSequence \in Nat
      /\ Increasing(motions) /\ Bounded(motions, last_motion)
  BY LeaseAssumption DEF LeaseInvariant, TypeOK, MotionsIncreasing
<1> HIDE DEF e
<1>7. /\ motions' \in Seq(Entries) /\ Increasing(motions')
      /\ Bounded(Append(motions, e), p.sequence)
  BY <1>1, <1>2, <1>4, <1>5, <1>6, AppendKeeps
<1>8. /\ Len(motions') = Len(motions) + 1 /\ Len(motions) \in Nat
      /\ \A i \in 1 .. Len(motions) : motions'[i] = motions[i]
      /\ motions'[Len(motions) + 1] = e
  BY <1>1, <1>5, <1>6
<1>9. \A i \in 1 .. Len(motions') : motions'[i].owner = last_owner =>
        motions'[i].session = grant.session
  BY <1>2, <1>5, <1>8 DEF LeaseInvariant, SessionOfGrant
<1>10. OneSessionPerOwner'
  <2> SUFFICES ASSUME NEW i \in 1 .. Len(motions'), NEW j \in 1 .. Len(motions'),
                      motions'[i].owner = motions'[j].owner
               PROVE  motions'[i].session = motions'[j].session
    BY DEF OneSessionPerOwner
  <2>1. CASE i = Len(motions) + 1 \/ j = Len(motions) + 1
    BY <1>5, <1>8, <1>9, <2>1
  <2>2. CASE i # Len(motions) + 1 /\ j # Len(motions) + 1
    BY <1>8, <2>2 DEF LeaseInvariant, OneSessionPerOwner
  <2> QED
    BY <2>1, <2>2
<1>11. DeadlineSound'
  BY <1>1, <1>2, UsableFacts DEF LeaseInvariant, DeadlineSound
<1>12. TypeOK' /\ FencedHoldsNothing' /\ SessionOfGrant'
  BY <1>1, <1>2, <1>4, <1>7, <1>9 DEF LeaseInvariant, TypeOK, FencedHoldsNothing, SessionOfGrant
<1>13. Bounded(motions, last_motion)' /\ Bounded(renewals, last_renewal)'
  BY <1>1, <1>7 DEF LeaseInvariant, Bounded
<1>14. MotionsIncreasing' /\ RenewalsIncreasing'
  <2>1. MotionsIncreasing'
    BY <1>7 DEF MotionsIncreasing, Increasing
  <2>2. RenewalsIncreasing /\ renewals' = renewals
    BY <1>1 DEF LeaseInvariant
  <2>3. RenewalsIncreasing'
    BY <2>2 DEF RenewalsIncreasing, Increasing
  <2> QED
    BY <2>1, <2>3
<1> QED
  BY <1>10, <1>11, <1>12, <1>13, <1>14 DEF LeaseInvariant

\* renew() that extends the deadline.
LEMMA RenewKeeps ==
  ASSUME LeaseInvariant, NEW now \in Stamp, NEW session \in Sessions,
         NEW owner \in 0 .. MaxOwner, NEW renewal \in 0 .. MaxSequence, Usable(now),
         RenewVerdict(now, session, owner, renewal) = "accepted",
         last_stamp' = now, last_renewal' = renewal, grant' = ExtendDeadline(now), since' = now,
         renewals' = Append(renewals, Entry(owner, session, renewal)),
         UNCHANGED <<last_owner, last_motion, motions, fenced>>
  PROVE  LeaseInvariant'
<1> DEFINE e == Entry(owner, session, renewal)
<1>1. /\ ~ fenced /\ grant # NoGrant /\ grant \in LeaseGrant
      /\ last_owner \in Nat /\ grant.owner = last_owner
      /\ now.domain = last_stamp.domain /\ now.domain = since.domain
  BY UsableFacts
<1>2. session = grant.session /\ owner = grant.owner /\ ~ (renewal <= last_renewal)
      /\ ~ Overflows(now)
  BY DEF RenewVerdict
<1>3. /\ last_renewal \in 0 .. MaxSequence /\ MaxSequence \in Nat
      /\ renewal > last_renewal /\ renewal \in 1 .. MaxSequence
  BY <1>2, LeaseAssumption DEF LeaseInvariant, TypeOK
<1>4. now.microseconds + Lease \in 0 .. MaxMicroseconds /\ now.microseconds \in Nat
  BY <1>2, LeaseAssumption DEF Overflows, Stamp
<1>5. e \in Entries /\ e.owner = last_owner /\ e.sequence = renewal
  BY <1>1, <1>2, <1>3 DEF Entry, Entries, LeaseGrant
<1>6. /\ renewals \in Seq(Entries) /\ last_renewal \in Nat
      /\ Increasing(renewals) /\ Bounded(renewals, last_renewal)
  BY <1>3 DEF LeaseInvariant, TypeOK, RenewalsIncreasing
<1>7. grant.deadline \in Stamp
  BY <1>1 DEF LeaseGrant
<1>8. /\ grant' \in LeaseGrant /\ grant'.session = grant.session
      /\ grant'.owner = grant.owner /\ grant'.deadline.domain = grant.deadline.domain
      /\ grant'.deadline.microseconds = now.microseconds + Lease
  BY <1>1, <1>4, <1>7 DEF ExtendDeadline, LeaseGrant, Stamp
<1> HIDE DEF e
<1>9. /\ renewals' \in Seq(Entries) /\ Increasing(renewals')
      /\ Bounded(Append(renewals, e), renewal)
  <2>1. renewals' = Append(renewals, e)
    BY DEF e
  <2> QED
    BY <1>1, <1>3, <1>5, <1>6, <2>1, AppendKeeps
<1>10. DeadlineSound'
  BY <1>1, <1>4, <1>8 DEF LeaseInvariant, DeadlineSound
<1>11. TypeOK' /\ FencedHoldsNothing' /\ SessionOfGrant'
  BY <1>1, <1>3, <1>8, <1>9 DEF LeaseInvariant, TypeOK, FencedHoldsNothing, SessionOfGrant
<1>12. Bounded(motions, last_motion)' /\ Bounded(renewals, last_renewal)'
  BY <1>9 DEF LeaseInvariant, Bounded, e
<1>13. MotionsIncreasing' /\ RenewalsIncreasing' /\ OneSessionPerOwner'
  BY <1>9 DEF LeaseInvariant, MotionsIncreasing, RenewalsIncreasing, Increasing, OneSessionPerOwner
<1> QED
  BY <1>10, <1>11, <1>12, <1>13 DEF LeaseInvariant

LEMMA InitHolds == Init => LeaseInvariant
<1> SUFFICES ASSUME Init PROVE LeaseInvariant
  OBVIOUS
<1>1. Len(motions) = 0 /\ Len(renewals) = 0
  BY DEF Init
<1>2. TypeOK
  <2>1. last_stamp \in Stamp /\ since \in Stamp
    BY DEF Init
  <2>2. motions \in Seq(Entries) /\ renewals \in Seq(Entries)
    BY DEF Init
  <2>3. /\ last_owner \in 0 .. MaxOwner /\ last_motion \in 0 .. MaxSequence
        /\ last_renewal \in 0 .. MaxSequence
    BY LeaseAssumption DEF Init
  <2>4. fenced \in BOOLEAN /\ grant \in LeaseGrant \cup {NoGrant}
    BY DEF Init
  <2> QED
    BY <2>1, <2>2, <2>3, <2>4 DEF TypeOK
<1> QED
  BY <1>1, <1>2 DEF Init, LeaseInvariant, FencedHoldsNothing, DeadlineSound, Bounded,
     SessionOfGrant, MotionsIncreasing, RenewalsIncreasing, Increasing, OneSessionPerOwner

LEMMA NextKeeps == LeaseInvariant /\ [Next]_vars => LeaseInvariant'
<1> SUFFICES ASSUME LeaseInvariant, [Next]_vars PROVE LeaseInvariant'
  OBVIOUS
<1>1. last_stamp \in Stamp /\ fenced \in BOOLEAN
  BY DEF LeaseInvariant, TypeOK
<1>2. CASE SuspendOrResume
  BY <1>2, SuspendKeeps
<1>3. CASE Revoke
  BY <1>1, <1>3, DropKeeps DEF Revoke
<1>4. ASSUME NEW now \in Stamp, Recover(now) PROVE LeaseInvariant'
  <2>1. CASE UNCHANGED <<state_, history>>
    BY <2>1, StutterKeeps DEF vars
  <2>2. CASE ~ UNCHANGED <<state_, history>>
    BY <1>4, <2>2, DropKeeps DEF Recover
  <2> QED
    BY <2>1, <2>2
<1>5. ASSUME NEW now \in Stamp, NEW args \in IssueInputs, Issue(now, args)
      PROVE  LeaseInvariant'
  <2>1. CASE UNCHANGED <<state_, history>>
    BY <2>1, StutterKeeps DEF vars
  <2>2. CASE SuspendOrResume
    BY <2>2, SuspendKeeps
  <2>3. CASE /\ ~ Discontinuous(now) /\ last_stamp' = now
             /\ UNCHANGED <<last_owner, last_motion, last_renewal, fenced, grant, history>>
    BY <2>3, StampKeeps
  <2>4. CASE ~ fenced /\ ~ Discontinuous(now) /\ IssueGrant(now, args)
    BY <2>4, IssueKeeps
  <2> QED
    BY <1>5, <2>1, <2>2, <2>3, <2>4 DEF Issue
<1>6. ASSUME NEW now \in Stamp, NEW p \in Proposals, Accept(now, p) PROVE LeaseInvariant'
  <2>1. CASE Unusable(now)
    BY <2>1, UnusableKeeps
  <2>2. CASE Usable(now) /\ motions' # motions
    BY <1>6, <2>2, AcceptKeeps
  <2>3. CASE ~ Unusable(now) /\ motions' = motions
    <3>1. Usable(now)
      BY <1>6, <2>3 DEF Accept
    <3>2. /\ last_stamp' = now /\ UNCHANGED last_motion
          /\ UNCHANGED <<last_owner, last_renewal, fenced, grant, renewals, since>>
      <4>1. motions \in Seq(Entries)
        BY DEF LeaseInvariant, TypeOK
      <4>2. ASSUME NEW e PROVE Len(Append(motions, e)) # Len(motions)
        BY <4>1
      <4>3. ASSUME NEW e PROVE Append(motions, e) # motions
        BY <4>2
      <4> QED
        BY <1>6, <2>3, <4>3 DEF Accept
    <3>3. ~ Discontinuous(now)
      BY <3>1 DEF Usable
    <3> QED
      BY <2>3, <3>2, <3>3, StampKeeps DEF history
  <2> QED
    BY <1>6, <2>1, <2>2, <2>3 DEF Accept
<1>7. ASSUME NEW now \in Stamp, NEW session \in Sessions, NEW owner \in 0 .. MaxOwner,
             NEW renewal \in 0 .. MaxSequence, Renew(now, session, owner, renewal)
      PROVE  LeaseInvariant'
  <2>1. CASE Unusable(now)
    BY <2>1, UnusableKeeps
  <2>2. CASE ~ Unusable(now)
    <3>1. Usable(now) /\ ~ Discontinuous(now) /\ last_stamp' = now
          /\ UNCHANGED <<last_owner, last_motion, motions>>
      BY <1>7, <2>2 DEF Renew, Usable
    <3>2. CASE UNCHANGED <<last_renewal, fenced, grant, renewals, since>>
      BY <3>1, <3>2, StampKeeps DEF history
    <3>3. CASE fenced' = TRUE /\ grant' = NoGrant /\ UNCHANGED <<last_renewal, renewals, since>>
      BY <3>1, <3>3, DropKeeps DEF history
    <3>4. CASE /\ RenewVerdict(now, session, owner, renewal) = "accepted"
               /\ last_renewal' = renewal /\ grant' = ExtendDeadline(now) /\ since' = now
               /\ renewals' = Append(renewals, Entry(owner, session, renewal))
               /\ UNCHANGED fenced
      BY <3>1, <3>4, RenewKeeps
    <3> QED
      BY <1>7, <2>2, <3>2, <3>3, <3>4 DEF Renew
  <2> QED
    BY <2>1, <2>2
<1>8. CASE UNCHANGED vars
  BY <1>8, StutterKeeps
<1> QED
  BY <1>2, <1>3, <1>4, <1>5, <1>6, <1>7, <1>8 DEF Next

\* Every behaviour of the gate keeps the inductive invariant.
THEOREM LeaseInvariantHolds == Spec => []LeaseInvariant
  BY InitHolds, NextKeeps, PTL DEF Spec

\* accept() applies no proposal twice and none out of epoch and sequence
\* order, and what one epoch applies comes from one session, for every
\* interleaving of fences, recoveries, re-issues and late messages.
THEOREM AcceptedOnceInOrder == Spec => []AcceptedInOrder
<1>1. LeaseInvariant => AcceptedInOrder
  BY DEF LeaseInvariant, AcceptedInOrder
<1> QED
  BY <1>1, LeaseInvariantHolds, PTL

\* A held grant expires one lease after its last issue or renewal on the clock
\* in force, without overflow, and a fenced gate holds none.
THEOREM GrantsSound == Spec => []GateSound
<1>1. LeaseInvariant => GateSound
  BY DEF LeaseInvariant, GateSound
<1> QED
  BY <1>1, LeaseInvariantHolds, PTL

\* No proposal is applied at or after the deadline, or on another clock.
THEOREM AcceptedInTime == Spec => AcceptedWithinLease
<1>1. LeaseInvariant /\ [Next]_vars => [AcceptedStep]_vars
  <2> SUFFICES ASSUME LeaseInvariant, Next, motions' # motions
               PROVE  /\ last_stamp'.domain = since.domain
                      /\ last_stamp'.microseconds \in since.microseconds .. since.microseconds + Lease - 1
    BY DEF AcceptedStep
  <2>1. PICK now \in Stamp, p \in Proposals : Accept(now, p)
    BY DEF Next, SuspendOrResume, Revoke, Recover, Issue, IssueGrant, Renew, Unusable, history
  <2>2. Usable(now) /\ last_stamp' = now
    BY <2>1 DEF Accept, Unusable, SuspendOrResume, history
  <2> QED
    BY <2>2, UsableFacts
<1> QED
  BY <1>1, LeaseInvariantHolds, PTL DEF Spec, AcceptedWithinLease

\* Once the epochs are used up and the last grant is gone, none follows.
THEOREM EpochsNeverWrap == Spec => ExhaustedForGood
<1>1. [Next]_vars => [ExhaustedStep]_vars
  <2> SUFFICES ASSUME Next, last_owner = MaxOwner, grant = NoGrant PROVE grant' = NoGrant
    BY DEF ExhaustedStep
  <2>1. ASSUME NEW now \in Stamp, Unusable(now) PROVE grant' = NoGrant
    BY <2>1 DEF Unusable, SuspendOrResume, state_
  <2>2. ASSUME NEW now \in Stamp, NEW args \in IssueInputs, Issue(now, args)
        PROVE  grant' = NoGrant
    BY <2>2 DEF Issue, IssueGrant, SuspendOrResume, state_
  <2>3. ASSUME NEW now \in Stamp, Usable(now) PROVE FALSE
    BY <2>3 DEF Usable
  <2>4. ASSUME NEW now \in Stamp, Recover(now) PROVE grant' = NoGrant
    BY <2>4 DEF Recover, state_
  <2> QED
    BY <2>1, <2>2, <2>3, <2>4 DEF Next, Accept, Renew, Revoke, SuspendOrResume
<1> QED
  BY <1>1, PTL DEF Spec, ExhaustedForGood
=============================================================================
