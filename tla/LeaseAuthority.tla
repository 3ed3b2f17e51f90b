--------------------------- MODULE LeaseAuthority ---------------------------
(***************************************************************************)
(* LeaseAuthority: the gate that decides whether a proposal of the client  *)
(* that simulates an entity may be applied.  One grant at a time, valid    *)
(* for a fixed time of the server's own monotonic clock.  A clock that     *)
(* goes backwards or changes domain, an explicit suspend/resume and an     *)
(* exhausted counter all fence the gate until a trusted recovery.          *)
(*                                                                         *)
(* The class is used from one authoritative thread, so an operation is one *)
(* step.  The clock is an interface: every reading it may return is an     *)
(* input (now) of the operation that samples it.  Which refusal a call     *)
(* returns is given by the verdict operators and not stored.               *)
(***************************************************************************)
EXTENDS Integers, Sequences

CONSTANTS
  Domains,          \* ClockDomainId values, the invalid 0 included
  MaxMicroseconds,  \* uint64 maximum of a stamp
  Lease,            \* lease_microseconds
  MaxOwner,         \* uint64 maximum of an OwnerEpoch
  MaxSequence,      \* uint64 maximum of a Sequence
  Sessions, Catalogs, StateRevisions,   \* identifiers, the invalid 0 included
  Fields,           \* bits of a field mask
  Entities, Entity, \* entities a proposal may name, and the one this gate is for
  NoGrant,          \* an empty std::optional<LeaseGrant>
  IssueInputs,      \* the arguments issue() is called with
  Proposals         \* the proposals accept() is called with

Stamp == [domain : Domains, microseconds : 0 .. MaxMicroseconds]

LeaseGrant ==
  [session : Sessions, owner : 1 .. MaxOwner, catalog : Catalogs,
   state : StateRevisions, field_mask : SUBSET Fields, deadline : Stamp]

OwnerProposal ==
  [entity : Entities, session : Sessions, owner : 0 .. MaxOwner, catalog : Catalogs,
   state : StateRevisions, sequence : 0 .. MaxSequence, field_mask : SUBSET Fields]

ASSUME LeaseAssumption ==
  /\ Domains \subseteq Nat /\ MaxMicroseconds \in Nat /\ Lease \in Nat \ {0}
  /\ MaxOwner \in Nat /\ MaxSequence \in Nat
  /\ Sessions \subseteq Nat /\ Catalogs \subseteq Nat /\ StateRevisions \subseteq Nat
  /\ Entity \in Entities
  /\ NoGrant \notin LeaseGrant
  /\ IssueInputs \subseteq [session : Sessions, catalog : Catalogs, state : StateRevisions,
                            field_mask : SUBSET Fields, participant_applied : BOOLEAN]
  /\ Proposals \subseteq OwnerProposal

VARIABLES
  last_stamp, last_owner, last_motion, last_renewal, fenced, grant,
  motions,   \* history: proposals accepted, in order
  renewals,  \* history: renewals accepted, in order
  since      \* history: the clock reading of the latest issue or renewal

state_ == <<last_stamp, last_owner, last_motion, last_renewal, fenced, grant>>
history == <<motions, renewals, since>>
vars == <<state_, history>>

-----------------------------------------------------------------------------
\* sample(): what a clock reading means while the gate is not fenced.
Discontinuous(now) ==
  now.domain # last_stamp.domain \/ now.microseconds < last_stamp.microseconds

Overflows(now) == now.microseconds > MaxMicroseconds - Lease

\* The constructor throws on an invalid entity or domain: no such gate exists.
Init ==
  /\ last_stamp \in {s \in Stamp : s.domain # 0}
  /\ last_owner = 0 /\ last_motion = 0 /\ last_renewal = 0
  /\ fenced = FALSE /\ grant = NoGrant
  /\ motions = <<>> /\ renewals = <<>> /\ since = last_stamp

\* Mutant of SuspendOrResume: the fence keeps the grant.
SuspendKeepsGrant ==
  /\ fenced' = TRUE
  /\ UNCHANGED <<grant, last_stamp, last_owner, last_motion, last_renewal, history>>

\* suspend_or_resume(): the fence drops the grant.
SuspendOrResume ==
  /\ fenced' = TRUE /\ grant' = NoGrant
  /\ UNCHANGED <<last_stamp, last_owner, last_motion, last_renewal, history>>

\* revoke().
Revoke ==
  /\ grant' = NoGrant
  /\ UNCHANGED <<last_stamp, last_owner, last_motion, last_renewal, fenced, history>>

\* Mutant of Recover: owner epochs start again after a recovery.
RecoverRestartsOwners(now) ==
  /\ now.domain # 0
  /\ last_stamp' = now /\ grant' = NoGrant /\ fenced' = FALSE
  /\ last_owner' = 0
  /\ UNCHANGED <<last_motion, last_renewal, history>>

\* recover_after_readiness(): the epoch counter is not reset.
Recover(now) ==
  \/ /\ now.domain = 0
     /\ UNCHANGED <<state_, history>>
  \/ /\ now.domain # 0
     /\ last_stamp' = now /\ grant' = NoGrant /\ fenced' = FALSE
     /\ UNCHANGED <<last_owner, last_motion, last_renewal, history>>

\* issue() refuses these before it touches the epoch; the old grant stays.
IssuePrecondition(args) ==
  /\ args.participant_applied /\ args.session # 0
  /\ args.catalog # 0 /\ args.state # 0 /\ args.field_mask # {}

NewGrant(now, owner, args) ==
  [session |-> args.session, owner |-> owner, catalog |-> args.catalog,
   state |-> args.state, field_mask |-> args.field_mask,
   deadline |-> [domain |-> now.domain, microseconds |-> now.microseconds + Lease]]

\* Mutant of IssueGrant: the epoch saturates instead of fencing the gate.
IssueGrantSaturating(now, args) ==
  LET owner == IF last_owner = MaxOwner THEN last_owner ELSE last_owner + 1
  IN /\ last_owner' = owner
     /\ last_motion' = 0 /\ last_renewal' = 0 /\ UNCHANGED fenced
     /\ grant' = NewGrant(now, owner, args)
     /\ last_stamp' = now /\ since' = now
     /\ UNCHANGED <<motions, renewals>>

\* issue() past its preconditions: a fresh epoch and fresh sequences, or a
\* fence when the epoch or the deadline would overflow.
IssueGrant(now, args) ==
  \/ /\ last_owner = MaxOwner \/ Overflows(now)
     /\ last_stamp' = now /\ fenced' = TRUE /\ grant' = NoGrant
     /\ UNCHANGED <<last_owner, last_motion, last_renewal, history>>
  \/ /\ last_owner # MaxOwner /\ ~ Overflows(now)
     /\ last_owner' = last_owner + 1
     /\ last_motion' = 0 /\ last_renewal' = 0 /\ UNCHANGED fenced
     /\ grant' = NewGrant(now, last_owner + 1, args)
     /\ last_stamp' = now /\ since' = now
     /\ UNCHANGED <<motions, renewals>>

\* issue(session, catalog, state, field_mask, participant_applied).
Issue(now, args) ==
  \/ fenced /\ UNCHANGED <<state_, history>>
  \/ ~ fenced /\ Discontinuous(now) /\ SuspendOrResume
  \/ /\ ~ fenced /\ ~ Discontinuous(now)
     /\ ~ IssuePrecondition(args)
     /\ last_stamp' = now
     /\ UNCHANGED <<last_owner, last_motion, last_renewal, fenced, grant, history>>
  \/ /\ ~ fenced /\ ~ Discontinuous(now)
     /\ IssuePrecondition(args)
     /\ IssueGrant(now, args)

\* The early returns accept() and renew() share: no grant to judge against.
Unusable(now) ==
  \/ fenced /\ UNCHANGED <<state_, history>>
  \/ ~ fenced /\ Discontinuous(now) /\ SuspendOrResume
  \/ /\ ~ fenced /\ ~ Discontinuous(now) /\ grant = NoGrant
     /\ last_stamp' = now
     /\ UNCHANGED <<last_owner, last_motion, last_renewal, fenced, grant, history>>
  \/ /\ ~ fenced /\ ~ Discontinuous(now) /\ grant # NoGrant
     /\ now.microseconds >= grant.deadline.microseconds
     /\ last_stamp' = now /\ grant' = NoGrant
     /\ UNCHANGED <<last_owner, last_motion, last_renewal, fenced, history>>

\* Mutant of Usable: the deadline itself still counts as inside the lease.
UsableAtDeadline(now) ==
  /\ ~ fenced /\ ~ Discontinuous(now) /\ grant # NoGrant
  /\ now.microseconds <= grant.deadline.microseconds

\* The calls that get past those returns: a live grant on a continuous clock.
Usable(now) ==
  /\ ~ fenced /\ ~ Discontinuous(now) /\ grant # NoGrant
  /\ now.microseconds < grant.deadline.microseconds

\* Mutant of AcceptVerdict: the owner epoch alone identifies the holder.
AcceptVerdictAnySession(p) ==
  IF p.entity # Entity THEN "stale_entity"
  ELSE IF p.owner # grant.owner THEN "stale_owner"
  ELSE IF p.catalog # grant.catalog \/ p.state # grant.state THEN "stale_revision"
  ELSE IF p.sequence <= last_motion THEN "stale_sequence"
  ELSE IF p.field_mask = {} \/ ~ p.field_mask \subseteq grant.field_mask THEN "field_denied"
  ELSE "accepted"

\* accept(proposal) against a live grant, in the order the code tests.
AcceptVerdict(p) ==
  IF p.entity # Entity THEN "stale_entity"
  ELSE IF p.session # grant.session \/ p.owner # grant.owner THEN "stale_owner"
  ELSE IF p.catalog # grant.catalog \/ p.state # grant.state THEN "stale_revision"
  ELSE IF p.sequence <= last_motion THEN "stale_sequence"
  ELSE IF p.field_mask = {} \/ ~ p.field_mask \subseteq grant.field_mask THEN "field_denied"
  ELSE "accepted"

Entry(owner, session, sequence) ==
  [owner |-> owner, session |-> session, sequence |-> sequence]

\* accept(proposal): only an accepted proposal consumes its sequence.
Accept(now, p) ==
  \/ Unusable(now)
  \/ /\ Usable(now)
     /\ last_stamp' = now
     /\ \/ /\ AcceptVerdict(p) = "accepted"
           /\ last_motion' = p.sequence
           /\ motions' = Append(motions, Entry(p.owner, p.session, p.sequence))
        \/ AcceptVerdict(p) # "accepted" /\ UNCHANGED <<last_motion, motions>>
     /\ UNCHANGED <<last_owner, last_renewal, fenced, grant, renewals, since>>

\* renew(session, owner, renewal) against a live grant.
RenewVerdict(now, session, owner, renewal) ==
  IF session # grant.session \/ owner # grant.owner THEN "stale_owner"
  ELSE IF renewal <= last_renewal THEN "stale_sequence"
  ELSE IF Overflows(now) THEN "recovery_required"
  ELSE "accepted"

\* Mutant of ExtendDeadline: the uint64 addition is left to wrap.
ExtendDeadlineWrapped(now) ==
  [grant EXCEPT !.deadline.microseconds =
     (now.microseconds + Lease + 1) % (MaxMicroseconds + 1)]

ExtendDeadline(now) ==
  [grant EXCEPT !.deadline.microseconds = now.microseconds + Lease]

\* Mutant of Renew: an accepted renewal does not consume its sequence.
RenewKeepsSequence(now, session, owner, renewal) ==
  /\ Usable(now)
  /\ last_stamp' = now
  /\ RenewVerdict(now, session, owner, renewal) = "accepted"
  /\ grant' = ExtendDeadline(now) /\ since' = now
  /\ renewals' = Append(renewals, Entry(owner, session, renewal))
  /\ UNCHANGED <<last_owner, last_motion, last_renewal, fenced, motions>>

\* renew(): a replayed renewal does not extend the deadline, and a deadline
\* that would overflow fences the gate.
Renew(now, session, owner, renewal) ==
  \/ Unusable(now)
  \/ /\ Usable(now)
     /\ last_stamp' = now
     /\ UNCHANGED <<last_owner, last_motion, motions>>
     /\ \/ /\ RenewVerdict(now, session, owner, renewal) \in {"stale_owner", "stale_sequence"}
           /\ UNCHANGED <<last_renewal, fenced, grant, renewals, since>>
        \/ /\ RenewVerdict(now, session, owner, renewal) = "recovery_required"
           /\ fenced' = TRUE /\ grant' = NoGrant
           /\ UNCHANGED <<last_renewal, renewals, since>>
        \/ /\ RenewVerdict(now, session, owner, renewal) = "accepted"
           /\ last_renewal' = renewal /\ grant' = ExtendDeadline(now) /\ since' = now
           /\ renewals' = Append(renewals, Entry(owner, session, renewal))
           /\ UNCHANGED fenced

Next ==
  \/ SuspendOrResume
  \/ Revoke
  \/ \E now \in Stamp : Recover(now)
  \/ \E now \in Stamp, args \in IssueInputs : Issue(now, args)
  \/ \E now \in Stamp, p \in Proposals : Accept(now, p)
  \/ \E now \in Stamp, session \in Sessions, owner \in 0 .. MaxOwner,
        renewal \in 0 .. MaxSequence : Renew(now, session, owner, renewal)

Spec == Init /\ [][Next]_vars

-----------------------------------------------------------------------------
Entries == [owner : 1 .. MaxOwner, session : Sessions, sequence : 1 .. MaxSequence]

\* Every variable keeps the type its C++ field has.
TypeOK ==
  /\ last_stamp \in Stamp /\ since \in Stamp
  /\ last_owner \in 0 .. MaxOwner
  /\ last_motion \in 0 .. MaxSequence /\ last_renewal \in 0 .. MaxSequence
  /\ fenced \in BOOLEAN /\ grant \in LeaseGrant \cup {NoGrant}
  /\ motions \in Seq(Entries) /\ renewals \in Seq(Entries)

\* Whatever fences, recoveries, revocations and re-issues lie between them,
\* accepted entries are strictly increasing: first by owner epoch, then by
\* sequence.  So no proposal is applied twice and a late one of an earlier
\* owner is never applied after its successor's.
Increasing(log) ==
  \A i, j \in 1 .. Len(log) : i < j =>
    \/ log[i].owner < log[j].owner
    \/ log[i].owner = log[j].owner /\ log[i].sequence < log[j].sequence

\* accept() applies proposals at most once and in epoch and sequence order.
MotionsIncreasing == Increasing(motions)

\* renew() extends a lease at most once per renewal number, in the same order:
\* a duplicated or delayed renewal message never buys time.
RenewalsIncreasing == Increasing(renewals)

\* Everything accepted under one owner epoch came from one session: the epoch
\* alone tells a consumer who moved the entity.
OneSessionPerOwner ==
  \A i, j \in 1 .. Len(motions) :
    motions[i].owner = motions[j].owner => motions[i].session = motions[j].session

\* What a consumer of accepted proposals and renewals may rely on, across every
\* fence, recovery and re-issue.
AcceptedInOrder == MotionsIncreasing /\ RenewalsIncreasing /\ OneSessionPerOwner

\* A fenced gate holds no grant, so recovery never revives one.
FencedHoldsNothing == fenced => grant = NoGrant

\* A held grant carries the newest epoch and a deadline exactly one lease after
\* its last issue or renewal, in the clock domain in force, on a clock that has
\* not gone back since, and without wrapping.
DeadlineSound ==
  grant # NoGrant =>
    /\ grant.owner = last_owner
    /\ grant.deadline.domain = since.domain /\ since.domain = last_stamp.domain
    /\ since.microseconds <= last_stamp.microseconds
    /\ grant.deadline.microseconds = since.microseconds + Lease
    /\ grant.deadline.microseconds <= MaxMicroseconds

\* What the gate may rely on between two calls: types, no grant behind a fence,
\* and a deadline that still means one lease of the clock in force.
GateSound == TypeOK /\ FencedHoldsNothing /\ DeadlineSound

\* A proposal is applied only strictly within one lease of the latest issue or
\* renewal, both read from one clock domain.
AcceptedStep ==
  motions' # motions =>
    /\ last_stamp'.domain = since.domain
    /\ last_stamp'.microseconds \in since.microseconds .. since.microseconds + Lease - 1

AcceptedWithinLease == [][AcceptedStep]_vars

\* Once the owner epochs are used up and the last grant is gone, no operation,
\* recovery included, produces another: epochs never wrap to an old identity.
ExhaustedStep == last_owner = MaxOwner /\ grant = NoGrant => grant' = NoGrant

ExhaustedForGood == [][ExhaustedStep]_vars
=============================================================================
