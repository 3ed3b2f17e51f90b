---------------------------- MODULE BoundedInbox ----------------------------
(***************************************************************************)
(* BoundedInbox: the queue between the threads that receive commands and   *)
(* the one that runs them.  Every call holds the mutex from its first line *)
(* to its last, so a call is one step; what the threads see of each other  *)
(* is the order of those steps.                                            *)
(***************************************************************************)
EXTENDS Integers, Sequences

CONSTANTS
  Word,         \* 2^w, size_t is modulo it
  Charge,       \* command_charge, sizeof(IngressCommand)
  MaxItems, MaxBytes,   \* the constructor's budget
  Sizes,        \* payload sizes pushed
  Epochs,       \* resource epochs pushed, the invalid 0 included
  MaxPushes     \* bound: the commands ever admitted

\* What the constructor demands of a budget, and that sizes are size_t.
ASSUME InboxAssumption ==
  /\ Word \in Nat /\ Charge \in 1 .. Word - 1
  /\ MaxItems \in 1 .. Word - 1 /\ MaxBytes \in Charge .. Word - 1
  /\ Sizes \subseteq 0 .. Word - 1
  /\ Epochs \subseteq Nat /\ MaxPushes \in Nat

VARIABLES
  queue_, bytes_, closed_,
  answer,      \* what the last call returned
  admitted,    \* history: every command ever admitted, in order
  popped       \* history: every command ever taken, in order

vars == <<queue_, bytes_, closed_, answer, admitted, popped>>

Command == [resource : Epochs, size : Sizes]

Init ==
  /\ queue_ = <<>> /\ bytes_ = 0 /\ closed_ = FALSE
  /\ answer = "none"
  /\ admitted = <<>> /\ popped = <<>>

\* Mutant of Fits: the sum is compared, and wraps.
FitsWrapped(size) == (bytes_ + Charge + size) % Word <= MaxBytes

\* Does a payload of this size fit what is left?  No sum that could wrap.
Fits(size) ==
  LET remaining == (MaxBytes - bytes_) % Word
  IN remaining >= Charge /\ size <= (remaining - Charge) % Word

\* Mutant of Verdict: one command more than the budget.
VerdictItemLate(resource, size) ==
  IF closed_ THEN "closed"
  ELSE IF resource = 0 THEN "invalid_epoch"
  ELSE IF Len(queue_) > MaxItems THEN "item_limit"
  ELSE IF ~ Fits(size) THEN "byte_limit"
  ELSE "admitted"

\* What push answers.
Verdict(resource, size) ==
  IF closed_ THEN "closed"
  ELSE IF resource = 0 THEN "invalid_epoch"
  ELSE IF Len(queue_) >= MaxItems THEN "item_limit"
  ELSE IF ~ Fits(size) THEN "byte_limit"
  ELSE "admitted"

\* push(resource, payload).
Push(resource, size) ==
  LET command == [resource |-> resource, size |-> size]
  IN /\ answer' = Verdict(resource, size)
     /\ IF answer' = "admitted"
        THEN /\ Len(admitted) < MaxPushes
             /\ queue_' = Append(queue_, command)
             /\ bytes_' = (bytes_ + Charge + size) % Word
             /\ admitted' = Append(admitted, command)
        ELSE UNCHANGED <<queue_, bytes_, admitted>>
     /\ UNCHANGED <<closed_, popped>>

\* Mutant of Pop: the charge of the command is not given back.
PopKeepsCharge ==
  \/ /\ queue_ = <<>>
     /\ answer' = "empty"
     /\ UNCHANGED <<queue_, bytes_, closed_, admitted, popped>>
  \/ /\ queue_ # <<>>
     /\ answer' = "command"
     /\ queue_' = Tail(queue_)
     /\ bytes_' = (bytes_ - Head(queue_).size) % Word
     /\ popped' = Append(popped, Head(queue_))
     /\ UNCHANGED <<closed_, admitted>>

\* Mutant of Pop: the newest command is taken.
PopNewest ==
  \/ /\ queue_ = <<>>
     /\ answer' = "empty"
     /\ UNCHANGED <<queue_, bytes_, closed_, admitted, popped>>
  \/ /\ queue_ # <<>>
     /\ answer' = "command"
     /\ queue_' = SubSeq(queue_, 1, Len(queue_) - 1)
     /\ bytes_' = (bytes_ - (Charge + queue_[Len(queue_)].size)) % Word
     /\ popped' = Append(popped, queue_[Len(queue_)])
     /\ UNCHANGED <<closed_, admitted>>

\* pop(): also of a closed inbox.
Pop ==
  \/ /\ queue_ = <<>>
     /\ answer' = "empty"
     /\ UNCHANGED <<queue_, bytes_, closed_, admitted, popped>>
  \/ /\ queue_ # <<>>
     /\ answer' = "command"
     /\ queue_' = Tail(queue_)
     /\ bytes_' = (bytes_ - (Charge + Head(queue_).size)) % Word
     /\ popped' = Append(popped, Head(queue_))
     /\ UNCHANGED <<closed_, admitted>>

\* close().
Close ==
  /\ closed_' = TRUE
  /\ answer' = "none"
  /\ UNCHANGED <<queue_, bytes_, admitted, popped>>

Next ==
  \/ \E resource \in Epochs, size \in Sizes : Push(resource, size)
  \/ Pop
  \/ Close

Spec == Init /\ [][Next]_vars

-----------------------------------------------------------------------------
\* Every variable has its type, and the queue keeps to its budget of items.
TypeOK ==
  /\ queue_ \in Seq(Command) /\ Len(queue_) <= MaxItems
  /\ bytes_ \in 0 .. Word - 1
  /\ closed_ \in BOOLEAN
  /\ admitted \in Seq(Command) /\ popped \in Seq(Command)

\* What the commands of a queue are charged, one after the other.
ChargeOf(queue) ==
  LET sum[n \in 0 .. Len(queue)] == IF n = 0 THEN 0 ELSE sum[n - 1] + Charge + queue[n].size
  IN  sum[Len(queue)]

\* The bytes counted are those of the commands queued, no more than the budget:
\* size_t never wraps, whatever was pushed, refused and taken.
BytesAreTheQueue == bytes_ = ChargeOf(queue_) /\ bytes_ <= MaxBytes

\* What the inbox holds between two calls.
InboxInvariant == TypeOK /\ BytesAreTheQueue

\* Commands come out once each, in the order they went in.
OnceInOrder == popped \o queue_ = admitted
=============================================================================
