--------------------------- MODULE PlatformProofs ---------------------------
(***************************************************************************)
(* Proofs about the two parts of the platform core that MCPlatform runs.   *)
(*                                                                         *)
(* BoundedInbox: for every budget, width of size_t, payload size and order *)
(* of calls, the bytes counted are what the queue is charged, and commands *)
(* come out once each, in the order they went in.  What a queue is charged *)
(* is a recursive function of its length.  The provers take no induction   *)
(* scheme, so what is needed of it is proved by the least counterexample:  *)
(* such a sum exists, there is only one, and an added or removed command   *)
(* changes it by its own charge.                                           *)
(*                                                                         *)
(* WorldPlan: for every plan, whatever is wrong with it, the diagnostics   *)
(* are exact and the orders go by the longest wait.  The invariant says    *)
(* that what the loops have built and said of a plan is what its first     *)
(* definitions say and deserve; the orders grow in layers, and the layer   *)
(* of a name is the length of the longest walk from it.                    *)
(***************************************************************************)
EXTENDS BoundedInbox, WorldPlan, FiniteSetTheorems, SequenceTheorems, WellFoundedInduction, TLAPS

\* Induction for a set of naturals: the least number outside of it would follow
\* one inside.
LEMMA EveryNumber ==
  ASSUME NEW S, 0 \in S, \A n \in Nat : n \in S => n + 1 \in S
  PROVE  Nat \subseteq S
<1> DEFINE Out == Nat \ S
           R == {p \in Nat \X Nat : p[1] < p[2]}
<1>1. SUFFICES ASSUME Out # {} PROVE FALSE
  OBVIOUS
<1>2. IsWellFoundedOn(R, Nat)
  BY NatLessThanWellFounded DEF OpToRel
<1>3. PICK n \in Out : \A m \in Out : ~ (<<m, n>> \in R)
  <2>1. Out \subseteq Nat
    OBVIOUS
  <2> HIDE DEF Out, R
  <2> QED
    BY WFMin, <1>1, <1>2, <2>1
<1>4. n \in Nat /\ n # 0 /\ n - 1 \in Nat /\ (n - 1) + 1 = n
  BY <1>3
<1>5. n - 1 \in Out /\ <<n - 1, n>> \in R
  BY <1>3, <1>4
<1> QED
  BY <1>3, <1>5

-----------------------------------------------------------------------------
(* What a queue is charged.                                                *)

\* The definition of the sum in ChargeOf, of the first n commands.
Sums(f, queue, n) ==
  f = [i \in 0 .. n |-> IF i = 0 THEN 0 ELSE f[i - 1] + Charge + queue[i].size]

\* f is a function on the places 0 to n.
OnPlaces(f, n) == f = [i \in 0 .. n |-> f[i]]

\* The constants, as numbers.
LEMMA Budget ==
  /\ Word \in Nat \ {0} /\ Charge \in Nat \ {0} /\ MaxBytes \in Nat /\ MaxItems \in Nat
  /\ MaxBytes < Word /\ Charge <= MaxBytes
  /\ \A command \in Command : command.size \in Nat /\ command.size < Word
<1>1. /\ Word \in Nat \ {0} /\ Charge \in Nat \ {0} /\ MaxBytes \in Nat /\ MaxItems \in Nat
      /\ MaxBytes < Word /\ Charge <= MaxBytes
  BY InboxAssumption
<1>2. \A size \in Sizes : size \in Nat /\ size < Word
  BY InboxAssumption
<1>3. \A command \in Command : command.size \in Sizes
  BY DEF Command
<1> QED
  BY <1>1, <1>2, <1>3

\* Sums place by place.
LEMMA SumsByPlace ==
  ASSUME NEW queue, NEW n \in Nat, NEW f
  PROVE  Sums(f, queue, n) <=>
           /\ OnPlaces(f, n) /\ f[0] = 0
           /\ \A i \in 1 .. n : f[i] = f[i - 1] + Charge + queue[i].size
<1>1. ASSUME Sums(f, queue, n)
      PROVE  /\ OnPlaces(f, n) /\ f[0] = 0
             /\ \A i \in 1 .. n : f[i] = f[i - 1] + Charge + queue[i].size
  <2>1. f = [i \in 0 .. n |-> IF i = 0 THEN 0 ELSE f[i - 1] + Charge + queue[i].size]
    BY <1>1 DEF Sums
  <2>2. \A i \in 0 .. n : f[i] = IF i = 0 THEN 0 ELSE f[i - 1] + Charge + queue[i].size
    BY <2>1
  <2>3. f = [i \in 0 .. n |-> f[i]]
    BY <2>1
  <2>4. OnPlaces(f, n)
    BY <2>3 DEF OnPlaces
  <2>5. f[0] = 0 /\ \A i \in 1 .. n : f[i] = f[i - 1] + Charge + queue[i].size
    <3>1. \A i \in 1 .. n : i \in 0 .. n /\ i # 0
      OBVIOUS
    <3> QED
      BY <2>2, <3>1
  <2> QED
    BY <2>4, <2>5
<1>2. ASSUME OnPlaces(f, n), f[0] = 0,
             \A i \in 1 .. n : f[i] = f[i - 1] + Charge + queue[i].size
      PROVE  Sums(f, queue, n)
  <2>1. \A i \in 0 .. n : f[i] = IF i = 0 THEN 0 ELSE f[i - 1] + Charge + queue[i].size
    <3> SUFFICES ASSUME NEW i \in 0 .. n
                 PROVE  f[i] = IF i = 0 THEN 0 ELSE f[i - 1] + Charge + queue[i].size
      OBVIOUS
    <3>1. i # 0 => i \in 1 .. n
      OBVIOUS
    <3> QED
      BY <1>2, <3>1
  <2>2. f = [i \in 0 .. n |-> f[i]]
    BY <1>2 DEF OnPlaces
  <2>3. [i \in 0 .. n |-> f[i]] =
          [i \in 0 .. n |-> IF i = 0 THEN 0 ELSE f[i - 1] + Charge + queue[i].size]
    BY <2>1
  <2> QED
    BY <2>2, <2>3 DEF Sums
<1> QED
  BY <1>1, <1>2

\* There is such a sum.
LEMMA SumsExist ==
  ASSUME NEW queue \in Seq(Command)
  PROVE  \E f \in [0 .. Len(queue) -> Nat] : Sums(f, queue, Len(queue))
<1> DEFINE n == Len(queue)
           S == {k \in Nat : k <= n => \E f \in [0 .. k -> Nat] : Sums(f, queue, k)}
<1>1. n \in Nat /\ \A i \in 1 .. n : queue[i].size \in Nat
  BY Budget
<1>2. 0 \in S
  <2> DEFINE f == [i \in 0 .. 0 |-> 0]
  <2>1. f \in [0 .. 0 -> Nat] /\ OnPlaces(f, 0) /\ f[0] = 0
    BY DEF OnPlaces
  <2> HIDE DEF f
  <2>2. Sums(f, queue, 0)
    BY <2>1, SumsByPlace
  <2> QED
    BY <2>1, <2>2
<1>3. ASSUME NEW k \in Nat, k \in S PROVE k + 1 \in S
  <2> SUFFICES ASSUME k + 1 <= n PROVE \E f \in [0 .. k + 1 -> Nat] : Sums(f, queue, k + 1)
    OBVIOUS
  <2>1. PICK f \in [0 .. k -> Nat] : Sums(f, queue, k)
    BY <1>1, <1>3
  <2> DEFINE g == [i \in 0 .. k + 1 |-> IF i = k + 1 THEN f[k] + Charge + queue[k + 1].size ELSE f[i]]
  <2>2. f[0] = 0 /\ \A i \in 1 .. k : f[i] = f[i - 1] + Charge + queue[i].size
    BY <2>1, SumsByPlace
  <2>3. g \in [0 .. k + 1 -> Nat] /\ g[0] = 0 /\ OnPlaces(g, k + 1)
    <3>1. f[k] \in Nat /\ Charge \in Nat /\ queue[k + 1].size \in Nat
      BY <1>1, Budget
    <3> QED
      BY <2>2, <3>1 DEF OnPlaces
  <2>4. \A i \in 1 .. k + 1 : g[i] = g[i - 1] + Charge + queue[i].size
    BY <2>2
  <2> HIDE DEF g, n
  <2>5. Sums(g, queue, k + 1)
    <3>1. k + 1 \in Nat
      OBVIOUS
    <3>2. OnPlaces(g, k + 1) /\ g[0] = 0
      BY <2>3
    <3> QED
      BY <2>4, <3>1, <3>2, SumsByPlace
  <2> QED
    BY <2>3, <2>5
<1>4. n \in S
  <2> HIDE DEF S
  <2> QED
    BY <1>1, <1>2, <1>3, EveryNumber
<1> QED
  BY <1>1, <1>4

\* There is only one.
LEMMA SumsUnique ==
  ASSUME NEW queue, NEW n \in Nat, NEW f, NEW g, Sums(f, queue, n), Sums(g, queue, n)
  PROVE  f = g
<1> DEFINE S == {k \in Nat : k <= n => f[k] = g[k]}
<1>1. /\ OnPlaces(f, n) /\ f[0] = 0
      /\ \A i \in 1 .. n : f[i] = f[i - 1] + Charge + queue[i].size
      /\ OnPlaces(g, n) /\ g[0] = 0
      /\ \A i \in 1 .. n : g[i] = g[i - 1] + Charge + queue[i].size
  BY SumsByPlace
<1>2. 0 \in S
  BY <1>1
<1>3. ASSUME NEW k \in Nat, k \in S PROVE k + 1 \in S
  <2>1. SUFFICES ASSUME k + 1 <= n PROVE f[k + 1] = g[k + 1]
    OBVIOUS
  <2>2. k + 1 \in 1 .. n /\ (k + 1) - 1 = k /\ f[k] = g[k]
    BY <1>3, <2>1
  <2> QED
    BY <1>1, <2>2
<1>4. \A k \in Nat : k \in S
  <2> HIDE DEF S
  <2> QED
    BY <1>2, <1>3, EveryNumber
<1>5. \A i \in 0 .. n : f[i] = g[i]
  BY <1>4
<1>6. f = [i \in 0 .. n |-> f[i]] /\ g = [i \in 0 .. n |-> g[i]]
  BY <1>1 DEF OnPlaces
<1>7. [i \in 0 .. n |-> f[i]] = [i \in 0 .. n |-> g[i]]
  BY <1>5
<1> QED
  BY <1>6, <1>7

\* What a queue is charged is the last of any such sums.
LEMMA ChargeIs ==
  ASSUME NEW queue \in Seq(Command), NEW f, Sums(f, queue, Len(queue))
  PROVE  ChargeOf(queue) = f[Len(queue)] /\ ChargeOf(queue) \in Nat
<1> DEFINE h == CHOOSE sum : Sums(sum, queue, Len(queue))
<1>1. Sums(h, queue, Len(queue))
  OBVIOUS
<1>2. ChargeOf(queue) = h[Len(queue)]
  BY DEF ChargeOf, Sums
<1>3. PICK g \in [0 .. Len(queue) -> Nat] : Sums(g, queue, Len(queue))
  BY SumsExist
<1> HIDE DEF h
<1>4. h = f /\ h = g
  BY <1>1, <1>3, SumsUnique
<1> QED
  BY <1>2, <1>3, <1>4

\* An empty queue is charged nothing.
LEMMA NothingCharged == ChargeOf(<< >>) = 0
<1>1. << >> \in Seq(Command) /\ Len(<< >>) = 0
  OBVIOUS
<1>2. PICK f : Sums(f, << >>, Len(<< >>))
  BY <1>1, SumsExist
<1>3. f[0] = 0
  BY <1>1, <1>2, SumsByPlace
<1> QED
  BY <1>1, <1>2, <1>3, ChargeIs

\* A command pushed at the end adds its own charge.
LEMMA ChargeAdded ==
  ASSUME NEW queue \in Seq(Command), NEW command \in Command
  PROVE  ChargeOf(Append(queue, command)) = ChargeOf(queue) + Charge + command.size
<1> DEFINE n == Len(queue)
           longer == Append(queue, command)
<1>1. n \in Nat /\ longer \in Seq(Command) /\ Len(longer) = n + 1 /\ longer[n + 1] = command
      /\ \A i \in 1 .. n : longer[i] = queue[i]
  BY AppendProperties
<1>2. PICK g : Sums(g, longer, Len(longer))
  BY <1>1, SumsExist
<1> DEFINE f == [i \in 0 .. n |-> g[i]]
<1> HIDE DEF longer, n
<1>3. g[0] = 0 /\ \A i \in 1 .. n + 1 : g[i] = g[i - 1] + Charge + longer[i].size
  BY <1>1, <1>2, SumsByPlace
<1>4. OnPlaces(f, n) /\ f[0] = 0
      /\ \A i \in 1 .. n : f[i] = f[i - 1] + Charge + queue[i].size
  BY <1>1, <1>3 DEF OnPlaces
<1>5. f[n] = g[n]
  BY <1>1
<1> HIDE DEF f
<1>6. Sums(f, queue, n)
  BY <1>1, <1>4, SumsByPlace
<1>7. ChargeOf(queue) = g[n]
  BY <1>5, <1>6, ChargeIs DEF n
<1>8. ChargeOf(longer) = g[n + 1]
  BY <1>1, <1>2, ChargeIs
<1>9. g[n + 1] = g[n] + Charge + command.size
  BY <1>1, <1>3
<1> QED
  BY <1>7, <1>8, <1>9 DEF longer

\* The command taken from the front takes its own charge with it.
LEMMA ChargeTaken ==
  ASSUME NEW queue \in Seq(Command), queue # << >>
  PROVE  ChargeOf(queue) = ChargeOf(Tail(queue)) + (Charge + Head(queue).size)
<1> DEFINE n == Len(queue)
           rest == Tail(queue)
<1>1. /\ n \in Nat /\ n # 0 /\ rest \in Seq(Command) /\ Len(rest) = n - 1
      /\ \A i \in 1 .. n - 1 : rest[i] = queue[i + 1]
      /\ Head(queue) = queue[1] /\ Head(queue) \in Command
  BY HeadTailProperties, EmptySeq
<1>2. PICK g \in [0 .. n -> Nat] : Sums(g, queue, n)
  BY SumsExist
<1> DEFINE f == [i \in 0 .. n - 1 |-> g[i + 1] - g[1]]
<1> HIDE DEF rest, n
<1>3. g[0] = 0 /\ \A i \in 1 .. n : g[i] = g[i - 1] + Charge + queue[i].size
  BY <1>1, <1>2, SumsByPlace
<1>4. \A i \in 0 .. n - 1 : g[i + 1] \in Nat /\ f[i] = g[i + 1] - g[1]
  BY <1>1, <1>2
<1>5. \A i \in 1 .. n - 1 : f[i] = f[i - 1] + Charge + rest[i].size
  <2> SUFFICES ASSUME NEW i \in 1 .. n - 1
               PROVE  f[i] = f[i - 1] + Charge + rest[i].size
    OBVIOUS
  <2>1. /\ i + 1 \in 1 .. n /\ (i + 1) - 1 = i /\ (i - 1) + 1 = i
        /\ i - 1 \in 0 .. n - 1 /\ i \in 0 .. n - 1
    BY <1>1
  <2>2. g[i + 1] = g[i] + Charge + rest[i].size
    BY <1>1, <1>3, <2>1
  <2>3. f[i] = g[i + 1] - g[1] /\ f[i - 1] = g[i] - g[1]
    BY <1>4, <2>1
  <2>4. g[i + 1] \in Nat /\ g[i] \in Nat /\ g[1] \in Nat /\ Charge \in Nat /\ rest[i].size \in Nat
    <3>1. rest[i] \in Command
      BY <1>1
    <3> QED
      BY <1>1, <1>2, <2>1, <3>1, Budget
  <2>5. (g[i] + Charge + rest[i].size) - g[1] = (g[i] - g[1]) + Charge + rest[i].size
    <3> DEFINE a == g[i]
               b == g[1]
               c == rest[i].size
    <3>1. a \in Nat /\ b \in Nat /\ c \in Nat /\ Charge \in Nat
      BY <2>4
    <3> HIDE DEF a, b, c
    <3>2. (a + Charge + c) - b = (a - b) + Charge + c
      BY <3>1
    <3> QED
      BY <3>2 DEF a, b, c
  <2> QED
    BY <2>2, <2>3, <2>5
<1>6. OnPlaces(f, n - 1) /\ f[0] = 0
  BY <1>1, <1>4 DEF OnPlaces
<1> HIDE DEF f
<1>7. Sums(f, rest, n - 1)
  BY <1>1, <1>5, <1>6, SumsByPlace
<1>8. ChargeOf(rest) = f[n - 1]
  BY <1>1, <1>7, ChargeIs
<1>9. ChargeOf(queue) = g[n]
  BY <1>2, ChargeIs DEF n
<1>10. f[n - 1] = g[n] - g[1]
  BY <1>1, <1>4
<1>11. g[1] = Charge + Head(queue).size /\ g[n] \in Nat /\ g[1] \in Nat
  BY <1>1, <1>2, <1>3, Budget
<1> QED
  BY <1>8, <1>9, <1>10, <1>11 DEF rest

-----------------------------------------------------------------------------
(* The inbox.                                                              *)

\* A sum below 2^w does not wrap.
LEMMA NoWrap ==
  ASSUME NEW x \in Nat, x < Word
  PROVE  x % Word = x
  BY Budget

\* A payload that fits keeps the charged bytes within the budget: the comparison
\* of push() never forms a sum that could wrap.
LEMMA FitsKeepsBudget ==
  ASSUME NEW size \in Sizes, bytes_ \in Nat, bytes_ <= MaxBytes, Fits(size)
  PROVE  /\ bytes_ + Charge + size <= MaxBytes
         /\ (bytes_ + Charge + size) % Word = bytes_ + Charge + size
<1>1. size \in Nat /\ size < Word
  BY InboxAssumption
<1>2. (MaxBytes - bytes_) % Word = MaxBytes - bytes_
  BY Budget, NoWrap
<1>3. MaxBytes - bytes_ >= Charge
  BY <1>2 DEF Fits
<1>4. ((MaxBytes - bytes_) - Charge) % Word = (MaxBytes - bytes_) - Charge
  BY <1>3, Budget, NoWrap
<1>5. size <= (MaxBytes - bytes_) - Charge
  BY <1>2, <1>4 DEF Fits
<1>6. bytes_ + Charge + size \in Nat /\ bytes_ + Charge + size <= MaxBytes
  BY <1>1, <1>5, Budget
<1> QED
  BY <1>6, Budget, NoWrap

\* The inductive invariant: the two properties together.
InboxSafe == InboxInvariant /\ OnceInOrder

\* An inbox starts empty.
LEMMA InboxInit == Init => InboxSafe
<1> SUFFICES ASSUME Init PROVE InboxSafe
  OBVIOUS
<1>1. /\ queue_ = << >> /\ bytes_ = 0 /\ closed_ = FALSE
      /\ admitted = << >> /\ popped = << >>
  BY DEF Init
<1>2. << >> \in Seq(Command) /\ Len(<< >>) = 0 /\ << >> \o << >> = << >>
  OBVIOUS
<1>3. TypeOK
  <2>1. 0 <= MaxItems /\ 0 \in 0 .. Word - 1
    BY Budget
  <2>2. closed_ \in BOOLEAN
    BY <1>1
  <2> QED
    BY <1>1, <1>2, <2>1, <2>2 DEF TypeOK
<1>4. BytesAreTheQueue
  BY <1>1, NothingCharged, Budget DEF BytesAreTheQueue
<1> QED
  BY <1>1, <1>2, <1>3, <1>4 DEF InboxSafe, InboxInvariant, OnceInOrder

\* push() keeps the invariant.
LEMMA PushKeeps ==
  ASSUME InboxSafe, NEW resource \in Epochs, NEW size \in Sizes, Push(resource, size)
  PROVE  InboxSafe'
<1> DEFINE command == [resource |-> resource, size |-> size]
<1>1. /\ queue_ \in Seq(Command) /\ Len(queue_) <= MaxItems /\ bytes_ \in 0 .. Word - 1
      /\ closed_ \in BOOLEAN /\ admitted \in Seq(Command) /\ popped \in Seq(Command)
      /\ bytes_ = ChargeOf(queue_) /\ bytes_ <= MaxBytes /\ popped \o queue_ = admitted
  BY DEF InboxSafe, InboxInvariant, TypeOK, BytesAreTheQueue, OnceInOrder
<1>2. command \in Command /\ command.size = size
  BY DEF Command
<1>3. UNCHANGED <<closed_, popped>>
  BY DEF Push
<1>4. CASE answer' = "admitted"
  <2>1. /\ queue_' = Append(queue_, command) /\ admitted' = Append(admitted, command)
        /\ bytes_' = (bytes_ + Charge + size) % Word
        /\ Verdict(resource, size) = "admitted"
    BY <1>4 DEF Push
  <2>2. Len(queue_) < MaxItems /\ Fits(size)
    <3>1. ~ (Len(queue_) >= MaxItems) /\ Fits(size)
      BY <2>1 DEF Verdict
    <3> QED
      BY <1>1, <3>1, Budget
  <2> HIDE DEF command
  <2>3. bytes_' = bytes_ + Charge + size /\ bytes_' <= MaxBytes
    BY <1>1, <2>1, <2>2, FitsKeepsBudget
  <2>4. /\ queue_' \in Seq(Command) /\ Len(queue_') = Len(queue_) + 1
        /\ admitted' \in Seq(Command)
    BY <1>1, <1>2, <2>1, AppendProperties
  <2>5. size \in Nat
    BY InboxAssumption
  <2>6. TypeOK'
    <3>1. bytes_' \in 0 .. Word - 1
      BY <1>1, <2>3, <2>5, Budget
    <3>2. Len(queue_') <= MaxItems
      BY <1>1, <2>2, <2>4, Budget
    <3> QED
      BY <1>1, <1>3, <2>4, <3>1, <3>2 DEF TypeOK
  <2>7. BytesAreTheQueue'
    <3>1. ChargeOf(queue_') = bytes_ + Charge + size
      BY <1>1, <1>2, <2>1, ChargeAdded
    <3> QED
      BY <2>3, <3>1 DEF BytesAreTheQueue
  <2>8. popped \o Append(queue_, command) = Append(admitted, command)
    <3>1. <<command>> \in Seq(Command)
      BY <1>2
    <3>2. Append(queue_, command) = queue_ \o <<command>>
          /\ Append(admitted, command) = admitted \o <<command>>
      BY <1>1, <1>2, AppendIsConcat
    <3>3. (popped \o queue_) \o <<command>> = popped \o (queue_ \o <<command>>)
      <4>1. popped \in Seq(Command) /\ queue_ \in Seq(Command)
        BY <1>1
      <4> HIDE DEF command
      <4> QED
        BY <3>1, <4>1, ConcatAssociative
    <3> QED
      BY <1>1, <3>2, <3>3
  <2> QED
    BY <1>3, <2>1, <2>6, <2>7, <2>8 DEF InboxSafe, InboxInvariant, OnceInOrder
<1>5. CASE answer' # "admitted"
  <2>1. UNCHANGED <<queue_, bytes_, closed_, admitted, popped>>
    BY <1>5 DEF Push
  <2> QED
    BY <2>1 DEF InboxSafe, InboxInvariant, TypeOK, BytesAreTheQueue, OnceInOrder
<1> QED
  BY <1>4, <1>5

\* pop() keeps the invariant.
LEMMA PopKeeps ==
  ASSUME InboxSafe, Pop
  PROVE  InboxSafe'
<1>1. /\ queue_ \in Seq(Command) /\ Len(queue_) <= MaxItems /\ bytes_ \in 0 .. Word - 1
      /\ closed_ \in BOOLEAN /\ admitted \in Seq(Command) /\ popped \in Seq(Command)
      /\ bytes_ = ChargeOf(queue_) /\ bytes_ <= MaxBytes /\ popped \o queue_ = admitted
  BY DEF InboxSafe, InboxInvariant, TypeOK, BytesAreTheQueue, OnceInOrder
<1>2. CASE queue_ = << >>
  <2>1. UNCHANGED <<queue_, bytes_, closed_, admitted, popped>>
    BY <1>2 DEF Pop
  <2> QED
    BY <2>1 DEF InboxSafe, InboxInvariant, TypeOK, BytesAreTheQueue, OnceInOrder
<1>3. CASE queue_ # << >>
  <2>1. /\ queue_' = Tail(queue_) /\ popped' = Append(popped, Head(queue_))
        /\ bytes_' = (bytes_ - (Charge + Head(queue_).size)) % Word
        /\ UNCHANGED <<closed_, admitted>>
    BY <1>3 DEF Pop
  <2>2. /\ Head(queue_) \in Command /\ Tail(queue_) \in Seq(Command)
        /\ Len(Tail(queue_)) = Len(queue_) - 1 /\ Len(queue_) \in Nat
    BY <1>1, <1>3, HeadTailProperties
  <2>3. ChargeOf(Tail(queue_)) \in Nat
    BY <2>2, SumsExist, ChargeIs
  <2>4. bytes_' = ChargeOf(queue_') /\ bytes_' \in Nat /\ bytes_' <= MaxBytes
    <3>1. bytes_ = ChargeOf(Tail(queue_)) + (Charge + Head(queue_).size)
      BY <1>1, <1>3, ChargeTaken
    <3>2. Charge \in Nat /\ Head(queue_).size \in Nat /\ MaxBytes < Word
      BY <2>2, Budget
    <3>3. bytes_ - (Charge + Head(queue_).size) = ChargeOf(Tail(queue_))
      BY <2>3, <3>1, <3>2
    <3>4. ChargeOf(Tail(queue_)) <= bytes_
      BY <2>3, <3>1, <3>2
    <3>5. ChargeOf(Tail(queue_)) < Word /\ ChargeOf(Tail(queue_)) <= MaxBytes
      BY <1>1, <2>3, <3>2, <3>4, Budget
    <3>6. ChargeOf(Tail(queue_)) % Word = ChargeOf(Tail(queue_))
      BY <2>3, <3>5, NoWrap
    <3> QED
      BY <2>1, <2>3, <3>3, <3>5, <3>6
  <2>5. popped' \in Seq(Command)
    BY <1>1, <2>1, <2>2, AppendProperties
  <2>6. TypeOK'
    <3>1. bytes_' \in 0 .. Word - 1
      BY <2>4, Budget
    <3>2. Len(queue_') <= MaxItems
      BY <1>1, <2>1, <2>2, Budget
    <3> QED
      BY <1>1, <2>1, <2>2, <2>5, <3>1, <3>2 DEF TypeOK
  <2>7. Append(popped, Head(queue_)) \o Tail(queue_) = popped \o queue_
    <3> DEFINE c == Head(queue_)
    <3>1. <<c>> \in Seq(Command) /\ Append(popped, c) = popped \o <<c>>
      BY <1>1, <2>2, AppendIsConcat
    <3>2. queue_ = <<c>> \o Tail(queue_)
      <4>1. <<c>> \o Tail(queue_) \in Seq(Command)
            /\ Len(<<c>> \o Tail(queue_)) = Len(queue_)
            /\ \A i \in 1 .. Len(queue_) :
                 (<<c>> \o Tail(queue_))[i] = IF i <= 1 THEN <<c>>[i] ELSE Tail(queue_)[i - 1]
        <5>1. Len(<<c>>) = 1
          OBVIOUS
        <5> HIDE DEF c
        <5> QED
          BY <2>2, <3>1, <5>1, ConcatProperties
      <4>2. \A i \in 1 .. Len(queue_) : queue_[i] = (<<c>> \o Tail(queue_))[i]
        <5> SUFFICES ASSUME NEW i \in 1 .. Len(queue_)
                     PROVE  queue_[i] = IF i <= 1 THEN <<c>>[i] ELSE Tail(queue_)[i - 1]
          BY <4>1
        <5>1. CASE i = 1
          BY <5>1, <1>1, <1>3
        <5>2. CASE i # 1
          <6>1. i - 1 \in 1 .. Len(Tail(queue_)) /\ (i - 1) + 1 = i /\ ~ (i <= 1)
            BY <2>2, <5>2
          <6>2. Tail(queue_)[i - 1] = queue_[(i - 1) + 1]
            BY <1>1, <1>3, <6>1, HeadTailProperties
          <6> QED
            BY <6>1, <6>2
        <5> QED
          BY <5>1, <5>2
      <4> QED
        BY <1>1, <4>1, <4>2, SeqEqual
    <3> HIDE DEF c
    <3>3. (popped \o <<c>>) \o Tail(queue_) = popped \o (<<c>> \o Tail(queue_))
      <4>1. popped \in Seq(Command) /\ <<c>> \in Seq(Command) /\ Tail(queue_) \in Seq(Command)
        BY <1>1, <2>2, <3>1
      <4> QED
        BY <4>1, ConcatAssociative
    <3> QED
      BY <3>1, <3>2, <3>3 DEF c
  <2> QED
    BY <1>1, <2>1, <2>4, <2>6, <2>7 DEF InboxSafe, InboxInvariant, BytesAreTheQueue, OnceInOrder
<1> QED
  BY <1>2, <1>3

\* Every call keeps the invariant.
LEMMA InboxStep == InboxSafe /\ [Next]_vars => InboxSafe'
<1> SUFFICES ASSUME InboxSafe, [Next]_vars PROVE InboxSafe'
  OBVIOUS
<1>1. CASE \E resource \in Epochs, size \in Sizes : Push(resource, size)
  BY <1>1, PushKeeps
<1>2. CASE Pop
  BY <1>2, PopKeeps
<1>3. CASE Close \/ UNCHANGED vars
  <2>1. UNCHANGED <<queue_, bytes_, admitted, popped>> /\ closed_' \in BOOLEAN
    BY <1>3 DEF Close, vars, InboxSafe, InboxInvariant, TypeOK
  <2> QED
    BY <2>1 DEF InboxSafe, InboxInvariant, TypeOK, BytesAreTheQueue, OnceInOrder
<1> QED
  BY <1>1, <1>2, <1>3 DEF Next

\* bounded_inbox.cpp: after any calls the bytes charged are those of the queued
\* commands, within the budget, and no subtraction or sum of size_t has wrapped.
THEOREM BytesStayTheQueue == Spec => []InboxInvariant
<1>1. InboxSafe => InboxInvariant
  BY DEF InboxSafe
<1> QED
  BY <1>1, InboxInit, InboxStep, PTL DEF Spec

\* bounded_inbox.cpp: pop() returns every admitted command once, in the order in
\* which push() admitted them, also after close().
THEOREM PopsOnceInOrder == Spec => []OnceInOrder
<1>1. InboxSafe => OnceInOrder
  BY DEF InboxSafe
<1> QED
  BY <1>1, InboxInit, InboxStep, PTL DEF Spec

-----------------------------------------------------------------------------
(* The plan validator.  Its graph of names: the walks of n steps, and a    *)
(* sequence of nodes that left in waves.                                   *)

\* A graph of names, its walks of n steps, and a sequence of its nodes in waves.
IsGraph(V, E) == V \subseteq Nat /\ IsFiniteSet(V) /\ \A x \in V : E[x] \subseteq V

Paths(V, E, id, n) ==
  {w \in [0 .. n -> V] : w[0] = id /\ \A k \in 1 .. n : w[k] \in E[w[k - 1]]}

\* The nodes of s left in v waves: what a node waits for left in earlier waves,
\* and something of it in the wave before; what has not left waits for more than
\* the waves before the last.
Layers(V, E, s, wave, v) ==
  /\ v \in Nat /\ v <= Len(s)
  /\ s \in Seq(V) /\ wave \in [NamesOf(s) -> Nat]
  /\ \A x \in NamesOf(s) :
       /\ wave[x] < v /\ E[x] \subseteq NamesOf(s)
       /\ \A y \in E[x] : wave[y] < wave[x]
       /\ wave[x] > 0 => \E y \in E[x] : wave[y] = wave[x] - 1
  /\ \A i, j \in DOMAIN s :
       i < j => \/ wave[s[i]] < wave[s[j]]
                \/ wave[s[i]] = wave[s[j]] /\ s[i] < s[j]
  /\ v > 0 => \A x \in V \ NamesOf(s) : \E y \in E[x] : y \notin NamesOf(s) \/ wave[y] >= v - 1

\* What is left of a walk that is cut after m steps, and what follows them.
Until(w, m) == [k \in 0 .. m |-> w[k]]
From(w, m, n) == [k \in 0 .. n - m |-> w[m + k]]

\* A walk may be cut after any of its steps, or before it, or begun earlier.
LEMMA PathCut ==
  ASSUME NEW V, NEW E, NEW id, NEW n \in Nat, NEW w \in Paths(V, E, id, n), NEW m \in 0 .. n
  PROVE  /\ Until(w, m) \in Paths(V, E, id, m) /\ Until(w, m)[m] = w[m]
         /\ From(w, m, n) \in Paths(V, E, w[m], n - m)
         /\ \A k \in 0 .. n - m : From(w, m, n)[k] = w[m + k]
<1>1. /\ w \in [0 .. n -> V] /\ w[0] = id
      /\ \A k \in 1 .. n : w[k] \in E[w[k - 1]]
  BY DEF Paths
<1>2. Until(w, m) \in Paths(V, E, id, m)
  <2> DEFINE u == Until(w, m)
  <2>1. u \in [0 .. m -> V] /\ u[0] = id
    BY <1>1 DEF Until
  <2>2. ASSUME NEW k \in 1 .. m PROVE u[k] \in E[u[k - 1]]
    <3>1. k \in 1 .. n /\ k \in 0 .. m /\ k - 1 \in 0 .. m
      OBVIOUS
    <3> QED
      BY <1>1, <3>1 DEF Until
  <2> HIDE DEF u
  <2>3. u \in Paths(V, E, id, m)
    BY <2>1, <2>2 DEF Paths
  <2> QED
    BY <2>3 DEF u
<1>3. From(w, m, n) \in Paths(V, E, w[m], n - m)
  <2> DEFINE u == From(w, m, n)
  <2>1. u \in [0 .. n - m -> V] /\ u[0] = w[m]
    BY <1>1 DEF From
  <2>2. ASSUME NEW k \in 1 .. n - m PROVE u[k] \in E[u[k - 1]]
    <3>1. m + k \in 1 .. n /\ k \in 0 .. n - m /\ k - 1 \in 0 .. n - m
      OBVIOUS
    <3>2. u[k] = w[m + k] /\ u[k - 1] = w[m + (k - 1)] /\ m + (k - 1) = (m + k) - 1
      BY <3>1 DEF From
    <3> QED
      BY <1>1, <3>1, <3>2
  <2> HIDE DEF u
  <2>3. u \in Paths(V, E, w[m], n - m)
    BY <2>1, <2>2 DEF Paths
  <2> QED
    BY <2>3 DEF u
<1>4. Until(w, m)[m] = w[m]
  BY DEF Until
<1>5. \A k \in 0 .. n - m : From(w, m, n)[k] = w[m + k]
  BY DEF From
<1> QED
  BY <1>2, <1>3, <1>4, <1>5

\* A walk may begin one step earlier.
LEMMA PathBegun ==
  ASSUME NEW V, NEW E, NEW x \in V, NEW y \in E[x], NEW n \in Nat, NEW w \in Paths(V, E, y, n)
  PROVE  \E u \in Paths(V, E, x, n + 1) : \A k \in 0 .. n : u[k + 1] = w[k]
<1> DEFINE u == [k \in 0 .. n + 1 |-> IF k = 0 THEN x ELSE w[k - 1]]
<1>1. /\ w \in [0 .. n -> V] /\ w[0] = y
      /\ \A k \in 1 .. n : w[k] \in E[w[k - 1]]
  BY DEF Paths
<1>2. u \in [0 .. n + 1 -> V] /\ u[0] = x
  BY <1>1
<1>3. ASSUME NEW k \in 1 .. n + 1 PROVE u[k] \in E[u[k - 1]]
  <2>1. CASE k = 1
    <3>1. u[1] = w[0] /\ u[0] = x
      OBVIOUS
    <3> QED
      BY <1>1, <2>1, <3>1
  <2>2. CASE k # 1
    <3>1. k - 1 \in 1 .. n /\ k - 1 # 0 /\ u[k] = w[k - 1] /\ u[k - 1] = w[(k - 1) - 1]
      BY <2>2
    <3> QED
      BY <1>1, <3>1
  <2> QED
    BY <2>1, <2>2
<1>4. \A k \in 0 .. n : u[k + 1] = w[k]
  OBVIOUS
<1> HIDE DEF u
<1>5. u \in Paths(V, E, x, n + 1)
  BY <1>2, <1>3 DEF Paths
<1> QED
  BY <1>4, <1>5

\* The waves go down along a walk, so it is no longer than they are deep.
LEMMA PathDescends ==
  ASSUME NEW V, NEW E, NEW s, NEW wave, NEW v, Layers(V, E, s, wave, v),
         NEW x \in NamesOf(s), NEW n \in Nat, NEW w \in Paths(V, E, x, n)
  PROVE  \A k \in 0 .. n : w[k] \in NamesOf(s) /\ wave[w[k]] + k <= wave[x]
<1> DEFINE S == {k \in Nat : k <= n => w[k] \in NamesOf(s) /\ wave[w[k]] + k <= wave[x]}
<1>1. /\ w[0] = x /\ \A k \in 1 .. n : w[k] \in E[w[k - 1]]
      /\ wave \in [NamesOf(s) -> Nat]
      /\ \A y \in NamesOf(s) : E[y] \subseteq NamesOf(s) /\ \A z \in E[y] : wave[z] < wave[y]
  BY DEF Paths, Layers
<1>2. 0 \in S
  BY <1>1
<1>3. ASSUME NEW k \in Nat, k \in S PROVE k + 1 \in S
  <2> SUFFICES ASSUME k + 1 <= n
               PROVE  w[k + 1] \in NamesOf(s) /\ wave[w[k + 1]] + (k + 1) <= wave[x]
    OBVIOUS
  <2>1. w[k] \in NamesOf(s) /\ wave[w[k]] + k <= wave[x]
    BY <1>3
  <2>2. w[k + 1] \in E[w[k]]
    <3>1. k + 1 \in 1 .. n /\ (k + 1) - 1 = k
      OBVIOUS
    <3> QED
      BY <1>1, <3>1
  <2>3. w[k + 1] \in NamesOf(s) /\ wave[w[k + 1]] < wave[w[k]]
    BY <1>1, <2>1, <2>2
  <2>4. wave[w[k + 1]] \in Nat /\ wave[w[k]] \in Nat /\ wave[x] \in Nat
    BY <1>1, <2>1, <2>3
  <2> QED
    BY <2>1, <2>3, <2>4
<1> HIDE DEF S
<1>4. Nat \subseteq S
  BY <1>2, <1>3, EveryNumber
<1> QED
  BY <1>4 DEF S

\* From a node of wave n a walk of n steps goes down wave by wave.
LEMMA PathToFirst ==
  ASSUME NEW V, NEW E, NEW s, NEW wave, NEW v, Layers(V, E, s, wave, v), NEW x \in NamesOf(s)
  PROVE  Paths(V, E, x, wave[x]) # {}
<1> DEFINE S == {n \in Nat : \A y \in NamesOf(s) : wave[y] = n => Paths(V, E, y, n) # {}}
<1>1. /\ wave \in [NamesOf(s) -> Nat] /\ NamesOf(s) \subseteq V
      /\ \A y \in NamesOf(s) : /\ E[y] \subseteq NamesOf(s)
                               /\ wave[y] > 0 => \E z \in E[y] : wave[z] = wave[y] - 1
  <2>1. s \in Seq(V)
    BY DEF Layers
  <2>2. NamesOf(s) \subseteq V
    BY <2>1 DEF NamesOf
  <2> QED
    BY <2>2 DEF Layers
<1>2. 0 \in S
  <2> SUFFICES ASSUME NEW y \in NamesOf(s) PROVE Paths(V, E, y, 0) # {}
    OBVIOUS
  <2> DEFINE u == [k \in 0 .. 0 |-> y]
  <2>1. u \in [0 .. 0 -> V] /\ u[0] = y /\ 1 .. 0 = {}
    BY <1>1
  <2> HIDE DEF u
  <2>2. u \in Paths(V, E, y, 0)
    BY <2>1 DEF Paths
  <2> QED
    BY <2>2
<1>3. ASSUME NEW n \in Nat, n \in S PROVE n + 1 \in S
  <2> SUFFICES ASSUME NEW y \in NamesOf(s), wave[y] = n + 1 PROVE Paths(V, E, y, n + 1) # {}
    OBVIOUS
  <2>1. PICK z \in E[y] : wave[z] = n
    <3>1. wave[y] > 0 /\ wave[y] - 1 = n
      OBVIOUS
    <3> QED
      BY <1>1, <3>1
  <2>2. z \in NamesOf(s) /\ y \in V
    BY <1>1
  <2>3. PICK w : w \in Paths(V, E, z, n)
    BY <1>3, <2>1, <2>2
  <2> QED
    BY <2>1, <2>2, <2>3, PathBegun
<1> HIDE DEF S
<1>4. Nat \subseteq S
  BY <1>2, <1>3, EveryNumber
<1> QED
  BY <1>1, <1>4 DEF S

\* The wave of a node is the length of the longest walk from it, and the only
\* number like it.
LEMMA WaveIsDepth ==
  ASSUME NEW V, NEW E, NEW s, NEW wave, NEW v, Layers(V, E, s, wave, v), NEW x \in NamesOf(s)
  PROVE  \A n \in Nat : Paths(V, E, x, n) # {} /\ Paths(V, E, x, n + 1) = {} <=> n = wave[x]
<1>1. wave[x] \in Nat
  BY DEF Layers
<1>2. ASSUME NEW n \in Nat, NEW w \in Paths(V, E, x, n) PROVE n <= wave[x]
  <2>1. w[n] \in NamesOf(s) /\ wave[w[n]] + n <= wave[x]
    BY PathDescends
  <2>2. wave[w[n]] \in Nat
    BY <2>1 DEF Layers
  <2> QED
    BY <1>1, <2>1, <2>2
<1>3. Paths(V, E, x, wave[x]) # {}
  BY PathToFirst
<1>4. Paths(V, E, x, wave[x] + 1) = {}
  BY <1>1, <1>2
<1>5. ASSUME NEW n \in Nat, n < wave[x] PROVE Paths(V, E, x, n + 1) # {}
  <2>1. PICK w : w \in Paths(V, E, x, wave[x])
    BY <1>3
  <2>2. n + 1 \in 0 .. wave[x]
    BY <1>1, <1>5
  <2> QED
    BY <1>1, <2>1, <2>2, PathCut
<1> QED
  BY <1>1, <1>2, <1>3, <1>4, <1>5

\* Where every node waits for another one, walks have any length.
LEMMA PathAnyLength ==
  ASSUME NEW V, NEW E, NEW T \in SUBSET V, \A x \in T : \E y \in E[x] : y \in T
  PROVE  \A n \in Nat : \A x \in T : Paths(V, E, x, n) # {}
<1> DEFINE S == {n \in Nat : \A x \in T : Paths(V, E, x, n) # {}}
<1>1. 0 \in S
  <2> SUFFICES ASSUME NEW y \in T PROVE Paths(V, E, y, 0) # {}
    OBVIOUS
  <2> DEFINE u == [k \in 0 .. 0 |-> y]
  <2>1. u \in [0 .. 0 -> V] /\ u[0] = y /\ 1 .. 0 = {}
    OBVIOUS
  <2> HIDE DEF u
  <2>2. u \in Paths(V, E, y, 0)
    BY <2>1 DEF Paths
  <2> QED
    BY <2>2
<1>2. ASSUME NEW n \in Nat, n \in S PROVE n + 1 \in S
  <2> SUFFICES ASSUME NEW x \in T PROVE Paths(V, E, x, n + 1) # {}
    OBVIOUS
  <2>1. PICK y \in E[x] : y \in T
    OBVIOUS
  <2>2. PICK w : w \in Paths(V, E, y, n)
    BY <1>2, <2>1
  <2> QED
    BY <2>1, <2>2, PathBegun
<1> HIDE DEF S
<1>3. Nat \subseteq S
  BY <1>1, <1>2, EveryNumber
<1> QED
  BY <1>3 DEF S

\* A walk as long as the graph is large meets a node twice.
LEMMA PathMeetsCycle ==
  ASSUME NEW V, NEW E, IsFiniteSet(V), NEW x, Paths(V, E, x, Cardinality(V)) # {}
  PROVE  \E i \in 0 .. Cardinality(V) : \E w \in Paths(V, E, x, i) :
           \E m \in 1 .. Cardinality(V) : \E u \in Paths(V, E, w[i], m) : u[m] = w[i]
<1> DEFINE N == Cardinality(V)
<1>1. N \in Nat
  BY FS_CardinalityType
<1>2. PICK w : w \in Paths(V, E, x, N)
  OBVIOUS
<1> HIDE DEF N
<1>3. w \in [0 .. N -> V]
  BY <1>2 DEF Paths
<1>4. IsFiniteSet(0 .. N) /\ Cardinality(0 .. N) = N + 1
  BY <1>1, FS_Interval
<1>5. PICK a, b \in 0 .. N : a # b /\ w[a] = w[b]
  <2>1. Cardinality(V) < Cardinality(0 .. N)
    BY <1>1, <1>4 DEF N
  <2> QED
    BY <1>3, <1>4, <2>1, FS_PigeonHole
<1>6. PICK i, j \in 0 .. N : i < j /\ w[i] = w[j]
  BY <1>1, <1>5
<1> DEFINE rest == From(w, i, N)
<1>7. Until(w, i) \in Paths(V, E, x, i) /\ Until(w, i)[i] = w[i]
  BY <1>1, <1>2, PathCut
<1>8. rest \in Paths(V, E, w[i], N - i)
  BY <1>1, <1>2, PathCut
<1>9. j - i \in 0 .. N - i /\ j - i \in 1 .. N /\ N - i \in Nat
  BY <1>1, <1>6
<1>10. rest[j - i] = w[j]
  <2>1. \A k \in 0 .. N - i : rest[k] = w[i + k]
    BY <1>1, <1>2, PathCut
  <2>2. rest[j - i] = w[i + (j - i)]
    BY <1>9, <2>1
  <2> QED
    BY <2>2
<1> HIDE DEF rest
<1>11. Until(rest, j - i) \in Paths(V, E, w[i], j - i) /\ Until(rest, j - i)[j - i] = rest[j - i]
  BY <1>8, <1>9, PathCut
<1> QED
  BY <1>6, <1>7, <1>9, <1>10, <1>11 DEF N

-----------------------------------------------------------------------------
(* Names in their order.                                                   *)

\* A non-empty finite set of numbers has a greatest one.
LEMMA Greatest ==
  ASSUME NEW S \in SUBSET Nat, IsFiniteSet(S), S # {}
  PROVE  \E m \in S : \A x \in S : x <= m
<1> DEFINE Tops == {n \in Nat : \A T \in SUBSET Nat :
                      IsFiniteSet(T) /\ Cardinality(T) = n + 1 => \E m \in T : \A x \in T : x <= m}
<1>1. 0 \in Tops
  <2> SUFFICES ASSUME NEW T \in SUBSET Nat, IsFiniteSet(T), Cardinality(T) = 1
               PROVE  \E m \in T : \A x \in T : x <= m
    OBVIOUS
  <2>1. PICK m : T = {m}
    BY FS_Singleton
  <2> QED
    BY <2>1
<1>2. ASSUME NEW n \in Nat, n \in Tops PROVE n + 1 \in Tops
  <2> SUFFICES ASSUME NEW T \in SUBSET Nat, IsFiniteSet(T), Cardinality(T) = (n + 1) + 1
               PROVE  \E m \in T : \A x \in T : x <= m
    OBVIOUS
  <2>1. PICK y : y \in T
    BY FS_EmptySet
  <2>2. IsFiniteSet(T \ {y}) /\ Cardinality(T \ {y}) = n + 1
    BY <2>1, FS_RemoveElement
  <2>3. PICK m \in T \ {y} : \A x \in T \ {y} : x <= m
    BY <1>2, <2>2
  <2>4. CASE y <= m
    BY <2>3, <2>4
  <2>5. CASE ~ (y <= m)
    BY <2>1, <2>3, <2>5
  <2> QED
    BY <2>4, <2>5
<1> HIDE DEF Tops
<1>3. Nat \subseteq Tops
  BY <1>1, <1>2, EveryNumber
<1>4. Cardinality(S) \in Nat /\ Cardinality(S) # 0
  BY FS_CardinalityType, FS_EmptySet
<1>5. Cardinality(S) - 1 \in Tops /\ Cardinality(S) = (Cardinality(S) - 1) + 1
  BY <1>3, <1>4
<1> QED
  BY <1>5 DEF Tops

\* s lists S in its order.
Lists(s, S, n) ==
  s \in [1 .. n -> S] /\ \A i, j \in 1 .. n : i < j => s[i] < s[j]

\* A finite set of numbers has such a list.
LEMMA Listed ==
  ASSUME NEW S \in SUBSET Nat, IsFiniteSet(S)
  PROVE  \E s : Lists(s, S, Cardinality(S))
<1> DEFINE Sizes_ == {n \in Nat : \A T \in SUBSET Nat :
                        IsFiniteSet(T) /\ Cardinality(T) = n => \E s : Lists(s, T, n)}
<1>1. 0 \in Sizes_
  <2> SUFFICES ASSUME NEW T \in SUBSET Nat PROVE \E s : Lists(s, T, 0)
    OBVIOUS
  <2>1. Lists([i \in 1 .. 0 |-> 0], T, 0)
    BY DEF Lists
  <2> QED
    BY <2>1
<1>2. ASSUME NEW n \in Nat, n \in Sizes_ PROVE n + 1 \in Sizes_
  <2> SUFFICES ASSUME NEW T \in SUBSET Nat, IsFiniteSet(T), Cardinality(T) = n + 1
               PROVE  \E s : Lists(s, T, n + 1)
    OBVIOUS
  <2>1. PICK m \in T : \A x \in T : x <= m
    <3>1. T # {}
      BY FS_EmptySet
    <3> QED
      BY <3>1, Greatest
  <2>2. IsFiniteSet(T \ {m}) /\ Cardinality(T \ {m}) = n
    <3>1. IsFiniteSet(T \ {m}) /\ Cardinality(T \ {m}) = Cardinality(T) - 1
      BY FS_RemoveElement
    <3> QED
      BY <3>1
  <2>3. PICK s : Lists(s, T \ {m}, n)
    BY <1>2, <2>2
  <2> DEFINE longer == [i \in 1 .. n + 1 |-> IF i = n + 1 THEN m ELSE s[i]]
  <2>4. longer \in [1 .. n + 1 -> T]
    BY <2>3 DEF Lists
  <2>5. ASSUME NEW i \in 1 .. n + 1, NEW j \in 1 .. n + 1, i < j PROVE longer[i] < longer[j]
    <3>1. i \in 1 .. n /\ longer[i] = s[i]
      BY <2>5
    <3>2. s[i] \in T \ {m}
      BY <2>3, <3>1 DEF Lists
    <3>3. CASE j = n + 1
      <4>1. longer[j] = m /\ m \in Nat /\ s[i] \in Nat
        BY <3>2, <3>3
      <4>2. s[i] <= m /\ s[i] # m
        BY <2>1, <3>2
      <4> QED
        BY <3>1, <4>1, <4>2
    <3>4. CASE j # n + 1
      <4>1. j \in 1 .. n /\ longer[j] = s[j]
        BY <3>4
      <4> QED
        BY <2>3, <2>5, <3>1, <4>1 DEF Lists
    <3> QED
      BY <3>3, <3>4
  <2> HIDE DEF longer
  <2> QED
    BY <2>4, <2>5 DEF Lists
<1> HIDE DEF Sizes_
<1>3. Nat \subseteq Sizes_
  BY <1>1, <1>2, EveryNumber
<1>4. Cardinality(S) \in Sizes_
  BY <1>3, FS_CardinalityType
<1> QED
  BY <1>4 DEF Sizes_

\* Ascending: every name once, in their order.
LEMMA AscendingIs ==
  ASSUME NEW S \in SUBSET Nat, IsFiniteSet(S)
  PROVE  /\ Ascending(S) \in Seq(S) /\ Len(Ascending(S)) = Cardinality(S)
         /\ DOMAIN Ascending(S) = 1 .. Cardinality(S) /\ Cardinality(S) \in Nat
         /\ \A i, j \in 1 .. Cardinality(S) : i < j => Ascending(S)[i] < Ascending(S)[j]
         /\ NamesOf(Ascending(S)) = S
<1> DEFINE n == Cardinality(S)
           s == Ascending(S)
<1>1. n \in Nat
  BY FS_CardinalityType
<1>2. \E t \in [1 .. n -> S] : \A i, j \in DOMAIN t : i < j => t[i] < t[j]
  <2>1. PICK t : Lists(t, S, n)
    BY Listed
  <2>2. t \in [1 .. n -> S] /\ \A i, j \in DOMAIN t : i < j => t[i] < t[j]
    BY <2>1 DEF Lists
  <2> QED
    BY <2>2
<1>3. s \in [1 .. n -> S] /\ \A i, j \in DOMAIN s : i < j => s[i] < s[j]
  BY <1>2 DEF Ascending
<1> HIDE DEF s
<1>4. \A i, j \in 1 .. n : s[i] = s[j] => i = j
  <2> SUFFICES ASSUME NEW i \in 1 .. n, NEW j \in 1 .. n, i # j PROVE s[i] # s[j]
    OBVIOUS
  <2>1. s[i] \in Nat /\ s[j] \in Nat
    BY <1>3
  <2>2. CASE i < j
    BY <1>3, <2>1, <2>2
  <2>3. CASE j < i
    BY <1>3, <2>1, <2>3
  <2> QED
    BY <2>2, <2>3
<1>5. s \in Injection(1 .. n, S)
  BY <1>3, <1>4 DEF Injection, IsInjective
<1>6. Cardinality(1 .. n) = Cardinality(S)
  BY <1>1, FS_Interval DEF n
<1>7. s \in Surjection(1 .. n, S)
  BY <1>5, <1>6, FS_Injection
<1>8. NamesOf(s) = S
  BY <1>3, <1>7 DEF NamesOf, Surjection
<1>9. s \in Seq(S) /\ Len(s) = n
  BY <1>1, <1>3
<1> QED
  BY <1>1, <1>3, <1>8, <1>9 DEF s

\* Names of two lists, one behind the other.
LEMMA NamesJoined ==
  ASSUME NEW T, NEW s \in Seq(T), NEW t \in Seq(T)
  PROVE  /\ NamesOf(s \o t) = NamesOf(s) \cup NamesOf(t)
         /\ s \o t \in Seq(T) /\ Len(s \o t) = Len(s) + Len(t)
         /\ \A i \in DOMAIN (s \o t) :
              IF i \in DOMAIN s THEN (s \o t)[i] = s[i]
              ELSE i - Len(s) \in DOMAIN t /\ (s \o t)[i] = t[i - Len(s)]
<1>1. /\ s \o t \in Seq(T) /\ Len(s \o t) = Len(s) + Len(t)
      /\ Len(s) \in Nat /\ Len(t) \in Nat
      /\ DOMAIN (s \o t) = 1 .. Len(s) + Len(t) /\ DOMAIN s = 1 .. Len(s) /\ DOMAIN t = 1 .. Len(t)
  OBVIOUS
<1>2. \A i \in 1 .. Len(s) + Len(t) : (s \o t)[i] = IF i <= Len(s) THEN s[i] ELSE t[i - Len(s)]
  OBVIOUS
<1>3. ASSUME NEW i \in DOMAIN (s \o t)
      PROVE  IF i \in DOMAIN s THEN (s \o t)[i] = s[i]
             ELSE i - Len(s) \in DOMAIN t /\ (s \o t)[i] = t[i - Len(s)]
  BY <1>1, <1>2
<1>4. NamesOf(s \o t) \subseteq NamesOf(s) \cup NamesOf(t)
  <2> SUFFICES ASSUME NEW i \in DOMAIN (s \o t)
               PROVE  (s \o t)[i] \in NamesOf(s) \cup NamesOf(t)
    BY DEF NamesOf
  <2> QED
    BY <1>3 DEF NamesOf
<1>5. NamesOf(s) \subseteq NamesOf(s \o t)
  <2> SUFFICES ASSUME NEW i \in DOMAIN s PROVE s[i] \in NamesOf(s \o t)
    BY DEF NamesOf
  <2>1. i \in DOMAIN (s \o t) /\ (s \o t)[i] = s[i]
    BY <1>1, <1>2
  <2> QED
    BY <2>1 DEF NamesOf
<1>6. NamesOf(t) \subseteq NamesOf(s \o t)
  <2> SUFFICES ASSUME NEW i \in DOMAIN t PROVE t[i] \in NamesOf(s \o t)
    BY DEF NamesOf
  <2>1. i + Len(s) \in 1 .. Len(s) + Len(t) /\ ~ (i + Len(s) <= Len(s))
        /\ (i + Len(s)) - Len(s) = i
    BY <1>1
  <2>2. (s \o t)[i + Len(s)] = t[i]
    BY <1>2, <2>1
  <2>3. i + Len(s) \in DOMAIN (s \o t)
    BY <1>1, <2>1
  <2> QED
    BY <2>2, <2>3 DEF NamesOf
<1> QED
  BY <1>1, <1>3, <1>4, <1>5, <1>6

-----------------------------------------------------------------------------
(* Sort                                                                    *)

\* Before the first wave nothing has left.
LEMMA LayersBegin ==
  ASSUME NEW V, NEW E
  PROVE  \E wave : Layers(V, E, << >>, wave, 0)
<1> DEFINE wave == [x \in {} |-> 0]
<1>1. NamesOf(<< >>) = {}
  BY DEF NamesOf
<1>2. << >> \in Seq(V) /\ Len(<< >>) = 0 /\ DOMAIN << >> = {}
  OBVIOUS
<1>3. wave \in [NamesOf(<< >>) -> Nat]
  BY <1>1
<1> HIDE DEF wave
<1>4. Layers(V, E, << >>, wave, 0)
  BY <1>1, <1>2, <1>3 DEF Layers
<1> QED
  BY <1>4

\* What is ready next forms one more wave.
LEMMA LayersGrow ==
  ASSUME NEW V, NEW E, IsGraph(V, E), DOMAIN E = V,
         NEW s, NEW wave, NEW v, Layers(V, E, s, wave, v),
         Ready(E, NamesOf(s)) # {}
  PROVE  \E later : Layers(V, E, s \o Ascending(Ready(E, NamesOf(s))), later, v + 1)
<1> DEFINE gone == NamesOf(s)
           ready == Ready(E, gone)
           t == Ascending(ready)
           all == s \o t
           later == [x \in gone \cup ready |-> IF x \in gone THEN wave[x] ELSE v]
<1>1. /\ v \in Nat /\ v <= Len(s) /\ s \in Seq(V) /\ wave \in [gone -> Nat]
      /\ \A x \in gone : /\ wave[x] < v /\ E[x] \subseteq gone
                         /\ \A y \in E[x] : wave[y] < wave[x]
                         /\ wave[x] > 0 => \E y \in E[x] : wave[y] = wave[x] - 1
      /\ \A i, j \in DOMAIN s :
           i < j => \/ wave[s[i]] < wave[s[j]]
                    \/ wave[s[i]] = wave[s[j]] /\ s[i] < s[j]
      /\ v > 0 => \A x \in V \ gone : \E y \in E[x] : y \notin gone \/ wave[y] >= v - 1
  BY DEF Layers
<1>2. /\ ready \subseteq V \ gone /\ \A x \in ready : E[x] \subseteq gone
      /\ \A x \in V \ gone : E[x] \subseteq gone => x \in ready
  BY DEF Ready
<1>3. V \subseteq Nat /\ IsFiniteSet(V) /\ \A x \in V : E[x] \subseteq V
  BY DEF IsGraph
<1> HIDE DEF ready, gone
<1>4. ready \in SUBSET Nat /\ ready \subseteq V /\ IsFiniteSet(ready)
  BY <1>2, <1>3, FS_Subset
<1>5. /\ t \in Seq(ready) /\ Len(t) = Cardinality(ready)
      /\ DOMAIN t = 1 .. Cardinality(ready) /\ Cardinality(ready) \in Nat
      /\ \A i, j \in 1 .. Cardinality(ready) : i < j => t[i] < t[j]
      /\ NamesOf(t) = ready
  BY <1>4, AscendingIs
<1> HIDE DEF t
<1>6. Cardinality(ready) >= 1
  <2>1. Cardinality(ready) # 0
    BY <1>4, FS_EmptySet DEF ready, gone
  <2> QED
    BY <1>5, <2>1
<1>7. t \in Seq(V)
  BY <1>4, <1>5, SeqMonotonic
<1>8. /\ NamesOf(all) = gone \cup ready /\ all \in Seq(V) /\ Len(all) = Len(s) + Len(t)
      /\ \A i \in DOMAIN all :
           IF i \in DOMAIN s THEN all[i] = s[i]
           ELSE i - Len(s) \in DOMAIN t /\ all[i] = t[i - Len(s)]
  BY <1>1, <1>5, <1>7, NamesJoined DEF gone
<1> HIDE DEF all
<1>9. later \in [gone \cup ready -> Nat]
  BY <1>1
<1>10. /\ \A x \in gone : later[x] = wave[x]
       /\ \A x \in ready : later[x] = v
  BY <1>2
<1> HIDE DEF later
<1>11. v + 1 \in Nat /\ v + 1 <= Len(all)
  BY <1>1, <1>5, <1>6, <1>8
<1>12. ASSUME NEW x \in gone \cup ready
       PROVE  /\ later[x] < v + 1 /\ E[x] \subseteq gone \cup ready
              /\ \A y \in E[x] : later[y] < later[x]
              /\ later[x] > 0 => \E y \in E[x] : later[y] = later[x] - 1
  <2>1. CASE x \in gone
    <3>1. /\ wave[x] < v /\ E[x] \subseteq gone /\ later[x] = wave[x]
          /\ \A y \in E[x] : later[y] = wave[y] /\ wave[y] < wave[x]
          /\ wave[x] > 0 => \E y \in E[x] : wave[y] = wave[x] - 1
      BY <1>1, <1>10, <2>1
    <3>2. wave[x] \in Nat
      BY <1>1, <2>1
    <3> QED
      BY <1>1, <3>1, <3>2
  <2>2. CASE x \in ready
    <3>1. E[x] \subseteq gone /\ later[x] = v /\ x \in V \ gone
      BY <1>2, <1>10, <2>2
    <3>2. \A y \in E[x] : later[y] = wave[y] /\ wave[y] < v /\ wave[y] \in Nat
      BY <1>1, <1>10, <3>1
    <3>3. v > 0 => \E y \in E[x] : wave[y] >= v - 1
      BY <1>1, <3>1
    <3>4. v > 0 => \E y \in E[x] : later[y] = v - 1
      <4> SUFFICES ASSUME v > 0 PROVE \E y \in E[x] : later[y] = v - 1
        OBVIOUS
      <4>1. PICK y \in E[x] : wave[y] >= v - 1
        BY <3>3
      <4>2. later[y] = v - 1
        BY <1>1, <3>2, <4>1
      <4> QED
        BY <4>2
    <3> QED
      BY <1>1, <3>1, <3>2, <3>4
  <2> QED
    BY <2>1, <2>2
<1>13. ASSUME NEW i \in DOMAIN all, NEW j \in DOMAIN all, i < j
       PROVE  \/ later[all[i]] < later[all[j]]
              \/ later[all[i]] = later[all[j]] /\ all[i] < all[j]
  <2>1. /\ DOMAIN s = 1 .. Len(s) /\ Len(s) \in Nat
        /\ i \in Nat \ {0} /\ j \in Nat \ {0}
    BY <1>1, <1>8
  <2>2. \A k \in DOMAIN s : s[k] \in gone /\ later[s[k]] = wave[s[k]] /\ wave[s[k]] < v
    BY <1>1, <1>10 DEF gone, NamesOf
  <2>3. \A k \in DOMAIN t : t[k] \in ready /\ later[t[k]] = v
    BY <1>5, <1>10 DEF NamesOf
  <2>4. CASE j \in DOMAIN s
    <3>1. i \in DOMAIN s
      BY <1>13, <2>1, <2>4
    <3>2. all[i] = s[i] /\ all[j] = s[j]
      BY <1>8, <2>4, <3>1
    <3> QED
      BY <1>1, <1>13, <2>2, <2>4, <3>1, <3>2
  <2>5. CASE i \in DOMAIN s /\ j \notin DOMAIN s
    <3>1. all[i] = s[i] /\ j - Len(s) \in DOMAIN t /\ all[j] = t[j - Len(s)]
      BY <1>8, <2>5
    <3> QED
      BY <2>2, <2>3, <2>5, <3>1
  <2>6. CASE i \notin DOMAIN s /\ j \notin DOMAIN s
    <3>1. /\ i - Len(s) \in DOMAIN t /\ all[i] = t[i - Len(s)]
          /\ j - Len(s) \in DOMAIN t /\ all[j] = t[j - Len(s)]
      BY <1>8, <2>6
    <3>2. i - Len(s) < j - Len(s)
      BY <1>13, <2>1
    <3>3. t[i - Len(s)] < t[j - Len(s)]
      BY <1>5, <3>1, <3>2
    <3> QED
      BY <2>3, <3>1, <3>3
  <2> QED
    BY <2>4, <2>5, <2>6
<1>14. ASSUME NEW x \in V \ (gone \cup ready)
       PROVE  \E y \in E[x] : y \notin gone \cup ready \/ later[y] >= (v + 1) - 1
  <2>1. PICK y \in E[x] : y \notin gone
    BY <1>2
  <2>2. CASE y \in ready
    <3>1. later[y] = v /\ v >= (v + 1) - 1
      BY <1>1, <1>10, <2>2
    <3> QED
      BY <2>1, <3>1
  <2>3. CASE y \notin ready
    BY <2>1, <2>3
  <2> QED
    BY <2>2, <2>3
<1>15. Layers(V, E, all, later, v + 1)
  BY <1>8, <1>9, <1>11, <1>12, <1>13, <1>14 DEF Layers
<1> QED
  BY <1>15 DEF all, t, ready, gone

\* The graph that Sort is given is the plan's.
GraphIs(kind) ==
  /\ DOMAIN edges[kind] = Present(plan[kind])
  /\ \A id \in Present(plan[kind]) : edges[kind][id] = WaitsFor(kind, id)

\* The walks of the plan's graph are the paths of the edges that Sort is given.
LEMMA WalksArePaths ==
  ASSUME NEW kind, GraphIs(kind), NEW id, NEW n \in Nat
  PROVE  Walks(kind, id, n) = Paths(Present(plan[kind]), edges[kind], id, n)
<1> DEFINE V == Present(plan[kind])
           E == edges[kind]
<1>1. ASSUME NEW w \in [0 .. n -> V], NEW k \in 1 .. n
      PROVE  E[w[k - 1]] = WaitsFor(kind, w[k - 1])
  <2>1. k - 1 \in 0 .. n
    OBVIOUS
  <2> QED
    BY <2>1 DEF GraphIs
<1>2. Walks(kind, id, n) \subseteq Paths(V, E, id, n)
  BY <1>1 DEF Walks, Paths
<1>3. Paths(V, E, id, n) \subseteq Walks(kind, id, n)
  BY <1>1 DEF Walks, Paths
<1> QED
  BY <1>2, <1>3

\* Sort has nothing left that is ready: its order is the one by the longest wait.
LEMMA SortedIs ==
  ASSUME NEW kind, GraphIs(kind), IsGraph(Present(plan[kind]), edges[kind]),
         NEW wave, NEW v, Layers(Present(plan[kind]), edges[kind], order[kind], wave, v),
         Ready(edges[kind], NamesOf(order[kind])) = {}
  PROVE  /\ NamesOf(order[kind]) = Present(plan[kind]) \ Stuck(kind)
         /\ \A i, j \in DOMAIN order[kind] : i < j =>
              LET a == order[kind][i]
                  b == order[kind][j]
              IN \/ Depth(kind, a) < Depth(kind, b)
                 \/ Depth(kind, a) = Depth(kind, b) /\ a < b
<1> DEFINE V == Present(plan[kind])
           E == edges[kind]
           s == order[kind]
           gone == NamesOf(s)
           N == Cardinality(V)
<1>1. V \subseteq Nat /\ IsFiniteSet(V) /\ DOMAIN E = V /\ N \in Nat
  BY FS_CardinalityType DEF IsGraph, GraphIs
<1>2. /\ v \in Nat /\ v <= Len(s) /\ s \in Seq(V) /\ wave \in [gone -> Nat]
      /\ \A x \in gone : wave[x] < v
      /\ \A i, j \in DOMAIN s :
           i < j => \/ wave[s[i]] < wave[s[j]]
                    \/ wave[s[i]] = wave[s[j]] /\ s[i] < s[j]
  BY DEF Layers
<1>3. Layers(V, E, s, wave, v) /\ gone \subseteq V
  <2>1. gone \subseteq V
    BY <1>2 DEF NamesOf
  <2> QED
    BY <2>1
<1>4. ASSUME NEW id, NEW n \in Nat PROVE Walks(kind, id, n) = Paths(V, E, id, n)
  BY WalksArePaths
<1>5. Size(kind) = N
  BY DEF Size
<1>6. \A x \in V \ gone : \E y \in E[x] : y \in V \ gone
  BY <1>1 DEF Ready, IsGraph
<1>7. gone \cap Stuck(kind) = {}
  <2> SUFFICES ASSUME NEW x \in gone, x \in Stuck(kind) PROVE FALSE
    OBVIOUS
  <2>1. PICK other \in Reached(kind, x) : OnCycle(kind, other)
    BY DEF Stuck
  <2>2. PICK n \in 0 .. N : other \in {w[n] : w \in Walks(kind, x, n)}
    BY <1>5, <2>1 DEF Reached
  <2>3. PICK w : w \in Paths(V, E, x, n) /\ other = w[n]
    BY <1>1, <1>4, <2>2
  <2>4. PICK m \in 1 .. N : \E u \in Walks(kind, other, m) : u[m] = other
    BY <1>5, <2>1 DEF OnCycle
  <2>5. PICK u : u \in Paths(V, E, other, m) /\ u[m] = other
    BY <1>1, <1>4, <2>4
  <2>6. n \in Nat /\ n \in 0 .. n /\ m \in Nat /\ m \in 0 .. m /\ m > 0
    BY <1>1
  <2>7. other \in gone
    BY <1>3, <2>3, <2>6, PathDescends
  <2>8. wave[u[m]] + m <= wave[other]
    BY <1>3, <2>5, <2>6, <2>7, PathDescends
  <2>9. wave[other] \in Nat
    BY <1>2, <2>7
  <2> QED
    BY <2>5, <2>6, <2>8, <2>9
<1>8. V \ gone \subseteq Stuck(kind)
  <2> SUFFICES ASSUME NEW x \in V \ gone PROVE x \in Stuck(kind)
    OBVIOUS
  <2>1. Paths(V, E, x, N) # {}
    <3>1. V \ gone \in SUBSET V
      OBVIOUS
    <3> HIDE DEF V, E, gone
    <3> QED
      BY <1>1, <1>6, <3>1, PathAnyLength
  <2>2. PICK i \in 0 .. N : \E w \in Paths(V, E, x, i) :
          \E m \in 1 .. N : \E u \in Paths(V, E, w[i], m) : u[m] = w[i]
    BY <1>1, <2>1, PathMeetsCycle
  <2>3. PICK w \in Paths(V, E, x, i) : \E m \in 1 .. N : \E u \in Paths(V, E, w[i], m) : u[m] = w[i]
    BY <2>2
  <2>4. OnCycle(kind, w[i])
    BY <1>1, <1>4, <1>5, <2>3 DEF OnCycle
  <2>5. w[i] \in Reached(kind, x)
    BY <1>1, <1>4, <1>5, <2>2, <2>3 DEF Reached
  <2> QED
    BY <2>4, <2>5 DEF Stuck
<1>9. Len(s) <= N
  <2>1. DOMAIN s = 1 .. Len(s) /\ Len(s) \in Nat /\ s \in [1 .. Len(s) -> V]
    BY <1>2
  <2>2. ASSUME NEW i \in 1 .. Len(s), NEW j \in 1 .. Len(s), s[i] = s[j] PROVE i = j
    <3>1. s[i] \in gone /\ s[j] \in gone
      BY <2>1 DEF NamesOf
    <3>2. wave[s[i]] \in Nat /\ s[i] \in Nat
      BY <1>1, <1>2, <1>3, <3>1
    <3>3. ~ (i < j)
      <4> SUFFICES ASSUME i < j PROVE FALSE
        OBVIOUS
      <4>1. \/ wave[s[i]] < wave[s[j]]
            \/ wave[s[i]] = wave[s[j]] /\ s[i] < s[j]
        BY <1>2, <2>1
      <4> QED
        BY <2>2, <3>2, <4>1
    <3>4. ~ (j < i)
      <4> SUFFICES ASSUME j < i PROVE FALSE
        OBVIOUS
      <4>1. \/ wave[s[j]] < wave[s[i]]
            \/ wave[s[j]] = wave[s[i]] /\ s[j] < s[i]
        BY <1>2, <2>1
      <4> QED
        BY <2>2, <3>2, <4>1
    <3> QED
      BY <3>3, <3>4
  <2>3. s \in Injection(1 .. Len(s), V)
    BY <2>1, <2>2 DEF Injection, IsInjective
  <2>4. Cardinality(1 .. Len(s)) <= N
    BY <1>1, <2>3, FS_Injection
  <2>5. Cardinality(1 .. Len(s)) = Len(s)
    BY <2>1, FS_Interval
  <2> QED
    BY <2>4, <2>5
<1>10. ASSUME NEW x \in gone PROVE Depth(kind, x) = wave[x]
  <2>1. wave[x] \in 0 .. N
    BY <1>1, <1>2, <1>9
  <2>2. \A n \in 0 .. N :
          Walks(kind, x, n) # {} /\ Walks(kind, x, n + 1) = {} <=> n = wave[x]
    <3>1. \A n \in Nat : Paths(V, E, x, n) # {} /\ Paths(V, E, x, n + 1) = {} <=> n = wave[x]
      BY <1>3, WaveIsDepth
    <3>2. ASSUME NEW n \in 0 .. N
          PROVE  /\ n \in Nat /\ Walks(kind, x, n) = Paths(V, E, x, n)
                 /\ Walks(kind, x, n + 1) = Paths(V, E, x, n + 1)
      BY <1>1, <1>4
    <3> HIDE DEF V, E
    <3> QED
      BY <3>1, <3>2
  <2> QED
    BY <1>5, <2>1, <2>2 DEF Depth
<1>11. gone = V \ Stuck(kind)
  BY <1>3, <1>7, <1>8
<1>12. ASSUME NEW i \in DOMAIN s, NEW j \in DOMAIN s, i < j
       PROVE  \/ Depth(kind, s[i]) < Depth(kind, s[j])
              \/ Depth(kind, s[i]) = Depth(kind, s[j]) /\ s[i] < s[j]
  <2>1. s[i] \in gone /\ s[j] \in gone
    BY DEF NamesOf
  <2> HIDE DEF s, gone
  <2> QED
    BY <1>2, <1>10, <1>12, <2>1
<1> QED
  BY <1>11, <1>12

-----------------------------------------------------------------------------
(* The loops of Validate.                                                  *)

Kinds == {"resources", "assets"}
EdgeLoop == [resources |-> "resource_edges", assets |-> "asset_edges"]

\* The loops in the order they run, and how many iterations of one are done: n
\* when it is over.
Turn ==
  [header |-> 0, resources |-> 1, resource_edges |-> 2, assets |-> 3, asset_edges |-> 4,
   closure |-> 5, sort_resources |-> 6, sort_assets |-> 7, done |-> 8]
Passed(a, loop, n) ==
  IF Turn[a.loop] < Turn[loop] THEN 0 ELSE IF a.loop = loop THEN a.index - 1 ELSE n

\* The dictionaries after the first n definitions of a list.
NamedUpTo(list, n) == {list[i].id : i \in {k \in 1 .. n : Identifier(list[k].id)}}
DictionaryUpTo(d, list, n) ==
  /\ n <= Len(list) /\ DOMAIN d = NamedUpTo(list, n)
  /\ Regular(list) => \A i \in 1 .. n : d[list[i].id] = list[i]
ServicesUpTo(d, list, n) ==
  /\ DOMAIN d = UNION {Valid(list[i].provides) : i \in 1 .. n}
  /\ ~ Shared("provides") =>
       \A i \in 1 .. n : \A s \in Valid(list[i].provides) : d[s] = list[i].id

\* The edges are the plan's when names are unique and no two resources provide
\* the same service.
Sound(kind) == Regular(plan[kind]) /\ (kind = "resources" => ~ Shared("provides"))

PlanTyped ==
  /\ plan \in Plans /\ at \in [loop : DOMAIN Turn, index : Nat \ {0}]
  /\ at.loop = "header" => at.index = 1
  /\ DOMAIN found = {"resources", "services", "mutators", "assets"}
  /\ DOMAIN edges = Kinds /\ DOMAIN order = Kinds

\* Of a kind: the definitions taken so far, the edges made of them in the order
\* of their names, and the order that they leave in.
KindTaken(kind) ==
  DictionaryUpTo(found[kind], plan[kind], Passed(at, kind, Len(plan[kind])))
KindLinked(kind) ==
  LET n == Cardinality(Present(plan[kind]))
      linked == Passed(at, EdgeLoop[kind], n)
  IN linked <= n /\ DOMAIN edges[kind] = {Ascending(Present(plan[kind]))[i] : i \in 1 .. linked}
KindSorted(kind) ==
  Sound(kind) =>
    /\ \A id \in DOMAIN edges[kind] : edges[kind][id] = WaitsFor(kind, id)
    /\ Turn[at.loop] < Turn[SortLoop[kind]] => order[kind] = << >>
    /\ \E wave, v : Layers(Present(plan[kind]), edges[kind], order[kind], wave, v)
    /\ Turn[at.loop] > Turn[SortLoop[kind]] => Ready(edges[kind], NamesOf(order[kind])) = {}
ServicesTaken ==
  Regular(plan.resources) =>
    ServicesUpTo(found.services, plan.resources, Passed(at, "resources", Len(plan.resources)))

\* Unless it is refused for its size, what the loops have built of a plan is what
\* its first definitions say.
PlanInvariant ==
  /\ PlanTyped
  /\ \/ at.loop = "done" /\ Limited
     \/ /\ ServicesTaken
        /\ \A kind \in Kinds : KindTaken(kind) /\ KindLinked(kind) /\ KindSorted(kind)

\* The numbers of the loops.
LEMMA Turns ==
  /\ DOMAIN Turn = {"header", "resources", "resource_edges", "assets", "asset_edges",
                    "closure", "sort_resources", "sort_assets", "done"}
  /\ Turn["header"] = 0 /\ Turn["resources"] = 1 /\ Turn["resource_edges"] = 2
  /\ Turn["assets"] = 3 /\ Turn["asset_edges"] = 4 /\ Turn["closure"] = 5
  /\ Turn["sort_resources"] = 6 /\ Turn["sort_assets"] = 7 /\ Turn["done"] = 8
  /\ EdgeLoop["resources"] = "resource_edges" /\ EdgeLoop["assets"] = "asset_edges"
  /\ SortLoop["resources"] = "sort_resources" /\ SortLoop["assets"] = "sort_assets"
<1> QED
  BY DEF Turn, EdgeLoop, SortLoop

\* The lists of a plan: their names are numbers, so those present are finite.
LEMMA ListIs ==
  ASSUME PlanTyped, NEW kind \in Kinds
  PROVE  /\ Len(plan[kind]) \in Nat /\ DOMAIN plan[kind] = 1 .. Len(plan[kind])
         /\ \A i \in 1 .. Len(plan[kind]) : plan[kind][i].id \in Nat
         /\ Present(plan[kind]) = NamedUpTo(plan[kind], Len(plan[kind]))
         /\ Present(plan[kind]) \in SUBSET Nat /\ IsFiniteSet(Present(plan[kind]))
         /\ Cardinality(Present(plan[kind])) \in Nat
<1> DEFINE list == plan[kind]
<1>1. list \in Seq(ResourceInput) \/ list \in Seq(AssetInput)
  BY PlanAssumption DEF PlanTyped, Kinds
<1>2. Len(list) \in Nat /\ DOMAIN list = 1 .. Len(list)
  BY <1>1
<1>3. \A i \in 1 .. Len(list) : list[i].id \in Nat
  <2> SUFFICES ASSUME NEW i \in 1 .. Len(list) PROVE list[i].id \in Nat
    OBVIOUS
  <2>1. list[i] \in ResourceInput \/ list[i] \in AssetInput
    BY <1>1
  <2> QED
    BY <2>1 DEF ResourceInput, AssetInput
<1> HIDE DEF list
<1>4. Present(list) = NamedUpTo(list, Len(list))
  BY <1>2 DEF Present, Positions, NamedUpTo
<1>5. Present(list) \in SUBSET Nat
  BY <1>2, <1>3 DEF Present, Positions
<1>6. IsFiniteSet(Present(list))
  <2> DEFINE f == [i \in Positions(list) |-> list[i].id]
  <2>1. IsFiniteSet(1 .. Len(list))
    BY <1>2, FS_Interval
  <2>2. IsFiniteSet(Positions(list))
    BY <1>2, <2>1, FS_Subset DEF Positions
  <2>3. f \in Surjection(Positions(list), Present(list))
    BY DEF Surjection, Present
  <2> QED
    BY <2>2, <2>3, FS_Surjection
<1>7. Cardinality(Present(list)) \in Nat
  BY <1>6, FS_CardinalityType
<1> QED
  BY <1>2, <1>3, <1>4, <1>5, <1>6, <1>7 DEF list

\* Every definition of a regular list is found by its name.
LEMMA RegularIs ==
  ASSUME NEW list, Len(list) \in Nat, DOMAIN list = 1 .. Len(list), Regular(list)
  PROVE  \A i \in 1 .. Len(list) :
           /\ Identifier(list[i].id) /\ list[i].id \in Present(list)
           /\ With(list, list[i].id) = list[i]
           /\ \A j \in 1 .. Len(list) : list[i].id = list[j].id => i = j
<1> DEFINE f == [i \in 1 .. Len(list) |-> list[i].id]
<1>1. Positions(list) = 1 .. Len(list) /\ Cardinality(Present(list)) = Len(list)
  BY DEF Regular
<1>2. f \in Surjection(1 .. Len(list), Present(list))
  BY <1>1 DEF Surjection, Present
<1>3. IsFiniteSet(1 .. Len(list)) /\ Cardinality(1 .. Len(list)) = Len(list)
  <2> DEFINE n == Len(list)
  <2>1. n \in Nat
    OBVIOUS
  <2> HIDE DEF n
  <2>2. IsFiniteSet(1 .. n) /\ Cardinality(1 .. n) = n
    BY <2>1, FS_Interval
  <2> QED
    BY <2>2 DEF n
<1>4. f \in Injection(1 .. Len(list), Present(list))
  BY <1>1, <1>2, <1>3, FS_Surjection
<1>5. \A i, j \in 1 .. Len(list) : list[i].id = list[j].id => i = j
  <2>1. \A i, j \in 1 .. Len(list) : f[i] = f[j] => i = j
    BY <1>4 DEF Injection, IsInjective
  <2> QED
    BY <2>1
<1>6. ASSUME NEW i \in 1 .. Len(list)
      PROVE  /\ Identifier(list[i].id) /\ list[i].id \in Present(list)
             /\ With(list, list[i].id) = list[i]
  <2>1. i \in Positions(list)
    BY <1>1
  <2>2. Identifier(list[i].id) /\ list[i].id \in Present(list)
    BY <2>1 DEF Present, Positions
  <2>3. (CHOOSE j \in DOMAIN list : list[j].id = list[i].id) = i
    BY <1>5
  <2> QED
    BY <2>2, <2>3 DEF With
<1> QED
  BY <1>5, <1>6

\* A kind that a step leaves alone.
LEMMA KindKept ==
  ASSUME NEW kind \in Kinds, UNCHANGED <<plan, Passed(at, kind, Len(plan[kind])),
           Passed(at, EdgeLoop[kind], Cardinality(Present(plan[kind]))),
           found[kind], edges[kind], order[kind]>>,
         (Turn[at.loop] < Turn[SortLoop[kind]])' => Turn[at.loop] < Turn[SortLoop[kind]],
         (Turn[at.loop] > Turn[SortLoop[kind]])' => Turn[at.loop] > Turn[SortLoop[kind]],
         KindTaken(kind), KindLinked(kind), KindSorted(kind)
  PROVE  KindTaken(kind)' /\ KindLinked(kind)' /\ KindSorted(kind)'
<1>1. KindTaken(kind)'
  BY DEF KindTaken
<1>2. KindLinked(kind)'
  BY DEF KindLinked
<1>3. KindSorted(kind)'
  <2>1. Sound(kind)' = Sound(kind)
    BY DEF Sound, Shared
  <2>2. \A id : WaitsFor(kind, id)' = WaitsFor(kind, id)
    BY DEF WaitsFor
  <2> QED
    BY <2>1, <2>2 DEF KindSorted
<1> QED
  BY <1>1, <1>2, <1>3

\* One definition more.
LEMMA NamedGrows ==
  ASSUME NEW list, NEW n \in Nat
  PROVE  NamedUpTo(list, n + 1)
           = NamedUpTo(list, n) \cup {id \in {list[n + 1].id} : Identifier(id)}
<1>1. 1 .. n + 1 = (1 .. n) \cup {n + 1}
  OBVIOUS
<1> QED
  BY <1>1 DEF NamedUpTo

\* One definition more: Added keeps the first of a name, as TryAdd does.
LEMMA DictionaryGrows ==
  ASSUME NEW list, Len(list) \in Nat, DOMAIN list = 1 .. Len(list), NEW n \in Nat, n + 1 <= Len(list),
         NEW d, DictionaryUpTo(d, list, n)
  PROVE  IF Identifier(list[n + 1].id)
         THEN DictionaryUpTo(Added(d, {list[n + 1].id}, list[n + 1]), list, n + 1)
         ELSE DictionaryUpTo(d, list, n + 1)
<1> DEFINE r == list[n + 1]
           more == Added(d, {r.id}, r)
<1>1. n + 1 \in 1 .. Len(list) /\ 1 .. n \subseteq 1 .. Len(list)
  OBVIOUS
<1>2. DOMAIN d = NamedUpTo(list, n)
  BY DEF DictionaryUpTo
<1>3. CASE ~ Identifier(r.id)
  <2>1. NamedUpTo(list, n + 1) = NamedUpTo(list, n)
    <3>1. NamedUpTo(list, n + 1) = NamedUpTo(list, n) \cup {id \in {r.id} : Identifier(id)}
      BY NamedGrows
    <3>2. {id \in {r.id} : Identifier(id)} = {}
      BY <1>3
    <3> QED
      BY <3>1, <3>2
  <2>2. ~ Regular(list)
    BY <1>1, <1>3, RegularIs
  <2>3. DictionaryUpTo(d, list, n + 1)
    BY <1>2, <2>1, <2>2 DEF DictionaryUpTo
  <2> QED
    BY <1>3, <2>3
<1>4. CASE Identifier(r.id)
  <2>1. NamedUpTo(list, n + 1) = NamedUpTo(list, n) \cup {r.id}
    BY <1>4, NamedGrows
  <2>2. DOMAIN more = NamedUpTo(list, n + 1)
    BY <1>2, <2>1 DEF Added
  <2>3. ASSUME Regular(list), NEW i \in 1 .. n + 1 PROVE more[list[i].id] = list[i]
    <3>1. CASE i = n + 1
      <4>1. r.id \notin DOMAIN d
        <5> SUFFICES ASSUME NEW k \in 1 .. n, list[k].id = r.id PROVE FALSE
          BY <1>2 DEF NamedUpTo
        <5>1. k = n + 1
          BY <1>1, <2>3, RegularIs
        <5> QED
          BY <5>1
      <4>2. more[r.id] = r
        BY <4>1 DEF Added
      <4> QED
        BY <3>1, <4>2
    <3>2. CASE i # n + 1
      <4>1. i \in 1 .. n /\ i \in 1 .. Len(list)
        BY <3>2
      <4>2. Identifier(list[i].id)
        BY <2>3, <4>1, RegularIs
      <4>3. list[i].id \in DOMAIN d
        BY <1>2, <4>1, <4>2 DEF NamedUpTo
      <4>4. d[list[i].id] = list[i]
        BY <2>3, <4>1 DEF DictionaryUpTo
      <4> QED
        BY <4>3, <4>4 DEF Added
    <3> QED
      BY <3>1, <3>2
  <2> HIDE DEF more
  <2>4. DictionaryUpTo(more, list, n + 1)
    BY <2>2, <2>3 DEF DictionaryUpTo
  <2> QED
    BY <1>4, <2>4 DEF more
<1> QED
  BY <1>3, <1>4

\* One resource more: what it provides is found under its name.
LEMMA ServicesGrow ==
  ASSUME PlanTyped, NEW n \in Nat, n + 1 <= Len(plan.resources), NEW d,
         ServicesUpTo(d, plan.resources, n)
  PROVE  ServicesUpTo(Added(d, Valid(plan.resources[n + 1].provides), plan.resources[n + 1].id),
                      plan.resources, n + 1)
<1> DEFINE list == plan.resources
           r == list[n + 1]
           more == Added(d, Valid(r.provides), r.id)
<1>1. Len(list) \in Nat /\ DOMAIN list = 1 .. Len(list)
  BY ListIs DEF Kinds
<1>2. 1 .. n + 1 = (1 .. n) \cup {n + 1} /\ n + 1 \in DOMAIN list /\ 1 .. n \subseteq DOMAIN list
  BY <1>1
<1>3. DOMAIN d = UNION {Valid(list[i].provides) : i \in 1 .. n}
  BY DEF ServicesUpTo
<1>4. DOMAIN more = UNION {Valid(list[i].provides) : i \in 1 .. n + 1}
  BY <1>2, <1>3 DEF Added
<1>5. ASSUME ~ Shared("provides"), NEW i \in 1 .. n + 1, NEW s \in Valid(list[i].provides)
      PROVE  more[s] = list[i].id
  <2>1. CASE i = n + 1
    <3>1. s \notin DOMAIN d
      <4> SUFFICES ASSUME NEW k \in 1 .. n, s \in Valid(list[k].provides) PROVE FALSE
        BY <1>3
      <4>1. k # n + 1
        OBVIOUS
      <4> QED
        BY <1>2, <1>5, <2>1, <4>1 DEF Shared
    <3> QED
      BY <1>5, <2>1, <3>1 DEF Added
  <2>2. CASE i # n + 1
    <3>1. i \in 1 .. n
      BY <2>2
    <3>2. s \in DOMAIN d /\ d[s] = list[i].id
      BY <1>3, <1>5, <3>1 DEF ServicesUpTo
    <3> QED
      BY <3>2 DEF Added
  <2> QED
    BY <2>1, <2>2
<1> HIDE DEF more
<1>6. ServicesUpTo(more, list, n + 1)
  BY <1>4, <1>5 DEF ServicesUpTo
<1> QED
  BY <1>6 DEF more

\* Before the first loop of Validate nothing is built (WorldPlanValidator.cs).
THEOREM PlanBegins == PlanInit => PlanInvariant
<1> SUFFICES ASSUME PlanInit PROVE PlanInvariant
  OBVIOUS
<1>1. PlanTyped
  BY Turns DEF PlanInit, PlanTyped, Kinds
<1>2. at.loop = "header"
  BY DEF PlanInit
<1>3. ServicesTaken
  BY <1>2, Turns DEF PlanInit, ServicesTaken, ServicesUpTo, Passed
<1>4. ASSUME NEW kind \in Kinds PROVE KindTaken(kind) /\ KindLinked(kind) /\ KindSorted(kind)
  <2>1. /\ Passed(at, kind, Len(plan[kind])) = 0
        /\ Passed(at, EdgeLoop[kind], Cardinality(Present(plan[kind]))) = 0
        /\ Turn[at.loop] < Turn[SortLoop[kind]] /\ ~ (Turn[at.loop] > Turn[SortLoop[kind]])
    BY <1>2, Turns DEF Passed, Kinds
  <2>2. found[kind] = << >> /\ edges[kind] = << >> /\ order[kind] = << >>
    BY DEF PlanInit, Kinds
  <2>3. /\ Len(plan[kind]) \in Nat /\ Cardinality(Present(plan[kind])) \in Nat
    BY <1>1, ListIs
  <2>4. KindTaken(kind)
    BY <2>1, <2>2, <2>3 DEF KindTaken, DictionaryUpTo, NamedUpTo
  <2>5. KindLinked(kind)
    BY <2>1, <2>2, <2>3 DEF KindLinked
  <2>6. KindSorted(kind)
    BY <2>1, <2>2, LayersBegin DEF KindSorted
  <2> QED
    BY <2>4, <2>5, <2>6
<1> QED
  BY <1>1, <1>3, <1>4 DEF PlanInvariant

\* A step outside the two kinds of loops that changes none of the counts.
LEMMA PlanKept ==
  ASSUME PlanInvariant, at.loop # "done", plan' = plan, PlanTyped',
         UNCHANGED <<found.resources, found.services, found.assets, edges, order>>,
         \A kind \in Kinds :
           /\ UNCHANGED <<Passed(at, kind, Len(plan[kind])),
                Passed(at, EdgeLoop[kind], Cardinality(Present(plan[kind])))>>
           /\ (Turn[at.loop] < Turn[SortLoop[kind]])' => Turn[at.loop] < Turn[SortLoop[kind]]
           /\ (Turn[at.loop] > Turn[SortLoop[kind]])' => Turn[at.loop] > Turn[SortLoop[kind]]
  PROVE  PlanInvariant'
<1>1. ServicesTaken /\ \A kind \in Kinds : KindTaken(kind) /\ KindLinked(kind) /\ KindSorted(kind)
  BY DEF PlanInvariant
<1>2. ServicesTaken'
  <2>1. Passed(at, "resources", Len(plan["resources"]))' = Passed(at, "resources", Len(plan["resources"]))
    BY DEF Kinds
  <2>2. Shared("provides")' = Shared("provides")
    BY DEF Shared
  <2> QED
    BY <1>1, <2>1, <2>2 DEF ServicesTaken, ServicesUpTo
<1>3. ASSUME NEW kind \in Kinds PROVE (KindTaken(kind) /\ KindLinked(kind) /\ KindSorted(kind))'
  <2>1. UNCHANGED <<plan, found[kind], edges[kind], order[kind]>>
    BY DEF Kinds
  <2> QED
    BY <1>1, <2>1, KindKept
<1> QED
  BY <1>2, <1>3 DEF PlanInvariant

\* The loops follow each other and keep the shape of what they build.
LEMMA PlanTypedKept ==
  ASSUME PlanTyped, Validate
  PROVE  PlanTyped'
<1>1. DOMAIN found = {"resources", "services", "mutators", "assets"}
      /\ DOMAIN edges = Kinds /\ DOMAIN order = Kinds
      /\ at \in [loop : DOMAIN Turn, index : Nat \ {0}] /\ plan \in Plans
  BY DEF PlanTyped
<1>2. plan' = plan
  BY DEF Validate, Header, TakeResource, LinkResource, TakeAsset, LinkAsset, LeaveLoop, Leave,
         Iterate, CloseAsset, CheckCapabilities, Sort
<1>3. DOMAIN found' = DOMAIN found
  BY <1>1 DEF Validate, Header, TakeResource, LinkResource, TakeAsset, LinkAsset, LeaveLoop, Leave,
         Iterate, CloseAsset, CheckCapabilities, Sort
<1>4. DOMAIN edges' = DOMAIN edges
  BY <1>1 DEF Validate, Header, TakeResource, LinkResource, TakeAsset, LinkAsset, LeaveLoop, Leave,
         Iterate, CloseAsset, CheckCapabilities, Sort
<1>5. DOMAIN order' = DOMAIN order
  BY <1>1 DEF Validate, Header, TakeResource, LinkResource, TakeAsset, LinkAsset, LeaveLoop, Leave,
         Iterate, CloseAsset, CheckCapabilities, Sort
<1>6. at' \in [loop : DOMAIN Turn, index : Nat \ {0}]
  <2>1. CASE Header \/ CheckCapabilities
    BY <1>1, <2>1, Turns DEF Header, CheckCapabilities
  <2>2. ASSUME NEW loop, NEW n, Iterate(loop, n)
        PROVE  at' \in [loop : DOMAIN Turn, index : Nat \ {0}]
    BY <1>1, <2>2 DEF Iterate
  <2>3. CASE TakeResource \/ LinkResource \/ TakeAsset \/ LinkAsset
    BY <2>2, <2>3 DEF TakeResource, LinkResource, TakeAsset, LinkAsset
  <2>4. CASE LeaveLoop
    BY <1>1, <2>4, Turns DEF LeaveLoop, Leave
  <2>5. CASE CloseAsset
    BY <1>1, <2>5 DEF CloseAsset
  <2>6. CASE Sort("resources", SortLoop.assets) \/ Sort("assets", "done")
    BY <1>1, <2>6, Turns DEF Sort
  <2> QED
    BY <2>1, <2>3, <2>4, <2>5, <2>6 DEF Validate
<1>7. at'.loop # "header"
  <2>1. CASE Header \/ CheckCapabilities
    BY <1>1, <2>1, Turns DEF Header, CheckCapabilities
  <2>2. ASSUME NEW loop, NEW n, Iterate(loop, n), loop # "header"
        PROVE  at'.loop # "header"
    BY <1>1, <2>2 DEF Iterate
  <2>3. CASE TakeResource \/ LinkResource \/ TakeAsset \/ LinkAsset
    BY <2>2, <2>3 DEF TakeResource, LinkResource, TakeAsset, LinkAsset
  <2>4. CASE LeaveLoop
    BY <1>1, <2>4, Turns DEF LeaveLoop, Leave
  <2>5. CASE CloseAsset
    BY <1>1, <2>5 DEF CloseAsset
  <2>6. CASE Sort("resources", SortLoop.assets) \/ Sort("assets", "done")
    BY <1>1, <2>6, Turns DEF Sort
  <2> QED
    BY <2>1, <2>3, <2>4, <2>5, <2>6 DEF Validate
<1> QED
  BY <1>1, <1>2, <1>3, <1>4, <1>5, <1>6, <1>7 DEF PlanTyped

\* How far the loops are, in each of them.
LEMMA PassedIs ==
  ASSUME NEW a, NEW n
  PROVE  /\ a.loop = "header" => Passed(a, "resources", n) = 0
         /\ a.loop = "resources" => Passed(a, "resources", n) = a.index - 1
         /\ a.loop \in {"resource_edges", "assets", "asset_edges", "closure", "sort_resources",
                        "sort_assets", "done"} => Passed(a, "resources", n) = n
         /\ a.loop \in {"header", "resources"} => Passed(a, "resource_edges", n) = 0
         /\ a.loop = "resource_edges" => Passed(a, "resource_edges", n) = a.index - 1
         /\ a.loop \in {"assets", "asset_edges", "closure", "sort_resources",
                        "sort_assets", "done"} => Passed(a, "resource_edges", n) = n
         /\ a.loop \in {"header", "resources", "resource_edges"} => Passed(a, "assets", n) = 0
         /\ a.loop = "assets" => Passed(a, "assets", n) = a.index - 1
         /\ a.loop \in {"asset_edges", "closure", "sort_resources",
                        "sort_assets", "done"} => Passed(a, "assets", n) = n
         /\ a.loop \in {"header", "resources", "resource_edges", "assets"} =>
              Passed(a, "asset_edges", n) = 0
         /\ a.loop = "asset_edges" => Passed(a, "asset_edges", n) = a.index - 1
         /\ a.loop \in {"closure", "sort_resources", "sort_assets", "done"} =>
              Passed(a, "asset_edges", n) = n
<1> QED
  BY Turns DEF Passed

\* The checks before the loops: a plan too large is refused and left there.
LEMMA PlanHeader ==
  ASSUME PlanInvariant, Header
  PROVE  PlanInvariant'
<1>1. PlanTyped /\ PlanTyped' /\ plan' = plan
  BY PlanTypedKept DEF PlanInvariant, Validate, Header
<1>2. CASE issues' = {<<"collection_limit", 0>>} /\ at' = [at EXCEPT !.loop = "done"]
  <2>1. at'.loop = "done"
    BY <1>1, <1>2 DEF PlanTyped
  <2>2. Limited'
    BY <1>2 DEF Limited
  <2> QED
    BY <1>1, <2>1, <2>2 DEF PlanInvariant
<1>3. CASE at' = [at EXCEPT !.loop = "resources"]
  <2>1. at'.loop = "resources" /\ at'.index = 1 /\ at.loop = "header"
    BY <1>1, <1>3 DEF PlanTyped, Header
  <2>2. ASSUME NEW kind \in Kinds, NEW n
        PROVE  /\ Passed(at', kind, n) = Passed(at, kind, n)
               /\ Passed(at', EdgeLoop[kind], n) = Passed(at, EdgeLoop[kind], n)
               /\ Turn[at.loop] < Turn[SortLoop[kind]] /\ ~ (Turn[at'.loop] > Turn[SortLoop[kind]])
    BY <2>1, Turns, PassedIs DEF Kinds
  <2> QED
    BY <1>1, <2>1, <2>2, PlanKept DEF Header
<1> QED
  BY <1>2, <1>3 DEF Header

\* An iteration over the resources adds one definition to the dictionaries.
LEMMA PlanTakeResource ==
  ASSUME PlanInvariant, TakeResource
  PROVE  PlanInvariant'
<1> DEFINE list == plan["resources"]
           n == at.index - 1
           r == list[at.index]
<1>1. PlanTyped /\ PlanTyped' /\ plan' = plan
  BY PlanTypedKept DEF PlanInvariant, Validate, TakeResource, Iterate
<1>2. /\ at.loop = "resources" /\ at.index <= Len(list) /\ at.index \in Nat \ {0}
      /\ at'.loop = "resources" /\ at'.index = at.index + 1
      /\ edges' = edges /\ order' = order
  BY <1>1 DEF TakeResource, Iterate, PlanTyped
<1>3. ServicesTaken /\ \A kind \in Kinds : KindTaken(kind) /\ KindLinked(kind) /\ KindSorted(kind)
  BY <1>2 DEF PlanInvariant
<1>4. n \in Nat /\ n + 1 = at.index /\ n + 1 <= Len(list) /\ at'.index - 1 = n + 1
      /\ Len(list) \in Nat /\ DOMAIN list = 1 .. Len(list)
  BY <1>1, <1>2, ListIs DEF Kinds
<1>5. IF Identifier(r.id)
      THEN /\ found'.resources = Added(found.resources, {r.id}, r)
           /\ found'.services = Added(found.services, Valid(r.provides), r.id)
           /\ found'.assets = found.assets
      ELSE found' = found
  BY <1>1 DEF TakeResource, PlanTyped
<1>6. /\ Passed(at, "resources", Len(list)) = n
      /\ Passed(at', "resources", Len(list)) = n + 1
      /\ \A m : /\ Passed(at', "assets", m) = Passed(at, "assets", m)
                /\ Passed(at', "resource_edges", m) = Passed(at, "resource_edges", m)
                /\ Passed(at', "asset_edges", m) = Passed(at, "asset_edges", m)
  BY <1>2, <1>4, PassedIs
<1> HIDE DEF list, n, r
<1>7. ServicesTaken'
  <2>1. ASSUME Regular(list) PROVE ServicesUpTo(found'.services, list, n + 1)
    <3>1. ServicesUpTo(found.services, list, n)
      BY <1>3, <1>6, <2>1 DEF ServicesTaken, list
    <3>2. Identifier(r.id)
      BY <1>4, <2>1, RegularIs DEF r, list
    <3>3. ServicesUpTo(Added(found.services, Valid(r.provides), r.id), list, n + 1)
      BY <1>1, <1>4, <3>1, ServicesGrow DEF r, list
    <3> QED
      BY <1>5, <3>2, <3>3
  <2>2. Shared("provides")' = Shared("provides")
    BY <1>1 DEF Shared
  <2>3. Passed(at, "resources", Len(plan.resources))' = n + 1 /\ list = plan.resources
    BY <1>1, <1>6 DEF list
  <2> QED
    BY <1>1, <2>1, <2>2, <2>3 DEF ServicesUpTo, ServicesTaken
<1>8. KindTaken("resources")'
  <2>1. DictionaryUpTo(found["resources"], list, n)
    BY <1>3, <1>6 DEF KindTaken, Kinds, list
  <2>2. DictionaryUpTo(found'["resources"], list, n + 1)
    BY <1>4, <1>5, <2>1, DictionaryGrows DEF r
  <2> QED
    BY <1>1, <1>6, <2>2 DEF KindTaken, list
<1>9. KindLinked("resources")'
  <2>1. KindLinked("resources") /\ EdgeLoop["resources"] = "resource_edges"
    BY <1>3, Turns DEF Kinds
  <2>2. \A m : Passed(at', "resource_edges", m) = Passed(at, "resource_edges", m)
    BY <1>6
  <2> QED
    BY <1>1, <1>2, <2>1, <2>2 DEF KindLinked
<1>10. KindSorted("resources")'
  <2>1. Sound("resources")' = Sound("resources")
    BY <1>1 DEF Sound, Shared
  <2>2. \A id : WaitsFor("resources", id)' = WaitsFor("resources", id)
    BY <1>1 DEF WaitsFor
  <2>3. KindSorted("resources")
    BY <1>3 DEF Kinds
  <2> QED
    BY <1>1, <1>2, <2>1, <2>2, <2>3 DEF KindSorted
<1>11. KindTaken("assets")' /\ KindLinked("assets")' /\ KindSorted("assets")'
  <2>1. UNCHANGED <<found["assets"], edges["assets"], order["assets"], Turn[at.loop]>>
    BY <1>2, <1>5
  <2>2. UNCHANGED <<Passed(at, "assets", Len(plan["assets"])),
           Passed(at, EdgeLoop["assets"], Cardinality(Present(plan["assets"])))>>
    BY <1>1, <1>6, Turns
  <2> QED
    BY <1>1, <1>3, <2>1, <2>2, KindKept DEF Kinds
<1> QED
  BY <1>1, <1>7, <1>8, <1>9, <1>10, <1>11 DEF PlanInvariant, Kinds

\* An iteration over the assets adds one definition.
LEMMA PlanTakeAsset ==
  ASSUME PlanInvariant, TakeAsset
  PROVE  PlanInvariant'
<1> DEFINE list == plan["assets"]
           n == at.index - 1
           r == list[at.index]
<1>1. PlanTyped /\ PlanTyped' /\ plan' = plan
  BY PlanTypedKept DEF PlanInvariant, Validate, TakeAsset, Iterate
<1>2. /\ at.loop = "assets" /\ at.index <= Len(list) /\ at.index \in Nat \ {0}
      /\ at'.loop = "assets" /\ at'.index = at.index + 1
      /\ edges' = edges /\ order' = order
  BY <1>1 DEF TakeAsset, Iterate, PlanTyped
<1>3. ServicesTaken /\ \A kind \in Kinds : KindTaken(kind) /\ KindLinked(kind) /\ KindSorted(kind)
  BY <1>2 DEF PlanInvariant
<1>4. n \in Nat /\ n + 1 = at.index /\ n + 1 <= Len(list) /\ at'.index - 1 = n + 1
      /\ Len(list) \in Nat /\ DOMAIN list = 1 .. Len(list)
  BY <1>1, <1>2, ListIs DEF Kinds
<1>5. /\ found'.assets = IF Identifier(r.id) THEN Added(found.assets, {r.id}, r) ELSE found.assets
      /\ found'.resources = found.resources /\ found'.services = found.services
  BY <1>1 DEF TakeAsset, PlanTyped
<1>6. /\ Passed(at, "assets", Len(list)) = n
      /\ Passed(at', "assets", Len(list)) = n + 1
      /\ \A m : /\ Passed(at', "resources", m) = Passed(at, "resources", m)
                /\ Passed(at', "resource_edges", m) = Passed(at, "resource_edges", m)
                /\ Passed(at', "asset_edges", m) = Passed(at, "asset_edges", m)
  BY <1>2, <1>4, PassedIs
<1> HIDE DEF list, n, r
<1>7. ServicesTaken'
  <2>1. Shared("provides")' = Shared("provides")
    BY <1>1 DEF Shared
  <2> QED
    BY <1>1, <1>3, <1>5, <1>6, <2>1 DEF ServicesTaken, ServicesUpTo
<1>8. KindTaken("assets")'
  <2>1. DictionaryUpTo(found["assets"], list, n)
    BY <1>3, <1>6 DEF KindTaken, Kinds, list
  <2>2. DictionaryUpTo(found'["assets"], list, n + 1)
    BY <1>4, <1>5, <2>1, DictionaryGrows DEF r
  <2> QED
    BY <1>1, <1>6, <2>2 DEF KindTaken, list
<1>9. KindLinked("assets")'
  BY <1>1, <1>2, <1>3, <1>6, Turns DEF KindLinked, Kinds
<1>10. KindSorted("assets")'
  <2>1. Sound("assets")' = Sound("assets")
    BY <1>1 DEF Sound, Shared
  <2>2. \A id : WaitsFor("assets", id)' = WaitsFor("assets", id)
    BY <1>1 DEF WaitsFor
  <2>3. KindSorted("assets")
    BY <1>3 DEF Kinds
  <2> QED
    BY <1>1, <1>2, <2>1, <2>2, <2>3 DEF KindSorted
<1>11. KindTaken("resources")' /\ KindLinked("resources")' /\ KindSorted("resources")'
  <2>1. UNCHANGED <<found["resources"], edges["resources"], order["resources"], Turn[at.loop]>>
    BY <1>2, <1>5
  <2>2. UNCHANGED <<Passed(at, "resources", Len(plan["resources"])),
           Passed(at, EdgeLoop["resources"], Cardinality(Present(plan["resources"])))>>
    BY <1>1, <1>6, Turns
  <2> QED
    BY <1>1, <1>3, <2>1, <2>2, KindKept DEF Kinds
<1> QED
  BY <1>1, <1>7, <1>8, <1>9, <1>10, <1>11 DEF PlanInvariant, Kinds

\* The dictionary of a kind is complete once its loop is over.
LEMMA FoundAll ==
  ASSUME PlanInvariant, ~ (at.loop = "done" /\ Limited), NEW kind \in Kinds,
         Turn[at.loop] > Turn[kind]
  PROVE  /\ DOMAIN found[kind] = Present(plan[kind])
         /\ Regular(plan[kind]) =>
              \A id \in Present(plan[kind]) : found[kind][id] = With(plan[kind], id)
<1>1. PlanTyped /\ KindTaken(kind)
  BY DEF PlanInvariant
<1>2. /\ Len(plan[kind]) \in Nat /\ Present(plan[kind]) = NamedUpTo(plan[kind], Len(plan[kind]))
      /\ DOMAIN plan[kind] = 1 .. Len(plan[kind])
  BY <1>1, ListIs
<1>3. Passed(at, kind, Len(plan[kind])) = Len(plan[kind])
  BY <1>1, Turns, PassedIs DEF Kinds, PlanTyped
<1>4. DictionaryUpTo(found[kind], plan[kind], Len(plan[kind]))
  BY <1>1, <1>3 DEF KindTaken
<1>5. DOMAIN found[kind] = Present(plan[kind])
  BY <1>2, <1>4 DEF DictionaryUpTo
<1>6. ASSUME Regular(plan[kind]), NEW id \in Present(plan[kind])
      PROVE  found[kind][id] = With(plan[kind], id)
  <2>1. PICK i \in 1 .. Len(plan[kind]) : plan[kind][i].id = id
    BY <1>2 DEF NamedUpTo
  <2>2. With(plan[kind], id) = plan[kind][i]
    BY <1>2, <1>6, <2>1, RegularIs
  <2> QED
    BY <1>4, <1>6, <2>1, <2>2 DEF DictionaryUpTo
<1> QED
  BY <1>5, <1>6

\* Leaving a loop changes no count.
LEMMA LeaveLoopCounts ==
  ASSUME PlanInvariant, LeaveLoop, NEW kind \in Kinds
  PROVE  UNCHANGED <<Passed(at, kind, Len(plan[kind])),
           Passed(at, EdgeLoop[kind], Cardinality(Present(plan[kind])))>>
<1>1. PlanTyped /\ plan' = plan /\ at.index \in Nat \ {0}
  BY DEF PlanInvariant, LeaveLoop, Leave, PlanTyped
<1>2. at.loop # "done"
  BY DEF LeaveLoop, Leave
<1>3. KindTaken(kind) /\ KindLinked(kind)
  BY <1>2 DEF PlanInvariant
<1>4. /\ Passed(at, kind, Len(plan[kind])) <= Len(plan[kind])
      /\ Passed(at, EdgeLoop[kind], Cardinality(Present(plan[kind]))) <= Cardinality(Present(plan[kind]))
  BY <1>3 DEF KindTaken, DictionaryUpTo, KindLinked
<1>5. /\ Len(plan[kind]) \in Nat /\ Cardinality(Present(plan[kind])) \in Nat
  BY <1>1, ListIs
<1>6. CASE Leave("resources", Len(plan.resources), "resource_edges")
  BY <1>1, <1>4, <1>5, <1>6, Turns, PassedIs DEF Leave, Kinds
<1>7. CASE Leave("resource_edges", Cardinality(DOMAIN found.resources), "assets")
  <2>1. DOMAIN found["resources"] = Present(plan["resources"])
    BY <1>2, <1>7, Turns, FoundAll DEF Leave, Kinds
  <2>2. at.loop = "resource_edges" /\ at'.loop = "assets" /\ at'.index = 1
    BY <1>7 DEF Leave
  <2>3. CASE kind = "resources"
    <3>1. Passed(at', "resources", Len(plan[kind])) = Passed(at, "resources", Len(plan[kind]))
      BY <2>2, PassedIs
    <3>2. at.index > Cardinality(Present(plan["resources"]))
      BY <1>7, <2>1 DEF Leave
    <3> DEFINE n == Cardinality(Present(plan[kind]))
    <3>3. Passed(at, "resource_edges", n) = at.index - 1 /\ Passed(at', "resource_edges", n) = n
      BY <2>2, PassedIs
    <3>4. Passed(at, "resource_edges", n) <= n /\ n \in Nat
      BY <1>4, <1>5, <2>3, Turns
    <3>5. Passed(at', "resource_edges", n) = Passed(at, "resource_edges", n)
      <4>1. at.index > n
        BY <2>3, <3>2
      <4> HIDE DEF n
      <4> QED
        BY <1>1, <3>3, <3>4, <4>1
    <3> QED
      BY <1>1, <2>3, <3>1, <3>5, Turns
  <2>4. CASE kind = "assets"
    BY <1>1, <2>2, <2>4, Turns, PassedIs
  <2> QED
    BY <2>3, <2>4 DEF Kinds
<1>8. CASE Leave("assets", Len(plan.assets), "asset_edges")
  BY <1>1, <1>4, <1>5, <1>8, Turns, PassedIs DEF Leave, Kinds
<1>9. CASE Leave("asset_edges", Cardinality(DOMAIN found.assets), "closure")
  <2>1. DOMAIN found["assets"] = Present(plan["assets"])
    BY <1>2, <1>9, Turns, FoundAll DEF Leave, Kinds
  <2> QED
    BY <1>1, <1>4, <1>5, <1>9, <2>1, Turns, PassedIs DEF Leave, Kinds
<1> QED
  BY <1>6, <1>7, <1>8, <1>9 DEF LeaveLoop

\* The end of a loop changes nothing of what is built.
LEMMA PlanLeaveLoop ==
  ASSUME PlanInvariant, LeaveLoop
  PROVE  PlanInvariant'
<1>1. PlanTyped /\ PlanTyped' /\ plan' = plan /\ at.loop # "done"
      /\ UNCHANGED <<found, edges, order>>
  BY PlanTypedKept DEF PlanInvariant, Validate, LeaveLoop, Leave
<1>2. \A kind \in Kinds : Turn[at.loop] < Turn[SortLoop[kind]] /\ ~ (Turn[at'.loop] > Turn[SortLoop[kind]])
  BY <1>1, Turns DEF LeaveLoop, Leave, Kinds
<1> QED
  BY <1>1, <1>2, LeaveLoopCounts, PlanKept

\* The closure and the capabilities build no dictionary, edge or order.
LEMMA PlanClosed ==
  ASSUME PlanInvariant, CloseAsset \/ CheckCapabilities
  PROVE  PlanInvariant'
<1>1. PlanTyped /\ PlanTyped' /\ plan' = plan /\ UNCHANGED <<found, edges, order>>
  BY PlanTypedKept DEF PlanInvariant, Validate, CloseAsset, CheckCapabilities
<1>2. at.loop = "closure" /\ at'.loop \in {"closure", "sort_resources"}
  BY <1>1, Turns DEF CloseAsset, CheckCapabilities, PlanTyped
<1>3. ASSUME NEW kind \in Kinds
      PROVE  UNCHANGED <<Passed(at, kind, Len(plan[kind])),
               Passed(at, EdgeLoop[kind], Cardinality(Present(plan[kind])))>>
  BY <1>1, <1>2, Turns, PassedIs DEF Kinds
<1>4. \A kind \in Kinds : Turn[at.loop] < Turn[SortLoop[kind]] /\ ~ (Turn[at'.loop] > Turn[SortLoop[kind]])
  BY <1>2, Turns DEF Kinds
<1> QED
  BY <1>1, <1>2, <1>3, <1>4, PlanKept

\* The edges of one name more, that are the plan's when the names are unique.
LEMMA PlanLink ==
  ASSUME PlanInvariant, PlanTyped', NEW kind \in Kinds, at.loop = EdgeLoop[kind],
         Iterate(EdgeLoop[kind], Cardinality(DOMAIN found[kind])), NEW value,
         edges' = [edges EXCEPT ![kind] = Added(@, {Ids(kind)[at.index]}, value)],
         Sound(kind) => value = WaitsFor(kind, Ids(kind)[at.index]),
         UNCHANGED <<found, order>>
  PROVE  PlanInvariant'
<1> DEFINE n == at.index - 1
           list == plan[kind]
           V == Present(list)
           names == Ascending(V)
           id == Ids(kind)[at.index]
<1>1. /\ PlanTyped /\ plan' = plan /\ at.index \in Nat \ {0}
      /\ at.index <= Cardinality(DOMAIN found[kind])
      /\ at'.loop = at.loop /\ at'.index = at.index + 1
      /\ edges'[kind] = Added(edges[kind], {id}, value)
      /\ \A other \in Kinds \ {kind} : edges'[other] = edges[other]
  BY DEF PlanInvariant, PlanTyped, Iterate
<1>2. at.loop # "done" /\ ServicesTaken
      /\ \A k \in Kinds : KindTaken(k) /\ KindLinked(k) /\ KindSorted(k)
  BY Turns DEF PlanInvariant, Kinds
<1>3. /\ Len(list) \in Nat /\ V = NamedUpTo(list, Len(list))
      /\ V \in SUBSET Nat /\ IsFiniteSet(V) /\ Cardinality(V) \in Nat
  BY <1>1, ListIs
<1>4. DOMAIN found[kind] = V
  <2>1. Passed(at, kind, Len(plan[kind])) = Len(plan[kind])
    BY Turns, PassedIs DEF Kinds
  <2> QED
    BY <1>2, <1>3, <2>1 DEF KindTaken, DictionaryUpTo
<1>5. names = Ids(kind) /\ id = names[at.index]
  BY <1>4 DEF Ids
<1>6. n \in Nat /\ n + 1 = at.index /\ at'.index - 1 = n + 1 /\ n + 1 <= Cardinality(V)
  BY <1>1, <1>3, <1>4
<1>7. \A k \in Kinds : \A m :
        /\ Passed(at', k, m) = Passed(at, k, m)
        /\ k # kind => Passed(at', EdgeLoop[k], m) = Passed(at, EdgeLoop[k], m)
        /\ Turn[at.loop] < Turn[SortLoop[k]] /\ ~ (Turn[at'.loop] > Turn[SortLoop[k]])
  BY <1>1, Turns, PassedIs DEF Kinds
<1>8. Passed(at, EdgeLoop[kind], Cardinality(V)) = n
      /\ Passed(at', EdgeLoop[kind], Cardinality(V)) = n + 1
  BY <1>1, <1>6, Turns, PassedIs DEF Kinds
<1>9. DOMAIN edges[kind] = {names[i] : i \in 1 .. n}
  BY <1>2, <1>8 DEF KindLinked
<1> HIDE DEF n, list, V, names, id
<1>10. /\ NamesOf(names) = V /\ DOMAIN names = 1 .. Cardinality(V)
       /\ \A i, j \in 1 .. Cardinality(V) : i < j => names[i] < names[j]
       /\ \A i \in 1 .. Cardinality(V) : names[i] \in Nat
  <2>1. /\ NamesOf(names) = V /\ DOMAIN names = 1 .. Cardinality(V)
        /\ \A i, j \in 1 .. Cardinality(V) : i < j => names[i] < names[j]
    BY <1>3, AscendingIs DEF names
  <2>2. \A i \in 1 .. Cardinality(V) : names[i] \in V
    BY <2>1 DEF NamesOf
  <2> QED
    BY <1>3, <2>1, <2>2
<1>11. id = names[n + 1] /\ id \notin DOMAIN edges[kind]
  <2>1. id = names[n + 1]
    BY <1>5, <1>6
  <2> SUFFICES ASSUME NEW i \in 1 .. n, names[i] = names[n + 1] PROVE FALSE
    BY <1>9, <2>1
  <2>2. i \in 1 .. Cardinality(V) /\ n + 1 \in 1 .. Cardinality(V) /\ i < n + 1
    BY <1>3, <1>6
  <2>3. names[i] < names[n + 1] /\ names[i] \in Nat
    BY <1>10, <2>2
  <2> QED
    BY <2>3
<1>12. KindLinked(kind)'
  <2>1. DOMAIN edges'[kind] = {names[i] : i \in 1 .. n + 1}
    <3>1. 1 .. n + 1 = (1 .. n) \cup {n + 1}
      BY <1>6
    <3> QED
      BY <1>1, <1>9, <1>11, <3>1 DEF Added
  <2>2. Passed(at, EdgeLoop[kind], Cardinality(Present(plan[kind])))' = n + 1
        /\ Cardinality(Present(plan[kind]))' = Cardinality(V)
        /\ Ascending(Present(plan[kind]))' = names
    BY <1>1, <1>8 DEF V, list, names
  <2> QED
    BY <1>6, <2>1, <2>2 DEF KindLinked
<1>13. KindSorted(kind)'
  <2>1. Sound(kind)' = Sound(kind)
    BY <1>1 DEF Sound, Shared
  <2>2. \A x : WaitsFor(kind, x)' = WaitsFor(kind, x)
    BY <1>1 DEF WaitsFor
  <2>3. KindSorted(kind) /\ order[kind]' = order[kind]
    BY <1>2
  <2>4. Sound(kind) => \A x \in DOMAIN edges'[kind] : edges'[kind][x] = WaitsFor(kind, x)
    <3> SUFFICES ASSUME Sound(kind), NEW x \in DOMAIN edges'[kind]
                 PROVE  edges'[kind][x] = WaitsFor(kind, x)
      OBVIOUS
    <3>1. CASE x = id
      BY <1>1, <1>11, <3>1 DEF Added, id
    <3>2. CASE x # id
      <4>1. x \in DOMAIN edges[kind] /\ edges'[kind][x] = edges[kind][x]
        BY <1>1, <3>2 DEF Added
      <4> QED
        BY <2>3, <4>1 DEF KindSorted
    <3> QED
      BY <3>1, <3>2
  <2>5. Turn[at.loop] < Turn[SortLoop[kind]] /\ ~ (Turn[at.loop] > Turn[SortLoop[kind]])'
    BY <1>7
  <2>6. Sound(kind) => order[kind] = << >>
    BY <2>3, <2>5 DEF KindSorted
  <2>7. Sound(kind) => \E wave, v : Layers(Present(plan[kind]), edges'[kind], order[kind], wave, v)
    BY <2>6, LayersBegin
  <2> QED
    BY <1>1, <2>1, <2>2, <2>3, <2>4, <2>5, <2>6, <2>7 DEF KindSorted
<1>14. KindTaken(kind)'
  <2>1. Passed(at, kind, Len(plan[kind]))' = Passed(at, kind, Len(plan[kind]))
    BY <1>1, <1>7
  <2> QED
    BY <1>1, <1>2, <2>1 DEF KindTaken
<1>15. ServicesTaken'
  <2>1. Passed(at, "resources", Len(plan.resources))' = Passed(at, "resources", Len(plan.resources))
    BY <1>1, <1>7 DEF Kinds
  <2>2. Shared("provides")' = Shared("provides")
    BY <1>1 DEF Shared
  <2> QED
    BY <1>1, <1>2, <2>1, <2>2 DEF ServicesTaken, ServicesUpTo
<1>16. ASSUME NEW other \in Kinds, other # kind
       PROVE  KindTaken(other)' /\ KindLinked(other)' /\ KindSorted(other)'
  <2>1. UNCHANGED <<found[other], edges[other], order[other], Turn[at.loop]>>
    BY <1>1, <1>16
  <2>2. UNCHANGED <<Passed(at, other, Len(plan[other])),
           Passed(at, EdgeLoop[other], Cardinality(Present(plan[other])))>>
    BY <1>1, <1>7, <1>16
  <2> QED
    BY <1>1, <1>2, <2>1, <2>2, KindKept
<1> QED
  BY <1>12, <1>13, <1>14, <1>15, <1>16 DEF PlanInvariant

\* What a definition of a regular list waits for, as its edges are computed.
LEMMA FoundIs ==
  ASSUME PlanInvariant, NEW kind \in Kinds, at.loop = EdgeLoop[kind],
         at.index \in 1 .. Cardinality(DOMAIN found[kind])
  PROVE  /\ DOMAIN found[kind] = Present(plan[kind])
         /\ Ids(kind)[at.index] \in Present(plan[kind])
         /\ Regular(plan[kind]) =>
              \A id \in Present(plan[kind]) : found[kind][id] = With(plan[kind], id)
<1>1. at.loop # "done" /\ Turn[at.loop] > Turn[kind] /\ PlanTyped
  BY Turns DEF PlanInvariant, Kinds
<1>2. /\ DOMAIN found[kind] = Present(plan[kind])
      /\ Regular(plan[kind]) => \A id \in Present(plan[kind]) : found[kind][id] = With(plan[kind], id)
  BY <1>1, FoundAll
<1>3. Present(plan[kind]) \in SUBSET Nat /\ IsFiniteSet(Present(plan[kind]))
  BY <1>1, ListIs
<1>4. at.index \in DOMAIN Ascending(Present(plan[kind]))
      /\ NamesOf(Ascending(Present(plan[kind]))) = Present(plan[kind])
  BY <1>2, <1>3, AscendingIs
<1>5. Ids(kind)[at.index] \in Present(plan[kind])
  BY <1>2, <1>4 DEF NamesOf, Ids
<1> QED
  BY <1>2, <1>5

\* An iteration over the assets found adds the edges of one.
LEMMA PlanLinkAsset ==
  ASSUME PlanInvariant, LinkAsset
  PROVE  PlanInvariant'
<1> DEFINE id == Ids("assets")[at.index]
           value == Valid(found.assets[id].dependencies) \cap DOMAIN found.assets
<1>1. PlanTyped' /\ at.loop = "asset_edges" /\ at.index \in 1 .. Cardinality(DOMAIN found["assets"])
      /\ Iterate("asset_edges", Cardinality(DOMAIN found["assets"]))
      /\ edges' = [edges EXCEPT !["assets"] = Added(@, {id}, value)]
      /\ UNCHANGED <<found, order>>
  <2>1. PlanTyped'
    BY PlanTypedKept DEF PlanInvariant, Validate
  <2>2. Cardinality(DOMAIN found["assets"]) \in Nat
    <3>1. KindTaken("assets") /\ PlanTyped /\ at.loop = EdgeLoop["assets"]
      BY Turns DEF PlanInvariant, Kinds, LinkAsset, Iterate
    <3>2. Passed(at, "assets", Len(plan["assets"])) = Len(plan["assets"])
      BY <3>1, Turns, PassedIs
    <3> QED
      BY <3>1, <3>2, ListIs DEF KindTaken, DictionaryUpTo, Kinds
  <2>3. at.loop = EdgeLoop["assets"] /\ at.index \in Nat \ {0}
        /\ at.index <= Cardinality(DOMAIN found["assets"])
    BY Turns DEF LinkAsset, Iterate, PlanInvariant, PlanTyped
  <2>4. at.index \in 1 .. Cardinality(DOMAIN found["assets"])
    BY <2>2, <2>3
  <2>5. edges' = [edges EXCEPT !["assets"] = Added(@, {id}, value)] /\ UNCHANGED <<found, order>>
    BY DEF LinkAsset
  <2> QED
    BY <2>1, <2>4, <2>5 DEF LinkAsset, Iterate
<1>2. "assets" \in Kinds /\ at.loop = EdgeLoop["assets"] /\ "assets" # "resources"
  BY <1>1, Turns DEF Kinds
<1>3. DOMAIN found["assets"] = Present(plan["assets"]) /\ id \in Present(plan["assets"])
      /\ (Regular(plan["assets"]) => found["assets"][id] = With(plan["assets"], id))
  BY <1>1, <1>2, FoundIs
<1>4. Sound("assets") => value = WaitsFor("assets", id)
  BY <1>3 DEF Sound, WaitsFor
<1> HIDE DEF value
<1> QED
  BY <1>1, <1>2, <1>4, Turns, PlanLink

\* An iteration over the resources found adds the edges of one: what it depends
\* on and, where no service is provided twice, all that provide what it requires.
LEMMA PlanLinkResource ==
  ASSUME PlanInvariant, LinkResource
  PROVE  PlanInvariant'
<1> DEFINE list == plan.resources
           V == Present(list)
           id == Ids("resources")[at.index]
           r == found.resources[id]
           value == (Valid(r.dependencies) \cap DOMAIN found.resources) \cup Providers(r)
<1>1. PlanTyped' /\ at.loop = "resource_edges"
      /\ at.index \in 1 .. Cardinality(DOMAIN found["resources"])
      /\ Iterate("resource_edges", Cardinality(DOMAIN found["resources"]))
      /\ edges' = [edges EXCEPT !["resources"] = Added(@, {id}, value)]
      /\ UNCHANGED <<found, order>>
  <2>1. PlanTyped'
    BY PlanTypedKept DEF PlanInvariant, Validate
  <2>2. Cardinality(DOMAIN found["resources"]) \in Nat
    <3>1. KindTaken("resources") /\ PlanTyped /\ at.loop = EdgeLoop["resources"]
      BY Turns DEF PlanInvariant, Kinds, LinkResource, Iterate
    <3>2. Passed(at, "resources", Len(plan["resources"])) = Len(plan["resources"])
      BY <3>1, Turns, PassedIs
    <3> QED
      BY <3>1, <3>2, ListIs DEF KindTaken, DictionaryUpTo, Kinds
  <2>3. at.loop = EdgeLoop["resources"] /\ at.index \in Nat \ {0}
        /\ at.index <= Cardinality(DOMAIN found["resources"])
    BY Turns DEF LinkResource, Iterate, PlanInvariant, PlanTyped
  <2>4. at.index \in 1 .. Cardinality(DOMAIN found["resources"])
    BY <2>2, <2>3
  <2>5. edges' = [edges EXCEPT !["resources"] = Added(@, {id}, value)] /\ UNCHANGED <<found, order>>
    BY DEF LinkResource
  <2> QED
    BY <2>1, <2>4, <2>5 DEF LinkResource, Iterate
<1>2. "resources" \in Kinds /\ at.loop = EdgeLoop["resources"] /\ "assets" # "resources"
  BY <1>1, Turns DEF Kinds
<1>3. DOMAIN found["resources"] = V /\ id \in V
      /\ (Regular(list) => r = With(list, id))
  BY <1>1, <1>2, FoundIs
<1>4. Sound("resources") => value = WaitsFor("resources", id)
  <2> SUFFICES ASSUME Regular(list), ~ Shared("provides") PROVE value = WaitsFor("resources", id)
    BY DEF Sound
  <2>1. /\ Len(list) \in Nat /\ DOMAIN list = 1 .. Len(list)
    BY <1>2, ListIs DEF PlanInvariant
  <2>2. \A i \in 1 .. Len(list) : list[i].id \in V /\ With(list, list[i].id) = list[i]
    BY <2>1, RegularIs
  <2>3. \A p \in V : \E i \in 1 .. Len(list) : p = list[i].id
    BY <2>1 DEF Present, Positions
  <2>4. r = With(list, id) /\ r.id = id
    <3>1. PICK i \in 1 .. Len(list) : id = list[i].id
      BY <1>3, <2>3
    <3> QED
      BY <1>3, <2>2, <3>1
  <2>5. ServicesUpTo(found.services, list, Len(list))
    <3>1. ServicesTaken /\ Passed(at, "resources", Len(list)) = Len(list)
      BY <1>1, PassedIs DEF PlanInvariant
    <3> QED
      BY <3>1 DEF ServicesTaken
  <2>6. DOMAIN found.services = UNION {Valid(list[i].provides) : i \in 1 .. Len(list)}
        /\ \A i \in 1 .. Len(list) : \A s \in Valid(list[i].provides) : found.services[s] = list[i].id
    BY <2>5 DEF ServicesUpTo
  <2>7. Providers(r) = {p \in V \ {id} : Valid(With(list, p).provides) \cap Valid(r.requires) # {}}
    <3>1. ASSUME NEW p \in Providers(r)
          PROVE  p \in V \ {id} /\ Valid(With(list, p).provides) \cap Valid(r.requires) # {}
      <4>1. PICK s \in Valid(r.requires) \cap DOMAIN found.services : p = found.services[s]
        BY DEF Providers
      <4>2. PICK i \in 1 .. Len(list) : s \in Valid(list[i].provides)
        BY <2>6, <4>1
      <4>3. p = list[i].id /\ p # id
        BY <2>4, <2>6, <4>1, <4>2 DEF Providers
      <4> QED
        BY <2>2, <4>1, <4>2, <4>3
    <3>2. ASSUME NEW p \in V \ {id}, Valid(With(list, p).provides) \cap Valid(r.requires) # {}
          PROVE  p \in Providers(r)
      <4>1. PICK i \in 1 .. Len(list) : p = list[i].id
        BY <2>3
      <4>2. PICK s : s \in Valid(list[i].provides) /\ s \in Valid(r.requires)
        BY <2>2, <3>2, <4>1
      <4>3. s \in DOMAIN found.services /\ found.services[s] = p
        BY <2>6, <4>1, <4>2
      <4> QED
        BY <2>4, <4>2, <4>3 DEF Providers
    <3> QED
      BY <3>1, <3>2
  <2> QED
    BY <1>3, <2>4, <2>7 DEF WaitsFor
<1> HIDE DEF value
<1> QED
  BY <1>1, <1>2, <1>4, Turns, PlanLink

\* The edges of a kind are complete once their loop is over.
LEMMA GraphComplete ==
  ASSUME PlanInvariant, NEW kind \in Kinds, Turn[at.loop] > Turn[EdgeLoop[kind]],
         ~ (at.loop = "done" /\ Limited)
  PROVE  /\ DOMAIN edges[kind] = Present(plan[kind])
         /\ Sound(kind) => GraphIs(kind) /\ IsGraph(Present(plan[kind]), edges[kind])
<1>1. PlanTyped /\ KindLinked(kind) /\ KindSorted(kind)
  BY DEF PlanInvariant
<1> DEFINE V == Present(plan[kind])
<1>2. V \in SUBSET Nat /\ IsFiniteSet(V) /\ Cardinality(V) \in Nat
  BY <1>1, ListIs
<1>3. Passed(at, EdgeLoop[kind], Cardinality(V)) = Cardinality(V)
  BY <1>1, Turns, PassedIs DEF Kinds, PlanTyped
<1>4. DOMAIN edges[kind] = V
  <2>1. DOMAIN edges[kind] = {Ascending(V)[i] : i \in 1 .. Cardinality(V)}
    BY <1>1, <1>3 DEF KindLinked
  <2>2. DOMAIN Ascending(V) = 1 .. Cardinality(V) /\ NamesOf(Ascending(V)) = V
    BY <1>2, AscendingIs
  <2> QED
    BY <2>1, <2>2 DEF NamesOf
<1>5. \A id \in V : WaitsFor(kind, id) \subseteq V
  BY DEF WaitsFor
<1>6. Sound(kind) => \A id \in V : edges[kind][id] = WaitsFor(kind, id)
  BY <1>1, <1>4 DEF KindSorted
<1> QED
  BY <1>2, <1>4, <1>5, <1>6 DEF GraphIs, IsGraph

\* One wave of Sort makes one more layer, or leaves nothing that is ready.
LEMMA PlanSort ==
  ASSUME PlanInvariant, NEW kind \in Kinds, NEW next, Sort(kind, next), PlanTyped',
         IF kind = "resources" THEN next = "sort_assets" ELSE next = "done"
  PROVE  PlanInvariant'
<1>1. /\ PlanTyped /\ plan' = plan /\ at.loop = SortLoop[kind] /\ UNCHANGED <<found, edges>>
      /\ \A other \in Kinds \ {kind} : order'[other] = order[other]
  BY DEF PlanInvariant, PlanTyped, Sort
<1>2. at.loop \in {"sort_resources", "sort_assets"} /\ ~ (at.loop = "done" /\ Limited)
      /\ Turn[at.loop] > Turn[EdgeLoop[kind]]
  BY <1>1, Turns DEF Kinds
<1>3. ServicesTaken /\ \A k \in Kinds : KindTaken(k) /\ KindLinked(k) /\ KindSorted(k)
  BY <1>2 DEF PlanInvariant
<1>4. at' = at \/ at' = [at EXCEPT !.loop = next]
  BY DEF Sort
<1>5. at'.loop = at.loop \/ at'.loop = next
  BY <1>1, <1>4 DEF PlanTyped
<1>6. \A k \in Kinds : \A m :
        Passed(at', k, m) = Passed(at, k, m) /\ Passed(at', EdgeLoop[k], m) = Passed(at, EdgeLoop[k], m)
  BY <1>2, <1>5, Turns, PassedIs DEF Kinds
<1>7. ServicesTaken'
  <2>1. Passed(at, "resources", Len(plan.resources))' = Passed(at, "resources", Len(plan.resources))
    BY <1>1, <1>6 DEF Kinds
  <2>2. Shared("provides")' = Shared("provides")
    BY <1>1 DEF Shared
  <2> QED
    BY <1>1, <1>3, <2>1, <2>2 DEF ServicesTaken, ServicesUpTo
<1>8. KindTaken(kind)' /\ KindLinked(kind)'
  <2>1. UNCHANGED <<Passed(at, kind, Len(plan[kind])),
           Passed(at, EdgeLoop[kind], Cardinality(Present(plan[kind])))>>
    BY <1>1, <1>6
  <2>2. KindTaken(kind)'
    BY <1>1, <1>3, <2>1 DEF KindTaken
  <2>3. KindLinked(kind)'
    BY <1>1, <1>3, <2>1 DEF KindLinked
  <2> QED
    BY <2>2, <2>3
<1>9. KindSorted(kind)'
  <2> DEFINE V == Present(plan[kind])
             E == edges[kind]
             ready == Ready(E, NamesOf(order[kind]))
  <2>1. Sound(kind)' = Sound(kind)
    BY <1>1 DEF Sound, Shared
  <2>2. \A x : WaitsFor(kind, x)' = WaitsFor(kind, x)
    BY <1>1 DEF WaitsFor
  <2>3. ~ (Turn[at.loop] < Turn[SortLoop[kind]])'
    BY <1>1, <1>5, Turns DEF Kinds
  <2> SUFFICES ASSUME Sound(kind)
               PROVE  /\ \E wave, v : Layers(V, E, order'[kind], wave, v)
                      /\ (Turn[at.loop] > Turn[SortLoop[kind]])' => Ready(E, NamesOf(order'[kind])) = {}
    BY <1>1, <1>3, <2>1, <2>2, <2>3 DEF KindSorted
  <2>4. DOMAIN E = V /\ IsGraph(V, E)
    BY <1>2, GraphComplete
  <2>5. PICK wave, v : Layers(V, E, order[kind], wave, v)
    BY <1>3 DEF KindSorted
  <2>6. CASE GoesOn(E, NamesOf(order[kind]), ready)
    <3>1. order' = [order EXCEPT ![kind] = @ \o Ascending(ready)] /\ at' = at
      BY <2>6 DEF Sort
    <3>2. order'[kind] = order[kind] \o Ascending(ready)
      BY <1>1, <3>1 DEF PlanTyped
    <3>3. ready # {}
      BY <2>6 DEF GoesOn
    <3>4. \E later : Layers(V, E, order'[kind], later, v + 1)
      BY <2>4, <2>5, <3>2, <3>3, LayersGrow
    <3>5. ~ (Turn[at.loop] > Turn[SortLoop[kind]])'
      BY <1>1, <3>1, Turns DEF Kinds
    <3> QED
      BY <3>4, <3>5
  <2>7. CASE ~ GoesOn(E, NamesOf(order[kind]), ready)
    <3>1. order' = order
      BY <2>7 DEF Sort
    <3>2. ready = {}
      BY <2>7 DEF GoesOn, Ready
    <3> QED
      BY <2>5, <3>1, <3>2
  <2> QED
    BY <2>6, <2>7
<1>10. ASSUME NEW other \in Kinds, other # kind
       PROVE  KindTaken(other)' /\ KindLinked(other)' /\ KindSorted(other)'
  <2>1. UNCHANGED <<found[other], edges[other], order[other]>>
    BY <1>1, <1>10
  <2>2. UNCHANGED <<Passed(at, other, Len(plan[other])),
           Passed(at, EdgeLoop[other], Cardinality(Present(plan[other])))>>
    BY <1>1, <1>6
  <2>3. /\ (Turn[at.loop] < Turn[SortLoop[other]])' => Turn[at.loop] < Turn[SortLoop[other]]
        /\ (Turn[at.loop] > Turn[SortLoop[other]])' => Turn[at.loop] > Turn[SortLoop[other]]
    BY <1>1, <1>5, <1>10, Turns DEF Kinds
  <2> QED
    BY <1>1, <1>3, <2>1, <2>2, <2>3, KindKept
<1> QED
  BY <1>7, <1>8, <1>9, <1>10 DEF PlanInvariant

\* A step of the loops keeps the invariant.
LEMMA PlanStep ==
  ASSUME PlanInvariant, [PlanNext]_planVars
  PROVE  PlanInvariant'
<1>1. CASE Header
  BY <1>1, PlanHeader
<1>2. CASE TakeResource
  BY <1>2, PlanTakeResource
<1>3. CASE LinkResource
  BY <1>3, PlanLinkResource
<1>4. CASE TakeAsset
  BY <1>4, PlanTakeAsset
<1>5. CASE LinkAsset
  BY <1>5, PlanLinkAsset
<1>6. CASE LeaveLoop
  BY <1>6, PlanLeaveLoop
<1>7. CASE CloseAsset \/ CheckCapabilities
  BY <1>7, PlanClosed
<1>8. CASE Sort("resources", SortLoop.assets)
  <2>1. PlanTyped'
    BY <1>8, PlanTypedKept DEF PlanInvariant, Validate
  <2> QED
    BY <1>8, <2>1, Turns, PlanSort DEF Kinds
<1>9. CASE Sort("assets", "done")
  <2>1. PlanTyped'
    BY <1>9, PlanTypedKept DEF PlanInvariant, Validate
  <2> QED
    BY <1>9, <2>1, PlanSort DEF Kinds
<1>10. CASE UNCHANGED planVars
  <2>1. UNCHANGED <<plan, at, found, edges, issues, order>>
    BY <1>10 DEF planVars
  <2>2. PlanTyped'
    BY <2>1 DEF PlanInvariant, PlanTyped
  <2>3. CASE at.loop = "done" /\ Limited
    BY <2>1, <2>2, <2>3 DEF PlanInvariant, Limited
  <2>4. CASE ~ (at.loop = "done" /\ Limited)
    <3>1. ServicesTaken'
      BY <2>1, <2>4 DEF PlanInvariant, ServicesTaken, ServicesUpTo, Shared
    <3>2. ASSUME NEW kind \in Kinds PROVE KindTaken(kind)' /\ KindLinked(kind)' /\ KindSorted(kind)'
      BY <2>1, <2>4, KindKept DEF PlanInvariant
    <3> QED
      BY <2>2, <3>1, <3>2 DEF PlanInvariant
  <2> QED
    BY <2>3, <2>4
<1> QED
  BY <1>1, <1>2, <1>3, <1>4, <1>5, <1>6, <1>7, <1>8, <1>9, <1>10 DEF PlanNext, Validate

\* When the loops are over, the orders are the ones by the longest wait.
LEMMA OrderedAtEnd ==
  ASSUME PlanInvariant
  PROVE  OrderByLongestWait
<1> SUFFICES ASSUME Done, Regular(plan.resources), Regular(plan.assets), ~ Shared("provides"),
                    NEW kind \in Kinds
             PROVE  /\ NamesOf(order[kind]) = Present(plan[kind]) \ Stuck(kind)
                    /\ \A i, j \in DOMAIN order[kind] : i < j =>
                         LET a == order[kind][i]
                             b == order[kind][j]
                         IN \/ Depth(kind, a) < Depth(kind, b)
                            \/ Depth(kind, a) = Depth(kind, b) /\ a < b
  BY DEF OrderByLongestWait, Kinds
<1>1. at.loop = "done" /\ ~ (at.loop = "done" /\ Limited) /\ Sound(kind)
  BY DEF Done, Sound, Kinds
<1>2. Turn[at.loop] > Turn[EdgeLoop[kind]] /\ Turn[at.loop] > Turn[SortLoop[kind]]
  BY <1>1, Turns DEF Kinds
<1>3. GraphIs(kind) /\ IsGraph(Present(plan[kind]), edges[kind])
  BY <1>1, <1>2, GraphComplete
<1>4. PICK wave, v : Layers(Present(plan[kind]), edges[kind], order[kind], wave, v)
  BY <1>1 DEF PlanInvariant, KindSorted
<1>5. Ready(edges[kind], NamesOf(order[kind])) = {}
  BY <1>1, <1>2 DEF PlanInvariant, KindSorted
<1> QED
  BY <1>3, <1>4, <1>5, SortedIs

\* OrderByLongestWait (WorldPlanValidator.cs, Sort): whatever the plan, each kind is
\* ordered by the longest wait and then by name, without what waits for a cycle.
THEOREM Ordered == PlanSpec => []OrderByLongestWait
<1>1. PlanInvariant /\ [PlanNext]_planVars => PlanInvariant'
  BY PlanStep
<1> QED
  BY PlanBegins, <1>1, OrderedAtEnd, PTL DEF PlanSpec

-----------------------------------------------------------------------------
(* The diagnostics.                                                        *)

\* The subjects that a set of diagnostics names under a code.
About(said, code) == {x[2] : x \in {y \in said : y[1] = code}}
Each(code, subjects) == {<<code, s>> : s \in subjects}

\* The names under field that the first n resources bring, and of them those
\* that the i-th brings again or twice.
BroughtUpTo(list, field, n) == UNION {Valid(list[i][field]) : i \in 1 .. n}
Held(list, m) == {i \in DOMAIN list : list[i] = m}
Again(list, known) == {m \in Valid(list) : m \in known \/ Cardinality(Held(list, m)) > 1}
Clash(list, field, i) == Again(list[i][field], BroughtUpTo(list, field, i - 1))
Clashes(list, field, n) == UNION {Clash(list, field, i) : i \in 1 .. n}

\* The names under field that the first n definitions miss, by their order.
Missing(list, field, known, n) ==
  UNION {Valid(With(list, Ascending(Present(list))[i])[field]) \ known : i \in 1 .. n}

\* One of the first n definitions has no identifier, or that of another one.
Faulty(list, n) ==
  \E i \in 1 .. n : ~ Identifier(list[i].id) \/ \E j \in 1 .. i - 1 : list[j].id = list[i].id

\* The subjects of two sets of diagnostics.
LEMMA AboutJoined ==
  ASSUME NEW A, NEW B, NEW code
  PROVE  About(A \cup B, code) = About(A, code) \cup About(B, code)
<1> QED
  BY DEF About

\* Diagnostics under other codes add no subject.
LEMMA AboutOthers ==
  ASSUME NEW A, NEW B, NEW code, \A x \in B : x[1] # code
  PROVE  About(A \cup B, code) = About(A, code)
<1> QED
  BY DEF About

\* The subject of one diagnostic.
LEMMA AboutOne ==
  ASSUME NEW c, NEW subject, NEW code
  PROVE  About({<<c, subject>>}, code) = IF c = code THEN {subject} ELSE {}
<1> DEFINE x == <<c, subject>>
<1>1. x[1] = c /\ x[2] = subject
  OBVIOUS
<1> HIDE DEF x
<1>2. About({x}, code) = IF c = code THEN {subject} ELSE {}
  BY <1>1 DEF About
<1> QED
  BY <1>2 DEF x

\* The subjects of one diagnostic each.
LEMMA AboutEach ==
  ASSUME NEW S, NEW c, NEW code
  PROVE  About(Each(c, S), code) = IF c = code THEN S ELSE {}
<1>1. \A x \in Each(c, S) : x[1] = c /\ x[2] \in S
  <2> SUFFICES ASSUME NEW x \in Each(c, S) PROVE x[1] = c /\ x[2] \in S
    OBVIOUS
  <2>1. PICK s \in S : x = <<c, s>>
    BY DEF Each
  <2> QED
    BY <2>1
<1>2. \A s \in S : \E x \in Each(c, S) : x[1] = c /\ x[2] = s
  <2> SUFFICES ASSUME NEW s \in S PROVE \E x \in Each(c, S) : x[1] = c /\ x[2] = s
    OBVIOUS
  <2>1. <<c, s>>[1] = c /\ <<c, s>>[2] = s /\ <<c, s>> \in Each(c, S)
    BY DEF Each
  <2> QED
    BY <2>1
<1> QED
  BY <1>1, <1>2 DEF About

\* Conflicts names what TryAdd refuses: known already, or brought twice.
LEMMA AboutConflicts ==
  ASSUME NEW d, NEW list, NEW c, NEW code
  PROVE  About(Conflicts(d, list, c), code) = IF c = code THEN Again(list, DOMAIN d) ELSE {}
<1>1. Conflicts(d, list, c) = Each(c, Again(list, DOMAIN d))
  BY DEF Conflicts, Each, Again, Held
<1> QED
  BY <1>1, AboutEach

\* What a step says under the codes of the relations.
LEMMA SaysHeader ==
  ASSUME Header, at'.loop # "done", PlanTyped, NEW code \in Relations
  PROVE  About(issues', code) = {}
<1>1. issues' = Report(plan.schema # 1, "unsupported_schema", 0)
                  \cup Report(~ Identifier(plan.world), "invalid_identifier", 0)
  BY DEF Header, PlanTyped
<1>2. \A x \in issues' : x[1] \in {"unsupported_schema", "invalid_identifier"}
  BY <1>1 DEF Report
<1> QED
  BY <1>2 DEF Relations, About

\* A resource: the services and mutators that it brings again.
LEMMA SaysTakeResource ==
  ASSUME TakeResource, Identifier(plan.resources[at.index].id), NEW code \in Relations
  PROVE  About(issues', code) = About(issues, code)
           \cup About(Conflicts(found.services, plan.resources[at.index].provides,
                                "provider_conflict"), code)
           \cup About(Conflicts(found.mutators, plan.resources[at.index].mutates,
                                "mutator_conflict"), code)
<1> DEFINE r == plan.resources[at.index]
           A == Report(r.id \in DOMAIN found.resources, "duplicate_resource", r.id)
           B == Report(~ r.digest, "invalid_digest", r.id)
           N == CheckNames(r.dependencies, r.id) \cup CheckNames(r.requires, r.id)
                  \cup CheckNames(r.provides, r.id) \cup CheckNames(r.mutates, r.id)
           C == Conflicts(found.services, r.provides, "provider_conflict")
           D == Conflicts(found.mutators, r.mutates, "mutator_conflict")
<1>1. issues' = issues \cup A \cup B
        \cup CheckNames(r.dependencies, r.id) \cup CheckNames(r.requires, r.id)
        \cup CheckNames(r.provides, r.id) \cup CheckNames(r.mutates, r.id) \cup C \cup D
  BY DEF TakeResource
<1>2. /\ \A x \in A : x[1] = "duplicate_resource"
      /\ \A x \in B : x[1] = "invalid_digest"
      /\ \A x \in N : x[1] \in {"invalid_names", "duplicate_name"}
  BY DEF Report, CheckNames
<1>3. issues' = ((issues \cup C) \cup D) \cup (A \cup B \cup N)
  BY <1>1
<1> HIDE DEF A, B, C, D, N
<1>4. \A x \in A \cup B \cup N : x[1] # code
  BY <1>2 DEF Relations
<1>5. About(issues', code) = About((issues \cup C) \cup D, code)
  BY <1>3, <1>4, AboutOthers
<1>6. /\ About((issues \cup C) \cup D, code) = About(issues \cup C, code) \cup About(D, code)
      /\ About(issues \cup C, code) = About(issues, code) \cup About(C, code)
  BY AboutJoined
<1> QED
  BY <1>5, <1>6 DEF C, D

\* An asset: whether it is critical and optional itself.
LEMMA SaysTakeAsset ==
  ASSUME TakeAsset, Identifier(plan.assets[at.index].id), NEW code \in Relations
  PROVE  About(issues', code) = About(issues, code)
           \cup (IF /\ code = "critical_optional_asset"
                    /\ plan.assets[at.index].critical /\ plan.assets[at.index].optional
                 THEN {plan.assets[at.index].id} ELSE {})
<1> DEFINE a == plan.assets[at.index]
           A == Report(a.id \in DOMAIN found.assets, "duplicate_asset", a.id)
           B == Report(~ a.digest, "invalid_digest", a.id)
           C == Report(a.critical /\ a.optional, "critical_optional_asset", a.id)
           D == Report(Len(a.dependencies) > MaxAssetNames \/ Malformed \in NamesOf(a.dependencies),
                       "invalid_dependencies", a.id)
           F == Report(Repeats(a.dependencies), "duplicate_dependency", a.id)
<1>1. issues' = issues \cup A \cup B \cup C \cup D \cup F
  BY DEF TakeAsset
<1>2. \A x \in A \cup B \cup D \cup F :
        x[1] \in {"duplicate_asset", "invalid_digest", "invalid_dependencies", "duplicate_dependency"}
  BY DEF Report
<1>3. issues' = (issues \cup C) \cup (A \cup B \cup D \cup F)
  BY <1>1
<1>4. C = IF a.critical /\ a.optional THEN {<<"critical_optional_asset", a.id>>} ELSE {}
  BY DEF Report
<1> HIDE DEF A, B, C, D, F
<1>5. \A x \in A \cup B \cup D \cup F : x[1] # code
  BY <1>2 DEF Relations
<1>6. About(issues', code) = About(issues \cup C, code)
  BY <1>3, <1>5, AboutOthers
<1>7. About(issues', code) = About(issues, code) \cup About(C, code)
  BY <1>6, AboutJoined
<1>8. CASE a.critical /\ a.optional
  <2>1. About(C, code) = IF "critical_optional_asset" = code THEN {a.id} ELSE {}
    BY <1>4, <1>8, AboutOne
  <2> QED
    BY <1>7, <1>8, <2>1
<1>9. CASE ~ (a.critical /\ a.optional)
  BY <1>4, <1>7, <1>9 DEF About
<1> QED
  BY <1>8, <1>9

\* A resource's edges: dependencies and services that are not there.
LEMMA SaysLinkResource ==
  ASSUME LinkResource, NEW code \in Relations
  PROVE  LET r == found.resources[Ids("resources")[at.index]]
         IN About(issues', code) = About(issues, code)
              \cup (IF code = "missing_dependency"
                    THEN Valid(r.dependencies) \ DOMAIN found.resources ELSE {})
              \cup (IF code = "missing_provider"
                    THEN Valid(r.requires) \ DOMAIN found.services ELSE {})
<1> DEFINE r == found.resources[Ids("resources")[at.index]]
           A == Valid(r.dependencies) \ DOMAIN found.resources
           B == Valid(r.requires) \ DOMAIN found.services
           C == Each("missing_dependency", A)
           D == Each("missing_provider", B)
<1>1. issues' = (issues \cup C) \cup D
  BY DEF LinkResource, Each
<1> HIDE DEF A, B
<1>2. /\ About(C, code) = IF "missing_dependency" = code THEN A ELSE {}
      /\ About(D, code) = IF "missing_provider" = code THEN B ELSE {}
  BY AboutEach
<1> HIDE DEF C, D
<1>3. /\ About((issues \cup C) \cup D, code) = About(issues \cup C, code) \cup About(D, code)
      /\ About(issues \cup C, code) = About(issues, code) \cup About(C, code)
  BY AboutJoined
<1> QED
  BY <1>1, <1>2, <1>3 DEF A, B

\* An asset's edges: dependencies that are not there.
LEMMA SaysLinkAsset ==
  ASSUME LinkAsset, NEW code \in Relations
  PROVE  About(issues', code) = About(issues, code)
           \cup (IF code = "missing_asset"
                 THEN Valid(found.assets[Ids("assets")[at.index]].dependencies) \ DOMAIN found.assets
                 ELSE {})
<1> DEFINE A == Valid(found.assets[Ids("assets")[at.index]].dependencies) \ DOMAIN found.assets
           C == Each("missing_asset", A)
<1>1. issues' = issues \cup C
  BY DEF LinkAsset, Each
<1> HIDE DEF A
<1>2. About(C, code) = IF "missing_asset" = code THEN A ELSE {}
  BY AboutEach
<1> HIDE DEF C
<1>3. About(issues', code) = About(issues, code) \cup About(C, code)
  BY <1>1, AboutJoined
<1> QED
  BY <1>2, <1>3 DEF A

\* A pending asset: whether it is optional, the first time.
LEMMA SaysCloseAsset ==
  ASSUME CloseAsset, NEW code \in Relations
  PROVE  LET id == Head(closure.pending)
         IN About(issues', code) = About(issues, code)
              \cup (IF /\ code = "critical_optional_asset" /\ id \notin closure.critical
                       /\ found.assets[id].optional
                    THEN {id} ELSE {})
<1> DEFINE id == Head(closure.pending)
           A == {<<"critical_optional_asset", id>>}
<1>1. issues' = IF id \notin closure.critical /\ found.assets[id].optional
                THEN issues \cup A ELSE issues
  BY DEF CloseAsset, Report
<1>2. About(A, code) = IF "critical_optional_asset" = code THEN {id} ELSE {}
  BY AboutOne
<1> HIDE DEF A, id
<1>3. About(issues \cup A, code) = About(issues, code) \cup About(A, code)
  BY AboutJoined
<1>4. CASE id \notin closure.critical /\ found.assets[id].optional
  BY <1>1, <1>2, <1>3, <1>4 DEF id
<1>5. CASE ~ (id \notin closure.critical /\ found.assets[id].optional)
  BY <1>1, <1>5 DEF id
<1> QED
  BY <1>4, <1>5

\* The capabilities: those required and not available.
LEMMA SaysCheckCapabilities ==
  ASSUME CheckCapabilities, NEW code \in Relations
  PROVE  About(issues', code) = About(issues, code)
           \cup (IF code = "missing_capability"
                 THEN Valid(plan.required) \ Valid(plan.available) ELSE {})
<1> DEFINE A == Valid(plan.required) \ Valid(plan.available)
           B == Each("missing_capability", A)
           C == Report(~ plan.budget_fits, "invalid_recovery_budget", 0)
           N == CheckNames(plan.required, 0) \cup CheckNames(plan.available, 0)
<1>1. issues' = (issues \cup B) \cup (C \cup N)
  BY DEF CheckCapabilities, Each
<1>2. \A x \in C \cup N : x[1] \in {"invalid_names", "duplicate_name", "invalid_recovery_budget"}
  BY DEF Report, CheckNames
<1> HIDE DEF A
<1>3. About(B, code) = IF "missing_capability" = code THEN A ELSE {}
  BY AboutEach
<1> HIDE DEF B, C, N
<1>4. \A x \in C \cup N : x[1] # code
  BY <1>2 DEF Relations
<1>5. About(issues', code) = About(issues \cup B, code)
  BY <1>1, <1>4, AboutOthers
<1>6. About(issues', code) = About(issues, code) \cup About(B, code)
  BY <1>5, AboutJoined
<1> QED
  BY <1>3, <1>6 DEF A

\* A wave of Sort: a cycle, when nothing is ready and something is left.
LEMMA SaysSort ==
  ASSUME NEW kind, NEW next, Sort(kind, next), NEW code \in Relations
  PROVE  About(issues', code) = About(issues, code)
           \cup (IF /\ code = "dependency_cycle" /\ NamesOf(order[kind]) # DOMAIN edges[kind]
                    /\ ~ GoesOn(edges[kind], NamesOf(order[kind]),
                                Ready(edges[kind], NamesOf(order[kind])))
                 THEN {kind} ELSE {})
<1> DEFINE A == {<<"dependency_cycle", kind>>}
<1>1. About(A, code) = IF "dependency_cycle" = code THEN {kind} ELSE {}
  BY AboutOne
<1>2. issues' = IF /\ NamesOf(order[kind]) # DOMAIN edges[kind]
                   /\ ~ GoesOn(edges[kind], NamesOf(order[kind]),
                               Ready(edges[kind], NamesOf(order[kind])))
                THEN issues \cup A ELSE issues
  BY DEF Sort, Report
<1> HIDE DEF A
<1>3. About(issues \cup A, code) = About(issues, code) \cup About(A, code)
  BY AboutJoined
<1>4. CASE /\ NamesOf(order[kind]) # DOMAIN edges[kind]
           /\ ~ GoesOn(edges[kind], NamesOf(order[kind]), Ready(edges[kind], NamesOf(order[kind])))
  BY <1>1, <1>2, <1>3, <1>4
<1>5. CASE ~ (/\ NamesOf(order[kind]) # DOMAIN edges[kind]
              /\ ~ GoesOn(edges[kind], NamesOf(order[kind]), Ready(edges[kind], NamesOf(order[kind]))))
  BY <1>2, <1>5
<1> QED
  BY <1>4, <1>5

-----------------------------------------------------------------------------
(* The closure of the critical assets.                                     *)

\* A walk of any length leads from x to y.
Reaches(V, E, x, y) == \E n \in Nat : \E w \in Paths(V, E, x, n) : w[n] = y

\* A node reaches itself, in no step.
LEMMA ReachesItself ==
  ASSUME NEW V, NEW E, NEW x \in V
  PROVE  Reaches(V, E, x, x)
<1> DEFINE u == [k \in 0 .. 0 |-> x]
<1>1. u \in [0 .. 0 -> V] /\ u[0] = x /\ 1 .. 0 = {}
  OBVIOUS
<1> HIDE DEF u
<1>2. u \in Paths(V, E, x, 0)
  BY <1>1 DEF Paths
<1> QED
  BY <1>1, <1>2 DEF Reaches

\* What a reached node waits for is reached.
LEMMA ReachesOn ==
  ASSUME NEW V, NEW E, NEW x, NEW y, Reaches(V, E, x, y), NEW z \in E[y], z \in V
  PROVE  Reaches(V, E, x, z)
<1>1. PICK n \in Nat : \E w \in Paths(V, E, x, n) : w[n] = y
  BY DEF Reaches
<1>2. PICK w \in Paths(V, E, x, n) : w[n] = y
  BY <1>1
<1> DEFINE u == [k \in 0 .. n + 1 |-> IF k = n + 1 THEN z ELSE w[k]]
<1>3. /\ w \in [0 .. n -> V] /\ w[0] = x
      /\ \A k \in 1 .. n : w[k] \in E[w[k - 1]]
  BY DEF Paths
<1>4. u \in [0 .. n + 1 -> V] /\ u[0] = x /\ u[n + 1] = z
  BY <1>3
<1>5. ASSUME NEW k \in 1 .. n + 1 PROVE u[k] \in E[u[k - 1]]
  <2>1. CASE k = n + 1
    <3>1. u[k] = z /\ u[k - 1] = w[n] /\ k - 1 = n
      BY <2>1
    <3> QED
      BY <1>2, <3>1
  <2>2. CASE k # n + 1
    <3>1. k \in 1 .. n /\ u[k] = w[k] /\ u[k - 1] = w[k - 1]
      BY <2>2
    <3> QED
      BY <1>3, <3>1
  <2> QED
    BY <2>1, <2>2
<1> HIDE DEF u
<1>6. u \in Paths(V, E, x, n + 1) /\ n + 1 \in Nat
  BY <1>4, <1>5 DEF Paths
<1> QED
  BY <1>4, <1>6 DEF Reaches

\* A walk that begins in a closed set stays there.
LEMMA PathStays ==
  ASSUME NEW V, NEW E, NEW C, \A y \in C : E[y] \subseteq C, NEW x \in C, NEW y, Reaches(V, E, x, y)
  PROVE  y \in C
<1>1. PICK n \in Nat : \E w \in Paths(V, E, x, n) : w[n] = y
  BY DEF Reaches
<1>2. PICK w \in Paths(V, E, x, n) : w[n] = y
  BY <1>1
<1> DEFINE S == {k \in Nat : k <= n => w[k] \in C}
<1>3. /\ w[0] = x /\ \A k \in 1 .. n : w[k] \in E[w[k - 1]]
  BY DEF Paths
<1>4. 0 \in S
  BY <1>3
<1>5. ASSUME NEW k \in Nat, k \in S PROVE k + 1 \in S
  <2> SUFFICES ASSUME k + 1 <= n PROVE w[k + 1] \in C
    OBVIOUS
  <2>1. w[k] \in C /\ k + 1 \in 1 .. n /\ (k + 1) - 1 = k
    BY <1>5
  <2>2. w[k + 1] \in E[w[k]]
    BY <1>3, <2>1
  <2> QED
    BY <2>1, <2>2
<1> HIDE DEF S
<1>6. Nat \subseteq S
  BY <1>4, <1>5, EveryNumber
<1>7. n \in S
  BY <1>6
<1> QED
  BY <1>2, <1>7 DEF S

\* A walk that meets a node twice has a shorter one to the same end.
LEMMA PathSpliced ==
  ASSUME NEW V, NEW E, NEW x, NEW n \in Nat, NEW w \in Paths(V, E, x, n),
         NEW a \in 0 .. n, NEW b \in 0 .. n, a < b, w[a] = w[b]
  PROVE  \E u \in Paths(V, E, x, n - (b - a)) : u[n - (b - a)] = w[n]
<1> DEFINE d == b - a
           u == [k \in 0 .. n - d |-> IF k <= a THEN w[k] ELSE w[k + d]]
<1>1. /\ w \in [0 .. n -> V] /\ w[0] = x
      /\ \A k \in 1 .. n : w[k] \in E[w[k - 1]]
  BY DEF Paths
<1>2. d \in Nat \ {0} /\ n - d \in Nat /\ a <= n - d /\ a + d = b /\ a \in Nat
      /\ (n - d) + d = n
  OBVIOUS
<1> HIDE DEF d
<1>3. u \in [0 .. n - d -> V] /\ u[0] = x
  BY <1>1, <1>2
<1>4. u[n - d] = w[n]
  <2>1. CASE n - d = a
    <3>1. n = b /\ u[n - d] = w[a]
      BY <1>2, <2>1
    <3> QED
      BY <3>1
  <2>2. CASE n - d # a
    <3>1. ~ (n - d <= a)
      BY <1>2, <2>2
    <3> QED
      BY <1>2, <3>1
  <2> QED
    BY <2>1, <2>2
<1>5. ASSUME NEW k \in 1 .. n - d PROVE u[k] \in E[u[k - 1]]
  <2>1. CASE k <= a
    <3>1. u[k] = w[k] /\ u[k - 1] = w[k - 1] /\ k \in 1 .. n
      BY <1>2, <2>1
    <3> QED
      BY <1>1, <3>1
  <2>2. CASE k = a + 1
    <3>1. u[k] = w[b + 1] /\ u[k - 1] = w[a] /\ b + 1 \in 1 .. n /\ (b + 1) - 1 = b
      BY <1>2, <2>2
    <3> QED
      BY <1>1, <3>1
  <2>3. CASE k > a + 1
    <3>1. u[k] = w[k + d] /\ u[k - 1] = w[(k - 1) + d]
          /\ k + d \in 1 .. n /\ (k + d) - 1 = (k - 1) + d
      BY <1>2, <2>3
    <3> QED
      BY <1>1, <3>1
  <2> QED
    BY <1>2, <2>1, <2>2, <2>3
<1> HIDE DEF u
<1>6. u \in Paths(V, E, x, n - d)
  BY <1>3, <1>5 DEF Paths
<1> QED
  BY <1>4, <1>6 DEF d

\* What is reached is reached in no more steps than there are nodes.
LEMMA ReachesSoon ==
  ASSUME NEW V, NEW E, IsFiniteSet(V), NEW x, NEW y, Reaches(V, E, x, y)
  PROVE  \E n \in 0 .. Cardinality(V) : \E w \in Paths(V, E, x, n) : w[n] = y
<1> DEFINE N == Cardinality(V)
           Far(n) == \E w \in Paths(V, E, x, n) : w[n] = y
           S == {n \in Nat : \A m \in 0 .. n : Far(m) => \E k \in 0 .. N : Far(k)}
<1>1. N \in Nat
  BY FS_CardinalityType
<1> HIDE DEF N
<1>2. 0 \in S
  BY <1>1
<1>3. ASSUME NEW n \in Nat, n \in S PROVE n + 1 \in S
  <2> SUFFICES ASSUME NEW m \in 0 .. n + 1, Far(m) PROVE \E k \in 0 .. N : Far(k)
    OBVIOUS
  <2>1. CASE m <= n
    <3>1. m \in 0 .. n
      BY <2>1
    <3> QED
      BY <1>3, <3>1
  <2>2. CASE m <= N
    <3>1. m \in 0 .. N
      BY <1>1, <2>2
    <3> QED
      BY <3>1
  <2>3. CASE ~ (m <= n) /\ ~ (m <= N)
    <3>1. PICK w \in Paths(V, E, x, m) : w[m] = y
      OBVIOUS
    <3>2. w \in [0 .. m -> V]
      BY DEF Paths
    <3>3. IsFiniteSet(0 .. N) /\ Cardinality(0 .. N) = N + 1
      BY <1>1, FS_Interval
    <3>4. 0 .. N \subseteq 0 .. m
      BY <1>1, <2>3
    <3> DEFINE u == [k \in 0 .. N |-> w[k]]
    <3>5. u \in [0 .. N -> V]
      BY <3>2, <3>4
    <3>6. PICK a, b \in 0 .. N : a # b /\ u[a] = u[b]
      <4>1. Cardinality(V) < Cardinality(0 .. N)
        BY <1>1, <3>3 DEF N
      <4> HIDE DEF u
      <4> QED
        BY <3>3, <3>5, <4>1, FS_PigeonHole
    <3>7. PICK i, j \in 0 .. N : i < j /\ w[i] = w[j]
      BY <1>1, <3>6
    <3>8. i \in 0 .. m /\ j \in 0 .. m /\ m \in Nat
      BY <3>4
    <3>9. Far(m - (j - i))
      BY <3>1, <3>7, <3>8, PathSpliced
    <3>10. m - (j - i) \in 0 .. n
      BY <1>1, <3>7, <3>8
    <3> HIDE DEF Far
    <3> QED
      BY <1>3, <3>9, <3>10
  <2> QED
    BY <2>1, <2>2, <2>3
<1> HIDE DEF S, Far
<1>4. Nat \subseteq S
  BY <1>2, <1>3, EveryNumber
<1>5. PICK n \in Nat : Far(n)
  BY DEF Reaches, Far
<1>6. n \in S /\ n \in 0 .. n
  BY <1>4
<1>7. \E k \in 0 .. N : Far(k)
  BY <1>5, <1>6 DEF S
<1> QED
  BY <1>7 DEF N, Far

-----------------------------------------------------------------------------
(* What the loops have said so far of a plan.                              *)

\* Of any plan: a definition at fault is reported.  Of a regular one, as far as the
\* loops are: what clashes and what is missing, each under its code.
RegularPlan == Regular(plan.resources) /\ Regular(plan.assets)

FaultsSaid ==
  \A kind \in Kinds : Faulty(plan[kind], Passed(at, kind, Len(plan[kind]))) => issues # {}

ResourcesSaid ==
  LET n == Passed(at, "resources", Len(plan.resources))
  IN /\ DOMAIN found.mutators = BroughtUpTo(plan.resources, "mutates", n)
     /\ About(issues, "provider_conflict") = Clashes(plan.resources, "provides", n)
     /\ About(issues, "mutator_conflict") = Clashes(plan.resources, "mutates", n)

ResourceEdgesSaid ==
  LET list == plan.resources
      n == Passed(at, "resource_edges", Cardinality(Present(list)))
  IN /\ About(issues, "missing_dependency") = Missing(list, "dependencies", Present(list), n)
     /\ About(issues, "missing_provider")
          = Missing(list, "requires", BroughtUpTo(list, "provides", Len(list)), n)

AssetEdgesSaid ==
  LET list == plan.assets
      n == Passed(at, "asset_edges", Cardinality(Present(list)))
  IN About(issues, "missing_asset") = Missing(list, "dependencies", Present(list), n)

\* The assets that are critical and optional themselves, or found to be needed.
OptionalUpTo(list, n) == {list[i].id : i \in {k \in 1 .. n : list[k].critical /\ list[k].optional}}
Critical == {id \in Present(plan.assets) : With(plan.assets, id).critical}
OptionalSaid ==
  About(issues, "critical_optional_asset")
    = OptionalUpTo(plan.assets, Passed(at, "assets", Len(plan.assets)))
        \cup {id \in closure.critical : With(plan.assets, id).optional}

\* What is critical already or is pending holds the critical assets, all that
\* those already critical wait for, and only what a critical asset reaches.
ClosureIs ==
  LET V == Present(plan.assets)
      E == edges.assets
      all == closure.critical \cup NamesOf(closure.pending)
  IN /\ DOMAIN closure = {"critical", "pending"}
     /\ Turn[at.loop] < Turn["closure"] => closure.critical = {} /\ closure.pending = << >>
     /\ Turn[at.loop] >= Turn["closure"] =>
          /\ closure.pending \in Seq(V) /\ closure.critical \subseteq V
          /\ Critical \subseteq all /\ \A id \in closure.critical : E[id] \subseteq all
          /\ \A id \in all : \E root \in Critical : Reaches(V, E, root, id)
     /\ Turn[at.loop] > Turn["closure"] => closure.pending = << >>

SortSaid ==
  /\ About(issues, "missing_capability")
       = IF Turn[at.loop] > Turn["closure"] THEN Valid(plan.required) \ Valid(plan.available) ELSE {}
  /\ About(issues, "dependency_cycle")
       = {kind \in Kinds : Turn[at.loop] > Turn[SortLoop[kind]] /\ NamesOf(order[kind]) # DOMAIN edges[kind]}

\* Unless it is refused for its size, what is said of a plan is what its first
\* definitions deserve.
DiagnosticsInvariant ==
  \/ at.loop = "done" /\ Limited
  \/ /\ FaultsSaid
     /\ RegularPlan => /\ ResourcesSaid /\ ResourceEdgesSaid /\ AssetEdgesSaid
                       /\ OptionalSaid /\ ClosureIs /\ SortSaid

\* What a step that is not about them leaves as it was said.
LEMMA ResourcesKept ==
  ASSUME ResourcesSaid, UNCHANGED <<plan, found.mutators, Passed(at, "resources", Len(plan.resources))>>,
         \A code \in {"provider_conflict", "mutator_conflict"} : About(issues', code) = About(issues, code)
  PROVE  ResourcesSaid'
<1> QED
  BY DEF ResourcesSaid

\* The same of the resources' edges.
LEMMA ResourceEdgesKept ==
  ASSUME ResourceEdgesSaid,
         UNCHANGED <<plan, Passed(at, "resource_edges", Cardinality(Present(plan.resources)))>>,
         \A code \in {"missing_dependency", "missing_provider"} : About(issues', code) = About(issues, code)
  PROVE  ResourceEdgesSaid'
<1> QED
  BY DEF ResourceEdgesSaid

\* The same of the assets' edges.
LEMMA AssetEdgesKept ==
  ASSUME AssetEdgesSaid,
         UNCHANGED <<plan, Passed(at, "asset_edges", Cardinality(Present(plan.assets)))>>,
         About(issues', "missing_asset") = About(issues, "missing_asset")
  PROVE  AssetEdgesSaid'
<1> QED
  BY DEF AssetEdgesSaid

\* The same of the optional assets.
LEMMA OptionalKept ==
  ASSUME OptionalSaid, UNCHANGED <<plan, closure.critical, Passed(at, "assets", Len(plan.assets))>>,
         About(issues', "critical_optional_asset") = About(issues, "critical_optional_asset")
  PROVE  OptionalSaid'
<1> QED
  BY DEF OptionalSaid

\* The same of the closure.
LEMMA ClosureKept ==
  ASSUME ClosureIs, UNCHANGED <<plan, closure>>,
         (Turn[at.loop] < Turn["closure"])' <=> Turn[at.loop] < Turn["closure"],
         (Turn[at.loop] >= Turn["closure"])' <=> Turn[at.loop] >= Turn["closure"],
         (Turn[at.loop] > Turn["closure"])' <=> Turn[at.loop] > Turn["closure"],
         Turn[at.loop] >= Turn["closure"] => UNCHANGED edges.assets
  PROVE  ClosureIs'
<1>1. Critical' = Critical
  BY DEF Critical
<1> QED
  BY <1>1 DEF ClosureIs

\* The same of the capabilities and the cycles.
LEMMA SortKept ==
  ASSUME SortSaid, UNCHANGED plan,
         (Turn[at.loop] > Turn["closure"])' <=> Turn[at.loop] > Turn["closure"],
         \A kind \in Kinds :
           /\ (Turn[at.loop] > Turn[SortLoop[kind]])' <=> Turn[at.loop] > Turn[SortLoop[kind]]
           /\ Turn[at.loop] > Turn[SortLoop[kind]] => UNCHANGED <<order[kind], edges[kind]>>,
         \A code \in {"missing_capability", "dependency_cycle"} : About(issues', code) = About(issues, code)
  PROVE  SortSaid'
<1>1. {kind \in Kinds : Turn[at.loop] > Turn[SortLoop[kind]] /\ NamesOf(order[kind]) # DOMAIN edges[kind]}'
        = {kind \in Kinds : Turn[at.loop] > Turn[SortLoop[kind]] /\ NamesOf(order[kind]) # DOMAIN edges[kind]}
  OBVIOUS
<1> QED
  BY <1>1 DEF SortSaid

\* The same of the definitions at fault: diagnostics are only added.
LEMMA FaultsKept ==
  ASSUME FaultsSaid, UNCHANGED plan, issues \subseteq issues',
         \A kind \in Kinds : UNCHANGED Passed(at, kind, Len(plan[kind]))
  PROVE  FaultsSaid'
<1> QED
  BY DEF FaultsSaid

\* Before the first loop of Validate nothing is said (WorldPlanValidator.cs).
THEOREM DiagnosticsInit == PlanInit => DiagnosticsInvariant
<1> SUFFICES ASSUME PlanInit PROVE DiagnosticsInvariant
  OBVIOUS
<1>1. at.loop = "header" /\ issues = {} /\ closure = [critical |-> {}, pending |-> << >>]
      /\ DOMAIN found.mutators = {}
  BY DEF PlanInit
<1>2. \A code : About(issues, code) = {}
  BY <1>1 DEF About
<1>3. \A n : /\ Passed(at, "resources", n) = 0 /\ Passed(at, "resource_edges", n) = 0
             /\ Passed(at, "assets", n) = 0 /\ Passed(at, "asset_edges", n) = 0
  BY <1>1, PassedIs
<1>4. FaultsSaid
  BY <1>3 DEF FaultsSaid, Faulty, Kinds
<1>5. ResourcesSaid
  BY <1>1, <1>2, <1>3 DEF ResourcesSaid, BroughtUpTo, Clashes
<1>6. ResourceEdgesSaid /\ AssetEdgesSaid
  BY <1>2, <1>3 DEF ResourceEdgesSaid, AssetEdgesSaid, Missing
<1>7. OptionalSaid
  BY <1>1, <1>2, <1>3 DEF OptionalSaid, OptionalUpTo
<1>8. ClosureIs
  BY <1>1, Turns DEF ClosureIs
<1>9. SortSaid
  BY <1>1, <1>2, Turns DEF SortSaid, Kinds
<1> QED
  BY <1>4, <1>5, <1>6, <1>7, <1>8, <1>9 DEF DiagnosticsInvariant

\* One definition more is at fault when it has no identifier or a known one.
LEMMA FaultyGrows ==
  ASSUME NEW list, NEW n \in Nat, Faulty(list, n + 1)
  PROVE  \/ Faulty(list, n) \/ ~ Identifier(list[n + 1].id)
         \/ \E j \in 1 .. n : list[j].id = list[n + 1].id
<1>1. PICK i \in 1 .. n + 1 : ~ Identifier(list[i].id) \/ \E j \in 1 .. i - 1 : list[j].id = list[i].id
  BY DEF Faulty
<1>2. CASE i = n + 1
  <2>1. i - 1 = n
    BY <1>2
  <2> QED
    BY <1>1, <1>2, <2>1
<1>3. CASE i # n + 1
  <2>1. i \in 1 .. n
    BY <1>3
  <2> QED
    BY <1>1, <2>1 DEF Faulty
<1> QED
  BY <1>2, <1>3

\* One resource more brings its names, and clashes over some.
LEMMA BroughtGrows ==
  ASSUME NEW list, NEW field, NEW n \in Nat
  PROVE  /\ BroughtUpTo(list, field, n + 1) = BroughtUpTo(list, field, n) \cup Valid(list[n + 1][field])
         /\ Clashes(list, field, n + 1) = Clashes(list, field, n) \cup Clash(list, field, n + 1)
<1>1. 1 .. n + 1 = (1 .. n) \cup {n + 1}
  OBVIOUS
<1> QED
  BY <1>1 DEF BroughtUpTo, Clashes

\* A step that takes one definition more and reports its fault.
LEMMA FaultsReported ==
  ASSUME PlanInvariant, DiagnosticsInvariant, NEW kind \in Kinds, at.loop = kind,
         NEW n \in Nat, at.index = n + 1, n + 1 <= Len(plan[kind]), UNCHANGED plan,
         \A m : \A other \in Kinds :
           Passed(at', other, m) = IF other = kind THEN n + 1 ELSE Passed(at, other, m),
         issues \subseteq issues',
         ~ Identifier(plan[kind][n + 1].id) => issues' # {},
         Identifier(plan[kind][n + 1].id) /\ plan[kind][n + 1].id \in DOMAIN found[kind] => issues' # {}
  PROVE  FaultsSaid'
<1> DEFINE list == plan[kind]
<1>1. at.loop # "done" /\ FaultsSaid /\ KindTaken(kind)
  BY DEF PlanInvariant, DiagnosticsInvariant, Kinds
<1>2. Passed(at, kind, Len(list)) = n
  BY PassedIs DEF Kinds
<1>3. DOMAIN found[kind] = NamedUpTo(list, n)
  BY <1>1, <1>2 DEF KindTaken, DictionaryUpTo
<1> SUFFICES ASSUME NEW other \in Kinds, Faulty(plan[other], Passed(at', other, Len(plan[other])))
             PROVE  issues' # {}
  BY DEF FaultsSaid
<1>4. CASE other # kind
  <2>1. Passed(at', other, Len(plan[other])) = Passed(at, other, Len(plan[other]))
    BY <1>4
  <2> QED
    BY <1>1, <2>1 DEF FaultsSaid
<1>5. CASE other = kind
  <2>1. Faulty(list, n + 1)
    BY <1>5
  <2>2. CASE Faulty(list, n)
    BY <1>1, <1>2, <2>2 DEF FaultsSaid
  <2>3. CASE ~ Identifier(list[n + 1].id)
    BY <2>3
  <2>4. CASE Identifier(list[n + 1].id) /\ \E j \in 1 .. n : list[j].id = list[n + 1].id
    <3>1. list[n + 1].id \in NamedUpTo(list, n)
      BY <2>4 DEF NamedUpTo
    <3> QED
      BY <1>3, <2>4, <3>1
  <2> HIDE DEF list
  <2> QED
    BY <2>1, <2>2, <2>3, <2>4, FaultyGrows
<1> QED
  BY <1>4, <1>5

\* The checks before the loops say nothing of a relation.
LEMMA SaidHeader ==
  ASSUME PlanInvariant, DiagnosticsInvariant, Header
  PROVE  DiagnosticsInvariant'
<1>1. PlanTyped /\ plan' = plan /\ at.loop = "header" /\ UNCHANGED <<found, edges, closure, order>>
  BY DEF PlanInvariant, Header
<1>2. CASE issues' = {<<"collection_limit", 0>>} /\ at' = [at EXCEPT !.loop = "done"]
  <2>1. at'.loop = "done"
    BY <1>1, <1>2 DEF PlanTyped
  <2>2. Limited'
    BY <1>2 DEF Limited
  <2> QED
    BY <2>1, <2>2 DEF DiagnosticsInvariant
<1>3. CASE at' = [at EXCEPT !.loop = "resources"]
  <2>1. at'.loop = "resources" /\ at'.index = 1
    BY <1>1, <1>3 DEF PlanTyped
  <2>2. \A m : /\ Passed(at', "resources", m) = 0 /\ Passed(at', "resource_edges", m) = 0
               /\ Passed(at', "assets", m) = 0 /\ Passed(at', "asset_edges", m) = 0
               /\ Passed(at, "resources", m) = 0 /\ Passed(at, "resource_edges", m) = 0
               /\ Passed(at, "assets", m) = 0 /\ Passed(at, "asset_edges", m) = 0
    BY <1>1, <2>1, PassedIs
  <2>3. FaultsSaid'
    BY <2>2 DEF FaultsSaid, Faulty, Kinds
  <2> SUFFICES ASSUME RegularPlan
               PROVE  (/\ ResourcesSaid /\ ResourceEdgesSaid /\ AssetEdgesSaid
                       /\ OptionalSaid /\ ClosureIs /\ SortSaid)'
    BY <1>1, <2>3 DEF DiagnosticsInvariant, RegularPlan
  <2>4. ResourcesSaid /\ OptionalSaid /\ ClosureIs
    BY <1>1 DEF DiagnosticsInvariant
  <2>5. \A code \in Relations : About(issues', code) = {}
    BY <1>1, <2>1, SaysHeader
  <2>6. ResourcesSaid'
    BY <1>1, <2>2, <2>4, <2>5 DEF ResourcesSaid, Clashes, Relations
  <2>7. ResourceEdgesSaid' /\ AssetEdgesSaid'
    BY <2>2, <2>5 DEF ResourceEdgesSaid, AssetEdgesSaid, Missing, Relations
  <2>8. ClosureIs'
    BY <1>1, <2>1, <2>4, Turns, ClosureKept
  <2>9. OptionalSaid'
    <3>1. closure.critical' = {}
      BY <1>1, <2>4, Turns DEF ClosureIs
    <3> QED
      BY <2>2, <2>5, <3>1 DEF OptionalSaid, OptionalUpTo, Relations
  <2>10. SortSaid'
    BY <2>1, <2>5, Turns DEF SortSaid, Kinds, Relations
  <2> QED
    BY <2>6, <2>7, <2>8, <2>9, <2>10
<1> QED
  BY <1>2, <1>3 DEF Header

\* An iteration over the resources reports the clashes of one.
LEMMA SaidTakeResource ==
  ASSUME PlanInvariant, DiagnosticsInvariant, TakeResource
  PROVE  DiagnosticsInvariant'
<1> DEFINE list == plan["resources"]
           n == at.index - 1
           r == list[at.index]
<1>1. PlanTyped /\ plan' = plan /\ UNCHANGED <<edges, closure, order>>
  BY DEF PlanInvariant, TakeResource, Iterate
<1>2. /\ at.loop = "resources" /\ at.index <= Len(list) /\ at.index \in Nat \ {0}
      /\ at'.loop = "resources" /\ at'.index = at.index + 1
  BY <1>1 DEF TakeResource, Iterate, PlanTyped
<1>3. n \in Nat /\ n + 1 = at.index /\ n + 1 <= Len(list) /\ at'.index - 1 = n + 1
      /\ Len(list) \in Nat /\ DOMAIN list = 1 .. Len(list)
  BY <1>1, <1>2, ListIs DEF Kinds
<1>4. \A m : /\ Passed(at, "resources", m) = n /\ Passed(at', "resources", m) = n + 1
             /\ Passed(at', "resource_edges", m) = Passed(at, "resource_edges", m)
             /\ Passed(at', "assets", m) = Passed(at, "assets", m)
             /\ Passed(at', "asset_edges", m) = Passed(at, "asset_edges", m)
  BY <1>2, <1>3, PassedIs
<1> HIDE DEF n
<1>5. FaultsSaid'
  <2>1. issues \subseteq issues'
    BY DEF TakeResource
  <2>2. ~ Identifier(r.id) => issues' # {}
    BY DEF TakeResource
  <2>3. Identifier(r.id) /\ r.id \in DOMAIN found["resources"] => issues' # {}
    <3> SUFFICES ASSUME Identifier(r.id), r.id \in DOMAIN found["resources"] PROVE issues' # {}
      OBVIOUS
    <3>1. Report(r.id \in DOMAIN found.resources, "duplicate_resource", r.id) \subseteq issues'
      BY DEF TakeResource
    <3> QED
      BY <3>1 DEF Report
  <2> HIDE DEF r
  <2>4. \A m : \A other \in Kinds :
          Passed(at', other, m) = IF other = "resources" THEN n + 1 ELSE Passed(at, other, m)
    BY <1>4 DEF Kinds
  <2>5. "resources" \in Kinds /\ r = plan["resources"][n + 1]
    BY <1>3 DEF Kinds, r
  <2> QED
    BY <1>1, <1>2, <1>3, <2>1, <2>2, <2>3, <2>4, <2>5, FaultsReported
<1> SUFFICES ASSUME RegularPlan
             PROVE  (/\ ResourcesSaid /\ ResourceEdgesSaid /\ AssetEdgesSaid
                     /\ OptionalSaid /\ ClosureIs /\ SortSaid)'
  BY <1>1, <1>5 DEF DiagnosticsInvariant, RegularPlan
<1>6. ResourcesSaid /\ ResourceEdgesSaid /\ AssetEdgesSaid /\ OptionalSaid /\ ClosureIs /\ SortSaid
  BY <1>2 DEF DiagnosticsInvariant
<1>7. Regular(list) /\ Identifier(r.id)
  BY <1>3, RegularIs DEF RegularPlan
<1>8. \A code \in Relations : About(issues', code) = About(issues, code)
        \cup About(Conflicts(found.services, r.provides, "provider_conflict"), code)
        \cup About(Conflicts(found.mutators, r.mutates, "mutator_conflict"), code)
  BY <1>7, SaysTakeResource
<1>9. \A code \in Relations \ {"provider_conflict", "mutator_conflict"} :
        About(issues', code) = About(issues, code)
  <2> SUFFICES ASSUME NEW code \in Relations \ {"provider_conflict", "mutator_conflict"}
               PROVE  About(issues', code) = About(issues, code)
    OBVIOUS
  <2>1. About(Conflicts(found.services, r.provides, "provider_conflict"), code) = {}
    BY AboutConflicts
  <2>2. About(Conflicts(found.mutators, r.mutates, "mutator_conflict"), code) = {}
    BY AboutConflicts
  <2> QED
    BY <1>8, <2>1, <2>2
<1>10. ResourcesSaid'
  <2>1. DOMAIN found.services = BroughtUpTo(list, "provides", n)
        /\ DOMAIN found.mutators = BroughtUpTo(list, "mutates", n)
    <3>1. ServicesUpTo(found.services, list, n)
      BY <1>2, <1>4, <1>7 DEF PlanInvariant, ServicesTaken
    <3> QED
      BY <1>4, <1>6, <3>1 DEF ServicesUpTo, BroughtUpTo, ResourcesSaid
  <2>2. About(Conflicts(found.services, r.provides, "provider_conflict"), "provider_conflict")
          = Clash(list, "provides", n + 1)
    <3>1. r.provides = list[n + 1]["provides"] /\ (n + 1) - 1 = n
      BY <1>3
    <3> QED
      BY <2>1, <3>1, AboutConflicts DEF Clash
  <2>3. About(Conflicts(found.mutators, r.mutates, "mutator_conflict"), "mutator_conflict")
          = Clash(list, "mutates", n + 1)
    <3>1. r.mutates = list[n + 1]["mutates"] /\ (n + 1) - 1 = n
      BY <1>3
    <3> QED
      BY <2>1, <3>1, AboutConflicts DEF Clash
  <2>4. /\ About(Conflicts(found.services, r.provides, "provider_conflict"), "mutator_conflict") = {}
        /\ About(Conflicts(found.mutators, r.mutates, "mutator_conflict"), "provider_conflict") = {}
    BY AboutConflicts
  <2>5. DOMAIN found'.mutators = BroughtUpTo(list, "mutates", n + 1)
    <3>1. found'.mutators = Added(found.mutators, Valid(r.mutates), r.id)
      BY <1>1, <1>7 DEF TakeResource, PlanTyped
    <3>2. DOMAIN found'.mutators = DOMAIN found.mutators \cup Valid(list[n + 1]["mutates"])
      BY <1>3, <3>1 DEF Added
    <3>3. BroughtUpTo(list, "mutates", n + 1)
            = BroughtUpTo(list, "mutates", n) \cup Valid(list[n + 1]["mutates"])
      BY <1>3, BroughtGrows
    <3> QED
      BY <2>1, <3>2, <3>3
  <2>6. /\ About(issues, "provider_conflict") = Clashes(list, "provides", n)
        /\ About(issues, "mutator_conflict") = Clashes(list, "mutates", n)
    BY <1>4, <1>6 DEF ResourcesSaid
  <2>7. /\ About(issues', "provider_conflict") = Clashes(list, "provides", n + 1)
        /\ About(issues', "mutator_conflict") = Clashes(list, "mutates", n + 1)
    <3>1. \A code \in {"provider_conflict", "mutator_conflict"} : code \in Relations
      BY DEF Relations
    <3>2. /\ Clashes(list, "provides", n + 1) = Clashes(list, "provides", n) \cup Clash(list, "provides", n + 1)
          /\ Clashes(list, "mutates", n + 1) = Clashes(list, "mutates", n) \cup Clash(list, "mutates", n + 1)
      BY <1>3, BroughtGrows
    <3> HIDE DEF list, r
    <3> QED
      BY <1>8, <2>2, <2>3, <2>4, <2>6, <3>1, <3>2
  <2>8. Passed(at, "resources", Len(plan.resources))' = n + 1
    BY <1>1, <1>4
  <2> QED
    BY <1>1, <2>5, <2>7, <2>8 DEF ResourcesSaid
<1>11. ResourceEdgesSaid' /\ AssetEdgesSaid'
  BY <1>1, <1>4, <1>6, <1>9, ResourceEdgesKept, AssetEdgesKept DEF Relations
<1>12. OptionalSaid'
  BY <1>1, <1>4, <1>6, <1>9, OptionalKept DEF Relations
<1>13. ClosureIs'
  BY <1>1, <1>2, <1>6, ClosureKept
<1>14. SortSaid'
  BY <1>1, <1>2, <1>6, <1>9, SortKept DEF Relations
<1> QED
  BY <1>10, <1>11, <1>12, <1>13, <1>14

\* An iteration over the assets reports whether one is critical and optional.
LEMMA SaidTakeAsset ==
  ASSUME PlanInvariant, DiagnosticsInvariant, TakeAsset
  PROVE  DiagnosticsInvariant'
<1> DEFINE list == plan["assets"]
           n == at.index - 1
           r == list[at.index]
<1>1. PlanTyped /\ plan' = plan /\ UNCHANGED <<edges, closure, order>>
      /\ found'.mutators = found.mutators
  BY DEF PlanInvariant, TakeAsset, Iterate, PlanTyped
<1>2. /\ at.loop = "assets" /\ at.index <= Len(list) /\ at.index \in Nat \ {0}
      /\ at'.loop = "assets" /\ at'.index = at.index + 1
  BY <1>1 DEF TakeAsset, Iterate, PlanTyped
<1>3. n \in Nat /\ n + 1 = at.index /\ n + 1 <= Len(list) /\ at'.index - 1 = n + 1
      /\ Len(list) \in Nat /\ DOMAIN list = 1 .. Len(list)
  BY <1>1, <1>2, ListIs DEF Kinds
<1>4. \A m : /\ Passed(at, "assets", m) = n /\ Passed(at', "assets", m) = n + 1
             /\ Passed(at', "resources", m) = Passed(at, "resources", m)
             /\ Passed(at', "resource_edges", m) = Passed(at, "resource_edges", m)
             /\ Passed(at', "asset_edges", m) = Passed(at, "asset_edges", m)
  BY <1>2, <1>3, PassedIs
<1> HIDE DEF n
<1>5. FaultsSaid'
  <2>1. issues \subseteq issues'
    BY DEF TakeAsset
  <2>2. ~ Identifier(r.id) => issues' # {}
    BY DEF TakeAsset
  <2>3. Identifier(r.id) /\ r.id \in DOMAIN found["assets"] => issues' # {}
    <3> SUFFICES ASSUME Identifier(r.id), r.id \in DOMAIN found["assets"] PROVE issues' # {}
      OBVIOUS
    <3>1. Report(r.id \in DOMAIN found.assets, "duplicate_asset", r.id) \subseteq issues'
      BY DEF TakeAsset
    <3> QED
      BY <3>1 DEF Report
  <2> HIDE DEF r
  <2>4. \A m : \A other \in Kinds :
          Passed(at', other, m) = IF other = "assets" THEN n + 1 ELSE Passed(at, other, m)
    BY <1>4 DEF Kinds
  <2>5. "assets" \in Kinds /\ r = plan["assets"][n + 1]
    BY <1>3 DEF Kinds, r
  <2> QED
    BY <1>1, <1>2, <1>3, <2>1, <2>2, <2>3, <2>4, <2>5, FaultsReported
<1> SUFFICES ASSUME RegularPlan
             PROVE  (/\ ResourcesSaid /\ ResourceEdgesSaid /\ AssetEdgesSaid
                     /\ OptionalSaid /\ ClosureIs /\ SortSaid)'
  BY <1>1, <1>5 DEF DiagnosticsInvariant, RegularPlan
<1>6. ResourcesSaid /\ ResourceEdgesSaid /\ AssetEdgesSaid /\ OptionalSaid /\ ClosureIs /\ SortSaid
  BY <1>2 DEF DiagnosticsInvariant
<1>7. Regular(list) /\ Identifier(r.id)
  BY <1>3, RegularIs DEF RegularPlan
<1>8. \A code \in Relations : About(issues', code) = About(issues, code)
           \cup (IF code = "critical_optional_asset" /\ r.critical /\ r.optional THEN {r.id} ELSE {})
  BY <1>7, SaysTakeAsset
<1>9. \A code \in Relations \ {"critical_optional_asset"} : About(issues', code) = About(issues, code)
  BY <1>8
<1>10. ResourcesSaid' /\ ResourceEdgesSaid' /\ AssetEdgesSaid'
  BY <1>1, <1>4, <1>6, <1>9, ResourcesKept, ResourceEdgesKept, AssetEdgesKept DEF Relations
<1>11. OptionalSaid'
  <2>1. OptionalUpTo(list, n + 1) = OptionalUpTo(list, n)
          \cup (IF r.critical /\ r.optional THEN {r.id} ELSE {})
    <3>1. 1 .. n + 1 = (1 .. n) \cup {n + 1} /\ r = list[n + 1]
      BY <1>3
    <3> HIDE DEF list, r
    <3>2. CASE r.critical /\ r.optional
      BY <3>1, <3>2 DEF OptionalUpTo
    <3>3. CASE ~ (r.critical /\ r.optional)
      BY <3>1, <3>3 DEF OptionalUpTo
    <3> QED
      BY <3>2, <3>3
  <2>2. Passed(at, "assets", Len(plan.assets))' = n + 1 /\ closure.critical' = closure.critical
    BY <1>1, <1>4
  <2>3. About(issues, "critical_optional_asset") = OptionalUpTo(list, n)
          \cup {id \in closure.critical : With(list, id).optional}
    BY <1>4, <1>6 DEF OptionalSaid
  <2>4. About(issues', "critical_optional_asset") = About(issues, "critical_optional_asset")
          \cup (IF r.critical /\ r.optional THEN {r.id} ELSE {})
    BY <1>8 DEF Relations
  <2> HIDE DEF r
  <2>5. About(issues', "critical_optional_asset") = OptionalUpTo(list, n + 1)
          \cup {id \in closure.critical : With(list, id).optional}
    BY <2>1, <2>3, <2>4
  <2> QED
    BY <1>1, <2>2, <2>5 DEF OptionalSaid
<1>12. ClosureIs'
  BY <1>1, <1>2, <1>6, ClosureKept
<1>13. SortSaid'
  BY <1>1, <1>2, <1>6, <1>9, SortKept DEF Relations
<1> QED
  BY <1>10, <1>11, <1>12, <1>13

\* One definition more misses its own names.
LEMMA MissingGrows ==
  ASSUME NEW list, NEW field, NEW known, NEW n \in Nat
  PROVE  Missing(list, field, known, n + 1) = Missing(list, field, known, n)
           \cup (Valid(With(list, Ascending(Present(list))[n + 1])[field]) \ known)
<1>1. 1 .. n + 1 = (1 .. n) \cup {n + 1}
  OBVIOUS
<1> QED
  BY <1>1 DEF Missing

\* An iteration of the loop that links a kind, as both kinds share it.
LEMMA LinkIs ==
  ASSUME PlanInvariant, DiagnosticsInvariant, NEW kind \in Kinds, RegularPlan,
         Iterate(EdgeLoop[kind], Cardinality(DOMAIN found[kind]))
  PROVE  \E n \in Nat :
           /\ Passed(at, EdgeLoop[kind], Cardinality(Present(plan[kind]))) = n
           /\ Passed(at', EdgeLoop[kind], Cardinality(Present(plan[kind]))) = n + 1
           /\ \A k \in Kinds : \A m : /\ Passed(at', k, m) = Passed(at, k, m)
                 /\ k # kind => Passed(at', EdgeLoop[k], m) = Passed(at, EdgeLoop[k], m)
           /\ at'.loop = at.loop /\ at.loop = EdgeLoop[kind]
           /\ DOMAIN found[kind] = Present(plan[kind])
           /\ Ids(kind)[at.index] = Ascending(Present(plan[kind]))[n + 1]
           /\ found[kind][Ids(kind)[at.index]]
                = With(plan[kind], Ascending(Present(plan[kind]))[n + 1])
<1>1. PlanTyped /\ at.index \in Nat \ {0} /\ at.loop = EdgeLoop[kind] /\ Regular(plan[kind])
      /\ at'.loop = at.loop /\ at'.index = at.index + 1
      /\ at.index <= Cardinality(DOMAIN found[kind])
  BY DEF PlanInvariant, PlanTyped, Iterate, RegularPlan, Kinds
<1>2. Cardinality(DOMAIN found[kind]) \in Nat
  <2>1. KindTaken(kind)
    BY <1>1, Turns DEF PlanInvariant, Kinds
  <2>2. Passed(at, kind, Len(plan[kind])) = Len(plan[kind])
    BY <1>1, Turns, PassedIs DEF Kinds
  <2> QED
    BY <1>1, <2>1, <2>2, ListIs DEF KindTaken, DictionaryUpTo
<1>3. at.index \in 1 .. Cardinality(DOMAIN found[kind])
  BY <1>1, <1>2
<1>4. /\ DOMAIN found[kind] = Present(plan[kind])
      /\ Ids(kind)[at.index] \in Present(plan[kind])
      /\ \A id \in Present(plan[kind]) : found[kind][id] = With(plan[kind], id)
  BY <1>1, <1>3, FoundIs
<1> DEFINE n == at.index - 1
<1>5. n \in Nat /\ n + 1 = at.index /\ at'.index - 1 = n + 1
  BY <1>1
<1>6. Ids(kind)[at.index] = Ascending(Present(plan[kind]))[n + 1]
  BY <1>4, <1>5 DEF Ids
<1>7. found[kind][Ids(kind)[at.index]] = With(plan[kind], Ascending(Present(plan[kind]))[n + 1])
  BY <1>4, <1>6
<1>8. /\ Passed(at, EdgeLoop[kind], Cardinality(Present(plan[kind]))) = n
      /\ Passed(at', EdgeLoop[kind], Cardinality(Present(plan[kind]))) = n + 1
  BY <1>1, <1>5, Turns, PassedIs DEF Kinds
<1>9. \A k \in Kinds : \A m : /\ Passed(at', k, m) = Passed(at, k, m)
         /\ k # kind => Passed(at', EdgeLoop[k], m) = Passed(at, EdgeLoop[k], m)
  BY <1>1, Turns, PassedIs DEF Kinds
<1> HIDE DEF n
<1> QED
  BY <1>1, <1>4, <1>5, <1>6, <1>7, <1>8, <1>9

\* An iteration over the resources found reports what one misses.
LEMMA SaidLinkResource ==
  ASSUME PlanInvariant, DiagnosticsInvariant, LinkResource
  PROVE  DiagnosticsInvariant'
<1> DEFINE list == plan["resources"]
<1>1. PlanTyped /\ plan' = plan /\ UNCHANGED <<found, closure, order>>
      /\ edges'.assets = edges.assets /\ issues \subseteq issues'
      /\ Iterate("resource_edges", Cardinality(DOMAIN found["resources"]))
  BY DEF PlanInvariant, LinkResource, Iterate, PlanTyped, Kinds
<1>2. at.loop = "resource_edges" /\ at'.loop = "resource_edges"
  BY <1>1 DEF PlanTyped, Iterate
<1>3. \A k \in Kinds : \A m : Passed(at', k, m) = Passed(at, k, m)
  BY <1>2, PassedIs DEF Kinds
<1>4. FaultsSaid'
  BY <1>1, <1>2, <1>3, FaultsKept DEF DiagnosticsInvariant
<1> SUFFICES ASSUME RegularPlan
             PROVE  (/\ ResourcesSaid /\ ResourceEdgesSaid /\ AssetEdgesSaid
                     /\ OptionalSaid /\ ClosureIs /\ SortSaid)'
  BY <1>1, <1>4 DEF DiagnosticsInvariant, RegularPlan
<1>5. ResourcesSaid /\ ResourceEdgesSaid /\ AssetEdgesSaid /\ OptionalSaid /\ ClosureIs /\ SortSaid
  BY <1>2 DEF DiagnosticsInvariant
<1>6. PICK n \in Nat :
           /\ Passed(at, "resource_edges", Cardinality(Present(list))) = n
           /\ Passed(at', "resource_edges", Cardinality(Present(list))) = n + 1
           /\ DOMAIN found["resources"] = Present(list)
           /\ Ids("resources")[at.index] = Ascending(Present(list))[n + 1]
           /\ found["resources"][Ids("resources")[at.index]]
                = With(list, Ascending(Present(list))[n + 1])
  <2>1. "resources" \in Kinds /\ EdgeLoop["resources"] = "resource_edges"
    BY Turns DEF Kinds
  <2> QED
    BY <1>1, <2>1, LinkIs
<1> DEFINE r == With(list, Ascending(Present(list))[n + 1])
<1>7. DOMAIN found.services = BroughtUpTo(list, "provides", Len(list))
  <2>1. ServicesTaken /\ Regular(list) /\ Passed(at, "resources", Len(list)) = Len(list)
    BY <1>2, PassedIs DEF PlanInvariant, RegularPlan
  <2> QED
    BY <2>1 DEF ServicesTaken, ServicesUpTo, BroughtUpTo
<1>8. \A code \in Relations : About(issues', code) = About(issues, code)
              \cup (IF code = "missing_dependency"
                    THEN Valid(r["dependencies"]) \ Present(list) ELSE {})
              \cup (IF code = "missing_provider"
                    THEN Valid(r["requires"]) \ BroughtUpTo(list, "provides", Len(list)) ELSE {})
  BY <1>6, <1>7, SaysLinkResource
<1>9. \A code \in Relations \ {"missing_dependency", "missing_provider"} :
        About(issues', code) = About(issues, code)
  BY <1>8
<1> HIDE DEF r
<1>10. ResourceEdgesSaid'
  <2>1. /\ About(issues, "missing_dependency") = Missing(list, "dependencies", Present(list), n)
        /\ About(issues, "missing_provider")
             = Missing(list, "requires", BroughtUpTo(list, "provides", Len(list)), n)
    BY <1>5, <1>6 DEF ResourceEdgesSaid
  <2>2. /\ About(issues', "missing_dependency") = Missing(list, "dependencies", Present(list), n + 1)
        /\ About(issues', "missing_provider")
             = Missing(list, "requires", BroughtUpTo(list, "provides", Len(list)), n + 1)
    <3>1. /\ "missing_dependency" \in Relations /\ "missing_provider" \in Relations
      BY DEF Relations
    <3>2. /\ Missing(list, "dependencies", Present(list), n + 1)
               = Missing(list, "dependencies", Present(list), n) \cup (Valid(r["dependencies"]) \ Present(list))
          /\ Missing(list, "requires", BroughtUpTo(list, "provides", Len(list)), n + 1)
               = Missing(list, "requires", BroughtUpTo(list, "provides", Len(list)), n)
                   \cup (Valid(r["requires"]) \ BroughtUpTo(list, "provides", Len(list)))
      <4> DEFINE known == BroughtUpTo(list, "provides", Len(list))
      <4>1. \A field, all : Missing(list, field, all, n + 1) = Missing(list, field, all, n)
              \cup (Valid(r[field]) \ all)
        BY MissingGrows DEF r
      <4> HIDE DEF known, list
      <4>2. Missing(list, "requires", known, n + 1) = Missing(list, "requires", known, n)
              \cup (Valid(r["requires"]) \ known)
        BY <4>1
      <4> QED
        BY <4>1, <4>2 DEF known
    <3> HIDE DEF list
    <3> QED
      BY <1>8, <2>1, <3>1, <3>2
  <2> QED
    BY <1>1, <1>6, <2>2 DEF ResourceEdgesSaid
<1>11. ResourcesSaid'
  BY <1>1, <1>3, <1>5, <1>9, ResourcesKept DEF Relations, Kinds
<1>12. AssetEdgesSaid'
  <2>1. \A m : Passed(at', "asset_edges", m) = Passed(at, "asset_edges", m)
    BY <1>2, PassedIs
  <2> QED
    BY <1>1, <1>5, <1>9, <2>1, AssetEdgesKept DEF Relations
<1>13. OptionalSaid'
  BY <1>1, <1>3, <1>5, <1>9, OptionalKept DEF Relations, Kinds
<1>14. ClosureIs'
  BY <1>1, <1>2, <1>5, ClosureKept
<1>15. SortSaid'
  <2>1. \A kind \in Kinds : ~ (Turn[at.loop] > Turn[SortLoop[kind]])
    BY <1>2, Turns DEF Kinds
  <2> QED
    BY <1>1, <1>2, <1>5, <1>9, <2>1, SortKept DEF Relations
<1> QED
  BY <1>10, <1>11, <1>12, <1>13, <1>14, <1>15

\* An iteration over the assets found reports what one misses.
LEMMA SaidLinkAsset ==
  ASSUME PlanInvariant, DiagnosticsInvariant, LinkAsset
  PROVE  DiagnosticsInvariant'
<1> DEFINE list == plan["assets"]
<1>1. PlanTyped /\ plan' = plan /\ UNCHANGED <<found, closure, order>> /\ issues \subseteq issues'
      /\ Iterate("asset_edges", Cardinality(DOMAIN found["assets"]))
  BY DEF PlanInvariant, LinkAsset, Iterate
<1>2. at.loop = "asset_edges" /\ at'.loop = "asset_edges"
  BY <1>1 DEF PlanTyped, Iterate
<1>3. \A k \in Kinds : \A m : Passed(at', k, m) = Passed(at, k, m)
  BY <1>2, PassedIs DEF Kinds
<1>4. FaultsSaid'
  BY <1>1, <1>2, <1>3, FaultsKept DEF DiagnosticsInvariant
<1> SUFFICES ASSUME RegularPlan
             PROVE  (/\ ResourcesSaid /\ ResourceEdgesSaid /\ AssetEdgesSaid
                     /\ OptionalSaid /\ ClosureIs /\ SortSaid)'
  BY <1>1, <1>4 DEF DiagnosticsInvariant, RegularPlan
<1>5. ResourcesSaid /\ ResourceEdgesSaid /\ AssetEdgesSaid /\ OptionalSaid /\ ClosureIs /\ SortSaid
  BY <1>2 DEF DiagnosticsInvariant
<1>6. PICK n \in Nat :
           /\ Passed(at, "asset_edges", Cardinality(Present(list))) = n
           /\ Passed(at', "asset_edges", Cardinality(Present(list))) = n + 1
           /\ DOMAIN found["assets"] = Present(list)
           /\ Ids("assets")[at.index] = Ascending(Present(list))[n + 1]
           /\ found["assets"][Ids("assets")[at.index]] = With(list, Ascending(Present(list))[n + 1])
  <2>1. "assets" \in Kinds /\ EdgeLoop["assets"] = "asset_edges"
    BY Turns DEF Kinds
  <2> QED
    BY <1>1, <2>1, LinkIs
<1> DEFINE r == With(list, Ascending(Present(list))[n + 1])
<1>7. \A code \in Relations : About(issues', code) = About(issues, code)
              \cup (IF code = "missing_asset" THEN Valid(r["dependencies"]) \ Present(list) ELSE {})
  BY <1>6, SaysLinkAsset
<1>8. \A code \in Relations \ {"missing_asset"} : About(issues', code) = About(issues, code)
  BY <1>7
<1> HIDE DEF r
<1>9. AssetEdgesSaid'
  <2>1. About(issues, "missing_asset") = Missing(list, "dependencies", Present(list), n)
    BY <1>5, <1>6 DEF AssetEdgesSaid
  <2>2. About(issues', "missing_asset") = Missing(list, "dependencies", Present(list), n + 1)
    <3>1. "missing_asset" \in Relations
      BY DEF Relations
    <3>2. Missing(list, "dependencies", Present(list), n + 1)
            = Missing(list, "dependencies", Present(list), n) \cup (Valid(r["dependencies"]) \ Present(list))
      BY MissingGrows DEF r
    <3> HIDE DEF list
    <3> QED
      BY <1>7, <2>1, <3>1, <3>2
  <2> QED
    BY <1>1, <1>6, <2>2 DEF AssetEdgesSaid
<1>10. ResourcesSaid'
  BY <1>1, <1>3, <1>5, <1>8, ResourcesKept DEF Relations, Kinds
<1>11. ResourceEdgesSaid'
  <2>1. \A m : Passed(at', "resource_edges", m) = Passed(at, "resource_edges", m)
    BY <1>2, PassedIs
  <2> QED
    BY <1>1, <1>5, <1>8, <2>1, ResourceEdgesKept DEF Relations
<1>12. OptionalSaid'
  BY <1>1, <1>3, <1>5, <1>8, OptionalKept DEF Relations, Kinds
<1>13. ClosureIs'
  <2>1. ~ (Turn[at.loop] >= Turn["closure"])
    BY <1>2, Turns
  <2> QED
    BY <1>1, <1>2, <1>5, <2>1, ClosureKept
<1>14. SortSaid'
  <2>1. \A kind \in Kinds : ~ (Turn[at.loop] > Turn[SortLoop[kind]])
    BY <1>2, Turns DEF Kinds
  <2> QED
    BY <1>1, <1>2, <1>5, <1>8, <2>1, SortKept DEF Relations
<1> QED
  BY <1>9, <1>10, <1>11, <1>12, <1>13, <1>14

\* The end of a loop says nothing; at the last one the critical assets are pending.
LEMMA SaidLeaveLoop ==
  ASSUME PlanInvariant, DiagnosticsInvariant, LeaveLoop
  PROVE  DiagnosticsInvariant'
<1>1. PlanTyped /\ plan' = plan /\ at.loop # "done" /\ UNCHANGED <<found, edges, order, issues>>
  BY DEF PlanInvariant, LeaveLoop, Leave
<1>2. /\ UNCHANGED Passed(at, "resources", Len(plan.resources))
      /\ UNCHANGED Passed(at, "assets", Len(plan.assets))
      /\ UNCHANGED Passed(at, "resource_edges", Cardinality(Present(plan.resources)))
      /\ UNCHANGED Passed(at, "asset_edges", Cardinality(Present(plan.assets)))
  BY LeaveLoopCounts, Turns DEF Kinds
<1>3. FaultsSaid'
  <2>1. FaultsSaid
    BY <1>1 DEF DiagnosticsInvariant
  <2> QED
    BY <1>1, <2>1, LeaveLoopCounts, FaultsKept
<1> SUFFICES ASSUME RegularPlan
             PROVE  (/\ ResourcesSaid /\ ResourceEdgesSaid /\ AssetEdgesSaid
                     /\ OptionalSaid /\ ClosureIs /\ SortSaid)'
  BY <1>1, <1>3 DEF DiagnosticsInvariant, RegularPlan
<1>4. ResourcesSaid /\ ResourceEdgesSaid /\ AssetEdgesSaid /\ OptionalSaid /\ ClosureIs /\ SortSaid
  BY <1>1 DEF DiagnosticsInvariant
<1>5. \A code : About(issues', code) = About(issues, code)
  BY <1>1
<1>6. ResourcesSaid' /\ ResourceEdgesSaid' /\ AssetEdgesSaid'
  BY <1>1, <1>2, <1>4, <1>5, ResourcesKept, ResourceEdgesKept, AssetEdgesKept
<1>7. SortSaid'
  <2>1. \A kind \in Kinds : ~ (Turn[at.loop] > Turn[SortLoop[kind]]) /\ ~ (Turn[at'.loop] > Turn[SortLoop[kind]])
    BY <1>1, Turns DEF LeaveLoop, Leave, Kinds
  <2>2. ~ (Turn[at.loop] > Turn["closure"]) /\ ~ (Turn[at'.loop] > Turn["closure"])
    BY <1>1, Turns DEF LeaveLoop, Leave
  <2> QED
    BY <1>1, <1>4, <1>5, <2>1, <2>2, SortKept
<1>8. DOMAIN closure = {"critical", "pending"}
  BY <1>4 DEF ClosureIs
<1>9. closure.critical' = closure.critical
  BY <1>8 DEF LeaveLoop
<1>10. OptionalSaid'
  BY <1>1, <1>2, <1>4, <1>5, <1>9, OptionalKept
<1>11. ClosureIs'
  <2>1. CASE UNCHANGED closure /\ at.loop \in {"resources", "resource_edges", "assets"}
             /\ at'.loop \in {"resource_edges", "assets", "asset_edges"}
    BY <1>1, <1>4, <2>1, Turns, ClosureKept
  <2>2. CASE /\ Leave("asset_edges", Cardinality(DOMAIN found.assets), "closure")
             /\ closure' = [closure EXCEPT
                  !.pending = Ascending({id \in DOMAIN found.assets : found.assets[id].critical})]
    <3> DEFINE V == Present(plan["assets"])
    <3>1. at.loop = "asset_edges" /\ at'.loop = "closure"
      BY <2>2 DEF Leave
    <3>2. DOMAIN found["assets"] = V /\ \A id \in V : found["assets"][id] = With(plan["assets"], id)
      BY <1>1, <3>1, Turns, FoundAll DEF Kinds, RegularPlan
    <3>3. closure'.pending = Ascending(Critical) /\ DOMAIN closure' = {"critical", "pending"}
      <4>1. {id \in DOMAIN found.assets : found.assets[id].critical} = Critical
        BY <3>2 DEF Critical
      <4> QED
        BY <1>8, <2>2, <4>1
    <3>4. V \in SUBSET Nat /\ IsFiniteSet(V)
      BY <1>1, ListIs DEF Kinds
    <3>5. Critical \in SUBSET Nat /\ IsFiniteSet(Critical) /\ Critical \subseteq V
      <4>1. Critical \subseteq V
        BY DEF Critical
      <4> QED
        BY <3>4, <4>1, FS_Subset
    <3>6. closure'.pending \in Seq(Critical) /\ NamesOf(closure'.pending) = Critical
      BY <3>3, <3>5, AscendingIs
    <3>7. closure'.pending \in Seq(V)
      BY <3>5, <3>6, SeqMonotonic
    <3>8. closure'.critical = {}
      BY <1>4, <1>9, <3>1, Turns DEF ClosureIs
    <3>9. Critical' = Critical
      BY <1>1 DEF Critical
    <3>10. \A id \in Critical : Reaches(V, edges'.assets, id, id)
      BY <3>5, ReachesItself
    <3> HIDE DEF V
    <3>11. Present(plan.assets)' = V
      BY <1>1 DEF V
    <3>12. ~ (Turn[at'.loop] < Turn["closure"]) /\ ~ (Turn[at'.loop] > Turn["closure"])
      BY <3>1, Turns
    <3> QED
      BY <3>3, <3>6, <3>7, <3>8, <3>9, <3>10, <3>11, <3>12 DEF ClosureIs
  <2> QED
    BY <1>1, <2>1, <2>2 DEF LeaveLoop, Leave
<1> QED
  BY <1>6, <1>7, <1>10, <1>11

\* A pass of the closure makes one asset critical, or drops it as critical already.
LEMMA SaidCloseAsset ==
  ASSUME PlanInvariant, DiagnosticsInvariant, CloseAsset
  PROVE  DiagnosticsInvariant'
<1>1. PlanTyped /\ at.loop = "closure" /\ UNCHANGED <<plan, at, found, edges, order>>
      /\ issues \subseteq issues'
  BY DEF PlanInvariant, CloseAsset
<1>2. FaultsSaid'
  BY <1>1, FaultsKept DEF DiagnosticsInvariant
<1> SUFFICES ASSUME RegularPlan
             PROVE  (/\ ResourcesSaid /\ ResourceEdgesSaid /\ AssetEdgesSaid
                     /\ OptionalSaid /\ ClosureIs /\ SortSaid)'
  BY <1>1, <1>2 DEF DiagnosticsInvariant, RegularPlan
<1>3. ResourcesSaid /\ ResourceEdgesSaid /\ AssetEdgesSaid /\ OptionalSaid /\ ClosureIs /\ SortSaid
  BY <1>1 DEF DiagnosticsInvariant
<1> DEFINE id == Head(closure.pending)
           rest == Tail(closure.pending)
           V == Present(plan["assets"])
           E == edges["assets"]
           C == closure.critical
<1>4. \A code \in Relations : About(issues', code) = About(issues, code)
              \cup (IF /\ code = "critical_optional_asset" /\ id \notin C
                       /\ found.assets[id].optional
                    THEN {id} ELSE {})
  BY SaysCloseAsset
<1>5. \A code \in Relations \ {"critical_optional_asset"} : About(issues', code) = About(issues, code)
  BY <1>4
<1>6. ResourcesSaid' /\ ResourceEdgesSaid' /\ AssetEdgesSaid'
  BY <1>1, <1>3, <1>5, ResourcesKept, ResourceEdgesKept, AssetEdgesKept DEF Relations
<1>7. SortSaid'
  BY <1>1, <1>3, <1>5, SortKept DEF Relations
<1>8. /\ DOMAIN closure = {"critical", "pending"}
      /\ closure.pending \in Seq(V) /\ C \subseteq V /\ closure.pending # << >>
      /\ Critical \subseteq C \cup NamesOf(closure.pending)
      /\ \A x \in C : E[x] \subseteq C \cup NamesOf(closure.pending)
      /\ \A x \in C \cup NamesOf(closure.pending) : \E root \in Critical : Reaches(V, E, root, x)
  BY <1>1, <1>3, Turns DEF ClosureIs, CloseAsset
<1>9. id \in V /\ rest \in Seq(V) /\ NamesOf(closure.pending) = {id} \cup NamesOf(rest)
  <2> DEFINE p == closure.pending
  <2>1. p \in Seq(V) /\ p # << >>
    BY <1>8
  <2> HIDE DEF p
  <2>2. /\ Head(p) \in V /\ Tail(p) \in Seq(V) /\ Len(p) \in Nat /\ Len(p) >= 1
        /\ DOMAIN p = 1 .. Len(p) /\ DOMAIN Tail(p) = 1 .. Len(p) - 1 /\ Head(p) = p[1]
        /\ \A i \in 1 .. Len(p) - 1 : Tail(p)[i] = p[i + 1]
    BY <2>1
  <2>3. NamesOf(p) \subseteq {Head(p)} \cup NamesOf(Tail(p))
    <3> SUFFICES ASSUME NEW i \in 1 .. Len(p) PROVE p[i] \in {Head(p)} \cup NamesOf(Tail(p))
      BY <2>2 DEF NamesOf
    <3>1. CASE i = 1
      BY <2>2, <3>1
    <3>2. CASE i # 1
      <4>1. i - 1 \in 1 .. Len(p) - 1 /\ (i - 1) + 1 = i
        BY <2>2, <3>2
      <4>2. Tail(p)[i - 1] = p[i]
        BY <2>2, <4>1
      <4> QED
        BY <2>2, <4>1, <4>2 DEF NamesOf
    <3> QED
      BY <3>1, <3>2
  <2>4. {Head(p)} \cup NamesOf(Tail(p)) \subseteq NamesOf(p)
    <3>1. Head(p) \in NamesOf(p)
      BY <2>2 DEF NamesOf
    <3>2. ASSUME NEW i \in 1 .. Len(p) - 1 PROVE Tail(p)[i] \in NamesOf(p)
      <4>1. i + 1 \in 1 .. Len(p) /\ Tail(p)[i] = p[i + 1]
        BY <2>2
      <4> QED
        BY <2>2, <4>1 DEF NamesOf
    <3> QED
      BY <2>2, <3>1, <3>2 DEF NamesOf
  <2>5. NamesOf(p) = {Head(p)} \cup NamesOf(Tail(p))
    BY <2>3, <2>4
  <2> QED
    BY <2>2, <2>5 DEF p
<1>10. found["assets"][id] = With(plan["assets"], id)
  <2>1. Turn[at.loop] > Turn["assets"] /\ "assets" \in Kinds
    BY <1>1, Turns DEF Kinds
  <2> QED
    BY <1>1, <1>9, <2>1, FoundAll DEF RegularPlan
<1>11. V \in SUBSET Nat /\ IsFiniteSet(V)
  BY <1>1, ListIs DEF Kinds
<1>12. \A x \in V : E[x] \subseteq V
  <2>1. Turn[at.loop] > Turn[EdgeLoop["assets"]] /\ "assets" \in Kinds /\ Sound("assets")
    BY <1>1, Turns DEF Kinds, Sound, RegularPlan
  <2> QED
    BY <1>1, <2>1, GraphComplete DEF IsGraph
<1>13. E[id] \in SUBSET Nat /\ IsFiniteSet(E[id]) /\ E[id] \subseteq V
  BY <1>9, <1>11, <1>12, FS_Subset
<1>14. IF id \notin C
       THEN closure' = [critical |-> C \cup {id}, pending |-> rest \o Ascending(E[id])]
       ELSE closure' = [closure EXCEPT !.pending = rest]
  BY DEF CloseAsset
<1> DEFINE all == C \cup NamesOf(closure.pending)
           later == closure'.critical \cup NamesOf(closure'.pending)
<1>15. /\ DOMAIN closure' = {"critical", "pending"}
       /\ closure'.pending \in Seq(V)
       /\ closure'.critical = C \cup {id}
       /\ later = all \cup E[id]
  <2>1. CASE id \notin C
    <3>1. /\ DOMAIN closure' = {"critical", "pending"} /\ closure'.critical = C \cup {id}
          /\ closure'.pending = rest \o Ascending(E[id])
      <4> HIDE DEF id, rest, E, C
      <4>1. closure' = [critical |-> C \cup {id}, pending |-> rest \o Ascending(E[id])]
        BY <1>14, <2>1
      <4> QED
        BY <4>1
    <3>2. Ascending(E[id]) \in Seq(E[id]) /\ NamesOf(Ascending(E[id])) = E[id]
      BY <1>13, AscendingIs
    <3>3. Ascending(E[id]) \in Seq(V)
      BY <1>13, <3>2, SeqMonotonic
    <3> HIDE DEF rest, V
    <3>4. closure'.pending \in Seq(V) /\ NamesOf(closure'.pending) = NamesOf(rest) \cup E[id]
      BY <1>9, <3>1, <3>2, <3>3, NamesJoined
    <3> QED
      BY <1>9, <3>1, <3>4
  <2>2. CASE id \in C
    <3>1. /\ DOMAIN closure' = {"critical", "pending"} /\ closure'.critical = C
          /\ closure'.pending = rest
      BY <1>8, <1>14, <2>2
    <3>2. E[id] \subseteq all
      BY <1>8, <2>2
    <3> HIDE DEF rest, V, E, id
    <3> QED
      BY <1>9, <2>2, <3>1, <3>2
  <2> QED
    BY <2>1, <2>2
<1>16. OptionalSaid'
  <2>1. About(issues, "critical_optional_asset")
          = OptionalUpTo(plan.assets, Passed(at, "assets", Len(plan.assets)))
              \cup {x \in C : With(plan["assets"], x).optional}
    BY <1>3 DEF OptionalSaid
  <2>2. About(issues', "critical_optional_asset") = About(issues, "critical_optional_asset")
          \cup (IF id \notin C /\ With(plan["assets"], id).optional THEN {id} ELSE {})
    BY <1>4, <1>10 DEF Relations
  <2>3. {x \in C \cup {id} : With(plan["assets"], x).optional}
          = {x \in C : With(plan["assets"], x).optional}
              \cup (IF id \notin C /\ With(plan["assets"], id).optional THEN {id} ELSE {})
    <3> HIDE DEF id, C
    <3>1. CASE With(plan["assets"], id).optional
      BY <3>1
    <3>2. CASE ~ With(plan["assets"], id).optional
      BY <3>2
    <3> QED
      BY <3>1, <3>2
  <2> HIDE DEF id, C
  <2>4. About(issues', "critical_optional_asset")
          = OptionalUpTo(plan.assets, Passed(at, "assets", Len(plan.assets)))
              \cup {x \in closure'.critical : With(plan["assets"], x).optional}
    BY <1>15, <2>1, <2>2, <2>3
  <2> QED
    BY <1>1, <2>4 DEF OptionalSaid
<1>17. ClosureIs'
  <2>1. \A x \in E[id] : \E root \in Critical : Reaches(V, E, root, x)
    <3> SUFFICES ASSUME NEW x \in E[id] PROVE \E root \in Critical : Reaches(V, E, root, x)
      OBVIOUS
    <3>1. PICK root \in Critical : Reaches(V, E, root, id)
      BY <1>8, <1>9
    <3>2. x \in V
      BY <1>13
    <3> HIDE DEF V, E, id
    <3> QED
      BY <3>1, <3>2, ReachesOn
  <2>2. Critical' = Critical /\ V' = V /\ E' = E /\ at' = at
    BY <1>1 DEF Critical
  <2> HIDE DEF V, E, id
  <2>3. /\ closure'.critical \subseteq V /\ Critical \subseteq later
        /\ \A x \in closure'.critical : E[x] \subseteq later
        /\ \A x \in later : \E root \in Critical : Reaches(V, E, root, x)
    BY <1>8, <1>9, <1>15, <2>1
  <2>4. Present(plan.assets)' = V /\ edges.assets' = E
    BY <1>1 DEF V, E
  <2>5. ~ (Turn[at'.loop] < Turn["closure"]) /\ ~ (Turn[at'.loop] > Turn["closure"])
    BY <1>1, Turns
  <2> QED
    BY <1>15, <2>2, <2>3, <2>4, <2>5 DEF ClosureIs
<1> QED
  BY <1>6, <1>7, <1>16, <1>17

\* The capabilities are checked when no asset is pending.
LEMMA SaidCheckCapabilities ==
  ASSUME PlanInvariant, DiagnosticsInvariant, CheckCapabilities
  PROVE  DiagnosticsInvariant'
<1>1. PlanTyped /\ at.loop = "closure" /\ UNCHANGED <<plan, found, edges, closure, order>>
      /\ issues \subseteq issues' /\ closure.pending = << >>
  BY DEF PlanInvariant, CheckCapabilities
<1>2. at'.loop = "sort_resources"
  BY <1>1, Turns DEF PlanTyped, CheckCapabilities
<1>3. \A m : /\ Passed(at', "resources", m) = Passed(at, "resources", m)
             /\ Passed(at', "assets", m) = Passed(at, "assets", m)
             /\ Passed(at', "resource_edges", m) = Passed(at, "resource_edges", m)
             /\ Passed(at', "asset_edges", m) = Passed(at, "asset_edges", m)
  BY <1>1, <1>2, PassedIs
<1>4. FaultsSaid'
  BY <1>1, <1>3, FaultsKept DEF DiagnosticsInvariant, Kinds
<1> SUFFICES ASSUME RegularPlan
             PROVE  (/\ ResourcesSaid /\ ResourceEdgesSaid /\ AssetEdgesSaid
                     /\ OptionalSaid /\ ClosureIs /\ SortSaid)'
  BY <1>1, <1>4 DEF DiagnosticsInvariant, RegularPlan
<1>5. ResourcesSaid /\ ResourceEdgesSaid /\ AssetEdgesSaid /\ OptionalSaid /\ ClosureIs /\ SortSaid
  BY <1>1 DEF DiagnosticsInvariant
<1>6. \A code \in Relations : About(issues', code) = About(issues, code)
           \cup (IF code = "missing_capability"
                 THEN Valid(plan.required) \ Valid(plan.available) ELSE {})
  BY SaysCheckCapabilities
<1>7. \A code \in Relations \ {"missing_capability"} : About(issues', code) = About(issues, code)
  BY <1>6
<1>8. ResourcesSaid' /\ ResourceEdgesSaid' /\ AssetEdgesSaid' /\ OptionalSaid'
  BY <1>1, <1>3, <1>5, <1>7, ResourcesKept, ResourceEdgesKept, AssetEdgesKept, OptionalKept DEF Relations
<1>9. ClosureIs'
  <2>1. Critical' = Critical
    BY <1>1 DEF Critical
  <2> QED
    BY <1>1, <1>2, <1>5, <2>1, Turns DEF ClosureIs
<1>10. SortSaid'
  <2>1. \A kind \in Kinds : ~ (Turn[at.loop] > Turn[SortLoop[kind]]) /\ ~ (Turn[at'.loop] > Turn[SortLoop[kind]])
    BY <1>1, <1>2, Turns DEF Kinds
  <2>2. ~ (Turn[at.loop] > Turn["closure"]) /\ Turn[at'.loop] > Turn["closure"]
    BY <1>1, <1>2, Turns
  <2>3. About(issues, "missing_capability") = {} /\ About(issues, "dependency_cycle") = {}
    BY <1>5, <2>1, <2>2 DEF SortSaid
  <2>4. /\ About(issues', "missing_capability") = Valid(plan.required) \ Valid(plan.available)
        /\ About(issues', "dependency_cycle") = {}
    BY <1>6, <2>3 DEF Relations
  <2> QED
    BY <1>1, <2>1, <2>2, <2>4 DEF SortSaid
<1> QED
  BY <1>8, <1>9, <1>10

\* One wave of Sort says nothing; its end reports what is left.
LEMMA SaidSort ==
  ASSUME PlanInvariant, DiagnosticsInvariant, NEW kind \in Kinds, NEW next, Sort(kind, next),
         IF kind = "resources" THEN next = "sort_assets" ELSE next = "done"
  PROVE  DiagnosticsInvariant'
<1>1. /\ PlanTyped /\ at.loop = SortLoop[kind] /\ UNCHANGED <<plan, found, edges, closure>>
      /\ issues \subseteq issues' /\ \A other \in Kinds \ {kind} : order'[other] = order[other]
  BY DEF PlanInvariant, PlanTyped, Sort
<1>2. at.loop \in {"sort_resources", "sort_assets"} /\ ~ (at.loop = "done" /\ Limited)
  BY <1>1, Turns DEF Kinds
<1> DEFINE E == edges[kind]
           goes == GoesOn(E, NamesOf(order[kind]), Ready(E, NamesOf(order[kind])))
<1>3. IF goes THEN at' = at ELSE at'.loop = next /\ order' = order
  BY <1>1 DEF Sort, PlanTyped
<1> HIDE DEF goes
<1>4. at'.loop \in {"sort_resources", "sort_assets", "done"}
  BY <1>1, <1>2, <1>3 DEF Kinds
<1>5. \A m : /\ Passed(at', "resources", m) = Passed(at, "resources", m)
             /\ Passed(at', "assets", m) = Passed(at, "assets", m)
             /\ Passed(at', "resource_edges", m) = Passed(at, "resource_edges", m)
             /\ Passed(at', "asset_edges", m) = Passed(at, "asset_edges", m)
  BY <1>2, <1>4, PassedIs
<1>6. FaultsSaid'
  BY <1>1, <1>2, <1>5, FaultsKept DEF DiagnosticsInvariant, Kinds
<1> SUFFICES ASSUME RegularPlan
             PROVE  (/\ ResourcesSaid /\ ResourceEdgesSaid /\ AssetEdgesSaid
                     /\ OptionalSaid /\ ClosureIs /\ SortSaid)'
  BY <1>1, <1>6 DEF DiagnosticsInvariant, RegularPlan
<1>7. ResourcesSaid /\ ResourceEdgesSaid /\ AssetEdgesSaid /\ OptionalSaid /\ ClosureIs /\ SortSaid
  BY <1>2 DEF DiagnosticsInvariant
<1>8. \A code \in Relations : About(issues', code) = About(issues, code)
           \cup (IF code = "dependency_cycle" /\ NamesOf(order[kind]) # DOMAIN E /\ ~ goes
                 THEN {kind} ELSE {})
  BY SaysSort DEF goes
<1>9. \A code \in Relations \ {"dependency_cycle"} : About(issues', code) = About(issues, code)
  BY <1>8
<1>10. ResourcesSaid' /\ ResourceEdgesSaid' /\ AssetEdgesSaid' /\ OptionalSaid'
  BY <1>1, <1>5, <1>7, <1>9, ResourcesKept, ResourceEdgesKept, AssetEdgesKept, OptionalKept DEF Relations
<1>11. Turn[at.loop] > Turn["closure"] /\ Turn[at'.loop] > Turn["closure"]
       /\ Turn[at.loop] >= Turn["closure"] /\ Turn[at'.loop] >= Turn["closure"]
       /\ ~ (Turn[at.loop] < Turn["closure"]) /\ ~ (Turn[at'.loop] < Turn["closure"])
  BY <1>2, <1>4, Turns
<1>12. ClosureIs'
  BY <1>1, <1>7, <1>11, ClosureKept
<1>13. SortSaid'
  <2> DEFINE Cycles == {k \in Kinds : Turn[at.loop] > Turn[SortLoop[k]] /\ NamesOf(order[k]) # DOMAIN edges[k]}
  <2>1. About(issues', "missing_capability") = Valid(plan.required) \ Valid(plan.available)
    BY <1>7, <1>9, <1>11 DEF SortSaid, Relations
  <2>2. About(issues', "dependency_cycle") = Cycles
           \cup (IF NamesOf(order[kind]) # DOMAIN E /\ ~ goes THEN {kind} ELSE {})
    BY <1>7, <1>8 DEF SortSaid, Relations
  <2>3. ~ (Turn[at.loop] > Turn[SortLoop[kind]])
    BY <1>1, Turns DEF Kinds
  <2>4. CASE goes
    <3>1. at' = at
      BY <1>3, <2>4
    <3>2. Cycles' = Cycles
      BY <1>1, <2>3, <3>1
    <3> QED
      BY <1>1, <1>11, <2>1, <2>2, <2>4, <3>2 DEF SortSaid
  <2>5. CASE ~ goes
    <3>1. at'.loop = next /\ order' = order
      BY <1>3, <2>5
    <3>2. \A k \in Kinds : Turn[at'.loop] > Turn[SortLoop[k]] <=> k = kind \/ Turn[at.loop] > Turn[SortLoop[k]]
      BY <1>1, <3>1, Turns DEF Kinds
    <3>3. Cycles' = Cycles \cup (IF NamesOf(order[kind]) # DOMAIN E THEN {kind} ELSE {})
      <4>1. CASE NamesOf(order[kind]) # DOMAIN E
        BY <1>1, <3>1, <3>2, <4>1
      <4>2. CASE NamesOf(order[kind]) = DOMAIN E
        BY <1>1, <3>1, <3>2, <4>2
      <4> QED
        BY <4>1, <4>2
    <3>4. About(issues', "dependency_cycle") = Cycles'
      BY <2>2, <2>5, <3>3
    <3> QED
      BY <1>1, <1>11, <2>1, <3>4 DEF SortSaid
  <2> QED
    BY <2>4, <2>5
<1> QED
  BY <1>10, <1>12, <1>13

\* A step of the loops keeps what is said exact.
LEMMA DiagnosticsStep ==
  ASSUME PlanInvariant, DiagnosticsInvariant, [PlanNext]_planVars
  PROVE  DiagnosticsInvariant'
<1>1. CASE Header
  BY <1>1, SaidHeader
<1>2. CASE TakeResource
  BY <1>2, SaidTakeResource
<1>3. CASE LinkResource
  BY <1>3, SaidLinkResource
<1>4. CASE TakeAsset
  BY <1>4, SaidTakeAsset
<1>5. CASE LinkAsset
  BY <1>5, SaidLinkAsset
<1>6. CASE LeaveLoop
  BY <1>6, SaidLeaveLoop
<1>7. CASE CloseAsset
  BY <1>7, SaidCloseAsset
<1>8. CASE CheckCapabilities
  BY <1>8, SaidCheckCapabilities
<1>9. CASE Sort("resources", SortLoop.assets)
  BY <1>9, Turns, SaidSort DEF Kinds
<1>10. CASE Sort("assets", "done")
  BY <1>10, SaidSort DEF Kinds
<1>11. CASE UNCHANGED planVars
  <2>1. UNCHANGED <<plan, at, found, edges, closure, issues, order>>
    BY <1>11 DEF planVars
  <2>2. CASE at.loop = "done" /\ Limited
    BY <2>1, <2>2 DEF DiagnosticsInvariant, Limited
  <2>3. CASE FaultsSaid /\ ~ RegularPlan
    BY <2>1, <2>3, FaultsKept DEF DiagnosticsInvariant, RegularPlan
  <2>4. CASE /\ FaultsSaid /\ ResourcesSaid /\ ResourceEdgesSaid /\ AssetEdgesSaid
             /\ OptionalSaid /\ ClosureIs /\ SortSaid
    <3>1. FaultsSaid' /\ ResourcesSaid' /\ ResourceEdgesSaid' /\ AssetEdgesSaid' /\ OptionalSaid'
      BY <2>1, <2>4, FaultsKept, ResourcesKept, ResourceEdgesKept, AssetEdgesKept, OptionalKept
    <3>2. ClosureIs' /\ SortSaid'
      BY <2>1, <2>4, ClosureKept, SortKept
    <3> QED
      BY <3>1, <3>2 DEF DiagnosticsInvariant
  <2> QED
    BY <2>2, <2>3, <2>4 DEF DiagnosticsInvariant
<1> QED
  BY <1>1, <1>2, <1>3, <1>4, <1>5, <1>6, <1>7, <1>8, <1>9, <1>10, <1>11 DEF PlanNext, Validate

-----------------------------------------------------------------------------
(* What is said at the end is what the plan breaks.                        *)

\* A list in which no definition is at fault is regular.
LEMMA FaultlessIsRegular ==
  ASSUME NEW list, Len(list) \in Nat, DOMAIN list = 1 .. Len(list), ~ Faulty(list, Len(list)),
         \A i \in 1 .. Len(list) : list[i].id \in Nat
  PROVE  Regular(list)
<1> DEFINE m == Len(list)
           f == [i \in 1 .. m |-> list[i].id]
<1>1. m \in Nat /\ DOMAIN list = 1 .. m
  OBVIOUS
<1>2. \A i \in 1 .. m : Identifier(list[i].id) /\ \A j \in 1 .. i - 1 : list[j].id # list[i].id
  BY DEF Faulty
<1> HIDE DEF m
<1>3. Positions(list) = 1 .. m
  BY <1>1, <1>2 DEF Positions
<1>4. \A i, j \in 1 .. m : list[i].id = list[j].id => i = j
  <2> SUFFICES ASSUME NEW i \in 1 .. m, NEW j \in 1 .. m, i # j PROVE list[i].id # list[j].id
    OBVIOUS
  <2>1. i \in 1 .. j - 1 \/ j \in 1 .. i - 1
    BY <1>1
  <2> QED
    BY <1>2, <2>1
<1>5. f \in Surjection(1 .. m, Present(list))
  BY <1>3 DEF Surjection, Present
<1>6. f \in Injection(1 .. m, Present(list))
  BY <1>4, <1>5 DEF Injection, Surjection, IsInjective
<1>7. IsFiniteSet(1 .. m) /\ Cardinality(1 .. m) = m
  BY <1>1, FS_Interval
<1> HIDE DEF f
<1>8. Cardinality(Present(list)) = m
  BY <1>5, <1>6, <1>7, FS_Surjection
<1> QED
  BY <1>1, <1>3, <1>8 DEF Regular, m

\* A name is counted more than once when two positions hold it.
LEMMA CountedTwice ==
  ASSUME NEW list, Len(list) \in Nat, DOMAIN list = 1 .. Len(list), NEW m
  PROVE  Cardinality(Held(list, m)) > 1
           <=> \E i, j \in DOMAIN list : i < j /\ list[i] = m /\ list[j] = m
<1> DEFINE n == Len(list)
           I == Held(list, m)
<1>1. n \in Nat /\ I \subseteq 1 .. n
  BY DEF Held
<1>2. IsFiniteSet(1 .. n)
  BY <1>1, FS_Interval
<1>3. \A i : i \in I <=> i \in DOMAIN list /\ list[i] = m
  BY DEF Held
<1> HIDE DEF n, I
<1>4. IsFiniteSet(I)
  BY <1>1, <1>2, FS_Subset
<1>5. Cardinality(I) \in Nat
  BY <1>4, FS_CardinalityType
<1>6. ASSUME Cardinality(I) > 1
      PROVE  \E i, j \in I : i < j
  <2>1. I # {}
    BY <1>5, <1>6, FS_EmptySet
  <2>2. PICK i : i \in I
    BY <2>1
  <2>3. I # {i}
    <3>1. Cardinality({i}) = 1
      BY FS_Singleton
    <3> QED
      BY <1>6, <3>1
  <2>4. PICK j \in I : j # i
    BY <2>2, <2>3
  <2>5. i \in Nat /\ j \in Nat
    BY <1>1, <2>2
  <2>6. i < j \/ j < i
    BY <2>4, <2>5
  <2> QED
    BY <2>2, <2>6
<1>7. ASSUME NEW i \in I, NEW j \in I, i < j
      PROVE  Cardinality(I) > 1
  <2>1. Cardinality(I) # 0
    BY <1>4, FS_EmptySet
  <2>2. Cardinality(I) # 1
    <3> SUFFICES ASSUME Cardinality(I) = 1 PROVE FALSE
      OBVIOUS
    <3>1. PICK x : I = {x}
      BY <1>4, FS_Singleton
    <3>2. i = j /\ i \in Nat
      BY <1>1, <3>1
    <3> QED
      BY <1>7, <3>2
  <2> QED
    BY <1>5, <2>1, <2>2
<1>8. Cardinality(I) > 1 <=> \E i, j \in I : i < j
  BY <1>6, <1>7
<1>9. (\E i, j \in I : i < j) <=> \E i, j \in DOMAIN list : i < j /\ list[i] = m /\ list[j] = m
  BY <1>3
<1> QED
  BY <1>8, <1>9 DEF I

\* The lists of a resource are lists of names.
LEMMA FieldIs ==
  ASSUME PlanTyped, NEW field \in {"dependencies", "provides", "requires", "mutates"},
         NEW i \in 1 .. Len(plan.resources)
  PROVE  /\ Len(plan.resources[i][field]) \in Nat
         /\ DOMAIN plan.resources[i][field] = 1 .. Len(plan.resources[i][field])
<1>1. plan.resources \in Seq(ResourceInput)
  BY PlanAssumption DEF PlanTyped
<1>2. plan.resources[i] \in ResourceInput
  BY <1>1
<1>3. plan.resources[i][field] \in Seq(Nat)
  BY <1>2 DEF ResourceInput, Names
<1> QED
  BY <1>3

\* Names clash when two resources bring one or one brings it twice.
LEMMA ClashesAre ==
  ASSUME PlanTyped, NEW field \in {"provides", "mutates"}
  PROVE  Clashes(plan.resources, field, Len(plan.resources)) # {} <=> Shared(field) \/ Repeating(field)
<1> DEFINE R == plan.resources
           n == Len(R)
<1>1. n \in Nat /\ DOMAIN R = 1 .. n
  BY ListIs DEF Kinds
<1>2. \A i \in 1 .. n : Len(R[i][field]) \in Nat /\ DOMAIN R[i][field] = 1 .. Len(R[i][field])
  BY FieldIs
<1>3. Repeating(field) <=>
        \E i \in 1 .. n : \E a, b \in DOMAIN R[i][field] :
          a < b /\ R[i][field][a] = R[i][field][b] /\ Identifier(R[i][field][a])
  <2>1. Values("resources", field) = {R[i][field] : i \in 1 .. n}
    BY <1>1 DEF Values
  <2> HIDE DEF R, n
  <2> QED
    BY <2>1 DEF Repeating
<1>4. Shared(field) <=> \E i, j \in 1 .. n : i # j /\ Valid(R[i][field]) \cap Valid(R[j][field]) # {}
  BY <1>1 DEF Shared
<1> HIDE DEF R, n
<1>5. ASSUME Clashes(R, field, n) # {}
      PROVE  Shared(field) \/ Repeating(field)
  <2>1. PICK i \in 1 .. n : Clash(R, field, i) # {}
    BY <1>5 DEF Clashes
  <2>2. PICK m \in Valid(R[i][field]) :
          \/ m \in BroughtUpTo(R, field, i - 1)
          \/ Cardinality(Held(R[i][field], m)) > 1
    BY <2>1 DEF Clash, Again
  <2>3. CASE m \in BroughtUpTo(R, field, i - 1)
    <3>1. PICK j \in 1 .. i - 1 : m \in Valid(R[j][field])
      BY <2>3 DEF BroughtUpTo
    <3>2. j \in 1 .. n /\ j # i
      BY <1>1
    <3> QED
      BY <1>4, <2>2, <3>1, <3>2
  <2>4. CASE Cardinality(Held(R[i][field], m)) > 1
    <3>1. \E a, b \in DOMAIN R[i][field] : a < b /\ R[i][field][a] = m /\ R[i][field][b] = m
      BY <1>2, <2>4, CountedTwice
    <3>2. Identifier(m)
      BY <2>2 DEF Valid
    <3> QED
      BY <1>3, <3>1, <3>2
  <2> QED
    BY <2>2, <2>3, <2>4
<1>6. ASSUME Shared(field)
      PROVE  Clashes(R, field, n) # {}
  <2>1. PICK i \in 1 .. n, j \in 1 .. n : i # j /\ Valid(R[i][field]) \cap Valid(R[j][field]) # {}
    BY <1>4, <1>6
  <2>2. PICK a \in 1 .. n, b \in 1 .. n : a < b /\ Valid(R[a][field]) \cap Valid(R[b][field]) # {}
    <3>1. i < j \/ j < i
      BY <1>1, <2>1
    <3> QED
      BY <2>1, <3>1
  <2>3. PICK m : m \in Valid(R[a][field]) /\ m \in Valid(R[b][field])
    BY <2>2
  <2>4. a \in 1 .. b - 1
    BY <1>1, <2>2
  <2>5. m \in BroughtUpTo(R, field, b - 1)
    BY <2>3, <2>4 DEF BroughtUpTo
  <2>6. m \in Clash(R, field, b)
    BY <2>3, <2>5 DEF Clash, Again
  <2> QED
    BY <2>6 DEF Clashes
<1>7. ASSUME Repeating(field)
      PROVE  Clashes(R, field, n) # {}
  <2>1. PICK i \in 1 .. n : \E a, b \in DOMAIN R[i][field] :
          a < b /\ R[i][field][a] = R[i][field][b] /\ Identifier(R[i][field][a])
    BY <1>3, <1>7
  <2>2. PICK a \in DOMAIN R[i][field], b \in DOMAIN R[i][field] :
          a < b /\ R[i][field][a] = R[i][field][b] /\ Identifier(R[i][field][a])
    BY <2>1
  <2>3. Cardinality(Held(R[i][field], R[i][field][a])) > 1
    BY <1>2, <2>2, CountedTwice
  <2>4. R[i][field][a] \in Valid(R[i][field])
    BY <2>2 DEF Valid, NamesOf
  <2>5. R[i][field][a] \in Clash(R, field, i)
    BY <2>3, <2>4 DEF Clash, Again
  <2> QED
    BY <2>5 DEF Clashes
<1> QED
  BY <1>5, <1>6, <1>7 DEF R, n

\* Names are missing when a definition lacks one.
LEMMA MissingAre ==
  ASSUME PlanTyped, NEW kind \in Kinds, Regular(plan[kind]), NEW field, NEW known
  PROVE  Missing(plan[kind], field, known, Cardinality(Present(plan[kind]))) # {}
           <=> Lacking(kind, field, known)
<1> DEFINE list == plan[kind]
           V == Present(list)
           c == Cardinality(V)
           ids == Ascending(V)
<1>1. Len(list) \in Nat /\ DOMAIN list = 1 .. Len(list) /\ V \in SUBSET Nat /\ IsFiniteSet(V)
  BY ListIs
<1>2. {ids[i] : i \in 1 .. c} = V
  <2>1. DOMAIN ids = 1 .. c /\ NamesOf(ids) = V
    BY <1>1, AscendingIs
  <2> HIDE DEF ids, V, c
  <2> QED
    BY <2>1 DEF NamesOf
<1>3. \A i \in 1 .. Len(list) : list[i].id \in V /\ With(list, list[i].id) = list[i]
  BY <1>1, RegularIs
<1>4. \A x \in V : \E i \in 1 .. Len(list) : list[i].id = x
  BY <1>1 DEF Present, Positions
<1>5. Lacking(kind, field, known) <=> \E i \in 1 .. Len(list) : ~ Valid(list[i][field]) \subseteq known
  <2>1. Values(kind, field) = {list[i][field] : i \in 1 .. Len(list)}
    BY <1>1 DEF Values
  <2> HIDE DEF list
  <2> QED
    BY <2>1 DEF Lacking
<1> HIDE DEF list, V, c, ids
<1>6. Missing(list, field, known, c) # {}
        <=> \E i \in 1 .. c : ~ Valid(With(list, ids[i])[field]) \subseteq known
  BY DEF Missing, ids, V
<1>7. (\E i \in 1 .. c : ~ Valid(With(list, ids[i])[field]) \subseteq known)
        <=> \E x \in V : ~ Valid(With(list, x)[field]) \subseteq known
  BY <1>2
<1>8. (\E x \in V : ~ Valid(With(list, x)[field]) \subseteq known)
        <=> \E i \in 1 .. Len(list) : ~ Valid(list[i][field]) \subseteq known
  BY <1>3, <1>4
<1> QED
  BY <1>5, <1>6, <1>7, <1>8 DEF list, V, c

\* The services provided are those that some resource brings.
LEMMA BroughtIs ==
  ASSUME PlanTyped
  PROVE  BroughtUpTo(plan.resources, "provides", Len(plan.resources)) = Brought("provides")
<1> DEFINE list == plan.resources
           n == Len(list)
<1>1. DOMAIN list = 1 .. n
  BY ListIs DEF Kinds
<1>2. Values("resources", "provides") = {list[i]["provides"] : i \in 1 .. n}
  BY <1>1 DEF Values
<1> HIDE DEF list, n
<1>3. \A x : x \in Brought("provides") <=> \E i \in 1 .. n : x \in Valid(list[i]["provides"])
  BY <1>2 DEF Brought
<1>4. \A x : x \in BroughtUpTo(list, "provides", n) <=> \E i \in 1 .. n : x \in Valid(list[i]["provides"])
  BY DEF BroughtUpTo
<1> QED
  BY <1>3, <1>4 DEF list, n

\* The assets that one reaches.
LEMMA ReachedIs ==
  ASSUME GraphIs("assets"), IsFiniteSet(Present(plan.assets)), NEW x, NEW y
  PROVE  y \in Reached("assets", x) <=> Reaches(Present(plan.assets), edges.assets, x, y)
<1> DEFINE V == Present(plan.assets)
           E == edges.assets
           N == Cardinality(V)
<1>1. N \in Nat
  BY FS_CardinalityType
<1>2. \A n \in Nat : Walks("assets", x, n) = Paths(V, E, x, n)
  BY WalksArePaths
<1>3. y \in Reached("assets", x) <=> \E n \in 0 .. N : \E w \in Walks("assets", x, n) : y = w[n]
  BY DEF Reached, Size
<1>4. 0 .. N \subseteq Nat
  BY <1>1
<1> HIDE DEF V, E, N
<1>5. y \in Reached("assets", x) <=> \E n \in 0 .. N : \E w \in Paths(V, E, x, n) : y = w[n]
  BY <1>2, <1>3, <1>4
<1>6. ASSUME Reaches(V, E, x, y)
      PROVE  \E n \in 0 .. N : \E w \in Paths(V, E, x, n) : y = w[n]
  <2>1. \E n \in 0 .. Cardinality(V) : \E w \in Paths(V, E, x, n) : w[n] = y
    BY <1>6, ReachesSoon DEF V
  <2> QED
    BY <2>1 DEF N
<1>7. (\E n \in 0 .. N : \E w \in Paths(V, E, x, n) : y = w[n]) => Reaches(V, E, x, y)
  BY <1>4 DEF Reaches
<1> QED
  BY <1>5, <1>6, <1>7 DEF V, E

\* An optional asset is reported when a critical one needs it.
LEMMA OptionalIs ==
  ASSUME PlanInvariant, DiagnosticsInvariant, at.loop = "done", ~ Limited, RegularPlan
  PROVE  About(issues, "critical_optional_asset") = {id \in Present(plan.assets) : RequiredOptional(id)}
<1> DEFINE list == plan.assets
           V == Present(list)
           E == edges.assets
           n == Len(list)
           C == closure.critical
<1>1. PlanTyped /\ OptionalSaid /\ ClosureIs
  BY DEF PlanInvariant, DiagnosticsInvariant
<1>2. n \in Nat /\ DOMAIN list = 1 .. n /\ IsFiniteSet(V)
  BY <1>1, ListIs DEF Kinds
<1>3. \A i \in 1 .. n : list[i].id \in V /\ With(list, list[i].id) = list[i]
  BY <1>2, RegularIs DEF RegularPlan
<1>4. GraphIs("assets")
  BY Turns, GraphComplete DEF Kinds, Sound, RegularPlan
<1>5. \A x, y : y \in Reached("assets", x) <=> Reaches(V, E, x, y)
  BY <1>2, <1>4, ReachedIs
<1>6. /\ C \subseteq V /\ Critical \subseteq C /\ \A id \in C : E[id] \subseteq C
      /\ \A id \in C : \E root \in Critical : Reaches(V, E, root, id)
  <2>1. Turn[at.loop] >= Turn["closure"] /\ Turn[at.loop] > Turn["closure"]
    BY Turns
  <2>2. closure.pending = << >> /\ C \cup NamesOf(<< >>) = C
    BY <1>1, <2>1 DEF ClosureIs, NamesOf
  <2>3. C \cup NamesOf(closure.pending) = C
    BY <2>2
  <2> QED
    BY <1>1, <2>1, <2>3 DEF ClosureIs
<1>7. Passed(at, "assets", n) = n
  BY PassedIs
<1>8. About(issues, "critical_optional_asset") = OptionalUpTo(list, n) \cup {id \in C : With(list, id).optional}
  BY <1>1, <1>7 DEF OptionalSaid
<1>9. \A id \in V : RequiredOptional(id)
        <=> With(list, id).optional /\ \E root \in Critical : Reaches(V, E, root, id)
  BY <1>5 DEF RequiredOptional, Critical
<1>10. Critical = {id \in V : With(list, id).critical}
  BY DEF Critical
<1> HIDE DEF list, V, E, n, C
<1>11. ASSUME NEW x \in OptionalUpTo(list, n)
       PROVE  x \in V /\ RequiredOptional(x)
  <2>1. PICK i \in 1 .. n : list[i].critical /\ list[i].optional /\ x = list[i].id
    BY DEF OptionalUpTo
  <2>2. x \in V /\ With(list, x) = list[i]
    BY <1>3, <2>1
  <2>3. x \in Critical /\ Reaches(V, E, x, x)
    BY <1>10, <2>1, <2>2, ReachesItself
  <2> QED
    BY <1>9, <2>1, <2>2, <2>3
<1>12. ASSUME NEW x \in C, With(list, x).optional
       PROVE  x \in V /\ RequiredOptional(x)
  BY <1>6, <1>9, <1>12
<1>13. ASSUME NEW x \in V, RequiredOptional(x)
       PROVE  x \in C /\ With(list, x).optional
  <2>1. PICK root \in Critical : Reaches(V, E, root, x)
    BY <1>9, <1>13
  <2>2. x \in C
    BY <1>6, <2>1, PathStays
  <2> QED
    BY <1>9, <1>13, <2>2
<1> QED
  BY <1>8, <1>11, <1>12, <1>13 DEF V, list

\* A cycle is reported when something waits for one.
LEMMA CyclesAre ==
  ASSUME PlanInvariant, DiagnosticsInvariant, Done, RegularPlan, ~ Shared("provides")
  PROVE  About(issues, "dependency_cycle") # {} <=> Stuck("resources") # {} \/ Stuck("assets") # {}
<1>1. at.loop = "done" /\ ~ (at.loop = "done" /\ Limited)
  BY DEF Done
<1>2. About(issues, "dependency_cycle")
        = {kind \in Kinds : Turn[at.loop] > Turn[SortLoop[kind]] /\ NamesOf(order[kind]) # DOMAIN edges[kind]}
  BY <1>1 DEF DiagnosticsInvariant, SortSaid
<1>3. ASSUME NEW kind \in Kinds
      PROVE  /\ Turn[at.loop] > Turn[SortLoop[kind]]
             /\ NamesOf(order[kind]) # DOMAIN edges[kind] <=> Stuck(kind) # {}
  <2>1. Turn[at.loop] > Turn[SortLoop[kind]] /\ Turn[at.loop] > Turn[EdgeLoop[kind]]
    BY <1>1, Turns DEF Kinds
  <2>2. DOMAIN edges[kind] = Present(plan[kind])
    BY <1>1, <2>1, GraphComplete
  <2>3. NamesOf(order[kind]) = Present(plan[kind]) \ Stuck(kind)
    BY OrderedAtEnd DEF OrderByLongestWait, RegularPlan, Kinds
  <2>4. Stuck(kind) \subseteq Present(plan[kind])
    BY DEF Stuck
  <2> QED
    BY <2>1, <2>2, <2>3, <2>4
<1>4. About(issues, "dependency_cycle") = {kind \in Kinds : Stuck(kind) # {}}
  BY <1>2, <1>3
<1> QED
  BY <1>4 DEF Kinds

\* Of a regular plan each relation is reported that it breaks.
LEMMA RelationsAre ==
  ASSUME PlanInvariant, DiagnosticsInvariant, Done, RegularPlan, NEW code \in Compared
  PROVE  About(issues, code) # {} <=> code \in Broken
<1>1. at.loop = "done" /\ ~ Limited
  BY DEF Done
<1>2. PlanTyped /\ ResourcesSaid /\ ResourceEdgesSaid /\ AssetEdgesSaid /\ SortSaid
  BY <1>1 DEF PlanInvariant, DiagnosticsInvariant
<1>3. \A n : /\ Passed(at, "resources", n) = n /\ Passed(at, "assets", n) = n
             /\ Passed(at, "resource_edges", n) = n /\ Passed(at, "asset_edges", n) = n
  BY <1>1, PassedIs
<1>4. code \in Relations
  BY DEF Compared
<1>5. CASE code \in {"provider_conflict", "mutator_conflict"}
  <2>1. /\ About(issues, "provider_conflict") = Clashes(plan.resources, "provides", Len(plan.resources))
        /\ About(issues, "mutator_conflict") = Clashes(plan.resources, "mutates", Len(plan.resources))
    BY <1>2, <1>3 DEF ResourcesSaid
  <2>2. \A field \in {"provides", "mutates"} :
          Clashes(plan.resources, field, Len(plan.resources)) # {} <=> Shared(field) \/ Repeating(field)
    BY <1>2, ClashesAre
  <2> QED
    BY <1>4, <1>5, <2>1, <2>2 DEF Broken
<1>6. CASE code \in {"missing_dependency", "missing_provider"}
  <2> DEFINE c == Cardinality(Present(plan.resources))
  <2>1. /\ About(issues, "missing_dependency")
             = Missing(plan.resources, "dependencies", Present(plan.resources), c)
        /\ About(issues, "missing_provider") = Missing(plan.resources, "requires", Brought("provides"), c)
    BY <1>2, <1>3, BroughtIs DEF ResourceEdgesSaid
  <2>2. \A field, known : Missing(plan.resources, field, known, c) # {} <=> Lacking("resources", field, known)
    BY <1>2, MissingAre DEF RegularPlan, Kinds
  <2> HIDE DEF c
  <2> QED
    BY <1>4, <1>6, <2>1, <2>2 DEF Broken
<1>7. CASE code = "missing_asset"
  <2> DEFINE c == Cardinality(Present(plan.assets))
  <2>1. About(issues, "missing_asset") = Missing(plan.assets, "dependencies", Present(plan.assets), c)
    BY <1>2, <1>3 DEF AssetEdgesSaid
  <2>2. Missing(plan.assets, "dependencies", Present(plan.assets), c) # {}
          <=> Lacking("assets", "dependencies", Present(plan.assets))
    BY <1>2, MissingAre DEF RegularPlan, Kinds
  <2> HIDE DEF c
  <2> QED
    BY <1>4, <1>7, <2>1, <2>2 DEF Broken
<1>8. CASE code = "missing_capability"
  <2>1. About(issues, "missing_capability") = Valid(plan.required) \ Valid(plan.available)
    BY <1>1, <1>2, Turns DEF SortSaid
  <2> QED
    BY <1>4, <1>8, <2>1 DEF Broken
<1>9. CASE code = "critical_optional_asset"
  <2>1. About(issues, "critical_optional_asset") # {} <=> \E id \in Present(plan.assets) : RequiredOptional(id)
    BY <1>1, OptionalIs
  <2> QED
    BY <1>4, <1>9, <2>1 DEF Broken
<1>10. CASE code = "dependency_cycle"
  <2>1. ~ Shared("provides")
    BY <1>10 DEF Compared
  <2> QED
    BY <1>4, <1>10, <2>1, CyclesAre DEF Broken
<1> QED
  BY <1>4, <1>5, <1>6, <1>7, <1>8, <1>9, <1>10 DEF Relations

\* When the loops are over, the diagnostics are exact.
LEMMA ExactAtEnd ==
  ASSUME PlanInvariant, DiagnosticsInvariant
  PROVE  DiagnosticsExact
<1> SUFFICES ASSUME Done
             PROVE  IF RegularPlan
                    THEN /\ Codes \cap Compared = Broken \cap Compared
                         /\ About(issues, "critical_optional_asset")
                              = {id \in Present(plan.assets) : RequiredOptional(id)}
                    ELSE issues # {}
  BY DEF DiagnosticsExact, RegularPlan, About
<1>1. at.loop = "done" /\ ~ Limited
  BY DEF Done
<1>2. CASE RegularPlan
  <2>1. \A code : code \in Codes <=> About(issues, code) # {}
    BY DEF Codes, About
  <2>2. \A code \in Compared : About(issues, code) # {} <=> code \in Broken
    BY <1>2, RelationsAre
  <2>3. Codes \cap Compared = Broken \cap Compared
    BY <2>1, <2>2
  <2> QED
    BY <1>1, <1>2, <2>3, OptionalIs
<1>3. CASE ~ RegularPlan
  <2>1. PICK kind \in Kinds : ~ Regular(plan[kind])
    BY <1>3 DEF RegularPlan, Kinds
  <2>2. PlanTyped /\ FaultsSaid
    BY <1>1 DEF PlanInvariant, DiagnosticsInvariant
  <2>3. Faulty(plan[kind], Len(plan[kind]))
    BY <2>1, <2>2, ListIs, FaultlessIsRegular
  <2>4. Passed(at, kind, Len(plan[kind])) = Len(plan[kind])
    BY <1>1, PassedIs DEF Kinds
  <2> QED
    BY <1>3, <2>2, <2>3, <2>4 DEF FaultsSaid
<1> QED
  BY <1>2, <1>3

\* DiagnosticsExact (WorldPlanValidator.cs, Validate): whatever the plan and whichever
\* loop meets what first, it is told exactly the relations that it breaks.
THEOREM Exact == PlanSpec => []DiagnosticsExact
<1> DEFINE I == PlanInvariant /\ DiagnosticsInvariant
<1>1. PlanInit => I
  BY PlanBegins, DiagnosticsInit
<1>2. I /\ [PlanNext]_planVars => I'
  BY PlanStep, DiagnosticsStep
<1>3. I => DiagnosticsExact
  BY ExactAtEnd
<1> QED
  BY <1>1, <1>2, <1>3, PTL DEF PlanSpec
=============================================================================
