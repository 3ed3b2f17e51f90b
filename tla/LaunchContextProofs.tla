------------------------- MODULE LaunchContextProofs -------------------------
(***************************************************************************)
(* Proofs about LaunchContext: for any trees, ways, names and directories, *)
(* the child starts in the directory that was pinned, unless a way led     *)
(* elsewhere after the last comparison; and for any environments and       *)
(* limits, the block the child gets is the sorted environment, refused for *)
(* its size exactly when it is too large.                                  *)
(***************************************************************************)
EXTENDS LaunchContext, FiniteSetTheorems, SequenceTheorems, WellFoundedInduction, TLAPS

\* The directories of the machine and the context's view of one of them.
PlacesOK ==
  /\ leads \in [Ways -> Trees \cup {Nothing}]
  /\ holds \in [Trees \X Names -> Ids \cup {Nothing}]
  /\ path \in Ways \X Names
  /\ pin \in Ids \cup {Nothing}

\* A context that goes on holds a directory, and once it was compared its path
\* finds that directory as long as every way leads where it led.
PinnedAndFound ==
  /\ step \in {"resolve", "match", "create"} => pin # Nothing
  /\ step = "create" /\ ~ rerouted => Found(path) = pin

PinInvariant == PlacesOK /\ PinnedAndFound /\ StartsWherePinned

-----------------------------------------------------------------------------
\* Nothing is pinned at the start, so the pinned place is not yet spoken of.
LEMMA PinInitially == Init => PinInvariant
<1> SUFFICES ASSUME Init PROVE PinInvariant
  OBVIOUS
<1>1. PlacesOK
  <2>1. leads \in [Ways -> Trees \cup {Nothing}]
    BY DEF Init
  <2>2. holds \in [Trees \X Names -> Ids \cup {Nothing}]
    BY DEF Init
  <2>3. path \in Ways \X Names /\ pin \in Ids \cup {Nothing}
    BY DEF Init
  <2> QED
    BY <2>1, <2>2, <2>3 DEF PlacesOK
<1>2. PinnedAndFound /\ StartsWherePinned
  BY DEF Init, PinnedAndFound, StartsWherePinned
<1> QED
  BY <1>1, <1>2 DEF PinInvariant

\* Opening a path finds a directory or nothing.
LEMMA FoundIsADirectory ==
  ASSUME PlacesOK, NEW p \in Ways \X Names
  PROVE  Found(p) \in Ids \cup {Nothing}
BY DEF PlacesOK, Found

\* The other processes cannot take away what a path finds and the context holds:
\* they move other directories, and onto free names only.
LEMMA HeldStaysFound ==
  ASSUME PlacesOK, NEW p \in Ways \X Names, pin # Nothing, Found(p) = pin,
         Rename \/ Make \/ Remove
  PROVE  Found(p)' = pin'
<1> DEFINE here == <<leads[p[1]], p[2]>>
<1>1. leads[p[1]] # Nothing /\ holds[here] = pin
  BY DEF Found
<1>2. here \in Trees \X Names
  BY <1>1 DEF PlacesOK
<1>3. UNCHANGED <<leads, pin>>
  BY DEF Rename, Make, Remove
<1>4. holds'[here] = pin
  <2>1. CASE Rename
    <3>1. PICK t \in Trees, m \in Names, n \in Names :
            /\ holds[<<t, m>>] # pin /\ holds[<<t, n>>] = Nothing
            /\ holds' = [holds EXCEPT ![<<t, n>>] = holds[<<t, m>>], ![<<t, m>>] = Nothing]
      BY <2>1 DEF Rename, Movable
    <3>2. here # <<t, m>> /\ here # <<t, n>>
      BY <1>1, <3>1
    <3> QED
      BY <1>1, <1>2, <3>1, <3>2 DEF PlacesOK
  <2>2. CASE Make
    <3>1. PICK q \in DOMAIN holds, id \in Ids :
            holds[q] = Nothing /\ holds' = [holds EXCEPT ![q] = id]
      BY <2>2 DEF Make
    <3> QED
      BY <1>1, <1>2, <3>1 DEF PlacesOK
  <2>3. CASE Remove
    <3>1. PICK q \in DOMAIN holds : holds[q] # pin /\ holds' = [holds EXCEPT ![q] = Nothing]
      BY <2>3 DEF Remove, Movable
    <3> QED
      BY <1>1, <1>2, <3>1 DEF PlacesOK
  <2> QED
    BY <2>1, <2>2, <2>3
<1> QED
  BY <1>1, <1>3, <1>4 DEF Found

\* No step, of the launcher or of others, leaves a directory without a place.
LEMMA PlacesKept == PlacesOK /\ [Next]_vars => PlacesOK'
<1> SUFFICES ASSUME PlacesOK, [Next]_vars PROVE PlacesOK'
  OBVIOUS
<1>1. CASE UNCHANGED <<leads, holds, path, pin>>
  BY <1>1 DEF PlacesOK
<1>2. CASE Pin
  BY <1>2, FoundIsADirectory DEF Pin, PlacesOK, world
<1>3. CASE Resolve
  <2>1. path' \in Ways \X Names
    BY <1>3 DEF Resolve, PlacesOK
  <2> QED
    BY <1>3, <2>1 DEF Resolve, PlacesOK, world
<1>4. CASE Reroute
  BY <1>4 DEF Reroute, PlacesOK
<1>5. CASE Rename
  BY <1>5 DEF Rename, PlacesOK
<1>6. CASE Make
  BY <1>6 DEF Make, PlacesOK
<1>7. CASE Remove
  BY <1>7 DEF Remove, PlacesOK
<1>8. CASE NoSnapshot \/ Capture \/ Prepare \/ Check \/ Sort \/ Match \/ Create
  BY <1>1, <1>8 DEF NoSnapshot, Capture, Prepare, Check, Sort, Match, Create, world
<1> QED
  BY <1>1, <1>2, <1>3, <1>4, <1>5, <1>6, <1>7, <1>8 DEF Next, Construct, Others, vars

\* A pinned handle stays the one of the directory that was found, and the child
\* is started where that handle is.
LEMMA PinnedKept == PinInvariant /\ [Next]_vars => (PinnedAndFound /\ StartsWherePinned)'
<1> SUFFICES ASSUME PinInvariant, [Next]_vars PROVE (PinnedAndFound /\ StartsWherePinned)'
  OBVIOUS
<1> USE DEF PinInvariant
<1>1. CASE UNCHANGED <<step, leads, holds, path, pin, child, rerouted>>
  BY <1>1 DEF PinnedAndFound, StartsWherePinned, Found
<1>2. CASE NoSnapshot \/ Capture \/ Prepare \/ Check \/ Sort
  <2>1. step' \in {step, "prepare", "check", "pin", "failed"}
    BY <1>2 DEF NoSnapshot, Capture, Prepare, Check, Sort, Fail
  <2>2. UNCHANGED <<leads, holds, path, pin, child, rerouted>>
    BY <1>2 DEF NoSnapshot, Capture, Prepare, Check, Sort, world
  <2> QED
    BY <2>1, <2>2 DEF PinnedAndFound, StartsWherePinned, Found
<1>3. CASE Pin
  BY <1>3 DEF Pin, Fail, PinnedAndFound, StartsWherePinned
<1>4. CASE Resolve
  BY <1>4 DEF Resolve, Fail, PinnedAndFound, StartsWherePinned
<1>5. CASE Match
  BY <1>5 DEF Match, Fail, SameDirectory, PinnedAndFound, StartsWherePinned, Found, world
<1>6. CASE Create
  BY <1>6 DEF Create, Fail, PinnedAndFound, StartsWherePinned
<1>7. CASE Reroute
  BY <1>7 DEF Reroute, Abroad, PinnedAndFound, StartsWherePinned
<1>8. CASE Rename \/ Make \/ Remove
  <2>1. step # "created" /\ UNCHANGED <<step, pin, path, rerouted>>
    BY <1>8 DEF Rename, Make, Remove, Abroad
  <2>2. step = "create" /\ ~ rerouted => Found(path)' = pin'
    <3>1. path \in Ways \X Names
      BY DEF PlacesOK
    <3> QED
      BY <1>8, <2>1, <3>1, HeldStaysFound DEF PinnedAndFound, Found
  <2> QED
    BY <2>1, <2>2 DEF PinnedAndFound, StartsWherePinned
<1> QED
  BY <1>1, <1>2, <1>3, <1>4, <1>5, <1>6, <1>7, <1>8 DEF Next, Construct, Others, vars

\* Whatever other processes rename, remove or make while the context holds its
\* directory, the child starts there, unless a way led elsewhere after the last
\* comparison: launch_context.cpp, directory_matches(), and the constructor of
\* suspended_image.cpp that calls it before CreateProcessW.
THEOREM StartsInPinnedDirectory == Spec => []StartsWherePinned
<1>1. PinInvariant /\ [Next]_vars => PinInvariant'
  BY PlacesKept, PinnedKept DEF PinInvariant
<1>2. PinInvariant => StartsWherePinned
  BY DEF PinInvariant
<1> QED
  BY <1>1, <1>2, PinInitially, PTL DEF Spec
-----------------------------------------------------------------------------
\* Induction over the naturals for a set: the least element outside would have a
\* predecessor inside.
LEMMA SetInduction ==
  ASSUME NEW S, 0 \in S, \A n \in Nat : n \in S => n + 1 \in S
  PROVE  Nat \subseteq S
<1> DEFINE T == Nat \ S
           R == {p \in Nat \X Nat : p[1] < p[2]}
<1>1. SUFFICES ASSUME T # {} PROVE FALSE
  OBVIOUS
<1>2. IsWellFoundedOn(R, Nat)
  BY NatLessThanWellFounded DEF OpToRel
<1>3. PICK x \in T : \A y \in T : ~ (<<y, x>> \in R)
  <2>1. T \subseteq Nat
    OBVIOUS
  <2> HIDE DEF T, R
  <2> QED
    BY WFMin, <1>1, <1>2, <2>1
<1>4. x \in Nat /\ x # 0
  BY <1>3
<1>5. x - 1 \in Nat /\ (x - 1) + 1 = x
  BY <1>4
<1>6. x - 1 \in T
  BY <1>3, <1>5
<1>7. <<x - 1, x>> \in R
  BY <1>4, <1>5
<1> QED
  BY <1>3, <1>6, <1>7

\* f holds the running sums of the first n values of w, from base on.
RunningSum(f, w, base, n) ==
  /\ f \in [0 .. n -> Nat]
  /\ f[0] = base
  /\ \A i \in 0 .. n - 1 : f[i + 1] = f[i] + w[i + 1]

\* A running sum is a function that starts at zero and adds one weight a step.
LEMMA RunningSumExists ==
  ASSUME NEW base \in Nat, NEW n \in Nat, NEW w \in [1 .. n -> Nat]
  PROVE  \E f : RunningSum(f, w, base, n)
<1> DEFINE S == {k \in Nat : k <= n => \E f : RunningSum(f, w, base, k)}
<1>1. 0 \in S
  <2> DEFINE f == [i \in 0 .. 0 |-> base]
  <2>1. RunningSum(f, w, base, 0)
    BY DEF RunningSum
  <2> QED
    BY <2>1
<1>2. ASSUME NEW k \in Nat, k \in S PROVE k + 1 \in S
  <2> SUFFICES ASSUME k + 1 <= n PROVE \E f : RunningSum(f, w, base, k + 1)
    OBVIOUS
  <2>1. PICK f : RunningSum(f, w, base, k)
    BY <1>2
  <2> DEFINE g == [i \in 0 .. k + 1 |-> IF i = k + 1 THEN f[k] + w[k + 1] ELSE f[i]]
  <2>2. w[k + 1] \in Nat /\ f[k] \in Nat
    BY <2>1 DEF RunningSum
  <2>3. g \in [0 .. k + 1 -> Nat] /\ g[0] = base
    BY <2>1, <2>2 DEF RunningSum
  <2>4. \A i \in 0 .. (k + 1) - 1 : g[i + 1] = g[i] + w[i + 1]
    BY <2>1 DEF RunningSum
  <2> HIDE DEF g
  <2> QED
    BY <2>3, <2>4 DEF RunningSum
<1>3. n \in S
  <2> HIDE DEF S
  <2> QED
    BY <1>1, <1>2, SetInduction
<1> QED
  BY <1>3

\* Sums of naturals only grow.
LEMMA RunningSumGrows ==
  ASSUME NEW n \in Nat, NEW w \in [1 .. n -> Nat], NEW base, NEW f,
         RunningSum(f, w, base, n), NEW i \in 0 .. n
  PROVE  f[i] <= f[n]
<1> DEFINE S == {k \in Nat : i + k <= n => f[i] <= f[i + k]}
<1>1. 0 \in S
  BY DEF RunningSum
<1>2. ASSUME NEW k \in Nat, k \in S PROVE k + 1 \in S
  <2> SUFFICES ASSUME i + (k + 1) <= n PROVE f[i] <= f[i + (k + 1)]
    OBVIOUS
  <2> DEFINE j == i + k
  <2>1. j \in 0 .. n - 1 /\ i + (k + 1) = j + 1
    OBVIOUS
  <2>2. f[i] <= f[j]
    BY <1>2, <2>1
  <2>3. f[j + 1] = f[j] + w[j + 1] /\ f[j] \in Nat /\ f[i] \in Nat /\ w[j + 1] \in Nat
    BY <2>1 DEF RunningSum
  <2> HIDE DEF j
  <2> QED
    BY <2>1, <2>2, <2>3
<1>3. n - i \in Nat /\ i + (n - i) = n
  OBVIOUS
<1>4. n - i \in S
  <2> HIDE DEF S
  <2> QED
    BY <1>1, <1>2, <1>3, SetInduction
<1> QED
  BY <1>3, <1>4

\* u and w are n naturals each, which differ at k only.
DifferAt(k, u, w, n) ==
  /\ u \in [1 .. n -> Nat] /\ w \in [1 .. n -> Nat] /\ k \in 1 .. n
  /\ \A i \in 1 .. n : i # k => u[i] = w[i]

\* One value changed changes the sum by the difference.
LEMMA RunningSumChanged ==
  ASSUME NEW n \in Nat, NEW w, NEW u, NEW k, DifferAt(k, u, w, n),
         NEW f, RunningSum(f, w, 1, n), NEW g, RunningSum(g, u, 1, n)
  PROVE  g[n] + w[k] = f[n] + u[k]
<1>0. /\ w \in [1 .. n -> Nat] /\ u \in [1 .. n -> Nat] /\ k \in 1 .. n
      /\ \A i \in 1 .. n : i # k => u[i] = w[i]
  BY DEF DifferAt
<1> DEFINE S == {i \in Nat : i <= n => IF i < k THEN g[i] = f[i] ELSE g[i] + w[k] = f[i] + u[k]}
<1>1. 0 \in S
  BY <1>0 DEF RunningSum
<1>2. ASSUME NEW i \in Nat, i \in S PROVE i + 1 \in S
  <2> SUFFICES ASSUME i + 1 <= n
               PROVE  IF i + 1 < k THEN g[i + 1] = f[i + 1] ELSE g[i + 1] + w[k] = f[i + 1] + u[k]
    OBVIOUS
  <2>1. i \in 0 .. n - 1
    OBVIOUS
  <2>2. f[i + 1] = f[i] + w[i + 1] /\ g[i + 1] = g[i] + u[i + 1]
    BY <2>1 DEF RunningSum
  <2>3. f[i] \in Nat /\ g[i] \in Nat /\ w[i + 1] \in Nat /\ w[k] \in Nat /\ u[k] \in Nat
    BY <1>0, <2>1 DEF RunningSum
  <2>4. i + 1 # k => u[i + 1] = w[i + 1]
    BY <1>0, <2>1
  <2>5. k \in Nat
    BY <1>0
  <2>6. IF i < k THEN g[i] = f[i] ELSE g[i] + w[k] = f[i] + u[k]
    BY <1>2, <2>1
  <2>7. CASE i + 1 = k
    <3>1. g[i] = f[i] /\ f[i + 1] = f[i] + w[k] /\ g[i + 1] = g[i] + u[k]
      BY <2>2, <2>5, <2>6, <2>7
    <3>2. g[i + 1] + w[k] = f[i + 1] + u[k]
      BY <2>3, <3>1
    <3> QED
      BY <2>5, <2>7, <3>2
  <2>8. CASE i + 1 < k
    BY <2>2, <2>3, <2>4, <2>5, <2>6, <2>8
  <2>9. CASE i + 1 > k
    <3>1. g[i] + w[k] = f[i] + u[k]
      BY <2>5, <2>6, <2>9
    <3>2. g[i + 1] = g[i] + w[i + 1] /\ f[i + 1] = f[i] + w[i + 1]
      BY <2>2, <2>4, <2>5, <2>9
    <3>3. (g[i] + w[i + 1]) + w[k] = (f[i] + w[i + 1]) + u[k]
      <4> DEFINE a == g[i]
                 b == f[i]
                 e == w[i + 1]
                 c == w[k]
                 d == u[k]
      <4>1. a \in Nat /\ b \in Nat /\ c \in Nat /\ d \in Nat /\ e \in Nat /\ a + c = b + d
        BY <2>3, <3>1
      <4> HIDE DEF a, b, c, d, e, S
      <4>2. (a + e) + c = (b + e) + d
        BY <4>1
      <4> QED
        BY <4>2 DEF a, b, c, d, e
    <3> QED
      BY <2>5, <2>9, <3>2, <3>3
  <2> QED
    BY <2>5, <2>7, <2>8, <2>9
<1>3. n \in S
  <2> HIDE DEF S
  <2> QED
    BY <1>1, <1>2, SetInduction
<1> QED
  BY <1>0, <1>3

\* p lists the first n naturals in some order.
Permutation(p, n) ==
  /\ p \in [1 .. n -> 1 .. n]
  /\ \A i, j \in 1 .. n : p[i] = p[j] => i = j
  /\ \A j \in 1 .. n : \E i \in 1 .. n : p[i] = j

\* g sums the values of w in the order p, f in their own.
PermutedSums(f, g, w, p, n) ==
  /\ w \in [1 .. n -> Nat]
  /\ Permutation(p, n)
  /\ RunningSum(f, w, 1, n)
  /\ RunningSum(g, [i \in 1 .. n |-> w[p[i]]], 1, n)

OrderFree(n) == \A f, g, w, p : PermutedSums(f, g, w, p, n) => f[n] = g[n]

\* Running sums of n + 1 values are running sums of the first n.
LEMMA RunningSumShorter ==
  ASSUME NEW n \in Nat, NEW w, NEW base, NEW f, RunningSum(f, w, base, n + 1)
  PROVE  /\ RunningSum([i \in 0 .. n |-> f[i]], [i \in 1 .. n |-> w[i]], base, n)
         /\ f[n] \in Nat /\ f[n + 1] = f[n] + w[n + 1]
<1> DEFINE h == [i \in 0 .. n |-> f[i]]
           v == [i \in 1 .. n |-> w[i]]
<1>1. f[0] = base /\ \A i \in 0 .. n : f[i + 1] = f[i] + w[i + 1]
  BY DEF RunningSum
<1>2. h \in [0 .. n -> Nat] /\ h[0] = base
  BY DEF RunningSum
<1>3. \A i \in 0 .. n - 1 : h[i + 1] = f[i + 1] /\ h[i] = f[i] /\ v[i + 1] = w[i + 1]
  OBVIOUS
<1>4. \A i \in 0 .. n - 1 : h[i + 1] = h[i] + v[i + 1]
  <2> HIDE DEF h, v
  <2> QED
    BY <1>1, <1>3
<1>5. RunningSum(h, v, base, n)
  <2> HIDE DEF h, v
  <2> QED
    BY <1>2, <1>4 DEF RunningSum
<1>6. f[n] \in Nat /\ f[n + 1] = f[n] + w[n + 1]
  BY <1>1 DEF RunningSum
<1> QED
  BY <1>5, <1>6

\* A permutation of n + 1 places, with the place that takes the last value given
\* what the last place takes, is one of the first n.
LEMMA PermutationShorter ==
  ASSUME NEW n \in Nat, NEW p, Permutation(p, n + 1),
         NEW q, q = [i \in 1 .. n |-> IF p[i] = n + 1 THEN p[n + 1] ELSE p[i]]
  PROVE  Permutation(q, n)
<1>1. /\ \A i \in 1 .. n + 1 : p[i] \in 1 .. n + 1
      /\ \A i, j \in 1 .. n + 1 : p[i] = p[j] => i = j
      /\ \A j \in 1 .. n + 1 : \E i \in 1 .. n + 1 : p[i] = j
  BY DEF Permutation
<1>2. \A i \in 1 .. n : i \in 1 .. n + 1 /\ i # n + 1
  OBVIOUS
<1>3. n + 1 \in 1 .. n + 1 /\ \A i \in 1 .. n + 1 : i # n + 1 => i \in 1 .. n
  OBVIOUS
<1>4. \A i \in 1 .. n : q[i] = IF p[i] = n + 1 THEN p[n + 1] ELSE p[i]
  OBVIOUS
<1>5. \A i \in 1 .. n : q[i] \in 1 .. n
  <2> TAKE i \in 1 .. n
  <2>1. p[i] # p[n + 1] /\ p[i] \in 1 .. n + 1 /\ p[n + 1] \in 1 .. n + 1
    BY <1>1, <1>2, <1>3
  <2> QED
    BY <1>3, <1>4, <2>1
<1>6. \A i, j \in 1 .. n : q[i] = q[j] => i = j
  <2> TAKE i, j \in 1 .. n
  <2>1. p[i] # p[n + 1] /\ p[j] # p[n + 1] /\ (p[i] = p[j] => i = j)
    BY <1>1, <1>2, <1>3
  <2> QED
    BY <1>4, <2>1
<1>7. ASSUME NEW j \in 1 .. n PROVE \E i \in 1 .. n : q[i] = j
  <2>1. PICK i \in 1 .. n + 1 : p[i] = j
    BY <1>1, <1>2
  <2>2. CASE i = n + 1
    <3>1. PICK k \in 1 .. n + 1 : p[k] = n + 1
      BY <1>1, <1>3
    <3>2. k \in 1 .. n
      BY <1>2, <1>3, <2>1, <2>2, <3>1
    <3> QED
      BY <1>4, <2>1, <2>2, <3>1, <3>2
  <2>3. CASE i # n + 1
    BY <1>2, <1>3, <1>4, <2>1, <2>3
  <2> QED
    BY <2>2, <2>3
<1> QED
  BY <1>5, <1>6, <1>7 DEF Permutation

\* Leave out the last place, and put its value where the last value stood: the
\* sum of what is left changes by the difference of the two.
LEMMA PermutedSumStep ==
  ASSUME NEW n \in Nat
  PROVE  OrderFree(n) => OrderFree(n + 1)
<1>1. ASSUME OrderFree(n), NEW f, NEW g, NEW w, NEW p, PermutedSums(f, g, w, p, n + 1)
      PROVE  f[n + 1] = g[n + 1]
  <2> DEFINE w1 == [i \in 1 .. n |-> w[i]]
             f1 == [i \in 0 .. n |-> f[i]]
             u  == [i \in 1 .. n + 1 |-> w[p[i]]]
             u1 == [i \in 1 .. n |-> u[i]]
             g1 == [i \in 0 .. n |-> g[i]]
             q  == [i \in 1 .. n |-> IF p[i] = n + 1 THEN p[n + 1] ELSE p[i]]
             x  == [i \in 1 .. n |-> w1[q[i]]]
  <2>1. /\ w \in [1 .. n + 1 -> Nat] /\ Permutation(p, n + 1)
        /\ RunningSum(f, w, 1, n + 1) /\ RunningSum(g, u, 1, n + 1)
    BY <1>1 DEF PermutedSums
  <2>2. /\ \A i \in 1 .. n + 1 : p[i] \in 1 .. n + 1
        /\ \A i, j \in 1 .. n + 1 : p[i] = p[j] => i = j
        /\ \A j \in 1 .. n + 1 : \E i \in 1 .. n + 1 : p[i] = j
    BY <2>1 DEF Permutation
  <2>3. /\ n + 1 \in 1 .. n + 1 /\ \A i \in 1 .. n + 1 : i # n + 1 => i \in 1 .. n
        /\ \A i \in 1 .. n : i \in 1 .. n + 1 /\ i # n + 1
    OBVIOUS
  <2>4. \A i \in 1 .. n + 1 : u[i] = w[p[i]] /\ u[i] \in Nat /\ w[i] \in Nat
    BY <2>1, <2>2
  <2>5. RunningSum(f1, w1, 1, n) /\ f1[n] \in Nat /\ f[n + 1] = f1[n] + w[n + 1]
    <3>1. f1[n] = f[n]
      OBVIOUS
    <3> QED
      BY <2>1, <3>1, RunningSumShorter
  <2>6. RunningSum(g1, u1, 1, n) /\ g1[n] \in Nat /\ g[n + 1] = g1[n] + u[n + 1]
    <3>1. g1[n] = g[n]
      OBVIOUS
    <3>2. RunningSum(g, u, 1, n + 1)
      BY <2>1
    <3> HIDE DEF u
    <3> QED
      BY <3>1, <3>2, RunningSumShorter
  <2>7. Permutation(q, n)
    BY <2>1, PermutationShorter
  <2>8. \A i \in 1 .. n : q[i] \in 1 .. n /\ x[i] = w[q[i]] /\ u1[i] = u[i] /\ w1[i] = w[i]
    <3>1. \A i \in 1 .. n : q[i] \in 1 .. n
      BY <2>7 DEF Permutation
    <3> HIDE DEF q
    <3> QED
      BY <3>1
  <2>9. w1 \in [1 .. n -> Nat] /\ u1 \in [1 .. n -> Nat] /\ x \in [1 .. n -> Nat]
    <3>1. w1 \in [1 .. n -> Nat]
      BY <2>1
    <3>2. u1 \in [1 .. n -> Nat]
      <4> HIDE DEF u
      <4> QED
        BY <2>3, <2>4
    <3>3. x \in [1 .. n -> Nat]
      <4> HIDE DEF w1, q
      <4> QED
        BY <3>1, <2>8
    <3> QED
      BY <3>1, <3>2, <3>3
  <2>10. PICK h : RunningSum(h, x, 1, n)
    <3> HIDE DEF x
    <3> QED
      BY <2>9, RunningSumExists
  <2>11. f1[n] = h[n]
    <3>1. PermutedSums(f1, h, w1, q, n)
      <4> HIDE DEF f1, w1, q
      <4> QED
        BY <2>5, <2>7, <2>9, <2>10 DEF PermutedSums
    <3> QED
      BY <1>1, <3>1 DEF OrderFree
  <2> HIDE DEF w1, f1, u, u1, g1, q, x
  <2>12. CASE p[n + 1] = n + 1
    <3>1. \A i \in 1 .. n : x[i] = u1[i]
      <4> TAKE i \in 1 .. n
      <4>1. p[i] # n + 1
        BY <2>2, <2>3, <2>12
      <4>2. q[i] = p[i]
        BY <4>1 DEF q
      <4> QED
        BY <2>3, <2>4, <2>8, <4>2
    <3>2. x = u1
      BY <2>9, <3>1
    <3>3. PermutedSums(f1, g1, w1, q, n)
      BY <2>5, <2>6, <2>7, <2>9, <3>2 DEF PermutedSums, x
    <3>4. f1[n] = g1[n]
      BY <1>1, <3>3 DEF OrderFree
    <3>5. u[n + 1] = w[n + 1]
      BY <2>3, <2>4, <2>12
    <3> QED
      BY <2>5, <2>6, <3>4, <3>5
  <2>13. CASE p[n + 1] # n + 1
    <3>1. PICK k \in 1 .. n : p[k] = n + 1
      BY <2>2, <2>3, <2>13
    <3>2. u1[k] = w[n + 1] /\ q[k] = p[n + 1]
      BY <2>3, <2>4, <2>8, <3>1 DEF q
    <3>3. x[k] = u[n + 1]
      BY <2>3, <2>4, <2>8, <3>2
    <3>4. \A i \in 1 .. n : i # k => x[i] = u1[i]
      <4> TAKE i \in 1 .. n
      <4> HAVE i # k
      <4>1. p[i] # n + 1
        BY <2>2, <2>3, <3>1
      <4>2. q[i] = p[i]
        BY <4>1 DEF q
      <4> QED
        BY <2>3, <2>4, <2>8, <4>2
    <3>5. RunningSum(g1, u1, 1, n) /\ RunningSum(h, x, 1, n)
      BY <2>6, <2>10
    <3>6. h[n] + u1[k] = g1[n] + x[k]
      <4>1. DifferAt(k, x, u1, n)
        BY <2>9, <3>4 DEF DifferAt
      <4> QED
        BY <3>5, <4>1, RunningSumChanged
    <3>7. u[n + 1] \in Nat /\ w[n + 1] \in Nat
      BY <2>3, <2>4
    <3> QED
      BY <2>5, <2>6, <2>11, <3>2, <3>3, <3>6, <3>7
  <2> QED
    BY <2>12, <2>13
<1> QED
  BY <1>1 DEF OrderFree

\* The sum of finitely many values does not depend on their order.
LEMMA PermutedSum ==
  ASSUME NEW n \in Nat, NEW f, NEW g, NEW w, NEW p, PermutedSums(f, g, w, p, n)
  PROVE  f[n] = g[n]
<1> DEFINE S == {k \in Nat : OrderFree(k)}
<1>1. OrderFree(0)
  BY DEF OrderFree, PermutedSums, RunningSum
<1>2. ASSUME NEW k \in Nat, OrderFree(k) PROVE OrderFree(k + 1)
  BY <1>2, PermutedSumStep
<1>3. n \in S
  <2>1. 0 \in S /\ \A k \in Nat : k \in S => k + 1 \in S
    BY <1>1, <1>2
  <2> HIDE DEF S
  <2> QED
    BY <2>1, SetInduction
<1> QED
  BY <1>3 DEF OrderFree

-----------------------------------------------------------------------------
\* The units of a block that begins with the first i entries, its last
\* terminator included.
Upto(entries) ==
  LET upto[i \in 0 .. Len(entries)] == IF i = 0 THEN 1 ELSE upto[i - 1] + entries[i].size + 1
  IN upto

Weights(entries) == [i \in 1 .. Len(entries) |-> entries[i].size + 1]

\* An entry weighs its size and the terminator, a natural number.
LEMMA EntryWeights ==
  ASSUME NEW entries \in Seq(Entries)
  PROVE  /\ Len(entries) \in Nat /\ DOMAIN entries = 1 .. Len(entries)
         /\ \A i \in 1 .. Len(entries) : entries[i] \in Entries
         /\ Weights(entries) \in [1 .. Len(entries) -> Nat]
<1>1. Len(entries) \in Nat /\ DOMAIN entries = 1 .. Len(entries)
  OBVIOUS
<1>2. \A i \in 1 .. Len(entries) : entries[i] \in Entries
  BY <1>1
<1>3. \A i \in 1 .. Len(entries) : entries[i].size \in Nat
  BY <1>2 DEF Entries
<1>4. Weights(entries) \in [1 .. Len(entries) -> Nat]
  BY <1>3 DEF Weights
<1> QED
  BY <1>1, <1>2, <1>4

\* The recursion of BlockUnits is well defined: a function that meets its
\* equation exists, and computes running sums.
LEMMA UptoSums ==
  ASSUME NEW entries \in Seq(Entries)
  PROVE  RunningSum(Upto(entries), Weights(entries), 1, Len(entries))
<1> DEFINE n == Len(entries)
           w == Weights(entries)
           Equation(f) == f = [i \in 0 .. n |-> IF i = 0 THEN 1 ELSE f[i - 1] + entries[i].size + 1]
<1>1. n \in Nat /\ w \in [1 .. n -> Nat] /\ \A i \in 1 .. n : entries[i].size \in Nat
  BY EntryWeights DEF Entries
<1>2. \A i \in 1 .. n : w[i] = entries[i].size + 1
  BY DEF Weights
<1>3. Upto(entries) = CHOOSE f : Equation(f)
  BY DEF Upto
<1> HIDE DEF n, w
<1>4. PICK f : RunningSum(f, w, 1, n)
  BY <1>1, RunningSumExists
<1>5. f \in [0 .. n -> Nat] /\ f[0] = 1
  BY <1>4 DEF RunningSum
<1>6. ASSUME NEW i \in 1 .. n PROVE f[i] = f[i - 1] + entries[i].size + 1
  <2>1. i - 1 \in 0 .. n - 1 /\ (i - 1) + 1 = i
    BY <1>1
  <2>2. f[i] = f[i - 1] + w[i] /\ f[i - 1] \in Nat
    BY <1>1, <1>4, <2>1 DEF RunningSum
  <2> QED
    BY <1>1, <1>2, <2>2
<1>7. Equation(f)
  <2>1. \A i \in 0 .. n : f[i] = IF i = 0 THEN 1 ELSE f[i - 1] + entries[i].size + 1
    BY <1>1, <1>5, <1>6
  <2> QED
    BY <1>5, <2>1
<1>8. Equation(Upto(entries))
  <2> HIDE DEF Equation
  <2> QED
    BY <1>3, <1>7
<1> DEFINE U == Upto(entries)
<1>9. U[0] = 1 /\ \A i \in 1 .. n : U[i] = U[i - 1] + entries[i].size + 1
  <2> HIDE DEF U
  <2>1. U = [i \in 0 .. n |-> IF i = 0 THEN 1 ELSE U[i - 1] + entries[i].size + 1]
    BY <1>8 DEF U
  <2>2. \A i \in 0 .. n : U[i] = IF i = 0 THEN 1 ELSE U[i - 1] + entries[i].size + 1
    BY <2>1
  <2> QED
    BY <1>1, <2>2
<1> HIDE DEF U, Equation
<1>10. \A i \in 0 .. n : U[i] = f[i]
  <2> DEFINE S == {i \in Nat : i <= n => U[i] = f[i]}
  <2>1. 0 \in S
    BY <1>5, <1>9
  <2>2. ASSUME NEW i \in Nat, i \in S PROVE i + 1 \in S
    <3> SUFFICES ASSUME i + 1 <= n PROVE U[i + 1] = f[i + 1]
      OBVIOUS
    <3>1. i + 1 \in 1 .. n /\ (i + 1) - 1 = i /\ U[i] = f[i]
      BY <1>1, <2>2
    <3>2. U[i + 1] = U[i] + entries[i + 1].size + 1
      BY <1>9, <3>1
    <3>3. f[i + 1] = f[i] + entries[i + 1].size + 1
      BY <1>6, <3>1
    <3> QED
      BY <3>1, <3>2, <3>3
  <2> HIDE DEF S
  <2>3. Nat \subseteq S
    BY <2>1, <2>2, SetInduction
  <2> QED
    BY <1>1, <2>3 DEF S
<1>11. U = f
  <2>1. DOMAIN U = 0 .. n /\ U = [i \in 0 .. n |-> U[i]]
    BY <1>8 DEF U, Equation
  <2> QED
    BY <1>5, <1>10, <2>1
<1> QED
  BY <1>4, <1>11 DEF U, n, w

\* The units of a block are the running sum of its entries, and at least two.
LEMMA BlockUnitsAre ==
  ASSUME NEW entries \in Seq(Entries)
  PROVE  /\ entries = << >> => BlockUnits(entries) = 2
         /\ entries # << >> => BlockUnits(entries) = Upto(entries)[Len(entries)]
BY DEF BlockUnits, Upto

\* Each prefix fits in the whole, and an entry adds itself and its terminator.
LEMMA UptoSteps ==
  ASSUME NEW entries \in Seq(Entries)
  PROVE  /\ Upto(entries)[0] = 1
         /\ \A i \in 0 .. Len(entries) : Upto(entries)[i] \in Nat
         /\ \A i \in 1 .. Len(entries) :
              /\ Upto(entries)[i] = Upto(entries)[i - 1] + entries[i].size + 1
              /\ Upto(entries)[i] <= BlockUnits(entries)
<1> DEFINE n == Len(entries)
           U == Upto(entries)
           w == Weights(entries)
<1>1. n \in Nat /\ w \in [1 .. n -> Nat] /\ \A i \in 1 .. n : w[i] = entries[i].size + 1 /\ entries[i].size \in Nat
  BY EntryWeights DEF Entries, Weights
<1>2. RunningSum(U, w, 1, n)
  BY UptoSums
<1> HIDE DEF U, w, n
<1>3. U[0] = 1 /\ \A i \in 0 .. n : U[i] \in Nat
  BY <1>2 DEF RunningSum
<1>4. ASSUME NEW i \in 1 .. n PROVE U[i] = U[i - 1] + entries[i].size + 1
  <2>1. i - 1 \in 0 .. n - 1 /\ (i - 1) + 1 = i
    BY <1>1
  <2>2. U[i] = U[i - 1] + w[i] /\ U[i - 1] \in Nat
    BY <1>1, <1>2, <2>1 DEF RunningSum
  <2> QED
    BY <1>1, <2>2
<1>5. ASSUME NEW i \in 1 .. n PROVE U[i] <= BlockUnits(entries)
  <2>1. i \in 0 .. n
    BY <1>1
  <2>2. U[i] <= U[n]
    BY <1>1, <1>2, <2>1, RunningSumGrows
  <2>3. entries # << >>
    BY DEF n
  <2> QED
    BY <2>2, <2>3, BlockUnitsAre DEF U, n
<1> QED
  BY <1>3, <1>4, <1>5 DEF U, n

\* Sorting entries whose keys differ moves each to one place: the block has the
\* same entries and the same units, its keys strictly in order.
LEMMA SortedBlock ==
  ASSUME NEW entries \in Seq(Entries), NEW s \in Sorted(entries), InOrder(s)
  PROVE  /\ s \in Seq(Entries)
         /\ BlockUnits(s) = BlockUnits(entries)
         /\ \A i, j \in DOMAIN s : i < j => s[i].key < s[j].key
         /\ {s[i] : i \in DOMAIN s} = {entries[i] : i \in DOMAIN entries}
<1> DEFINE n == Len(entries)
           all == {entries[i] : i \in DOMAIN entries}
<1>1. n \in Nat /\ DOMAIN entries = 1 .. n /\ \A i \in 1 .. n : entries[i] \in Entries
  BY EntryWeights
<1>2. s \in [1 .. n -> all] /\ all \subseteq Entries
  BY <1>1 DEF Sorted
<1>3. s \in Seq(Entries) /\ Len(s) = n /\ DOMAIN s = 1 .. n
  <2>1. s \in [1 .. n -> Entries]
    BY <1>2
  <2>2. s \in Seq(Entries)
    BY <1>1, <2>1, SeqDef
  <2> QED
    BY <1>1, <2>1, <2>2
<1>4. \A i \in 1 .. n : s[i] \in Entries /\ s[i].key \in Int
  BY <1>2 DEF Entries
<1>5. \A i, j \in 1 .. n : i < j => s[i].key < s[j].key
  <2> TAKE i, j \in 1 .. n
  <2> HAVE i < j
  <2>1. i \in 1 .. n - 1 /\ i + 1 \in 1 .. n
    BY <1>1
  <2>2. s[i].key < s[i + 1].key
    BY <1>3, <2>1 DEF InOrder
  <2>3. i + 1 < j => s[i + 1].key <= s[j].key
    BY <1>3, <2>1 DEF Sorted
  <2>4. s[i].key \in Int /\ s[i + 1].key \in Int /\ s[j].key \in Int
    BY <1>4, <2>1
  <2>5. i + 1 = j \/ i + 1 < j
    BY <1>1, <2>1
  <2> QED
    BY <2>2, <2>3, <2>4, <2>5
<1>6. \A i, j \in 1 .. n : s[i] = s[j] => i = j
  <2> TAKE i, j \in 1 .. n
  <2>1. i < j => s[i].key # s[j].key
    BY <1>4, <1>5
  <2>2. j < i => s[i].key # s[j].key
    BY <1>4, <1>5
  <2> QED
    BY <1>1, <2>1, <2>2
<1>7. ASSUME NEW e \in all
      PROVE  /\ \E i \in 1 .. n : s[i] = e
             /\ \A i, j \in 1 .. n : entries[i] = e /\ entries[j] = e => i = j
  <2> DEFINE inS == {i \in 1 .. n : s[i] = e}
             inE == {i \in 1 .. n : entries[i] = e}
  <2>1. Cardinality(inS) = Cardinality(inE)
    BY <1>1, <1>3 DEF Sorted
  <2>2. IsFiniteSet(inS) /\ IsFiniteSet(inE)
    <3>1. IsFiniteSet(1 .. n)
      BY <1>1, FS_Interval
    <3> QED
      BY <3>1, FS_Subset
  <2>3. inE # {}
    BY <1>1
  <2>4. Cardinality(inS) \in Nat /\ Cardinality(inE) # 0
    BY <2>2, <2>3, FS_EmptySet, FS_CardinalityType
  <2>5. PICK i \in 1 .. n : s[i] = e
    <3>1. inS # {}
      BY <2>1, <2>2, <2>4, FS_EmptySet
    <3> QED
      BY <3>1
  <2>6. inS = {i}
    BY <1>6, <2>5
  <2>7. Cardinality(inE) = 1
    BY <2>1, <2>6, FS_Singleton
  <2>8. PICK x : inE = {x}
    BY <2>2, <2>7, FS_Singleton
  <2> QED
    BY <2>5, <2>8
<1>8. {s[i] : i \in DOMAIN s} = all
  BY <1>2, <1>3, <1>7
<1>9. BlockUnits(s) = BlockUnits(entries)
  <2>1. CASE n = 0
    <3>1. s = << >> /\ entries = << >>
      BY <1>3, <2>1
    <3> QED
      BY <3>1
  <2>2. CASE n # 0
    <3> HIDE DEF all
    <3> DEFINE p == [i \in 1 .. n |-> CHOOSE j \in 1 .. n : entries[j] = s[i]]
    <3>1. \A i \in 1 .. n : p[i] \in 1 .. n /\ entries[p[i]] = s[i]
      <4> TAKE i \in 1 .. n
      <4>1. s[i] \in all
        BY <1>2
      <4>2. \E j \in 1 .. n : entries[j] = s[i]
        BY <1>1, <4>1 DEF all
      <4> QED
        BY <4>2
    <3> HIDE DEF p
    <3>2. Permutation(p, n)
      <4>1. p \in [1 .. n -> 1 .. n]
        BY <3>1 DEF p
      <4>2. \A i, j \in 1 .. n : p[i] = p[j] => i = j
        BY <1>6, <3>1
      <4>3. ASSUME NEW j \in 1 .. n PROVE \E i \in 1 .. n : p[i] = j
        <5>1. entries[j] \in all
          BY <1>1 DEF all
        <5>2. PICK i \in 1 .. n : s[i] = entries[j]
          BY <1>7, <5>1
        <5>3. p[i] = j
          BY <1>7, <3>1, <5>1, <5>2
        <5> QED
          BY <5>3
      <4> QED
        BY <4>1, <4>2, <4>3 DEF Permutation
    <3>3. Weights(s) = [i \in 1 .. n |-> Weights(entries)[p[i]]]
      <4>1. \A i \in 1 .. n : Weights(entries)[p[i]] = s[i].size + 1
        BY <3>1 DEF Weights
      <4> QED
        BY <1>3, <4>1 DEF Weights
    <3>4. /\ RunningSum(Upto(entries), Weights(entries), 1, n)
          /\ RunningSum(Upto(s), [i \in 1 .. n |-> Weights(entries)[p[i]]], 1, n)
          /\ Weights(entries) \in [1 .. n -> Nat]
      BY <1>3, <3>3, EntryWeights, UptoSums
    <3>5. PermutedSums(Upto(entries), Upto(s), Weights(entries), p, n)
      BY <3>2, <3>4 DEF PermutedSums
    <3>6. Upto(entries)[n] = Upto(s)[n]
      BY <1>1, <3>5, PermutedSum
    <3>7. s # << >> /\ entries # << >>
      BY <1>3, <2>2
    <3> QED
      BY <1>3, <3>6, <3>7, BlockUnitsAre
  <2> QED
    BY <2>1, <2>2
<1> QED
  BY <1>3, <1>5, <1>8, <1>9

-----------------------------------------------------------------------------
EnvOK ==
  env \in [entries : Environments, captured : BOOLEAN, index : Nat, units : Nat, block : Seq(Entries)]

\* Where the scan and the count stand: the scan's offset is one below the units
\* of what it passed, for it does not count the block's last terminator.
Counts ==
  LET entries == env.entries
  IN /\ step = "capture" =>
          /\ env.index \in 1 .. Len(entries) + 1
          /\ env.units + 1 = Upto(entries)[env.index - 1]
     /\ step = "prepare" => env.index = 1
     /\ step = "check" =>
          /\ env.index \in 1 .. Len(entries) + 1 /\ Len(entries) <= MaxEntries
          /\ env.units = IF entries = << >> THEN 2 ELSE Upto(entries)[env.index - 1]
          /\ env.units <= MaxUnits
          /\ \A i \in 1 .. env.index - 1 : entries[i].valid /\ entries[i].size <= MaxEntryUnits

Stages ==
  /\ step \in {"capture", "prepare", "check", "pin", "resolve", "match", "create", "created", "failed"}
  /\ step # "failed" => error = "none"

EnvInvariant == EnvOK /\ Stages /\ Counts /\ EnvironmentExact

\* Before the capture nothing is counted and no block exists.
LEMMA EnvInitially == Init => EnvInvariant
<1> SUFFICES ASSUME Init PROVE EnvInvariant
  OBVIOUS
<1>1. PICK entries \in Environments, captured \in BOOLEAN :
        /\ env = [entries |-> entries, captured |-> captured, index |-> 1, units |-> 0, block |-> << >>]
        /\ step = IF captured THEN "capture" ELSE "prepare"
  BY DEF Init
<1>2. EnvOK
  BY <1>1 DEF EnvOK
<1>3. Stages /\ EnvironmentExact
  BY <1>1 DEF Init, Stages, EnvironmentExact
<1>4. Counts
  <2>1. entries \in Seq(Entries)
    BY EnvironmentAssumption
  <2>2. Len(entries) \in Nat /\ Upto(entries)[0] = 1
    BY <2>1, UptoSteps
  <2> QED
    BY <1>1, <2>2 DEF Counts
<1> QED
  BY <1>2, <1>3, <1>4 DEF EnvInvariant

\* What a step that leaves the environment alone must see to.
LEMMA EnvUntouched ==
  ASSUME EnvInvariant, UNCHANGED env,
         \/ UNCHANGED <<step, error>>
         \/ step' = "failed" /\ error' \in {"launch_directory_input", "launch_environment_capture_failed"}
         \/ step' = "failed" /\ ~ WellFormed
         \/ step' = "failed" /\ error' # "none" /\ (error' = "launch_environment_limit" <=> TooLarge)
         \/ /\ step \in {"pin", "resolve", "match", "create"} /\ UNCHANGED error
            /\ step' \in {"pin", "resolve", "match", "create", "created"}
  PROVE  EnvInvariant'
<1> USE DEF EnvInvariant
<1>1. WellFormed' = WellFormed /\ TooLarge' = TooLarge
  BY DEF WellFormed, TooLarge
<1>2. EnvOK'
  BY DEF EnvOK
<1>3. Stages'
  BY DEF Stages
<1>4. Counts'
  BY DEF Counts
<1>5. EnvironmentExact'
  <2>1. CASE UNCHANGED <<step, error>>
    BY <2>1, <1>1 DEF EnvironmentExact
  <2>2. CASE step' = "failed" /\ error' \in {"launch_directory_input", "launch_environment_capture_failed"}
    BY <2>2 DEF EnvironmentExact
  <2>3. CASE step' = "failed" /\ ~ WellFormed
    BY <2>3, <1>1 DEF EnvironmentExact
  <2>4. CASE step' = "failed" /\ (error' = "launch_environment_limit" <=> TooLarge)
    BY <2>4, <1>1 DEF EnvironmentExact
  <2>5. CASE /\ step \in {"pin", "resolve", "match", "create"} /\ UNCHANGED error
             /\ step' \in {"pin", "resolve", "match", "create", "created"}
    <3>1. error' = "none"
      BY <2>5 DEF Stages
    <3> QED
      BY <2>5, <3>1, <1>1 DEF EnvironmentExact
  <2> QED
    BY <2>1, <2>2, <2>3, <2>4, <2>5
<1> QED
  BY <1>2, <1>3, <1>4, <1>5

\* The facts every step about the environment starts from.
LEMMA EnvFacts ==
  ASSUME EnvInvariant
  PROVE  /\ env.entries \in Seq(Entries) /\ Len(env.entries) \in Nat
         /\ env.index \in Nat /\ env.units \in Nat
         /\ MaxUnits \in Nat /\ MaxEntries \in Nat /\ MaxEntryUnits \in Nat
         /\ \A i \in 1 .. Len(env.entries) :
              env.entries[i] \in Entries /\ env.entries[i].size \in Nat
         /\ DOMAIN env.entries = 1 .. Len(env.entries)
<1>1. env.entries \in Seq(Entries)
  BY EnvironmentAssumption DEF EnvInvariant, EnvOK
<1>2. env.index \in Nat /\ env.units \in Nat
  BY DEF EnvInvariant, EnvOK
<1> QED
  BY <1>1, <1>2, EnvironmentAssumption, EntryWeights DEF Entries

\* An environment whose prefix does not fit is too large.
LEMMA PrefixTooLarge ==
  ASSUME EnvInvariant, NEW i \in 1 .. Len(env.entries), Upto(env.entries)[i] > MaxUnits
  PROVE  TooLarge
<1>1. env.entries \in Seq(Entries) /\ env.entries # << >> /\ MaxUnits \in Nat
  BY EnvFacts
<1>2. Upto(env.entries)[i] <= BlockUnits(env.entries)
  BY <1>1, UptoSteps
<1>3. Len(env.entries) \in 0 .. Len(env.entries) /\ i \in 0 .. Len(env.entries)
  BY EnvFacts
<1>4. BlockUnits(env.entries) \in Nat /\ Upto(env.entries)[i] \in Nat
  BY <1>1, <1>3, UptoSteps, BlockUnitsAre
<1> QED
  BY <1>1, <1>2, <1>4 DEF TooLarge

\* GetEnvironmentStringsW: the entries are new, nothing of them is counted yet.
LEMMA CaptureKeeps == EnvInvariant /\ Capture => EnvInvariant'
<1> SUFFICES ASSUME EnvInvariant, Capture PROVE EnvInvariant'
  OBVIOUS
<1> DEFINE entries == env.entries
           entry == entries[env.index]
           offset == env.units + entry.size
           n == Len(entries)
<1>1. /\ env.index \in 1 .. n + 1 /\ env.units + 1 = Upto(entries)[env.index - 1]
      /\ step = "capture" /\ error = "none"
  BY DEF Capture, EnvInvariant, Counts, Stages
<1>2. /\ n \in Nat /\ env.index \in Nat /\ env.units \in Nat /\ entries \in Seq(Entries)
      /\ MaxUnits \in Nat /\ MaxEntries \in Nat
      /\ \A i \in 1 .. n : entries[i].size \in Nat
  BY EnvFacts
<1>3. env.index <= n =>
        /\ env.index \in 1 .. n /\ entry.size \in Nat /\ offset \in Nat
        /\ Upto(entries)[env.index] = offset + 2
  <2> SUFFICES ASSUME env.index <= n
               PROVE  /\ env.index \in 1 .. n /\ entry.size \in Nat /\ offset \in Nat
                      /\ Upto(entries)[env.index] = offset + 2
    OBVIOUS
  <2>1. env.index \in 1 .. n
    BY <1>1, <1>2
  <2>2. entry.size \in Nat
    BY <1>2, <2>1
  <2>3. Upto(entries)[env.index] = Upto(entries)[env.index - 1] + entry.size + 1
    BY <1>2, <2>1, UptoSteps
  <2> DEFINE size == entry.size
             before == Upto(entries)[env.index - 1]
             upto == Upto(entries)[env.index]
  <2>4. size \in Nat /\ env.units \in Nat /\ env.units + 1 = before /\ upto = before + size + 1
    BY <1>1, <1>2, <2>2, <2>3
  <2> HIDE DEF size, before, upto
  <2>5. env.units + size \in Nat /\ upto = (env.units + size) + 2
    BY <2>4
  <2> QED
    BY <2>1, <2>2, <2>5 DEF size, upto
<1>4. CASE env.index > n
  <2>1. step' = "prepare" /\ env' = [env EXCEPT !.index = 1, !.units = 0] /\ error' = error
    BY <1>4 DEF Capture
  <2>2. EnvOK' /\ env'.entries = entries /\ env'.index = 1
    BY <2>1 DEF EnvInvariant, EnvOK
  <2> QED
    BY <1>1, <2>1, <2>2 DEF EnvInvariant, Stages, Counts, EnvironmentExact
<1>5. CASE env.index <= n /\ (env.index > MaxEntries \/ ScanRefuses(offset))
  <2>1. step' = "failed" /\ error' = "launch_environment_limit" /\ UNCHANGED env
    <3>1. ~ (env.index > n)
      BY <1>2, <1>5
    <3> QED
      BY <1>5, <3>1 DEF Capture, Fail
  <2>2. CASE env.index > MaxEntries
    <3>1. n > MaxEntries
      BY <1>2, <1>5, <2>2
    <3>2. TooLarge
      BY <3>1 DEF TooLarge
    <3> QED
      BY <2>1, <3>2, EnvUntouched
  <2>3. CASE ScanRefuses(offset)
    <3>1. Upto(entries)[env.index] > MaxUnits
      BY <1>2, <1>3, <1>5, <2>3 DEF ScanRefuses
    <3>2. TooLarge
      BY <1>3, <1>5, <3>1, PrefixTooLarge
    <3> QED
      BY <2>1, <3>2, EnvUntouched
  <2> QED
    BY <1>5, <2>2, <2>3
<1>6. CASE env.index <= n /\ ~ (env.index > MaxEntries \/ ScanRefuses(offset))
  <2>1. env' = [env EXCEPT !.index = @ + 1, !.units = offset + 1] /\ UNCHANGED <<step, error>>
    <3>1. ~ (env.index > n)
      BY <1>2, <1>6
    <3> QED
      BY <1>6, <3>1 DEF Capture
  <2>2. env'.entries = entries /\ env'.index = env.index + 1 /\ env'.units = offset + 1
    BY <2>1 DEF EnvInvariant, EnvOK
  <2>3. EnvOK'
    <3>1. env.index + 1 \in Nat /\ offset + 1 \in Nat
      BY <1>2, <1>3, <1>6
    <3> HIDE DEF offset
    <3> QED
      BY <2>1, <3>1 DEF EnvInvariant, EnvOK
  <2>4. env.index + 1 \in 1 .. n + 1 /\ (offset + 1) + 1 = Upto(entries)[(env.index + 1) - 1]
    <3>1. (env.index + 1) - 1 = env.index
      BY <1>2
    <3>2. Upto(entries)[env.index] = offset + 2 /\ offset \in Nat /\ env.index \in 1 .. n
      BY <1>3, <1>6
    <3> HIDE DEF offset
    <3>3. env.index + 1 \in 1 .. n + 1
      BY <1>2, <3>2
    <3>4. (offset + 1) + 1 = offset + 2
      BY <3>2
    <3> QED
      BY <3>1, <3>2, <3>3, <3>4
  <2>5. Counts'
    BY <1>1, <2>1, <2>2, <2>4 DEF Counts
  <2> QED
    BY <1>1, <2>1, <2>3, <2>5 DEF EnvInvariant, Stages, EnvironmentExact
<1> QED
  BY <1>1, <1>2, <1>4, <1>5, <1>6

\* The number of entries is compared before the first of them is read.
LEMMA PrepareKeeps == EnvInvariant /\ Prepare => EnvInvariant'
<1> SUFFICES ASSUME EnvInvariant, Prepare PROVE EnvInvariant'
  OBVIOUS
<1> DEFINE entries == env.entries
<1>1. step = "prepare" /\ env.index = 1 /\ error = "none"
  BY DEF Prepare, EnvInvariant, Counts, Stages
<1>2. entries \in Seq(Entries) /\ Len(entries) \in Nat /\ MaxUnits \in Nat /\ MaxUnits >= 2
  BY EnvFacts, EnvironmentAssumption
<1>3. CASE step' = "failed" /\ error' = "launch_directory_input" /\ UNCHANGED env
  BY <1>3, EnvUntouched
<1>4. CASE Len(entries) > MaxEntries /\ Fail("launch_environment_limit") /\ UNCHANGED env
  <2>1. TooLarge
    BY <1>4 DEF TooLarge
  <2> QED
    BY <1>4, <2>1, EnvUntouched DEF Fail
<1>5. CASE /\ Len(entries) <= MaxEntries
           /\ env' = [env EXCEPT !.units = IF env.entries = << >> THEN 2 ELSE 1]
           /\ step' = "check" /\ UNCHANGED error
  <2>1. /\ env'.entries = entries /\ env'.index = 1
        /\ env'.units = IF entries = << >> THEN 2 ELSE 1
    BY <1>1, <1>5 DEF EnvInvariant, EnvOK
  <2>2. EnvOK'
    BY <1>5 DEF EnvInvariant, EnvOK
  <2>3. Upto(entries)[0] = 1
    BY <1>2, UptoSteps
  <2>4. Counts'
    BY <1>2, <1>5, <2>1, <2>3 DEF Counts
  <2> QED
    BY <1>1, <1>5, <2>2, <2>4 DEF EnvInvariant, Stages, EnvironmentExact
<1> QED
  BY <1>3, <1>4, <1>5 DEF Prepare, Fail

\* One more entry is valid, or the environment really breaks a bound.
LEMMA CheckKeeps == EnvInvariant /\ Check => EnvInvariant'
<1> SUFFICES ASSUME EnvInvariant, Check PROVE EnvInvariant'
  OBVIOUS
<1> DEFINE entries == env.entries
           entry == entries[env.index]
           n == Len(entries)
<1>1. /\ step = "check" /\ error = "none" /\ env.index \in 1 .. n + 1 /\ env.index <= n
      /\ n <= MaxEntries /\ env.units <= MaxUnits
      /\ env.units = IF entries = << >> THEN 2 ELSE Upto(entries)[env.index - 1]
      /\ \A i \in 1 .. env.index - 1 : entries[i].valid /\ entries[i].size <= MaxEntryUnits
  BY DEF Check, EnvInvariant, Counts, Stages
<1>2. /\ n \in Nat /\ env.index \in Nat /\ env.units \in Nat /\ entries \in Seq(Entries)
      /\ MaxUnits \in Nat /\ MaxEntryUnits \in Nat /\ DOMAIN entries = 1 .. n
      /\ \A i \in 1 .. n : entries[i].size \in Nat
  BY EnvFacts
<1>3. env.index \in 1 .. n /\ entry.size \in Nat
  BY <1>1, <1>2
<1>4. Upto(entries)[env.index] = env.units + entry.size + 1
  <2>1. entries # << >>
    BY <1>2, <1>3
  <2>2. Upto(entries)[env.index] = Upto(entries)[env.index - 1] + entry.size + 1
    BY <1>2, <1>3, UptoSteps
  <2> QED
    BY <1>1, <2>1, <2>2
<1>5. CASE ~ entry.valid \/ entry.size > MaxEntryUnits
  <2>1. ~ WellFormed
    BY <1>2, <1>3, <1>5 DEF WellFormed
  <2>2. step' = "failed" /\ UNCHANGED env
    BY <1>5 DEF Check, Fail
  <2> QED
    BY <2>1, <2>2, EnvUntouched
<1>6. CASE entry.valid /\ entry.size <= MaxEntryUnits /\ entry.size + 1 > MaxUnits - env.units
  <2>1. step' = "failed" /\ error' = "launch_environment_limit" /\ UNCHANGED env
    BY <1>2, <1>3, <1>6 DEF Check, Fail
  <2>2. Upto(entries)[env.index] > MaxUnits
    BY <1>2, <1>3, <1>4, <1>6
  <2>3. TooLarge
    BY <1>3, <2>2, PrefixTooLarge
  <2> QED
    BY <2>1, <2>3, EnvUntouched
<1>7. CASE entry.valid /\ entry.size <= MaxEntryUnits /\ ~ (entry.size + 1 > MaxUnits - env.units)
  <2>1. env' = [env EXCEPT !.index = @ + 1, !.units = @ + entry.size + 1] /\ UNCHANGED <<step, error>>
    BY <1>2, <1>3, <1>7 DEF Check
  <2>2. env'.entries = entries /\ env'.index = env.index + 1 /\ env'.units = env.units + entry.size + 1
    BY <2>1 DEF EnvInvariant, EnvOK
  <2>3. EnvOK'
    <3>1. env.index + 1 \in Nat /\ env.units + entry.size + 1 \in Nat
      BY <1>2, <1>3
    <3> HIDE DEF entry
    <3> QED
      BY <2>1, <3>1 DEF EnvInvariant, EnvOK
  <2>4. /\ env.index + 1 \in 1 .. n + 1 /\ (env.index + 1) - 1 = env.index /\ entries # << >>
        /\ env.units + entry.size + 1 <= MaxUnits
    <3> DEFINE size == entry.size
    <3>1. entries # << >>
      BY <1>2, <1>3
    <3>2. size \in Nat /\ ~ (size + 1 > MaxUnits - env.units)
      BY <1>3, <1>7
    <3> HIDE DEF size
    <3>3. env.units + size + 1 <= MaxUnits
      BY <1>2, <3>2
    <3>4. env.index + 1 \in 1 .. n + 1 /\ (env.index + 1) - 1 = env.index
      BY <1>2, <1>3
    <3> QED
      BY <3>1, <3>3, <3>4 DEF size
  <2>5. \A i \in 1 .. env.index : entries[i].valid /\ entries[i].size <= MaxEntryUnits
    BY <1>1, <1>2, <1>7
  <2>6. Counts'
    <3>1. env'.index - 1 = env.index
      BY <2>2, <2>4
    <3> QED
      BY <1>1, <1>4, <2>1, <2>2, <2>4, <2>5, <3>1 DEF Counts
  <2> QED
    BY <1>1, <2>1, <2>3, <2>6 DEF EnvInvariant, Stages, EnvironmentExact
<1> HIDE DEF entry
<1> QED
  BY <1>2, <1>3, <1>5, <1>6, <1>7

\* Sorting keeps the sum, so the block has the units that were counted.
LEMMA SortKeeps == EnvInvariant /\ Sort => EnvInvariant'
<1> SUFFICES ASSUME EnvInvariant, Sort PROVE EnvInvariant'
  OBVIOUS
<1> DEFINE entries == env.entries
           n == Len(entries)
<1>1. /\ step = "check" /\ error = "none" /\ env.index \in 1 .. n + 1 /\ env.index > n
      /\ n <= MaxEntries /\ env.units <= MaxUnits
      /\ env.units = IF entries = << >> THEN 2 ELSE Upto(entries)[env.index - 1]
      /\ \A i \in 1 .. env.index - 1 : entries[i].valid /\ entries[i].size <= MaxEntryUnits
  BY DEF Sort, EnvInvariant, Counts, Stages
<1>2. /\ n \in Nat /\ env.index \in Nat /\ env.units \in Nat /\ entries \in Seq(Entries)
      /\ MaxUnits \in Nat /\ MaxEntries \in Nat /\ DOMAIN entries = 1 .. n
  BY EnvFacts
<1>3. env.index - 1 = n
  BY <1>1, <1>2
<1>4. WellFormed
  BY <1>1, <1>2, <1>3 DEF WellFormed
<1>5. BlockUnits(entries) = env.units
  BY <1>1, <1>2, <1>3, BlockUnitsAre
<1>6. ~ TooLarge
  BY <1>1, <1>2, <1>5 DEF TooLarge
<1>7. PICK s \in Sorted(entries) :
        IF InOrder(s)
        THEN \/ env' = [env EXCEPT !.block = s] /\ step' = "pin" /\ UNCHANGED error
             \/ Fail("launch_environment_hash_failed") /\ UNCHANGED env
        ELSE Fail("launch_environment_duplicate") /\ UNCHANGED env
  BY DEF Sort
<1>8. CASE step' = "failed" /\ UNCHANGED env
           /\ error' \in {"launch_environment_hash_failed", "launch_environment_duplicate"}
  BY <1>6, <1>8, EnvUntouched
<1>9. CASE InOrder(s) /\ env' = [env EXCEPT !.block = s] /\ step' = "pin" /\ UNCHANGED error
  <2>1. /\ s \in Seq(Entries) /\ BlockUnits(s) = BlockUnits(entries)
        /\ \A i, j \in DOMAIN s : i < j => s[i].key < s[j].key
        /\ {s[i] : i \in DOMAIN s} = {entries[i] : i \in DOMAIN entries}
    BY <1>2, <1>9, SortedBlock
  <2>2. env'.entries = entries /\ env'.units = env.units /\ env'.block = s
    BY <1>9 DEF EnvInvariant, EnvOK
  <2>3. EnvOK'
    BY <1>9, <2>1 DEF EnvInvariant, EnvOK
  <2>4. WellFormed' /\ ~ TooLarge'
    BY <1>4, <1>6, <2>2 DEF WellFormed, TooLarge
  <2>5. EnvironmentExact'
    <3>1. error' = "none"
      BY <1>1, <1>9
    <3> QED
      BY <1>5, <2>1, <2>2, <2>4, <3>1 DEF EnvironmentExact
  <2>6. Counts' /\ Stages'
    BY <1>1, <1>9 DEF Counts, Stages
  <2> QED
    BY <2>3, <2>5, <2>6 DEF EnvInvariant
<1> QED
  BY <1>7, <1>8, <1>9 DEF Fail

\* The inductive invariant of the environment is kept by every step.
LEMMA EnvKept == EnvInvariant /\ [Next]_vars => EnvInvariant'
<1> SUFFICES ASSUME EnvInvariant, [Next]_vars PROVE EnvInvariant'
  OBVIOUS
<1>1. CASE UNCHANGED <<env, step, error>>
  BY <1>1, EnvUntouched
<1>2. CASE NoSnapshot
  BY <1>2, EnvUntouched DEF NoSnapshot, Fail
<1>3. CASE Pin \/ Resolve \/ Match \/ Create
  <2>1. step \in {"pin", "resolve", "match", "create"} /\ UNCHANGED env
    BY <1>3 DEF Pin, Resolve, Match, Create
  <2>2. ~ TooLarge
    BY <2>1 DEF EnvInvariant, EnvironmentExact
  <2>3. CASE step' = "failed"
    <3>1. error' \in {"launch_directory_unavailable", "launch_directory_resolution",
                      "observer_context_directory_changed", "observer_create_failed"}
      BY <1>3, <2>3 DEF Pin, Resolve, Match, Create, Fail
    <3> QED
      BY <2>1, <2>2, <2>3, <3>1, EnvUntouched
  <2>4. CASE step' # "failed"
    <3>1. UNCHANGED error /\ step' \in {"pin", "resolve", "match", "create", "created"}
      BY <1>3, <2>4 DEF Pin, Resolve, Match, Create, Fail
    <3> QED
      BY <2>1, <3>1, EnvUntouched
  <2> QED
    BY <2>3, <2>4
<1>4. CASE Others
  BY <1>1, <1>4 DEF Others, Reroute, Rename, Make, Remove
<1> QED
  BY <1>1, <1>2, <1>3, <1>4, CaptureKeeps, PrepareKeeps, CheckKeeps, SortKeeps
  DEF Next, Construct, vars

\* The two counts of the environment block refuse the same environments, and the
\* block that the child gets is the whole environment in the order of its keys,
\* counted exactly, for any environments and any limits: launch_context.cpp, the
\* scan of capture_environment() and the count in prepare().
THEOREM EnvironmentIsExact == Spec => []EnvironmentExact
<1>1. EnvInvariant => EnvironmentExact
  BY DEF EnvInvariant
<1> QED
  BY <1>1, EnvInitially, EnvKept, PTL DEF Spec
=============================================================================
