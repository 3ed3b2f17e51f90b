-------------------- MODULE LoaderObservationProofs --------------------
(***************************************************************************)
(* The observation loop keeps its invariants, and implements the walk of   *)
(* its line, for every line of stages, every limit, every set of files and *)
(* bases and every order of events.                                        *)
(*                                                                         *)
(* ObservationInvariant is inductive. Each of its parts leans on others:   *)
(* where the run is on its line (OnTheLine) says which handler a stop has; *)
(* that the debug registers hold the awaited stop (RegistersKept) is what  *)
(* makes a stop the one awaited; the counters (Counted) date the events;   *)
(* the record and the ledger (RecordKept) hold the same mappings, what the *)
(* handlers found (FoundLive) is among them, and the mappings a stop asks  *)
(* about are younger than the stop (LoadsFresh), which is why no reason of *)
(* the ledger's defences is ever given (ReasonMeans).                      *)
(***************************************************************************)
EXTENDS LoaderObservation, FiniteSetTheorems, SequenceTheorems, WellFoundedInduction, TLAPS

------------------------------------------------------------------------------
(* The stages in order, and the geometry of a run's line                    *)

\* All the stages in the order of Rank.
AllLine == LoadLine \o BootstrapLine \o GameLine

\* What a concatenation holds, place by place.
LEMMA SecondPart ==
  ASSUME NEW S, NEW a \in Seq(S), NEW b \in Seq(S), NEW i \in 1 .. Len(b)
  PROVE  (a \o b)[i + Len(a)] = b[i]
<1>1. Len(a) \in Nat /\ Len(b) \in Nat /\ i + Len(a) \in 1 .. Len(a) + Len(b)
  BY LenProperties
<1>2. ~ (i + Len(a) <= Len(a)) /\ (i + Len(a)) - Len(a) = i
  BY <1>1
<1>3. (a \o b)[i + Len(a)] =
        IF i + Len(a) <= Len(a) THEN a[i + Len(a)] ELSE b[(i + Len(a)) - Len(a)]
  BY <1>1, ConcatProperties
<1> QED
  BY <1>2, <1>3

\* What a concatenation holds, from either side.
LEMMA Concatenation ==
  ASSUME NEW S, NEW a \in Seq(S), NEW b \in Seq(S)
  PROVE  /\ a \o b \in Seq(S)
         /\ Len(a \o b) = Len(a) + Len(b)
         /\ \A i \in 1 .. Len(a) : (a \o b)[i] = a[i]
         /\ \A i \in 1 .. Len(b) : (a \o b)[i + Len(a)] = b[i]
<1>1. \A i \in 1 .. Len(a) : (a \o b)[i] = a[i]
  BY ConcatProperties, LenProperties
<1>2. a \o b \in Seq(S) /\ Len(a \o b) = Len(a) + Len(b)
  BY ConcatProperties
<1>3. \A i \in 1 .. Len(b) : (a \o b)[i + Len(a)] = b[i]
  BY SecondPart
<1> QED
  BY <1>1, <1>2, <1>3

\* The three parts of the line: the loader's seven stages, the bootstrap call,
\* the game's own start.
LEMMA LinesTyped ==
  /\ LoadLine \in Seq(Stages) /\ Len(LoadLine) = 7
  /\ BootstrapLine \in Seq(Stages) /\ Len(BootstrapLine) = 1 /\ BootstrapLine[1] = "bootstrap"
  /\ GameLine \in Seq(Stages) /\ Len(GameLine) = 21
<1>1. LoadLine \in Seq(Stages) /\ Len(LoadLine) = 7
  <2>1. LoadLine \in Seq({LoadLine[i] : i \in 1 .. 7}) /\ Len(LoadLine) = 7 /\ DOMAIN LoadLine = 1 .. 7
    BY DEF LoadLine
  <2> QED
    BY <2>1 DEF Stages
<1>2. BootstrapLine \in Seq(Stages) /\ Len(BootstrapLine) = 1 /\ BootstrapLine[1] = "bootstrap"
  <2>1. "bootstrap" \in Stages
    BY DEF Stages
  <2> QED
    BY <2>1 DEF BootstrapLine
<1>3. GameLine \in Seq(Stages) /\ Len(GameLine) = 21
  <2>1. GameLine \in Seq({GameLine[i] : i \in 1 .. 21}) /\ Len(GameLine) = 21 /\ DOMAIN GameLine = 1 .. 21
    BY DEF GameLine
  <2> QED
    BY <2>1 DEF Stages, LateStages
<1> QED
  BY <1>1, <1>2, <1>3

\* The lines place by place.
LEMMA StagesInOrder ==
  /\ LoadLine \in [1 .. 7 -> Stages] /\ GameLine \in [1 .. 21 -> Stages]
  /\ AllLine \in [1 .. 29 -> Stages]
  /\ \A i \in 1 .. 7 : AllLine[i] = LoadLine[i]
  /\ AllLine[8] = "bootstrap"
  /\ \A i \in 1 .. 21 : AllLine[i + 8] = GameLine[i]
<1> DEFINE l == 7  m == 1  n == 21
<1>1. /\ LoadLine \in Seq(Stages) /\ Len(LoadLine) = l /\ l \in Nat
      /\ BootstrapLine \in Seq(Stages) /\ Len(BootstrapLine) = m /\ m \in Nat
      /\ GameLine \in Seq(Stages) /\ Len(GameLine) = n /\ n \in Nat
  BY LinesTyped
<1>2. l = 7 /\ m = 1 /\ n = 21
  OBVIOUS
<1>3. BootstrapLine[1] = "bootstrap"
  BY LinesTyped
<1> HIDE DEF l, m, n
<1>4. /\ LoadLine \o BootstrapLine \in Seq(Stages) /\ Len(LoadLine \o BootstrapLine) = l + m
      /\ \A i \in 1 .. l : (LoadLine \o BootstrapLine)[i] = LoadLine[i]
      /\ \A i \in 1 .. m : (LoadLine \o BootstrapLine)[i + l] = BootstrapLine[i]
  <2>1. LoadLine \in Seq(Stages) /\ BootstrapLine \in Seq(Stages)
    BY <1>1
  <2>2. /\ LoadLine \o BootstrapLine \in Seq(Stages)
        /\ Len(LoadLine \o BootstrapLine) = Len(LoadLine) + Len(BootstrapLine)
        /\ \A i \in 1 .. Len(LoadLine) : (LoadLine \o BootstrapLine)[i] = LoadLine[i]
        /\ \A i \in 1 .. Len(BootstrapLine) :
             (LoadLine \o BootstrapLine)[i + Len(LoadLine)] = BootstrapLine[i]
    BY <2>1, Concatenation
  <2> QED
    BY <1>1, <2>2
<1> DEFINE lm == l + m
<1>5. lm \in Nat /\ Len(LoadLine \o BootstrapLine) = lm
  BY <1>1, <1>4
<1>6. lm = 8
  BY <1>2
<1> HIDE DEF lm
<1>7. /\ AllLine \in Seq(Stages) /\ Len(AllLine) = lm + n
      /\ \A i \in 1 .. lm : AllLine[i] = (LoadLine \o BootstrapLine)[i]
      /\ \A i \in 1 .. n : AllLine[i + lm] = GameLine[i]
  <2>1. LoadLine \o BootstrapLine \in Seq(Stages) /\ GameLine \in Seq(Stages)
    BY <1>1, <1>4
  <2>2. /\ AllLine \in Seq(Stages)
        /\ Len(AllLine) = Len(LoadLine \o BootstrapLine) + Len(GameLine)
        /\ \A i \in 1 .. Len(LoadLine \o BootstrapLine) :
             AllLine[i] = (LoadLine \o BootstrapLine)[i]
        /\ \A i \in 1 .. Len(GameLine) :
             AllLine[i + Len(LoadLine \o BootstrapLine)] = GameLine[i]
    BY <2>1, Concatenation DEF AllLine
  <2> QED
    BY <1>1, <1>5, <2>2
<1>8. LoadLine \in [1 .. l -> Stages] /\ GameLine \in [1 .. n -> Stages]
  BY <1>1, LenProperties
<1>9. AllLine \in [1 .. lm + n -> Stages]
  BY <1>7, LenProperties
<1>10. lm + n = 29
  BY <1>2, <1>6
<1>11. AllLine[8] = "bootstrap"
  <2>1. 8 \in 1 .. lm /\ 1 \in 1 .. m /\ 8 = 1 + l
    BY <1>2, <1>6
  <2> QED
    BY <1>3, <1>4, <1>7, <2>1
<1>12. \A i \in 1 .. 7 : AllLine[i] = LoadLine[i]
  <2>1. \A i \in 1 .. 7 : i \in 1 .. lm /\ i \in 1 .. l
    BY <1>2, <1>6
  <2> QED
    BY <1>4, <1>7, <2>1, Zenon
<1>13. \A i \in 1 .. 21 : AllLine[i + 8] = GameLine[i]
  BY <1>2, <1>6, <1>7, Zenon
<1> QED
  BY <1>2, <1>8, <1>9, <1>10, <1>11, <1>12, <1>13

\* The loader's stages, one by one.
LEMMA LoadStages ==
  /\ LoadLine[1] = "entry" /\ LoadLine[2] = "proxy" /\ LoadLine[3] = "startup"
  /\ LoadLine[4] = "codec" /\ LoadLine[5] = "binding" /\ LoadLine[6] = "asi_call"
  /\ LoadLine[7] = "asi_return"
  BY DEF LoadLine

\* The stages of the game's own start, one by one.
LEMMA GameStages ==
  /\ GameLine[1] = "startup_return" /\ GameLine[2] = "crt" /\ GameLine[3] = "application"
  /\ GameLine[4] = "platform" /\ GameLine[5] = "suppression" /\ GameLine[6] = "instance"
  /\ GameLine[7] = "dispatch" /\ GameLine[8] = "routing" /\ GameLine[9] = "prelude"
  /\ GameLine[10] = "manager" /\ GameLine[11] = "seh" /\ GameLine[12] = "lock"
  /\ GameLine[13] = "acquire" /\ GameLine[14] = "query" /\ GameLine[15] = "copy"
  /\ GameLine[16] = "completion" /\ GameLine[17] = "ready" /\ GameLine[18] = "tables"
  /\ GameLine[19] = "disk" /\ GameLine[20] = "allocation" /\ GameLine[21] = "channels"
  BY DEF GameLine

\* No stage occurs twice, so the rank of a stage is its place.
LEMMA RankIsPlace ==
  \A i \in 1 .. 29 : AllLine[i] \in Stages /\ Rank[AllLine[i]] = i
<1>1. \A k \in 1 .. 29 : k \in 1 .. 7 \/ k = 8 \/ \E m \in 1 .. 21 : k = m + 8
  <2>1. ASSUME NEW k \in 1 .. 29, k > 8 PROVE k - 8 \in 1 .. 21 /\ k = (k - 8) + 8
    BY <2>1
  <2> QED
    BY <2>1
<1>2. \A k, m \in 1 .. 7 : LoadLine[k] = LoadLine[m] => k = m
  BY LoadStages
<1>3. \A k, m \in 1 .. 21 : GameLine[k] = GameLine[m] => k = m
  BY GameStages
<1>4. \A k \in 1 .. 7, m \in 1 .. 21 : LoadLine[k] # GameLine[m]
  BY LoadStages, GameStages
<1>5. \A k \in 1 .. 7, m \in 1 .. 21 : LoadLine[k] # "bootstrap" /\ GameLine[m] # "bootstrap"
  BY LoadStages, GameStages
<1>6. ASSUME NEW i \in 1 .. 29, NEW j \in 1 .. 29, AllLine[i] = AllLine[j]
      PROVE  i = j
  BY <1>1, <1>2, <1>3, <1>4, <1>5, <1>6, StagesInOrder
<1>7. ASSUME NEW i \in 1 .. 29
      PROVE  AllLine[i] \in Stages /\ Rank[AllLine[i]] = i
  <2>1. AllLine[i] \in Stages /\ DOMAIN AllLine = 1 .. 29
    BY StagesInOrder
  <2>2. Rank[AllLine[i]] = CHOOSE j \in 1 .. 29 : AllLine[j] = AllLine[i]
    BY <2>1 DEF Rank, Index, AllLine
  <2> QED
    BY <1>6, <2>1, <2>2
<1> QED
  BY <1>7

\* The rank of every stage of the code, in figures.
LEMMA Ranks ==
  /\ \A i \in 1 .. 7 : Rank[LoadLine[i]] = i
  /\ Rank["bootstrap"] = 8
  /\ \A i \in 1 .. 21 : Rank[GameLine[i]] = i + 8
<1>1. \A i \in 1 .. 21 : i + 8 \in 1 .. 29
  OBVIOUS
<1> QED
  BY <1>1, RankIsPlace, StagesInOrder

\* Which ranks the stages take; the late ones are those behind the bootstrap.
LEMMA SetsOfStages ==
  /\ LateStages = {GameLine[i] : i \in 1 .. 21}
  /\ Stages = {LoadLine[i] : i \in 1 .. 7} \cup {"bootstrap"} \cup LateStages
  /\ \A s \in Stages : Rank[s] \in 1 .. 29
  /\ \A s \in LateStages : Rank[s] \in 9 .. 29
  /\ \A s \in Stages : s \in LateStages <=> Rank[s] > 8
<1>1. DOMAIN LoadLine = 1 .. 7 /\ DOMAIN GameLine = 1 .. 21
  BY StagesInOrder
<1>2. /\ LateStages = {GameLine[i] : i \in 1 .. 21}
      /\ Stages = {LoadLine[i] : i \in 1 .. 7} \cup {"bootstrap"} \cup LateStages
  BY <1>1 DEF LateStages, Stages
<1> QED
  BY <1>2, Ranks

\* Every rank is a number.
LEMMA RanksTyped == \A s \in Stages : Rank[s] \in 1 .. 29
  BY SetsOfStages

\* Rank and place are each other's inverse.
LEMMA StageOfRank ==
  \A s \in Stages : AllLine[Rank[s]] = s
<1>1. \A i \in 1 .. 7 : AllLine[Rank[LoadLine[i]]] = LoadLine[i]
  BY Ranks, StagesInOrder
<1>2. AllLine[Rank["bootstrap"]] = "bootstrap"
  BY Ranks, StagesInOrder
<1>3. \A i \in 1 .. 21 : AllLine[Rank[GameLine[i]]] = GameLine[i]
  BY Ranks, StagesInOrder
<1> QED
  BY <1>1, <1>2, <1>3, SetsOfStages

\* The ranks of the stages the loop asks about by name.
LEMMA NamedRanks ==
  /\ Rank["entry"] = 1 /\ Rank["proxy"] = 2 /\ Rank["startup"] = 3 /\ Rank["codec"] = 4
  /\ Rank["binding"] = 5 /\ Rank["asi_call"] = 6 /\ Rank["asi_return"] = 7
  /\ Rank["bootstrap"] = 8 /\ Rank["startup_return"] = 9 /\ Rank["instance"] = 14
  /\ "startup_return" \in LateStages /\ "instance" \in LateStages
  /\ \A s \in Stages :
       /\ Rank[s] = 1 => s = "entry"
       /\ Rank[s] = 2 => s = "proxy"
       /\ Rank[s] = 3 => s = "startup"
       /\ Rank[s] = 4 => s = "codec"
       /\ Rank[s] = 5 => s = "binding"
       /\ Rank[s] = 6 => s = "asi_call"
       /\ Rank[s] = 7 => s = "asi_return"
       /\ Rank[s] = 8 => s = "bootstrap"
       /\ Rank[s] = 9 => s = "startup_return"
       /\ Rank[s] = 14 => s = "instance"
<1>1. /\ Rank[LoadLine[1]] = 1 /\ Rank[LoadLine[2]] = 2 /\ Rank[LoadLine[3]] = 3
      /\ Rank[LoadLine[4]] = 4 /\ Rank[LoadLine[5]] = 5 /\ Rank[LoadLine[6]] = 6
      /\ Rank[LoadLine[7]] = 7 /\ Rank["bootstrap"] = 8
  BY Ranks
<1>2. Rank[GameLine[1]] = 1 + 8 /\ Rank[GameLine[6]] = 6 + 8
  BY Ranks
<1>3. GameLine[1] = "startup_return" /\ GameLine[6] = "instance"
  BY GameStages
<1>4. GameLine[1] \in LateStages /\ GameLine[6] \in LateStages
  BY SetsOfStages
<1>5. /\ AllLine[1] = LoadLine[1] /\ AllLine[2] = LoadLine[2] /\ AllLine[3] = LoadLine[3]
      /\ AllLine[4] = LoadLine[4] /\ AllLine[5] = LoadLine[5] /\ AllLine[6] = LoadLine[6]
      /\ AllLine[7] = LoadLine[7] /\ AllLine[8] = "bootstrap"
      /\ AllLine[1 + 8] = GameLine[1] /\ AllLine[6 + 8] = GameLine[6]
  BY StagesInOrder
<1>6. /\ AllLine[1] = "entry" /\ AllLine[2] = "proxy" /\ AllLine[3] = "startup"
      /\ AllLine[4] = "codec" /\ AllLine[5] = "binding" /\ AllLine[6] = "asi_call"
      /\ AllLine[7] = "asi_return" /\ AllLine[8] = "bootstrap"
      /\ AllLine[9] = "startup_return" /\ AllLine[14] = "instance"
  BY <1>3, <1>5, LoadStages
<1> QED
  BY <1>1, <1>2, <1>3, <1>4, <1>6, LoadStages, StageOfRank

\* The stages up to the bootstrap are stages, and none of them is late.
LEMMA EarlyNames ==
  \A s \in {"entry", "proxy", "startup", "codec", "binding", "asi_call", "asi_return", "bootstrap"} :
    s \in Stages /\ s \notin LateStages
<1>1. \A i \in 1 .. 7 : LoadLine[i] \in Stages
  BY SetsOfStages
<1>2. \A s \in {"entry", "proxy", "startup", "codec", "binding", "asi_call", "asi_return"} : s \in Stages
  BY <1>1, LoadStages
<1>3. "bootstrap" \in Stages
  BY SetsOfStages
<1>4. \A s \in LateStages : Rank[s] > 8
  BY SetsOfStages
<1> QED
  BY <1>2, <1>3, <1>4, NamedRanks

\* The first part of a line, up to a stage that is on it.
LEMMA FirstPart ==
  ASSUME NEW line \in Seq(Stages), NEW i \in 1 .. Len(line)
  PROVE  /\ SubSeq(line, 1, i) \in Seq(Stages)
         /\ Len(SubSeq(line, 1, i)) = i
         /\ \A j \in 1 .. i : SubSeq(line, 1, i)[j] = line[j]
  BY SubSeqProperties

\* Every line is the load line cut somewhere, the load line and the bootstrap,
\* or the load line and a first part of the game's own start.
Shaped(line) ==
  /\ line \in Seq(Stages)
  /\ Len(line) \in 0 .. 28
  /\ \A i \in 1 .. Len(line) :
       \/ i <= 7 /\ line[i] = LoadLine[i]
       \/ i = 8 /\ Len(line) = 8 /\ line[i] = "bootstrap"
       \/ i >= 8 /\ i - 7 \in 1 .. 21 /\ line[i] = GameLine[i - 7]

\* Every goal's line has one of the three shapes.
LEMMA LinesShaped ==
  ASSUME NEW g \in Goals
  PROVE  Shaped(Line(g))
<1> DEFINE l == 7  n == 21
<1>0. /\ LoadLine \in Seq(Stages) /\ Len(LoadLine) = l /\ l \in Nat /\ l = 7
      /\ BootstrapLine \in Seq(Stages) /\ Len(BootstrapLine) = 1 /\ BootstrapLine[1] = "bootstrap"
      /\ GameLine \in Seq(Stages) /\ Len(GameLine) = n /\ n \in Nat /\ n = 21
  BY LinesTyped
<1>10. LoadLine \in Seq(Stages) /\ BootstrapLine \in Seq(Stages) /\ GameLine \in Seq(Stages)
  BY <1>0
<1> HIDE DEF l, n
<1>1. CASE g = "loader"
  <2>1. Line(g) = <<>>
    BY <1>1 DEF Line, Lines, Goals
  <2> QED
    BY <2>1 DEF Shaped
<1>2. ASSUME NEW k \in DOMAIN LoadLine, LoadLine[k] = g, g # "loader"
      PROVE  Shaped(Line(g))
  <2>1. Line(g) = SubSeq(LoadLine, 1, Index(LoadLine, g))
    BY <1>2 DEF Line, Lines
  <2>2. Index(LoadLine, g) \in 1 .. 7
    BY <1>2, StagesInOrder DEF Index
  <2>3. PICK i \in 1 .. 7 : i = Index(LoadLine, g)
    BY <2>2
  <2>4. i \in 1 .. Len(LoadLine)
    BY <1>0
  <2>5. /\ Line(g) \in Seq(Stages) /\ Len(Line(g)) = i
        /\ \A j \in 1 .. i : Line(g)[j] = LoadLine[j]
    BY <1>10, <2>1, <2>3, <2>4, FirstPart
  <2> QED
    BY <2>5 DEF Shaped
<1>3. CASE g \in {"bootstrap", "frame"}
  <2>1. \A k \in 1 .. 7 : LoadLine[k] # g
    BY <1>3, LoadStages
  <2>2. Line(g) = LoadLine \o BootstrapLine
    BY <1>3, <2>1, StagesInOrder DEF Line, Lines
  <2>3. /\ Line(g) \in Seq(Stages) /\ Len(Line(g)) = Len(LoadLine) + Len(BootstrapLine)
        /\ \A i \in 1 .. Len(LoadLine) : Line(g)[i] = LoadLine[i]
        /\ \A i \in 1 .. Len(BootstrapLine) : Line(g)[i + Len(LoadLine)] = BootstrapLine[i]
    BY <1>10, <2>2, Concatenation
  <2>4. /\ Len(Line(g)) = 8 /\ Line(g)[8] = "bootstrap"
        /\ \A i \in 1 .. 7 : Line(g)[i] = LoadLine[i]
    BY <1>0, <2>3
  <2>5. Line(g) \in Seq(Stages)
    BY <2>3
  <2> QED
    BY <2>4, <2>5 DEF Shaped
<1>4. ASSUME g # "loader", g \notin {"bootstrap", "frame"}, \A k \in DOMAIN LoadLine : LoadLine[k] # g
      PROVE  Shaped(Line(g))
  <2>1. Line(g) = LoadLine \o SubSeq(GameLine, 1, Index(GameLine, g))
    BY <1>4 DEF Line, Lines
  <2>2. \E i \in 1 .. 21 : GameLine[i] = g
    BY <1>4, StagesInOrder DEF Goals, Stages, LateStages
  <2>3. Index(GameLine, g) \in 1 .. 21
    BY <2>2, StagesInOrder DEF Index
  <2>4. PICK i \in 1 .. 21 : i = Index(GameLine, g)
    BY <2>3
  <2> DEFINE part == SubSeq(GameLine, 1, i)
  <2>5. i \in 1 .. Len(GameLine)
    BY <1>0
  <2>6. /\ part \in Seq(Stages) /\ Len(part) = i
        /\ \A j \in 1 .. i : part[j] = GameLine[j]
    BY <1>0, <2>5, FirstPart
  <2>7. Line(g) = LoadLine \o part
    BY <2>1, <2>4
  <2> HIDE DEF part
  <2>8. /\ Line(g) \in Seq(Stages) /\ Len(Line(g)) = Len(LoadLine) + Len(part)
        /\ \A j \in 1 .. Len(LoadLine) : Line(g)[j] = LoadLine[j]
        /\ \A j \in 1 .. Len(part) : Line(g)[j + Len(LoadLine)] = part[j]
    <3>1. part \in Seq(Stages)
      BY <2>6
    <3> QED
      BY <1>10, <2>7, <3>1, Concatenation
  <2>9. /\ Line(g) \in Seq(Stages) /\ Len(Line(g)) = 7 + i
        /\ \A j \in 1 .. 7 : Line(g)[j] = LoadLine[j]
        /\ \A j \in 1 .. i : Line(g)[j + 7] = GameLine[j]
    BY <1>0, <2>6, <2>8
  <2>10. \A k \in 1 .. 7 + i : k > 7 =>
           k - 7 \in 1 .. i /\ k - 7 \in 1 .. 21 /\ (k - 7) + 7 = k
    OBVIOUS
  <2>11. \A k \in 1 .. 7 + i :
           \/ k <= 7 /\ Line(g)[k] = LoadLine[k]
           \/ k >= 8 /\ k - 7 \in 1 .. 21 /\ Line(g)[k] = GameLine[k - 7]
    <3>1. ASSUME NEW k \in 1 .. 7 + i, k > 7
          PROVE  Line(g)[k] = GameLine[k - 7]
      <4>1. k - 7 \in 1 .. i /\ (k - 7) + 7 = k
        BY <2>10, <3>1
      <4>2. \A j \in 1 .. i : Line(g)[j + 7] = GameLine[j]
        BY <2>9
      <4> QED
        BY <4>1, <4>2
    <3>2. ASSUME NEW k \in 1 .. 7 + i, ~ (k > 7)
          PROVE  k <= 7 /\ k \in 1 .. 7
      BY <3>2
    <3>3. \A j \in 1 .. 7 : Line(g)[j] = LoadLine[j]
      BY <2>9
    <3> QED
      BY <2>10, <3>1, <3>2, <3>3
  <2>12. Line(g) \in Seq(Stages) /\ Len(Line(g)) = 7 + i /\ 7 + i \in 0 .. 28
    BY <2>9
  <2> QED
    BY <2>11, <2>12 DEF Shaped
<1> QED
  BY <1>1, <1>2, <1>3, <1>4

\* The stages of the first n places of a line.
Upto(line, n) == {line[i] : i \in 1 .. n}

\* The rank of what is at a place of a line.
LEMMA PlaceOfRank ==
  ASSUME NEW line, Shaped(line), NEW i \in 1 .. Len(line)
  PROVE  /\ line[i] \in Stages
         /\ i <= 7 => Rank[line[i]] = i /\ line[i] = LoadLine[i]
         /\ i = 8 => Rank[line[i]] \in {8, 9}
         /\ i >= 9 => Rank[line[i]] = i + 1
         /\ Rank[line[i]] = 8 => i = 8 /\ Len(line) = 8
<1>1. line \in Seq(Stages)
  BY DEF Shaped
<1>2. line[i] \in Stages
  BY <1>1
<1>3. Len(line) \in Nat
  BY <1>1
<1>4. CASE i <= 7 /\ line[i] = LoadLine[i]
  <2>1. i \in 1 .. 7
    BY <1>3, <1>4
  <2>2. Rank[line[i]] = i
    BY <1>4, <2>1, Ranks
  <2> QED
    BY <1>2, <1>4, <2>1, <2>2
<1>5. CASE i = 8 /\ Len(line) = 8 /\ line[i] = "bootstrap"
  BY <1>2, <1>5, Ranks
<1>6. CASE i >= 8 /\ i - 7 \in 1 .. 21 /\ line[i] = GameLine[i - 7]
  <2>1. Rank[line[i]] = (i - 7) + 8
    BY <1>6, Ranks
  <2> QED
    BY <1>2, <1>3, <1>6, <2>1
<1>7. \/ i <= 7 /\ line[i] = LoadLine[i]
      \/ i = 8 /\ Len(line) = 8 /\ line[i] = "bootstrap"
      \/ i >= 8 /\ i - 7 \in 1 .. 21 /\ line[i] = GameLine[i - 7]
  BY DEF Shaped
<1> QED
  BY <1>4, <1>5, <1>6, <1>7

\* Ranks grow along a line, so no stage is on it twice.
LEMMA RanksGrow ==
  ASSUME NEW line, Shaped(line), NEW i \in 1 .. Len(line), NEW j \in 1 .. Len(line)
  PROVE  /\ i < j => Rank[line[i]] < Rank[line[j]]
         /\ line[i] = line[j] => i = j
<1>1. Len(line) \in Nat
  BY DEF Shaped
<1>2. ASSUME NEW a \in 1 .. Len(line), NEW b \in 1 .. Len(line), a < b
      PROVE  Rank[line[a]] < Rank[line[b]]
  BY <1>1, <1>2, PlaceOfRank
<1>3. \A a \in 1 .. Len(line) : Rank[line[a]] \in Int
  BY PlaceOfRank, RanksTyped
<1> QED
  BY <1>1, <1>2, <1>3

\* The last of the stages of a set is the one of the highest rank.
LEMMA LastIs ==
  ASSUME NEW set \in SUBSET Stages, NEW s \in set, \A t \in set : Rank[t] <= Rank[s]
  PROVE  Last(set) = s
<1>1. \A t \in Stages : \A u \in Stages : Rank[t] = Rank[u] => t = u
  BY StageOfRank
<1> QED
  BY <1>1, SetsOfStages DEF Last

\* What the first n places of a line say about the stage at the last of them.
LEMMA AtPlace ==
  ASSUME NEW line, Shaped(line), NEW n \in 1 .. Len(line)
  PROVE  /\ Upto(line, n) \subseteq Stages /\ line[n] \in Upto(line, n)
         /\ \A s \in Upto(line, n) : Rank[s] <= Rank[line[n]]
         /\ \A s \in {LoadLine[i] : i \in 1 .. 7} :
              s \in Upto(line, n) <=> Rank[s] <= Rank[line[n]]
         /\ line[n] \notin LateStages => Upto(line, n) \cap LateStages = {}
         /\ \A s \in LateStages :
              s \in Upto(line, n) <=> line[n] \in LateStages /\ Rank[s] <= Rank[line[n]]
         /\ "bootstrap" \in Upto(line, n) <=> line[n] = "bootstrap"
<1>1. Len(line) \in Nat /\ n \in Nat /\ n > 0
  BY DEF Shaped
<1>2. Upto(line, n) \subseteq Stages /\ line[n] \in Upto(line, n)
  BY <1>1, PlaceOfRank DEF Upto
<1>3. \A i \in 1 .. n : i \in 1 .. Len(line) /\ Rank[line[i]] \in Int
  BY <1>1, PlaceOfRank, RanksTyped
<1>4. ASSUME NEW i \in 1 .. n
      PROVE  Rank[line[i]] <= Rank[line[n]]
  <2>1. CASE i = n
    BY <1>3, <2>1
  <2>2. CASE i < n
    BY <1>3, <2>2, RanksGrow
  <2> QED
    BY <1>1, <2>1, <2>2
<1>5. \A s \in Upto(line, n) : Rank[s] <= Rank[line[n]]
  BY <1>4 DEF Upto
<1>6. ASSUME NEW k \in 1 .. 7, Rank[LoadLine[k]] <= Rank[line[n]]
      PROVE  LoadLine[k] \in Upto(line, n)
  <2>1. Rank[LoadLine[k]] = k
    BY Ranks
  <2>2. n <= 7 => Rank[line[n]] = n
    BY PlaceOfRank
  <2>3. k \in 1 .. n /\ k <= 7
    BY <1>1, <1>6, <2>1, <2>2
  <2>4. line[k] = LoadLine[k]
    BY <1>3, <2>3, PlaceOfRank
  <2> QED
    BY <2>3, <2>4 DEF Upto
<1>7. line[n] \in LateStages <=> Rank[line[n]] > 8
  BY <1>2, SetsOfStages
<1>8. ASSUME NEW s \in LateStages, s \in Upto(line, n)
      PROVE  line[n] \in LateStages
  <2> DEFINE rs == Rank[s]  rn == Rank[line[n]]
  <2>1. rs \in 9 .. 29
    BY SetsOfStages
  <2>2. rs <= rn
    BY <1>5, <1>8
  <2>3. rn \in Int
    BY <1>1, <1>3
  <2>4. line[n] \in LateStages <=> rn > 8
    BY <1>7
  <2> HIDE DEF rs, rn
  <2> QED
    BY <2>1, <2>2, <2>3, <2>4
<1>9. ASSUME NEW s \in LateStages, line[n] \in LateStages, Rank[s] <= Rank[line[n]]
      PROVE  s \in Upto(line, n)
  <2>1. PICK k \in 1 .. 21 : s = GameLine[k]
    BY SetsOfStages
  <2>2. Rank[s] = k + 8
    BY <2>1, Ranks
  <2>3. n >= 8 /\ Rank[line[n]] = n + 1
    BY <1>1, <1>7, <1>9, PlaceOfRank
  <2>4. k + 7 \in 1 .. n /\ k + 7 >= 8 /\ (k + 7) - 7 = k
    BY <1>1, <1>9, <2>2, <2>3
  <2>5. PICK j \in 1 .. n : j = k + 7
    BY <2>4
  <2>6. j \in 1 .. Len(line) /\ j >= 8 /\ j - 7 = k
    BY <1>3, <2>4, <2>5
  <2>7. \/ j = 8 /\ Len(line) = 8 /\ line[j] = "bootstrap"
        \/ line[j] = GameLine[j - 7]
    BY <2>6 DEF Shaped
  <2>8. ~ (Len(line) = 8 /\ line[8] = "bootstrap")
    <3>1. ASSUME Len(line) = 8, line[8] = "bootstrap" PROVE FALSE
      <4>1. n = 8
        BY <1>1, <2>3, <3>1
      <4> QED
        BY <1>7, <1>9, <3>1, <4>1, NamedRanks
    <3> QED
      BY <3>1
  <2> QED
    BY <2>1, <2>5, <2>6, <2>7, <2>8 DEF Upto
<1>10. ASSUME "bootstrap" \in Upto(line, n)
       PROVE  line[n] = "bootstrap"
  <2>1. PICK i \in 1 .. n : line[i] = "bootstrap"
    BY <1>10 DEF Upto
  <2>2. i = 8 /\ Len(line) = 8
    BY <1>3, <2>1, PlaceOfRank, NamedRanks
  <2> QED
    BY <1>1, <2>1, <2>2
<1>11. \A s \in {LoadLine[i] : i \in 1 .. 7} :
         s \in Upto(line, n) <=> Rank[s] <= Rank[line[n]]
  BY <1>5, <1>6
<1>12. \A s \in LateStages :
         s \in Upto(line, n) <=> line[n] \in LateStages /\ Rank[s] <= Rank[line[n]]
  BY <1>5, <1>8, <1>9
<1> QED
  BY <1>2, <1>5, <1>8, <1>10, <1>11, <1>12

\* The same, for the stages the loop asks about by name.
LEMMA NamedStages ==
  ASSUME NEW line, Shaped(line), NEW n \in 1 .. Len(line)
  PROVE  LET L == line[n]
             armed == Upto(line, n)
         IN /\ "entry" \in armed
            /\ "proxy" \in armed <=> L # "entry"
            /\ "startup" \in armed <=> L \notin {"entry", "proxy"}
            /\ "codec" \in armed <=> L \notin {"entry", "proxy", "startup"}
            /\ "binding" \in armed <=> L \notin {"entry", "proxy", "startup", "codec"}
            /\ "asi_call" \in armed <=> Scanning(L)
            /\ "asi_return" \in armed <=> L \in {"asi_return", "bootstrap"} \cup LateStages
            /\ "startup_return" \in armed <=> L \in LateStages
            /\ "instance" \in armed <=> FromInstance(L)
<1> DEFINE L == line[n]
           armed == Upto(line, n)
<1>1. L \in Stages /\ Rank[L] \in 1 .. 29
  BY AtPlace, SetsOfStages
<1>2. /\ \A i \in 1 .. 7 : LoadLine[i] \in armed <=> Rank[LoadLine[i]] <= Rank[L]
      /\ \A s \in LateStages : s \in armed <=> L \in LateStages /\ Rank[s] <= Rank[L]
  BY AtPlace
<1> HIDE DEF armed, L
<1>3. \A i \in 1 .. 7 : LoadLine[i] \in armed <=> i <= Rank[L]
  BY <1>2, Ranks
<1>4. L \in LateStages \/ L = "bootstrap" \/ \E i \in 1 .. 7 : L = LoadLine[i]
  BY <1>1, SetsOfStages
<1>5. /\ Rank[L] = 1 => L = "entry"
      /\ Rank[L] = 2 => L = "proxy"
      /\ Rank[L] = 3 => L = "startup"
      /\ Rank[L] = 4 => L = "codec"
      /\ Rank[L] = 5 => L = "binding"
      /\ Rank[L] = 6 => L = "asi_call"
      /\ Rank[L] = 7 => L = "asi_return"
      /\ Rank[L] = 8 => L = "bootstrap"
  BY <1>1, NamedRanks
<1>6. /\ Rank["entry"] = 1 /\ Rank["proxy"] = 2 /\ Rank["startup"] = 3 /\ Rank["codec"] = 4
      /\ Rank["binding"] = 5 /\ Rank["asi_call"] = 6 /\ Rank["asi_return"] = 7
      /\ Rank["bootstrap"] = 8
  BY NamedRanks
<1>7. L \in LateStages <=> Rank[L] > 8
  BY <1>1, SetsOfStages
<1>8. /\ "entry" \in armed <=> 1 <= Rank[L]
      /\ "proxy" \in armed <=> 2 <= Rank[L]
      /\ "startup" \in armed <=> 3 <= Rank[L]
      /\ "codec" \in armed <=> 4 <= Rank[L]
      /\ "binding" \in armed <=> 5 <= Rank[L]
      /\ "asi_call" \in armed <=> 6 <= Rank[L]
      /\ "asi_return" \in armed <=> 7 <= Rank[L]
  BY <1>3, LoadStages
<1>9. /\ "startup_return" \in armed <=> L \in LateStages
      /\ "instance" \in armed <=> FromInstance(L)
  <2>1. \A s \in LateStages : s \in armed <=> L \in LateStages /\ Rank[s] <= Rank[L]
    BY <1>2
  <2>2. /\ "startup_return" \in LateStages /\ "instance" \in LateStages
        /\ Rank["startup_return"] = 9 /\ Rank["instance"] = 14
    BY NamedRanks
  <2> DEFINE r == Rank[L]
  <2>3. r \in 1 .. 29 /\ (L \in LateStages <=> r > 8)
    BY <1>1, <1>7
  <2>4. FromInstance(L) <=> L \in LateStages /\ r >= 14
    BY <2>2 DEF FromInstance
  <2>5. /\ "startup_return" \in armed <=> L \in LateStages /\ 9 <= r
        /\ "instance" \in armed <=> L \in LateStages /\ 14 <= r
    BY <2>1, <2>2
  <2> HIDE DEF r
  <2> QED
    BY <2>3, <2>4, <2>5
<1>10. /\ "entry" \in armed
       /\ "proxy" \in armed <=> L # "entry"
       /\ "startup" \in armed <=> L \notin {"entry", "proxy"}
       /\ "codec" \in armed <=> L \notin {"entry", "proxy", "startup"}
       /\ "binding" \in armed <=> L \notin {"entry", "proxy", "startup", "codec"}
  <2> DEFINE r == Rank[L]
  <2>1. r \in 1 .. 29
    BY <1>1
  <2>2. /\ r = 1 <=> L = "entry"
        /\ r = 2 <=> L = "proxy"
        /\ r = 3 <=> L = "startup"
        /\ r = 4 <=> L = "codec"
    BY <1>5, <1>6
  <2> HIDE DEF r
  <2>3. /\ "entry" \in armed <=> 1 <= r
        /\ "proxy" \in armed <=> 2 <= r
        /\ "startup" \in armed <=> 3 <= r
        /\ "codec" \in armed <=> 4 <= r
        /\ "binding" \in armed <=> 5 <= r
    BY <1>8 DEF r
  <2> QED
    BY <2>1, <2>2, <2>3
<1>11. /\ "asi_call" \in armed <=> Scanning(L)
       /\ "asi_return" \in armed <=> L \in {"asi_return", "bootstrap"} \cup LateStages
  <2> DEFINE r == Rank[L]
  <2>1. r \in 1 .. 29
    BY <1>1
  <2>2. /\ r = 6 <=> L = "asi_call"
        /\ r = 7 <=> L = "asi_return"
        /\ r = 8 <=> L = "bootstrap"
        /\ r > 8 <=> L \in LateStages
    BY <1>5, <1>6, <1>7
  <2> HIDE DEF r
  <2>3. /\ "asi_call" \in armed <=> 6 <= r
        /\ "asi_return" \in armed <=> 7 <= r
    BY <1>8 DEF r
  <2>4. Scanning(L) <=> L \in {"asi_call", "asi_return", "bootstrap"} \/ L \in LateStages
    BY DEF Scanning
  <2> QED
    BY <2>1, <2>2, <2>3, <2>4
<1> QED
  BY <1>9, <1>10, <1>11 DEF armed, L

\* Where the loop looks for the stage that is being awaited, it finds the one
\* armed last.
LEMMA AwaitedStage ==
  ASSUME NEW line, Shaped(line), NEW n \in 1 .. Len(line)
  PROVE  LET L == line[n]
             armed == Upto(line, n)
             early == armed \ (LateStages \cup {"bootstrap"})
         IN /\ Last(armed) = L
            /\ armed \cap LateStages # {} <=> L \in LateStages
            /\ L \in LateStages => Last(armed \cap LateStages) = L
            /\ L = "bootstrap" => Last(early) = "asi_return"
            /\ L \notin LateStages \cup {"bootstrap"} => Last(early) = L
<1> DEFINE L == line[n]
           armed == Upto(line, n)
           early == armed \ (LateStages \cup {"bootstrap"})
<1>1. L \in armed /\ armed \subseteq Stages /\ \A s \in armed : Rank[s] <= Rank[L]
  BY AtPlace
<1>2. Last(armed) = L
  BY <1>1, LastIs
<1>3. armed \cap LateStages # {} <=> L \in LateStages
  BY <1>1, AtPlace
<1>4. ASSUME L \in LateStages PROVE Last(armed \cap LateStages) = L
  BY <1>1, <1>4, LastIs
<1>5. ASSUME L = "bootstrap" PROVE Last(early) = "asi_return"
  <2>1. "asi_return" \in armed
    BY <1>5, NamedStages
  <2>2. Rank["asi_return"] = 7 /\ Rank["bootstrap"] = 8
        /\ "asi_return" \in Stages /\ "asi_return" \notin LateStages
    BY NamedRanks, EarlyNames
  <2>3. \A s \in early : Rank[s] <= 7
    <3>1. ASSUME NEW s \in early PROVE Rank[s] <= 7
      <4> DEFINE r == Rank[s]
      <4>1. s \in Stages /\ s # "bootstrap" /\ r <= 8 /\ r \in 1 .. 29
        BY <1>1, <1>5, <2>2, SetsOfStages
      <4>2. r # 8
        BY <4>1, NamedRanks
      <4>3. r <= 7
        <5> HIDE DEF r
        <5> QED
          BY <4>1, <4>2
      <4> QED
        BY <4>3
    <3> QED
      BY <3>1
  <2>4. "asi_return" \in early /\ early \in SUBSET Stages
    BY <1>1, <2>1, <2>2
  <2> HIDE DEF early
  <2> QED
    BY <2>2, <2>3, <2>4, LastIs
<1>6. ASSUME L \notin LateStages \cup {"bootstrap"} PROVE Last(early) = L
  BY <1>1, <1>6, LastIs
<1> QED
  BY <1>2, <1>3, <1>4, <1>5, <1>6

\* What comes next on the line: it is not armed yet, and which stage it may be.
Follows(p, s) ==
  \/ Rank[s] = Rank[p] + 1
  \/ p = "asi_return" /\ s = "startup_return"

\* The place after a stage's own on a line.
LEMMA NextPlace ==
  ASSUME NEW line, Shaped(line), NEW n \in 1 .. Len(line)
  PROVE  /\ Index(line, line[n]) = n
         /\ n < Len(line) =>
              /\ n + 1 \in 1 .. Len(line)
              /\ line[n + 1] \in Stages
              /\ line[n + 1] \notin Upto(line, n)
              /\ Upto(line, n + 1) = Upto(line, n) \cup {line[n + 1]}
              /\ Follows(line[n], line[n + 1])
<1>1. Len(line) \in Nat /\ DOMAIN line = 1 .. Len(line)
  BY DEF Shaped
<1>2. \A i \in 1 .. Len(line) : line[i] = line[n] => i = n
  BY RanksGrow
<1>3. Index(line, line[n]) = n
  BY <1>1, <1>2 DEF Index
<1>4. ASSUME n < Len(line)
      PROVE  /\ n + 1 \in 1 .. Len(line)
             /\ line[n + 1] \in Stages
             /\ line[n + 1] \notin Upto(line, n)
             /\ Upto(line, n + 1) = Upto(line, n) \cup {line[n + 1]}
             /\ Follows(line[n], line[n + 1])
  <2>1. n + 1 \in 1 .. Len(line) /\ n \in Nat
    BY <1>1, <1>4
  <2>2. line[n + 1] \in Stages
    BY <2>1, PlaceOfRank
  <2>3. line[n + 1] \notin Upto(line, n)
    <3>1. \A i \in 1 .. n : i \in 1 .. Len(line) /\ i # n + 1
      BY <1>1
    <3>2. \A i \in 1 .. Len(line) : line[i] = line[n + 1] => i = n + 1
      BY <2>1, RanksGrow
    <3> QED
      BY <3>1, <3>2 DEF Upto
  <2>4. Upto(line, n + 1) = Upto(line, n) \cup {line[n + 1]}
    <3>1. \A i : i \in 1 .. n + 1 <=> i \in 1 .. n \/ i = n + 1
      BY <2>1
    <3> QED
      BY <3>1 DEF Upto
  <2>5. Follows(line[n], line[n + 1])
    <3> DEFINE p == line[n]  q == line[n + 1]  rp == Rank[p]  rq == Rank[q]  len == Len(line)
    <3>1. /\ q \in Stages /\ n \in Nat /\ n > 0 /\ len \in Nat /\ n < len
          /\ n <= 7 => rp = n /\ p = LoadLine[n]
          /\ n + 1 <= 7 => rq = n + 1
          /\ n + 1 = 8 => rq \in {8, 9}
          /\ n >= 9 => rp = n + 1
          /\ n = 8 => rp \in {8, 9}
          /\ n + 1 >= 9 => rq = (n + 1) + 1
          /\ rp = 8 => n = 8 /\ len = 8
      BY <1>1, <1>4, <2>1, <2>2, PlaceOfRank
    <3>2. Follows(p, q) <=> rq = rp + 1 \/ (p = "asi_return" /\ q = "startup_return")
      BY DEF Follows
    <3>3. rq = 9 => q = "startup_return"
      BY <3>1, NamedRanks
    <3> HIDE DEF p, q, rp, rq, len
    <3>4. n = 7 => p = "asi_return"
      BY <3>1, LoadStages
    <3>5. rq = rp + 1 \/ (p = "asi_return" /\ q = "startup_return")
      <4>1. CASE n <= 6
        BY <3>1, <4>1
      <4>2. CASE n = 7
        BY <3>1, <3>3, <3>4, <4>2
      <4>3. CASE n = 8
        BY <3>1, <4>3
      <4>4. CASE n >= 9
        BY <3>1, <4>4
      <4> QED
        BY <3>1, <4>1, <4>2, <4>3, <4>4
    <3> QED
      BY <3>2, <3>5 DEF p, q
  <2> QED
    BY <2>1, <2>2, <2>3, <2>4, <2>5
<1> QED
  BY <1>3, <1>4

------------------------------------------------------------------------------
(* The reasons a run can end with                                           *)

\* The reasons a run that did what it was asked for reports.
Verdicts ==
  {"loader_breakpoint_candidate", "entry_boundary_reached", "entry_boundary_modified",
   "proxy_return_verified", "startup_call_verified", "codec_return_verified",
   "codec_bindings_verified", "asi_return_verified", "bootstrap_lifecycle_verified",
   "bootstrap_lifecycle_host_rejected", "frame_target_samples_verified",
   "startup_return_verified", "crt_initializer_boundary_verified",
   "application_entry_verified", "platform_startup_boundary_verified",
   "platform_suppression_verified", "instance_startup_verified",
   "event_dispatch_boundary_verified", "application_routing_boundary_verified",
   "game_prelude_verified", "file_manager_entry_verified", "cwd_seh_verified",
   "cwd_lock_verified", "cwd_acquire_verified", "cwd_query_verified", "cwd_copy_verified",
   "cwd_return_verified", "file_manager_ready_verified", "cd_stream_tables_verified",
   "cd_stream_disk_verified", "cd_stream_allocation_verified", "cd_stream_channels_verified"}

\* The reasons of a context that could not be written or read back.
ArmReasons ==
  {"proxy_breakpoint_write_failed", "proxy_breakpoint_arm_failed",
   "startup_breakpoint_write_failed", "startup_breakpoint_arm_failed",
   "codec_breakpoint_write_failed", "codec_breakpoint_arm_failed",
   "binding_breakpoint_write_failed", "binding_breakpoint_arm_failed",
   "asi_breakpoint_arm_failed", "bootstrap_call_arm_failed", "startup_return_arm_failed",
   "crt_arm_failed", "application_arm_failed", "platform_arm_failed",
   "suppression_context_failed", "instance_arm_failed", "event_dispatch_arm_failed",
   "application_routing_arm_failed", "game_prelude_arm_failed", "file_manager_arm_failed",
   "cwd_seh_arm_failed", "cwd_lock_arm_failed", "cwd_acquire_arm_failed",
   "cwd_query_arm_failed", "cwd_copy_arm_failed", "cwd_return_arm_failed",
   "file_manager_ready_arm_failed", "cd_stream_tables_arm_failed",
   "cd_stream_disk_arm_failed", "cd_stream_allocation_arm_failed",
   "cd_stream_channels_arm_failed"}

\* The reasons the invariants speak of, and the value that is none.
IdentityReasons ==
  {"entry_breakpoint_identity", "instance_guard_identity",
   "entry_breakpoint_lost_before_initialization"}

\* The reasons of the ledger's own defences.
DefensiveReasons ==
  {"loader_mapping_invalid_limit", "loader_mapping_limit", "loader_mapping_event_order",
   "loader_mapping_history_mismatch", "codec_mapping_not_fresh", "asi_mapping_not_fresh"}

\* Every reason an invariant speaks of.
Reserved == Verdicts \cup IdentityReasons \cup DefensiveReasons \cup {"running"}

\* The stages, written out.
StageNames ==
  {"entry", "proxy", "startup", "codec", "binding", "asi_call", "asi_return", "bootstrap",
   "startup_return", "crt", "application", "platform", "suppression", "instance",
   "dispatch", "routing", "prelude", "manager", "seh", "lock", "acquire", "query", "copy",
   "completion", "ready", "tables", "disk", "allocation", "channels"}

\* The stages are the names of the three lines.
LEMMA StagesNamed == Stages = StageNames
<1>1. {LoadLine[i] : i \in 1 .. 7} =
        {"entry", "proxy", "startup", "codec", "binding", "asi_call", "asi_return"}
  <2>1. \A i \in 1 .. 7 : i = 1 \/ i = 2 \/ i = 3 \/ i = 4 \/ i = 5 \/ i = 6 \/ i = 7
    OBVIOUS
  <2> QED
    BY <2>1, LoadStages
<1>2. LateStages = {"startup_return", "crt", "application", "platform", "suppression",
                 "instance", "dispatch", "routing", "prelude", "manager", "seh", "lock",
                 "acquire", "query", "copy", "completion", "ready", "tables", "disk",
                 "allocation", "channels"}
  <2>1. \A i \in 1 .. 21 :
          \/ i = 1 \/ i = 2 \/ i = 3 \/ i = 4 \/ i = 5 \/ i = 6 \/ i = 7
          \/ i = 8 \/ i = 9 \/ i = 10 \/ i = 11 \/ i = 12 \/ i = 13 \/ i = 14
          \/ i = 15 \/ i = 16 \/ i = 17 \/ i = 18 \/ i = 19 \/ i = 20 \/ i = 21
    OBVIOUS
  <2> QED
    BY <2>1, GameStages, SetsOfStages
<1> QED
  BY <1>1, <1>2, SetsOfStages DEF StageNames

\* What a goal counts as success is a verdict.
LEMMA SuccessIsVerdict ==
  \A g \in Goals : Success(g) \subseteq Verdicts
<1>1. \A g \in Goals : g \in {"loader", "frame"} \/ (g \in Stages /\ g # "asi_call")
  BY DEF Goals
<1> QED
  BY <1>1, StagesNamed DEF Success, Verdicts, StageNames

\* What a handler refuses is none of those.
LEMMA StopChecksPlain ==
  ASSUME NEW s \in Stages, NEW k
  PROVE  StopChecks(s, k) \cap Reserved = {}
<1>1. entry_checks(k) \cap Reserved = {}
  BY DEF entry_checks, At, Reserved, Verdicts, IdentityReasons, DefensiveReasons
<1>2. proxy_checks(k) \cap Reserved = {}
  BY DEF proxy_checks, At, Reserved, Verdicts, IdentityReasons, DefensiveReasons
<1>3. startup_checks(k) \cap Reserved = {}
  BY DEF startup_checks, At, Reserved, Verdicts, IdentityReasons, DefensiveReasons
<1>4. codec_checks(k) \cap Reserved = {}
  BY DEF codec_checks, At, Reserved, Verdicts, IdentityReasons, DefensiveReasons
<1>5. binding_checks(k) \cap Reserved = {}
  BY DEF binding_checks, At, Reserved, Verdicts, IdentityReasons, DefensiveReasons
<1>6. asi_call_checks(k) \cap Reserved = {}
  BY DEF asi_call_checks, At, Reserved, Verdicts, IdentityReasons, DefensiveReasons
<1>7. asi_return_checks(k) \cap Reserved = {}
  BY DEF asi_return_checks, At, Reserved, Verdicts, IdentityReasons, DefensiveReasons
<1>8. bootstrap_checks(k) \cap Reserved = {}
  BY DEF bootstrap_checks, At, Reserved, Verdicts, IdentityReasons, DefensiveReasons
<1>9. startup_return_checks(k) \cap Reserved = {}
  BY DEF startup_return_checks, At, Reserved, Verdicts, IdentityReasons, DefensiveReasons
<1>10. crt_checks(k) \cap Reserved = {}
  BY DEF crt_checks, At, Reserved, Verdicts, IdentityReasons, DefensiveReasons
<1>11. application_checks(k) \cap Reserved = {}
  BY DEF application_checks, At, Reserved, Verdicts, IdentityReasons, DefensiveReasons
<1>12. platform_checks(k) \cap Reserved = {}
  BY DEF platform_checks, At, Reserved, Verdicts, IdentityReasons, DefensiveReasons
<1>13. suppression_checks(k) \cap Reserved = {}
  BY DEF suppression_checks, At, Reserved, Verdicts, IdentityReasons, DefensiveReasons
<1>14. instance_checks(k) \cap Reserved = {}
  BY DEF instance_checks, At, Reserved, Verdicts, IdentityReasons, DefensiveReasons
<1>15. dispatch_checks(k) \cap Reserved = {}
  BY DEF dispatch_checks, At, Reserved, Verdicts, IdentityReasons, DefensiveReasons
<1>16. routing_checks(k) \cap Reserved = {}
  BY DEF routing_checks, At, Reserved, Verdicts, IdentityReasons, DefensiveReasons
<1>17. prelude_checks(k) \cap Reserved = {}
  BY DEF prelude_checks, At, Reserved, Verdicts, IdentityReasons, DefensiveReasons
<1>18. manager_checks(k) \cap Reserved = {}
  BY DEF manager_checks, At, Reserved, Verdicts, IdentityReasons, DefensiveReasons
<1>19. seh_checks(k) \cap Reserved = {}
  BY DEF seh_checks, At, Reserved, Verdicts, IdentityReasons, DefensiveReasons
<1>20. lock_checks(k) \cap Reserved = {}
  BY DEF lock_checks, At, Reserved, Verdicts, IdentityReasons, DefensiveReasons
<1>21. acquire_checks(k) \cap Reserved = {}
  BY DEF acquire_checks, At, Reserved, Verdicts, IdentityReasons, DefensiveReasons
<1>22. query_checks(k) \cap Reserved = {}
  BY DEF query_checks, At, Reserved, Verdicts, IdentityReasons, DefensiveReasons
<1>23. copy_checks(k) \cap Reserved = {}
  BY DEF copy_checks, At, Reserved, Verdicts, IdentityReasons, DefensiveReasons
<1>24. completion_checks(k) \cap Reserved = {}
  BY DEF completion_checks, At, Reserved, Verdicts, IdentityReasons, DefensiveReasons
<1>25. ready_checks(k) \cap Reserved = {}
  BY DEF ready_checks, At, Reserved, Verdicts, IdentityReasons, DefensiveReasons
<1>26. tables_checks(k) \cap Reserved = {}
  BY DEF tables_checks, At, Reserved, Verdicts, IdentityReasons, DefensiveReasons
<1>27. disk_checks(k) \cap Reserved = {}
  BY DEF disk_checks, At, Reserved, Verdicts, IdentityReasons, DefensiveReasons
<1>28. allocation_checks(k) \cap Reserved = {}
  BY DEF allocation_checks, At, Reserved, Verdicts, IdentityReasons, DefensiveReasons
<1>29. channels_checks(k) \cap Reserved = {}
  BY DEF channels_checks, At, Reserved, Verdicts, IdentityReasons, DefensiveReasons
<1> QED
  BY <1>1, <1>2, <1>3, <1>4, <1>5, <1>6, <1>7, <1>8, <1>9, <1>10, <1>11, <1>12, <1>13, <1>14, <1>15, <1>16, <1>17, <1>18, <1>19, <1>20, <1>21, <1>22, <1>23, <1>24, <1>25, <1>26, <1>27, <1>28, <1>29, StagesNamed DEF StopChecks, StageNames

\* Nor is what a stage asks of the machine before or after its own checks.
LEMMA PreconditionsPlain ==
  ASSUME NEW s \in Stages, NEW g
  PROVE  Preconditions(s, g) \cap Reserved = {} /\ ClosingChecks(s, g) \cap Reserved = {}
<1>1. Preconditions(s, g) \cap Reserved = {}
  BY StagesNamed
  DEF Preconditions, At, StageNames, Reserved, Verdicts, IdentityReasons, DefensiveReasons
<1>2. ClosingChecks(s, g) \cap Reserved = {}
  BY DEF ClosingChecks, Reserved, Verdicts, IdentityReasons, DefensiveReasons
<1> QED
  BY <1>1, <1>2

\* A failure to arm has a name of its own.
LEMMA ArmFailuresPlain ==
  /\ \A s \in Stages : ArmFailures(s) \subseteq ArmReasons
  /\ ArmReasons \cap Reserved = {}
<1>1. \A s \in Stages : ArmFailures(s) \subseteq ArmReasons
  BY StagesNamed DEF ArmFailures, ArmReasons, StageNames
<1>2. ArmReasons \cap Reserved = {}
  BY DEF ArmReasons, Reserved, Verdicts, IdentityReasons, DefensiveReasons
<1> QED
  BY <1>1, <1>2

\* Nor is what a run refuses before the debuggee is created.
LEMMA PreflightPlain ==
  ASSUME NEW g \in Goals, Permitted(g) \subseteq Stages
  PROVE  PreflightRefusals(g) \cap Reserved = {}
<1>1. \A s \in Stages : SpecRefusals(s) \cap Reserved = {}
  BY StagesNamed
  DEF SpecRefusals, StageNames, Reserved, Verdicts, IdentityReasons, DefensiveReasons
<1>2. EntryRefusals \cap Reserved = {}
  BY DEF EntryRefusals, Reserved, Verdicts, IdentityReasons, DefensiveReasons
<1>3. /\ "loader_invalid_limits" \notin Reserved /\ "loader_invalid_pin" \notin Reserved
      /\ "loader_child_identity_or_state" \notin Reserved
      /\ "frame_create_sample_rejected" \notin Reserved
  BY DEF Reserved, Verdicts, IdentityReasons, DefensiveReasons
<1> SUFFICES ASSUME NEW r \in PreflightRefusals(g) PROVE r \notin Reserved
  OBVIOUS
<1>4. \/ r \in {"loader_invalid_limits", "loader_invalid_pin", "loader_child_identity_or_state",
               "frame_create_sample_rejected"}
      \/ r \in EntryRefusals
      \/ \E s \in Permitted(g) : r \in SpecRefusals(s)
  <2> DEFINE specs == UNION {SpecRefusals(s) : s \in Permitted(g)}
  <2>1. \A x \in specs : \E s \in Permitted(g) : x \in SpecRefusals(s)
    OBVIOUS
  <2>2. r \in {"loader_invalid_limits", "loader_invalid_pin", "loader_child_identity_or_state"}
              \cup specs
              \cup (IF "entry" \in Permitted(g) THEN EntryRefusals ELSE {})
              \cup (IF g = "frame" THEN {"frame_create_sample_rejected"} ELSE {})
    BY DEF PreflightRefusals
  <2> HIDE DEF specs
  <2> QED
    BY <2>1, <2>2
<1> QED
  BY <1>1, <1>2, <1>3, <1>4

\* The other reasons of the loop: none is a verdict, a failure to arm, or one
\* the invariants speak of.
OtherReasons ==
  {"loader_owner_thread", "loader_exit_unconfirmed", "loader_event_limit", "loader_timeout",
   "loader_continue_failed", "loader_wait_failed", "loader_event_identity",
   "loader_module_limit", "loader_file_or_byte_limit", "loader_module_metadata",
   "loader_module_not_pinned", "loader_mapping_base_active", "loader_mapping_not_active",
   "loader_mapping_invalid_base", "binding_unexpected_load", "proxy_mapping_retired",
   "binding_mapping_retired", "asi_mapping_retired", "loader_thread_limit",
   "loader_early_exit", "loader_unexpected_event", "entry_preinitialization_drift",
   "loader_exception", "entry_context_read_failed", "entry_unexpected_exception",
   "instance_forbidden_branch", "startup_return_extra_asi_call", "asi_return_skipped",
   "asi_candidate_missing", "startup_iat_written", "proxy_mapping_missing",
   "proxy_mapping_ambiguous", "codec_mapping_missing", "codec_handle_mismatch",
   "codec_mapping_ambiguous", "asi_mapping_missing", "asi_handle_mismatch",
   "asi_mapping_ambiguous", "codec_module_preloaded", "asi_module_preloaded"}

\* The list above, checked.
LEMMA OtherReasonsPlain ==
  OtherReasons \cap (Reserved \cup ArmReasons) = {}
  BY DEF OtherReasons, ArmReasons, Reserved, Verdicts, IdentityReasons, DefensiveReasons

\* Verdicts, identity alarms, defences and arm failures are told apart.
LEMMA VerdictsApart ==
  /\ Verdicts \cap (IdentityReasons \cup DefensiveReasons \cup ArmReasons \cup {"running"}) = {}
  /\ IdentityReasons \cap (DefensiveReasons \cup ArmReasons \cup {"running"}) = {}
  BY DEF ArmReasons, Verdicts, IdentityReasons, DefensiveReasons

------------------------------------------------------------------------------
(* The inductive invariant, and the run's place on its line                 *)

\* The inductive invariant.
\* Where the run is on its line: the armed stages are the first ones of the
\* line, and while the debuggee runs it has been released to all of them, the
\* entry stop excepted until the loader's own breakpoint was seen.
Placed == \E n \in 0 .. Len(Line(goal)) : Armed = Upto(Line(goal), n)

\* Where the run is: its stops are armed along the line, one stage after the
\* other, and only the stage armed last is not yet passed.
OnTheLine ==
  /\ goal \in Goals
  /\ started \in BOOLEAN /\ pending \in BOOLEAN /\ breakpoint_candidate \in BOOLEAN
  /\ Placed
  /\ \A s \in Armed : stop[s] \in 1 .. Stops(s)
  /\ continued \subseteq Armed /\ passed \subseteq Armed
  /\ ~ started => pending /\ Armed = {}
  /\ started /\ "entry" \in Permitted(goal) => "entry" \in Armed
  /\ started /\ ~ pending =>
       continued = Armed \ (IF breakpoint_candidate THEN {} ELSE {"entry"})
  /\ "entry" \in continued => breakpoint_candidate
  /\ "proxy" \in Armed => "entry" \in continued

\* The loop's counters are within their limits, strictly while it goes on.
Counted ==
  /\ event_count \in 1 .. EventLimit
  /\ Running /\ ~ pending => event_count < EventLimit
  /\ thread_count \in 1 .. ThreadLimit + 1
  /\ Running => thread_count <= ThreadLimit
  /\ charged_bytes \in 0 .. ByteLimit

\* The registers that let the processor report stop k of stage s.
AwaitedRegisters(s, k) ==
  IF s = "entry" THEN dr.r0 = <<"entry", 1>> /\ dr.on = {0} ELSE Verified(s, k, dr)

\* As long as the debuggee did not write them, the registers hold the stop
\* armed last.
RegistersKept ==
  /\ dr = [r0 |-> dr.r0, r1 |-> dr.r1, r2 |-> dr.r2, r3 |-> dr.r3, on |-> dr.on]
  /\ dr.on \subseteq {0, 1, 2, 3}
  /\ ~ disturbed /\ Armed # {} => AwaitedRegisters(Last(Armed), stop[Last(Armed)])

\* A module as the loop records it.
ModuleRecord ==
  [file : {p[1] : p \in Placements}, base : Bases, event_index : Nat,
   unload_event_index : Nat, mapping_id : Nat]

\* The loop's modules and the ledger's mappings are the same list, but for the
\* module that ended the run.
RecordKept ==
  /\ modules \in Seq(ModuleRecord)
  /\ limit \in Limits /\ history \in Seq(Ledger!LoaderMapping) /\ last_event \in Nat
  /\ Len(history) <= Len(modules) /\ Len(modules) <= limit
  /\ Running => Len(history) = Len(modules)
  /\ last_event <= event_count
  /\ \A i \in 1 .. Len(modules) : modules[i].event_index <= event_count
  /\ \A i \in 1 .. Len(history) :
       /\ history[i].id = i /\ modules[i].mapping_id = i
       /\ history[i].base = modules[i].base
       /\ history[i].load_event = modules[i].event_index
       /\ history[i].unload_event = modules[i].unload_event_index
  /\ \A i \in 1 .. Len(modules) : i > Len(history) => modules[i].mapping_id = 0

\* What the handlers found is still mapped.
FoundLive ==
  /\ found = [proxy |-> found.proxy, codec |-> found.codec, asi |-> found.asi]
  /\ DOMAIN found.codec \in {{}, DOMAIN CodecModules}
  /\ Running =>
       /\ found.proxy # 0 => found.proxy \in 1 .. Len(history) /\ Ledger!Live(found.proxy)
       /\ "binding" \in Armed =>
            \A n \in DOMAIN found.codec :
              found.codec[n] \in 1 .. Len(history) /\ Ledger!Live(found.codec[n])
       /\ found.asi # 0 =>
            /\ found.asi \in 1 .. Len(history) /\ Ledger!Live(found.asi)
            /\ modules[found.asi].file = Asi /\ "asi_call" \in Permitted(goal)

\* The mappings a stop asks about are younger than the stop before it, and
\* no codec or script was mapped before its stop was armed.
LoadsFresh ==
  /\ arm_event \in [codec : Nat, binding : Nat, asi : Nat]
  /\ arm_event.codec <= event_count /\ arm_event.binding <= event_count
  /\ arm_event.asi <= event_count
  /\ Running =>
       /\ "codec" \in Armed =>
            \A n \in DOMAIN CodecModules : \A i \in Mapped(CodecModules[n]) :
              modules[i].event_index > arm_event.codec
       /\ "asi_return" \in Armed =>
            \A i \in Mapped(Asi) : modules[i].event_index > arm_event.asi
  /\ QuietScan

\* Alarms about the registers and failures to arm them have a cause, and the
\* ledger's defences never speak.
ReasonMeans ==
  /\ reason \in IdentityReasons => disturbed
  /\ reason \in ArmReasons => disturbed \/ MayRefuse
  /\ reason \notin DefensiveReasons

\* The stages a goal permits are those of its line.
LEMMA GoalLine ==
  ASSUME NEW g \in Goals
  PROVE  /\ Shaped(Line(g))
         /\ Permitted(g) = Upto(Line(g), Len(Line(g)))
         /\ Permitted(g) \subseteq Stages
         /\ \A n \in 1 .. Len(Line(g)) : Line(g)[n] \in Permitted(g) /\ Upto(Line(g), n) \subseteq Permitted(g)
<1>1. Shaped(Line(g))
  BY LinesShaped
<1>2. Permitted(g) = {Line(g)[i] : i \in DOMAIN Line(g)}
  BY DEF Permitted, Permits, Line
<1>3. Line(g) \in Seq(Stages)
  BY <1>1 DEF Shaped
<1>4. Permitted(g) = Upto(Line(g), Len(Line(g)))
  BY <1>2, <1>3 DEF Upto
<1>5. Permitted(g) \subseteq Stages
  BY <1>2, <1>3
<1>6. Len(Line(g)) \in Nat
  BY <1>3
<1> QED
  BY <1>1, <1>4, <1>5, <1>6 DEF Upto

\* A stage has between one and ten stops.
LEMMA StopsTyped ==
  \A s \in Stages : Stops(s) \in 1 .. 10
  BY StagesNamed DEF Stops, StageNames

\* The stop after one that is not the last is a stop of the stage.
LEMMA NextStopsTyped ==
  ASSUME NEW s \in Stages, NEW k \in 1 .. Stops(s), k # Stops(s)
  PROVE  NextStops(s, k) \subseteq 1 .. Stops(s)
<1>1. Stops(s) \in 1 .. 10
  BY StopsTyped
<1>2. s = "allocation" => Stops(s) = 10
  BY DEF Stops
<1> QED
  BY <1>1, <1>2 DEF NextStops

\* The stops that may be armed when the handler of the stage at place n is
\* satisfied.
ComesNext(n, s, k) ==
  \/ /\ s = Line(goal)[n] /\ stop[s] # Stops(s)
     /\ k \in NextStops(s, stop[s])
  \/ /\ n < Len(Line(goal)) /\ stop[Line(goal)[n]] = Stops(Line(goal)[n])
     /\ s = Line(goal)[n + 1] /\ k = 1

\* A stop is armed.
AwaitedIs(s, k) == stop' = [t \in Armed \cup {s} |-> IF t = s THEN k ELSE stop[t]]

\* Arming that stop, as the handlers do: the registers are written and read
\* back, and the stops that wait for loads remember the event.
Armable(s, k) ==
  /\ Verified(s, k, Rewritten(s, k))
  /\ AwaitedIs(s, k)
  /\ dr' = Rewritten(s, k)
  /\ arm_event' = CASE s = "codec" -> [arm_event EXCEPT !.codec = event_count']
                    [] s = "binding" -> [arm_event EXCEPT !.binding = event_count']
                    [] s = "asi_return" -> [arm_event EXCEPT !.asi = event_count']
                    [] OTHER -> arm_event
  /\ UNCHANGED reason

\* While the debuggee runs and the entry stop was released, the stage the loop
\* would handle is the one armed last.
LEMMA AtHandler ==
  ASSUME OnTheLine, started, ~ pending, Released
  PROVE  \E n \in 1 .. Len(Line(goal)) :
           /\ Armed = Upto(Line(goal), n) /\ continued = Armed
           /\ Last(Armed) = Line(goal)[n] /\ HandlerStage = Line(goal)[n]
           /\ expected_address =
                IF Line(goal)[n] = "bootstrap" THEN <<"asi_return", stop["asi_return"]>>
                ELSE <<Line(goal)[n], stop[Line(goal)[n]]>>
<1>1. goal \in Goals /\ Shaped(Line(goal))
  BY GoalLine DEF OnTheLine
<1>2. breakpoint_candidate /\ continued = Armed
  BY DEF OnTheLine, Released
<1>3. Armed # {}
  BY <1>2 DEF Released
<1>4. PICK n \in 0 .. Len(Line(goal)) : Armed = Upto(Line(goal), n)
  BY DEF OnTheLine, Placed
<1>5. n \in 1 .. Len(Line(goal))
  <2>1. n # 0
    <3>1. Upto(Line(goal), 0) = {}
      BY DEF Upto
    <3> QED
      BY <1>3, <1>4, <3>1
  <2>2. Len(Line(goal)) \in Nat
    BY <1>1 DEF Shaped
  <2> QED
    BY <2>1, <2>2
<1> DEFINE L == Line(goal)[n]
           early == Armed \ (LateStages \cup {"bootstrap"})
<1>6. /\ Last(Armed) = L
      /\ Armed \cap LateStages # {} <=> L \in LateStages
      /\ L \in LateStages => Last(Armed \cap LateStages) = L
      /\ L = "bootstrap" => Last(early) = "asi_return"
      /\ L \notin LateStages \cup {"bootstrap"} => Last(early) = L
  BY <1>1, <1>4, <1>5, AwaitedStage
<1>7. "bootstrap" \in Armed <=> L = "bootstrap"
  BY <1>1, <1>4, <1>5, AtPlace
<1>8. EarlyStage = Last(early)
  BY <1>2 DEF EarlyStage
<1>9. "bootstrap" \notin LateStages
  BY EarlyNames
<1> HIDE DEF L
<1>10. HandlerStage = L
  BY <1>6, <1>7, <1>8 DEF HandlerStage
<1>11. expected_address = IF L = "bootstrap" THEN <<"asi_return", stop["asi_return"]>> ELSE <<L, stop[L]>>
  BY <1>6, <1>8, <1>9 DEF expected_address
<1> QED
  BY <1>2, <1>4, <1>5, <1>6, <1>10, <1>11 DEF L

\* What the handler of the stage at place n does, in one of five ways.
LEMMA HandlerWays ==
  ASSUME OnTheLine, NEW n \in 1 .. Len(Line(goal)), Armed = Upto(Line(goal), n), NEW handle,
         Handle(Line(goal)[n], handle)
  PROVE  LET L == Line(goal)[n]
         IN /\ passed' \in {passed, passed \cup {L}}
            /\ \/ /\ MayRefuse /\ \E r : r \notin Reserved /\ Finish(r)
                  /\ UNCHANGED <<stop, dr, arm_event>> /\ found' \in {found, Findings(L)}
               \/ /\ Rejection(L, handle) # "none" /\ Finish(Rejection(L, handle))
                  /\ UNCHANGED <<stop, dr, arm_event, found>>
               \/ /\ Rejection(L, handle) = "none" /\ found' = Findings(L)
                  /\ \/ /\ n = Len(Line(goal)) /\ stop[L] = Stops(L)
                        /\ \E r \in Success(goal) : Finish(r)
                        /\ UNCHANGED <<stop, dr, arm_event>>
                     \/ \E s \in Stages, k \in 1 .. 10 :
                          /\ ComesNext(n, s, k) /\ s \in Permitted(goal) /\ k \in 1 .. Stops(s)
                          /\ \/ /\ ~ Verified(s, k, Rewritten(s, k))
                                /\ \E r \in ArmFailures(s) : Finish(r)
                                /\ UNCHANGED <<stop, dr, arm_event>>
                             \/ /\ MayRefuse
                                /\ \E r \in ArmFailures(s) : Finish(r)
                                /\ UNCHANGED <<stop, dr, arm_event>>
                             \/ Armable(s, k)
<1> DEFINE L == Line(goal)[n]
           Faulted == /\ MayRefuse /\ \E r : r \notin Reserved /\ Finish(r)
                      /\ UNCHANGED <<stop, dr, arm_event>> /\ found' \in {found, Findings(L)}
           Closed == /\ n = Len(Line(goal)) /\ stop[L] = Stops(L)
                     /\ \E r \in Success(goal) : Finish(r)
                     /\ UNCHANGED <<stop, dr, arm_event>>
           Tried(s, k) ==
             \/ /\ ~ Verified(s, k, Rewritten(s, k))
                /\ \E r \in ArmFailures(s) : Finish(r)
                /\ UNCHANGED <<stop, dr, arm_event>>
             \/ /\ MayRefuse
                /\ \E r \in ArmFailures(s) : Finish(r)
                /\ UNCHANGED <<stop, dr, arm_event>>
             \/ Armable(s, k)
           Moved == \E s \in Stages, k \in 1 .. 10 :
                      /\ ComesNext(n, s, k) /\ s \in Permitted(goal) /\ k \in 1 .. Stops(s)
                      /\ Tried(s, k)
<1>1. goal \in Goals /\ Shaped(Line(goal)) /\ L \in Stages /\ L \in Permitted(goal)
      /\ Permitted(goal) \subseteq Stages
  BY GoalLine DEF OnTheLine
<1>2. L \in Armed /\ stop[L] \in 1 .. Stops(L)
  BY <1>1, AtPlace DEF OnTheLine
<1>3. Index(Line(goal), L) = n
  BY <1>1, NextPlace
<1>5. ASSUME NEW rs, Fault(rs), rs \cap Reserved = {}
      PROVE  MayRefuse /\ \E r : r \notin Reserved /\ Finish(r)
  BY <1>5 DEF Fault
<1>6. ASSUME NEW s, NEW k, Arm(s, k)
      PROVE  Tried(s, k)
  BY <1>6 DEF Arm, Armable, AwaitedIs, Fault
<1>7. ASSUME Fault(StopChecks(L, stop[L])), UNCHANGED <<stop, evidence, dr>>
      PROVE  Faulted /\ passed' = passed
  <2>1. StopChecks(L, stop[L]) \cap Reserved = {}
    BY <1>1, StopChecksPlain
  <2> QED
    BY <1>5, <1>7, <2>1 DEF evidence
<1>8. ASSUME Proceed(L, stop[L]), found' = Findings(L)
      PROVE  /\ passed' \in {passed, passed \cup {L}}
             /\ Faulted \/ Closed \/ Moved
  <2> HIDE DEF L, Tried
  <2>1. CASE ~ StageDone(L, stop[L])
    <3>1. stop[L] # Stops(L)
      BY <2>1 DEF StageDone
    <3>2. PICK k \in NextStops(L, stop[L]) : Arm(L, k)
      BY <1>8, <2>1 DEF Proceed
    <3>3. k \in 1 .. Stops(L) /\ k \in 1 .. 10
      BY <1>1, <1>2, <3>1, <3>2, NextStopsTyped, StopsTyped
    <3>4. ComesNext(n, L, k)
      BY <3>1, <3>2 DEF ComesNext, L
    <3>5. passed' = passed
      BY <1>8, <2>1 DEF Proceed
    <3> QED
      BY <1>1, <1>6, <3>2, <3>3, <3>4, <3>5
  <2>2. CASE StageDone(L, stop[L])
    <3>1. stop[L] = Stops(L)
      BY <2>2 DEF StageDone
    <3>2. passed' = passed \cup {L}
      BY <1>8, <2>2 DEF Proceed
    <3>3. CASE n = Len(Line(goal))
      <4>1. /\ Fault(ClosingChecks(L, goal)) \/ \E r \in Success(goal) : Finish(r)
            /\ UNCHANGED <<stop, dr, arm_event>>
        BY <1>3, <1>8, <2>2, <3>3 DEF Proceed
      <4>2. ClosingChecks(L, goal) \cap Reserved = {}
        BY <1>1, PreconditionsPlain
      <4> QED
        BY <1>5, <1>8, <3>1, <3>2, <3>3, <4>1, <4>2
    <3>4. CASE n # Len(Line(goal))
      <4> DEFINE m == Line(goal)[n + 1]
      <4>1. \/ Fault(Preconditions(m, goal)) /\ UNCHANGED <<stop, dr, arm_event>>
            \/ Arm(m, 1)
        BY <1>3, <1>8, <2>2, <3>4 DEF Proceed
      <4>2. n < Len(Line(goal))
        BY <1>1, <3>4 DEF Shaped
      <4>3. n + 1 \in 1 .. Len(Line(goal)) /\ m \in Stages
        BY <1>1, <4>2, NextPlace
      <4>4. m \in Permitted(goal) /\ 1 \in 1 .. Stops(m)
        BY <1>1, <4>3, GoalLine, StopsTyped
      <4>5. Preconditions(m, goal) \cap Reserved = {}
        BY <4>3, PreconditionsPlain
      <4>6. ComesNext(n, m, 1)
        BY <3>1, <4>2 DEF ComesNext, L
      <4> HIDE DEF m
      <4>7. CASE Arm(m, 1)
        BY <1>6, <3>2, <4>3, <4>4, <4>6, <4>7
      <4>8. CASE Fault(Preconditions(m, goal)) /\ UNCHANGED <<stop, dr, arm_event>>
        BY <1>5, <1>8, <3>2, <4>5, <4>8
      <4> QED
        BY <4>1, <4>7, <4>8
    <3> QED
      BY <3>3, <3>4
  <2> QED
    BY <2>1, <2>2
<1>9. \/ Fault(StopChecks(L, stop[L])) /\ UNCHANGED <<stop, evidence, dr>>
      \/ /\ Rejection(L, handle) # "none" /\ Finish(Rejection(L, handle))
         /\ UNCHANGED <<stop, evidence, dr>>
      \/ /\ Rejection(L, handle) = "none" /\ found' = Findings(L) /\ Proceed(L, stop[L])
  BY DEF Handle
<1> HIDE DEF L, Faulted, Closed, Moved
<1>10. CASE Rejection(L, handle) # "none" /\ Finish(Rejection(L, handle)) /\ UNCHANGED <<stop, evidence, dr>>
  BY <1>10 DEF evidence, L
<1>11. CASE Rejection(L, handle) = "none" /\ found' = Findings(L) /\ Proceed(L, stop[L])
  BY <1>8, <1>11 DEF L, Faulted, Closed, Moved
<1>12. CASE Fault(StopChecks(L, stop[L])) /\ UNCHANGED <<stop, evidence, dr>>
  BY <1>7, <1>12 DEF L, Faulted, Closed, Moved
<1> QED
  BY <1>9, <1>10, <1>11, <1>12

\* Where the run is after a stop was armed.
LEMMA ArmedNext ==
  ASSUME OnTheLine, NEW n \in 1 .. Len(Line(goal)), Armed = Upto(Line(goal), n),
         NEW s \in Stages, NEW k \in 1 .. 10, ComesNext(n, s, k), AwaitedIs(s, k)
  PROVE  /\ Armed' = Armed \cup {s} /\ stop'[s] = k
         /\ \A t \in Armed : t # s => stop'[t] = stop[t]
         /\ Last(Armed') = s
         /\ \E m \in 1 .. Len(Line(goal)) : Armed' = Upto(Line(goal), m) /\ Line(goal)[m] = s
         /\ \/ s = Line(goal)[n] /\ Armed' = Armed
            \/ s \notin Armed /\ Follows(Line(goal)[n], s)
<1>1. /\ Armed' = Armed \cup {s} /\ stop'[s] = k
      /\ \A t \in Armed : t # s => stop'[t] = stop[t]
  BY DEF Armed, AwaitedIs
<1>2. goal \in Goals /\ Shaped(Line(goal))
  BY GoalLine DEF OnTheLine
<1>3. CASE s = Line(goal)[n]
  <2>1. s \in Armed
    BY <1>2, <1>3, AtPlace
  <2>2. Armed' = Armed
    BY <1>1, <2>1
  <2>3. Last(Armed') = s
    BY <1>2, <1>3, <2>2, AwaitedStage
  <2> QED
    BY <1>1, <1>3, <2>2, <2>3
<1>4. CASE n < Len(Line(goal)) /\ s = Line(goal)[n + 1]
  <2>1. /\ n + 1 \in 1 .. Len(Line(goal)) /\ s \notin Armed
        /\ Upto(Line(goal), n + 1) = Armed \cup {s}
        /\ Follows(Line(goal)[n], s)
    BY <1>2, <1>4, NextPlace
  <2>2. PICK m \in 1 .. Len(Line(goal)) : m = n + 1
    BY <2>1
  <2>3. Armed' = Upto(Line(goal), m) /\ Line(goal)[m] = s
    BY <1>1, <1>4, <2>1, <2>2
  <2>4. Last(Armed') = s
    BY <1>2, <2>3, AwaitedStage
  <2> QED
    BY <1>1, <2>1, <2>3, <2>4
<1> QED
  BY <1>3, <1>4 DEF ComesNext

\* A step that moves no stop leaves the run where it is.
LEMMA LineKept ==
  ASSUME OnTheLine, UNCHANGED <<goal, started, stop, continued, passed, breakpoint_candidate>>,
         pending' \in {TRUE, pending}
  PROVE  OnTheLine'
  BY DEF OnTheLine, Placed, Armed

\* A run starts before its line.
LEMMA LineInit == Init => OnTheLine
<1> SUFFICES ASSUME Init PROVE OnTheLine
  OBVIOUS
<1>1. goal \in Goals
  BY LoaderAssumption DEF Init
<1>2. Armed = {} /\ stop = <<>>
  BY DEF Init, Armed
<1>3. Placed
  <2>1. Upto(Line(goal), 0) = {}
    BY DEF Upto
  <2>2. 0 \in 0 .. Len(Line(goal))
    BY <1>1, GoalLine DEF Shaped
  <2> QED
    BY <1>2, <2>1, <2>2 DEF Placed
<1> QED
  BY <1>1, <1>2, <1>3 DEF Init, OnTheLine

\* Every step of the observation keeps the run on its line.
LEMMA LineStep ==
  ASSUME OnTheLine, [Next]_vars
  PROVE  OnTheLine'
<1>1. CASE UNCHANGED vars
  BY <1>1, LineKept DEF vars, evidence
<1>2. CASE WrongThread
  BY <1>2, LineKept DEF WrongThread, evidence
<1>3. CASE Begin
  <2>1. CASE UNCHANGED <<started, stop, dr>>
    BY <1>3, <2>1, LineKept DEF Begin, evidence
  <2>2. CASE started' = TRUE /\ "entry" \notin Permitted(goal) /\ UNCHANGED stop
    BY <1>3, <2>2 DEF Begin, evidence, OnTheLine, Placed, Armed
  <2>3. CASE started' = TRUE /\ "entry" \in Permitted(goal) /\ stop' = [s \in {"entry"} |-> 1]
    <3>1. /\ Armed' = {"entry"} /\ stop'["entry"] = 1
      BY <2>3 DEF Armed
    <3>2. Placed'
      <4>1. goal \in Goals /\ goal' = goal /\ Shaped(Line(goal))
        BY <1>3, GoalLine DEF Begin, OnTheLine
      <4>2. Len(Line(goal)) \in Nat /\ Len(Line(goal)) # 0
        <5>1. Len(Line(goal)) \in Nat
          BY <4>1 DEF Shaped
        <5>2. Upto(Line(goal), 0) = {}
          BY DEF Upto
        <5> QED
          BY <2>3, <4>1, <5>1, <5>2, GoalLine
      <4>3. 1 \in 1 .. Len(Line(goal)) /\ 1 \in 0 .. Len(Line(goal))
        BY <4>2
      <4>4. Line(goal)[1] = "entry"
        BY <4>1, <4>3, PlaceOfRank, LoadStages
      <4>5. Upto(Line(goal), 1) = {"entry"}
        BY <4>4 DEF Upto
      <4> QED
        BY <3>1, <4>1, <4>3, <4>5 DEF Placed
    <3>3. Stops("entry") = 1
      BY DEF Stops
    <3> QED
      BY <1>3, <2>3, <3>1, <3>2, <3>3 DEF Begin, evidence, OnTheLine
  <2> QED
    BY <1>3, <2>1, <2>2, <2>3 DEF Begin
<1>4. CASE Continue
  <2>1. CASE UNCHANGED <<pending, continued>>
    BY <1>4, <2>1, LineKept DEF Continue, evidence
  <2>2. CASE /\ pending' = FALSE
             /\ continued' = Armed \ (IF breakpoint_candidate THEN {} ELSE {"entry"})
    <3>1. UNCHANGED <<goal, started, stop, passed, breakpoint_candidate>> /\ started
      BY <1>4 DEF Continue, evidence
    <3>2. Placed' /\ Armed' = Armed
      BY <3>1 DEF OnTheLine, Placed, Armed
    <3>3. "proxy" \in Armed => breakpoint_candidate /\ "entry" \in Armed
      BY DEF OnTheLine
    <3> QED
      BY <2>2, <3>1, <3>2, <3>3 DEF OnTheLine
  <2> QED
    BY <1>4, <2>1, <2>2 DEF Continue
<1>5. CASE WaitEnds
  BY <1>5, LineKept DEF WaitEnds, evidence
<1>6. CASE Tamper
  BY <1>6, LineKept DEF Tamper, evidence
<1>7. ASSUME Unmoved, pending' \in {TRUE, pending} PROVE OnTheLine'
  BY <1>7, LineKept DEF Unmoved, evidence
<1>8. CASE \E p \in Placements : LoadDll(p[1], p[2])
  BY <1>7, <1>8 DEF LoadDll, Receive
<1>9. CASE \E base \in Unloadable : UnloadDll(base)
  BY <1>7, <1>9 DEF UnloadDll, Receive
<1>10. CASE CreateThread \/ OtherEvent
  BY <1>7, <1>10 DEF CreateThread, OtherEvent, Receive
<1>11. CASE ForeignEvent
  BY <1>7, <1>11 DEF ForeignEvent
<1>12. ASSUME NEW trap, Exception(trap) PROVE OnTheLine'
  <2>1. /\ UNCHANGED <<goal, started, continued>> /\ started /\ ~ pending /\ pending' = TRUE
    BY <1>12 DEF Exception, Receive
  <2>2. CASE InitialBreakpoint(trap)
    <3>1. UNCHANGED <<stop, passed>> /\ ~ Released
      BY <2>2 DEF InitialBreakpoint, evidence
    <3>2. breakpoint_candidate' \in BOOLEAN
      BY <2>2 DEF InitialBreakpoint, OnTheLine
    <3>3. Placed' /\ Armed' = Armed
      BY <2>1, <3>1 DEF OnTheLine, Placed, Armed
    <3> QED
      BY <2>1, <3>1, <3>2, <3>3 DEF OnTheLine, Released
  <2>3. CASE Released /\ UNCHANGED breakpoint_candidate /\ UNCHANGED <<stop, evidence, dr>>
    BY <2>1, <2>3, LineKept DEF evidence
  <2>4. ASSUME Released, UNCHANGED breakpoint_candidate,
               NEW handle, Handle(HandlerStage, handle)
        PROVE  OnTheLine'
    <3>1. PICK n \in 1 .. Len(Line(goal)) :
            Armed = Upto(Line(goal), n) /\ continued = Armed /\ HandlerStage = Line(goal)[n]
      BY <2>1, <2>4, AtHandler
    <3> DEFINE L == Line(goal)[n]
    <3>2. L \in Armed
      BY <3>1, AtPlace, GoalLine DEF OnTheLine
    <3>3. /\ passed' \in {passed, passed \cup {L}}
          /\ \/ UNCHANGED stop
             \/ \E s \in Stages, k \in 1 .. 10 :
                  ComesNext(n, s, k) /\ k \in 1 .. Stops(s) /\ AwaitedIs(s, k)
      <4>1. Handle(Line(goal)[n], handle)
        BY <2>4, <3>1
      <4>2. \A t, k : Armable(t, k) => AwaitedIs(t, k)
        BY DEF Armable
      <4> QED
        BY <3>1, <4>1, <4>2, HandlerWays
    <3>4. passed' \subseteq Armed
      BY <3>2, <3>3 DEF OnTheLine
    <3> HIDE DEF L
    <3>5. CASE UNCHANGED stop
      <4>1. Placed' /\ Armed' = Armed
        BY <2>1, <3>5 DEF OnTheLine, Placed, Armed
      <4> QED
        BY <2>1, <2>4, <3>4, <3>5, <4>1 DEF OnTheLine
    <3>6. ASSUME NEW s \in Stages, NEW k \in 1 .. 10, ComesNext(n, s, k), k \in 1 .. Stops(s),
                 AwaitedIs(s, k)
          PROVE  OnTheLine'
      <4>1. /\ Armed' = Armed \cup {s} /\ stop'[s] = k
            /\ \A t \in Armed : t # s => stop'[t] = stop[t]
            /\ \E m \in 1 .. Len(Line(goal)) : Armed' = Upto(Line(goal), m)
        BY <3>1, <3>6, ArmedNext
      <4>2. Placed'
        <5>1. PICK m \in 1 .. Len(Line(goal)) : Armed' = Upto(Line(goal), m)
          BY <4>1
        <5>2. m \in 0 .. Len(Line(goal))
          OBVIOUS
        <5> QED
          BY <2>1, <5>1, <5>2 DEF Placed
      <4>3. \A t \in Armed' : stop'[t] \in 1 .. Stops(t)
        BY <3>6, <4>1 DEF OnTheLine
      <4> QED
        BY <2>1, <2>4, <3>1, <3>4, <4>1, <4>2, <4>3 DEF OnTheLine, Released
    <3> QED
      BY <3>3, <3>5, <3>6
  <2> QED
    BY <1>12, <2>2, <2>3, <2>4 DEF Exception
<1> QED
  BY <1>1, <1>2, <1>3, <1>4, <1>5, <1>6, <1>8, <1>9, <1>10, <1>11, <1>12
  DEF Next, Observer, Debuggee

------------------------------------------------------------------------------
(* The debug registers after a handler rewrote them                         *)

\* The registers are a record of four addresses and the enabled ones.
DrShaped == dr = [r0 |-> dr.r0, r1 |-> dr.r1, r2 |-> dr.r2, r3 |-> dr.r3, on |-> dr.on]

\* The registers after a handler wrote them, one by one.
LEMMA RewrittenFields ==
  ASSUME DrShaped, NEW s, NEW k, NEW new, new = Rewritten(s, k)
  PROVE  /\ new.r0 = IF s = "bootstrap" THEN dr.r0 ELSE <<s, k>>
         /\ new.r1 = IF s = "startup" THEN Iat ELSE dr.r1
         /\ s \in {"asi_call", "asi_return"} => new.r2 = End
         /\ s = "startup_return" => new.r2 = Call
         /\ s \notin {"asi_call", "asi_return", "startup_return"} => new.r2 = dr.r2
         /\ new.r3 = IF s = "instance" THEN Guard ELSE dr.r3
         /\ s \in {"startup", "instance"} => new.on = Enabled(s)
         /\ s \in {"asi_call", "asi_return"} => new.on = dr.on \cup {2}
         /\ s \notin {"startup", "instance", "asi_call", "asi_return"} => new.on = dr.on
<1>1. DOMAIN dr = {"r0", "r1", "r2", "r3", "on"}
  BY Zenon DEF DrShaped
<1>2. new.r0 = IF s = "bootstrap" THEN dr.r0 ELSE <<s, k>>
  BY <1>1 DEF Rewritten
<1>3. new.r1 = IF s = "startup" THEN Iat ELSE dr.r1
  BY <1>1 DEF Rewritten
<1>4. /\ s \in {"asi_call", "asi_return"} => new.r2 = End
      /\ s = "startup_return" => new.r2 = Call
      /\ s \notin {"asi_call", "asi_return", "startup_return"} => new.r2 = dr.r2
  BY <1>1 DEF Rewritten
<1>5. new.r3 = IF s = "instance" THEN Guard ELSE dr.r3
  BY <1>1 DEF Rewritten
<1>6. /\ s \in {"startup", "instance"} => new.on = Enabled(s)
      /\ s \in {"asi_call", "asi_return"} => new.on = dr.on \cup {2}
      /\ s \notin {"startup", "instance", "asi_call", "asi_return"} => new.on = dr.on
  BY <1>1 DEF Rewritten
<1> QED
  BY <1>2, <1>3, <1>4, <1>5, <1>6

\* Rewritten registers have the same shape.
LEMMA RewrittenShaped ==
  ASSUME DrShaped, NEW s, NEW k, NEW new, new = Rewritten(s, k)
  PROVE  new = [r0 |-> new.r0, r1 |-> new.r1, r2 |-> new.r2, r3 |-> new.r3, on |-> new.on]
<1>1. DOMAIN dr = {"r0", "r1", "r2", "r3", "on"}
  BY Zenon DEF DrShaped
<1> QED
  BY <1>1 DEF Rewritten

\* What is written is what the next stop needs: the registers of a stop become
\* those of the stop that comes next.
LEMMA RewrittenVerified ==
  ASSUME DrShaped, NEW p \in Stages, NEW kp \in 1 .. Stops(p), AwaitedRegisters(p, kp),
         NEW s \in Stages, NEW k, s # "entry", s = p \/ Follows(p, s)
  PROVE  Verified(s, k, Rewritten(s, k))
<1> DEFINE new == Rewritten(s, k)
<1>1. /\ new.r0 = IF s = "bootstrap" THEN dr.r0 ELSE <<s, k>>
      /\ new.r1 = IF s = "startup" THEN Iat ELSE dr.r1
      /\ s \in {"asi_call", "asi_return"} => new.r2 = End
      /\ s = "startup_return" => new.r2 = Call
      /\ s \notin {"asi_call", "asi_return", "startup_return"} => new.r2 = dr.r2
      /\ new.r3 = IF s = "instance" THEN Guard ELSE dr.r3
      /\ s \in {"startup", "instance"} => new.on = Enabled(s)
      /\ s \in {"asi_call", "asi_return"} => new.on = dr.on \cup {2}
      /\ s \notin {"startup", "instance", "asi_call", "asi_return"} => new.on = dr.on
  BY RewrittenFields
<1> HIDE DEF new
<1>2. Rank[p] \in 1 .. 29 /\ Rank[s] \in 1 .. 29
  BY RanksTyped
<1>3. "entry" \notin LateStages /\ "proxy" \notin LateStages /\ "startup" \notin LateStages
      /\ "codec" \notin LateStages /\ "binding" \notin LateStages /\ "asi_call" \notin LateStages
      /\ "asi_return" \notin LateStages /\ "bootstrap" \notin LateStages
  BY EarlyNames
<1>4. p # "entry" => Verified(p, kp, dr)
  BY DEF AwaitedRegisters
<1>5. CASE s = "proxy"
  <2>1. p = "proxy" \/ p = "entry"
    BY <1>2, <1>5, NamedRanks DEF Follows
  <2>2. dr.on = {0}
    BY <1>4, <2>1 DEF AwaitedRegisters, Verified, Enabled
  <2> QED
    BY <1>1, <1>3, <1>5, <2>2 DEF Verified, Address, Enabled, Scanning, FromInstance, new
<1>6. CASE s = "startup"
  BY <1>1, <1>3, <1>6 DEF Verified, Address, Enabled, Scanning, FromInstance, new
<1>7. CASE s \in {"codec", "binding"}
  <2>1. p \in {"startup", "codec", "binding"}
    BY <1>2, <1>7, NamedRanks DEF Follows
  <2>2. dr.on = {0, 1} /\ dr.r1 = Iat
    BY <1>3, <1>4, <2>1 DEF Verified, Enabled, Scanning, FromInstance
  <2> QED
    BY <1>1, <1>3, <1>7, <2>2 DEF Verified, Address, Enabled, Scanning, FromInstance, new
<1>8. CASE s \in {"asi_call", "asi_return"}
  <2>1. p \in {"binding", "asi_call", "asi_return"}
    BY <1>2, <1>8, NamedRanks DEF Follows
  <2>2. (dr.on = {0, 1} \/ dr.on = {0, 1, 2}) /\ dr.r1 = Iat
    BY <1>3, <1>4, <2>1 DEF Verified, Enabled, Scanning, FromInstance
  <2>3. new.on = {0, 1, 2}
    BY <1>1, <1>8, <2>2
  <2> QED
    BY <1>1, <1>3, <1>8, <2>2, <2>3 DEF Verified, Address, Enabled, Scanning, FromInstance, new
<1>9. CASE s = "bootstrap"
  <2>1. p \in {"asi_return", "bootstrap"}
    BY <1>2, <1>9, NamedRanks DEF Follows
  <2>2. p = "asi_return" => kp = 1
    BY DEF Stops
  <2>3. dr.r0 = <<"asi_return", 1>> /\ dr.on = {0, 1, 2} /\ dr.r1 = Iat /\ dr.r2 = End
    BY <1>3, <1>4, <2>1, <2>2 DEF Verified, Address, Enabled, Scanning, FromInstance
  <2> QED
    BY <1>1, <1>3, <1>9, <2>3 DEF Verified, Address, Enabled, Scanning, FromInstance, new
<1>10. CASE s = "startup_return"
  <2>1. p \in {"asi_return", "bootstrap", "startup_return"}
    BY <1>2, <1>10, NamedRanks DEF Follows
  <2>2. ~ FromInstance("startup_return")
    BY NamedRanks DEF FromInstance
  <2>3. dr.on = {0, 1, 2} /\ dr.r1 = Iat
    BY <1>3, <1>4, <2>1, <2>2, NamedRanks DEF Verified, Enabled, Scanning, FromInstance
  <2> QED
    BY <1>1, <1>3, <1>10, <2>2, <2>3, NamedRanks DEF Verified, Address, Enabled, Scanning, new
<1>11. CASE s \in LateStages /\ s # "startup_return"
  <2> DEFINE rs == Rank[s]  rp == Rank[p]
  <2>1. rs > 8 /\ rs # 9 /\ rs \in 1 .. 29 /\ rp \in 1 .. 29
    <3>1. rs > 8
      BY <1>11, SetsOfStages
    <3>2. rs # 9
      BY <1>11, NamedRanks
    <3> QED
      BY <1>2, <3>1, <3>2
  <2>2. s = p \/ rs = rp + 1
    BY <1>11 DEF Follows
  <2>3. p \in LateStages <=> rp > 8
    BY SetsOfStages
  <2>4. s # "instance" => rs # 14
    BY NamedRanks
  <2>5. FromInstance(p) <=> p \in LateStages /\ rp >= 14
    BY NamedRanks DEF FromInstance
  <2>6. FromInstance(s) <=> s \in LateStages /\ rs >= 14
    BY NamedRanks DEF FromInstance
  <2>7. s = p => rs = rp
    OBVIOUS
  <2> HIDE DEF rs, rp
  <2>8. p \in LateStages /\ (s # "instance" => (FromInstance(s) <=> FromInstance(p)))
    BY <1>11, <2>1, <2>2, <2>3, <2>4, <2>5, <2>6, <2>7
  <2>9. s = "instance" => FromInstance(s)
    BY NamedRanks DEF FromInstance
  <2>10. /\ dr.on = Enabled(p) /\ dr.r1 = Iat /\ dr.r2 = Call
         /\ FromInstance(p) => dr.r3 = Guard
    BY <1>3, <1>4, <2>8 DEF Verified, Scanning
  <2>11. s # "instance" => Enabled(s) = Enabled(p)
    BY <1>3, <1>11, <2>8 DEF Enabled, Scanning
  <2> QED
    BY <1>1, <1>3, <1>11, <2>8, <2>9, <2>10, <2>11 DEF Verified, Address, Scanning, new
<1>12. \/ s \in {"proxy", "startup", "codec", "binding", "asi_call", "asi_return", "bootstrap"}
       \/ s \in LateStages
  <2>1. \A i \in 1 .. 7 : i = 1 \/ i = 2 \/ i = 3 \/ i = 4 \/ i = 5 \/ i = 6 \/ i = 7
    OBVIOUS
  <2> QED
    BY <2>1, LoadStages, SetsOfStages
<1> QED
  BY <1>5, <1>6, <1>7, <1>8, <1>9, <1>10, <1>11, <1>12

------------------------------------------------------------------------------
(* The awaited registers stay in place                                      *)

\* The entry stop is armed before the loop, and only there.
LEMMA NeverEntry ==
  ASSUME OnTheLine, started, NEW n \in 1 .. Len(Line(goal)), Armed = Upto(Line(goal), n),
         NEW s \in Permitted(goal), NEW k, ComesNext(n, s, k)
  PROVE  s # "entry"
<1>1. SUFFICES ASSUME s = "entry" PROVE FALSE
  OBVIOUS
<1>2. "entry" \in Armed /\ stop["entry"] = 1 /\ Stops("entry") = 1
  <2>1. "entry" \in Armed
    BY <1>1 DEF OnTheLine
  <2>2. Stops("entry") = 1
    BY DEF Stops
  <2> QED
    BY <2>1, <2>2 DEF OnTheLine
<1>3. goal \in Goals /\ Shaped(Line(goal))
  BY GoalLine DEF OnTheLine
<1>4. s # Line(goal)[n]
  <2>1. SUFFICES ASSUME s = Line(goal)[n] PROVE FALSE
    OBVIOUS
  <2>2. n + 1 \in 1 .. Len(Line(goal)) => Line(goal)[n + 1] # s
    BY <1>2, <1>1, <2>1, <1>3, NextPlace
  <2> QED
    BY <1>1, <1>2, <2>1, <2>2 DEF ComesNext
<1>5. n < Len(Line(goal)) /\ s = Line(goal)[n + 1]
  BY <1>4 DEF ComesNext
<1> QED
  BY <1>1, <1>2, <1>3, <1>5, NextPlace

\* While nobody else writes the registers, the next stop is always armed.
LEMMA ArmingVerified ==
  ASSUME OnTheLine, RegistersKept, ~ disturbed, started,
         NEW n \in 1 .. Len(Line(goal)), Armed = Upto(Line(goal), n),
         NEW s \in Permitted(goal), NEW k \in 1 .. 10, ComesNext(n, s, k)
  PROVE  Verified(s, k, Rewritten(s, k))
<1> DEFINE p == Line(goal)[n]
<1>1. goal \in Goals /\ Shaped(Line(goal)) /\ p \in Stages /\ s \in Stages
  BY GoalLine, AtPlace DEF OnTheLine
<1>2. p \in Armed /\ Last(Armed) = p /\ stop[p] \in 1 .. Stops(p)
  BY <1>1, AtPlace, AwaitedStage DEF OnTheLine
<1>3. DrShaped /\ AwaitedRegisters(p, stop[p])
  BY <1>2 DEF RegistersKept, DrShaped
<1>4. s # "entry"
  BY NeverEntry
<1>5. s = p \/ Follows(p, s)
  BY <1>1, NextPlace DEF ComesNext
<1> HIDE DEF p
<1> QED
  BY <1>1, <1>2, <1>3, <1>4, <1>5, RewrittenVerified

\* A step that writes no register leaves them as they are.
LEMMA RegistersSame ==
  ASSUME RegistersKept, UNCHANGED <<stop, dr>>, disturbed' \in {disturbed, TRUE}
  PROVE  RegistersKept'
  BY DEF RegistersKept, AwaitedRegisters, Armed, Verified

\* No stop is armed at first.
LEMMA RegistersInit == Init => RegistersKept
  BY DEF Init, RegistersKept, Armed

\* Every step of the observation keeps the registers, or marks them written.
LEMMA RegistersStep ==
  ASSUME OnTheLine, RegistersKept, [Next]_vars
  PROVE  RegistersKept'
<1>1. CASE UNCHANGED vars
  BY <1>1, RegistersSame DEF vars
<1>2. CASE WrongThread \/ Continue \/ WaitEnds \/ ForeignEvent
  BY <1>2, RegistersSame DEF WrongThread, Continue, WaitEnds, ForeignEvent, Unmoved
<1>3. CASE Begin
  <2>1. CASE UNCHANGED <<started, stop, dr>>
    BY <1>3, <2>1, RegistersSame DEF Begin
  <2>2. CASE UNCHANGED <<stop, dr>>
    BY <1>3, <2>2, RegistersSame DEF Begin
  <2>3. CASE /\ stop' = [s \in {"entry"} |-> 1]
             /\ dr' = [dr EXCEPT !.r0 = <<"entry", 1>>, !.on = {0}]
    <3>1. Armed' = {"entry"}
      BY <2>3 DEF Armed
    <3>2. Last(Armed') = "entry"
      BY <3>1 DEF Last
    <3>3. /\ dr' = [r0 |-> dr'.r0, r1 |-> dr'.r1, r2 |-> dr'.r2, r3 |-> dr'.r3, on |-> dr'.on]
          /\ dr'.r0 = <<"entry", 1>> /\ dr'.on = {0}
      BY <2>3 DEF RegistersKept
    <3> QED
      BY <3>2, <3>3 DEF RegistersKept, AwaitedRegisters
  <2> QED
    BY <1>3, <2>1, <2>2, <2>3 DEF Begin
<1>6. CASE Tamper
  <2>1. disturbed' = TRUE
    BY <1>6 DEF Tamper
  <2>2. /\ dr' = [r0 |-> dr'.r0, r1 |-> dr'.r1, r2 |-> dr'.r2, r3 |-> dr'.r3, on |-> dr'.on]
        /\ dr'.on \subseteq {0, 1, 2, 3}
    BY <1>6 DEF Tamper, RegistersKept
  <2> QED
    BY <2>1, <2>2 DEF RegistersKept
<1>7. ASSUME Unmoved PROVE RegistersKept'
  BY <1>7, RegistersSame DEF Unmoved
<1>8. CASE \E p \in Placements : LoadDll(p[1], p[2])
  BY <1>7, <1>8 DEF LoadDll
<1>9. CASE \E base \in Unloadable : UnloadDll(base)
  BY <1>7, <1>9 DEF UnloadDll
<1>10. CASE CreateThread \/ OtherEvent
  BY <1>7, <1>10 DEF CreateThread, OtherEvent
<1>12. ASSUME NEW trap, Exception(trap) PROVE RegistersKept'
  <2>1. /\ UNCHANGED <<goal, started, continued, disturbed>> /\ started /\ ~ pending
    BY <1>12 DEF Exception, Receive
  <2>2. CASE UNCHANGED <<stop, dr>>
    BY <2>1, <2>2, RegistersSame
  <2>3. ASSUME Released, NEW handle, Handle(HandlerStage, handle)
        PROVE  RegistersKept'
    <3>1. PICK n \in 1 .. Len(Line(goal)) :
            Armed = Upto(Line(goal), n) /\ HandlerStage = Line(goal)[n]
      BY <2>1, <2>3, AtHandler
    <3>2. \/ UNCHANGED <<stop, dr>>
          \/ \E s \in Stages, k \in 1 .. 10 :
               ComesNext(n, s, k) /\ s \in Permitted(goal) /\ k \in 1 .. Stops(s) /\ Armable(s, k)
      <4>1. Handle(Line(goal)[n], handle)
        BY <2>3, <3>1
      <4> QED
        BY <3>1, <4>1, HandlerWays
    <3>3. ASSUME NEW s \in Stages, NEW k \in 1 .. 10, ComesNext(n, s, k), s \in Permitted(goal),
                 k \in 1 .. Stops(s), Armable(s, k)
          PROVE  RegistersKept'
      <4>1. AwaitedIs(s, k) /\ Verified(s, k, dr') /\ dr' = Rewritten(s, k)
        BY <3>3 DEF Armable
      <4>2. Last(Armed') = s /\ stop'[s] = k
        BY <3>1, <3>3, <4>1, ArmedNext
      <4>3. s # "entry"
        BY <2>1, <3>1, <3>3, NeverEntry
      <4>4. DrShaped
        BY DEF RegistersKept, DrShaped
      <4>5. dr' = [r0 |-> dr'.r0, r1 |-> dr'.r1, r2 |-> dr'.r2, r3 |-> dr'.r3, on |-> dr'.on]
        <5>1. PICK new : new = dr'
          OBVIOUS
        <5>2. new = [r0 |-> new.r0, r1 |-> new.r1, r2 |-> new.r2, r3 |-> new.r3, on |-> new.on]
          <6>1. new = Rewritten(s, k)
            BY <4>1, <5>1
          <6> QED
            BY <4>4, <6>1, RewrittenShaped
        <5> QED
          BY <5>1, <5>2
      <4>6. dr'.on = Enabled(s)
        BY <4>1 DEF Verified
      <4>7. Enabled(s) \subseteq {0, 1, 2, 3}
        BY DEF Enabled
      <4>8. AwaitedRegisters(s, k)'
        <5>1. AwaitedRegisters(s, k)' = IF s = "entry" THEN dr'.r0 = <<"entry", 1>> /\ dr'.on = {0} ELSE Verified(s, k, dr')
          BY DEF AwaitedRegisters, Verified
        <5> QED
          BY <4>1, <4>3, <5>1
      <4>9. AwaitedRegisters(Last(Armed), stop[Last(Armed)])'
        BY <4>2, <4>8 DEF AwaitedRegisters, Verified
      <4> QED
        BY <4>5, <4>6, <4>7, <4>9 DEF RegistersKept
    <3> QED
      BY <2>2, <3>2, <3>3
  <2> QED
    BY <1>12, <2>2, <2>3 DEF Exception, InitialBreakpoint
<1> QED
  BY <1>1, <1>2, <1>3, <1>6, <1>8, <1>9, <1>10, <1>12
  DEF Next, Observer, Debuggee

------------------------------------------------------------------------------
(* The loop's own limits, and the stop its guards expect                    *)

\* The limits of the loop, as numbers.
LEMMA LimitsPositive == EventLimit \in 1 .. 160 /\ ThreadLimit \in 1 .. 16 /\ ByteLimit \in Nat \ {0}
  BY LoaderAssumption

\* The loop starts at its first event.
LEMMA CountedInit == Init => Counted
  BY LimitsPositive DEF Init, Counted, Running

\* Every step of the observation stays within the limits.
LEMMA CountedStep ==
  ASSUME Counted, [Next]_vars
  PROVE  Counted'
<1>2. CASE UNCHANGED vars
  BY <1>2 DEF vars, Running, Counted, clocks
<1>3. CASE WrongThread \/ WaitEnds
  BY <1>3 DEF WrongThread, WaitEnds, clocks, Counted, Running
<1>4. CASE Begin \/ Tamper
  BY <1>4 DEF Begin, Tamper, clocks, Counted, Running
<1>5. CASE Continue
  BY <1>5 DEF Continue, clocks, Counted, Running
<1>6. CASE ForeignEvent
  <2>1. reason' \in {"loader_event_identity", "loader_exit_unconfirmed"}
    BY <1>6 DEF ForeignEvent, Fault, Finish
  <2>2. UNCHANGED <<thread_count, charged_bytes>> /\ event_count' = event_count + 1 /\ Running /\ ~ pending
    BY <1>6 DEF ForeignEvent
  <2> QED
    BY <2>1, <2>2, LimitsPositive DEF Counted, Running
<1>7. ASSUME Receive PROVE pending' = TRUE /\ event_count' \in 1 .. EventLimit /\ Running
  BY <1>7, LimitsPositive DEF Receive, Counted
<1>8. ASSUME NEW p \in Placements, LoadDll(p[1], p[2]) PROVE Counted'
  <2>1. UNCHANGED thread_count /\ pending' = TRUE /\ event_count' \in 1 .. EventLimit /\ Running
    BY <1>7, <1>8 DEF LoadDll
  <2>2. FileBytes[p[1]] \in Nat
    BY LoaderAssumption
  <2>3. \/ charged_bytes' = charged_bytes
        \/ /\ FileBytes[p[1]] <= ByteLimit - charged_bytes
           /\ charged_bytes' = charged_bytes + FileBytes[p[1]]
    BY <1>8 DEF LoadDll
  <2>4. charged_bytes' \in 0 .. ByteLimit
    BY <2>2, <2>3, LimitsPositive DEF Counted
  <2> QED
    BY <2>1, <2>4 DEF Counted
<1>9. CASE \E base \in Unloadable : UnloadDll(base)
  BY <1>7, <1>9 DEF UnloadDll, Counted
<1>10. CASE CreateThread
  <2>1. UNCHANGED charged_bytes /\ thread_count' = thread_count + 1 /\ Running
        /\ pending' = TRUE /\ event_count' \in 1 .. EventLimit
    BY <1>7, <1>10 DEF CreateThread
  <2>2. thread_count' > ThreadLimit => reason' \in {"loader_thread_limit", "loader_exit_unconfirmed"}
    BY <1>10 DEF CreateThread, Conclude, Finish
  <2> QED
    BY <2>1, <2>2, LimitsPositive DEF Counted, Running
<1>11. CASE OtherEvent
  BY <1>7, <1>11 DEF OtherEvent, Counted
<1>12. CASE \E trap \in Traps : Exception(trap)
  BY <1>7, <1>12 DEF Exception, Counted
<1> QED
  BY <1>2, <1>3, <1>4, <1>5, <1>6, <1>8, <1>9, <1>10, <1>11, <1>12
  DEF Next, Observer, Debuggee

\* The entry stop is released: the loop's registers are those of the stop
\* armed last, as the guards expect them.
LEMMA Expected ==
  ASSUME OnTheLine, RegistersKept, started, ~ pending, Released, ~ disturbed
  PROVE  /\ dr.r0 = expected_address
         /\ "startup" \in continued => dr.r1 = Iat /\ dr.on = watched_dr7
         /\ "startup" \notin continued => dr.on = {0}
         /\ "asi_call" \in continued =>
              "startup" \in continued /\ dr.r2 = watched_dr2 /\ watched_dr2 \in {Call, End}
         /\ "instance" \in Armed => dr.r3 = Guard
         /\ HandlerStage = Last(Armed)
         /\ dr.r0 = Address(HandlerStage, stop[HandlerStage])
<1>1. PICK n \in 1 .. Len(Line(goal)) :
        /\ Armed = Upto(Line(goal), n) /\ continued = Armed
        /\ Last(Armed) = Line(goal)[n] /\ HandlerStage = Line(goal)[n]
        /\ expected_address =
             IF Line(goal)[n] = "bootstrap" THEN <<"asi_return", stop["asi_return"]>>
             ELSE <<Line(goal)[n], stop[Line(goal)[n]]>>
  BY AtHandler
<1> DEFINE L == Line(goal)[n]
<1>2. goal \in Goals /\ Shaped(Line(goal)) /\ L \in Stages /\ L \in Armed /\ stop[L] \in 1 .. Stops(L)
  BY <1>1, GoalLine, AtPlace DEF OnTheLine
<1>3. /\ "startup" \in Armed <=> L \notin {"entry", "proxy"}
      /\ "asi_call" \in Armed <=> Scanning(L)
      /\ "startup_return" \in Armed <=> L \in LateStages
      /\ "instance" \in Armed <=> FromInstance(L)
      /\ L = "bootstrap" => "asi_return" \in Armed
  BY <1>1, <1>2, NamedStages
<1>4. /\ "entry" \notin LateStages /\ "proxy" \notin LateStages /\ "bootstrap" \notin LateStages
  BY EarlyNames
<1>5. AwaitedRegisters(L, stop[L])
  <2>1. Armed # {}
    BY <1>2
  <2> QED
    BY <1>1, <2>1 DEF RegistersKept
<1>6. L = "entry" => stop[L] = 1
  BY <1>2 DEF Stops
<1>7. L = "bootstrap" => stop["asi_return"] = 1
  <2>1. L = "bootstrap" => stop["asi_return"] \in 1 .. Stops("asi_return")
    BY <1>3 DEF OnTheLine
  <2> QED
    BY <2>1 DEF Stops
<1> HIDE DEF L
<1>8. CASE L \in {"entry", "proxy"}
  <2>1. /\ ~ Scanning(L) /\ ~ FromInstance(L) /\ L \notin LateStages
    BY <1>4, <1>8 DEF Scanning, FromInstance
  <2>2. dr.on = {0} /\ dr.r0 = <<L, stop[L]>>
    BY <1>5, <1>6, <1>8 DEF AwaitedRegisters, Verified, Address, Enabled
  <2> QED
    BY <1>1, <1>3, <1>8, <2>1, <2>2 DEF L, Address
<1>9. CASE L \notin {"entry", "proxy"}
  <2>1. /\ dr.r0 = Address(L, stop[L]) /\ dr.on = Enabled(L) /\ dr.r1 = Iat
        /\ Scanning(L) => dr.r2 = (IF L \in LateStages THEN Call ELSE End)
        /\ FromInstance(L) => dr.r3 = Guard
    BY <1>5, <1>9 DEF AwaitedRegisters, Verified
  <2>2. Enabled(L) = watched_dr7
    BY <1>1, <1>3, <1>9 DEF Enabled, watched_dr7
  <2>3. Address(L, stop[L]) = expected_address
    BY <1>1, <1>7 DEF Address, L
  <2>4. watched_dr2 = IF L \in LateStages THEN Call ELSE End
    BY <1>3 DEF watched_dr2
  <2> QED
    BY <1>1, <1>3, <1>9, <2>1, <2>2, <2>3, <2>4 DEF L
<1> QED
  BY <1>8, <1>9

------------------------------------------------------------------------------
(* What a load and an unload do                                             *)

\* What a finished run reports: the reason, or that the child's exit could not
\* be confirmed.
LEMMA FinishesOther ==
  ASSUME NEW r \in OtherReasons, Finish(r)
  PROVE  reason' \in OtherReasons
  BY DEF Finish, OtherReasons

\* A fault of the loop's own ends the run with one of its own reasons.
LEMMA FaultsOther ==
  ASSUME NEW rs, rs \subseteq OtherReasons, Fault(rs)
  PROVE  reason' \in OtherReasons
  BY FinishesOther DEF Fault

\* The module a load records.
NewModule(file, base, id) ==
  [file |-> file, base |-> base, event_index |-> event_count + 1,
   unload_event_index |-> 0, mapping_id |-> id]

\* The mapping a load records.
NewMapping(base) ==
  [base |-> base, id |-> Len(history) + 1, load_event |-> event_count + 1, unload_event |-> 0]

\* The ledger's answer to the loop: it never reports its own limits, because
\* the loop asks it with a fresh event and while it has room.
LEMMA LedgerAdmits ==
  ASSUME RecordKept, Counted, Running, NEW base \in Bases, base # NullBase,
         Len(modules) < limit, Ledger!Admit(base, event_count')
  PROVE  event_count' = event_count + 1 =>
         \/ /\ transition'.error = "loader_mapping_base_active" /\ transition'.mapping_id = 0
            /\ UNCHANGED <<limit, history, last_event>>
         \/ /\ transition'.error = "none" /\ transition'.mapping_id = Len(history) + 1
            /\ history' = Append(history, NewMapping(base))
            /\ last_event' = event_count + 1 /\ UNCHANGED limit
<1> SUFFICES ASSUME event_count' = event_count + 1
             PROVE  \/ /\ transition'.error = "loader_mapping_base_active" /\ transition'.mapping_id = 0
                       /\ UNCHANGED <<limit, history, last_event>>
                    \/ /\ transition'.error = "none" /\ transition'.mapping_id = Len(history) + 1
                       /\ history' = Append(history, NewMapping(base))
                       /\ last_event' = event_count + 1 /\ UNCHANGED limit
  OBVIOUS
<1>1. /\ event_count \in Nat /\ last_event \in Nat /\ last_event <= event_count
      /\ limit \in 1 .. MaxMappings /\ MaxMappings \in Nat /\ Len(history) = Len(modules)
  BY LoaderAssumption DEF RecordKept, Counted
<1>2. Ledger!Validate(base, event_count + 1) = "none"
  BY <1>1 DEF Ledger!Validate
<1>3. Ledger!AdmitError(base, event_count + 1) \in {"none", "loader_mapping_base_active"}
  BY <1>1, <1>2 DEF Ledger!AdmitError, Ledger!count_
<1>4. Ledger!Admit(base, event_count + 1)
  BY DEF Ledger!Admit, Ledger!Refuse, Ledger!AdmitError, Ledger!Validate
<1>5. CASE Ledger!Refuse(Ledger!AdmitError(base, event_count + 1))
  BY <1>3, <1>5 DEF Ledger!Refuse
<1> QED
  BY <1>4, <1>5 DEF Ledger!Admit, Ledger!count_, NewMapping

\* A load ends the run before or after its module was recorded, or records
\* the module together with its mapping.
LEMMA LoadWays ==
  ASSUME RecordKept, Counted, NEW p \in Placements, LoadDll(p[1], p[2])
  PROVE  /\ Running /\ started /\ ~ pending /\ pending' = TRUE /\ Unmoved
         /\ event_count' = event_count + 1
         /\ \/ UNCHANGED <<modules, limit, history, last_event>> /\ reason' \in OtherReasons
            \/ /\ modules' = Append(modules, NewModule(p[1], p[2], 0)) /\ Len(modules) < limit
               /\ UNCHANGED <<limit, history, last_event>> /\ reason' \in OtherReasons
            \/ /\ modules' = Append(modules, NewModule(p[1], p[2], Len(modules) + 1))
               /\ Len(modules) < limit
               /\ history' = Append(history, NewMapping(p[2]))
               /\ last_event' = event_count + 1 /\ UNCHANGED limit
               /\ \/ reason' \in OtherReasons
                  \/ /\ UNCHANGED reason
                     /\ ~ ("binding" \in continued /\ "asi_return" \notin continued)
<1>1. Running /\ started /\ ~ pending /\ pending' = TRUE /\ Unmoved /\ event_count' = event_count + 1
  BY DEF LoadDll, Receive
<1>2. p[2] \in Bases
  BY LoaderAssumption
<1>3. Len(history) = Len(modules)
  BY <1>1 DEF RecordKept
<1> DEFINE affordable == FileBytes[p[1]] <= ByteLimit - charged_bytes
           judged == affordable /\ p[2] # NullBase /\ p[1] \in Pins
<1>4. CASE Len(modules) >= limit /\ Finish("loader_module_limit") /\ UNCHANGED <<modules, charged_bytes, ledger>>
  BY <1>1, <1>4 DEF ledger, Finish, OtherReasons
<1>5. CASE Fault({"loader_module_metadata", "loader_file_or_byte_limit"}) /\ UNCHANGED <<modules, charged_bytes, ledger>>
  <2>1. reason' \in OtherReasons
    BY <1>5, FaultsOther DEF OtherReasons
  <2> QED
    BY <1>1, <1>5, <2>1 DEF ledger
<1>6. CASE /\ Len(modules) < limit
           /\ IF judged THEN Ledger!Admit(p[2], event_count') ELSE UNCHANGED ledger
           /\ modules' = Append(modules,
                [file |-> p[1], base |-> p[2], event_index |-> event_count',
                 unload_event_index |-> 0,
                 mapping_id |-> IF judged THEN transition'.mapping_id ELSE 0])
           /\ IF ~ affordable THEN Finish("loader_file_or_byte_limit")
              ELSE IF p[2] = NullBase THEN Finish("loader_module_metadata")
              ELSE IF p[1] \notin Pins THEN Finish("loader_module_not_pinned")
              ELSE Conclude(LoadRefusal(transition'.error))
  <2>1. CASE ~ judged
    <3>1. reason' \in OtherReasons
      BY <1>6, <2>1 DEF Finish, OtherReasons
    <3>2. modules' = Append(modules, NewModule(p[1], p[2], 0))
      BY <1>1, <1>6, <2>1 DEF NewModule
    <3>3. UNCHANGED <<limit, history, last_event>>
      BY <1>6, <2>1 DEF ledger
    <3> QED
      BY <1>1, <1>6, <3>1, <3>2, <3>3
  <2>2. CASE judged
    <3>1. Ledger!Admit(p[2], event_count') /\ Conclude(LoadRefusal(transition'.error))
      BY <1>6, <2>2
    <3>2. modules' = Append(modules, NewModule(p[1], p[2], transition'.mapping_id))
      BY <1>1, <1>6, <2>2 DEF NewModule
    <3>3. p[2] # NullBase /\ Len(modules) < limit
      BY <1>6, <2>2
    <3> HIDE DEF judged, affordable
    <3>4. CASE /\ transition'.error = "loader_mapping_base_active" /\ transition'.mapping_id = 0
               /\ UNCHANGED <<limit, history, last_event>>
      <4>1. reason' \in OtherReasons
        BY <3>1, <3>4 DEF LoadRefusal, Conclude, Finish, OtherReasons
      <4> QED
        BY <1>1, <3>2, <3>3, <3>4, <4>1
    <3>5. CASE /\ transition'.error = "none" /\ transition'.mapping_id = Len(history) + 1
               /\ history' = Append(history, NewMapping(p[2]))
               /\ last_event' = event_count + 1 /\ UNCHANGED limit
      <4>1. \/ reason' \in OtherReasons
            \/ UNCHANGED reason /\ ~ ("binding" \in continued /\ "asi_return" \notin continued)
        BY <3>1, <3>5 DEF LoadRefusal, Conclude, Finish, OtherReasons
      <4> QED
        BY <1>1, <1>3, <3>2, <3>3, <3>5, <4>1
    <3> QED
      BY <1>1, <1>2, <3>1, <3>3, <3>4, <3>5, LedgerAdmits
  <2> QED
    BY <2>1, <2>2
<1> QED
  BY <1>4, <1>5, <1>6 DEF LoadDll

\* The module a mapping belongs to is the one at its identifier.
LEMMA MappedIs ==
  ASSUME RecordKept, NEW file
  PROVE  Mapped(file) = {i \in 1 .. Len(history) :
                           modules[i].file = file /\ modules[i].base # NullBase /\ Ledger!Live(i)}
<1>1. /\ DOMAIN modules = 1 .. Len(modules) /\ Len(modules) \in Nat /\ Len(history) \in Nat
      /\ Len(history) <= Len(modules)
  BY DEF RecordKept
<1> DEFINE there(i) == modules[i].file = file /\ modules[i].base # NullBase /\ Ledger!Live(i)
<1>2. ASSUME NEW i \in 1 .. Len(history)
      PROVE  i \in DOMAIN modules
             /\ (Ledger!Active(modules[i].mapping_id, modules[i].base) <=>
                   modules[i].base # NullBase /\ Ledger!Live(i))
  BY <1>1, <1>2 DEF RecordKept, Ledger!Active, Ledger!count_
<1>3. ASSUME NEW i \in DOMAIN modules, i \notin 1 .. Len(history)
      PROVE  ~ Ledger!Active(modules[i].mapping_id, modules[i].base)
  <2>1. i > Len(history) /\ i \in 1 .. Len(modules)
    BY <1>1, <1>3
  <2>2. modules[i].mapping_id = 0
    BY <2>1 DEF RecordKept
  <2> QED
    BY <1>1, <2>2 DEF Ledger!Active, Ledger!count_
<1> QED
  BY <1>1, <1>2, <1>3 DEF Mapped

\* An unload marks one module and its mapping, or ends the run.
Unloads(i) ==
  /\ Ledger!Live(i)
  /\ history' = [history EXCEPT ![i].unload_event = event_count + 1]
  /\ modules' = [modules EXCEPT ![i].unload_event_index = event_count + 1]
  /\ last_event' = event_count + 1 /\ UNCHANGED limit
  /\ \/ reason' \in OtherReasons
     \/ UNCHANGED reason /\ UnloadRefusal(i) = "none"

\* What an unload does, in one of the two ways.
LEMMA UnloadWays ==
  ASSUME RecordKept, Counted, NEW base, UnloadDll(base)
  PROVE  /\ Running /\ started /\ ~ pending /\ pending' = TRUE /\ Unmoved
         /\ event_count' = event_count + 1
         /\ \/ UNCHANGED <<modules, limit, history, last_event>> /\ reason' \in OtherReasons
            \/ \E i \in 1 .. Len(history) : Unloads(i)
<1>1. Running /\ started /\ ~ pending /\ pending' = TRUE /\ Unmoved /\ event_count' = event_count + 1
  BY DEF UnloadDll, Receive
<1>2. /\ event_count \in Nat /\ last_event \in Nat /\ last_event <= event_count
      /\ limit \in 1 .. MaxMappings /\ MaxMappings \in Nat /\ Len(history) = Len(modules)
      /\ Len(history) \in Nat /\ DOMAIN modules = 1 .. Len(modules)
  BY <1>1, LoaderAssumption DEF RecordKept, Counted
<1>3. Ledger!RetireError(base, event_count + 1) \in
        {"none", "loader_mapping_invalid_base", "loader_mapping_not_active"}
  BY <1>2 DEF Ledger!RetireError, Ledger!Validate
<1>4. Ledger!Retire(base, event_count + 1)
  BY <1>1 DEF UnloadDll, Ledger!Retire, Ledger!Refuse, Ledger!RetireError, Ledger!Validate
<1> DEFINE id == transition'.mapping_id
           retired == {i \in DOMAIN modules : modules[i].mapping_id = id}
<1>5. IF transition'.error # "none"
      THEN Finish(transition'.error) /\ UNCHANGED modules
      ELSE IF retired = {}
      THEN Finish("loader_mapping_history_mismatch") /\ UNCHANGED modules
      ELSE MarkUnloaded(id) /\ Conclude(UnloadRefusal(CHOOSE i \in retired : TRUE))
  BY DEF UnloadDll
<1>6. CASE Ledger!Refuse(Ledger!RetireError(base, event_count + 1))
  <2>1. transition'.error \in {"loader_mapping_invalid_base", "loader_mapping_not_active"}
        /\ UNCHANGED <<limit, history, last_event>>
    BY <1>3, <1>6 DEF Ledger!Refuse
  <2>2. Finish(transition'.error) /\ UNCHANGED modules
    BY <1>5, <2>1
  <2>3. reason' \in OtherReasons
    BY <2>1, <2>2 DEF Finish, OtherReasons
  <2> QED
    BY <1>1, <2>1, <2>2, <2>3
<1>7. CASE \E i \in 1 .. Len(history) :
             /\ Ledger!Live(i)
             /\ history' = [history EXCEPT ![i].unload_event = event_count + 1]
             /\ transition' = [mapping_id |-> history[i].id, error |-> "none"]
             /\ last_event' = event_count + 1 /\ UNCHANGED limit
  <2>1. PICK i \in 1 .. Len(history) :
             /\ Ledger!Live(i)
             /\ history' = [history EXCEPT ![i].unload_event = event_count + 1]
             /\ transition' = [mapping_id |-> history[i].id, error |-> "none"]
             /\ last_event' = event_count + 1 /\ UNCHANGED limit
    BY <1>7
  <2>2. id = i /\ transition'.error = "none"
    BY <2>1 DEF RecordKept
  <2>3. retired = {i}
    BY <1>2, <2>2 DEF RecordKept
  <2>4. MarkUnloaded(i) /\ Conclude(UnloadRefusal(i))
    <3>1. (CHOOSE j \in retired : TRUE) = i
      BY <2>3
    <3>2. retired # {}
      BY <2>3
    <3> QED
      BY <1>5, <2>2, <3>1, <3>2
  <2>5. modules' = [modules EXCEPT ![i].unload_event_index = event_count + 1]
    <3>1. \A j \in 1 .. Len(modules) : modules[j].mapping_id = i <=> j = i
      BY <1>1, <2>1 DEF RecordKept
    <3>2. modules' = [j \in DOMAIN modules |->
                        IF modules[j].mapping_id = i
                        THEN [modules[j] EXCEPT !.unload_event_index = event_count']
                        ELSE modules[j]]
      BY <2>4 DEF MarkUnloaded
    <3>3. DOMAIN modules = 1 .. Len(modules) /\ modules = [j \in DOMAIN modules |-> modules[j]]
      BY DEF RecordKept
    <3> QED
      BY <1>1, <3>1, <3>2, <3>3
  <2>6. \/ reason' \in OtherReasons
        \/ UNCHANGED reason /\ UnloadRefusal(i) = "none"
    BY <2>4 DEF Conclude, UnloadRefusal, Finish, OtherReasons
  <2>7. Unloads(i)
    BY <2>1, <2>5, <2>6 DEF Unloads
  <2> QED
    BY <1>1, <2>7
<1> QED
  BY <1>4, <1>6, <1>7 DEF Ledger!Retire, Ledger!count_

------------------------------------------------------------------------------
(* The record of mappings agrees with the ledger                            *)

\* Only loads and unloads touch the record of mappings.
LEMMA RecordMoves ==
  ASSUME [Next]_vars
  PROVE  /\ Running' => Running
         /\ \/ \E p \in Placements : LoadDll(p[1], p[2])
            \/ \E base \in Unloadable : UnloadDll(base)
            \/ /\ UNCHANGED <<modules, limit, history, last_event>>
               /\ event_count' \in {event_count, event_count + 1}
<1>1. CASE UNCHANGED vars
  BY <1>1 DEF vars, clocks, ledger, Running
<1>2. CASE WrongThread \/ Begin \/ WaitEnds
  BY <1>2 DEF WrongThread, Begin, WaitEnds, clocks, ledger
<1>3. CASE Continue \/ Tamper
  BY <1>3 DEF Continue, Tamper, clocks, ledger
<1>4. CASE ForeignEvent \/ CreateThread \/ OtherEvent
  BY <1>4 DEF ForeignEvent, CreateThread, OtherEvent, Receive, ledger
<1>5. CASE \E trap \in Traps : Exception(trap)
  BY <1>5 DEF Exception, Receive, ledger
<1>6. CASE \E p \in Placements : LoadDll(p[1], p[2])
  BY <1>6 DEF LoadDll, Receive
<1>7. CASE \E base \in Unloadable : UnloadDll(base)
  BY <1>7 DEF UnloadDll, Receive
<1> QED
  BY <1>1, <1>2, <1>3, <1>4, <1>5, <1>6, <1>7 DEF Next, Observer, Debuggee

\* Nothing is recorded at first.
LEMMA RecordInit == Init => RecordKept
<1> SUFFICES ASSUME Init PROVE RecordKept
  OBVIOUS
<1>1. limit \in Limits /\ limit \in Nat /\ history = <<>> /\ modules = <<>> /\ last_event = 0 /\ event_count = 1
  BY LoaderAssumption DEF Init, Ledger!Init
<1> QED
  BY <1>1 DEF RecordKept

\* Every step of the observation keeps record and ledger the same list.
LEMMA RecordStep ==
  ASSUME RecordKept, Counted, [Next]_vars
  PROVE  RecordKept'
<1>1. /\ event_count \in Nat /\ limit \in Nat /\ Len(modules) \in Nat /\ Len(history) \in Nat
      /\ last_event \in Nat
  BY LoaderAssumption DEF RecordKept, Counted
<1>2. /\ \A i \in 1 .. Len(modules) : modules[i] \in ModuleRecord /\ modules[i].event_index \in Nat
      /\ \A i \in 1 .. Len(history) : history[i] \in Ledger!LoaderMapping
      /\ \A i \in 1 .. Len(history) : i \in 1 .. Len(modules)
  <2>1. \A m \in ModuleRecord : m.event_index \in Nat
    BY DEF ModuleRecord
  <2>2. \A i \in 1 .. Len(modules) : modules[i] \in ModuleRecord
    BY DEF RecordKept
  <2>3. \A i \in 1 .. Len(history) : history[i] \in Ledger!LoaderMapping
    BY DEF RecordKept
  <2>4. \A i \in 1 .. Len(history) : i \in 1 .. Len(modules)
    BY <1>1 DEF RecordKept
  <2> QED
    BY <2>1, <2>2, <2>3, <2>4
<1>3. Running' => Running
  BY RecordMoves
<1>4. ASSUME UNCHANGED <<modules, limit, history, last_event>>,
             event_count' \in {event_count, event_count + 1}
      PROVE  RecordKept'
  BY <1>1, <1>2, <1>3, <1>4 DEF RecordKept
<1>5. ASSUME NEW p \in Placements, NEW id \in Nat,
             modules' = Append(modules, NewModule(p[1], p[2], id))
      PROVE  /\ modules' \in Seq(ModuleRecord) /\ Len(modules') = Len(modules) + 1
             /\ \A i \in 1 .. Len(modules) : modules'[i] = modules[i]
             /\ modules'[Len(modules) + 1] = NewModule(p[1], p[2], id)
  <2>1. NewModule(p[1], p[2], id) \in ModuleRecord
    BY <1>1, LoaderAssumption DEF NewModule, ModuleRecord
  <2> QED
    BY <1>5, <2>1 DEF RecordKept
<1>6. ASSUME NEW p \in Placements, LoadDll(p[1], p[2]) PROVE RecordKept'
  <2>1. event_count' = event_count + 1 /\ Running
    BY <1>6, LoadWays
  <2>2. CASE /\ modules' = Append(modules, NewModule(p[1], p[2], 0)) /\ Len(modules) < limit
             /\ UNCHANGED <<limit, history, last_event>> /\ reason' \in OtherReasons
    <3>1. ~ Running'
      BY <2>2 DEF OtherReasons, Running
    <3>2. /\ modules' \in Seq(ModuleRecord) /\ Len(modules') = Len(modules) + 1
          /\ \A i \in 1 .. Len(modules) : modules'[i] = modules[i]
          /\ modules'[Len(modules) + 1] = NewModule(p[1], p[2], 0)
      BY <1>5, <2>2
    <3>3. \A i \in 1 .. Len(modules') : i \in 1 .. Len(modules) \/ i = Len(modules) + 1
      BY <1>1, <3>2
    <3>9. /\ modules'[Len(modules) + 1].event_index = event_count + 1
          /\ modules'[Len(modules) + 1].mapping_id = 0
      BY <3>2 DEF NewModule
    <3>4. ASSUME NEW i \in 1 .. Len(modules') PROVE modules'[i].event_index <= event_count'
      <4>1. CASE i \in 1 .. Len(modules)
        BY <1>1, <1>2, <2>1, <3>2, <4>1 DEF RecordKept
      <4>2. CASE i = Len(modules) + 1
        BY <1>1, <2>1, <3>9, <4>2
      <4> QED
        BY <3>3, <4>1, <4>2
    <3>5. \A i \in 1 .. Len(history) :
            /\ history[i].id = i /\ modules'[i].mapping_id = i
            /\ history[i].base = modules'[i].base
            /\ history[i].load_event = modules'[i].event_index
            /\ history[i].unload_event = modules'[i].unload_event_index
      BY <1>1, <1>2, <3>2 DEF RecordKept
    <3>6. ASSUME NEW i \in 1 .. Len(modules'), i > Len(history) PROVE modules'[i].mapping_id = 0
      <4>1. CASE i \in 1 .. Len(modules)
        BY <3>2, <3>6, <4>1 DEF RecordKept
      <4>2. CASE i = Len(modules) + 1
        BY <3>9, <4>2
      <4> QED
        BY <3>3, <4>1, <4>2
    <3> QED
      BY <1>1, <2>1, <2>2, <3>1, <3>2, <3>4, <3>5, <3>6 DEF RecordKept
  <2>3. CASE /\ modules' = Append(modules, NewModule(p[1], p[2], Len(modules) + 1))
             /\ Len(modules) < limit
             /\ history' = Append(history, NewMapping(p[2]))
             /\ last_event' = event_count + 1 /\ UNCHANGED limit
    <3>1. Len(history) = Len(modules)
      BY <2>1 DEF RecordKept
    <3>2. /\ modules' \in Seq(ModuleRecord) /\ Len(modules') = Len(modules) + 1
          /\ \A i \in 1 .. Len(modules) : modules'[i] = modules[i]
          /\ modules'[Len(modules) + 1] = NewModule(p[1], p[2], Len(modules) + 1)
      BY <1>1, <1>5, <2>3
    <3>3. /\ history' \in Seq(Ledger!LoaderMapping) /\ Len(history') = Len(history) + 1
          /\ \A i \in 1 .. Len(history) : history'[i] = history[i]
          /\ history'[Len(history) + 1] = NewMapping(p[2])
      <4>1. NewMapping(p[2]) \in Ledger!LoaderMapping
        BY <1>1, LoaderAssumption DEF NewMapping, Ledger!LoaderMapping
      <4> QED
        BY <2>3, <4>1 DEF RecordKept
    <3>4. \A i \in 1 .. Len(modules') : i \in 1 .. Len(modules) \/ i = Len(modules) + 1
      BY <1>1, <3>2
    <3>9. modules'[Len(modules) + 1].event_index = event_count + 1
      BY <3>2 DEF NewModule
    <3>5. ASSUME NEW i \in 1 .. Len(modules') PROVE modules'[i].event_index <= event_count'
      <4>1. CASE i \in 1 .. Len(modules)
        BY <1>1, <1>2, <2>1, <3>2, <4>1 DEF RecordKept
      <4>2. CASE i = Len(modules) + 1
        BY <1>1, <2>1, <3>9, <4>2
      <4> QED
        BY <3>4, <4>1, <4>2
    <3>6. \A i \in 1 .. Len(history') :
            /\ history'[i].id = i /\ modules'[i].mapping_id = i
            /\ history'[i].base = modules'[i].base
            /\ history'[i].load_event = modules'[i].event_index
            /\ history'[i].unload_event = modules'[i].unload_event_index
      BY <1>1, <1>2, <3>1, <3>2, <3>3, <3>4 DEF RecordKept, NewModule, NewMapping
    <3>7. ~ \E i \in 1 .. Len(modules') : i > Len(history')
      BY <1>1, <3>1, <3>2, <3>3
    <3> QED
      BY <1>1, <2>1, <2>3, <3>1, <3>2, <3>3, <3>5, <3>6, <3>7 DEF RecordKept
  <2>4. CASE UNCHANGED <<modules, limit, history, last_event>>
    BY <1>4, <2>1, <2>4
  <2> QED
    BY <1>6, <2>2, <2>3, <2>4, LoadWays
<1>7. ASSUME NEW base, UnloadDll(base) PROVE RecordKept'
  <2>1. event_count' = event_count + 1 /\ Running
    BY <1>7, UnloadWays
  <2>2. CASE UNCHANGED <<modules, limit, history, last_event>>
    BY <1>4, <2>1, <2>2
  <2>3. ASSUME NEW i \in 1 .. Len(history), Unloads(i) PROVE RecordKept'
    <3>1. /\ history' = [history EXCEPT ![i].unload_event = event_count + 1]
          /\ modules' = [modules EXCEPT ![i].unload_event_index = event_count + 1]
          /\ last_event' = event_count + 1 /\ UNCHANGED limit
      BY <2>3 DEF Unloads
    <3>2. /\ modules' \in Seq(ModuleRecord) /\ Len(modules') = Len(modules)
          /\ \A j \in 1 .. Len(modules) : j # i => modules'[j] = modules[j]
          /\ modules'[i] = [modules[i] EXCEPT !.unload_event_index = event_count + 1]
      <4>1. [modules[i] EXCEPT !.unload_event_index = event_count + 1] \in ModuleRecord
        <5>1. \A m \in ModuleRecord, e \in Nat : [m EXCEPT !.unload_event_index = e] \in ModuleRecord
          BY DEF ModuleRecord
        <5>2. modules[i] \in ModuleRecord /\ event_count + 1 \in Nat
          BY <1>1, <1>2
        <5> HIDE DEF ModuleRecord
        <5> QED
          BY <5>1, <5>2
      <4>2. modules' = [modules EXCEPT ![i] = [modules[i] EXCEPT !.unload_event_index = event_count + 1]]
        BY <3>1
      <4> QED
        <5>1. modules \in Seq(ModuleRecord) /\ i \in 1 .. Len(modules)
          BY <1>2 DEF RecordKept
        <5> QED
          BY <4>1, <4>2, <5>1
    <3>3. /\ history' \in Seq(Ledger!LoaderMapping) /\ Len(history') = Len(history)
          /\ \A j \in 1 .. Len(history) : j # i => history'[j] = history[j]
          /\ history'[i] = [history[i] EXCEPT !.unload_event = event_count + 1]
      <4>1. [history[i] EXCEPT !.unload_event = event_count + 1] \in Ledger!LoaderMapping
        BY <1>1, <1>2 DEF Ledger!LoaderMapping
      <4>2. history' = [history EXCEPT ![i] = [history[i] EXCEPT !.unload_event = event_count + 1]]
        BY <3>1
      <4> QED
        BY <4>1, <4>2 DEF RecordKept
    <3>4. /\ modules'[i].event_index = modules[i].event_index
          /\ modules'[i].mapping_id = modules[i].mapping_id
          /\ modules'[i].base = modules[i].base /\ modules'[i].unload_event_index = event_count + 1
      <4>1. \A m \in ModuleRecord, e \in Nat :
              LET new == [m EXCEPT !.unload_event_index = e]
              IN /\ new.event_index = m.event_index /\ new.mapping_id = m.mapping_id
                 /\ new.base = m.base /\ new.unload_event_index = e
        BY DEF ModuleRecord
      <4> QED
        BY <1>1, <1>2, <3>2, <4>1
    <3>5. /\ history'[i].id = history[i].id /\ history'[i].base = history[i].base
          /\ history'[i].load_event = history[i].load_event
          /\ history'[i].unload_event = event_count + 1
      BY <1>2, <3>3 DEF Ledger!LoaderMapping
    <3>6. ASSUME NEW j \in 1 .. Len(modules') PROVE modules'[j].event_index <= event_count'
      <4>1. modules'[j].event_index = modules[j].event_index /\ j \in 1 .. Len(modules)
        BY <3>2, <3>4
      <4>2. modules[j].event_index <= event_count /\ modules[j].event_index \in Nat
        BY <1>2, <4>1 DEF RecordKept
      <4> QED
        BY <1>1, <2>1, <4>1, <4>2
    <3>7. ASSUME NEW j \in 1 .. Len(history')
          PROVE  /\ history'[j].id = j /\ modules'[j].mapping_id = j
                 /\ history'[j].base = modules'[j].base
                 /\ history'[j].load_event = modules'[j].event_index
                 /\ history'[j].unload_event = modules'[j].unload_event_index
      <4>1. j \in 1 .. Len(history) /\ j \in 1 .. Len(modules)
        BY <1>2, <3>3
      <4>2. CASE j = i
        BY <3>4, <3>5, <4>1, <4>2 DEF RecordKept
      <4>3. CASE j # i
        BY <3>2, <3>3, <4>1, <4>3 DEF RecordKept
      <4> QED
        BY <4>2, <4>3
    <3>8. ASSUME NEW j \in 1 .. Len(modules'), j > Len(history') PROVE modules'[j].mapping_id = 0
      <4>1. j \in 1 .. Len(modules) /\ j > Len(history)
        BY <3>2, <3>3, <3>8
      <4>2. modules'[j].mapping_id = modules[j].mapping_id
        BY <3>2, <3>4, <4>1
      <4> QED
        BY <4>1, <4>2 DEF RecordKept
    <3> QED
      BY <1>1, <2>1, <3>1, <3>2, <3>3, <3>6, <3>7, <3>8 DEF RecordKept
  <2> QED
    BY <1>7, <2>2, <2>3, UnloadWays
<1> QED
  BY <1>4, <1>6, <1>7, RecordMoves

------------------------------------------------------------------------------
(* The live mappings of a file                                              *)

\* The least member of a set of places.
LEMMA FirstIn ==
  ASSUME NEW S, S \subseteq Nat, S # {}
  PROVE  First(S) \in S
<1> DEFINE R == {p \in Nat \X Nat : p[1] < p[2]}
<1>1. IsWellFoundedOn(R, Nat)
  BY NatLessThanWellFounded DEF OpToRel
<1>2. PICK i \in S : \A j \in S : ~ (<<j, i>> \in R)
  <2> HIDE DEF R
  <2> QED
    BY <1>1, WFMin
<1>3. ASSUME NEW j \in S PROVE i <= j
  <2>1. i \in Nat /\ j \in Nat
    OBVIOUS
  <2>2. j < i => <<j, i>> \in R
    BY <2>1
  <2>3. ~ (j < i)
    BY <1>2, <2>2
  <2> QED
    BY <2>1, <2>3
<1> QED
  BY <1>3 DEF First

\* The live mappings of a file, by their places in the ledger.
Recorded(file) ==
  {i \in 1 .. Len(history) : modules[i].file = file /\ modules[i].base # NullBase /\ Ledger!Live(i)}

\* The loop's own list of them is that set.
MappedRecorded == \A file : Mapped(file) = Recorded(file)

\* And so it is after a step.
LEMMA MappedNext == RecordKept' => MappedRecorded'
<1>1. RecordKept => MappedRecorded
  BY MappedIs DEF MappedRecorded, Recorded
<1> QED
  BY <1>1, PTL

\* The first live mapping of a file is a mapping of the ledger.
LEMMA FirstMapped ==
  ASSUME RecordKept, NEW file, Mapped(file) # {}
  PROVE  LET i == First(Mapped(file))
         IN /\ i \in 1 .. Len(history) /\ i \in Mapped(file) /\ modules[i].mapping_id = i
            /\ modules[i].file = file /\ modules[i].base # NullBase /\ Ledger!Live(i)
            /\ modules[i].event_index \in Nat
<1>1. Mapped(file) = Recorded(file)
  BY MappedIs DEF Recorded
<1>2. Len(history) \in Nat /\ Len(modules) \in Nat /\ Len(history) <= Len(modules)
  BY DEF RecordKept
<1>3. First(Mapped(file)) \in Recorded(file)
  BY <1>1, <1>2, FirstIn DEF Recorded
<1> DEFINE i == First(Mapped(file))
<1> HIDE DEF i
<1>4. i \in 1 .. Len(history) /\ i \in 1 .. Len(modules) /\ i \in Mapped(file)
      /\ modules[i].file = file /\ modules[i].base # NullBase /\ Ledger!Live(i)
  BY <1>1, <1>2, <1>3 DEF Recorded, i
<1>5. modules[i].mapping_id = i
  BY <1>4 DEF RecordKept
<1>6. modules[i].event_index \in Nat
  <2>1. \A m \in ModuleRecord : m.event_index \in Nat
    BY DEF ModuleRecord
  <2> QED
    BY <1>4, <2>1 DEF RecordKept
<1> QED
  BY <1>4, <1>5, <1>6 DEF i

\* What a load or an unload that does not end the run does to the live mappings.
LEMMA MappingsMove ==
  ASSUME RecordKept, Counted, [Next]_vars, Running', NEW file
  PROVE  /\ \A i \in 1 .. Len(modules) :
              /\ i \in 1 .. Len(modules') /\ modules'[i].event_index = modules[i].event_index
              /\ modules'[i].file = modules[i].file
              /\ modules'[i].mapping_id = modules[i].mapping_id
         /\ \/ \E p \in Placements :
                 /\ LoadDll(p[1], p[2])
                 /\ \A i \in 1 .. Len(modules') : i \in 1 .. Len(modules) \/ modules'[i].event_index = event_count + 1
                 /\ \A i \in Mapped(file)' : i \in Mapped(file) \/ modules'[i].event_index = event_count + 1
                 /\ \A i \in 1 .. Len(history) : i \in 1 .. Len(history') /\ history'[i] = history[i]
                 /\ ~ ("binding" \in continued /\ "asi_return" \notin continued)
            \/ \E base \in Unloadable, i \in 1 .. Len(history) :
                 /\ UnloadDll(base)
                 /\ UnloadRefusal(i) = "none"
                 /\ Len(history') = Len(history) /\ Len(modules') = Len(modules)
                 /\ \A j \in 1 .. Len(history) : j # i => history'[j] = history[j]
                 /\ Mapped(file)' \subseteq Mapped(file)
            \/ UNCHANGED <<modules, limit, history, last_event>>
<1>1. RecordKept'
  BY RecordStep
<1>2. Mapped(file) = Recorded(file) /\ Mapped(file)' = Recorded(file)'
  BY <1>1, MappedIs, MappedNext DEF MappedRecorded, Recorded
<1>3. Len(history) = Len(modules) /\ Len(history) \in Nat /\ Running
  BY RecordMoves DEF RecordKept
<1>4. CASE UNCHANGED <<modules, limit, history, last_event>>
  BY <1>4
<1>5. ASSUME NEW p \in Placements, LoadDll(p[1], p[2]),
             ~ UNCHANGED <<modules, limit, history, last_event>>
      PROVE  /\ Len(modules') = Len(modules) + 1 /\ Len(history') = Len(history) + 1
             /\ \A i \in 1 .. Len(modules) : modules'[i] = modules[i]
             /\ \A i \in 1 .. Len(history) : history'[i] = history[i]
             /\ modules'[Len(modules) + 1].event_index = event_count + 1
             /\ ~ ("binding" \in continued /\ "asi_return" \notin continued)
  <2>1. reason' \notin OtherReasons
    BY DEF Running, OtherReasons
  <2>2. /\ modules' = Append(modules, NewModule(p[1], p[2], Len(modules) + 1))
        /\ history' = Append(history, NewMapping(p[2]))
        /\ ~ ("binding" \in continued /\ "asi_return" \notin continued)
    BY <1>5, <2>1, LoadWays
  <2>3. modules \in Seq(ModuleRecord) /\ history \in Seq(Ledger!LoaderMapping)
    BY DEF RecordKept
  <2>4. /\ Len(modules') = Len(modules) + 1 /\ Len(history') = Len(history) + 1
        /\ \A i \in 1 .. Len(modules) : modules'[i] = modules[i]
        /\ \A i \in 1 .. Len(history) : history'[i] = history[i]
        /\ modules'[Len(modules) + 1] = NewModule(p[1], p[2], Len(modules) + 1)
    BY <2>2, <2>3
  <2> QED
    BY <2>2, <2>4 DEF NewModule
<1>6. ASSUME NEW p \in Placements, LoadDll(p[1], p[2]),
             ~ UNCHANGED <<modules, limit, history, last_event>>
      PROVE  /\ \A i \in 1 .. Len(modules) : i \in 1 .. Len(modules') /\ modules'[i] = modules[i]
             /\ \A i \in 1 .. Len(modules') : i \in 1 .. Len(modules) \/ modules'[i].event_index = event_count + 1
             /\ \A i \in Mapped(file)' : i \in Mapped(file) \/ modules'[i].event_index = event_count + 1
             /\ \A i \in 1 .. Len(history) : i \in 1 .. Len(history') /\ history'[i] = history[i]
             /\ ~ ("binding" \in continued /\ "asi_return" \notin continued)
  <2>1. /\ Len(modules') = Len(modules) + 1 /\ Len(history') = Len(history) + 1
        /\ \A i \in 1 .. Len(modules) : modules'[i] = modules[i]
        /\ \A i \in 1 .. Len(history) : history'[i] = history[i]
        /\ modules'[Len(modules) + 1].event_index = event_count + 1
        /\ ~ ("binding" \in continued /\ "asi_return" \notin continued)
    BY <1>5, <1>6
  <2>2. \A i \in 1 .. Len(modules') : i \in 1 .. Len(modules) \/ i = Len(modules) + 1
    BY <1>3, <2>1
  <2>3. ASSUME NEW i \in Mapped(file)', i # Len(modules) + 1 PROVE i \in Mapped(file)
    <3>1. /\ i \in 1 .. Len(history') /\ modules'[i].file = file /\ modules'[i].base # NullBase
          /\ Ledger!Live(i)'
      BY <1>2, <2>3 DEF Recorded
    <3>2. i \in 1 .. Len(history) /\ i \in 1 .. Len(modules)
      BY <1>3, <2>1, <2>3, <3>1
    <3>3. Ledger!Live(i)
      BY <2>1, <3>1, <3>2 DEF Ledger!Live
    <3> QED
      BY <1>2, <2>1, <3>1, <3>2, <3>3 DEF Recorded
  <2> QED
    BY <1>3, <2>1, <2>2, <2>3
<1>7. ASSUME NEW base \in Unloadable, UnloadDll(base), NEW i \in 1 .. Len(history), Unloads(i)
      PROVE  /\ Len(history') = Len(history) /\ Len(modules') = Len(modules)
             /\ \A j \in 1 .. Len(history) : j # i => history'[j] = history[j]
             /\ \A j \in 1 .. Len(modules) :
                  /\ modules'[j].event_index = modules[j].event_index
                  /\ modules'[j].file = modules[j].file /\ modules'[j].base = modules[j].base
                  /\ modules'[j].mapping_id = modules[j].mapping_id
             /\ UnloadRefusal(i) = "none"
             /\ Mapped(file)' \subseteq Mapped(file)
  <2>1. reason' \notin OtherReasons
    BY DEF Running, OtherReasons
  <2>2. /\ Ledger!Live(i) /\ UnloadRefusal(i) = "none"
        /\ history' = [history EXCEPT ![i].unload_event = event_count + 1]
        /\ modules' = [modules EXCEPT ![i].unload_event_index = event_count + 1]
    BY <1>7, <2>1 DEF Unloads
  <2>3. modules \in Seq(ModuleRecord) /\ history \in Seq(Ledger!LoaderMapping)
        /\ DOMAIN modules = 1 .. Len(modules) /\ DOMAIN history = 1 .. Len(history)
        /\ Len(modules) \in Nat
    BY DEF RecordKept
  <2>4. /\ Len(history') = Len(history) /\ Len(modules') = Len(modules)
        /\ \A j \in 1 .. Len(history) : j # i => history'[j] = history[j]
        /\ \A j \in 1 .. Len(modules) : j # i => modules'[j] = modules[j]
        /\ modules'[i] = [modules[i] EXCEPT !.unload_event_index = event_count + 1]
    BY <1>3, <2>2, <2>3
  <2>5. modules[i] \in ModuleRecord /\ i \in 1 .. Len(modules)
    BY <1>3, <2>3
  <2>6. /\ modules'[i].event_index = modules[i].event_index
        /\ modules'[i].file = modules[i].file /\ modules'[i].base = modules[i].base
        /\ modules'[i].mapping_id = modules[i].mapping_id
    <3>1. \A m \in ModuleRecord : \A e :
            LET new == [m EXCEPT !.unload_event_index = e]
            IN /\ new.event_index = m.event_index /\ new.mapping_id = m.mapping_id
               /\ new.base = m.base /\ new.file = m.file
      BY DEF ModuleRecord
    <3> QED
      BY <2>4, <2>5, <3>1
  <2>7. \A j \in 1 .. Len(modules) :
          /\ modules'[j].event_index = modules[j].event_index
          /\ modules'[j].file = modules[j].file /\ modules'[j].base = modules[j].base
          /\ modules'[j].mapping_id = modules[j].mapping_id
    BY <2>4, <2>6
  <2>8. ASSUME NEW j \in Mapped(file)' PROVE j \in Mapped(file)
    <3>1. /\ j \in 1 .. Len(history) /\ j \in 1 .. Len(modules)
          /\ modules'[j].file = file /\ modules'[j].base # NullBase
      BY <1>2, <1>3, <2>4, <2>8 DEF Recorded
    <3>2. Ledger!Live(j)
      <4>1. CASE j = i
        BY <2>2, <4>1
      <4>2. CASE j # i
        <5>1. Ledger!Live(j)'
          BY <1>2, <2>8 DEF Recorded
        <5> QED
          BY <2>4, <3>1, <4>2, <5>1 DEF Ledger!Live
      <4> QED
        BY <4>1, <4>2
    <3> QED
      BY <1>2, <2>7, <3>1, <3>2 DEF Recorded
  <2> QED
    BY <2>2, <2>4, <2>7, <2>8
<1>8. CASE \E p \in Placements : LoadDll(p[1], p[2])
  BY <1>4, <1>6, <1>8
<1>9. CASE \E base \in Unloadable : UnloadDll(base)
  <2>1. PICK base \in Unloadable : UnloadDll(base)
    BY <1>9
  <2>2. UNCHANGED <<modules, limit, history, last_event>> \/ \E i \in 1 .. Len(history) : Unloads(i)
    BY <2>1, UnloadWays
  <2>3. CASE \E i \in 1 .. Len(history) : Unloads(i)
    <3>1. PICK i \in 1 .. Len(history) : Unloads(i)
      BY <2>3
    <3> QED
      BY <1>7, <2>1, <3>1
  <2> QED
    BY <1>4, <2>2, <2>3
<1> QED
  BY <1>4, <1>8, <1>9, RecordMoves

------------------------------------------------------------------------------
(* Why the ledger's verdict on a stop is plain                              *)

\* A verdict on a mapping is never that it is stale, when the live mappings of
\* the file are newer than the stop.
LEMMA VerdictFresh ==
  ASSUME RecordKept, NEW file, NEW armed_at \in Int, NEW handles,
         NEW missing, NEW stale, NEW elsewhere, NEW ambiguous,
         \A i \in Mapped(file) : modules[i].event_index > armed_at
  PROVE  LET v == MappingVerdict(file, armed_at, handles, missing, stale, elsewhere, ambiguous)
         IN v = missing \/ (Mapped(file) # {} /\ v \in {elsewhere, ambiguous, "none"})
<1>1. CASE Mapped(file) = {}
  BY <1>1 DEF MappingVerdict
<1>2. CASE Mapped(file) # {}
  <2> DEFINE i == First(Mapped(file))
  <2>1. i \in Mapped(file) /\ modules[i].event_index \in Nat
    BY <1>2, FirstMapped
  <2>2. modules[i].event_index > armed_at
    BY <2>1
  <2>3. ~ (modules[i].event_index <= armed_at)
    BY <2>1, <2>2
  <2> QED
    BY <1>2, <2>3 DEF MappingVerdict
<1> QED
  BY <1>1, <1>2

\* The codecs are named by numbers.
LEMMA CodecsPlaced == DOMAIN CodecModules \subseteq Nat
<1>1. CodecModules \in Seq(Pins)
  BY LoaderAssumption
<1> QED
  BY <1>1

\* A stop is rejected for a reason of the loop's own, and one that is not
\* rejected finds the files it asked for.
LEMMA RejectionPlain ==
  ASSUME RecordKept, LoadsFresh, Running, NEW s \in Armed, NEW handle
  PROVE  /\ Rejection(s, handle) \in OtherReasons \cup {"none"}
         /\ Rejection(s, handle) = "none" =>
              /\ s = "entry" /\ "proxy" \in Permitted(goal) => Mapped(Proxy) # {}
              /\ s = "codec" => \A n \in DOMAIN CodecModules : Mapped(CodecModules[n]) # {}
              /\ s = "asi_return" => Mapped(Asi) # {}
              /\ s = "startup" /\ "codec" \in Permitted(goal) =>
                   \A n \in DOMAIN CodecModules : Mapped(CodecModules[n]) = {}
              /\ s = "asi_call" => Mapped(Asi) = {}
<1>1. ASSUME NEW file, NEW i \in Mapped(file) PROVE modules[i].event_index \in Nat
  <2>1. Mapped(file) = Recorded(file)
    BY MappedIs DEF Recorded
  <2>2. i \in 1 .. Len(modules)
    BY <1>1, <2>1 DEF Recorded, RecordKept
  <2>3. \A m \in ModuleRecord : m.event_index \in Nat
    BY DEF ModuleRecord
  <2> QED
    BY <2>2, <2>3 DEF RecordKept
<1>2. \/ ProxyVerdict = "proxy_mapping_missing"
      \/ Mapped(Proxy) # {} /\ ProxyVerdict \in {"none", "proxy_mapping_ambiguous"}
  <2>1. \A i \in Mapped(Proxy) : modules[i].event_index > -1
    BY <1>1
  <2>2. -1 \in Int
    OBVIOUS
  <2>3. LET v == MappingVerdict(Proxy, -1, Bases, "proxy_mapping_missing", "none", "none",
                                "proxy_mapping_ambiguous")
        IN \/ v = "proxy_mapping_missing"
           \/ Mapped(Proxy) # {} /\ v \in {"none", "proxy_mapping_ambiguous", "none"}
    BY <2>1, <2>2, VerdictFresh
  <2> QED
    BY <2>3 DEF ProxyVerdict
<1>3. s = "codec" => \A n \in DOMAIN CodecModules :
        \/ CodecVerdicts(handle)[n] = "codec_mapping_missing"
        \/ /\ Mapped(CodecModules[n]) # {}
           /\ CodecVerdicts(handle)[n] \in {"none", "codec_handle_mismatch", "codec_mapping_ambiguous"}
  <2> SUFFICES ASSUME s = "codec", NEW n \in DOMAIN CodecModules
               PROVE  \/ CodecVerdicts(handle)[n] = "codec_mapping_missing"
                      \/ /\ Mapped(CodecModules[n]) # {}
                         /\ CodecVerdicts(handle)[n] \in {"none", "codec_handle_mismatch", "codec_mapping_ambiguous"}
    OBVIOUS
  <2> DEFINE file == CodecModules[n]
             handles == IF n = 1 THEN {handle} ELSE Bases
  <2>1. \A i \in Mapped(file) : modules[i].event_index > arm_event.codec
    BY DEF LoadsFresh
  <2>2. arm_event.codec \in Int
    BY DEF LoadsFresh
  <2>3. CodecVerdicts(handle)[n] =
          MappingVerdict(file, arm_event.codec, handles, "codec_mapping_missing",
                         "codec_mapping_not_fresh", "codec_handle_mismatch", "codec_mapping_ambiguous")
    BY DEF CodecVerdicts
  <2> HIDE DEF file, handles
  <2>4. LET v == MappingVerdict(file, arm_event.codec, handles, "codec_mapping_missing",
                         "codec_mapping_not_fresh", "codec_handle_mismatch", "codec_mapping_ambiguous")
        IN \/ v = "codec_mapping_missing"
           \/ Mapped(file) # {} /\ v \in {"codec_handle_mismatch", "codec_mapping_ambiguous", "none"}
    BY <2>1, <2>2, VerdictFresh
  <2> QED
    BY <2>3, <2>4 DEF file
<1>4. s = "asi_return" =>
        \/ AsiVerdict(handle) = "asi_mapping_missing"
        \/ Mapped(Asi) # {} /\ AsiVerdict(handle) \in {"none", "asi_handle_mismatch", "asi_mapping_ambiguous"}
  <2> SUFFICES ASSUME s = "asi_return"
               PROVE  \/ AsiVerdict(handle) = "asi_mapping_missing"
                      \/ /\ Mapped(Asi) # {}
                         /\ AsiVerdict(handle) \in {"none", "asi_handle_mismatch", "asi_mapping_ambiguous"}
    OBVIOUS
  <2>1. \A i \in Mapped(Asi) : modules[i].event_index > arm_event.asi
    BY DEF LoadsFresh
  <2>2. arm_event.asi \in Int
    BY DEF LoadsFresh
  <2>3. LET v == MappingVerdict(Asi, arm_event.asi, {handle}, "asi_mapping_missing",
                   "asi_mapping_not_fresh", "asi_handle_mismatch", "asi_mapping_ambiguous")
        IN \/ v = "asi_mapping_missing"
           \/ Mapped(Asi) # {} /\ v \in {"asi_handle_mismatch", "asi_mapping_ambiguous", "none"}
    BY <2>1, <2>2, VerdictFresh
  <2> QED
    BY <2>3 DEF AsiVerdict
<1>5. s = "codec" =>
        \/ /\ FirstRefusal(CodecVerdicts(handle)) = "none"
           /\ \A n \in DOMAIN CodecModules : Mapped(CodecModules[n]) # {}
        \/ FirstRefusal(CodecVerdicts(handle)) \in
             {"codec_mapping_missing", "codec_handle_mismatch", "codec_mapping_ambiguous"}
  <2> DEFINE verdicts == CodecVerdicts(handle)
             bad == {n \in DOMAIN verdicts : verdicts[n] # "none"}
  <2>1. DOMAIN verdicts = DOMAIN CodecModules
    BY DEF CodecVerdicts
  <2>2. FirstRefusal(verdicts) = IF bad = {} THEN "none" ELSE verdicts[First(bad)]
    BY DEF FirstRefusal
  <2>3. bad # {} => First(bad) \in bad
    BY <2>1, CodecsPlaced, FirstIn
  <2> HIDE DEF verdicts
  <2> QED
    BY <1>3, <2>1, <2>2, <2>3 DEF verdicts
<1>6. CASE s = "entry" /\ "proxy" \in Permitted(goal)
  BY <1>2, <1>6 DEF Rejection, OtherReasons
<1>7. CASE s = "codec"
  BY <1>5, <1>7 DEF Rejection, OtherReasons
<1>8. CASE s = "asi_return"
  BY <1>4, <1>8 DEF Rejection, OtherReasons
<1>9. CASE ~ (s = "entry" /\ "proxy" \in Permitted(goal)) /\ s # "codec" /\ s # "asi_return"
  BY <1>9 DEF Rejection, OtherReasons, CodecPreloaded
<1> QED
  BY <1>6, <1>7, <1>8, <1>9

------------------------------------------------------------------------------
(* How a handler ends                                                       *)

\* A reason that blames neither the registers nor the ledger's defences.
Blameless(r) == r \notin IdentityReasons \cup DefensiveReasons \cup {"running"}

\* The loop's own reasons blame neither.
LEMMA OthersBlameless ==
  \A r \in OtherReasons : Blameless(r) /\ r \notin ArmReasons /\ r \notin Verdicts
<1>1. \A r \in OtherReasons : r \notin Reserved \cup ArmReasons
  BY OtherReasonsPlain
<1> QED
  BY <1>1 DEF Blameless, Reserved

\* Finishing reports the reason, or a reason of the loop's own.
LEMMA FinishIs ==
  ASSUME NEW r, Finish(r)
  PROVE  reason' = r \/ reason' \in OtherReasons
  BY DEF Finish, OtherReasons

\* Nor does a fault that is not one of the reserved reasons.
LEMMA PlainFault ==
  ASSUME NEW rs, Fault(rs), rs \cap Reserved = {}
  PROVE  MayRefuse /\ Blameless(reason') /\ reason' \notin Verdicts
<1>1. PICK r \in rs : Finish(r)
  BY DEF Fault
<1>2. Blameless(r) /\ r \notin Verdicts
  BY DEF Reserved, Blameless
<1> QED
  BY <1>1, <1>2, FinishIs, OthersBlameless DEF Fault

\* A handler that takes its stop arms the next one, or ends the run for a
\* reason that blames neither the registers nor the record.
GoesOn(n, handle, s, k) ==
  /\ Rejection(Line(goal)[n], handle) = "none" /\ found' = Findings(Line(goal)[n])
  /\ ComesNext(n, s, k) /\ s \in Permitted(goal) /\ k \in 1 .. Stops(s) /\ Armable(s, k)

\* A handler arms the next stop, or ends the run for a reason that blames
\* neither the registers nor the record.
LEMMA HandlerEnds ==
  ASSUME OnTheLine, RecordKept, LoadsFresh, Running,
         NEW n \in 1 .. Len(Line(goal)), Armed = Upto(Line(goal), n), NEW handle,
         Handle(Line(goal)[n], handle)
  PROVE  /\ found' \in {found, Findings(Line(goal)[n])}
         /\ \/ \E s \in Stages, k \in 1 .. 10 : GoesOn(n, handle, s, k)
            \/ /\ UNCHANGED <<stop, dr, arm_event>>
               /\ Blameless(reason')
               /\ reason' \in ArmReasons =>
                    \/ MayRefuse
                    \/ \E s \in Permitted(goal), k \in 1 .. 10 :
                         ComesNext(n, s, k) /\ ~ Verified(s, k, Rewritten(s, k))
               /\ reason' \in Verdicts =>
                    n = Len(Line(goal)) /\ stop[Line(goal)[n]] = Stops(Line(goal)[n])
<1> DEFINE L == Line(goal)[n]
<1>1. goal \in Goals /\ Shaped(Line(goal)) /\ L \in Armed
  BY GoalLine, AtPlace DEF OnTheLine
<1>2. \A r \in Verdicts \cup ArmReasons : Blameless(r)
  BY VerdictsApart, ArmFailuresPlain DEF Blameless, Reserved
<1>3. Verdicts \cap ArmReasons = {}
  BY VerdictsApart
<1>4. CASE MayRefuse /\ (\E r : r \notin Reserved /\ Finish(r))
           /\ UNCHANGED <<stop, dr, arm_event>> /\ found' \in {found, Findings(L)}
  <2>1. PICK r : r \notin Reserved /\ Finish(r)
    BY <1>4
  <2>2. Blameless(r) /\ r \notin Verdicts
    BY <2>1 DEF Blameless, Reserved
  <2>3. Blameless(reason') /\ reason' \notin Verdicts
    BY <2>1, <2>2, FinishIs, OthersBlameless
  <2> QED
    BY <1>4, <2>3
<1>5. CASE /\ Rejection(L, handle) # "none" /\ Finish(Rejection(L, handle))
           /\ UNCHANGED <<stop, dr, arm_event, found>>
  <2>1. Rejection(L, handle) \in OtherReasons
    BY <1>1, <1>5, RejectionPlain
  <2>2. reason' \in OtherReasons
    BY <1>5, <2>1, FinishesOther
  <2> QED
    BY <1>5, <2>2, OthersBlameless
<1>6. ASSUME Rejection(L, handle) = "none", found' = Findings(L),
             NEW r \in Verdicts \cup ArmReasons, Finish(r), UNCHANGED <<stop, dr, arm_event>>
      PROVE  /\ Blameless(reason') /\ (reason' \in ArmReasons => r \in ArmReasons)
             /\ reason' \in Verdicts => r \in Verdicts
  BY <1>2, <1>6, FinishIs, OthersBlameless
<1>7. CASE /\ Rejection(L, handle) = "none" /\ found' = Findings(L)
           /\ n = Len(Line(goal)) /\ stop[L] = Stops(L)
           /\ \E r \in Success(goal) : Finish(r)
           /\ UNCHANGED <<stop, dr, arm_event>>
  <2>1. PICK r \in Verdicts : Finish(r)
    BY <1>1, <1>7, SuccessIsVerdict
  <2>2. Blameless(reason') /\ reason' \notin ArmReasons
    BY <1>3, <1>6, <1>7, <2>1
  <2> QED
    BY <1>7, <2>2
<1>8. ASSUME Rejection(L, handle) = "none", found' = Findings(L),
             NEW s \in Stages, NEW k \in 1 .. 10,
             ComesNext(n, s, k), s \in Permitted(goal), k \in 1 .. Stops(s),
             \/ /\ ~ Verified(s, k, Rewritten(s, k))
                /\ \E r \in ArmFailures(s) : Finish(r)
                /\ UNCHANGED <<stop, dr, arm_event>>
             \/ /\ MayRefuse
                /\ \E r \in ArmFailures(s) : Finish(r)
                /\ UNCHANGED <<stop, dr, arm_event>>
             \/ Armable(s, k)
      PROVE  \/ GoesOn(n, handle, s, k)
             \/ /\ UNCHANGED <<stop, dr, arm_event>>
                /\ Blameless(reason') /\ reason' \notin Verdicts
                /\ MayRefuse \/ ~ Verified(s, k, Rewritten(s, k))
  <2>1. CASE Armable(s, k)
    BY <1>8, <2>1 DEF GoesOn
  <2>2. CASE /\ \E r \in ArmFailures(s) : Finish(r)
             /\ UNCHANGED <<stop, dr, arm_event>>
             /\ MayRefuse \/ ~ Verified(s, k, Rewritten(s, k))
    <3>1. PICK r \in ArmReasons : Finish(r)
      BY <2>2, ArmFailuresPlain
    <3>2. Blameless(reason') /\ reason' \notin Verdicts
      BY <1>3, <1>6, <1>8, <2>2, <3>1
    <3> QED
      BY <2>2, <3>2
  <2> QED
    BY <1>8, <2>1, <2>2
<1> HIDE DEF L
<1>9. CASE /\ Rejection(L, handle) = "none" /\ found' = Findings(L)
           /\ \E s \in Stages, k \in 1 .. 10 :
                /\ ComesNext(n, s, k) /\ s \in Permitted(goal) /\ k \in 1 .. Stops(s)
                /\ \/ /\ ~ Verified(s, k, Rewritten(s, k))
                      /\ \E r \in ArmFailures(s) : Finish(r)
                      /\ UNCHANGED <<stop, dr, arm_event>>
                   \/ /\ MayRefuse
                      /\ \E r \in ArmFailures(s) : Finish(r)
                      /\ UNCHANGED <<stop, dr, arm_event>>
                   \/ Armable(s, k)
  <2>1. PICK s \in Stages, k \in 1 .. 10 :
                /\ ComesNext(n, s, k) /\ s \in Permitted(goal) /\ k \in 1 .. Stops(s)
                /\ \/ /\ ~ Verified(s, k, Rewritten(s, k))
                      /\ \E r \in ArmFailures(s) : Finish(r)
                      /\ UNCHANGED <<stop, dr, arm_event>>
                   \/ /\ MayRefuse
                      /\ \E r \in ArmFailures(s) : Finish(r)
                      /\ UNCHANGED <<stop, dr, arm_event>>
                   \/ Armable(s, k)
    BY <1>9
  <2>2. \/ GoesOn(n, handle, s, k)
        \/ /\ UNCHANGED <<stop, dr, arm_event>>
           /\ Blameless(reason') /\ reason' \notin Verdicts
           /\ MayRefuse \/ ~ Verified(s, k, Rewritten(s, k))
    BY <1>8, <1>9, <2>1
  <2> QED
    BY <1>9, <2>1, <2>2 DEF L
<1> QED
  BY <1>4, <1>5, <1>7, <1>9, HandlerWays DEF L

\* Only the first stop and the handlers touch the stops and what they found.
LEMMA Moves ==
  ASSUME OnTheLine, [Next]_vars
  PROVE  /\ UNCHANGED goal
         /\ \/ UNCHANGED <<stop, found, arm_event>>
            \/ /\ Armed = {} /\ Armed' = {"entry"}
               /\ UNCHANGED <<found, arm_event, modules, limit, history, last_event>>
               /\ event_count' = event_count
            \/ \E n \in 1 .. Len(Line(goal)) : \E handle :
                 /\ Running /\ started /\ ~ pending /\ Released
                 /\ Armed = Upto(Line(goal), n) /\ Handle(Line(goal)[n], handle)
                 /\ UNCHANGED <<modules, limit, history, last_event, disturbed>>
                 /\ event_count' = event_count + 1
<1>1. CASE UNCHANGED vars
  BY <1>1 DEF vars, evidence
<1>2. CASE WrongThread \/ WaitEnds \/ Continue \/ Tamper
  BY <1>2 DEF WrongThread, WaitEnds, Continue, Tamper, evidence
<1>3. CASE Begin
  <2>1. /\ UNCHANGED <<goal, found, arm_event, modules, limit, history, last_event>>
        /\ event_count' = event_count /\ Armed = {}
    BY <1>3 DEF Begin, evidence, ledger, clocks, OnTheLine
  <2>2. UNCHANGED stop \/ stop' = [s \in {"entry"} |-> 1]
    BY <1>3 DEF Begin
  <2> QED
    BY <2>1, <2>2 DEF Armed
<1>4. CASE ForeignEvent \/ CreateThread \/ OtherEvent
  BY <1>4 DEF ForeignEvent, CreateThread, OtherEvent, Unmoved, evidence
<1>5. ASSUME NEW trap, Exception(trap)
      PROVE  /\ UNCHANGED goal
             /\ \/ UNCHANGED <<stop, found, arm_event>>
                \/ \E n \in 1 .. Len(Line(goal)) : \E handle :
                     /\ Running /\ started /\ ~ pending /\ Released
                     /\ Armed = Upto(Line(goal), n) /\ Handle(Line(goal)[n], handle)
                     /\ UNCHANGED <<modules, limit, history, last_event, disturbed>>
                     /\ event_count' = event_count + 1
  <2>1. /\ UNCHANGED <<goal, modules, limit, history, last_event, disturbed>>
        /\ Running /\ started /\ ~ pending /\ event_count' = event_count + 1
    BY <1>5 DEF Exception, Receive, ledger
  <2>2. CASE InitialBreakpoint(trap)
    BY <2>1, <2>2 DEF InitialBreakpoint, evidence
  <2>3. CASE Released /\ UNCHANGED <<stop, evidence, dr>>
    BY <2>1, <2>3 DEF evidence
  <2>4. ASSUME Released, NEW handle, Handle(HandlerStage, handle)
        PROVE  \E n \in 1 .. Len(Line(goal)) :
                 Armed = Upto(Line(goal), n) /\ Handle(Line(goal)[n], handle)
    BY <2>1, <2>4, AtHandler
  <2> QED
    BY <1>5, <2>1, <2>2, <2>3, <2>4 DEF Exception
<1>6. CASE \E p \in Placements : LoadDll(p[1], p[2])
  BY <1>6 DEF LoadDll, Unmoved, evidence
<1>7. CASE \E base \in Unloadable : UnloadDll(base)
  BY <1>7 DEF UnloadDll, Unmoved, evidence
<1> QED
  BY <1>1, <1>2, <1>3, <1>4, <1>5, <1>6, <1>7 DEF Next, Observer, Debuggee

------------------------------------------------------------------------------
(* What the handlers keep is mapped: single steps                           *)

\* The stages a stop may be armed from.
LEMMA ArmedFrom ==
  ASSUME OnTheLine, NEW n \in 1 .. Len(Line(goal)), Armed = Upto(Line(goal), n),
         NEW s \in Stages, NEW k \in 1 .. 10, ComesNext(n, s, k)
  PROVE  LET L == Line(goal)[n]
         IN /\ L \in Armed /\ L \in Stages /\ Stops(L) \in 1 .. 10
            /\ s \in {"codec", "binding", "asi_return"} => s \notin Armed
            /\ s = "codec" => L = "startup"
            /\ s = "binding" => L = "codec"
            /\ s = "asi_return" => L = "asi_call"
<1> DEFINE L == Line(goal)[n]
<1>1. goal \in Goals /\ Shaped(Line(goal)) /\ L \in Stages /\ L \in Armed /\ stop[L] \in 1 .. Stops(L)
  BY GoalLine, AtPlace DEF OnTheLine
<1>2. Stops(L) \in 1 .. 10
  BY <1>1, StopsTyped
<1>3. CASE s = L /\ stop[L] # Stops(L)
  <2>1. L \in {"codec", "binding", "asi_return"} => Stops(L) = 1
    BY DEF Stops
  <2>2. s \notin {"codec", "binding", "asi_return"}
    BY <1>1, <1>2, <1>3, <2>1
  <2> QED
    BY <1>1, <1>2, <2>2
<1>4. CASE n < Len(Line(goal)) /\ s = Line(goal)[n + 1]
  <2>1. s \notin Armed /\ Follows(L, s)
    BY <1>1, <1>4, NextPlace
  <2> DEFINE rl == Rank[L]  rs == Rank[s]
  <2>2. rl \in 1 .. 29 /\ rs \in 1 .. 29
    BY <1>1, SetsOfStages
  <2>3. s \in {"codec", "binding", "asi_return"} => rs = rl + 1
    BY <2>1 DEF Follows
  <2>4. /\ s = "codec" => rs = 4
        /\ s = "binding" => rs = 5
        /\ s = "asi_return" => rs = 7
        /\ rl = 3 => L = "startup"
        /\ rl = 4 => L = "codec"
        /\ rl = 6 => L = "asi_call"
    BY <1>1, NamedRanks
  <2> HIDE DEF rl, rs, L
  <2>5. /\ s = "codec" => rl = 3
        /\ s = "binding" => rl = 4
        /\ s = "asi_return" => rl = 6
    BY <2>2, <2>3, <2>4
  <2> QED
    BY <1>1, <1>2, <2>1, <2>4, <2>5 DEF L
<1> QED
  BY <1>3, <1>4 DEF ComesNext

\* The armed stages are permitted ones, in their order.
LEMMA ArmedOrder ==
  ASSUME OnTheLine
  PROVE  /\ Armed \subseteq Permitted(goal)
         /\ "asi_return" \in Armed => "binding" \in Armed /\ "asi_call" \in Permitted(goal)
         /\ started /\ ~ pending /\ "binding" \in Armed => "binding" \in continued
<1>1. goal \in Goals /\ Shaped(Line(goal)) /\ Len(Line(goal)) \in Nat
  BY GoalLine DEF OnTheLine, Shaped
<1>2. PICK n \in 0 .. Len(Line(goal)) : Armed = Upto(Line(goal), n)
  BY DEF OnTheLine, Placed
<1>3. CASE n = 0
  <2>1. Armed = {}
    BY <1>2, <1>3 DEF Upto
  <2> QED
    BY <2>1
<1>4. CASE n \in 1 .. Len(Line(goal))
  <2>1. Armed \subseteq Permitted(goal)
    BY <1>1, <1>2, <1>4, GoalLine
  <2>2. "asi_return" \in Armed => "binding" \in Armed /\ "asi_call" \in Armed
    <3> DEFINE L == Line(goal)[n]
    <3>1. /\ "asi_return" \in Armed <=> L \in {"asi_return", "bootstrap"} \cup LateStages
          /\ "binding" \in Armed <=> L \notin {"entry", "proxy", "startup", "codec"}
          /\ "asi_call" \in Armed <=> Scanning(L)
      BY <1>1, <1>2, <1>4, NamedStages
    <3>2. /\ "entry" \notin LateStages /\ "proxy" \notin LateStages /\ "startup" \notin LateStages
          /\ "codec" \notin LateStages
      BY EarlyNames
    <3> HIDE DEF L
    <3> QED
      BY <3>1, <3>2 DEF Scanning
  <2>3. started /\ ~ pending /\ "binding" \in Armed => "binding" \in continued
    BY DEF OnTheLine
  <2> QED
    BY <2>1, <2>2, <2>3
<1> QED
  BY <1>1, <1>3, <1>4

\* The identifiers a handler keeps are those of live mappings.
LEMMA FindingsLive ==
  ASSUME RecordKept, FoundLive, LoadsFresh, Running, NEW s \in Armed, NEW handle,
         Rejection(s, handle) = "none"
  PROVE  /\ Findings(s).proxy # found.proxy =>
              Findings(s).proxy \in 1 .. Len(history) /\ Ledger!Live(Findings(s).proxy)
         /\ s # "codec" => Findings(s).codec = found.codec
         /\ s = "codec" =>
              \A m \in DOMAIN Findings(s).codec :
                Findings(s).codec[m] \in 1 .. Len(history) /\ Ledger!Live(Findings(s).codec[m])
         /\ Findings(s).asi # found.asi =>
              /\ s = "asi_return" /\ Findings(s).asi \in 1 .. Len(history)
              /\ Ledger!Live(Findings(s).asi) /\ modules[Findings(s).asi].file = Asi
<1>1. found = [proxy |-> found.proxy, codec |-> found.codec, asi |-> found.asi]
  BY DEF FoundLive
<1>2. CASE s = "entry" /\ "proxy" \in Permitted(goal)
  <2> DEFINE i == First(Mapped(Proxy))
  <2>1. Mapped(Proxy) # {}
    BY <1>2, RejectionPlain
  <2>2. i \in 1 .. Len(history) /\ Ledger!Live(i) /\ modules[i].mapping_id = i
    BY <2>1, FirstMapped
  <2>3. Findings(s) = [found EXCEPT !.proxy = modules[i].mapping_id]
    BY <1>2 DEF Findings
  <2> HIDE DEF i
  <2>4. Findings(s).proxy = i /\ Findings(s).codec = found.codec /\ Findings(s).asi = found.asi
    BY <1>1, <2>2, <2>3
  <2> QED
    BY <1>2, <2>2, <2>4
<1>3. CASE s = "codec"
  <2> DEFINE ids == [n \in DOMAIN CodecModules |-> modules[First(Mapped(CodecModules[n]))].mapping_id]
  <2>1. \A n \in DOMAIN CodecModules : Mapped(CodecModules[n]) # {}
    BY <1>3, RejectionPlain
  <2>2. \A n \in DOMAIN CodecModules : ids[n] \in 1 .. Len(history) /\ Ledger!Live(ids[n])
    BY <2>1, FirstMapped
  <2>3. Findings(s) = [found EXCEPT !.codec = ids]
    BY <1>3 DEF Findings
  <2>4. DOMAIN ids = DOMAIN CodecModules
    OBVIOUS
  <2> HIDE DEF ids
  <2>5. Findings(s).codec = ids /\ Findings(s).proxy = found.proxy /\ Findings(s).asi = found.asi
    BY <1>1, <2>3
  <2> QED
    BY <1>3, <2>2, <2>4, <2>5
<1>4. CASE s = "asi_return"
  <2> DEFINE i == First(Mapped(Asi))
  <2>1. Mapped(Asi) # {}
    BY <1>4, RejectionPlain
  <2>2. i \in 1 .. Len(history) /\ Ledger!Live(i) /\ modules[i].mapping_id = i /\ modules[i].file = Asi
    BY <2>1, FirstMapped
  <2>3. Findings(s) = [found EXCEPT !.asi = modules[i].mapping_id]
    BY <1>4 DEF Findings
  <2> HIDE DEF i
  <2>4. Findings(s).asi = i /\ Findings(s).codec = found.codec /\ Findings(s).proxy = found.proxy
    BY <1>1, <2>2, <2>3
  <2> QED
    BY <1>4, <2>2, <2>4
<1>5. CASE ~ (s = "entry" /\ "proxy" \in Permitted(goal)) /\ s # "codec" /\ s # "asi_return"
  <2>1. Findings(s) = found
    BY <1>5 DEF Findings
  <2> QED
    BY <1>5, <2>1
<1> QED
  BY <1>2, <1>3, <1>4, <1>5

\* What a handler found is a record of three parts.
LEMMA FindingsShaped ==
  ASSUME FoundLive, NEW s
  PROVE  /\ Findings(s) = [proxy |-> Findings(s).proxy, codec |-> Findings(s).codec, asi |-> Findings(s).asi]
         /\ DOMAIN Findings(s).codec \in {{}, DOMAIN CodecModules}
<1>1. found = [proxy |-> found.proxy, codec |-> found.codec, asi |-> found.asi]
      /\ DOMAIN found.codec \in {{}, DOMAIN CodecModules}
  BY DEF FoundLive
<1>2. \A e : [found EXCEPT !.proxy = e] = [proxy |-> e, codec |-> found.codec, asi |-> found.asi]
  BY <1>1
<1>3. \A e : [found EXCEPT !.codec = e] = [proxy |-> found.proxy, codec |-> e, asi |-> found.asi]
  BY <1>1
<1>4. \A e : [found EXCEPT !.asi = e] = [proxy |-> found.proxy, codec |-> found.codec, asi |-> e]
  BY <1>1
<1>5. CASE s = "codec"
  <2> DEFINE ids == [n \in DOMAIN CodecModules |-> modules[First(Mapped(CodecModules[n]))].mapping_id]
  <2>1. Findings(s) = [found EXCEPT !.codec = ids] /\ DOMAIN ids = DOMAIN CodecModules
    BY <1>5 DEF Findings
  <2> HIDE DEF ids
  <2> QED
    BY <1>3, <2>1
<1>6. CASE s # "codec"
  <2>1. \/ Findings(s) = found \/ \E e : Findings(s) = [found EXCEPT !.proxy = e]
        \/ \E e : Findings(s) = [found EXCEPT !.asi = e]
    BY <1>6 DEF Findings
  <2> QED
    BY <1>1, <1>2, <1>4, <2>1
<1> QED
  BY <1>5, <1>6

\* Nothing is found at first.
LEMMA FoundInit == Init => FoundLive
  BY DEF Init, FoundLive, Armed

------------------------------------------------------------------------------
(* What the handlers keep is mapped                                         *)

\* Every step of the observation keeps what was found mapped.
LEMMA FoundStep ==
  ASSUME OnTheLine, RecordKept, Counted, FoundLive, LoadsFresh, [Next]_vars
  PROVE  FoundLive'
<1> DEFINE Stays(x) == x \in 1 .. Len(history') /\ history'[x].unload_event = 0
<1>1. Running' => Running
  BY RecordMoves
<1>2. ASSUME NEW n \in 1 .. Len(Line(goal)), NEW handle, Running,
             Armed = Upto(Line(goal), n), Handle(Line(goal)[n], handle)
      PROVE  found' \in {found, Findings(Line(goal)[n])}
  BY <1>2, HandlerEnds
<1>3. /\ found' = [proxy |-> found'.proxy, codec |-> found'.codec, asi |-> found'.asi]
      /\ DOMAIN found'.codec \in {{}, DOMAIN CodecModules}
  <2>1. found' = found \/ \E s : found' = Findings(s)
    BY <1>2, Moves
  <2>2. CASE found' = found
    BY <2>2 DEF FoundLive
  <2>3. CASE \E s : found' = Findings(s)
    <3>1. PICK s : found' = Findings(s)
      BY <2>3
    <3>2. /\ Findings(s) = [proxy |-> Findings(s).proxy, codec |-> Findings(s).codec, asi |-> Findings(s).asi]
          /\ DOMAIN Findings(s).codec \in {{}, DOMAIN CodecModules}
      BY FindingsShaped
    <3> QED
      BY <3>1, <3>2
  <2> QED
    BY <2>1, <2>2, <2>3
<1> SUFFICES ASSUME Running'
             PROVE  /\ found'.proxy # 0 => Stays(found'.proxy)
                    /\ "binding" \in Armed' =>
                         \A n \in DOMAIN found'.codec :
                           Stays(found'.codec[n])
                    /\ found'.asi # 0 =>
                         /\ Stays(found'.asi)
                         /\ modules'[found'.asi].file = Asi /\ "asi_call" \in Permitted(goal)
  BY <1>3, Moves DEF FoundLive, Ledger!Live
<1>4. Running /\ Len(history) = Len(modules) /\ UNCHANGED goal
  BY <1>1, Moves DEF RecordKept
<1>5. /\ found.proxy # 0 => found.proxy \in 1 .. Len(history) /\ Ledger!Live(found.proxy)
      /\ "binding" \in Armed =>
           \A n \in DOMAIN found.codec :
             found.codec[n] \in 1 .. Len(history) /\ Ledger!Live(found.codec[n])
      /\ found.asi # 0 =>
           /\ found.asi \in 1 .. Len(history) /\ Ledger!Live(found.asi)
           /\ modules[found.asi].file = Asi /\ "asi_call" \in Permitted(goal)
  BY <1>4 DEF FoundLive
<1>6. CASE UNCHANGED <<stop, found, arm_event>>
  <2>1. Armed' = Armed
    BY <1>6 DEF Armed
  <2>2. CASE UNCHANGED <<modules, limit, history, last_event>>
    BY <1>5, <1>6, <2>1, <2>2 DEF Ledger!Live
  <2>3. \A i \in 1 .. Len(history) : modules'[i].file = modules[i].file
    BY <1>4, MappingsMove
  <2>4. CASE \A i \in 1 .. Len(history) : i \in 1 .. Len(history') /\ history'[i] = history[i]
    BY <1>5, <1>6, <2>1, <2>3, <2>4 DEF Ledger!Live
  <2>5. ASSUME NEW base, UnloadDll(base), NEW i \in 1 .. Len(history), UnloadRefusal(i) = "none",
               Len(history') = Len(history),
               \A j \in 1 .. Len(history) : j # i => history'[j] = history[j]
        PROVE  /\ found'.proxy # 0 => Stays(found'.proxy)
               /\ "binding" \in Armed' =>
                    \A n \in DOMAIN found'.codec :
                      Stays(found'.codec[n])
               /\ found'.asi # 0 =>
                    /\ Stays(found'.asi)
                    /\ modules'[found'.asi].file = Asi /\ "asi_call" \in Permitted(goal)
    <3>1. modules[i].mapping_id = i
      BY <1>4 DEF RecordKept
    <3>2. "binding" \in Armed => "binding" \in continued
      BY <2>5, ArmedOrder, UnloadWays
    <3>3. /\ i # found.proxy
          /\ "binding" \in Armed => \A n \in DOMAIN found.codec : i # found.codec[n]
          /\ ~ ("asi_call" \in Permitted(goal) /\ modules[i].file = Asi)
      BY <2>5, <3>1, <3>2 DEF UnloadRefusal
    <3>4. \A j \in 1 .. Len(history) : j # i /\ Ledger!Live(j) => Stays(j)
      BY <2>5 DEF Ledger!Live
    <3>5. found.proxy # 0 => Stays(found.proxy)
      BY <1>5, <2>5, <3>3, <3>4
    <3>6. "binding" \in Armed =>
            \A n \in DOMAIN found.codec :
              Stays(found.codec[n])
      BY <1>5, <2>5, <3>3, <3>4
    <3>7. found.asi # 0 =>
            /\ Stays(found.asi)
            /\ modules'[found.asi].file = Asi /\ "asi_call" \in Permitted(goal)
      BY <1>5, <2>3, <2>5, <3>3, <3>4
    <3> QED
      BY <1>6, <2>1, <3>5, <3>6, <3>7 DEF Ledger!Live
  <2>6. \/ UNCHANGED <<modules, limit, history, last_event>>
        \/ \A i \in 1 .. Len(history) : i \in 1 .. Len(history') /\ history'[i] = history[i]
        \/ \E base \in Unloadable, i \in 1 .. Len(history) :
             /\ UnloadDll(base) /\ UnloadRefusal(i) = "none" /\ Len(history') = Len(history)
             /\ \A j \in 1 .. Len(history) : j # i => history'[j] = history[j]
    BY MappingsMove
  <2> QED
    BY <2>2, <2>4, <2>5, <2>6
<1>7. CASE /\ Armed' = {"entry"}
           /\ UNCHANGED <<found, arm_event, modules, limit, history, last_event>>
  BY <1>5, <1>7 DEF Ledger!Live
<1>8. CASE \E n \in 1 .. Len(Line(goal)) : \E handle :
             /\ Armed = Upto(Line(goal), n) /\ Handle(Line(goal)[n], handle)
             /\ UNCHANGED <<modules, limit, history, last_event, disturbed>>
  <2>0. PICK n \in 1 .. Len(Line(goal)) : \E handle :
             /\ Armed = Upto(Line(goal), n) /\ Handle(Line(goal)[n], handle)
             /\ UNCHANGED <<modules, limit, history, last_event, disturbed>>
    BY <1>8
  <2>1. PICK handle :
             /\ Armed = Upto(Line(goal), n) /\ Handle(Line(goal)[n], handle)
             /\ UNCHANGED <<modules, limit, history, last_event, disturbed>>
    BY <2>0
  <2>2. PICK s \in Stages, k \in 1 .. 10 : GoesOn(n, handle, s, k)
    <3>1. ~ Blameless(reason')
      BY DEF Blameless, Running
    <3> QED
      BY <1>4, <2>1, <3>1, HandlerEnds
  <2> DEFINE L == Line(goal)[n]
  <2>3. ComesNext(n, s, k) /\ found' = Findings(L) /\ Rejection(L, handle) = "none" /\ AwaitedIs(s, k)
    BY <2>2 DEF GoesOn, Armable
  <2>4. L \in Armed /\ (s = "binding" => L = "codec")
    BY <2>1, <2>3, ArmedFrom
  <2>5. Armed' = Armed \cup {s}
    BY <2>1, <2>3, ArmedNext
  <2>6. /\ Findings(L).proxy # found.proxy =>
              Findings(L).proxy \in 1 .. Len(history) /\ Ledger!Live(Findings(L).proxy)
        /\ L # "codec" => Findings(L).codec = found.codec
        /\ L = "codec" =>
              \A m \in DOMAIN Findings(L).codec :
                Findings(L).codec[m] \in 1 .. Len(history) /\ Ledger!Live(Findings(L).codec[m])
        /\ Findings(L).asi # found.asi =>
              /\ L = "asi_return" /\ Findings(L).asi \in 1 .. Len(history)
              /\ Ledger!Live(Findings(L).asi) /\ modules[Findings(L).asi].file = Asi
    BY <1>4, <2>3, <2>4, FindingsLive
  <2> HIDE DEF L
  <2>7. found'.proxy # 0 => found'.proxy \in 1 .. Len(history) /\ Ledger!Live(found'.proxy)
    BY <1>5, <2>3, <2>6
  <2>8. "binding" \in Armed' =>
          \A m \in DOMAIN found'.codec :
            found'.codec[m] \in 1 .. Len(history) /\ Ledger!Live(found'.codec[m])
    <3>1. CASE L = "codec"
      BY <2>3, <2>6, <3>1
    <3>2. CASE L # "codec"
      <4>1. "binding" \in Armed' => "binding" \in Armed
        BY <2>4, <2>5, <3>2
      <4> QED
        BY <1>5, <2>3, <2>6, <3>2, <4>1
    <3> QED
      BY <3>1, <3>2
  <2>9. found'.asi # 0 =>
          /\ found'.asi \in 1 .. Len(history) /\ Ledger!Live(found'.asi)
          /\ modules[found'.asi].file = Asi /\ "asi_call" \in Permitted(goal)
    <3>1. L = "asi_return" => "asi_call" \in Permitted(goal)
      BY <2>4, ArmedOrder
    <3> QED
      BY <1>5, <2>3, <2>6, <3>1
  <2> QED
    BY <2>1, <2>7, <2>8, <2>9 DEF Ledger!Live
<1> QED
  BY <1>6, <1>7, <1>8, Moves

------------------------------------------------------------------------------
(* Loads are fresh when a stop asks for them                                *)

\* Nothing is armed at first.
LEMMA FreshInit == Init => LoadsFresh
<1> SUFFICES ASSUME Init PROVE LoadsFresh
  OBVIOUS
<1>1. Armed = {} /\ event_count = 1
      /\ arm_event = [codec |-> 0, binding |-> 0, asi |-> 0]
  BY DEF Init, Armed
<1> QED
  BY <1>1 DEF LoadsFresh, QuietScan

\* Which stop remembers its event.
LEMMA ArmEventIs ==
  ASSUME arm_event \in [codec : Nat, binding : Nat, asi : Nat], NEW s, NEW k, Armable(s, k),
         event_count' \in Nat
  PROVE  /\ arm_event' \in [codec : Nat, binding : Nat, asi : Nat]
         /\ arm_event'.codec = IF s = "codec" THEN event_count' ELSE arm_event.codec
         /\ arm_event'.binding = IF s = "binding" THEN event_count' ELSE arm_event.binding
         /\ arm_event'.asi = IF s = "asi_return" THEN event_count' ELSE arm_event.asi
<1>1. arm_event' = CASE s = "codec" -> [arm_event EXCEPT !.codec = event_count']
                     [] s = "binding" -> [arm_event EXCEPT !.binding = event_count']
                     [] s = "asi_return" -> [arm_event EXCEPT !.asi = event_count']
                     [] OTHER -> arm_event
  BY DEF Armable
<1>2. CASE s = "codec"
  BY <1>1, <1>2
<1>3. CASE s = "binding"
  BY <1>1, <1>3
<1>4. CASE s = "asi_return"
  BY <1>1, <1>4
<1>5. CASE s \notin {"codec", "binding", "asi_return"}
  BY <1>1, <1>5
<1> QED
  BY <1>2, <1>3, <1>4, <1>5

\* The live mappings depend on record and ledger alone.
LEMMA MappedSame ==
  ASSUME UNCHANGED <<modules, history>>
  PROVE  \A file : Mapped(file)' = Mapped(file)
  BY DEF Mapped, Ledger!Active, Ledger!count_, Ledger!Live

\* Every step of the observation keeps the loads fresh.
LEMMA FreshStep ==
  ASSUME OnTheLine, RecordKept, Counted, LoadsFresh, [Next]_vars
  PROVE  LoadsFresh'
<1>1. /\ Running' => Running
      /\ event_count' \in Nat /\ event_count' >= event_count /\ event_count \in Nat
      /\ UNCHANGED goal
  <2>1. event_count \in Nat
    BY LimitsPositive DEF Counted
  <2>2. event_count' \in {event_count, event_count + 1}
    BY RecordMoves, LoadWays, UnloadWays
  <2> QED
    BY <2>1, <2>2, RecordMoves, Moves
<1>2. /\ arm_event \in [codec : Nat, binding : Nat, asi : Nat]
      /\ arm_event.codec <= event_count /\ arm_event.binding <= event_count
      /\ arm_event.asi <= event_count
  BY DEF LoadsFresh
<1>3. ASSUME NEW n \in 1 .. Len(Line(goal)), NEW handle, Running,
             Armed = Upto(Line(goal), n), Handle(Line(goal)[n], handle)
      PROVE  \/ \E s \in Stages, k \in 1 .. 10 : GoesOn(n, handle, s, k)
             \/ UNCHANGED <<stop, arm_event>> /\ ~ Running'
  <2>1. \A r : Blameless(r) => r # "running"
    BY DEF Blameless
  <2> QED
    BY <1>3, <2>1, HandlerEnds DEF Running
<1>4. /\ arm_event' \in [codec : Nat, binding : Nat, asi : Nat]
      /\ arm_event'.codec <= event_count' /\ arm_event'.binding <= event_count'
      /\ arm_event'.asi <= event_count'
  <2>1. CASE UNCHANGED arm_event
    BY <1>1, <1>2, <2>1
  <2>2. ASSUME NEW n, NEW handle, NEW s, NEW k, GoesOn(n, handle, s, k)
        PROVE  /\ arm_event' \in [codec : Nat, binding : Nat, asi : Nat]
               /\ arm_event'.codec <= event_count' /\ arm_event'.binding <= event_count'
               /\ arm_event'.asi <= event_count'
    <3>1. Armable(s, k)
      BY <2>2 DEF GoesOn
    <3> QED
      BY <1>1, <1>2, <3>1, ArmEventIs
  <2> QED
    BY <1>3, <2>1, <2>2, Moves
<1> DEFINE CodecFresh == "codec" \in Armed' =>
             \A n \in DOMAIN CodecModules : \A i \in Mapped(CodecModules[n])' :
               modules'[i].event_index > arm_event'.codec
           AsiFresh == "asi_return" \in Armed' =>
             \A i \in Mapped(Asi)' : modules'[i].event_index > arm_event'.asi
           Quiet == "binding" \in Armed' =>
             \A i \in DOMAIN modules' :
               modules'[i].event_index > arm_event'.binding =>
                 "asi_return" \in Armed' /\ modules'[i].event_index > arm_event'.asi
<1> SUFFICES ASSUME Running' PROVE CodecFresh /\ AsiFresh /\ Quiet
  BY <1>4 DEF LoadsFresh, QuietScan
<1>5. Running
  BY <1>1
<1>6. /\ "codec" \in Armed =>
           \A n \in DOMAIN CodecModules : \A i \in Mapped(CodecModules[n]) :
             modules[i].event_index > arm_event.codec
      /\ "asi_return" \in Armed => \A i \in Mapped(Asi) : modules[i].event_index > arm_event.asi
      /\ "binding" \in Armed =>
           \A i \in DOMAIN modules :
             modules[i].event_index > arm_event.binding =>
               "asi_return" \in Armed /\ modules[i].event_index > arm_event.asi
  BY <1>5 DEF LoadsFresh, QuietScan
<1>7. /\ DOMAIN modules = 1 .. Len(modules) /\ Len(modules) \in Nat
      /\ DOMAIN modules' = 1 .. Len(modules') /\ Len(modules') \in Nat
  <2>1. RecordKept'
    BY RecordStep
  <2> QED
    BY <2>1 DEF RecordKept
<1>8. \A file : Mapped(file) \subseteq 1 .. Len(modules)
  BY <1>7 DEF Mapped
<1>9. CASE UNCHANGED <<stop, found, arm_event>>
  <2>1. Armed' = Armed
    BY <1>9 DEF Armed
  <2>2. CASE UNCHANGED <<modules, limit, history, last_event>>
    BY <1>6, <1>9, <2>1, <2>2, MappedSame
  <2>3. ASSUME NEW file, NEW i \in Mapped(file)'
        PROVE  \/ i \in Mapped(file) /\ modules'[i].event_index = modules[i].event_index
               \/ modules'[i].event_index = event_count + 1
    <3>1. /\ \A j \in 1 .. Len(modules) : modules'[j].event_index = modules[j].event_index
          /\ \/ \A j \in Mapped(file)' : j \in Mapped(file) \/ modules'[j].event_index = event_count + 1
             \/ Mapped(file)' \subseteq Mapped(file)
             \/ UNCHANGED <<modules, limit, history, last_event>>
      BY MappingsMove
    <3> QED
      BY <1>8, <2>3, <3>1, MappedSame
  <2>4. CodecFresh
    <3> SUFFICES ASSUME "codec" \in Armed, NEW n \in DOMAIN CodecModules, NEW i \in Mapped(CodecModules[n])'
                 PROVE  modules'[i].event_index > arm_event.codec
      BY <1>9, <2>1
    <3> QED
      BY <1>1, <1>2, <1>6, <2>3
  <2>5. AsiFresh
    <3> SUFFICES ASSUME "asi_return" \in Armed, NEW i \in Mapped(Asi)'
                 PROVE  modules'[i].event_index > arm_event.asi
      BY <1>9, <2>1
    <3> QED
      BY <1>1, <1>2, <1>6, <2>3
  <2>6. Quiet
    <3>1. CASE \E p \in Placements :
                 /\ LoadDll(p[1], p[2])
                 /\ \A i \in 1 .. Len(modules') : i \in 1 .. Len(modules) \/ modules'[i].event_index = event_count + 1
                 /\ ~ ("binding" \in continued /\ "asi_return" \notin continued)
      <4>1. started /\ ~ pending /\ ~ ("binding" \in continued /\ "asi_return" \notin continued)
        BY <3>1, LoadWays
      <4>2. "binding" \in Armed => "asi_return" \in Armed
        BY <4>1, ArmedOrder DEF OnTheLine
      <4>3. \A i \in 1 .. Len(modules) : modules'[i].event_index = modules[i].event_index
        BY MappingsMove
      <4>4. ASSUME "binding" \in Armed, NEW i \in 1 .. Len(modules'),
                   modules'[i].event_index > arm_event.binding
            PROVE  modules'[i].event_index > arm_event.asi
        <5>1. CASE modules'[i].event_index = event_count + 1
          BY <1>1, <1>2, <5>1
        <5>2. CASE i \in 1 .. Len(modules)
          BY <1>6, <1>7, <4>3, <4>4, <5>2
        <5> QED
          BY <3>1, <5>1, <5>2
      <4> QED
        BY <1>7, <1>9, <2>1, <4>2, <4>4
    <3>2. CASE Len(modules') = Len(modules)
      <4>1. \A i \in 1 .. Len(modules) : modules'[i].event_index = modules[i].event_index
        BY MappingsMove
      <4> QED
        BY <1>6, <1>7, <1>9, <2>1, <3>2, <4>1
    <3> QED
      BY <3>1, <3>2, MappingsMove
  <2> QED
    BY <2>4, <2>5, <2>6
<1>10. CASE Armed' = {"entry"}
  BY <1>10
<1>11. CASE \E n \in 1 .. Len(Line(goal)) : \E handle :
             /\ Armed = Upto(Line(goal), n) /\ Handle(Line(goal)[n], handle)
             /\ UNCHANGED <<modules, limit, history, last_event, disturbed>>
             /\ event_count' = event_count + 1
  <2>0. PICK n \in 1 .. Len(Line(goal)) : \E handle :
             /\ Armed = Upto(Line(goal), n) /\ Handle(Line(goal)[n], handle)
             /\ UNCHANGED <<modules, limit, history, last_event, disturbed>>
             /\ event_count' = event_count + 1
    BY <1>11
  <2>1. PICK handle :
             /\ Armed = Upto(Line(goal), n) /\ Handle(Line(goal)[n], handle)
             /\ UNCHANGED <<modules, limit, history, last_event, disturbed>>
             /\ event_count' = event_count + 1
    BY <2>0
  <2>2. PICK s \in Stages, k \in 1 .. 10 : GoesOn(n, handle, s, k)
    BY <1>3, <1>5, <2>1
  <2> DEFINE L == Line(goal)[n]
  <2>3. /\ ComesNext(n, s, k) /\ s \in Permitted(goal) /\ Rejection(L, handle) = "none"
        /\ Armable(s, k) /\ AwaitedIs(s, k)
    BY <2>2 DEF GoesOn, Armable
  <2>4. /\ L \in Armed /\ (s \in {"codec", "binding", "asi_return"} => s \notin Armed)
        /\ s = "codec" => L = "startup"
        /\ s = "asi_return" => L = "asi_call"
    BY <2>1, <2>3, ArmedFrom
  <2>5. Armed' = Armed \cup {s}
    BY <2>1, <2>3, ArmedNext
  <2>6. /\ arm_event'.codec = IF s = "codec" THEN event_count' ELSE arm_event.codec
        /\ arm_event'.binding = IF s = "binding" THEN event_count' ELSE arm_event.binding
        /\ arm_event'.asi = IF s = "asi_return" THEN event_count' ELSE arm_event.asi
    BY <1>1, <1>2, <2>3, ArmEventIs
  <2>7. /\ L = "startup" /\ "codec" \in Permitted(goal) =>
             \A m \in DOMAIN CodecModules : Mapped(CodecModules[m]) = {}
        /\ L = "asi_call" => Mapped(Asi) = {}
    BY <1>5, <2>3, <2>4, RejectionPlain
  <2>8. modules' = modules /\ \A file : Mapped(file)' = Mapped(file)
    BY <2>1, MappedSame
  <2>9. \A i \in DOMAIN modules : modules[i].event_index <= event_count /\ modules[i].event_index \in Nat
    <3>1. \A m \in ModuleRecord : m.event_index \in Nat
      BY DEF ModuleRecord
    <3> QED
      BY <1>7, <3>1 DEF RecordKept
  <2> HIDE DEF L
  <2>10. CodecFresh
    <3>1. CASE s = "codec"
      BY <2>3, <2>4, <2>7, <2>8, <3>1
    <3>2. CASE s # "codec"
      BY <1>6, <2>5, <2>6, <2>8, <3>2
    <3> QED
      BY <3>1, <3>2
  <2>11. AsiFresh
    <3>1. CASE s = "asi_return"
      BY <2>4, <2>7, <2>8, <3>1
    <3>2. CASE s # "asi_return"
      BY <1>6, <2>5, <2>6, <2>8, <3>2
    <3> QED
      BY <3>1, <3>2
  <2>12. Quiet
    <3>1. CASE s = "binding"
      <4>1. \A i \in DOMAIN modules : ~ (modules[i].event_index > event_count')
        BY <1>1, <2>1, <2>9
      <4> QED
        BY <2>6, <2>8, <3>1, <4>1
    <3>2. CASE s = "asi_return"
      BY <1>6, <2>4, <2>5, <2>6, <2>8, <3>2
    <3>3. CASE s \notin {"binding", "asi_return"}
      BY <1>6, <2>5, <2>6, <2>8, <3>3
    <3> QED
      BY <3>1, <3>2, <3>3
  <2> QED
    BY <2>10, <2>11, <2>12
<1> QED
  BY <1>9, <1>10, <1>11, Moves

------------------------------------------------------------------------------
(* What a reason means                                                      *)

\* At a stop the processor reported on its own, the guards do not blame the
\* registers.
LEMMA GuardsTrust ==
  ASSUME OnTheLine, RegistersKept, started, ~ pending, Released, ~ disturbed,
         NEW trap \in Traps
  PROVE  GuardVerdict(trap) \notin IdentityReasons
<1>1. /\ dr.r0 = expected_address
      /\ "startup" \in continued => dr.r1 = Iat /\ dr.on = watched_dr7
      /\ "startup" \notin continued => dr.on = {0}
      /\ "asi_call" \in continued =>
           "startup" \in continued /\ dr.r2 = watched_dr2 /\ watched_dr2 \in {Call, End}
      /\ "instance" \in Armed => dr.r3 = Guard
      /\ HandlerStage = Last(Armed)
      /\ dr.r0 = Address(HandlerStage, stop[HandlerStage])
  BY Expected
<1>2. HandlerStage \in Armed /\ HandlerStage \in Stages
  <2>1. PICK n \in 1 .. Len(Line(goal)) : Armed = Upto(Line(goal), n) /\ HandlerStage = Line(goal)[n]
    BY AtHandler
  <2> QED
    BY <2>1, AtPlace, GoalLine DEF OnTheLine
<1>3. dr.r0 \notin {Call, End, Guard}
  <2>1. stop[HandlerStage] # 0
    <3>1. stop[HandlerStage] \in 1 .. Stops(HandlerStage) /\ Stops(HandlerStage) \in 1 .. 10
      BY <1>2, StopsTyped DEF OnTheLine
    <3> QED
      BY <3>1
  <2>2. dr.r0[2] # 0
    BY <1>1, <2>1 DEF Address
  <2> QED
    BY <2>2 DEF Call, End, Guard
<1>4. Call # Guard /\ End # Guard
  BY DEF Call, End, Guard
<1>5. CASE trap.kind # "step"
  BY <1>5 DEF GuardVerdict, IdentityReasons
<1> DEFINE on == dr.on
<1>6. on \in {{0}, {0, 1}, {0, 1, 2}, {0, 1, 2, 3}}
      /\ (1 \in on => "startup" \in continued)
      /\ (2 \in on => "startup" \in continued /\ ("instance" \in Armed \/ "asi_call" \in continued))
      /\ (3 \in on => "instance" \in Armed)
  BY <1>1 DEF watched_dr7
<1>7. "instance" \in Armed => "asi_call" \in continued
  <2>1. PICK n \in 1 .. Len(Line(goal)) : Armed = Upto(Line(goal), n) /\ continued = Armed
    BY AtHandler
  <2>2. goal \in Goals /\ Shaped(Line(goal))
    BY GoalLine DEF OnTheLine
  <2> DEFINE L == Line(goal)[n]
  <2>3. ("asi_call" \in Armed <=> Scanning(L)) /\ ("instance" \in Armed <=> FromInstance(L))
    BY <2>1, <2>2, NamedStages
  <2> HIDE DEF L
  <2> QED
    BY <2>1, <2>3 DEF Scanning, FromInstance
<1>8. CASE trap \in {[kind |-> "step", addr |-> Other, bits |-> {1}] : i \in dr.on \cap {1}}
  <2>1. trap = [kind |-> "step", addr |-> Other, bits |-> {1}] /\ 1 \in on
    BY <1>8
  <2> QED
    BY <1>1, <1>6, <2>1 DEF GuardVerdict, IdentityReasons
<1>9. CASE trap \in {[kind |-> "step", addr |-> Register(i),
                      bits |-> {j \in dr.on \ {1} : Register(j) = Register(i)}] : i \in dr.on \ {1}}
  <2>1. PICK i \in on \ {1} : trap = [kind |-> "step", addr |-> Register(i),
                      bits |-> {j \in on \ {1} : Register(j) = Register(i)}]
    BY <1>9
  <2> DEFINE bits == {j \in on \ {1} : Register(j) = Register(i)}
  <2>2. trap.kind = "step" /\ trap.addr = Register(i) /\ trap.bits = bits
    BY <2>1
  <2>3. i \in bits /\ 1 \notin bits
    OBVIOUS
  <2>4. CASE i = 0
    <3>1. trap.addr = dr.r0 /\ 2 \notin bits /\ 3 \notin bits
      BY <1>1, <1>3, <1>6, <1>7, <2>2, <2>4 DEF Register
    <3>2. bits = {0}
      BY <1>6, <2>3, <2>4, <3>1
    <3> HIDE DEF bits
    <3> QED
      BY <1>1, <2>2, <2>3, <3>1, <3>2 DEF GuardVerdict, IdentityReasons
  <2>5. CASE i = 2
    <3>1. trap.addr = dr.r2 /\ 0 \notin bits
      BY <1>1, <1>3, <1>6, <1>7, <2>2, <2>5 DEF Register
    <3>2. 3 \notin bits
      BY <1>1, <1>4, <1>6, <1>7, <2>5 DEF Register
    <3>3. bits = {2}
      BY <1>6, <2>3, <2>5, <3>1, <3>2
    <3> HIDE DEF bits
    <3> QED
      BY <1>1, <1>6, <1>7, <2>2, <2>3, <2>5, <3>1, <3>3 DEF GuardVerdict, IdentityReasons
  <2>6. CASE i = 3
    <3>1. "instance" \in Armed /\ 3 \in trap.bits
      BY <1>6, <2>2, <2>3, <2>6
    <3> QED
      BY <1>1, <2>2, <3>1 DEF GuardVerdict, IdentityReasons
  <2> QED
    BY <1>6, <2>4, <2>5, <2>6
<1>10. trap \in InitialTraps \cup GenuineTraps
  BY DEF Traps
<1>11. trap \in InitialTraps => trap.kind # "step"
  BY DEF InitialTraps
<1> QED
  BY <1>5, <1>8, <1>9, <1>10, <1>11 DEF GenuineTraps

\* A guard's verdict is a reason of the loop's own or an identity alarm.
LEMMA GuardPlain ==
  ASSUME NEW trap
  PROVE  GuardVerdict(trap) \in OtherReasons \cup IdentityReasons \cup {"none"}
  BY DEF GuardVerdict, OtherReasons, IdentityReasons

\* Before the entry stop is released, it is the only one.
LEMMA EntryHeld ==
  ASSUME OnTheLine, RegistersKept, started, ~ disturbed, ~ Released, "entry" \in Permitted(goal)
  PROVE  dr.r0 = <<"entry", 1>> /\ dr.on = {0}
<1>1. "entry" \in Armed /\ "proxy" \notin Armed /\ goal \in Goals /\ Shaped(Line(goal))
  BY GoalLine DEF OnTheLine, Released
<1>2. PICK n \in 0 .. Len(Line(goal)) : Armed = Upto(Line(goal), n)
  BY DEF OnTheLine, Placed
<1>3. n \in 1 .. Len(Line(goal))
  <2>1. n # 0
    BY <1>1, <1>2 DEF Upto
  <2> QED
    BY <2>1
<1>4. Line(goal)[n] = "entry"
  BY <1>1, <1>2, <1>3, NamedStages
<1>5. Last(Armed) = "entry"
  BY <1>1, <1>2, <1>3, <1>4, AwaitedStage
<1> QED
  BY <1>1, <1>5 DEF RegistersKept, AwaitedRegisters

\* A run has no reason at first.
LEMMA ReasonInit == Init => ReasonMeans
  BY DEF Init, ReasonMeans, IdentityReasons, ArmReasons, DefensiveReasons

\* Every step of the observation ends only for reasons that mean what they say.
LEMMA ReasonStep ==
  ASSUME OnTheLine, RegistersKept, RecordKept, Counted, LoadsFresh, ReasonMeans, [Next]_vars
  PROVE  ReasonMeans'
<1>1. disturbed => disturbed'
  <2>1. CASE UNCHANGED disturbed
    BY <2>1
  <2>2. CASE Tamper
    BY <2>2 DEF Tamper
  <2> QED
    BY <2>1, <2>2 DEF Next, Observer, Debuggee, vars, WrongThread, Begin, Continue, WaitEnds,
       LoadDll, UnloadDll, CreateThread, OtherEvent, ForeignEvent, Exception, Unmoved
<1>2. CASE UNCHANGED reason
  BY <1>1, <1>2 DEF ReasonMeans
<1>3. CASE reason' \in OtherReasons
  <2>1. Blameless(reason') /\ reason' \notin ArmReasons
    BY <1>3, OthersBlameless
  <2> QED
    BY <2>1 DEF ReasonMeans, Blameless
<1>4. CASE Blameless(reason') /\ (reason' \in ArmReasons => disturbed \/ MayRefuse)
  BY <1>1, <1>4 DEF ReasonMeans, Blameless
<1>5. CASE WrongThread
  BY <1>3, <1>5 DEF WrongThread, OtherReasons
<1>6. CASE Begin
  <2>1. CASE Fault(PreflightRefusals(goal))
    <3>1. goal \in Goals /\ Permitted(goal) \subseteq Stages
      BY GoalLine DEF OnTheLine
    <3>2. MayRefuse /\ Blameless(reason')
      BY <2>1, <3>1, PreflightPlain, PlainFault
    <3> QED
      BY <1>4, <3>2
  <2> QED
    BY <1>2, <1>6, <2>1 DEF Begin
<1>7. CASE Continue
  <2>1. \/ UNCHANGED reason \/ Finish("loader_event_limit") \/ Finish("loader_timeout")
        \/ Fault({"loader_continue_failed"})
    BY <1>7 DEF Continue
  <2>2. UNCHANGED reason \/ reason' \in OtherReasons
    BY <2>1, FinishesOther, FaultsOther DEF OtherReasons
  <2> QED
    BY <1>2, <1>3, <2>2
<1>8. CASE WaitEnds
  <2>1. Finish("loader_timeout") \/ Fault({"loader_wait_failed"})
    BY <1>8 DEF WaitEnds
  <2>2. reason' \in OtherReasons
    BY <2>1, FinishesOther, FaultsOther DEF OtherReasons
  <2> QED
    BY <1>3, <2>2
<1>9. CASE Tamper \/ UNCHANGED vars
  BY <1>2, <1>9 DEF Tamper, vars
<1>10. CASE \E p \in Placements : LoadDll(p[1], p[2])
  <2>1. UNCHANGED reason \/ reason' \in OtherReasons
    BY <1>10, LoadWays
  <2> QED
    BY <1>2, <1>3, <2>1
<1>11. CASE \E base \in Unloadable : UnloadDll(base)
  <2>1. UNCHANGED reason \/ reason' \in OtherReasons
    BY <1>11, UnloadWays DEF Unloads
  <2> QED
    BY <1>2, <1>3, <2>1
<1>12. CASE CreateThread
  <2>1. UNCHANGED reason \/ reason' \in OtherReasons
    BY <1>12 DEF CreateThread, Conclude, Finish, OtherReasons
  <2> QED
    BY <1>2, <1>3, <2>1
<1>13. CASE OtherEvent \/ ForeignEvent
  <2>1. Finish("loader_early_exit") \/ Fault({"loader_unexpected_event"}) \/ Fault({"loader_event_identity"})
    BY <1>13 DEF OtherEvent, ForeignEvent
  <2>2. reason' \in OtherReasons
    BY <2>1, FinishesOther, FaultsOther DEF OtherReasons
  <2> QED
    BY <1>3, <2>2
<1>14. ASSUME NEW trap \in Traps, Exception(trap) PROVE ReasonMeans'
  <2>1. started /\ ~ pending /\ Running /\ UNCHANGED disturbed
    BY <1>14 DEF Exception, Receive
  <2>2. CASE InitialBreakpoint(trap)
    <3>1. CASE breakpoint_candidate' /\ "entry" \in Permitted(goal)
      <4>1. \/ Fault({"entry_preinitialization_drift"})
            \/ Conclude(IF dr.r0 # <<"entry", 1>> \/ dr.on # {0}
                        THEN "entry_breakpoint_lost_before_initialization" ELSE "none")
        BY <2>2, <3>1 DEF InitialBreakpoint
      <4>2. CASE Fault({"entry_preinitialization_drift"})
        <5>1. reason' \in OtherReasons
          BY <4>2, FaultsOther DEF OtherReasons
        <5> QED
          BY <1>3, <5>1
      <4>3. CASE dr.r0 = <<"entry", 1>> /\ dr.on = {0} /\ ~ Fault({"entry_preinitialization_drift"})
        BY <1>2, <4>1, <4>3 DEF Conclude
      <4>4. CASE ~ (dr.r0 = <<"entry", 1>> /\ dr.on = {0}) /\ ~ Fault({"entry_preinitialization_drift"})
        <5>1. disturbed /\ disturbed'
          BY <1>1, <2>1, <2>2, <3>1, <4>4, EntryHeld DEF InitialBreakpoint
        <5>2. Finish("entry_breakpoint_lost_before_initialization")
          BY <4>1, <4>4 DEF Conclude
        <5>3. reason' \in IdentityReasons \cup OtherReasons
          BY <5>2 DEF Finish, IdentityReasons, OtherReasons
        <5> QED
          BY <1>3, <5>1, <5>3, VerdictsApart DEF ReasonMeans
      <4> QED
        BY <4>2, <4>3, <4>4
    <3>2. CASE ~ (breakpoint_candidate' /\ "entry" \in Permitted(goal))
      <4>1. Finish("loader_breakpoint_candidate") \/ Finish("loader_exception")
        BY <2>2, <3>2 DEF InitialBreakpoint
      <4>2. Blameless(reason') /\ reason' \notin ArmReasons
        <5>1. reason' \in {"loader_breakpoint_candidate", "loader_exception", "loader_exit_unconfirmed"}
          BY <4>1 DEF Finish
        <5> QED
          BY <5>1 DEF Blameless, ArmReasons, IdentityReasons, DefensiveReasons
      <4> QED
        BY <1>4, <4>2
    <3> QED
      BY <3>1, <3>2
  <2>3. CASE /\ Released /\ GuardVerdict(trap) # "none"
             /\ Finish(GuardVerdict(trap)) \/ Fault({"entry_context_read_failed"})
    <3> DEFINE g == GuardVerdict(trap)
    <3>1. g \in OtherReasons \/ (g \in IdentityReasons /\ disturbed)
      BY <2>1, <2>3, GuardPlain, GuardsTrust
    <3> HIDE DEF g
    <3>2. reason' \in OtherReasons \/ (reason' \in IdentityReasons /\ disturbed)
      <4>1. Finish(g) \/ Fault({"entry_context_read_failed"})
        BY <2>3 DEF g
      <4>2. "entry_context_read_failed" \in OtherReasons
        BY DEF OtherReasons
      <4> QED
        BY <3>1, <4>1, <4>2, FinishIs, FaultsOther
    <3>3. CASE reason' \in IdentityReasons /\ disturbed
      BY <1>1, <3>3, VerdictsApart DEF ReasonMeans
    <3> QED
      BY <1>3, <3>2, <3>3
  <2>4. ASSUME Released, NEW handle, Handle(HandlerStage, handle)
        PROVE  ReasonMeans'
    <3>1. PICK n \in 1 .. Len(Line(goal)) :
            Armed = Upto(Line(goal), n) /\ HandlerStage = Line(goal)[n]
      BY <2>1, <2>4, AtHandler
    <3>2. \/ \E s \in Stages, k \in 1 .. 10 : GoesOn(n, handle, s, k)
          \/ /\ Blameless(reason')
             /\ reason' \in ArmReasons =>
                  \/ MayRefuse
                  \/ \E s \in Permitted(goal), k \in 1 .. 10 :
                       ComesNext(n, s, k) /\ ~ Verified(s, k, Rewritten(s, k))
      BY <2>1, <2>4, <3>1, HandlerEnds
    <3>3. ~ disturbed => ~ \E s \in Permitted(goal), k \in 1 .. 10 :
                             ComesNext(n, s, k) /\ ~ Verified(s, k, Rewritten(s, k))
      BY <2>1, <3>1, ArmingVerified
    <3>4. (\E s \in Stages, k \in 1 .. 10 : GoesOn(n, handle, s, k)) => UNCHANGED reason
      BY DEF GoesOn, Armable
    <3> QED
      BY <1>2, <1>4, <3>2, <3>3, <3>4
  <2> QED
    BY <1>14, <2>2, <2>3, <2>4 DEF Exception
<1> QED
  BY <1>5, <1>6, <1>7, <1>8, <1>9, <1>10, <1>11, <1>12, <1>13, <1>14
  DEF Next, Observer, Debuggee

------------------------------------------------------------------------------
(* The theorems                                                             *)

\* The inductive invariant of the observation loop.
ObservationInvariant ==
  /\ OnTheLine
  /\ Counted
  /\ RegistersKept
  /\ RecordKept
  /\ FoundLive
  /\ LoadsFresh
  /\ ReasonMeans

\* The observation loop (observe_loader, loader_observation.cpp) keeps its
\* invariant, for every line, limit, file and order of events.
THEOREM ObservationSafe == Spec => []ObservationInvariant
<1>1. Init => ObservationInvariant
  BY LineInit, CountedInit, RegistersInit, RecordInit, FoundInit, FreshInit, ReasonInit
  DEF ObservationInvariant
<1>2. ObservationInvariant /\ [Next]_vars => ObservationInvariant'
  BY LineStep, CountedStep, RegistersStep, RecordStep, FoundStep, FreshStep, ReasonStep
  DEF ObservationInvariant
<1> QED
  BY <1>1, <1>2, PTL DEF Spec

\* The counters, flags and stops of the loop stay within their types: the
\* event, thread, module and byte limits hold on every path of observe_loader.
THEOREM ObservationTyped == Spec => []TypeOK
<1>1. ObservationInvariant => TypeOK
  <2> SUFFICES ASSUME ObservationInvariant PROVE TypeOK
    OBVIOUS
  <2>1. goal \in Goals /\ started \in BOOLEAN /\ pending \in BOOLEAN
        /\ (\A s \in Armed : stop[s] \in 1 .. Stops(s))
        /\ continued \subseteq Armed /\ passed \subseteq Armed
    BY DEF ObservationInvariant, OnTheLine
  <2>2. Armed \subseteq Permitted(goal)
    BY ArmedOrder DEF ObservationInvariant
  <2>3. event_count \in 1 .. EventLimit /\ thread_count \in 1 .. ThreadLimit + 1
        /\ charged_bytes \in 0 .. ByteLimit
    BY DEF ObservationInvariant, Counted
  <2>4. Len(modules) <= limit
    BY DEF ObservationInvariant, RecordKept
  <2>5. dr.on \subseteq {0, 1, 2, 3} /\ DOMAIN found.codec \in {{}, DOMAIN CodecModules}
    BY DEF ObservationInvariant, RegistersKept, FoundLive
  <2> QED
    BY <2>1, <2>2, <2>3, <2>4, <2>5 DEF TypeOK
<1> QED
  BY <1>1, ObservationSafe, PTL

\* A mapping identifier a handler keeps for a later one (proxy, codecs, script
\* plugin) names a mapping that is live as long as the loop goes on: an unload
\* of a kept mapping ends the run.
THEOREM TrustedStaysMapped == Spec => []MappingsTrusted
<1>1. ObservationInvariant => MappingsTrusted
  BY DEF ObservationInvariant, OnTheLine, FoundLive, MappingsTrusted
<1> QED
  BY <1>1, ObservationSafe, PTL

\* The loop's module list and the ledger's history agree on identifier, base,
\* load and unload event, though each is written by code of its own.
THEOREM RecordMatchesLedger == Spec => []LedgerInStep
<1>1. ObservationInvariant => LedgerInStep
  <2> SUFFICES ASSUME RecordKept, NEW i \in DOMAIN modules, modules[i].mapping_id # 0
               PROVE  /\ modules[i].mapping_id = i
                      /\ history[i].base = modules[i].base
                      /\ history[i].load_event = modules[i].event_index
                      /\ history[i].unload_event = modules[i].unload_event_index
    BY DEF ObservationInvariant, LedgerInStep
  <2>1. i \in 1 .. Len(modules) /\ Len(history) \in Nat
    BY DEF RecordKept
  <2>2. i \in 1 .. Len(history)
    BY <2>1 DEF RecordKept
  <2> QED
    BY <2>2 DEF RecordKept
<1> QED
  BY <1>1, ObservationSafe, PTL

\* No codec or script plugin is mapped at a stop that comes before its load:
\* the loop that refuses a preloaded module finds nothing to refuse later.
THEOREM ScanIsQuiet == Spec => []QuietScan
<1>1. ObservationInvariant => QuietScan
  BY DEF ObservationInvariant, LoadsFresh
<1> QED
  BY <1>1, ObservationSafe, PTL

\* The ledger's defensive reasons (a limit out of range, events out of order, a
\* history that does not match, a mapping that is not fresh) are unreachable
\* from the loop that feeds it.
THEOREM DefencesIdle == Spec => []DefensiveUnreachable
<1>1. ObservationInvariant => DefensiveUnreachable
  BY DEF ObservationInvariant, ReasonMeans, DefensiveReasons, DefensiveUnreachable
<1> QED
  BY <1>1, ObservationSafe, PTL

\* A run that ends with an alarm about the debug registers was disturbed by a
\* write of the debuggee, and one that ends because a context could not be
\* armed was disturbed or refused by the system.
THEOREM AlarmsReal == Spec => []AlarmsAreReal
<1>1. ObservationInvariant => AlarmsAreReal
  <2> SUFFICES ASSUME ReasonMeans PROVE AlarmsAreReal
    BY DEF ObservationInvariant
  <2>1. IdentityAlarmIsReal
    BY DEF ReasonMeans, IdentityAlarmIsReal, IdentityReasons
  <2>2. ArmingHolds
    BY ArmFailuresPlain DEF ReasonMeans, ArmingHolds
  <2> QED
    BY <2>1, <2>2 DEF AlarmsAreReal
<1> QED
  BY <1>1, ObservationSafe, PTL

\* A stop the processor reports while the registers are undisturbed is the
\* stop of the handler the loop would choose.
THEOREM HandlerOwnsStop == Spec => []NextHandlerOwnsStop
<1>1. ObservationInvariant => NextHandlerOwnsStop
  BY Expected DEF ObservationInvariant, NextHandlerOwnsStop
<1> QED
  BY <1>1, ObservationSafe, PTL

------------------------------------------------------------------------------
(* The run implements the walk of its line                                  *)

\* The walk's lines and stops are the loop's own.
LEMMA SameLine ==
  /\ Walk!Goals = Goals
  /\ \A g : Walk!Line(g) = Line(g)
  /\ \A s : Walk!Stops(s) = Stops(s)
  /\ \A s, k : Walk!NextStops(s, k) = NextStops(s, k)
  /\ \A line, s : Walk!Index(line, s) = Index(line, s)
<1>1. /\ Walk!LoadLine = LoadLine /\ Walk!BootstrapLine = BootstrapLine /\ Walk!GameLine = GameLine
  BY DEF Walk!LoadLine, LoadLine, Walk!BootstrapLine, BootstrapLine, Walk!GameLine, GameLine
<1>2. \A line, s : Walk!Index(line, s) = Index(line, s)
  BY DEF Walk!Index, Index
<1>3. Walk!Stages = Stages
  BY <1>1 DEF Walk!Stages, Stages, Walk!LateStages, LateStages
<1>4. Walk!Goals = Goals
  BY <1>3 DEF Walk!Goals, Goals
<1>5. Walk!Lines = Lines
  BY <1>1, <1>2, <1>4 DEF Walk!Lines, Lines
<1>6. \A g : Walk!Line(g) = Line(g)
  BY <1>5 DEF Walk!Line, Line
<1>7. \A s : Walk!Stops(s) = Stops(s)
  BY DEF Walk!Stops, Stops
<1>8. \A s, k : Walk!NextStops(s, k) = NextStops(s, k)
  BY DEF Walk!NextStops, NextStops
<1> QED
  BY <1>2, <1>4, <1>6, <1>7, <1>8

\* What the walk sees of the run.
Place == IF Armed = {} THEN <<"start", 0>> ELSE <<Last(Armed), stop[Last(Armed)]>>

\* A step that moves no stop and gives no reason is no step of the walk.
LEMMA WalkStays ==
  ASSUME UNCHANGED <<goal, stop, reason>>
  PROVE  UNCHANGED Walk!vars
  BY DEF Walk!vars, Armed, Running

\* A run that ends without a verdict refuses.
LEMMA WalkRefuses ==
  ASSUME UNCHANGED <<goal, stop>>, goal \in Goals, Running,
         UNCHANGED reason \/ reason' \notin Verdicts
  PROVE  [Walk!Next]_(Walk!vars)
<1>1. CASE UNCHANGED reason
  BY <1>1, WalkStays
<1>2. CASE reason' # "running" /\ reason' \notin Verdicts
  <2>1. ~ Running' /\ reason' \notin Success(goal)
    BY <1>2, SuccessIsVerdict DEF Running
  <2>2. Walk!Refuse
    BY <2>1 DEF Walk!Refuse, Armed
  <2> QED
    BY <2>2 DEF Walk!Next
<1>3. CASE reason' = "running"
  BY <1>3, WalkStays DEF Running
<1> QED
  BY <1>1, <1>2, <1>3

\* At the end of its line a run may end in any way.
LEMMA WalkEnds ==
  ASSUME UNCHANGED <<goal, stop>>, Running, Walk!AtEnd
  PROVE  [Walk!Next]_(Walk!vars)
<1>1. CASE Running'
  BY <1>1, WalkStays DEF Running
<1>2. CASE ~ Running' /\ reason' \in Success(goal)
  <2>1. Walk!Verify
    BY <1>2 DEF Walk!Verify, Armed
  <2> QED
    BY <2>1 DEF Walk!Next
<1>3. CASE ~ Running' /\ reason' \notin Success(goal)
  <2>1. Walk!Refuse
    BY <1>3 DEF Walk!Refuse, Armed
  <2> QED
    BY <2>1 DEF Walk!Next
<1> QED
  BY <1>1, <1>2, <1>3

\* A run that goes on moves to a stop that follows.
LEMMA WalkAdvances ==
  ASSUME UNCHANGED <<goal, reason>>, Running, Place' \in Walk!Following(Place)
  PROVE  [Walk!Next]_(Walk!vars)
<1>1. Walk!Advance
  BY DEF Walk!Advance, Place, Running
<1> QED
  BY <1>1 DEF Walk!Next

\* Where the line goes from a stop of it.
LEMMA FollowingIs ==
  ASSUME goal \in Goals, NEW n \in 1 .. Len(Line(goal)), NEW k \in 1 .. Stops(Line(goal)[n])
  PROVE  Walk!Following(<<Line(goal)[n], k>>) =
           IF k # Stops(Line(goal)[n]) THEN {<<Line(goal)[n], j>> : j \in NextStops(Line(goal)[n], k)}
           ELSE IF n = Len(Line(goal)) THEN {}
           ELSE {<<Line(goal)[n + 1], 1>>}
<1> DEFINE L == Line(goal)[n]
           at == <<L, k>>
<1>1. Shaped(Line(goal)) /\ L \in Stages
  BY GoalLine, AtPlace
<1>2. Index(Line(goal), L) = n
  BY <1>1, NextPlace
<1>3. Stops(L) \in 1 .. 10
  BY <1>1, StopsTyped
<1>4. k \in Nat /\ k # 0 /\ (k < Stops(L) <=> k # Stops(L))
  BY <1>3
<1>5. at # Walk!Start /\ at[1] = L /\ at[2] = k
  BY <1>4 DEF Walk!Start
<1>6. n # 0
  OBVIOUS
<1> HIDE DEF L, at
<1>7. Walk!Following(at) =
        IF k < Stops(L) THEN {<<L, j>> : j \in NextStops(L, k)}
        ELSE IF n = Len(Line(goal)) THEN {} ELSE {<<Line(goal)[n + 1], 1>>}
  BY <1>2, <1>5, SameLine DEF Walk!Following
<1> QED
  BY <1>4, <1>7 DEF L, at

\* A line that is not empty starts at the entry stop.
LEMMA FirstStop ==
  ASSUME NEW g \in Goals, Len(Line(g)) # 0
  PROVE  1 \in 1 .. Len(Line(g)) /\ Line(g)[1] = "entry" /\ "entry" \in Permitted(g)
<1>1. Shaped(Line(g)) /\ Len(Line(g)) \in Nat
  BY GoalLine DEF Shaped
<1>2. 1 \in 1 .. Len(Line(g))
  BY <1>1
<1>3. Line(g)[1] = "entry"
  BY <1>1, <1>2, PlaceOfRank, LoadStages
<1> QED
  BY <1>2, <1>3, GoalLine

\* Where the line goes from its start.
LEMMA StartFollowing ==
  ASSUME goal \in Goals
  PROVE  Walk!Following(<<"start", 0>>) =
           IF Len(Line(goal)) = 0 THEN {} ELSE {<<"entry", 1>>}
<1> DEFINE at == <<"start", 0>>
<1>1. at = Walk!Start
  BY DEF Walk!Start
<1> HIDE DEF at
<1>2. Walk!Following(at) = IF 0 = Len(Line(goal)) THEN {} ELSE {<<Line(goal)[0 + 1], 1>>}
  BY <1>1, SameLine DEF Walk!Following
<1>3. 0 + 1 = 1
  OBVIOUS
<1>4. Len(Line(goal)) # 0 => Line(goal)[0 + 1] = "entry"
  BY <1>3, FirstStop
<1> QED
  BY <1>2, <1>4 DEF at

\* Every step of the observation is a step of the walk, or none.
LEMMA WalkStep ==
  ASSUME ObservationInvariant, [Next]_vars
  PROVE  [Walk!Next]_(Walk!vars)
<1>1. /\ OnTheLine /\ RecordKept /\ Counted /\ LoadsFresh /\ RegistersKept /\ goal \in Goals
      /\ UNCHANGED goal
  BY Moves DEF ObservationInvariant, OnTheLine
<1>2. \A r \in OtherReasons : r \notin Verdicts
  BY OthersBlameless
<1>3. CASE UNCHANGED stop /\ Running /\ (UNCHANGED reason \/ reason' \in OtherReasons)
  BY <1>1, <1>2, <1>3, WalkRefuses
<1>4. CASE UNCHANGED vars
  BY <1>4, WalkStays DEF vars
<1>5. CASE WrongThread
  <2>1. UNCHANGED stop /\ Running /\ reason' \in OtherReasons
    BY <1>5 DEF WrongThread, OtherReasons
  <2> QED
    BY <1>3, <2>1
<1>6. CASE Begin
  <2>1. Running /\ Armed = {}
    BY <1>1, <1>6 DEF Begin, OnTheLine
  <2>2. CASE Fault(PreflightRefusals(goal)) /\ UNCHANGED stop
    <3>1. Permitted(goal) \subseteq Stages
      BY <1>1, GoalLine
    <3>2. reason' \notin Verdicts
      BY <1>1, <2>2, <3>1, PreflightPlain, PlainFault
    <3> QED
      BY <1>1, <2>1, <2>2, <3>2, WalkRefuses
  <2>3. CASE UNCHANGED reason /\ UNCHANGED stop
    BY <1>3, <2>1, <2>3
  <2>4. CASE UNCHANGED reason /\ "entry" \in Permitted(goal) /\ stop' = [s \in {"entry"} |-> 1]
    <3>1. Armed' = {"entry"} /\ stop'["entry"] = 1
      BY <2>4 DEF Armed
    <3>2. Last(Armed') = "entry"
      BY <3>1 DEF Last
    <3>3. Place = <<"start", 0>> /\ Place' = <<"entry", 1>>
      BY <2>1, <3>1, <3>2 DEF Place
    <3>4. Len(Line(goal)) # 0
      <4>1. Upto(Line(goal), 0) = {}
        BY DEF Upto
      <4> QED
        BY <1>1, <2>4, <4>1, GoalLine
    <3>5. Walk!Following(Place) = {<<"entry", 1>>}
      BY <1>1, <3>3, <3>4, StartFollowing
    <3> QED
      BY <1>1, <2>1, <2>4, <3>3, <3>5, WalkAdvances
  <2> QED
    BY <1>6, <2>2, <2>3, <2>4 DEF Begin
<1>7. CASE Continue
  <2>1. \/ UNCHANGED reason \/ Finish("loader_event_limit") \/ Finish("loader_timeout")
        \/ Fault({"loader_continue_failed"})
    BY <1>7 DEF Continue
  <2>2. UNCHANGED reason \/ reason' \in OtherReasons
    BY <2>1, FinishesOther, FaultsOther DEF OtherReasons
  <2>3. Running /\ UNCHANGED stop
    BY <1>7 DEF Continue
  <2> QED
    BY <1>3, <2>2, <2>3
<1>8. CASE WaitEnds
  <2>1. Finish("loader_timeout") \/ Fault({"loader_wait_failed"})
    BY <1>8 DEF WaitEnds
  <2>2. reason' \in OtherReasons
    BY <2>1, FinishesOther, FaultsOther DEF OtherReasons
  <2>3. Running /\ UNCHANGED stop
    BY <1>8 DEF WaitEnds
  <2> QED
    BY <1>3, <2>2, <2>3
<1>9. CASE Tamper
  <2>1. UNCHANGED <<goal, stop, reason>>
    BY <1>9 DEF Tamper
  <2> QED
    BY <2>1, WalkStays
<1>10. CASE \E p \in Placements : LoadDll(p[1], p[2])
  <2>1. UNCHANGED reason \/ reason' \in OtherReasons
    BY <1>1, <1>10, LoadWays
  <2>2. Running /\ UNCHANGED stop
    BY <1>10 DEF LoadDll, Receive, Unmoved
  <2> QED
    BY <1>3, <2>1, <2>2
<1>11. CASE \E base \in Unloadable : UnloadDll(base)
  <2>1. UNCHANGED reason \/ reason' \in OtherReasons
    BY <1>1, <1>11, UnloadWays DEF Unloads
  <2>2. Running /\ UNCHANGED stop
    BY <1>11 DEF UnloadDll, Receive, Unmoved
  <2> QED
    BY <1>3, <2>1, <2>2
<1>12. CASE CreateThread
  <2>1. UNCHANGED reason \/ reason' \in OtherReasons
    BY <1>12 DEF CreateThread, Conclude, Finish, OtherReasons
  <2>2. Running /\ UNCHANGED stop
    BY <1>12 DEF CreateThread, Receive, Unmoved
  <2> QED
    BY <1>3, <2>1, <2>2
<1>13. CASE OtherEvent \/ ForeignEvent
  <2>1. Finish("loader_early_exit") \/ Fault({"loader_unexpected_event"}) \/ Fault({"loader_event_identity"})
    BY <1>13 DEF OtherEvent, ForeignEvent
  <2>2. reason' \in OtherReasons
    BY <2>1, FinishesOther, FaultsOther DEF OtherReasons
  <2>3. Running /\ UNCHANGED stop
    BY <1>13 DEF OtherEvent, ForeignEvent, Receive, Unmoved
  <2> QED
    BY <1>3, <2>2, <2>3
<1>14. ASSUME NEW trap \in Traps, Exception(trap) PROVE [Walk!Next]_(Walk!vars)
  <2>1. started /\ ~ pending /\ Running
    BY <1>14 DEF Exception, Receive
  <2>2. CASE InitialBreakpoint(trap)
    <3>1. UNCHANGED stop
      BY <2>2 DEF InitialBreakpoint
    <3>2. CASE breakpoint_candidate' /\ "entry" \in Permitted(goal)
      <4>1. \/ Fault({"entry_preinitialization_drift"}) \/ UNCHANGED reason
            \/ Finish("entry_breakpoint_lost_before_initialization")
        BY <2>2, <3>2 DEF InitialBreakpoint, Conclude
      <4>2. UNCHANGED reason \/ reason' \in OtherReasons \cup IdentityReasons
        BY <4>1, FinishIs, FaultsOther DEF OtherReasons, IdentityReasons
      <4>3. UNCHANGED reason \/ reason' \notin Verdicts
        BY <1>2, <4>2, VerdictsApart
      <4> QED
        BY <1>1, <2>1, <3>1, <4>3, WalkRefuses
    <3>3. CASE "entry" \notin Permitted(goal)
      <4>1. Len(Line(goal)) = 0 /\ Armed = {}
        <5>1. Len(Line(goal)) = 0
          BY <1>1, <3>3, FirstStop
        <5>2. PICK n \in 0 .. Len(Line(goal)) : Armed = Upto(Line(goal), n)
          BY <1>1 DEF OnTheLine, Placed
        <5> QED
          BY <5>1, <5>2 DEF Upto
      <4>2. Walk!Following(Place) = {}
        <5>1. Place = <<"start", 0>>
          BY <4>1 DEF Place
        <5> QED
          BY <1>1, <4>1, <5>1, StartFollowing
      <4>3. Walk!AtEnd
        BY <4>2 DEF Walk!AtEnd, Place
      <4> QED
        BY <1>1, <2>1, <3>1, <4>3, WalkEnds
    <3>4. CASE ~ breakpoint_candidate' /\ "entry" \in Permitted(goal)
      <4>1. Finish("loader_exception")
        BY <2>2, <3>4 DEF InitialBreakpoint
      <4>2. reason' \in OtherReasons
        BY <4>1 DEF Finish, OtherReasons
      <4> QED
        BY <1>3, <2>1, <3>1, <4>2
    <3> QED
      BY <3>2, <3>3, <3>4
  <2>3. CASE /\ Released /\ GuardVerdict(trap) # "none"
             /\ Finish(GuardVerdict(trap)) \/ Fault({"entry_context_read_failed"})
             /\ UNCHANGED <<stop, evidence, dr>>
    <3>1. GuardVerdict(trap) \in OtherReasons \cup IdentityReasons
      BY <2>3, GuardPlain
    <3>2. "entry_context_read_failed" \in OtherReasons
      BY DEF OtherReasons
    <3>3. reason' \in OtherReasons \cup IdentityReasons
      BY <2>3, <3>1, <3>2, FinishIs, FaultsOther
    <3>4. reason' \notin Verdicts
      BY <1>2, <3>3, VerdictsApart
    <3> QED
      BY <1>1, <2>1, <2>3, <3>4, WalkRefuses
  <2>4. ASSUME Released, NEW handle, Handle(HandlerStage, handle)
        PROVE  [Walk!Next]_(Walk!vars)
    <3>1. PICK n \in 1 .. Len(Line(goal)) :
            Armed = Upto(Line(goal), n) /\ HandlerStage = Line(goal)[n] /\ Last(Armed) = Line(goal)[n]
      BY <1>1, <2>1, <2>4, AtHandler
    <3> DEFINE L == Line(goal)[n]
    <3>2. L \in Armed /\ L \in Stages /\ stop[L] \in 1 .. Stops(L) /\ Stops(L) \in 1 .. 10
      BY <1>1, <3>1, AtPlace, GoalLine, StopsTyped DEF OnTheLine
    <3>3. Place = <<L, stop[L]>>
      BY <3>1, <3>2 DEF Place
    <3>4. Walk!Following(Place) =
            IF stop[L] # Stops(L) THEN {<<L, j>> : j \in NextStops(L, stop[L])}
            ELSE IF n = Len(Line(goal)) THEN {}
            ELSE {<<Line(goal)[n + 1], 1>>}
      BY <1>1, <3>2, <3>3, FollowingIs
    <3>5. \/ \E s \in Stages, k \in 1 .. 10 : GoesOn(n, handle, s, k)
          \/ /\ UNCHANGED stop
             /\ reason' \in Verdicts => n = Len(Line(goal)) /\ stop[L] = Stops(L)
      BY <1>1, <2>1, <2>4, <3>1, HandlerEnds
    <3>6. CASE UNCHANGED stop /\ reason' \notin Verdicts
      BY <1>1, <2>1, <3>6, WalkRefuses
    <3>7. CASE UNCHANGED stop /\ n = Len(Line(goal)) /\ stop[L] = Stops(L)
      <4>1. Walk!AtEnd
        BY <3>4, <3>7 DEF Walk!AtEnd, Place
      <4> QED
        BY <1>1, <2>1, <3>7, <4>1, WalkEnds
    <3>8. ASSUME NEW s \in Stages, NEW k \in 1 .. 10, GoesOn(n, handle, s, k)
          PROVE  [Walk!Next]_(Walk!vars)
      <4>1. ComesNext(n, s, k) /\ AwaitedIs(s, k) /\ UNCHANGED reason
        BY <3>8 DEF GoesOn, Armable
      <4>2. Armed' = Armed \cup {s} /\ stop'[s] = k /\ Last(Armed') = s
        BY <1>1, <3>1, <4>1, ArmedNext
      <4>3. Place' = <<s, k>>
        BY <4>2 DEF Place
      <4>4. <<s, k>> \in Walk!Following(Place)
        <5>1. CASE s = L /\ stop[L] # Stops(L) /\ k \in NextStops(L, stop[L])
          BY <3>4, <5>1
        <5>2. CASE n < Len(Line(goal)) /\ stop[L] = Stops(L) /\ s = Line(goal)[n + 1] /\ k = 1
          <6>1. n # Len(Line(goal))
            BY <5>2
          <6> QED
            BY <3>4, <5>2, <6>1
        <5> QED
          BY <4>1, <5>1, <5>2 DEF ComesNext
      <4> QED
        BY <1>1, <2>1, <4>1, <4>3, <4>4, WalkAdvances
    <3> QED
      BY <3>5, <3>6, <3>7, <3>8
  <2> QED
    BY <1>14, <2>2, <2>3, <2>4 DEF Exception
<1> QED
  BY <1>4, <1>5, <1>6, <1>7, <1>8, <1>9, <1>10, <1>11, <1>12, <1>13, <1>14
  DEF Next, Observer, Debuggee

\* The run implements the walk of its line (LineWalk): it visits the stops of
\* its goal one after the other, skips and repeats none, reports success only
\* at the last one, and gives one outcome. The walk's fairness is TLC's part.
THEOREM RunWalksItsLine == Spec => Walk!Init /\ [][Walk!Next]_(Walk!vars)
<1>1. Init => Walk!Init
  <2> SUFFICES ASSUME Init PROVE Walk!Init
    OBVIOUS
  <2>1. goal \in Goals /\ Running /\ Armed = {}
    BY LoaderAssumption DEF Init, Running, Armed
  <2> QED
    BY <2>1, SameLine DEF Walk!Init, Walk!Start
<1>2. ObservationInvariant /\ [Next]_vars => [Walk!Next]_(Walk!vars)
  BY WalkStep
<1> QED
  BY <1>1, <1>2, ObservationSafe, PTL DEF Spec
==============================================================================
