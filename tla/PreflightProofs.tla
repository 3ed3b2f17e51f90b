--------------------------- MODULE PreflightProofs ---------------------------
(***************************************************************************)
(* The two checks before a file is trusted, for every value of their       *)
(* constants.                                                              *)
(*                                                                         *)
(* The pins of a prepared loader policy are the files of its recipe, for   *)
(* every recipe, budget and interference of the other processes.  What is  *)
(* read is bounded by what was declared.  The declared bytes are carried   *)
(* as the sums of the recipe's lines: while the lines are checked they     *)
(* reach the line before the present one, and afterwards the bytes charged *)
(* for the opened files are one of them, so the present file still fits.   *)
(* A file that is open is not written, so what was compared stays.         *)
(*                                                                         *)
(* A file that the parser accepts and its mapping agree on what is         *)
(* compared, for every header, section table and list of anchors.  Whole   *)
(* pages of two sections are apart although the parser compares the        *)
(* unrounded extents, because sections begin on pages.  So one section     *)
(* maps an address, and it is the one whose bytes the parser looked up.    *)
(***************************************************************************)
EXTENDS MCPreflight, FiniteSetTheorems, SequenceTheorems, TLAPS

------------------------------------------------------------------------------
(* The loader policy                                                        *)


Specs == [origin : Origins, name : Names, bytes : Nat, content : Contents, valid : BOOLEAN]
Steps == {"input", "check", "open", "measure", "hash", "compare", "ready", "refused"}
Opening == {"open", "measure", "hash", "compare", "ready"}
OneOpen == {"measure", "hash", "compare"}

TypeOK ==
  /\ recipe \in Recipes /\ step \in Steps
  /\ index \in Nat \ {0} /\ total \in Nat /\ charged \in Nat /\ consumed \in Nat
  /\ held \in Seq(Paths) /\ DOMAIN disk = Paths

\* s is the sums of the first n of the lines, each within its bound and the last the largest.
Declares(lines, s, n) ==
  /\ s \in [Nat -> Nat] /\ s[0] = 0
  /\ \A i \in 1 .. n : /\ s[i] = s[i - 1] + lines[i].bytes
                       /\ lines[i].bytes \in 1 .. MaxBytes
                       /\ s[i] <= s[n]

\* The lines before the present one are declared within the budget.
CheckedSoFar ==
  step = "check" =>
    /\ index <= Len(recipe) + 1 /\ total <= Budget
    /\ \E s \in [Nat -> Nat] : Declares(recipe, s, index - 1) /\ total = s[index - 1]

\* All lines are declared, and those before the present one are charged.
ChargedSoFar ==
  step \in Opening =>
    /\ index <= Len(recipe) + 1
    /\ step \in OneOpen => index <= Len(recipe)
    /\ step = "ready" => index = Len(recipe) + 1
    /\ \E s \in [Nat -> Nat] :
         Declares(recipe, s, Len(recipe)) /\ s[Len(recipe)] <= Budget /\ charged = s[index - 1]

\* Only bytes of the files charged, and of the one that is open, were read.
ReadSoFar ==
  /\ step \in {"input", "check"} => charged = 0 /\ consumed = 0 /\ held = << >>
  /\ step = "input" => index = 1 /\ total = 0
  /\ step \in {"open", "measure", "hash", "ready"} => consumed <= charged
  /\ step = "compare" => consumed <= charged + result.bytes
  /\ consumed <= Budget

\* The files kept open are those of the lines before the present one, unchanged.
HeldSoFar ==
  step \in Opening =>
    /\ Len(held) = index - 1
    /\ \A i \in 1 .. index - 1 : held[i] = PathOf(recipe[i]) /\ Matches(recipe[i], disk[held[i]])

\* What was found of the open file is what it is.
FoundSoFar ==
  /\ step \in OneOpen => handle = PathOf(recipe[index])
  /\ step \in {"hash", "compare"} =>
       /\ result = [name |-> disk[handle].name, bytes |-> disk[handle].bytes,
                    content |-> IF step = "hash" THEN Nothing ELSE disk[handle].content]
       /\ result.bytes \in 1 .. MaxBytes /\ result.bytes <= Budget - charged

\* Only a refused policy has an error, and a refused file really differs.
RefusedForCause ==
  /\ step = "refused" <=> error # "none"
  /\ step # "refused" => refusal = Nothing
  /\ step = "refused" /\ refusal # Nothing =>
       refusal.system \/ refusal.file = Nothing \/ ~ Matches(recipe[index], refusal.file)

PolicyInvariant ==
  /\ TypeOK /\ CheckedSoFar /\ ChargedSoFar /\ ReadSoFar /\ HeldSoFar /\ FoundSoFar /\ RefusedForCause

-----------------------------------------------------------------------------
\* A recipe is a sequence of lines, each with the path of its file.
LEMMA RecipeLines ==
  ASSUME recipe \in Recipes
  PROVE  /\ Len(recipe) \in Nat /\ DOMAIN recipe = 1 .. Len(recipe)
         /\ Budget \in Nat /\ MaxBytes \in Nat
         /\ \A i \in 1 .. Len(recipe) : recipe[i] \in Specs /\ PathOf(recipe[i]) \in Paths
<1>1. recipe \in Seq(Specs) /\ Budget \in Nat /\ MaxBytes \in Nat
  BY PolicyAssumption DEF Specs
<1>2. \A i \in 1 .. Len(recipe) : recipe[i] \in Specs
  BY <1>1
<1>3. \A spec \in Specs : PathOf(spec) \in Paths
  BY DEF Specs, PathOf, Paths
<1> QED
  BY <1>1, <1>2, <1>3

\* Before the first line nothing is declared, charged or read.
LEMMA PolicyInitially == Init => PolicyInvariant
<1> SUFFICES ASSUME Init PROVE PolicyInvariant
  OBVIOUS
<1>1. Budget \in Nat
  BY PolicyAssumption
<1>2. TypeOK
  BY DEF Init, TypeOK, Steps
<1>3. CheckedSoFar /\ ChargedSoFar /\ HeldSoFar /\ FoundSoFar
  BY DEF Init, CheckedSoFar, ChargedSoFar, HeldSoFar, FoundSoFar, Opening, OneOpen
<1>4. ReadSoFar /\ RefusedForCause
  BY <1>1 DEF Init, ReadSoFar, RefusedForCause
<1> QED
  BY <1>2, <1>3, <1>4 DEF PolicyInvariant

\* The engine, the number of files and the directories are accepted, or nothing
\* of the recipe is looked at.
LEMMA InputKeeps == PolicyInvariant /\ Input => PolicyInvariant'
<1> SUFFICES ASSUME PolicyInvariant, Input PROVE PolicyInvariant'
  OBVIOUS
<1> USE DEF PolicyInvariant, Input, Refuse
<1>1. Len(recipe) \in Nat /\ Budget \in Nat
  BY RecipeLines DEF TypeOK
<1>2. step = "input" /\ index = 1 /\ total = 0 /\ error = "none" /\ refusal = Nothing
  BY DEF ReadSoFar, RefusedForCause
<1>3. TypeOK'
  BY DEF TypeOK, Steps
<1>4. CheckedSoFar'
  <2> DEFINE s == [i \in Nat |-> 0]
  <2>1. recipe' = recipe /\ index' = 1 /\ total' = 0
    BY <1>2
  <2>2. s \in [Nat -> Nat] /\ s[0] = 0
    OBVIOUS
  <2> HIDE DEF s
  <2>3. Declares(recipe, s, 0)
    BY <2>2 DEF Declares
  <2> QED
    BY <1>1, <2>1, <2>2, <2>3 DEF CheckedSoFar
<1>5. ChargedSoFar' /\ HeldSoFar' /\ FoundSoFar'
  BY <1>2 DEF ChargedSoFar, HeldSoFar, FoundSoFar, Opening, OneOpen
<1>6. ReadSoFar' /\ RefusedForCause'
  BY <1>2 DEF ReadSoFar, RefusedForCause
<1> QED
  BY <1>3, <1>4, <1>5, <1>6

\* A line is refused, or is declared with the ones before it.
LEMMA CheckKeeps == PolicyInvariant /\ Check => PolicyInvariant'
<1> SUFFICES ASSUME PolicyInvariant, Check PROVE PolicyInvariant'
  OBVIOUS
<1> DEFINE spec == recipe[index]
<1>1. /\ Len(recipe) \in Nat /\ Budget \in Nat /\ MaxBytes \in Nat /\ index \in 1 .. Len(recipe)
      /\ total \in Nat
      /\ spec.bytes \in Nat
  BY RecipeLines DEF PolicyInvariant, TypeOK, Check, Specs
<1>2. step = "check" /\ error = "none" /\ refusal = Nothing /\ charged = 0 /\ consumed = 0
  BY DEF PolicyInvariant, Check, ReadSoFar, RefusedForCause
<1>3. /\ UNCHANGED <<recipe, charged, consumed, disk, handle, result, held, refusal>>
      /\ \/ step' = "refused" /\ error' # "none" /\ index' = index /\ total' \in {total, total + spec.bytes}
         \/ /\ step' = "check" /\ error' = "none" /\ index' = index + 1 /\ total' = total + spec.bytes
            /\ spec.bytes \in 1 .. MaxBytes /\ total' <= Budget
  <2> HIDE DEF spec
  <2>1. \/ step' = "refused" /\ error' # "none" /\ index' = index /\ total' \in {total, total + spec.bytes}
        \/ /\ step' = "check" /\ error' = "none" /\ index' = index + 1 /\ total' = total + spec.bytes
           /\ ~ (spec.bytes = 0 \/ spec.bytes > MaxBytes) /\ ~ (total + spec.bytes > Budget)
    BY <1>2 DEF Check, Refuse, OverBudget, spec
  <2> QED
    BY <1>1, <2>1 DEF Check
<1> HIDE DEF spec
<1>4. TypeOK'
  BY <1>1, <1>3 DEF PolicyInvariant, TypeOK, Steps
<1>5. CheckedSoFar'
  <2> SUFFICES ASSUME step' = "check" PROVE CheckedSoFar'
    BY DEF CheckedSoFar
  <2>1. PICK s \in [Nat -> Nat] : Declares(recipe, s, index - 1) /\ total = s[index - 1]
    BY <1>2 DEF PolicyInvariant, CheckedSoFar
  <2> DEFINE more == s[index - 1] + spec.bytes
             t == [i \in Nat |-> IF i = index THEN more ELSE s[i]]
  <2>2. index \in Nat \ {0} /\ index - 1 \in Nat /\ s[index - 1] \in Nat
    <3>1. index \in Nat \ {0}
      BY <1>1
    <3>2. index - 1 \in Nat
      BY <3>1
    <3> QED
      BY <3>1, <3>2
  <2>3. spec.bytes \in Nat
    BY <1>1
  <2>4. more \in Nat
    BY <2>2, <2>3
  <2> HIDE DEF more
  <2>5. t \in [Nat -> Nat] /\ t[index] = more /\ \A i \in Nat : i # index => t[i] = s[i]
    BY <2>2, <2>4
  <2> HIDE DEF t
  <2>6. more = s[index - 1] + spec.bytes
    BY DEF more
  <2>7. /\ index' = index + 1 /\ total' = total + spec.bytes /\ spec.bytes \in 1 .. MaxBytes
        /\ total' <= Budget /\ recipe' = recipe
    BY <1>3
  <2>8. ASSUME NEW i \in 1 .. index
        PROVE  /\ t[i] = t[i - 1] + recipe[i].bytes
               /\ recipe[i].bytes \in 1 .. MaxBytes
               /\ t[i] <= t[index]
    <3>1. CASE i = index
      <4>1. i - 1 \in Nat /\ i - 1 # index
        BY <1>1, <3>1
      <4> QED
        BY <1>1, <2>2, <2>5, <2>7, <2>6, <3>1, <4>1 DEF spec
    <3>2. CASE i # index
      <4>1. i \in 1 .. index - 1 /\ i \in Nat /\ i - 1 \in Nat /\ i - 1 # index
        BY <1>1, <3>2
      <4>2. s[i] = s[i - 1] + recipe[i].bytes /\ recipe[i].bytes \in 1 .. MaxBytes /\ s[i] <= s[index - 1]
        BY <2>1, <4>1 DEF Declares
      <4>3. s[i] \in Nat
        BY <2>2, <4>1
      <4>4. t[i] = s[i] /\ t[i - 1] = s[i - 1]
        BY <2>5, <3>2, <4>1
      <4>5. s[index - 1] <= more
        BY <2>2, <2>6, <2>3
      <4> QED
        BY <2>2, <2>5, <2>4, <4>2, <4>3, <4>4, <4>5
    <3> QED
      BY <3>1, <3>2
  <2>9. t[0] = 0
    BY <1>1, <2>1, <2>5 DEF Declares
  <2>10. Declares(recipe, t, index)
    BY <2>5, <2>8, <2>9 DEF Declares
  <2>11. index' - 1 = index
    BY <1>1, <2>7
  <2>12. index' <= Len(recipe') + 1 /\ total' = t[index' - 1]
    BY <1>1, <2>1, <2>5, <2>7, <2>11, <2>6
  <2>13. Declares(recipe', t, index' - 1)
    BY <2>7, <2>10, <2>11
  <2> QED
    BY <2>5, <2>7, <2>12, <2>13 DEF CheckedSoFar
<1>6. ChargedSoFar' /\ HeldSoFar' /\ FoundSoFar'
  BY <1>3 DEF ChargedSoFar, HeldSoFar, FoundSoFar, Opening, OneOpen
<1>7. ReadSoFar' /\ RefusedForCause'
  BY <1>1, <1>2, <1>3 DEF PolicyInvariant, ReadSoFar, RefusedForCause
<1> QED
  BY <1>4, <1>5, <1>6, <1>7 DEF PolicyInvariant

\* Once all lines are declared their sum is within the budget, and nothing is charged.
LEMMA CheckedKeeps == PolicyInvariant /\ Checked => PolicyInvariant'
<1> SUFFICES ASSUME PolicyInvariant, Checked PROVE PolicyInvariant'
  OBVIOUS
<1>1. Len(recipe) \in Nat
  BY RecipeLines DEF PolicyInvariant, TypeOK
<1>2. step = "check" /\ error = "none" /\ refusal = Nothing /\ charged = 0 /\ consumed = 0 /\ held = << >>
      /\ index \in Nat
  BY DEF PolicyInvariant, Checked, ReadSoFar, RefusedForCause, TypeOK
<1>3. /\ step' = "open" /\ index' = 1
      /\ UNCHANGED <<recipe, total, charged, consumed, disk, handle, result, held, refusal, error>>
  BY DEF Checked
<1>4. TypeOK' /\ CheckedSoFar' /\ HeldSoFar' /\ FoundSoFar'
  BY <1>2, <1>3 DEF PolicyInvariant, TypeOK, Steps, CheckedSoFar, HeldSoFar, FoundSoFar, OneOpen
<1>5. ChargedSoFar'
  <2>1. PICK s \in [Nat -> Nat] :
          index <= Len(recipe) + 1 /\ total <= Budget /\ Declares(recipe, s, index - 1)
          /\ total = s[index - 1]
    BY <1>2 DEF PolicyInvariant, CheckedSoFar
  <2>2. index - 1 = Len(recipe)
    BY <1>1, <1>2, <2>1 DEF Checked
  <2>3. s[0] = 0
    BY <2>1 DEF Declares
  <2>4. Declares(recipe', s, Len(recipe')) /\ s[Len(recipe')] <= Budget /\ charged' = s[index' - 1]
    BY <1>2, <1>3, <2>1, <2>2, <2>3
  <2> QED
    <3>1. index' <= Len(recipe') + 1
      BY <1>1, <1>3
    <3>2. step' \notin OneOpen /\ step' # "ready"
      BY <1>3 DEF OneOpen
    <3> QED
      BY <2>4, <3>1, <3>2 DEF ChargedSoFar
<1>6. ReadSoFar' /\ RefusedForCause'
  BY <1>2, <1>3 DEF PolicyInvariant, ReadSoFar, RefusedForCause
<1> QED
  BY <1>4, <1>5, <1>6 DEF PolicyInvariant

\* What a step of the opening finds: the present line's file still fits in the budget.
LEMMA PresentFits ==
  ASSUME PolicyInvariant, step \in Opening, index <= Len(recipe)
  PROVE  /\ index \in 1 .. Len(recipe)
         /\ recipe[index].bytes \in 1 .. MaxBytes
         /\ charged + recipe[index].bytes <= Budget
<1>1. Len(recipe) \in Nat /\ Budget \in Nat /\ MaxBytes \in Nat /\ index \in 1 .. Len(recipe)
  BY RecipeLines DEF PolicyInvariant, TypeOK
<1>2. PICK s \in [Nat -> Nat] :
        Declares(recipe, s, Len(recipe)) /\ s[Len(recipe)] <= Budget /\ charged = s[index - 1]
  BY DEF PolicyInvariant, ChargedSoFar
<1>3. s[index] = s[index - 1] + recipe[index].bytes /\ recipe[index].bytes \in 1 .. MaxBytes
      /\ s[index] <= s[Len(recipe)]
  BY <1>1, <1>2 DEF Declares
<1>4. s[index] \in Nat /\ s[Len(recipe)] \in Nat
  BY <1>1
<1> QED
  BY <1>1, <1>2, <1>3, <1>4

\* A policy that is refused while it opens files has read within the budget, and
\* the file it names is not the one of the recipe or the system failed.
LEMMA RefusalKeeps ==
  ASSUME PolicyInvariant, step \in Opening, step' = "refused", error' # "none",
         consumed' \in Nat, consumed' <= Budget, charged' \in Nat,
         UNCHANGED <<recipe, index, total, disk, held>>,
         refusal' # Nothing =>
           refusal'.system \/ refusal'.file = Nothing \/ ~ Matches(recipe[index], refusal'.file)
  PROVE  PolicyInvariant'
<1>1. TypeOK'
  BY DEF PolicyInvariant, TypeOK, Steps
<1>2. CheckedSoFar' /\ ChargedSoFar' /\ HeldSoFar' /\ FoundSoFar'
  BY DEF CheckedSoFar, ChargedSoFar, HeldSoFar, FoundSoFar, Opening, OneOpen
<1>3. ReadSoFar' /\ RefusedForCause'
  BY DEF ReadSoFar, RefusedForCause
<1> QED
  BY <1>1, <1>2, <1>3 DEF PolicyInvariant

\* The file of the line is opened, or it is missing, or the system failed.
LEMMA OpenKeeps == PolicyInvariant /\ Open => PolicyInvariant'
<1> SUFFICES ASSUME PolicyInvariant, Open PROVE PolicyInvariant'
  OBVIOUS
<1> DEFINE p == PathOf(recipe[index])
<1>1. /\ step = "open" /\ index <= Len(recipe) /\ consumed <= charged /\ consumed <= Budget
      /\ consumed \in Nat /\ charged \in Nat /\ error = "none" /\ refusal = Nothing
  BY DEF PolicyInvariant, Open, ReadSoFar, TypeOK, RefusedForCause
<1>2. UNCHANGED <<recipe, index, total, charged, consumed, disk, held>>
  BY DEF Open
<1>3. CASE handle' = p /\ step' = "measure" /\ UNCHANGED <<result, refusal, error>>
  <2>1. TypeOK' /\ CheckedSoFar' /\ ReadSoFar' /\ RefusedForCause'
    BY <1>1, <1>2, <1>3 DEF PolicyInvariant, TypeOK, Steps, CheckedSoFar, ReadSoFar, RefusedForCause
  <2>2. ChargedSoFar'
    BY <1>1, <1>2, <1>3 DEF PolicyInvariant, ChargedSoFar, Opening, OneOpen
  <2>3. HeldSoFar'
    BY <1>1, <1>2, <1>3 DEF PolicyInvariant, HeldSoFar, Opening
  <2>4. FoundSoFar'
    BY <1>2, <1>3 DEF FoundSoFar
  <2> QED
    BY <2>1, <2>2, <2>3, <2>4 DEF PolicyInvariant
<1>4. CASE Unavailable(disk[p], disk[p] # Nothing)
  <2>1. /\ step' = "refused" /\ error' # "none"
        /\ refusal'.system \/ refusal'.file = Nothing
    BY <1>4 DEF Unavailable, Refuse
  <2> QED
    BY <1>1, <1>2, <2>1, RefusalKeeps DEF Opening
<1> QED
  BY <1>3, <1>4 DEF Open

\* A file of the size the recipe gives fits, so one that does not fit differs.
LEMMA MeasureKeeps == PolicyInvariant /\ Measure => PolicyInvariant'
<1> SUFFICES ASSUME PolicyInvariant, Measure PROVE PolicyInvariant'
  OBVIOUS
<1> DEFINE file == disk[handle]
<1>1. /\ step = "measure" /\ consumed <= charged /\ consumed <= Budget
      /\ consumed \in Nat /\ charged \in Nat /\ error = "none" /\ refusal = Nothing
  BY DEF PolicyInvariant, Measure, ReadSoFar, TypeOK, RefusedForCause
<1>2. UNCHANGED <<recipe, index, total, charged, consumed, disk, held>>
  BY DEF Measure
<1>3. index <= Len(recipe) /\ handle = PathOf(recipe[index])
  BY <1>1 DEF PolicyInvariant, ChargedSoFar, FoundSoFar, Opening, OneOpen
<1>4. CASE /\ file.bytes \in 1 .. MaxBytes /\ file.bytes <= Budget - charged
           /\ result' = [name |-> file.name, bytes |-> file.bytes, content |-> Nothing]
           /\ step' = "hash" /\ UNCHANGED <<handle, refusal, error>>
  <2>1. TypeOK' /\ CheckedSoFar' /\ ReadSoFar' /\ RefusedForCause'
    BY <1>1, <1>2, <1>4 DEF PolicyInvariant, TypeOK, Steps, CheckedSoFar, ReadSoFar, RefusedForCause
  <2>2. ChargedSoFar'
    BY <1>1, <1>2, <1>3, <1>4 DEF PolicyInvariant, ChargedSoFar, Opening, OneOpen
  <2>3. HeldSoFar'
    BY <1>1, <1>2, <1>4 DEF PolicyInvariant, HeldSoFar, Opening
  <2>4. FoundSoFar'
    BY <1>2, <1>3, <1>4 DEF FoundSoFar
  <2> QED
    BY <2>1, <2>2, <2>3, <2>4 DEF PolicyInvariant
<1>5. CASE ~ (file.bytes \in 1 .. MaxBytes /\ file.bytes <= Budget - charged) /\ Unavailable(file, FALSE)
  <2>1. recipe[index].bytes \in 1 .. MaxBytes /\ charged + recipe[index].bytes <= Budget
    BY <1>1, <1>3, PresentFits DEF Opening
  <2>2. recipe[index].bytes <= Budget - charged
    BY <1>1, <2>1, PolicyAssumption
  <2>3. ~ Matches(recipe[index], file)
    BY <1>5, <2>1, <2>2 DEF Matches
  <2>4. step' = "refused" /\ error' # "none" /\ refusal'.file = file
    BY <1>5 DEF Unavailable, Refuse
  <2> QED
    BY <1>1, <1>2, <2>3, <2>4, RefusalKeeps DEF Opening
<1> QED
  BY <1>4, <1>5 DEF Measure

\* The file that is hashed is still the one that was measured: it is not written
\* while it is open, so it is not shorter either.
LEMMA HashKeeps == PolicyInvariant /\ Hash => PolicyInvariant'
<1> SUFFICES ASSUME PolicyInvariant, Hash PROVE PolicyInvariant'
  OBVIOUS
<1> DEFINE file == disk[handle]
<1>1. /\ step = "hash" /\ consumed <= charged /\ consumed <= Budget
      /\ consumed \in Nat /\ charged \in Nat /\ error = "none" /\ refusal = Nothing
      /\ Budget \in Nat /\ MaxBytes \in Nat
  BY PolicyAssumption DEF PolicyInvariant, Hash, ReadSoFar, TypeOK, RefusedForCause
<1>2. UNCHANGED <<recipe, index, total, charged, disk, held>>
  BY DEF Hash
<1>3. /\ index <= Len(recipe) /\ handle = PathOf(recipe[index])
      /\ result = [name |-> file.name, bytes |-> file.bytes, content |-> Nothing]
      /\ result.bytes \in 1 .. MaxBytes /\ result.bytes <= Budget - charged
  BY <1>1 DEF PolicyInvariant, ChargedSoFar, FoundSoFar, Opening, OneOpen
<1>4. result.bytes = file.bytes /\ result.bytes \in Nat
  BY <1>1, <1>3
<1>5. CASE /\ result' = [result EXCEPT !.content = file.content]
           /\ consumed' = consumed + result.bytes
           /\ step' = "compare" /\ UNCHANGED <<handle, refusal, error>>
  <2>1. result' = [name |-> file.name, bytes |-> file.bytes, content |-> file.content]
    BY <1>3, <1>5
  <2>2. result'.bytes = result.bytes
    BY <1>4, <2>1
  <2>3. consumed' \in Nat /\ consumed' <= charged + result.bytes /\ consumed' <= Budget
    BY <1>1, <1>3, <1>4, <1>5
  <2>4. TypeOK' /\ CheckedSoFar' /\ ReadSoFar' /\ RefusedForCause'
    BY <1>1, <1>2, <1>5, <2>2, <2>3
       DEF PolicyInvariant, TypeOK, Steps, CheckedSoFar, ReadSoFar, RefusedForCause
  <2>5. ChargedSoFar'
    BY <1>1, <1>2, <1>3, <1>5 DEF PolicyInvariant, ChargedSoFar, Opening, OneOpen
  <2>6. HeldSoFar'
    BY <1>1, <1>2, <1>5 DEF PolicyInvariant, HeldSoFar, Opening
  <2>7. FoundSoFar'
    BY <1>2, <1>3, <1>5, <2>1, <2>2 DEF FoundSoFar
  <2> QED
    BY <2>4, <2>5, <2>6, <2>7 DEF PolicyInvariant
<1>6. CASE /\ \E n \in 0 .. result.bytes : consumed' = consumed + n
           /\ Unavailable(file, file.bytes >= result.bytes)
  <2>1. consumed' \in Nat /\ consumed' <= Budget
    BY <1>1, <1>3, <1>4, <1>6
  <2>2. file.bytes >= result.bytes
    BY <1>4
  <2>3. step' = "refused" /\ error' # "none" /\ refusal' = [file |-> file, system |-> TRUE]
    BY <1>6, <2>2 DEF Unavailable, Refuse
  <2>4. refusal'.system
    BY <2>3
  <2> QED
    BY <1>1, <1>2, <2>1, <2>3, <2>4, RefusalKeeps DEF Opening
<1> QED
  BY <1>5, <1>6 DEF Hash

\* The file is kept and charged, or it is not the one of the recipe.
LEMMA CompareKeeps == PolicyInvariant /\ Compare => PolicyInvariant'
<1> SUFFICES ASSUME PolicyInvariant, Compare PROVE PolicyInvariant'
  OBVIOUS
<1> DEFINE file == disk[handle]
           spec == recipe[index]
<1>1. /\ step = "compare" /\ consumed <= charged + result.bytes /\ consumed <= Budget
      /\ consumed \in Nat /\ charged \in Nat /\ error = "none" /\ refusal = Nothing
      /\ Budget \in Nat /\ MaxBytes \in Nat
  BY PolicyAssumption DEF PolicyInvariant, Compare, ReadSoFar, TypeOK, RefusedForCause
<1>2. UNCHANGED <<recipe, total, consumed, disk>> /\ charged' = charged + result.bytes
  BY DEF Compare
<1>3. /\ index <= Len(recipe) /\ handle = PathOf(spec)
      /\ result = [name |-> file.name, bytes |-> file.bytes, content |-> file.content]
      /\ result.bytes \in Nat
      /\ Len(held) = index - 1 /\ held \in Seq(Paths)
      /\ \A i \in 1 .. index - 1 : held[i] = PathOf(recipe[i]) /\ Matches(recipe[i], disk[held[i]])
  BY <1>1 DEF PolicyInvariant, TypeOK, ChargedSoFar, FoundSoFar, HeldSoFar, Opening, OneOpen
<1>4. /\ Len(recipe) \in Nat /\ index \in 1 .. Len(recipe) /\ handle \in Paths
  BY <1>3, RecipeLines DEF PolicyInvariant, TypeOK
<1>5. CASE /\ Matches(spec, result)
           /\ held' = Append(held, handle) /\ index' = index + 1 /\ step' = "open"
           /\ UNCHANGED <<refusal, error>>
  <2>1. result.bytes = spec.bytes /\ Matches(spec, file)
    BY <1>3, <1>5 DEF Matches
  <2>2. TypeOK'
    BY <1>1, <1>2, <1>3, <1>4, <1>5 DEF PolicyInvariant, TypeOK, Steps
  <2>3. ChargedSoFar'
    <3>1. PICK s \in [Nat -> Nat] :
            Declares(recipe, s, Len(recipe)) /\ s[Len(recipe)] <= Budget /\ charged = s[index - 1]
      BY <1>1 DEF PolicyInvariant, ChargedSoFar, Opening
    <3>2. s[index] = s[index - 1] + recipe[index].bytes
      BY <1>4, <3>1 DEF Declares
    <3>3. index' - 1 = index /\ index' <= Len(recipe) + 1
      BY <1>4, <1>5
    <3>4. charged' = s[index' - 1]
      BY <1>2, <2>1, <3>1, <3>2, <3>3
    <3> QED
      BY <1>2, <1>5, <3>1, <3>3, <3>4 DEF ChargedSoFar, OneOpen
  <2>4. HeldSoFar'
    <3>1. Len(held') = index /\ held'[index] = handle
          /\ \A i \in 1 .. index - 1 : held'[i] = held[i]
      BY <1>3, <1>4, <1>5
    <3>2. index' - 1 = index
      BY <1>4, <1>5
    <3>3. \A i \in 1 .. index : held'[i] = PathOf(recipe[i]) /\ Matches(recipe[i], disk[held'[i]])
      <4>1. \A i \in 1 .. index : i = index \/ i \in 1 .. index - 1
        BY <1>4
      <4> QED
        BY <1>3, <2>1, <3>1, <4>1
    <3> QED
      BY <1>2, <3>1, <3>2, <3>3 DEF HeldSoFar
  <2>5. ReadSoFar'
    <3>1. charged' = charged + result.bytes /\ consumed' = consumed /\ step' = "open"
      BY <1>2, <1>5
    <3> QED
      BY <1>1, <3>1 DEF ReadSoFar
  <2>6. CheckedSoFar' /\ FoundSoFar' /\ RefusedForCause'
    BY <1>1, <1>5 DEF CheckedSoFar, FoundSoFar, RefusedForCause, OneOpen
  <2> QED
    BY <2>2, <2>3, <2>4, <2>5, <2>6 DEF PolicyInvariant
<1>6. CASE /\ ~ Matches(spec, result) /\ Refuse("loader_policy_file_mismatch")
           /\ refusal' = [file |-> result, system |-> FALSE] /\ UNCHANGED <<held, index>>
  <2>1. refusal'.file = result /\ step' = "refused" /\ error' # "none"
    BY <1>6 DEF Refuse
  <2>2. charged' \in Nat
    BY <1>1, <1>2, <1>3
  <2> QED
    BY <1>1, <1>2, <1>6, <2>1, <2>2, RefusalKeeps DEF Opening
<1> QED
  BY <1>5, <1>6 DEF Compare

\* All files were kept.
LEMMA ReadyKeeps == PolicyInvariant /\ Ready => PolicyInvariant'
<1> SUFFICES ASSUME PolicyInvariant, Ready PROVE PolicyInvariant'
  OBVIOUS
<1>1. /\ step = "open" /\ step' = "ready" /\ index > Len(recipe)
      /\ UNCHANGED <<recipe, index, total, charged, consumed, disk, handle, result, held, refusal, error>>
  BY DEF Ready
<1>2. Len(recipe) \in Nat /\ index \in Nat /\ index <= Len(recipe) + 1
  BY <1>1, RecipeLines DEF PolicyInvariant, TypeOK, ChargedSoFar, Opening
<1>3. index = Len(recipe) + 1
  BY <1>1, <1>2
<1>4. TypeOK' /\ CheckedSoFar' /\ ReadSoFar' /\ RefusedForCause'
  BY <1>1 DEF PolicyInvariant, TypeOK, Steps, CheckedSoFar, ReadSoFar, RefusedForCause
<1>5. ChargedSoFar'
  BY <1>1, <1>2, <1>3 DEF PolicyInvariant, ChargedSoFar, Opening, OneOpen
<1>6. HeldSoFar' /\ FoundSoFar'
  BY <1>1 DEF PolicyInvariant, HeldSoFar, FoundSoFar, Opening, OneOpen
<1> QED
  BY <1>4, <1>5, <1>6 DEF PolicyInvariant

\* Other processes write what is not open, so neither a file that is kept nor the
\* one that is being measured, hashed or compared.
LEMMA OthersKeep == PolicyInvariant /\ Others => PolicyInvariant'
<1> SUFFICES ASSUME PolicyInvariant, Others PROVE PolicyInvariant'
  OBVIOUS
<1>1. /\ step \in Opening
      /\ UNCHANGED <<recipe, step, index, total, charged, consumed, handle, result, held, refusal, error>>
  BY DEF Others, Opening
<1>2. PICK i \in DOMAIN recipe, f \in Files \cup {Nothing} :
        Shared(PathOf(recipe[i])) /\ disk' = [disk EXCEPT ![PathOf(recipe[i])] = f]
  BY DEF Others
<1> DEFINE p == PathOf(recipe[i])
<1>3. /\ p # handle
      /\ \A j \in 1 .. Len(held) : held[j] # p
      /\ held \in Seq(Paths)
  BY <1>2 DEF Shared, Opened, PolicyInvariant, TypeOK
<1>4. DOMAIN disk' = DOMAIN disk /\ disk'[handle] = disk[handle]
      /\ \A j \in 1 .. Len(held) : disk'[held[j]] = disk[held[j]]
  BY <1>2, <1>3
<1>5. TypeOK' /\ CheckedSoFar' /\ ReadSoFar' /\ RefusedForCause'
  BY <1>1, <1>4 DEF PolicyInvariant, TypeOK, CheckedSoFar, ReadSoFar, RefusedForCause
<1>6. ChargedSoFar'
  BY <1>1 DEF PolicyInvariant, ChargedSoFar
<1>7. HeldSoFar'
  BY <1>1, <1>4 DEF PolicyInvariant, HeldSoFar
<1>8. FoundSoFar'
  BY <1>1, <1>4 DEF PolicyInvariant, FoundSoFar
<1> QED
  BY <1>5, <1>6, <1>7, <1>8 DEF PolicyInvariant

\* The invariant is kept by the preparation, by the other processes and by a stutter.
LEMMA PolicyKept == PolicyInvariant /\ [Next]_vars => PolicyInvariant'
<1> SUFFICES ASSUME PolicyInvariant, [Next]_vars PROVE PolicyInvariant'
  OBVIOUS
<1>1. CASE Prepare
  BY <1>1, InputKeeps, CheckKeeps, CheckedKeeps, OpenKeeps, MeasureKeeps, HashKeeps, CompareKeeps, ReadyKeeps
     DEF Prepare
<1>2. CASE Others
  BY <1>2, OthersKeep
<1>3. CASE UNCHANGED vars
  BY <1>3 DEF vars, PolicyInvariant, TypeOK, CheckedSoFar, ChargedSoFar, ReadSoFar, HeldSoFar,
              FoundSoFar, RefusedForCause
<1> QED
  BY <1>1, <1>2, <1>3 DEF Next

\* PreparedLoaderPolicy::prepare and pins(): a finished policy pins exactly the
\* files of its recipe, each still the one that was hashed whatever the other
\* processes did; it never reads more than the budget; it refuses a file only
\* for a difference or a failure of the system, and gives out no pin then.
THEOREM PolicyPinsItsRecipe == Spec => []PinsAreRecipe
<1>1. PolicyInvariant => PinsAreRecipe
  <2> SUFFICES ASSUME PolicyInvariant PROVE PinsAreRecipe
    OBVIOUS
  <2>1. /\ Len(recipe) \in Nat /\ DOMAIN recipe = 1 .. Len(recipe)
    BY RecipeLines DEF PolicyInvariant, TypeOK
  <2>2. ASSUME step = "ready"
        PROVE  /\ Len(pins) = Len(recipe)
               /\ \A i \in DOMAIN recipe : pins[i] = PathOf(recipe[i]) /\ Matches(recipe[i], disk[pins[i]])
    <3>1. pins = held
      BY <2>2 DEF PolicyInvariant, RefusedForCause, pins
    <3>2. index - 1 = Len(recipe)
      BY <2>1, <2>2 DEF PolicyInvariant, ChargedSoFar, Opening
    <3> QED
      BY <2>1, <2>2, <3>1, <3>2 DEF PolicyInvariant, HeldSoFar, Opening
  <2>3. step = "refused" => pins = << >>
    BY DEF PolicyInvariant, RefusedForCause, pins
  <2> QED
    BY <2>2, <2>3 DEF PolicyInvariant, PinsAreRecipe, ReadSoFar, RefusedForCause
<1> QED
  BY <1>1, PolicyInitially, PolicyKept, PTL DEF Spec

------------------------------------------------------------------------------
(* Rounding to whole pages                                                  *)

\* One multiple more is at least the step away.
LEMMA NextMultiple ==
  ASSUME NEW a \in Nat \ {0}, NEW k \in Int, NEW q \in Int, k < q
  PROVE  k * a + a <= q * a
<1>1. PICK d \in Nat : q = k + 1 + d
  <2>1. q - (k + 1) \in Nat /\ q = k + 1 + (q - (k + 1))
    OBVIOUS
  <2> QED
    BY <2>1
<1>2. d * a \in Nat
  OBVIOUS
<1>3. q * a = k * a + a + d * a
  BY <1>1
<1> QED
  BY <1>1, <1>2, <1>3

\* Of two multiples the larger has the larger factor.
LEMMA FactorsGrow ==
  ASSUME NEW a \in Nat \ {0}, NEW k \in Int, NEW q \in Int, k * a < q * a
  PROVE  k < q
<1>1. CASE k = q
  BY <1>1
<1>2. CASE q < k
  BY <1>2, NextMultiple
<1> QED
  BY <1>1, <1>2

\* A number without a remainder is a multiple.
LEMMA WholeMultiple ==
  ASSUME NEW a \in Nat \ {0}, NEW x \in Int, x % a = 0
  PROVE  \E k \in Int : x = k * a
<1>1. x \div a \in Int /\ (x \div a) * a = x
  OBVIOUS
<1> QED
  BY <1>1

\* What the division by a page rounds off is less than a page.
LEMMA Quotient ==
  ASSUME NEW a \in Nat \ {0}, NEW x \in Int
  PROVE  x \div a \in Int /\ (x \div a) * a <= x /\ x < (x \div a) * a + a
  OBVIOUS

\* A multiple has no remainder.
LEMMA MultiplesAligned ==
  ASSUME NEW a \in Nat \ {0}, NEW k \in Int
  PROVE  (k * a) % a = 0
<1> DEFINE x == k * a
           q == x \div a
           r == x % a
<1>1. x \in Int
  OBVIOUS
<1>2. r \in Int /\ q \in Int /\ x = q * a + r /\ 0 <= r /\ r < a
  BY <1>1
<1> HIDE DEF q, r
<1>3. ~ (k < q)
  <2> SUFFICES ASSUME k < q PROVE FALSE
    OBVIOUS
  <2>1. x + a <= q * a
    BY NextMultiple, <1>2
  <2> QED
    BY <1>1, <1>2, <2>1
<1>4. ~ (q < k)
  <2> SUFFICES ASSUME q < k PROVE FALSE
    OBVIOUS
  <2>1. q * a + a <= x
    BY NextMultiple, <1>2
  <2> QED
    BY <1>1, <1>2, <2>1
<1>5. q = k
  BY <1>2, <1>3, <1>4
<1>6. q * a = x
  BY <1>5
<1> HIDE DEF x
<1>7. r = 0
  BY <1>1, <1>2, <1>6
<1> QED
  BY <1>7 DEF r, x

\* A place where a page begins.
Aligned(x) == x % header.section_alignment = 0

\* Rounding up gives the least multiple of a page that is not below.
LEMMA LeastMultiple ==
  ASSUME header.section_alignment \in Nat \ {0}, NEW n \in Nat
  PROVE  /\ Image!RoundUp(n) \in Nat /\ n <= Image!RoundUp(n)
         /\ \A k \in Int : n <= k * header.section_alignment => Image!RoundUp(n) <= k * header.section_alignment
<1> DEFINE a == header.section_alignment
           q == (n + a - 1) \div a
<1> HIDE DEF a
<1>1. a \in Nat \ {0} /\ n + a - 1 \in Int
  BY DEF a
<1>2. q \in Int /\ q * a <= n + a - 1 /\ n + a - 1 < q * a + a
  BY <1>1, Quotient
<1>3. Image!RoundUp(n) = q * a
  BY DEF Image!RoundUp, a
<1> HIDE DEF q
<1>4. q * a \in Int
  BY <1>1, <1>2
<1> DEFINE m == q * a
<1> HIDE DEF m
<1>5. n <= m /\ m \in Nat
  BY <1>1, <1>2, <1>4 DEF m
<1>6. ASSUME NEW k \in Int, n <= k * a
      PROVE  m <= k * a
  <2> SUFFICES ASSUME k * a < m PROVE FALSE
    BY <1>1, <1>5, <1>6
  <2>1. k < q
    BY <1>1, <1>2, FactorsGrow DEF m
  <2>2. k * a + a <= m
    BY <1>1, <1>2, <2>1, NextMultiple DEF m
  <2>3. m <= n + a - 1
    BY <1>2 DEF m
  <2> DEFINE p == k * a
  <2>4. p \in Int /\ n <= p /\ p + a <= n + a - 1
    BY <1>1, <1>5, <1>6, <2>2, <2>3
  <2> HIDE DEF p
  <2> QED
    BY <1>1, <2>4
<1> QED
  BY <1>2, <1>3, <1>5, <1>6 DEF m, a

\* A page that begins at or behind n begins at or behind n rounded up.
LEMMA RoundedBelow ==
  ASSUME header.section_alignment \in Nat \ {0},
         NEW x \in Nat, Aligned(x), NEW n \in Nat, n <= x
  PROVE  Image!RoundUp(n) <= x
<1> DEFINE a == header.section_alignment
<1>1. a \in Nat \ {0} /\ x % a = 0 /\ x \in Int
  BY DEF Aligned
<1>2. \A k \in Int : n <= k * a => Image!RoundUp(n) <= k * a
  BY LeastMultiple
<1> HIDE DEF a
<1>3. PICK k \in Int : x = k * a
  BY <1>1, WholeMultiple
<1> QED
  BY <1>2, <1>3

\* A range of n places that ends before a multiple still does when it begins at
\* a multiple and is rounded up.
LEMMA RoundedFits ==
  ASSUME header.section_alignment \in Nat \ {0},
         NEW from \in Nat, Aligned(from),
         NEW to \in Nat, Aligned(to),
         NEW n \in Nat, from + n <= to
  PROVE  from + Image!RoundUp(n) <= to
<1> DEFINE a == header.section_alignment
<1>1. a \in Nat \ {0} /\ from % a = 0 /\ to % a = 0 /\ from \in Int /\ to \in Int
  BY DEF Aligned
<1>2. \A m \in Nat : m <= Image!RoundUp(m) /\ Image!RoundUp(m) \in Nat
                     /\ \A k \in Int : m <= k * a => Image!RoundUp(m) <= k * a
  BY LeastMultiple
<1> HIDE DEF a
<1>3. PICK k \in Int : from = k * a
  BY <1>1, WholeMultiple
<1>4. PICK l \in Int : to = l * a
  BY <1>1, WholeMultiple
<1>5. l - k \in Int /\ (l - k) * a = to - from
  BY <1>1, <1>3, <1>4
<1>6. n <= (l - k) * a
  BY <1>5
<1>7. Image!RoundUp(n) \in Nat /\ Image!RoundUp(n) <= (l - k) * a
  BY <1>5, <1>6, <1>2
<1> QED
  BY <1>5, <1>7

------------------------------------------------------------------------------
(* The inductive invariant                                                  *)

\* What was read is what a header, a line or an anchor may be.
ImageTypeOK ==
  /\ header \in Headers /\ sections \in Seq(Sections) /\ anchors \in Seq(Anchors)
  /\ image_index \in Nat /\ changed \in {Image!None} \cup Nat

\* Each line is within its bounds and meets no other.
LinesAccepted ==
  \A i \in 1 .. Len(sections) :
    /\ ~ Image!OutOfBounds(sections[i])
    /\ \A j \in 1 .. Len(sections) : j # i => ~ Image!Overlapping(sections[i], sections[j])

\* The anchors that have a place in the file.
Located == {i \in DOMAIN anchors : Image!raw_offset(anchors[i].rva, anchors[i].length) # Image!None}

\* Where the walk over the anchors and the headers stands: what was compared
\* has a place in the file and is not the changed byte.
ComparedSoFar ==
  /\ image_step \in {"header", "sections"} => image_index = 1
  /\ image_step \in {"file", "image"} => image_index > 0
  /\ image_step \in {"file", "headers", "image", "matched"} =>
       \A i \in 1 .. Len(anchors) :
         (image_step = "file" => i < image_index) => i \in Located
  /\ image_step = "headers" => image_index <= header.headers_size /\ changed \notin 0 .. image_index - 1
  /\ image_step = "image" =>
       /\ changed \notin 0 .. header.headers_size - 1
       /\ \A i \in 1 .. Len(anchors) : i < image_index => changed \notin Image!Covered(anchors[i])
  /\ image_step = "matched" => changed \notin Image!Watched

\* The verdicts that accuse the file or the mapping.
Accusations == {"profile_layout_mismatch", "anchor_mismatch"}

AccusedForCause ==
  image_error \in Accusations => changed \in Image!Watched \/ \E i \in DOMAIN anchors : ~ anchors[i].genuine

ImageInvariant ==
  /\ ImageTypeOK /\ LinesAccepted /\ ComparedSoFar /\ AccusedForCause
  /\ image_step \notin {"header", "refused"} => ~ Image!LayoutWrong
  /\ image_step \notin {"refused", "denied"} => image_error = "none"

\* What the fields of a header, a line and an anchor are.
LEMMA ImageFields ==
  /\ \A h \in Headers :
       /\ h.size \in Nat /\ h.pe \in Nat /\ h.count \in Nat /\ h.optional \in Nat
       /\ h.file_alignment \in Nat /\ h.section_alignment \in Nat /\ h.image_size \in Nat
       /\ h.headers_size \in Nat /\ h.image_base \in Nat
  /\ \A s \in Sections :
       /\ s.rva \in Nat /\ s.virtual_size \in Nat /\ s.raw_size \in Nat /\ s.raw_offset \in Nat
       /\ Image!Extent(s) \in Nat /\ s.virtual_size <= Image!Extent(s) /\ s.raw_size <= Image!Extent(s)
  /\ \A a \in Anchors : a.rva \in Nat /\ a.length \in Nat
  BY ImageAssumption DEF Image!Extent, Image!Larger

\* What an accepted header says of the layout.
LEMMA Layout ==
  ASSUME header \in Headers, ~ Image!LayoutWrong
  PROVE  /\ header.section_alignment \in Nat \ {0} /\ header.headers_size \in Nat
         /\ header.image_size \in Nat /\ Aligned(header.image_size)
         /\ header.image_base + header.image_size <= Word
         /\ Image!TableEnd \in Nat /\ Image!TableEnd <= header.headers_size
<1>1. /\ header.section_alignment \in Nat /\ header.file_alignment \in Nat
      /\ header.image_size \in Nat /\ header.headers_size \in Nat /\ header.image_base \in Nat
      /\ Word \in Nat /\ MaxAlignment \in Nat /\ MinAlignment \in Nat \ {0}
  BY ImageFields, ImageAssumption
<1>2. header.section_alignment > 0
  BY <1>1 DEF Image!LayoutWrong
<1>3. Image!TableEnd \in Nat
  <2>1. header.pe \in Nat /\ header.optional \in Nat /\ header.count \in Nat
        /\ NtBytes \in Nat /\ LineBytes \in Nat
    BY ImageFields, ImageAssumption
  <2>2. header.count * LineBytes \in Nat
    BY <2>1
  <2> QED
    BY <2>1, <2>2 DEF Image!TableEnd, Image!Table
<1>4. Aligned(header.image_size)
  BY DEF Image!LayoutWrong, Aligned
<1>5. /\ Image!TableEnd <= header.headers_size
      /\ header.image_base + header.image_size <= Word
  BY <1>1, <1>3 DEF Image!LayoutWrong
<1> QED
  BY <1>1, <1>2, <1>3, <1>4, <1>5

\* Where an accepted line lies.
LEMMA LineLies ==
  ASSUME header \in Headers, ~ Image!LayoutWrong, NEW s \in Sections, ~ Image!OutOfBounds(s)
  PROVE  /\ Image!Extent(s) > 0 /\ s.rva >= header.headers_size
         /\ Aligned(s.rva) /\ s.rva + Image!Extent(s) <= header.image_size
         /\ s.raw_offset + s.raw_size <= header.size
         /\ s.raw_size > 0 => s.raw_offset >= header.headers_size
<1>1. /\ s.rva \in Nat /\ s.raw_size \in Nat /\ s.raw_offset \in Nat /\ Image!Extent(s) \in Nat
      /\ header.size \in Nat /\ header.image_size \in Nat /\ header.headers_size \in Nat
  BY ImageFields
<1>2. Aligned(s.rva)
  BY DEF Image!OutOfBounds, Aligned
<1>3. /\ Image!Extent(s) > 0 /\ s.rva >= header.headers_size
      /\ s.rva + Image!Extent(s) <= header.image_size
      /\ s.raw_offset + s.raw_size <= header.size
  BY <1>1 DEF Image!OutOfBounds, Image!fits
<1>4. s.raw_size > 0 => s.raw_offset >= header.headers_size
  BY <1>1 DEF Image!OutOfBounds
<1> QED
  BY <1>2, <1>3, <1>4

\* Two accepted lines, rounded up to whole pages, share no page and no byte of the file.
LEMMA PagesApart ==
  ASSUME header \in Headers, ~ Image!LayoutWrong,
         NEW s \in Sections, ~ Image!OutOfBounds(s), NEW t \in Sections, ~ Image!OutOfBounds(t),
         ~ Image!Overlapping(s, t)
  PROVE  /\ ~ Image!overlaps(s.rva, Image!RoundUp(Image!Extent(s)), t.rva, Image!RoundUp(Image!Extent(t)))
         /\ Image!Span(s.raw_offset, s.raw_size) \cap Image!Span(t.raw_offset, t.raw_size) = {}
<1>1. /\ s.rva \in Nat /\ s.raw_size \in Nat /\ s.raw_offset \in Nat /\ Image!Extent(s) \in Nat
      /\ t.rva \in Nat /\ t.raw_size \in Nat /\ t.raw_offset \in Nat /\ Image!Extent(t) \in Nat
  BY ImageFields
<1>2. /\ header.section_alignment \in Nat \ {0}
      /\ Aligned(s.rva) /\ Aligned(t.rva)
      /\ Image!Extent(s) > 0 /\ Image!Extent(t) > 0
  BY Layout, LineLies
<1>3. \/ s.rva + Image!Extent(s) <= t.rva
      \/ t.rva + Image!Extent(t) <= s.rva
  BY <1>1, <1>2 DEF Image!Overlapping, Image!overlaps
<1>4. Image!RoundUp(Image!Extent(s)) \in Nat /\ Image!RoundUp(Image!Extent(t)) \in Nat
  BY <1>1, <1>2, LeastMultiple
<1>5. \/ s.rva + Image!RoundUp(Image!Extent(s)) <= t.rva
      \/ t.rva + Image!RoundUp(Image!Extent(t)) <= s.rva
  <2>1. CASE s.rva + Image!Extent(s) <= t.rva
    BY <1>1, <1>2, <2>1, RoundedFits
  <2>2. CASE t.rva + Image!Extent(t) <= s.rva
    BY <1>1, <1>2, <2>2, RoundedFits
  <2> QED
    BY <1>3, <2>1, <2>2
<1>6. ~ Image!overlaps(s.rva, Image!RoundUp(Image!Extent(s)), t.rva, Image!RoundUp(Image!Extent(t)))
  BY <1>1, <1>4, <1>5 DEF Image!overlaps
<1>7. Image!Span(s.raw_offset, s.raw_size) \cap Image!Span(t.raw_offset, t.raw_size) = {}
  <2>1. ~ Image!overlaps(s.raw_offset, s.raw_size, t.raw_offset, t.raw_size)
    BY DEF Image!Overlapping
  <2> QED
    BY <1>1, <2>1 DEF Image!overlaps, Image!Span
<1> QED
  BY <1>6, <1>7

\* The first part of what is to be shown of a file and its mapping.
LEMMA LinesPlaced ==
  ASSUME header \in Headers, sections \in Seq(Sections), ~ Image!LayoutWrong, LinesAccepted
  PROVE  Image!Placed
<1>1. DOMAIN sections = 1 .. Len(sections) /\ \A i \in 1 .. Len(sections) : sections[i] \in Sections
  OBVIOUS
<1>2. ASSUME NEW i \in 1 .. Len(sections)
      PROVE  /\ sections[i].rva >= Image!RoundUp(header.headers_size)
             /\ sections[i].rva + Image!RoundUp(Image!Extent(sections[i])) <= header.image_size
             /\ sections[i].raw_size > 0 =>
                  /\ sections[i].raw_offset >= Image!TableEnd
                  /\ sections[i].raw_offset + sections[i].raw_size <= header.size
  <2> DEFINE s == sections[i]
  <2>1. s \in Sections /\ ~ Image!OutOfBounds(s)
    BY <1>1 DEF LinesAccepted
  <2> HIDE DEF s
  <2>2. s.rva \in Nat /\ s.raw_offset \in Nat /\ s.raw_size \in Nat /\ Image!Extent(s) \in Nat
    BY <2>1, ImageFields
  <2>3. /\ header.section_alignment \in Nat \ {0} /\ header.headers_size \in Nat
        /\ header.image_size \in Nat /\ Aligned(header.image_size)
        /\ Image!TableEnd \in Nat /\ Image!TableEnd <= header.headers_size
    BY Layout
  <2>4. /\ s.rva >= header.headers_size /\ Aligned(s.rva)
        /\ s.rva + Image!Extent(s) <= header.image_size
        /\ s.raw_offset + s.raw_size <= header.size
        /\ s.raw_size > 0 => s.raw_offset >= header.headers_size
    BY <2>1, LineLies
  <2>5. s.rva >= Image!RoundUp(header.headers_size)
    BY <2>2, <2>3, <2>4, RoundedBelow
  <2>6. s.rva + Image!RoundUp(Image!Extent(s)) <= header.image_size
    BY <2>2, <2>3, <2>4, RoundedFits
  <2>7. s.raw_size > 0 => s.raw_offset >= Image!TableEnd
    BY <2>2, <2>3, <2>4
  <2> QED
    BY <2>4, <2>5, <2>6, <2>7 DEF s
<1>3. ASSUME NEW i \in 1 .. Len(sections), NEW j \in 1 .. Len(sections), j # i
      PROVE  /\ ~ Image!overlaps(sections[i].rva, Image!RoundUp(Image!Extent(sections[i])),
                           sections[j].rva, Image!RoundUp(Image!Extent(sections[j])))
             /\ Image!Span(sections[i].raw_offset, sections[i].raw_size)
                  \cap Image!Span(sections[j].raw_offset, sections[j].raw_size) = {}
  <2>1. /\ sections[i] \in Sections /\ ~ Image!OutOfBounds(sections[i])
        /\ sections[j] \in Sections /\ ~ Image!OutOfBounds(sections[j])
        /\ ~ Image!Overlapping(sections[i], sections[j])
    BY <1>1, <1>3 DEF LinesAccepted
  <2> QED
    BY <2>1, PagesApart
<1>4. header.image_base + header.image_size <= Word
  BY Layout
<1> QED
  BY <1>1, <1>2, <1>3, <1>4 DEF Image!Placed

------------------------------------------------------------------------------
(* The bytes of an anchor, in the file and in the mapping                   *)

\* The system's pages of a line lie within its extent rounded up.
LEMMA PagesWithin ==
  ASSUME header \in Headers, ~ Image!LayoutWrong, NEW s \in Sections
  PROVE  /\ Image!PagesOf(s) \in Nat /\ Image!RoundUp(Image!Extent(s)) \in Nat
         /\ Image!PagesOf(s) <= Image!RoundUp(Image!Extent(s))
<1> DEFINE n == IF s.virtual_size = 0 THEN s.raw_size ELSE s.virtual_size
           m == Image!Extent(s)
           a == header.section_alignment
<1>1. n \in Nat /\ m \in Nat /\ n <= m
  BY ImageFields
<1>2. a \in Nat \ {0}
  BY Layout
<1>3. Image!PagesOf(s) = Image!RoundUp(n)
  BY DEF Image!PagesOf
<1> HIDE DEF n, m
<1>4. Image!RoundUp(n) \in Nat /\ Image!RoundUp(m) \in Nat /\ m <= Image!RoundUp(m)
  BY <1>1, <1>2, LeastMultiple
<1>5. Aligned(Image!RoundUp(m))
  <2>1. \A k \in Int : (k * a) % a = 0
    BY <1>2, MultiplesAligned
  <2>2. (m + a - 1) \div a \in Int
    BY <1>1, <1>2
  <2> QED
    BY <2>1, <2>2 DEF Image!RoundUp, Aligned
<1>6. Image!RoundUp(n) <= Image!RoundUp(m)
  BY <1>1, <1>2, <1>4, <1>5, RoundedBelow
<1> QED
  BY <1>3, <1>4, <1>6 DEF m

\* The pages of two lines have no address in common.
LEMMA OneLineMaps ==
  ASSUME header \in Headers, sections \in Seq(Sections), ~ Image!LayoutWrong, LinesAccepted,
         NEW i \in 1 .. Len(sections), NEW j \in 1 .. Len(sections), NEW rva \in Nat,
         Image!InPages(sections[i], rva), Image!InPages(sections[j], rva)
  PROVE  i = j
<1> SUFFICES ASSUME j # i PROVE FALSE
  OBVIOUS
<1> DEFINE s == sections[i]
           t == sections[j]
<1>1. s \in Sections /\ t \in Sections
  OBVIOUS
<1>2. ~ Image!overlaps(s.rva, Image!RoundUp(Image!Extent(s)), t.rva, Image!RoundUp(Image!Extent(t)))
  BY LinesPlaced DEF Image!Placed
<1> HIDE DEF s, t
<1>3. s.rva \in Nat /\ t.rva \in Nat
  BY <1>1, ImageFields
<1>4. /\ Image!PagesOf(s) \in Nat /\ Image!RoundUp(Image!Extent(s)) \in Nat
      /\ Image!PagesOf(s) <= Image!RoundUp(Image!Extent(s))
      /\ Image!PagesOf(t) \in Nat /\ Image!RoundUp(Image!Extent(t)) \in Nat
      /\ Image!PagesOf(t) <= Image!RoundUp(Image!Extent(t))
  BY <1>1, PagesWithin
<1>5. /\ rva \in s.rva .. s.rva + Image!PagesOf(s) - 1
      /\ rva \in t.rva .. t.rva + Image!PagesOf(t) - 1
  BY DEF Image!InPages, Image!Span, s, t
<1> DEFINE m == Image!RoundUp(Image!Extent(s))
           n == Image!RoundUp(Image!Extent(t))
<1>6. /\ m \in Nat /\ n \in Nat /\ m > 0 /\ n > 0
      /\ s.rva <= rva /\ rva < s.rva + m /\ t.rva <= rva /\ rva < t.rva + n
  <2> DEFINE x == s.rva
             y == t.rva
             v == Image!PagesOf(s)
             w == Image!PagesOf(t)
  <2>1. /\ x \in Nat /\ v \in Nat /\ m \in Nat /\ v <= m /\ rva \in x .. x + v - 1
    BY <1>3, <1>4, <1>5
  <2>2. /\ y \in Nat /\ w \in Nat /\ n \in Nat /\ w <= n /\ rva \in y .. y + w - 1
    BY <1>3, <1>4, <1>5
  <2> HIDE DEF x, y, v, w, m, n
  <2>3. m \in Nat /\ m > 0 /\ x <= rva /\ rva < x + m
    BY <2>1
  <2>4. n \in Nat /\ n > 0 /\ y <= rva /\ rva < y + n
    BY <2>2
  <2> QED
    BY <2>3, <2>4 DEF x, y
<1> HIDE DEF m, n
<1>7. s.rva < t.rva + n /\ t.rva < s.rva + m
  BY <1>3, <1>6
<1> QED
  BY <1>2, <1>6, <1>7 DEF Image!overlaps, m, n

\* The instance counts as the standard module does.
LEMMA SameCardinality ==
  ASSUME NEW S
  PROVE  Image!Cardinality(S) = Cardinality(S)
  BY DEF Image!Cardinality, Cardinality

\* If the bytes of a line hold the range and it has a place in the file, that is the place.
LEMMA PlaceInFile ==
  ASSUME sections \in Seq(Sections), NEW i \in 1 .. Len(sections),
         NEW rva \in Nat, NEW length \in Nat,
         rva >= sections[i].rva, Image!fits(rva - sections[i].rva, length, sections[i].raw_size),
         Image!raw_offset(rva, length) # Image!None
  PROVE  Image!raw_offset(rva, length) = sections[i].raw_offset + (rva - sections[i].rva)
<1> DEFINE all == {sections[j] : j \in DOMAIN sections}
           holding == {s \in all : rva >= s.rva /\ Image!fits(rva - s.rva, length, s.raw_size)}
<1>1. length > 0 /\ Cardinality(holding) = 1
  <2>1. length > 0 /\ Image!Cardinality(holding) = 1
    BY DEF Image!raw_offset
  <2> QED
    BY <2>1, SameCardinality
<1>2. Image!raw_offset(rva, length) =
        (CHOOSE t \in holding : TRUE).raw_offset + (rva - (CHOOSE t \in holding : TRUE).rva)
  BY <1>1, SameCardinality DEF Image!raw_offset
<1>3. sections[i] \in holding
  OBVIOUS
<1>4. IsFiniteSet(holding)
  <2>1. DOMAIN sections = 1 .. Len(sections) /\ Len(sections) \in Nat
    OBVIOUS
  <2>2. IsFiniteSet(DOMAIN sections)
    BY <2>1, FS_Interval
  <2>3. IsFiniteSet(all)
    <3>1. sections \in Surjection(DOMAIN sections, all)
      BY DEF Surjection
    <3> QED
      BY <2>2, <3>1, FS_Surjection
  <2> QED
    BY <2>3, FS_Subset
<1> HIDE DEF holding
<1>5. PICK x : holding = {x}
  BY <1>1, <1>4, FS_Singleton
<1>6. (CHOOSE t \in holding : TRUE) = sections[i]
  BY <1>3, <1>5
<1> QED
  BY <1>2, <1>6

\* A place in the file is a number.
LEMMA PlaceTyped ==
  ASSUME sections \in Seq(Sections), NEW rva \in Nat, NEW length \in Nat,
         Image!raw_offset(rva, length) # Image!None
  PROVE  Image!raw_offset(rva, length) \in Nat
<1> DEFINE holding == {s \in {sections[j] : j \in DOMAIN sections} :
                     rva >= s.rva /\ Image!fits(rva - s.rva, length, s.raw_size)}
<1>1. Cardinality(holding) = 1
  <2>1. Image!Cardinality(holding) = 1
    BY DEF Image!raw_offset
  <2> QED
    BY <2>1, SameCardinality
<1>2. \E s \in holding : TRUE
  <2> SUFFICES ASSUME holding = {} PROVE FALSE
    OBVIOUS
  <2> HIDE DEF holding
  <2> QED
    BY <1>1, FS_EmptySet
<1>3. PICK i \in 1 .. Len(sections) :
        rva >= sections[i].rva /\ Image!fits(rva - sections[i].rva, length, sections[i].raw_size)
  BY <1>2
<1>4. Image!raw_offset(rva, length) = sections[i].raw_offset + (rva - sections[i].rva)
  BY <1>3, PlaceInFile
<1>5. sections[i].raw_offset \in Nat /\ sections[i].rva \in Nat
  BY ImageFields
<1> QED
  BY <1>3, <1>4, <1>5

\* An unchanged byte of the headers is mapped from its own place.
LEMMA HeadersMapped ==
  ASSUME NEW rva, rva < header.headers_size, rva # changed
  PROVE  Image!Mapped(rva) = rva
  BY DEF Image!Mapped

\* An unchanged byte of an anchor is mapped from the place the parser computes.
LEMMA AnchorMapped ==
  ASSUME header \in Headers, sections \in Seq(Sections), ~ Image!LayoutWrong, LinesAccepted,
         NEW a \in Anchors, Image!valid_anchor(a), Image!raw_offset(a.rva, a.length) # Image!None,
         NEW k \in 0 .. a.length - 1,
         Image!InPages(sections[a.section_index], a.rva + k), a.rva + k # changed
  PROVE  Image!Mapped(a.rva + k) = Image!raw_offset(a.rva, a.length) + k
<1> DEFINE i == a.section_index
           s == sections[i]
           rva == a.rva + k
           in == {j \in DOMAIN sections : Image!InPages(sections[j], rva)}
<1>1. /\ i \in 1 .. Len(sections) /\ DOMAIN sections = 1 .. Len(sections) /\ s \in Sections
      /\ a.rva >= s.rva /\ (a.rva - s.rva) + a.length <= s.raw_size
  BY DEF Image!valid_anchor
<1>2. /\ a.rva \in Nat /\ a.length \in Nat /\ s.rva \in Nat /\ s.raw_size \in Nat /\ s.raw_offset \in Nat
      /\ header.headers_size \in Nat
  BY <1>1, ImageFields
<1>3. s.rva >= header.headers_size
  BY <1>1, LineLies DEF LinesAccepted
<1> HIDE DEF s
<1>4. rva \in Nat /\ ~ (rva < header.headers_size) /\ rva - s.rva < s.raw_size
  <2> DEFINE r == s.rva
             z == a.rva
             h == header.headers_size
             n == s.raw_size
             l == a.length
  <2>1. /\ r \in Nat /\ z \in Nat /\ h \in Nat /\ n \in Nat /\ l \in Nat /\ k \in 0 .. l - 1
        /\ z >= r /\ (z - r) + l <= n /\ r >= h
    BY <1>1, <1>2, <1>3
  <2> HIDE DEF r, z, h, n, l
  <2>2. z + k \in Nat /\ ~ (z + k < h) /\ (z + k) - r < n
    BY <2>1
  <2> QED
    BY <2>2 DEF r, z, h, n
<1>5. Image!raw_offset(a.rva, a.length) = s.raw_offset + (a.rva - s.rva)
  <2>1. Image!fits(a.rva - s.rva, a.length, s.raw_size)
    BY <1>1, <1>2 DEF Image!fits
  <2> QED
    BY <1>1, <1>2, <2>1, PlaceInFile DEF s
<1>6. in = {i}
  <2>1. i \in in
    BY <1>1
  <2>2. \A j \in in : j = i
    <3> TAKE j \in in
    <3>1. j \in 1 .. Len(sections) /\ Image!InPages(sections[j], rva) /\ Image!InPages(sections[i], rva)
      BY <1>1
    <3> HIDE DEF rva
    <3> QED
      BY <1>1, <1>4, <3>1, OneLineMaps
  <2> QED
    BY <2>1, <2>2
<1>7. (CHOOSE j \in in : TRUE) = i /\ in # {}
  BY <1>6
<1>8. Image!Mapped(rva) = s.raw_offset + (rva - s.rva)
  BY <1>4, <1>7 DEF Image!Mapped, s
<1> QED
  BY <1>2, <1>5, <1>8

------------------------------------------------------------------------------
(* Each step keeps the invariant                                            *)

\* While the file's parts stay, so does what was found of them.
LEMMA FileKept ==
  ASSUME UNCHANGED <<header, sections>>
  PROVE  /\ LinesAccepted => LinesAccepted'
         /\ UNCHANGED Image!LayoutWrong
         /\ UNCHANGED anchors => UNCHANGED Located
<1>1. LinesAccepted => LinesAccepted'
  BY DEF LinesAccepted, Image!OutOfBounds
<1>2. UNCHANGED Image!LayoutWrong
  BY DEF Image!LayoutWrong, Image!TableEnd, Image!Table
<1>3. UNCHANGED anchors => UNCHANGED Located
  BY DEF Located, Image!raw_offset
<1> QED
  BY <1>1, <1>2, <1>3

\* A file that is refused or a mapping that is denied accuses nothing new.
LEMMA RefuseKeeps ==
  ASSUME ImageInvariant, NEW reason, reason \notin Accusations, Image!Refuse(reason), UNCHANGED header
  PROVE  ImageInvariant'
<1>1. sections' = << >>
      /\ UNCHANGED <<header, anchors, image_index, changed>> /\ image_step' = "refused" /\ image_error' = reason
  BY DEF Image!Refuse
<1>2. ImageTypeOK'
  BY <1>1 DEF ImageInvariant, ImageTypeOK
<1>3. LinesAccepted'
  <2>1. Len(sections') = 0
    BY <1>1
  <2> QED
    BY <2>1 DEF LinesAccepted
<1> QED
  BY <1>1, <1>2, <1>3 DEF ImageInvariant, ComparedSoFar, AccusedForCause

\* A denial keeps the invariant when its accusation is one of those it allows.
LEMMA DenyKeeps ==
  ASSUME ImageInvariant, image_step \notin {"header", "refused"}, NEW reason, Image!Deny(reason),
         reason \in Accusations => changed \in Image!Watched \/ \E i \in DOMAIN anchors : ~ anchors[i].genuine
  PROVE  ImageInvariant'
<1>1. /\ UNCHANGED <<header, sections, entered, anchors, image_index, changed>>
      /\ image_step' = "denied" /\ image_error' = reason
  BY DEF Image!Deny
<1>2. ImageTypeOK' /\ LinesAccepted' /\ UNCHANGED Image!Watched /\ UNCHANGED Image!LayoutWrong
  BY <1>1, FileKept DEF ImageInvariant, ImageTypeOK, Image!Watched, Image!Covered
<1>3. ComparedSoFar'
  BY <1>1 DEF ComparedSoFar
<1>4. AccusedForCause'
  BY <1>1, <1>2 DEF AccusedForCause
<1> QED
  BY <1>1, <1>2, <1>3, <1>4 DEF ImageInvariant

\* parse_pe32, the headers: they are accepted as a whole, or nothing is kept.
LEMMA HeaderKeeps == ImageInvariant /\ Image!Header => ImageInvariant'
<1> SUFFICES ASSUME ImageInvariant, Image!Header PROVE ImageInvariant'
  OBVIOUS
<1>1. CASE \E reason : reason \notin Accusations /\ Image!Refuse(reason)
  BY <1>1, RefuseKeeps DEF Image!Header
<1>2. CASE /\ ~ Image!LayoutWrong /\ image_step' = "sections"
           /\ UNCHANGED <<header, sections, entered, anchors, image_index, changed, image_error>>
  <2>1. image_step = "header"
    BY DEF Image!Header
  <2>2. ImageTypeOK' /\ LinesAccepted' /\ ~ Image!LayoutWrong'
    BY <1>2, FileKept DEF ImageInvariant, ImageTypeOK
  <2>3. ComparedSoFar' /\ image_error' = "none" /\ AccusedForCause'
    BY <1>2, <2>1 DEF ImageInvariant, ComparedSoFar, AccusedForCause, Accusations
  <2> QED
    BY <1>2, <2>2, <2>3 DEF ImageInvariant
<1>3. \/ \E reason : reason \notin Accusations /\ Image!Refuse(reason)
      \/ /\ ~ Image!LayoutWrong /\ image_step' = "sections"
         /\ UNCHANGED <<header, sections, entered, anchors, image_index, changed, image_error>>
  BY DEF Image!Header, Accusations
<1> QED
  BY <1>1, <1>2, <1>3

\* parse_pe32, a section: one more line within its bounds that meets none before.
LEMMA SectionKeeps == ImageInvariant /\ Image!Section => ImageInvariant'
<1> SUFFICES ASSUME ImageInvariant, Image!Section PROVE ImageInvariant'
  OBVIOUS
<1>1. UNCHANGED header /\ image_step = "sections" /\ image_error = "none" /\ ~ Image!LayoutWrong
      /\ image_index = 1
  BY DEF Image!Section, ImageInvariant, ComparedSoFar
<1>2. PICK s \in Sections :
        \/ Image!Refuse("section_bounds") \/ Image!Refuse("section_overlap")
        \/ /\ ~ Image!OutOfBounds(s) /\ \A j \in DOMAIN sections : ~ Image!Overlapping(s, sections[j])
           /\ sections' = Append(sections, s)
           /\ UNCHANGED <<image_step, anchors, image_index, changed, image_error>>
  BY DEF Image!Section
<1>3. CASE Image!Refuse("section_bounds") \/ Image!Refuse("section_overlap")
  BY <1>1, <1>3, RefuseKeeps DEF Accusations
<1>4. CASE /\ ~ Image!OutOfBounds(s) /\ \A j \in DOMAIN sections : ~ Image!Overlapping(s, sections[j])
           /\ sections' = Append(sections, s)
           /\ UNCHANGED <<image_step, anchors, image_index, changed, image_error>>
  <2> DEFINE n == Len(sections)
  <2>1. sections \in Seq(Sections) /\ n \in Nat /\ DOMAIN sections = 1 .. n
    BY DEF ImageInvariant, ImageTypeOK
  <2>2. /\ sections' \in Seq(Sections) /\ Len(sections') = n + 1
        /\ \A i \in 1 .. n : sections'[i] = sections[i]
        /\ sections'[n + 1] = s
    BY <1>4, <2>1, AppendProperties
  <2>3. ImageTypeOK'
    BY <1>1, <1>4, <2>2 DEF ImageInvariant, ImageTypeOK
  <2>4. UNCHANGED Image!LayoutWrong /\ \A t : Image!OutOfBounds(t)' = Image!OutOfBounds(t)
    BY <1>1 DEF Image!LayoutWrong, Image!TableEnd, Image!Table, Image!OutOfBounds
  <2>5. LinesAccepted'
    <3>1. \A i \in 1 .. n : ~ Image!OutOfBounds(sections[i])
      BY DEF ImageInvariant, LinesAccepted
    <3>2. \A i \in 1 .. n : \A j \in 1 .. n : j # i => ~ Image!Overlapping(sections[i], sections[j])
      BY DEF ImageInvariant, LinesAccepted
    <3>3. \A t, u : Image!Overlapping(t, u) <=> Image!Overlapping(u, t)
      BY DEF Image!Overlapping, Image!overlaps
    <3>4. \A j \in 1 .. n : ~ Image!Overlapping(s, sections[j]) /\ ~ Image!Overlapping(sections[j], s)
      BY <1>4, <2>1, <3>3
    <3>5. \A i \in 1 .. n + 1 : i = n + 1 \/ i \in 1 .. n
      BY <2>1
    <3> HIDE DEF n
    <3>6. \A i \in 1 .. n + 1 : ~ Image!OutOfBounds(sections'[i])
      BY <1>4, <2>2, <3>1, <3>5
    <3>7. ASSUME NEW i \in 1 .. n + 1, NEW j \in 1 .. n + 1, j # i
          PROVE  ~ Image!Overlapping(sections'[i], sections'[j])
      BY <2>2, <3>2, <3>4, <3>5, <3>7
    <3> QED
      BY <2>2, <2>4, <3>6, <3>7 DEF LinesAccepted
  <2>6. ComparedSoFar' /\ AccusedForCause'
    BY <1>1, <1>4 DEF ComparedSoFar, AccusedForCause, Accusations
  <2> QED
    BY <1>1, <1>4, <2>3, <2>4, <2>5, <2>6 DEF ImageInvariant
<1> QED
  BY <1>2, <1>3, <1>4

\* The parsed file gets the anchors of its profile, none of them compared yet.
LEMMA ParsedKeeps == ImageInvariant /\ Image!Parsed => ImageInvariant'
<1> SUFFICES ASSUME ImageInvariant, Image!Parsed PROVE ImageInvariant'
  OBVIOUS
<1>1. UNCHANGED header /\ image_step = "sections" /\ image_error = "none" /\ ~ Image!LayoutWrong
      /\ image_index = 1
  BY DEF Image!Parsed, ImageInvariant, ComparedSoFar
<1>2. \/ Image!Refuse("entry_point") \/ Image!Refuse("unknown_fingerprint")
      \/ \E n \in 0 .. MaxAnchors : \E list \in [1 .. n -> Anchors] :
           /\ anchors' = list /\ image_step' = "file"
           /\ UNCHANGED <<sections, entered, image_index, changed, image_error>>
  BY DEF Image!Parsed
<1>3. CASE Image!Refuse("entry_point") \/ Image!Refuse("unknown_fingerprint")
  BY <1>1, <1>3, RefuseKeeps DEF Accusations
<1>4. CASE \E n \in 0 .. MaxAnchors : \E list \in [1 .. n -> Anchors] :
             /\ anchors' = list /\ image_step' = "file"
             /\ UNCHANGED <<sections, entered, image_index, changed, image_error>>
  <2>1. /\ anchors' \in Seq(Anchors) /\ image_step' = "file"
        /\ UNCHANGED <<header, sections, image_index, changed, image_error>>
    <3>1. PICK n \in 0 .. MaxAnchors : \E list \in [1 .. n -> Anchors] :
             /\ anchors' = list /\ image_step' = "file"
             /\ UNCHANGED <<sections, entered, image_index, changed, image_error>>
      BY <1>4
    <3>2. n \in Nat
      BY ImageAssumption
    <3>3. [1 .. n -> Anchors] \subseteq Seq(Anchors)
      BY <3>2
    <3> QED
      BY <1>1, <3>1, <3>3
  <2>2. ImageTypeOK' /\ LinesAccepted' /\ ~ Image!LayoutWrong'
    BY <1>1, <2>1, FileKept DEF ImageInvariant, ImageTypeOK
  <2>3. ComparedSoFar'
    <3>1. image_index' = 1 /\ \A i \in 1 .. Len(anchors') : ~ (i < image_index')
      BY <1>1, <2>1
    <3> QED
      BY <2>1, <3>1 DEF ComparedSoFar
  <2>4. AccusedForCause' /\ image_error' = "none"
    BY <1>1, <2>1 DEF AccusedForCause, Accusations
  <2> QED
    BY <2>1, <2>2, <2>3, <2>4 DEF ImageInvariant
<1> QED
  BY <1>2, <1>3, <1>4

\* match_file_observation: the anchor has a place in the file, or the file is denied.
LEMMA MatchFileKeeps == ImageInvariant /\ Image!MatchFile => ImageInvariant'
<1> SUFFICES ASSUME ImageInvariant, Image!MatchFile PROVE ImageInvariant'
  OBVIOUS
<1> DEFINE a == anchors[image_index]
           offset == Image!raw_offset(a.rva, a.length)
<1>1. image_step = "file" /\ image_error = "none" /\ ~ Image!LayoutWrong /\ image_index \in Nat
      /\ image_index > 0
  BY DEF Image!MatchFile, ImageInvariant, ImageTypeOK, ComparedSoFar
<1>2. \/ Image!Deny("invalid_anchor")
      \/ /\ image_index <= Len(anchors)
         /\ \/ ~ a.genuine /\ Image!Deny("anchor_mismatch")
            \/ /\ offset # Image!None /\ image_index' = image_index + 1
               /\ UNCHANGED <<image_step, header, sections, entered, anchors, changed, image_error>>
  BY DEF Image!MatchFile
<1>3. DOMAIN anchors = 1 .. Len(anchors) /\ Len(anchors) \in Nat
  BY DEF ImageInvariant, ImageTypeOK
<1>4. CASE Image!Deny("invalid_anchor")
  BY <1>1, <1>4, DenyKeeps DEF Accusations
<1>5. CASE image_index <= Len(anchors) /\ ~ a.genuine /\ Image!Deny("anchor_mismatch")
  <2>1. \E i \in DOMAIN anchors : ~ anchors[i].genuine
    BY <1>1, <1>3, <1>5
  <2> QED
    BY <1>1, <1>5, <2>1, DenyKeeps
<1>6. CASE /\ image_index <= Len(anchors) /\ offset # Image!None /\ image_index' = image_index + 1
           /\ UNCHANGED <<image_step, header, sections, entered, anchors, changed, image_error>>
  <2>1. ImageTypeOK' /\ LinesAccepted' /\ ~ Image!LayoutWrong'
    BY <1>1, <1>6, FileKept DEF ImageInvariant, ImageTypeOK
  <2>2. \A i \in 1 .. Len(anchors) : i < image_index => i \in Located
    BY <1>1 DEF ImageInvariant, ComparedSoFar
  <2>3. ASSUME NEW i \in 1 .. Len(anchors), i < image_index + 1
        PROVE  i \in Located
    <3>1. i < image_index \/ i = image_index
      BY <1>1, <2>3
    <3> QED
      BY <1>3, <1>6, <2>2, <3>1 DEF Located
  <2>4. \A i \in 1 .. Len(anchors') : i < image_index' => i \in Located'
    BY <1>6, <2>3, FileKept
  <2>5. ComparedSoFar'
    <3>1. image_index' > 0 /\ image_step' = "file"
      BY <1>1, <1>6
    <3> QED
      BY <2>4, <3>1 DEF ComparedSoFar
  <2>6. AccusedForCause' /\ image_error' = "none"
    BY <1>1, <1>6 DEF AccusedForCause, Accusations
  <2> QED
    BY <1>1, <1>6, <2>1, <2>5, <2>6 DEF ImageInvariant
<1> QED
  BY <1>2, <1>4, <1>5, <1>6

\* The mapping may differ from the file in one byte; nothing of it is compared yet.
LEMMA MapKeeps == ImageInvariant /\ Image!Map => ImageInvariant'
<1> SUFFICES ASSUME ImageInvariant, Image!Map PROVE ImageInvariant'
  OBVIOUS
<1>1. /\ image_step = "file" /\ image_error = "none" /\ ~ Image!LayoutWrong /\ image_index \in Nat
      /\ image_index > Len(anchors)
      /\ Len(anchors) \in Nat /\ header.headers_size \in Nat /\ header.image_size \in Nat
  BY ImageFields DEF Image!Map, ImageInvariant, ImageTypeOK
<1>2. /\ changed' \in {Image!None} \cup 0 .. header.image_size - 1
      /\ image_step' = "headers" /\ image_index' = 0
      /\ UNCHANGED <<header, sections, entered, anchors, image_error>>
  BY DEF Image!Map
<1>3. ImageTypeOK' /\ LinesAccepted' /\ ~ Image!LayoutWrong'
  <2>1. changed' \in {Image!None} \cup Nat
    BY <1>1, <1>2
  <2> QED
    BY <1>1, <1>2, <2>1, FileKept DEF ImageInvariant, ImageTypeOK
<1>4. ComparedSoFar'
  <2>1. \A i \in 1 .. Len(anchors) : i \in Located
    BY <1>1 DEF ImageInvariant, ComparedSoFar
  <2>2. \A i \in 1 .. Len(anchors') : i \in Located'
    BY <1>2, <2>1, FileKept
  <2>3. image_index' <= header'.headers_size /\ 0 .. image_index' - 1 = {}
    BY <1>1, <1>2
  <2> QED
    BY <1>2, <2>2, <2>3 DEF ComparedSoFar
<1>5. AccusedForCause' /\ image_error' = "none"
  BY <1>1, <1>2 DEF AccusedForCause, Accusations
<1> QED
  BY <1>2, <1>3, <1>4, <1>5 DEF ImageInvariant

\* check_mapped_observation, a chunk of the headers: only the changed byte can differ.
LEMMA MatchHeadersKeeps == ImageInvariant /\ Image!MatchHeaders => ImageInvariant'
<1> SUFFICES ASSUME ImageInvariant, Image!MatchHeaders PROVE ImageInvariant'
  OBVIOUS
<1> DEFINE size == header.headers_size
           count == IF size - image_index < ChunkBytes THEN size - image_index ELSE ChunkBytes
           span == Image!Span(image_index, count)
<1>1. /\ image_step = "headers" /\ image_error = "none" /\ ~ Image!LayoutWrong
      /\ size \in Nat /\ image_index \in Nat /\ image_index < size
      /\ changed \in {Image!None} \cup Nat /\ changed \notin 0 .. image_index - 1
  BY ImageFields DEF Image!MatchHeaders, ImageInvariant, ImageTypeOK, ComparedSoFar
<1>2. \/ Image!Deny("unreadable_image")
      \/ /\ \A rva \in span : Image!Mapped(rva) = rva
         /\ image_index' = image_index + count
         /\ UNCHANGED <<image_step, header, sections, entered, anchors, changed, image_error>>
      \/ (\E rva \in span : Image!Mapped(rva) # rva) /\ Image!Deny("profile_layout_mismatch")
  BY DEF Image!MatchHeaders
<1>3. count \in Nat /\ image_index + count <= size
  BY <1>1, ImageAssumption
<1> HIDE DEF count
<1>4. span = image_index .. image_index + count - 1
  BY DEF Image!Span
<1> HIDE DEF span
<1>5. CASE Image!Deny("unreadable_image")
  BY <1>1, <1>5, DenyKeeps DEF Accusations
<1>6. CASE (\E rva \in span : Image!Mapped(rva) # rva) /\ Image!Deny("profile_layout_mismatch")
  <2>1. PICK rva \in span : Image!Mapped(rva) # rva
    BY <1>6
  <2>2. rva \in Nat /\ rva < size
    BY <1>1, <1>3, <1>4
  <2>3. rva = changed
    BY <2>1, <2>2, HeadersMapped
  <2>4. changed \in 0 .. size - 1
    BY <1>1, <2>2, <2>3
  <2>5. changed \in Image!Watched
    BY <2>4 DEF Image!Watched
  <2> QED
    BY <1>1, <1>6, <2>5, DenyKeeps
<1>7. CASE /\ \A rva \in span : Image!Mapped(rva) = rva
           /\ image_index' = image_index + count
           /\ UNCHANGED <<image_step, header, sections, entered, anchors, changed, image_error>>
  <2>1. ImageTypeOK' /\ LinesAccepted' /\ ~ Image!LayoutWrong'
    BY <1>1, <1>3, <1>7, FileKept DEF ImageInvariant, ImageTypeOK
  <2>2. changed \notin 0 .. image_index + count - 1
    <3> SUFFICES ASSUME changed \in 0 .. image_index + count - 1 PROVE FALSE
      OBVIOUS
    <3>1. changed \in span
      BY <1>1, <1>3, <1>4
    <3>2. Image!Mapped(changed) = Image!None
      BY DEF Image!Mapped
    <3> QED
      BY <1>1, <1>3, <1>7, <3>1, <3>2 DEF Image!None
  <2>3. \A i \in 1 .. Len(anchors) : i \in Located
    BY <1>1 DEF ImageInvariant, ComparedSoFar
  <2>4. \A i \in 1 .. Len(anchors') : i \in Located'
    BY <1>7, <2>3, FileKept
  <2>5. ComparedSoFar'
    BY <1>1, <1>3, <1>7, <2>2, <2>4 DEF ComparedSoFar
  <2>6. AccusedForCause' /\ image_error' = "none"
    BY <1>1, <1>7 DEF AccusedForCause, Accusations
  <2> QED
    BY <1>1, <1>7, <2>1, <2>5, <2>6 DEF ImageInvariant
<1> QED
  BY <1>2, <1>5, <1>6, <1>7

\* All headers are compared, so the changed byte is behind them.
LEMMA HeadersMatchKeeps == ImageInvariant /\ Image!HeadersMatch => ImageInvariant'
<1> SUFFICES ASSUME ImageInvariant, Image!HeadersMatch PROVE ImageInvariant'
  OBVIOUS
<1>1. /\ image_step = "headers" /\ image_error = "none" /\ ~ Image!LayoutWrong
      /\ image_index = header.headers_size
      /\ changed \notin 0 .. image_index - 1
  BY DEF Image!HeadersMatch, ImageInvariant, ComparedSoFar
<1>2. /\ image_step' = "image" /\ image_index' = 1
      /\ UNCHANGED <<header, sections, entered, anchors, changed, image_error>>
  BY DEF Image!HeadersMatch
<1>3. ImageTypeOK' /\ LinesAccepted' /\ ~ Image!LayoutWrong'
  BY <1>1, <1>2, FileKept DEF ImageInvariant, ImageTypeOK
<1>4. ComparedSoFar'
  <2>1. \A i \in 1 .. Len(anchors) : i \in Located
    BY <1>1 DEF ImageInvariant, ComparedSoFar
  <2>2. \A i \in 1 .. Len(anchors') : i \in Located'
    BY <1>2, <2>1, FileKept
  <2>3. \A i \in 1 .. Len(anchors') : ~ (i < image_index')
    BY <1>2
  <2> QED
    BY <1>1, <1>2, <2>2, <2>3 DEF ComparedSoFar
<1>5. AccusedForCause' /\ image_error' = "none"
  BY <1>1, <1>2 DEF AccusedForCause, Accusations
<1> QED
  BY <1>2, <1>3, <1>4, <1>5 DEF ImageInvariant

\* check_mapped_observation, an anchor: only the changed byte can differ.
LEMMA MatchImageKeeps == ImageInvariant /\ Image!MatchImage => ImageInvariant'
<1> SUFFICES ASSUME ImageInvariant, Image!MatchImage PROVE ImageInvariant'
  OBVIOUS
<1> DEFINE a == anchors[image_index]
           mapped == [k \in 0 .. a.length - 1 |-> Image!Mapped(a.rva + k)]
<1>1. /\ image_step = "image" /\ image_error = "none" /\ ~ Image!LayoutWrong /\ image_index \in Nat
      /\ image_index > 0
      /\ image_index <= Len(anchors) /\ header \in Headers /\ sections \in Seq(Sections) /\ LinesAccepted
      /\ anchors \in Seq(Anchors) /\ changed \in {Image!None} \cup Nat
      /\ \A i \in 1 .. Len(anchors) : i \in Located
      /\ \A i \in 1 .. Len(anchors) : i < image_index => changed \notin Image!Covered(anchors[i])
      /\ changed \notin 0 .. header.headers_size - 1
  BY DEF Image!MatchImage, ImageInvariant, ImageTypeOK, ComparedSoFar
<1>2. image_index \in 1 .. Len(anchors) /\ DOMAIN anchors = 1 .. Len(anchors) /\ Len(anchors) \in Nat
  BY <1>1
<1>3. a \in Anchors /\ a.rva \in Nat /\ a.length \in Nat /\ Image!raw_offset(a.rva, a.length) # Image!None
  BY <1>1, <1>2, ImageFields DEF Located
<1>4. \/ Image!Deny("invalid_anchor") \/ Image!Deny("unreadable_image")
      \/ /\ Image!valid_anchor(a)
         /\ \A rva \in Image!Covered(a) : Image!InPages(sections[a.section_index], rva)
         /\ \/ mapped # Image!Bytes(a) /\ Image!Deny("anchor_mismatch")
            \/ /\ mapped = Image!Bytes(a) /\ image_index' = image_index + 1
               /\ UNCHANGED <<image_step, header, sections, entered, anchors, changed, image_error>>
  BY DEF Image!MatchImage
<1> HIDE DEF a
<1>5. Image!Covered(a) = a.rva .. a.rva + a.length - 1
  BY DEF Image!Covered, Image!Span
<1>6. CASE Image!Deny("invalid_anchor") \/ Image!Deny("unreadable_image")
  BY <1>1, <1>6, DenyKeeps DEF Accusations
<1>7. CASE /\ Image!valid_anchor(a)
           /\ \A rva \in Image!Covered(a) : Image!InPages(sections[a.section_index], rva)
           /\ mapped # Image!Bytes(a) /\ Image!Deny("anchor_mismatch")
  <2>1. PICK k \in 0 .. a.length - 1 : Image!Mapped(a.rva + k) # Image!raw_offset(a.rva, a.length) + k
    BY <1>7 DEF Image!Bytes
  <2>2. a.rva + k \in Image!Covered(a)
    BY <1>3, <1>5
  <2>3. a.rva + k = changed
    BY <1>1, <1>3, <1>7, <2>1, <2>2, AnchorMapped
  <2>4. changed \in Image!Watched
    BY <1>2, <2>2, <2>3 DEF Image!Watched, a
  <2> QED
    BY <1>1, <1>7, <2>4, DenyKeeps
<1>8. CASE /\ mapped = Image!Bytes(a) /\ image_index' = image_index + 1
           /\ UNCHANGED <<image_step, header, sections, entered, anchors, changed, image_error>>
  <2>1. ImageTypeOK' /\ LinesAccepted' /\ ~ Image!LayoutWrong'
    BY <1>1, <1>8, FileKept DEF ImageInvariant, ImageTypeOK
  <2>2. changed \notin Image!Covered(a)
    <3> SUFFICES ASSUME changed \in Image!Covered(a) PROVE FALSE
      OBVIOUS
    <3> DEFINE k == changed - a.rva
    <3>1. k \in 0 .. a.length - 1 /\ a.rva + k = changed
      BY <1>3, <1>5
    <3> HIDE DEF k
    <3>2. Image!Mapped(a.rva + k) = Image!raw_offset(a.rva, a.length) + k
      BY <1>8, <3>1 DEF Image!Bytes
    <3>3. Image!Mapped(a.rva + k) = Image!None
      BY <3>1 DEF Image!Mapped
    <3>4. Image!raw_offset(a.rva, a.length) \in Nat
      BY <1>1, <1>3, PlaceTyped
    <3> QED
      BY <3>1, <3>2, <3>3, <3>4 DEF Image!None
  <2>3. ASSUME NEW i \in 1 .. Len(anchors), i < image_index + 1
        PROVE  changed \notin Image!Covered(anchors[i])
    <3>1. i < image_index \/ i = image_index
      BY <1>1, <2>3
    <3> QED
      BY <1>1, <2>2, <3>1 DEF a
  <2>4. \A i \in 1 .. Len(anchors') : i < image_index' => changed' \notin Image!Covered(anchors'[i])
    BY <1>8, <2>3
  <2>5. \A i \in 1 .. Len(anchors') : i \in Located'
    BY <1>1, <1>8, FileKept
  <2>6. image_index' > 0
    BY <1>1, <1>8
  <2>7. ComparedSoFar'
    BY <1>1, <1>8, <2>4, <2>5, <2>6 DEF ComparedSoFar, Image!Covered
  <2>8. AccusedForCause' /\ image_error' = "none"
    BY <1>1, <1>8 DEF AccusedForCause, Accusations
  <2> QED
    BY <1>1, <1>8, <2>1, <2>7, <2>8 DEF ImageInvariant
<1> QED
  BY <1>4, <1>6, <1>7, <1>8

\* All anchors are compared, so the changed byte is in none of them.
LEMMA ImageMatchesKeeps == ImageInvariant /\ Image!ImageMatches => ImageInvariant'
<1> SUFFICES ASSUME ImageInvariant, Image!ImageMatches PROVE ImageInvariant'
  OBVIOUS
<1>1. /\ image_step = "image" /\ image_error = "none" /\ ~ Image!LayoutWrong /\ image_index \in Nat
      /\ image_index > Len(anchors)
      /\ anchors \in Seq(Anchors)
      /\ \A i \in 1 .. Len(anchors) : i \in Located
      /\ \A i \in 1 .. Len(anchors) : i < image_index => changed \notin Image!Covered(anchors[i])
      /\ changed \notin 0 .. header.headers_size - 1
  BY DEF Image!ImageMatches, ImageInvariant, ImageTypeOK, ComparedSoFar
<1>2. image_step' = "matched"
      /\ UNCHANGED <<header, sections, entered, anchors, image_index, changed, image_error>>
  BY DEF Image!ImageMatches
<1>3. ImageTypeOK' /\ LinesAccepted' /\ ~ Image!LayoutWrong'
  BY <1>1, <1>2, FileKept DEF ImageInvariant, ImageTypeOK
<1>4. changed \notin Image!Watched
  <2>1. \A i \in DOMAIN anchors : i \in 1 .. Len(anchors) /\ i < image_index
    BY <1>1
  <2> QED
    BY <1>1, <2>1 DEF Image!Watched
<1>5. UNCHANGED Image!Watched
  BY <1>2 DEF Image!Watched, Image!Covered
<1>6. \A i \in 1 .. Len(anchors') : i \in Located'
  BY <1>1, <1>2, FileKept
<1>7. ComparedSoFar'
  BY <1>2, <1>4, <1>5, <1>6 DEF ComparedSoFar
<1>8. AccusedForCause' /\ image_error' = "none"
  BY <1>1, <1>2 DEF AccusedForCause, Accusations
<1> QED
  BY <1>2, <1>3, <1>7, <1>8 DEF ImageInvariant

\* Every step keeps the invariant.
LEMMA ImageStep == ImageInvariant /\ [Image!Next]_(Image!vars) => ImageInvariant'
<1> SUFFICES ASSUME ImageInvariant, [Image!Next]_(Image!vars) PROVE ImageInvariant'
  OBVIOUS
<1>1. CASE UNCHANGED Image!vars
  <2>1. UNCHANGED <<image_step, header, sections, anchors, image_index, changed, image_error>>
    BY <1>1 DEF Image!vars
  <2>2. ImageTypeOK' /\ LinesAccepted' /\ UNCHANGED Image!Watched /\ UNCHANGED Image!LayoutWrong
    BY <2>1, FileKept DEF ImageInvariant, ImageTypeOK, Image!Watched, Image!Covered
  <2>3. ComparedSoFar'
    <3>1. \A i : UNCHANGED Image!Covered(anchors[i])
      BY <2>1 DEF Image!Covered
    <3> QED
      BY <2>1, <2>2, <3>1, FileKept DEF ImageInvariant, ComparedSoFar
  <2>4. AccusedForCause'
    BY <2>1, <2>2 DEF ImageInvariant, AccusedForCause
  <2> QED
    BY <2>1, <2>2, <2>3, <2>4 DEF ImageInvariant
<1> QED
  BY <1>1, HeaderKeeps, SectionKeeps, ParsedKeeps, MatchFileKeeps, MapKeeps, MatchHeadersKeeps,
     HeadersMatchKeeps, MatchImageKeeps, ImageMatchesKeeps DEF Image!Next

\* At the start nothing is parsed.
LEMMA ImageStart == Image!Init => ImageInvariant
<1> SUFFICES ASSUME Image!Init PROVE ImageInvariant
  OBVIOUS
<1>1. /\ header \in Headers /\ image_step = "header" /\ sections = << >> /\ anchors = << >>
      /\ image_index = 1 /\ changed = Image!None /\ image_error = "none"
  BY DEF Image!Init
<1>2. sections \in Seq(Sections) /\ Len(sections) = 0 /\ anchors \in Seq(Anchors)
  BY <1>1
<1> QED
  BY <1>1, <1>2 DEF ImageInvariant, ImageTypeOK, LinesAccepted, ComparedSoFar, AccusedForCause, Accusations

\* The invariant gives what is to be shown.
LEMMA InvariantMatches == ImageInvariant => FileMatchesMapping
<1> SUFFICES ASSUME ImageInvariant PROVE FileMatchesMapping
  OBVIOUS
<1>1. image_step \notin {"header", "refused"} => Image!Placed
  BY LinesPlaced DEF ImageInvariant, ImageTypeOK
<1>2. image_step = "matched" => changed \notin Image!Watched
  BY DEF ImageInvariant, ComparedSoFar
<1> QED
  BY <1>1, <1>2 DEF ImageInvariant, AccusedForCause, Accusations, FileMatchesMapping, Image!FileMatchesMapping

\* parse_pe32, match_file_observation and check_mapped_observation: the pages and
\* bytes of the sections of an accepted file are apart, a file and mapping that
\* match agree on all that is compared, and a readable mapping is denied as
\* different only for a changed byte among it or an anchor of another file.
THEOREM FileAndMappingAgree == Image!Spec => []FileMatchesMapping
<1>1. Image!Init => ImageInvariant
  BY ImageStart
<1>2. ImageInvariant /\ [Image!Next]_(Image!vars) => ImageInvariant'
  BY ImageStep
<1>3. ImageInvariant => FileMatchesMapping
  BY InvariantMatches
<1> QED
  BY <1>1, <1>2, <1>3, PTL DEF Image!Spec
=============================================================================
