------------------------- MODULE WeightsCacheProofs -------------------------
(***************************************************************************)
(* One model is resident in a worker and fits its card, and what is on the *)
(* shelf is spare, for any models, cards and budgets.  The folds over the  *)
(* residents and over the shelf stay within reach because neither ever     *)
(* holds two models.                                                       *)
(***************************************************************************)
EXTENDS WeightsCache, FiniteSetTheorems, SequenceTheorems, TLAPS

-----------------------------------------------------------------------------
(* What the folds add up, for nothing and for one model *)

Weight(m) == Gguf(m).weight
Chosen(s) == CHOOSE x \in s : TRUE

\* The sums over the parts of S, as the fold takes them.
Sums(f, S, Term(_)) == f = [s \in SUBSET S |-> IF s = {} THEN 0 ELSE f[s \ {Chosen(s)}] + Term(Chosen(s))]

\* The fold of Held takes such sums.
LEMMA HeldFolds ==
    ASSUME NEW g
    PROVE  Held(g) = (CHOOSE f : Sums(f, DOMAIN g, LAMBDA m : Share(m, g[m].layers)))[DOMAIN g]
BY DEF Held, FoldSet, MapThenFoldSet, Sums, Chosen

\* So does that of ShelfGb.
LEMMA ShelfFolds ==
    ASSUME NEW s
    PROVE  ShelfGb(s) = (CHOOSE f : Sums(f, DOMAIN s, LAMBDA i : Weight(s[i])))[DOMAIN s]
BY DEF ShelfGb, FoldSeq, FoldFunction, FoldFunctionOnSet, MapThenFoldSet, Sums, Chosen, Weight

\* Nothing takes no memory.
LEMMA NothingHeld == Held(Nothing) = 0
<1>1. DOMAIN Nothing = {}
  BY DEF Nothing
<1> DEFINE F == [s \in SUBSET {} |-> 0]
           Is(f) == Sums(f, DOMAIN Nothing, LAMBDA m : Share(m, Nothing[m].layers))
<1>2. Is(F)
  BY <1>1 DEF Sums
<1>3. Is(CHOOSE f : Is(f))
  BY <1>2, Zenon
<1>4. Held(Nothing) = (CHOOSE f : Is(f))[DOMAIN Nothing]
  BY HeldFolds
<1>5. \A f : Is(f) => f[{}] = 0
  BY <1>1 DEF Sums
<1> HIDE DEF Is
<1> QED BY <1>1, <1>3, <1>4, <1>5

\* A single resident takes its share.
LEMMA OneHeld ==
    ASSUME NEW m, NEW g, DOMAIN g = {m}, Share(m, g[m].layers) \in Int
    PROVE  Held(g) = Share(m, g[m].layers)
<1> DEFINE Term(x) == Share(x, g[x].layers)
           F == [s \in SUBSET {m} |-> IF s = {} THEN 0 ELSE Term(m)]
           Is(f) == f = [s \in SUBSET {m} |-> IF s = {} THEN 0 ELSE f[s \ {Chosen(s)}] + Term(Chosen(s))]
<1>0. /\ \A s \in SUBSET {m} : s = {} \/ s = {m}
      /\ Chosen({m}) = m /\ {m} # {} /\ {m} \ {m} = {} /\ {} \in SUBSET {m} /\ {m} \in SUBSET {m}
  BY DEF Chosen
<1>1. Held(g) = (CHOOSE f : Is(f))[{m}]
  BY HeldFolds DEF Sums
<1>a. Term(m) \in Int
  OBVIOUS
<1> HIDE DEF Term
<1>2. Is(F)
  <2>1. \A s \in SUBSET {m} : F[s] = IF s = {} THEN 0 ELSE F[s \ {Chosen(s)}] + Term(Chosen(s))
    <3> TAKE s \in SUBSET {m}
    <3>1. CASE s = {}
      BY <3>1
    <3>2. CASE s = {m}
      <4>1. s \ {Chosen(s)} = {} /\ Chosen(s) = m /\ s # {}
        BY <3>2, <1>0
      <4>2. F[{}] = 0
        BY <1>0
      <4>3. F[s] = Term(m)
        BY <4>1
      <4> QED BY <4>1, <4>2, <4>3, <1>a
    <3> QED BY <3>1, <3>2, <1>0
  <2> QED BY <2>1
<1>3. Is(CHOOSE f : Is(f))
  BY <1>2, Zenon
<1>5. \A f : Is(f) => f[{m}] = Term(m)
  <2> TAKE f
  <2> HAVE Is(f)
  <2>0. \A s \in SUBSET {m} : f[s] = IF s = {} THEN 0 ELSE f[s \ {Chosen(s)}] + Term(Chosen(s))
    BY Zenon
  <2> HIDE DEF Is
  <2>1. f[{}] = 0
    BY <1>0, <2>0, Zenon
  <2>2. f[{m}] = f[{m} \ {Chosen({m})}] + Term(Chosen({m}))
    BY <1>0, <2>0, Zenon
  <2>3. f[{m}] = 0 + Term(m)
    BY <1>0, <2>1, <2>2, Zenon
  <2> QED BY <1>a, <2>3
<1> HIDE DEF Is
<1>6. Held(g) = Term(m)
  BY <1>1, <1>3, <1>5
<1> QED BY <1>6 DEF Term

\* An empty shelf weighs nothing.
LEMMA EmptyShelf == ShelfGb(<<>>) = 0
<1>1. DOMAIN <<>> = {}
  OBVIOUS
<1> DEFINE F == [s \in SUBSET {} |-> 0]
           Is(f) == Sums(f, DOMAIN <<>>, LAMBDA i : Weight(<<>>[i]))
<1>2. Is(F)
  BY <1>1 DEF Sums
<1>3. Is(CHOOSE f : Is(f))
  BY <1>2, Zenon
<1>4. ShelfGb(<<>>) = (CHOOSE f : Is(f))[DOMAIN <<>>]
  BY ShelfFolds
<1>5. \A f : Is(f) => f[{}] = 0
  BY <1>1 DEF Sums
<1> HIDE DEF Is
<1> QED BY <1>1, <1>3, <1>4, <1>5

\* A shelf of one model weighs what the model does.
LEMMA OneOnShelf ==
    ASSUME NEW m, Weight(m) \in Int
    PROVE  ShelfGb(<<m>>) = Weight(m)
<1>1. DOMAIN <<m>> = {1} /\ <<m>>[1] = m
  OBVIOUS
<1> DEFINE F == [s \in SUBSET {1} |-> IF s = {} THEN 0 ELSE Weight(m)]
           Is(f) == Sums(f, DOMAIN <<m>>, LAMBDA i : Weight(<<m>>[i]))
<1>0. /\ \A s \in SUBSET {1} : s = {} \/ s = {1}
      /\ Chosen({1}) = 1 /\ {1} \ {1} = {}
  BY DEF Chosen
<1>2. Is(F)
  <2>1. \A s \in SUBSET {1} :
           F[s] = IF s = {} THEN 0 ELSE F[s \ {Chosen(s)}] + Weight(<<m>>[Chosen(s)])
    <3> TAKE s \in SUBSET {1}
    <3>1. CASE s = {}
      BY <3>1
    <3>2. CASE s = {1}
      <4>1. s \ {Chosen(s)} = {} /\ Chosen(s) = 1 /\ s # {}
        BY <3>2, <1>0
      <4>2. F[{}] = 0 /\ F[s] = Weight(m)
        BY <4>1
      <4>3. Weight(<<m>>[Chosen(s)]) = Weight(m)
        BY <4>1, <1>1
      <4> HIDE DEF F
      <4>4. F[s \ {Chosen(s)}] = 0
        BY <4>1, <4>2
      <4>5. F[s \ {Chosen(s)}] + Weight(<<m>>[Chosen(s)]) = 0 + Weight(m)
        BY <4>3, <4>4, Zenon
      <4>6. 0 + Weight(m) = Weight(m)
        OBVIOUS
      <4> QED BY <4>1, <4>2, <4>5, <4>6, Zenon
    <3> QED BY <3>1, <3>2, <1>0
  <2> QED BY <2>1, <1>1 DEF Sums
<1>3. Is(CHOOSE f : Is(f))
  BY <1>2, Zenon
<1>4. ShelfGb(<<m>>) = (CHOOSE f : Is(f))[DOMAIN <<m>>]
  BY ShelfFolds
<1>5. \A f : Is(f) => f[{1}] = Weight(m)
  <2> TAKE f
  <2> HAVE Is(f)
  <2>0. \A s \in SUBSET {1} :
           f[s] = IF s = {} THEN 0 ELSE f[s \ {Chosen(s)}] + Weight(<<m>>[Chosen(s)])
    BY <1>1 DEF Sums
  <2> HIDE DEF Is
  <2>1. {} \in SUBSET {1} /\ {1} \in SUBSET {1} /\ {1} # {}
    OBVIOUS
  <2>2. f[{}] = 0
    BY <2>0, <2>1, Zenon
  <2>3. f[{1}] = f[{1} \ {Chosen({1})}] + Weight(<<m>>[Chosen({1})])
    BY <2>0, <2>1, Zenon
  <2>4. f[{1}] = f[{}] + Weight(<<m>>[1])
    BY <1>0, <2>3
  <2>5. f[{1}] = 0 + Weight(m)
    BY <1>1, <2>2, <2>4
  <2> QED BY <2>5
<1> HIDE DEF Is
<1> QED BY <1>1, <1>3, <1>4, <1>5
-----------------------------------------------------------------------------
(* The shelf *)

\* A shelf that holds one model at most, within the budget.
Shelf == {<<>>} \cup {<<x>> : x \in {y \in Model : Weight(y) <= RamBudget}}

\* The weights of a model are a number.
LEMMA Weighs == ASSUME NEW m \in Model PROVE Weight(m) \in Nat
BY WeightsAssumption DEF Weight

\* A part of one element.
LEMMA PartOfOne ==
    ASSUME NEW s, NEW i \in Int
    PROVE  SubSeq(s, i, i) = <<s[i]>>
<1> DEFINE S == {s[i]}
<1>1. \A k \in i..i : s[k] \in S
  OBVIOUS
<1>2. /\ SubSeq(s, i, i) \in Seq(S)
      /\ Len(SubSeq(s, i, i)) = 1
      /\ SubSeq(s, i, i)[1] = s[i]
  BY <1>1, SubSeqProperties
<1>3. <<s[i]>> \in Seq(S) /\ Len(<<s[i]>>) = 1 /\ <<s[i]>>[1] = s[i]
  OBVIOUS
<1>4. \A k \in 1..1 : SubSeq(s, i, i)[k] = <<s[i]>>[k]
  BY <1>2, <1>3
<1> HIDE DEF S
<1> QED BY <1>2, <1>3, <1>4, SeqEqual

\* A model put on a shelf of at most one other.
LEMMA AppendsOne ==
    ASSUME NEW m, NEW x
    PROVE  Append(<<>>, x) = <<x>> /\ Append(<<m>>, x) = <<m, x>>
<1> DEFINE S == {m, x}
<1>1. <<m>> \in Seq(S) /\ <<>> \in Seq(S) /\ <<m, x>> \in Seq(S) /\ <<x>> \in Seq(S)
  OBVIOUS
<1>2. Append(<<>>, x) \in Seq(S) /\ Append(<<m>>, x) \in Seq(S)
  BY <1>1
<1>3. /\ Len(Append(<<m>>, x)) = 2 /\ Len(<<m, x>>) = 2
      /\ Append(<<m>>, x)[1] = m /\ Append(<<m>>, x)[2] = x
  OBVIOUS
<1>4. Append(<<m>>, x) = <<m, x>>
  <2>1. \A i \in 1..2 : Append(<<m>>, x)[i] = <<m, x>>[i]
    <3>1. \A i \in 1..2 : i = 1 \/ i = 2
      OBVIOUS
    <3> QED BY <1>3, <3>1
  <2> HIDE DEF S
  <2> QED BY <1>1, <1>2, <1>3, <2>1, SeqEqual
<1>5. Append(<<>>, x) = <<x>>
  OBVIOUS
<1> QED BY <1>4, <1>5

\* To trim a shelf of at most one model leaves it or empties it, and a model
\* that was to be fitted in is within the budget then, or the shelf is empty.
LEMMA Trims ==
    ASSUME NEW x \in Model, NEW m \in Model, NEW s \in {<<>>, <<m>>}
    PROVE  TrimRamLru(s, Weight(x)) \in {<<>>, <<m>>}
<1> DEFINE fits == {k \in 0..Len(s) : ShelfGb(SubSeq(s, k + 1, Len(s))) + Weight(x) <= RamBudget}
           H == fits \cup {Len(s)}
<1>1. (\A k \in H : k = 0 \/ k = 1) /\ H # {} /\ Len(s) \in {0, 1}
  <2>1. Len(s) \in {0, 1}
    <3>1. CASE s = <<>>
      BY <3>1
    <3>2. CASE s = <<m>>
      BY <3>2
    <3> QED BY <3>1, <3>2
  <2>2. \A k \in 0..Len(s) : k = 0 \/ k = 1
    <3>1. CASE Len(s) = 0
      BY <3>1
    <3>2. CASE Len(s) = 1
      BY <3>2
    <3> QED BY <2>1, <3>1, <3>2
  <2> QED BY <2>1, <2>2
<1>2. TrimRamLru(s, Weight(x)) = SubSeq(s, Min(H) + 1, Len(s))
  BY DEF TrimRamLru
<1> HIDE DEF H, fits
<1>3. Min(H) \in {0, 1}
  <2>1. \E k \in H : \A i \in H : k =< i
    <3>1. CASE 0 \in H
      BY <1>1, <3>1
    <3>2. CASE 0 \notin H
      BY <1>1, <3>2
    <3> QED BY <3>1, <3>2
  <2>2. Min(H) \in H
    BY <2>1 DEF Min
  <2> QED BY <1>1, <2>2
<1>4. \A k \in {0, 1} : SubSeq(s, k + 1, Len(s)) \in {<<>>, <<m>>}
  <2>1. CASE s = <<>>
    BY <2>1
  <2>2. CASE s = <<m>>
    <3>1. SubSeq(<<m>>, 1, 1) = <<m>> /\ SubSeq(<<m>>, 2, 1) = <<>>
      BY PartOfOne, SubSeqEmpty
    <3>2. Len(s) = 1
      BY <2>2
    <3> QED BY <2>2, <3>1, <3>2
  <2> QED BY <2>1, <2>2
<1> QED BY <1>2, <1>3, <1>4

\* To remove a model from a shelf that begins with it leaves the rest.
LEMMA Removes ==
    ASSUME NEW m, NEW x, x # m
    PROVE  /\ RemoveFirst(<<>>, m) = <<>>
           /\ RemoveFirst(<<m>>, m) = <<>>
           /\ RemoveFirst(<<x>>, m) = <<x>>
           /\ RemoveFirst(<<m, x>>, m) = <<x>>
<1>1. RemoveFirst(<<>>, m) = <<>>
  BY DEF RemoveFirst
<1>2. RemoveFirst(<<x>>, m) = <<x>>
  <2>1. ~\E i \in 1..Len(<<x>>) : <<x>>[i] = m
    OBVIOUS
  <2> QED BY <2>1, Zenon DEF RemoveFirst
<1>3. ASSUME NEW s, s \in {<<m>>, <<m, x>>}
      PROVE  RemoveFirst(s, m) = SubSeq(s, 1, 0) \o SubSeq(s, 2, Len(s))
  <2> DEFINE I == {i \in 1..Len(s) : s[i] = m}
  <2>1. I = {1} /\ \E i \in 1..Len(s) : s[i] = m
    BY <1>3
  <2>2. Min({1}) = 1
    BY DEF Min
  <2>3. SelectInSeq(s, LAMBDA v : v = m) = 1
    BY <2>1, <2>2 DEF SelectInSeq
  <2>4. RemoveFirst(s, m) = RemoveAt(s, 1)
    BY <2>1, <2>3 DEF RemoveFirst
  <2> QED BY <2>4 DEF RemoveAt
<1>4. RemoveFirst(<<m>>, m) = <<>>
  BY <1>3
<1>5. RemoveFirst(<<m, x>>, m) = <<x>>
  <2>1. RemoveFirst(<<m, x>>, m) = SubSeq(<<m, x>>, 1, 0) \o SubSeq(<<m, x>>, 2, 2)
    BY <1>3
  <2>2. SubSeq(<<m, x>>, 1, 0) = <<>> /\ SubSeq(<<m, x>>, 2, 2) = <<x>>
    BY PartOfOne, SubSeqEmpty
  <2> QED BY <2>1, <2>2
<1> QED BY <1>1, <1>2, <1>4, <1>5

\* What a cold load of m leaves on the shelf: nothing, or what was resident.
LEMMA ShelvesOthers ==
    ASSUME NEW m \in Model, shelf \in Shelf, DOMAIN gpu \subseteq Model,
           card = "metal" => shelf = <<>>, NEW s \in Shelved(m)
    PROVE  /\ RemoveFirst(s, m) \in Shelf
           /\ m \notin ToSet(RemoveFirst(s, m))
           /\ card = "metal" => RemoveFirst(s, m) = <<>>
<1> DEFINE kept == IF m \in ToSet(shelf) THEN <<m>> ELSE <<>>
           out == DOMAIN gpu \ {m}
           x == CHOOSE y \in out : TRUE
           t == TrimRamLru(kept, Weight(x))
<1>a. ToSet(<<>>) = {} /\ \A y : ToSet(<<y>>) = {y}
  BY DEF ToSet
<1>1. kept \in {<<>>, <<m>>}
  OBVIOUS
<1>2. PICK y : y # m
  OBVIOUS
<1>3. CASE out = {} \/ card = "metal"
  <2>1. s = kept
    BY <1>3 DEF Shelved
  <2>2. RemoveFirst(s, m) = <<>>
    BY <1>1, <1>2, <2>1, Removes
  <2> QED BY <1>a, <2>2 DEF Shelf
<1>4. CASE ~(out = {} \/ card = "metal")
  <2>1. x \in Model /\ x # m
    BY <1>4
  <2>2. t \in {<<>>, <<m>>}
    BY <1>1, <2>1, Trims
  <2>3. s \in {t} \cup IF ShelfGb(t) + Weight(x) <= RamBudget THEN {Append(t, x)} ELSE {}
    BY <1>4 DEF Shelved, TryShelve, Weight
  <2> HIDE DEF kept, x, t
  <2>4. CASE s = t
    <3>0. RemoveFirst(<<>>, m) = <<>> /\ RemoveFirst(<<m>>, m) = <<>>
      BY <2>1, Removes
    <3>1. RemoveFirst(s, m) = <<>>
      BY <2>2, <2>4, <3>0
    <3> QED BY <1>a, <3>1, <1>4 DEF Shelf
  <2>5. CASE s # t
    <3>1. s = Append(t, x) /\ ShelfGb(t) + Weight(x) <= RamBudget
      BY <2>3, <2>5
    <3>2. s = <<x>> \/ s = <<m, x>>
      <4>1. Append(<<>>, x) = <<x>> /\ Append(<<m>>, x) = <<m, x>>
        BY AppendsOne
      <4> QED BY <2>2, <3>1, <4>1, Zenon
    <3>3. RemoveFirst(s, m) = <<x>>
      BY <2>1, <3>2, Removes
    <3>4. ShelfGb(t) \in Nat
      BY <2>2, EmptyShelf, OneOnShelf, Weighs
    <3>5. Weight(x) <= RamBudget
      BY <2>1, <3>1, <3>4, Weighs, WeightsAssumption
    <3> QED BY <1>a, <1>4, <2>1, <3>3, <3>5 DEF Shelf
  <2> QED BY <2>4, <2>5
<1> QED BY <1>3, <1>4
-----------------------------------------------------------------------------
(* The cascade *)

\* Natural numbers divide into natural numbers.
LEMMA Divides == ASSUME NEW a \in Nat, NEW b \in Nat \ {0} PROVE a \div b \in Nat
OBVIOUS

\* Lists of at most n labels.
Label5 == {"gpu-full", "gpu-offload", "gpu-offload-reduced", "cpu-only", "cpu-metal"}
Labels(n) == {l \in Seq(Label5) : Len(l) <= n}

\* A shorter list is one of the longer ones.
LEMMA Longer ==
    ASSUME NEW a \in Nat, NEW b \in Nat, a <= b
    PROVE  Labels(a) \subseteq Labels(b)
<1> SUFFICES ASSUME NEW l \in Labels(a) PROVE l \in Labels(b)
  OBVIOUS
<1>1. l \in Seq(Label5) /\ Len(l) <= a
  BY DEF Labels
<1>2. Len(l) \in Nat
  BY <1>1, LenProperties
<1> QED BY <1>1, <1>2 DEF Labels

\* Two lists after one another.
LEMMA Joins ==
    ASSUME NEW a \in Nat, NEW b \in Nat, NEW k \in Labels(a), NEW l \in Labels(b)
    PROVE  k \o l \in Labels(a + b)
<1>1. k \in Seq(Label5) /\ Len(k) <= a /\ l \in Seq(Label5) /\ Len(l) <= b
  BY DEF Labels
<1>2. Len(k) \in Nat /\ Len(l) \in Nat
  BY <1>1, LenProperties
<1>3. k \o l \in Seq(Label5) /\ Len(k \o l) = Len(k) + Len(l)
  BY <1>1, ConcatProperties
<1> QED BY <1>1, <1>2, <1>3 DEF Labels

\* No label, and one.
LEMMA FewLabels == <<>> \in Labels(0) /\ \A x \in Label5 : <<x>> \in Labels(1)
<1>1. <<>> \in Labels(0)
  BY EmptySeq DEF Labels
<1>2. ASSUME NEW S, NEW x \in S
      PROVE  <<x>> \in Seq(S) /\ Len(<<x>>) = 1
  OBVIOUS
<1>3. \A x \in Label5 : <<x>> \in Seq(Label5) /\ Len(<<x>>) <= 1
  BY <1>2
<1> QED BY <1>1, <1>3 DEF Labels

\* A load has four candidates at most.
LEMMA Cascade ==
    ASSUME NEW m, NEW free, NEW broken
    PROVE  Candidates(m, free, broken) \in Labels(4)
<1> DEFINE A == IF free >= Gguf(m).weight + Gguf(m).extra THEN <<"gpu-full">> ELSE <<>>
           B == IF OffloadLayers(m, free) >= 1 THEN <<"gpu-offload">> ELSE <<>>
           C == IF OffloadLayers(m, free) >= 2 THEN <<"gpu-offload-reduced">> ELSE <<>>
<1>0. Labels(0) \subseteq Labels(1) /\ Labels(0) \subseteq Labels(3) /\ Labels(0) \subseteq Labels(4)
      /\ Labels(1) \subseteq Labels(4) /\ Labels(3) \subseteq Labels(4)
  BY Longer
<1>1. /\ <<"gpu-full">> \in Labels(1) /\ <<"gpu-offload">> \in Labels(1)
      /\ <<"gpu-offload-reduced">> \in Labels(1)
      /\ <<"cpu-only">> \in Labels(1) /\ <<"cpu-metal">> \in Labels(1)
  BY FewLabels DEF Label5
<1>2. <<>> \in Labels(0)
  BY FewLabels
<1>3. A \in Labels(1) /\ B \in Labels(1) /\ C \in Labels(1)
  BY <1>0, <1>1, <1>2
<1>4. GpuLabels(m, free) = A \o B \o C
  BY DEF GpuLabels
<1> HIDE DEF A, B, C
<1>5. A \o B \in Labels(1 + 1)
  BY <1>3, Joins
<1>6. GpuLabels(m, free) \in Labels((1 + 1) + 1)
  <2>1. 1 + 1 \in Nat
    OBVIOUS
  <2> QED BY <1>3, <1>4, <1>5, <2>1, Joins
<1>7. GpuLabels(m, free) \in Labels(3)
  <2>1. (1 + 1) + 1 = 3
    OBVIOUS
  <2> QED BY <1>6, <2>1
<1>8. CASE card = "cpu"
  BY <1>0, <1>1, <1>8 DEF Candidates
<1>9. CASE card = "metal"
  <2> DEFINE G == IF broken THEN <<>> ELSE GpuLabels(m, free)
  <2>1. G \in Labels(3)
    BY <1>0, <1>2, <1>7
  <2>2. Candidates(m, free, broken) = G \o <<"cpu-metal">>
    BY <1>9 DEF Candidates
  <2> HIDE DEF G
  <2>3. Candidates(m, free, broken) \in Labels(3 + 1)
    BY <1>1, <2>1, <2>2, Joins
  <2>4. 3 + 1 = 4
    OBVIOUS
  <2> QED BY <2>3, <2>4
<1>10. CASE card # "cpu" /\ card # "metal"
  BY <1>0, <1>7, <1>10 DEF Candidates
<1> QED BY <1>8, <1>9, <1>10

\* Of some places of four, one is the first.
LEMMA FirstOfFour ==
    ASSUME NEW H \in SUBSET (1..4), H # {}
    PROVE  Min(H) \in H
<1>0. \A i \in H : i = 1 \/ i = 2 \/ i = 3 \/ i = 4
  <2>1. \A i \in 1..4 : i = 1 \/ i = 2 \/ i = 3 \/ i = 4
    OBVIOUS
  <2> QED BY <2>1
<1>1. \E i \in H : \A k \in H : i =< k
  <2>1. CASE 1 \in H
    BY <1>0, <2>1
  <2>2. CASE 1 \notin H /\ 2 \in H
    BY <1>0, <2>2
  <2>3. CASE 1 \notin H /\ 2 \notin H /\ 3 \in H
    BY <1>0, <2>3
  <2>4. CASE 1 \notin H /\ 2 \notin H /\ 3 \notin H
    <3>1. \A k \in H : k = 4
      BY <1>0, <2>4, Zenon
    <3>2. 4 \in H
      BY <3>1, Zenon
    <3>3. \A k \in H : 4 =< k
      BY <3>1
    <3> QED BY <3>2, <3>3
  <2> QED BY <2>1, <2>2, <2>3, <2>4
<1> QED BY <1>1 DEF Min

\* The next candidate is one of the list, or past its end.
LEMMA Follows ==
    ASSUME NEW labels \in Labels(4), NEW failed
    PROVE  /\ Below(labels, failed) \in 0..Len(labels)
           /\ NextCpuCascadeIndex(labels) \in 0..Len(labels)
           /\ NextCpuCascadeIndex(labels) < Len(labels)
                => IsCpuLabel(labels[NextCpuCascadeIndex(labels) + 1])
<1> DEFINE n == Len(labels)
           Cpu == {i \in 1..n : IsCpuLabel(labels[i])}
           Other == {i \in 1..n : labels[i] # "gpu-full"}
           Same == {i \in 1..n : labels[i] = failed}
           At(H) == IF H = {} THEN n ELSE Min(H) - 1
<1>0. n \in Nat /\ n <= 4
  BY LenProperties DEF Labels
<1>1. ASSUME NEW H \in SUBSET (1..n)
      PROVE  At(H) \in 0..n /\ (H # {} => At(H) + 1 \in H /\ At(H) < n) /\ (H = {} => At(H) = n)
  <2>1. CASE H = {}
    BY <2>1
  <2>2. CASE H # {}
    <3>1. H \in SUBSET (1..4)
      <4>1. \A i \in 1..n : i \in 1..4
        BY <1>0
      <4> QED BY <4>1
    <3>2. Min(H) \in H
      BY <2>2, <3>1, FirstOfFour
    <3>3. Min(H) \in 1..n
      BY <3>2
    <3>4. At(H) = Min(H) - 1
      BY <2>2
    <3> HIDE DEF At
    <3> QED BY <2>2, <3>2, <3>3, <3>4
  <2> QED BY <2>1, <2>2
<1>2. NextCpuCascadeIndex(labels) = At(Cpu)
  BY DEF NextCpuCascadeIndex, IndexOf
<1>3. NextCascadeIndex(labels, failed) = IF failed = "gpu-full" THEN At(Other)
                                         ELSE IF labels # <<>> /\ labels[1] = "gpu-full" THEN 0
                                         ELSE Least(At(Same) + 1, n)
  BY DEF NextCascadeIndex, IndexOf
<1>4. Cpu \in SUBSET (1..n) /\ Other \in SUBSET (1..n) /\ Same \in SUBSET (1..n)
  OBVIOUS
<1>5. Cpu # {} => IsCpuLabel(labels[At(Cpu) + 1])
  BY <1>1, <1>4
<1> HIDE DEF At, Cpu, Other, Same
<1>6. At(Cpu) \in 0..n /\ At(Other) \in 0..n /\ At(Same) \in 0..n /\ (Cpu = {} => At(Cpu) = n)
  BY <1>1, <1>4
<1>7. NextCascadeIndex(labels, failed) \in 0..n
  BY <1>3, <1>6 DEF Least
<1>8. Below(labels, failed) \in 0..n
  BY <1>2, <1>6, <1>7 DEF Below
<1> QED BY <1>2, <1>5, <1>6, <1>8
-----------------------------------------------------------------------------
(* Memory *)

Entry(m) == [tier : 0..3, layers : 0..Gguf(m).layers]

Only(m, r) == [x \in {m} |-> r]

\* One model at most is resident.
Resident == gpu = Nothing \/ \E m \in Model : \E r \in Entry(m) : gpu = Only(m, r)

\* The layers of a candidate are a number, none for the CPU.
LEMMA LayersAreNumbers ==
    ASSUME NEW m \in Model, NEW label, NEW free \in Int
    PROVE  /\ LayersOf(m, label, free) \in Nat
           /\ IsCpuLabel(label) => LayersOf(m, label, free) = 0
<1>1. OffloadLayers(m, free) \in Nat
  <2> DEFINE room == free - Gguf(m).extra
             q == (room * Gguf(m).layers) \div Gguf(m).weight
  <2>1. Gguf(m).extra \in Nat /\ Gguf(m).weight \in Nat \ {0} /\ Gguf(m).layers \in Nat \ {0}
        /\ LayerBudget \in Nat
    BY WeightsAssumption
  <2>2. room \in Int
    BY <2>1
  <2>3. CASE room < (IF Gguf(m).weight <= 4 THEN 1 ELSE 2)
    BY <2>3 DEF OffloadLayers
  <2>4. CASE ~(room < (IF Gguf(m).weight <= 4 THEN 1 ELSE 2))
    <3>1. room \in Nat
      BY <2>1, <2>2, <2>4
    <3>2. room * Gguf(m).layers \in Nat
      BY <2>1, <3>1
    <3>3. q \in Nat
      BY <2>1, <3>2, Divides
    <3>4. OffloadLayers(m, free) = Least(q, LayerBudget)
      BY <2>4 DEF OffloadLayers
    <3> HIDE DEF q
    <3> QED BY <2>1, <3>3, <3>4 DEF Least
  <2> QED BY <2>3, <2>4
<1>2. OffloadLayers(m, free) \div 2 \in Nat
  BY <1>1, Divides
<1>3. Gguf(m).layers \in Nat
  BY WeightsAssumption
<1> QED BY <1>1, <1>2, <1>3 DEF LayersOf, IsCpuLabel

\* A share is a number, nothing for no layer, and that of no more layers than
\* there are.
LEMMA Shares ==
    ASSUME NEW m \in Model, NEW n \in Nat
    PROVE  /\ Share(m, n) \in Nat
           /\ n = 0 => Share(m, n) = 0
           /\ Least(n, Gguf(m).layers) \in 0..Gguf(m).layers
           /\ Share(m, Least(n, Gguf(m).layers)) = Share(m, n)
<1>1. Gguf(m).weight \in Nat \ {0} /\ Gguf(m).layers \in Nat \ {0}
  BY WeightsAssumption
<1>2. Least(n, Gguf(m).layers) \in 0..Gguf(m).layers
      /\ Least(Least(n, Gguf(m).layers), Gguf(m).layers) = Least(n, Gguf(m).layers)
  BY <1>1 DEF Least
<1>3. Least(n, Gguf(m).layers) * Gguf(m).weight \in Nat
  BY <1>1, <1>2
<1>4. Share(m, n) \in Nat
  BY <1>1, <1>3, Divides DEF Share
<1>5. n = 0 => Share(m, n) = 0
  <2>1. 0 * Gguf(m).weight = 0 /\ 0 \div Gguf(m).layers = 0
    BY <1>1
  <2>2. n = 0 => Least(n, Gguf(m).layers) = 0
    BY <1>1 DEF Least
  <2> QED BY <2>1, <2>2 DEF Share
<1> QED BY <1>2, <1>4, <1>5 DEF Share

\* What a resident holds, and which it is.
LEMMA OneResident ==
    ASSUME NEW m \in Model, NEW r \in Entry(m)
    PROVE  /\ DOMAIN Only(m, r) = {m} /\ Only(m, r)[m] = r
           /\ Cardinality(DOMAIN Only(m, r)) = 1
           /\ Held(Only(m, r)) = Share(m, r.layers) /\ Held(Only(m, r)) \in Nat
<1>1. DOMAIN Only(m, r) = {m} /\ Only(m, r)[m] = r
  BY DEF Only
<1>2. Cardinality({m}) = 1
  BY FS_Singleton
<1>3. r.layers \in Nat
  BY WeightsAssumption DEF Entry
<1>4. Share(m, r.layers) \in Nat
  BY <1>3, Shares
<1>5. Held(Only(m, r)) = Share(m, r.layers)
  BY <1>1, <1>4, OneHeld
<1> QED BY <1>1, <1>2, <1>4, <1>5

\* The residents hold a number of GB.
LEMMA HeldIsNumber == Resident => Held(gpu) \in Nat
<1>1. \A m \in Model : \A r \in Entry(m) : Held(Only(m, r)) \in Nat
  BY OneResident
<1>2. Held(Nothing) \in Nat
  BY NothingHeld
<1> QED BY <1>1, <1>2 DEF Resident

\* What is dropped stays counted within the card.
LEMMA LateFits ==
    ASSUME Resident, lag \in 0..Vram
    PROVE  Late(gpu, Nothing) \in 0..Vram
<1>1. Held(gpu) \in Nat /\ Held(Nothing) = 0 /\ Vram \in Nat
  BY HeldIsNumber, NothingHeld, WeightsAssumption
<1> QED BY <1>1 DEF Late, Least

\* The memory measured is a number.
LEMMA AvailableIsNumber ==
    ASSUME Resident, foreign \in Nat, lag \in 0..Vram
    PROVE  Available(gpu, lag) \in Int
<1>1. Held(gpu) \in Nat /\ Vram \in Nat
  BY HeldIsNumber, WeightsAssumption
<1> QED BY <1>1 DEF Available, FreeNow
-----------------------------------------------------------------------------
(* The invariant *)

Call == [pc : {"idle", "load", "run"}, m : Model \cup {"none"}, ctx : Contexts \cup {0},
         start : 0..3, fresh : BOOLEAN, retried : BOOLEAN, labels : Labels(4), hops : 0..MaxHops]

\* The types, with what a request in progress is about.
Typed ==
    /\ card \in Cards /\ unreliable \in BOOLEAN
    /\ foreign \in Foreign \cup {0} /\ lag \in 0..Vram
    /\ call \in Call /\ (call.pc # "idle" => call.m \in Model)

\* One model is resident at most, it fits, and a load begins with an empty card.
Fits ==
    /\ Resident /\ FreeNow(gpu) >= 0
    /\ call.pc = "run" => DOMAIN gpu = {call.m}
    /\ call.pc = "load" => gpu = Nothing

\* The shelf holds one model at most, and none that is in use.
Spare ==
    /\ shelf \in Shelf
    /\ ToSet(shelf) \cap DOMAIN gpu = {}
    /\ call.pc # "idle" => call.m \notin ToSet(shelf)
    /\ card = "metal" => shelf = <<>>

Inv == Typed /\ Fits /\ Spare

\* What other software holds is a number.
LEMMA ForeignIsNumber == Typed => foreign \in Nat
BY WeightsAssumption DEF Typed

\* No request is one of the values of call.
LEMMA NoCallTyped == NoCall \in Call /\ NoCall.pc = "idle"
<1>1. <<>> \in Labels(4)
  BY FewLabels, Longer
<1> QED BY <1>1 DEF NoCall, Call, MaxHops

\* What is resident is one model at most.
LEMMA ResidentIsOne ==
    ASSUME Resident
    PROVE  DOMAIN gpu = {} \/ \E m \in Model : DOMAIN gpu = {m}
<1>1. CASE gpu = Nothing
  BY <1>1 DEF Nothing
<1>2. ASSUME NEW m \in Model, NEW r \in Entry(m), gpu = Only(m, r)
      PROVE  DOMAIN gpu = {m}
  BY <1>2, OneResident
<1> QED BY <1>1, <1>2 DEF Resident

\* The card is empty initially.
LEMMA InitInv == Init => Inv
<1> SUFFICES ASSUME Init PROVE Inv
  OBVIOUS
<1>2. NoCall \in Call /\ NoCall.pc = "idle"
  BY NoCallTyped
<1>3. Typed
  <2>1. call = NoCall /\ card \in Cards /\ unreliable = FALSE /\ foreign = 0 /\ lag = 0
    BY DEF Init
  <2>2. 0 \in 0..Vram
    BY WeightsAssumption
  <2> QED BY <1>2, <2>1, <2>2 DEF Typed
<1>4. Fits
  <2>1. gpu = Nothing /\ foreign = 0 /\ call.pc = "idle"
    BY <1>2 DEF Init
  <2>2. Held(gpu) = 0
    BY <2>1, NothingHeld
  <2> QED BY <2>1, <2>2, WeightsAssumption DEF Fits, Resident, FreeNow
<1>5. Spare
  BY <1>2 DEF Init, Spare, Shelf, ToSet
<1> QED BY <1>3, <1>4, <1>5 DEF Inv

\* The invariant gives the two properties.
LEMMA InvGives == Inv => TypeOK /\ ShelfIsSpare
<1> SUFFICES ASSUME Inv PROVE TypeOK /\ ShelfIsSpare
  OBVIOUS
<1>1. Cardinality(DOMAIN gpu) <= 1 /\ \A m \in DOMAIN gpu : gpu[m].tier \in 0..3 /\ gpu[m].layers \in 0..Gguf(m).layers
  <2>1. CASE gpu = Nothing
    <3>1. DOMAIN gpu = {}
      BY <2>1 DEF Nothing
    <3> QED BY <3>1, FS_EmptySet
  <2>2. ASSUME NEW m \in Model, NEW r \in Entry(m), gpu = Only(m, r)
        PROVE  Cardinality(DOMAIN gpu) <= 1 /\ \A x \in DOMAIN gpu : gpu[x].tier \in 0..3 /\ gpu[x].layers \in 0..Gguf(x).layers
    <3>1. DOMAIN gpu = {m} /\ gpu[m] = r /\ Cardinality(DOMAIN gpu) = 1
      BY <2>2, OneResident
    <3>2. r.tier \in 0..3 /\ r.layers \in 0..Gguf(m).layers
      BY DEF Entry
    <3> QED BY <3>1, <3>2
  <2> QED BY <2>1, <2>2 DEF Inv, Fits, Resident
<1>2. ShelfGb(shelf) <= RamBudget
  <2>1. CASE shelf = <<>>
    BY <2>1, EmptyShelf, WeightsAssumption
  <2>2. ASSUME NEW x \in Model, Weight(x) <= RamBudget, shelf = <<x>>
        PROVE  ShelfGb(shelf) <= RamBudget
    BY <2>2, OneOnShelf, Weighs
  <2> QED BY <2>1, <2>2 DEF Inv, Spare, Shelf
<1>3. TypeOK
  BY <1>1 DEF TypeOK, Inv, Typed, Fits, Call
<1>4. ShelfIsSpare
  BY <1>2 DEF ShelfIsSpare, Inv, Spare
<1> QED BY <1>3, <1>4

-----------------------------------------------------------------------------
(* The steps *)

\* The card is cleared.
LEMMA Cleared ==
    ASSUME Inv, Clear, UNCHANGED foreign
    PROVE  /\ Resident' /\ FreeNow(gpu)' >= 0 /\ lag' \in 0..Vram
           /\ DOMAIN gpu' = {} /\ gpu' = Nothing
<1>1. gpu' = Nothing /\ lag' = Late(gpu, Nothing)
  BY DEF Clear
<1>2. lag' \in 0..Vram
  BY <1>1, LateFits DEF Inv, Typed, Fits
<1>3. DOMAIN gpu' = {} /\ Resident'
  BY <1>1 DEF Nothing, Resident
<1>4. FreeNow(gpu)' >= 0
  <2>1. Held(gpu) \in Nat /\ Held(gpu') = 0
    BY <1>1, HeldIsNumber, NothingHeld DEF Inv, Fits
  <2>2. Vram - foreign - Held(gpu) >= 0 /\ foreign \in Nat /\ Vram \in Nat
    BY ForeignIsNumber, WeightsAssumption DEF Inv, Fits, FreeNow
  <2>3. Vram - foreign' - Held(gpu') >= 0
    BY <2>1, <2>2
  <2> QED BY <2>3 DEF FreeNow
<1> QED BY <1>1, <1>2, <1>3, <1>4

\* The residents stay.
LEMMA Stays ==
    ASSUME Inv, UNCHANGED <<gpu, foreign>>
    PROVE  Resident' /\ FreeNow(gpu)' >= 0
BY DEF Inv, Fits, Resident, FreeNow

\* A request may end.
LEMMA Ends ==
    ASSUME Inv, End, UNCHANGED <<card, foreign, shelf>>, unreliable' \in BOOLEAN, lag' \in 0..Vram,
           Resident', FreeNow(gpu)' >= 0, DOMAIN gpu' \subseteq DOMAIN gpu
    PROVE  Inv'
<1>1. NoCall \in Call /\ NoCall.pc = "idle"
  BY NoCallTyped
<1>2. call' = NoCall
  BY DEF End
<1>3. Typed'
  BY <1>1, <1>2 DEF Inv, Typed
<1>4. Fits'
  BY <1>1, <1>2 DEF Fits
<1>5. Spare'
  BY <1>1, <1>2 DEF Inv, Spare
<1> QED BY <1>3, <1>4, <1>5 DEF Inv

\* A load that is refused clears the card once more, or ends the request.
LEMMA Refused ==
    ASSUME Inv, call.pc = "load", LoadRefused, UNCHANGED <<card, shelf, unreliable, foreign>>
    PROVE  Inv'
<1>0. unreliable' \in BOOLEAN
  BY DEF Inv, Typed
<1>1. CASE call.start = 0 /\ ~call.retried
  <2>1. Clear /\ call' = [call EXCEPT !.retried = TRUE]
    BY <1>1 DEF LoadRefused
  <2>2. Resident' /\ FreeNow(gpu)' >= 0 /\ lag' \in 0..Vram /\ DOMAIN gpu' = {} /\ gpu' = Nothing
    BY <2>1, Cleared
  <2>3. call' \in Call /\ call'.pc = "load" /\ call'.m = call.m
    BY <2>1 DEF Inv, Typed, Call
  <2>4. Typed'
    BY <2>2, <2>3 DEF Inv, Typed
  <2>5. Fits'
    BY <2>2, <2>3 DEF Fits
  <2>6. Spare'
    BY <2>2, <2>3 DEF Inv, Spare
  <2> QED BY <2>4, <2>5, <2>6 DEF Inv
<1>2. CASE ~(call.start = 0 /\ ~call.retried)
  <2>1. End /\ UNCHANGED <<gpu, lag>>
    BY <1>2 DEF LoadRefused
  <2>2. Resident' /\ FreeNow(gpu)' >= 0
    BY <2>1, Stays
  <2>3. lag' \in 0..Vram
    BY <2>1 DEF Inv, Typed
  <2> QED BY <1>0, <2>1, <2>2, <2>3, Ends
<1> QED BY <1>1, <1>2

\* A request goes down its cascade, with an empty card.
LEMMA Descends ==
    ASSUME Inv, call.pc = "run", NEW failed, NEW broken, Descend(failed, broken),
           UNCHANGED <<card, shelf, foreign>>, unreliable' \in BOOLEAN
    PROVE  Inv'
<1> DEFINE labels == Candidates(call.m, Available(Nothing, Late(gpu, Nothing)), broken)
           start == Below(labels, failed)
<1>1. labels \in Labels(4)
  BY Cascade
<1>2. Clear
  BY DEF Descend
<1>3. Resident' /\ FreeNow(gpu)' >= 0 /\ lag' \in 0..Vram /\ DOMAIN gpu' = {} /\ gpu' = Nothing
  BY <1>2, Cleared
<1>4. start \in 0..Len(labels) /\ Len(labels) \in Nat /\ Len(labels) <= 4
  BY <1>1, Follows, LenProperties DEF Labels
<1>5. IF call.hops = MaxHops \/ start >= Len(labels) THEN End
      ELSE call' = [call EXCEPT !.pc = "load", !.hops = @ + 1, !.start = start, !.retried = FALSE,
                                !.labels = labels]
  BY DEF Descend
<1> HIDE DEF start, labels
<1>6. CASE call.hops = MaxHops \/ start >= Len(labels)
  BY <1>3, <1>5, <1>6, Ends
<1>7. CASE ~(call.hops = MaxHops \/ start >= Len(labels))
  <2>1. call' = [call EXCEPT !.pc = "load", !.hops = @ + 1, !.start = start, !.retried = FALSE,
                             !.labels = labels]
    BY <1>5, <1>7
  <2>2. start \in 0..3 /\ call.hops + 1 \in 0..MaxHops
    BY <1>4, <1>7 DEF Inv, Typed, Call, MaxHops
  <2>3. call' \in Call /\ call'.pc = "load" /\ call'.m = call.m
    BY <1>1, <2>1, <2>2 DEF Inv, Typed, Call
  <2>4. Typed'
    BY <1>3, <2>3 DEF Inv, Typed
  <2>5. Fits'
    BY <1>3, <2>3 DEF Fits
  <2>6. Spare'
    BY <1>3, <2>3 DEF Inv, Spare
  <2> QED BY <2>4, <2>5, <2>6 DEF Inv
<1> QED BY <1>6, <1>7

\* What is loaded on an empty card, and fits, is its resident.
LEMMA LoadedFits ==
    ASSUME Inv, call.pc = "load", NEW tier \in 0..3, NEW labels, NEW free \in Int,
           Share(call.m, LayersOf(call.m, labels[tier + 1], free)) <= FreeNow(gpu),
           Loaded(tier, labels, free), UNCHANGED <<card, shelf, unreliable, foreign>>
    PROVE  Inv'
<1> DEFINE m == call.m
           n == LayersOf(m, labels[tier + 1], free)
           r == [tier |-> tier, layers |-> Least(n, Gguf(m).layers)]
<1>1. m \in Model /\ m \notin ToSet(shelf) /\ gpu = Nothing
  BY DEF Inv, Typed, Fits, Spare
<1>2. n \in Nat
  BY <1>1, LayersAreNumbers
<1>3. Least(n, Gguf(m).layers) \in 0..Gguf(m).layers /\ Share(m, Least(n, Gguf(m).layers)) = Share(m, n)
  BY <1>1, <1>2, Shares
<1>4. r \in Entry(m) /\ r.layers = Least(n, Gguf(m).layers)
  BY <1>3 DEF Entry
<1>5. gpu' = Only(m, r)
  <2>1. DOMAIN gpu \cup {m} = {m}
    BY <1>1 DEF Nothing
  <2>2. gpu' = [x \in DOMAIN gpu \cup {m} |-> IF x = m THEN r ELSE gpu[x]]
    BY DEF Loaded
  <2> HIDE DEF r, m
  <2> QED BY <2>1, <2>2 DEF Only
<1>6. /\ call' \in Call /\ call'.pc = "run" /\ call'.m = m /\ lag' = lag
  <2> DEFINE g == [x \in DOMAIN gpu \cup {m} |-> IF x = m THEN r ELSE gpu[x]]
             new == Candidates(m, Available(g, lag), unreliable)
  <2>1. new \in Labels(4)
    BY Cascade
  <2>2. call' = [call EXCEPT !.pc = "run", !.fresh = FALSE, !.labels = IF call.fresh THEN new ELSE @]
        /\ lag' = lag
    BY DEF Loaded
  <2> HIDE DEF new
  <2> QED BY <2>1, <2>2 DEF Inv, Typed, Call
<1> HIDE DEF m, r, n
<1>7. DOMAIN gpu' = {m} /\ Held(gpu') = Share(m, n) /\ Held(gpu') \in Nat
  BY <1>1, <1>3, <1>4, <1>5, OneResident
<1>8. FreeNow(gpu)' >= 0
  <2>1. FreeNow(gpu) = Vram - foreign - 0
    BY <1>1, NothingHeld DEF FreeNow
  <2>2. Share(m, n) <= Vram - foreign - 0
    BY <2>1 DEF m, n
  <2>3. Vram \in Nat /\ foreign \in Nat
    BY ForeignIsNumber, WeightsAssumption DEF Inv
  <2>4. Vram - foreign' - Held(gpu') >= 0
    BY <1>7, <2>2, <2>3
  <2> QED BY <2>4 DEF FreeNow
<1>9. Typed'
  BY <1>1, <1>6 DEF Inv, Typed
<1>10. Fits'
  <2>1. Resident'
    BY <1>1, <1>4, <1>5 DEF Resident
  <2> QED BY <1>6, <1>7, <1>8, <2>1 DEF Fits
<1>11. Spare'
  BY <1>1, <1>6, <1>7 DEF Inv, Spare
<1> QED BY <1>9, <1>10, <1>11 DEF Inv

\* A load: a GPU candidate that fits, a CPU candidate, or a refusal.
LEMMA LoadKeeps == ASSUME Inv, Load PROVE Inv'
<1> DEFINE free == Available(gpu, lag)
           labels == Candidates(call.m, free, unreliable)
           cpu == NextCpuCascadeIndex(labels)
           share == Share(call.m, LayersOf(call.m, labels[call.start + 1], free))
<1>1. call.pc = "load" /\ UNCHANGED <<card, shelf, unreliable, foreign>>
  BY DEF Load
<1>2. call.m \in Model /\ call.start \in 0..3
  BY <1>1 DEF Inv, Typed, Call
<1>3. free \in Int
  BY AvailableIsNumber, ForeignIsNumber DEF Inv, Typed, Fits
<1>4. /\ labels \in Labels(4) /\ cpu \in 0..Len(labels)
      /\ cpu < Len(labels) => IsCpuLabel(labels[cpu + 1])
  BY Cascade, Follows
<1>5. Len(labels) \in Nat /\ Len(labels) <= 4
  BY <1>4, LenProperties DEF Labels
<1>6. \/ LoadRefused
      \/ share <= FreeNow(gpu) /\ Loaded(call.start, labels, free)
      \/ cpu < Len(labels) /\ Loaded(cpu, labels, free)
  BY DEF Load
<1>7. CASE LoadRefused
  BY <1>1, <1>7, Refused
<1>8. CASE share <= FreeNow(gpu) /\ Loaded(call.start, labels, free)
  <2> HIDE DEF labels, free
  <2> QED BY <1>1, <1>2, <1>3, <1>8, LoadedFits
<1>9. CASE cpu < Len(labels) /\ Loaded(cpu, labels, free)
  <2> HIDE DEF labels, free, cpu
  <2>1. cpu \in 0..3
    BY <1>4, <1>5, <1>9
  <2>2. LayersOf(call.m, labels[cpu + 1], free) = 0
    BY <1>2, <1>3, <1>4, <1>9, LayersAreNumbers
  <2>3. Share(call.m, LayersOf(call.m, labels[cpu + 1], free)) = 0
    BY <1>2, <2>2, Shares
  <2>4. FreeNow(gpu) >= 0
    BY DEF Inv, Fits
  <2>5. Share(call.m, LayersOf(call.m, labels[cpu + 1], free)) <= FreeNow(gpu)
    BY <2>3, <2>4
  <2> QED BY <1>1, <1>3, <1>9, <2>1, <2>5, LoadedFits
<1> QED BY <1>6, <1>7, <1>8, <1>9

\* A request begins: with the resident, or with an empty card.
LEMMA BeginKeeps ==
    ASSUME Inv, NEW m \in Model, NEW ctx \in Contexts, Begin(m, ctx)
    PROVE  Inv'
<1>0. UNCHANGED <<card, unreliable, foreign>> /\ call.pc = "idle"
  BY DEF Begin
<1>1. CASE m \in DOMAIN gpu
  <2> DEFINE labels == Candidates(m, Available(gpu, lag), unreliable)
  <2>1. labels \in Labels(4)
    BY Cascade
  <2>2. /\ call' = [NoCall EXCEPT !.pc = "run", !.m = m, !.ctx = ctx, !.labels = labels]
        /\ UNCHANGED <<gpu, shelf, lag>>
    BY <1>1 DEF Begin
  <2> HIDE DEF labels
  <2>3. call' \in Call /\ call'.pc = "run" /\ call'.m = m
    BY <2>1, <2>2, NoCallTyped DEF Call
  <2>4. Resident' /\ FreeNow(gpu)' >= 0
    BY <1>0, <2>2, Stays
  <2>5. DOMAIN gpu = {m}
    BY <1>1, ResidentIsOne DEF Inv, Fits
  <2>6. Typed'
    BY <1>0, <2>2, <2>3 DEF Inv, Typed
  <2>7. Fits'
    BY <2>2, <2>3, <2>4, <2>5 DEF Fits
  <2>8. Spare'
    BY <1>0, <2>2, <2>3, <2>5 DEF Inv, Spare
  <2> QED BY <2>6, <2>7, <2>8 DEF Inv
<1>2. CASE m \notin DOMAIN gpu
  <2>1. PICK s \in Shelved(m) : shelf' = RemoveFirst(s, m)
    BY <1>2 DEF Begin
  <2>2. Clear /\ call' = [NoCall EXCEPT !.pc = "load", !.m = m, !.ctx = ctx, !.fresh = TRUE]
    BY <1>2 DEF Begin
  <2>3. Resident' /\ FreeNow(gpu)' >= 0 /\ lag' \in 0..Vram /\ DOMAIN gpu' = {} /\ gpu' = Nothing
    BY <1>0, <2>2, Cleared
  <2>4. DOMAIN gpu \subseteq Model
    BY ResidentIsOne DEF Inv, Fits
  <2>5. shelf \in Shelf /\ (card = "metal" => shelf = <<>>)
    BY DEF Inv, Spare
  <2>6. shelf' \in Shelf /\ m \notin ToSet(shelf') /\ (card = "metal" => shelf' = <<>>)
    BY <2>1, <2>4, <2>5, ShelvesOthers
  <2>7. call' \in Call /\ call'.pc = "load" /\ call'.m = m
    BY <2>2, NoCallTyped DEF Call
  <2>8. Typed'
    BY <1>0, <2>3, <2>7 DEF Inv, Typed
  <2>9. Fits'
    BY <2>3, <2>7 DEF Fits
  <2>10. Spare'
    BY <1>0, <2>3, <2>6, <2>7 DEF Spare
  <2> QED BY <2>8, <2>9, <2>10 DEF Inv
<1> QED BY <1>1, <1>2

\* A step of a request in progress.
LEMMA CallKeeps == ASSUME Inv, CallStep PROVE Inv'
<1>0. lag \in 0..Vram /\ unreliable \in BOOLEAN
  BY DEF Inv, Typed
<1>1. CASE Load
  BY <1>1, LoadKeeps
<1>2. CASE CudaAborts
  <2>1. gpu' = Nothing /\ shelf' = <<>> /\ lag' = 0 /\ call' = NoCall /\ UNCHANGED <<card, unreliable, foreign>>
    BY <1>2 DEF CudaAborts, End
  <2>2. NoCall \in Call /\ NoCall.pc = "idle"
    BY NoCallTyped
  <2>3. gpu = Nothing
    BY <1>2 DEF CudaAborts, Inv, Fits
  <2>4. Resident' /\ FreeNow(gpu)' >= 0
    BY <2>1, <2>3, Stays
  <2>5. Typed'
    BY <2>1, <2>2, WeightsAssumption DEF Inv, Typed
  <2>6. Fits'
    BY <2>1, <2>2, <2>4 DEF Fits
  <2>7. Spare'
    BY <2>1, <2>2 DEF Spare, Shelf, ToSet
  <2> QED BY <2>5, <2>6, <2>7 DEF Inv
<1>3. CASE Succeed
  <2>1. End /\ UNCHANGED <<card, gpu, shelf, unreliable, foreign, lag>>
    BY <1>3 DEF Succeed
  <2>2. Resident' /\ FreeNow(gpu)' >= 0
    BY <2>1, Stays
  <2> QED BY <1>0, <2>1, <2>2, Ends
<1>4. CASE OtherError
  <2>1. End /\ UNCHANGED <<card, gpu, shelf, unreliable, foreign, lag>>
    BY <1>4 DEF OtherError
  <2>2. Resident' /\ FreeNow(gpu)' >= 0
    BY <2>1, Stays
  <2> QED BY <1>0, <2>1, <2>2, Ends
<1>5. CASE OutOfMemory
  <2>1. call.pc = "run" /\ UNCHANGED <<card, shelf, unreliable, foreign>>
        /\ Descend(Label(call.labels, gpu[call.m].tier), unreliable)
    BY <1>5 DEF OutOfMemory
  <2> QED BY <1>0, <2>1, Descends
<1>6. CASE Garbage
  <2>1. call.pc = "run" /\ UNCHANGED <<card, shelf, foreign>> /\ unreliable' \in BOOLEAN
    BY <1>0, <1>6 DEF Garbage
  <2>2. PICK b : Descend("garbage", b)
    BY <1>6 DEF Garbage
  <2> QED BY <2>1, <2>2, Descends
<1> QED BY <1>1, <1>2, <1>3, <1>4, <1>5, <1>6 DEF CallStep

\* Every step keeps the invariant.
LEMMA StepKeeps == Inv /\ [Next]_vars => Inv'
<1> SUFFICES ASSUME Inv, [Next]_vars PROVE Inv'
  OBVIOUS
<1>0. lag \in 0..Vram /\ unreliable \in BOOLEAN
  BY DEF Inv, Typed
<1>1. ASSUME NEW m \in Model, NEW ctx \in Contexts, Begin(m, ctx) PROVE Inv'
  BY <1>1, BeginKeeps
<1>2. CASE CallStep
  BY <1>2, CallKeeps
<1>3. CASE Evict
  <2>1. Clear /\ shelf' = <<>> /\ UNCHANGED <<card, unreliable, foreign, call>>
    BY <1>3 DEF Evict
  <2>2. Resident' /\ FreeNow(gpu)' >= 0 /\ lag' \in 0..Vram /\ DOMAIN gpu' = {} /\ gpu' = Nothing
    BY <2>1, Cleared
  <2>3. call.pc = "idle"
    BY <1>3 DEF Evict
  <2>4. Typed'
    BY <2>1, <2>2 DEF Inv, Typed
  <2>5. Fits'
    BY <2>1, <2>2, <2>3 DEF Fits
  <2>6. Spare'
    BY <2>1, <2>2, <2>3 DEF Spare, Shelf, ToSet
  <2> QED BY <2>4, <2>5, <2>6 DEF Inv
<1>4. CASE ForeignChange
  <2>1. UNCHANGED <<card, gpu, shelf, unreliable, lag, call>>
    BY <1>4 DEF ForeignChange
  <2>2. PICK f \in Foreign : f + Held(gpu) <= Vram /\ foreign' = f
    BY <1>4 DEF ForeignChange
  <2>3. Resident'
    BY <2>1 DEF Inv, Fits, Resident
  <2>4. FreeNow(gpu)' >= 0
    <3>1. Held(gpu) \in Nat /\ f \in Nat /\ Vram \in Nat
      BY HeldIsNumber, WeightsAssumption DEF Inv, Fits
    <3>2. Vram - foreign' - Held(gpu') >= 0
      BY <2>1, <2>2, <3>1
    <3> QED BY <3>2 DEF FreeNow
  <2>5. Typed'
    BY <2>1, <2>2 DEF Inv, Typed
  <2>6. Fits'
    BY <2>1, <2>3, <2>4 DEF Inv, Fits
  <2>7. Spare'
    BY <2>1 DEF Inv, Spare
  <2> QED BY <2>5, <2>6, <2>7 DEF Inv
<1>5. CASE Reclaim \/ UNCHANGED vars
  <2>1. UNCHANGED <<card, gpu, shelf, unreliable, foreign, call>> /\ lag' \in 0..Vram
    BY <1>0, <1>5, WeightsAssumption DEF Reclaim, vars
  <2>2. Resident' /\ FreeNow(gpu)' >= 0
    BY <2>1, Stays
  <2>3. Typed'
    BY <2>1 DEF Inv, Typed
  <2>4. Fits'
    BY <2>1, <2>2 DEF Inv, Fits
  <2>5. Spare'
    BY <2>1 DEF Inv, Spare
  <2> QED BY <2>3, <2>4, <2>5 DEF Inv
<1> QED BY <1>1, <1>2, <1>3, <1>4, <1>5 DEF Next

-----------------------------------------------------------------------------
(* The theorems *)

\* In every state one model at most is resident, and it fits its card beside
\* other software.
THEOREM TypeCorrect == Spec => []TypeOK
<1>1. Spec => []Inv
  BY InitInv, StepKeeps, PTL DEF Spec
<1> QED BY <1>1, InvGives, PTL

\* In every state what is on the shelf is not in use, is within the budget of
\* RAM, and is nothing on Metal: with_loaded_weights leaves nothing mapped twice.
THEOREM SpareShelf == Spec => []ShelfIsSpare
<1>1. Spec => []Inv
  BY InitInv, StepKeeps, PTL DEF Spec
<1> QED BY <1>1, InvGives, PTL
=============================================================================
