---------------------------- MODULE DispatchProofs ----------------------------
(* Theorems about Dispatch, for any catalog, machines, requests and jobs: its  *)
(* types, that failed slots are avoided, when the processor is used, what      *)
(* latches a slot, and that a miss told as busy is one that waiting can help.  *)
EXTENDS Dispatch, FiniteSetTheorems, WellFoundedInduction, TLAPS

-----------------------------------------------------------------------------
(* The first of a finite set *)

\* R puts the members of S in one order.
Orders(R, S) ==
    /\ \A s, t \in S : s # t => <<s, t>> \in R \/ <<t, s>> \in R
    /\ \A s \in S : <<s, s>> \notin R
    /\ \A s, t, u \in S : <<s, t>> \in R /\ <<t, u>> \in R => <<s, u>> \in R

\* A finite set has a member that comes before all the others.
LEMMA FirstExists ==
    ASSUME NEW S, IsFiniteSet(S), S # {}, NEW R, Orders(R, S)
    PROVE  \E s \in S : \A t \in S \ {s} : <<s, t>> \in R
<1> DEFINE Front == {T \in SUBSET S : T # {} /\ \A t \in T, s \in S \ T : <<t, s>> \in R}
<1>1. IsWellFoundedOn(StrictSubsetOrdering(S), SUBSET S)
  BY FS_StrictSubsetOrderingWellFounded, FS_FiniteSubsetsOfFinite
<1>2. S \in Front
  OBVIOUS
<1>3. PICK T \in Front : \A U \in Front : <<U, T>> \notin StrictSubsetOrdering(S)
  <2>1. Front # {} /\ Front \subseteq SUBSET S
    BY <1>2
  <2> HIDE DEF Front
  <2> QED BY <1>1, <2>1, WFMin
<1>4. \A U \in Front : ~(U \subseteq T /\ U # T)
  BY <1>3 DEF StrictSubsetOrdering
<1>5. PICK t \in T : TRUE
  OBVIOUS
<1>6. ASSUME NEW u \in T, u # t PROVE FALSE
  <2>1. PICK a \in T, b \in T : <<a, b>> \in R
    BY <1>6 DEF Orders
  <2> DEFINE U == {x \in T : <<x, b>> \in R}
  <2>2. a \in U /\ b \notin U /\ U \subseteq T /\ U # T /\ U # {}
    BY <2>1 DEF Orders
  <2>3. ASSUME NEW x \in U, NEW s \in S \ U PROVE <<x, s>> \in R
    <3>1. CASE s \notin T
      BY <3>1
    <3>2. CASE s \in T
      <4>1. <<x, b>> \in R /\ (s = b \/ <<b, s>> \in R)
        BY <3>2 DEF Orders
      <4> QED BY <4>1 DEF Orders
    <3> QED BY <3>1, <3>2
  <2>4. U \in Front
    BY <2>2, <2>3
  <2> QED BY <1>4, <2>2, <2>4
<1>7. T = {t}
  BY <1>6
<1> QED BY <1>7

-----------------------------------------------------------------------------
(* The VRAM of a group is a sum *)

Chosen(s) == CHOOSE x \in s : TRUE
VramOf(s) == EffectiveVram(s.device)

\* The sums over the parts of S, as the fold takes them.
Sums(f, S) ==
    f = [s \in SUBSET S |-> IF s = {} THEN 0 ELSE f[s \ {Chosen(s)}] + VramOf(Chosen(s))]
SumOf(S) == (CHOOSE f : Sums(f, S))[S]

LEMMA CardFolds == ASSUME NEW S PROVE BuildTpCard(S).vram = SumOf(S)
BY DEF BuildTpCard, FoldSet, MapThenFoldSet, SumOf, Sums, Chosen, VramOf

\* The sums over a part are those over the whole.
LEMMA SumsOfPart ==
    ASSUME NEW S, NEW T, T \subseteq S, NEW f, Sums(f, S)
    PROVE  Sums([s \in SUBSET T |-> f[s]], T)
<1> DEFINE g == [s \in SUBSET T |-> f[s]]
           h == [s \in SUBSET T |-> IF s = {} THEN 0 ELSE g[s \ {Chosen(s)}] + VramOf(Chosen(s))]
<1>1. \A s \in SUBSET S : f[s] = IF s = {} THEN 0 ELSE f[s \ {Chosen(s)}] + VramOf(Chosen(s))
  BY DEF Sums
<1>2. \A s \in SUBSET T : s \in SUBSET S /\ s \ {Chosen(s)} \in SUBSET T
  OBVIOUS
<1>3. \A s \in SUBSET T : g[s] = h[s]
  BY <1>1, <1>2
<1>4. g = h
  BY <1>3
<1> QED BY <1>4 DEF Sums

\* There is one family of sums.
LEMMA SumsUnique ==
    ASSUME NEW S, IsFiniteSet(S), NEW f, NEW g, Sums(f, S), Sums(g, S)
    PROVE  f = g
<1> DEFINE Wrong == {s \in SUBSET S : f[s] # g[s]}
<1>1. /\ \A s \in SUBSET S : f[s] = IF s = {} THEN 0 ELSE f[s \ {Chosen(s)}] + VramOf(Chosen(s))
      /\ \A s \in SUBSET S : g[s] = IF s = {} THEN 0 ELSE g[s \ {Chosen(s)}] + VramOf(Chosen(s))
  BY DEF Sums
<1>2. IsWellFoundedOn(StrictSubsetOrdering(S), SUBSET S)
  BY FS_StrictSubsetOrderingWellFounded, FS_FiniteSubsetsOfFinite
<1>3. Wrong = {}
  <2> SUFFICES ASSUME Wrong # {} PROVE FALSE
    OBVIOUS
  <2>1. Wrong \subseteq SUBSET S
    OBVIOUS
  <2>2. PICK s \in Wrong : \A t \in Wrong : <<t, s>> \notin StrictSubsetOrdering(S)
    <3> HIDE DEF Wrong
    <3> QED BY <1>2, <2>1, WFMin
  <2>3. s # {} /\ Chosen(s) \in s
    BY <1>1 DEF Chosen
  <2>4. s \ {Chosen(s)} \in SUBSET S /\ <<s \ {Chosen(s)}, s>> \in StrictSubsetOrdering(S)
    BY <2>3 DEF StrictSubsetOrdering
  <2>5. f[s \ {Chosen(s)}] = g[s \ {Chosen(s)}]
    BY <2>2, <2>4
  <2> QED BY <1>1, <2>3, <2>5
<1>4. DOMAIN f = SUBSET S /\ DOMAIN g = SUBSET S
  BY DEF Sums
<1>5. f = [s \in SUBSET S |-> f[s]] /\ g = [s \in SUBSET S |-> g[s]]
  BY <1>4 DEF Sums
<1>6. \A s \in SUBSET S : f[s] = g[s]
  BY <1>3
<1> QED BY <1>5, <1>6

\* Numbers have such sums, and they are numbers.
LEMMA SumsExist ==
    ASSUME NEW S, IsFiniteSet(S), \A x \in S : VramOf(x) \in Nat
    PROVE  \E f : Sums(f, S) /\ f \in [SUBSET S -> Nat]
<1> DEFINE Has(T) == \E f : Sums(f, T) /\ f \in [SUBSET T -> Nat]
           Lack == {T \in SUBSET S : ~Has(T)}
<1>1. IsWellFoundedOn(StrictSubsetOrdering(S), SUBSET S)
  BY FS_StrictSubsetOrderingWellFounded, FS_FiniteSubsetsOfFinite
<1>2. SUFFICES ASSUME Lack # {} PROVE FALSE
  OBVIOUS
<1>3. PICK T \in Lack : \A U \in Lack : <<U, T>> \notin StrictSubsetOrdering(S)
  <2>1. Lack \subseteq SUBSET S
    OBVIOUS
  <2> HIDE DEF Lack
  <2> QED BY <1>1, <1>2, <2>1, WFMin
<1>4. \A U \in SUBSET T : U # T => Has(U)
  BY <1>3 DEF StrictSubsetOrdering
<1> DEFINE Fam(U) == CHOOSE f : Sums(f, U) /\ f \in [SUBSET U -> Nat]
           Part(U) == Fam(U)[U]
           c == Chosen(T)
           F == [U \in SUBSET T |-> IF U # T THEN Part(U)
                                    ELSE IF T = {} THEN 0 ELSE Part(T \ {c}) + VramOf(c)]
<1>5. \A U \in SUBSET T : U # T => Sums(Fam(U), U) /\ Fam(U) \in [SUBSET U -> Nat]
  <2> TAKE U \in SUBSET T
  <2> HAVE U # T
  <2>1. \E f : Sums(f, U) /\ f \in [SUBSET U -> Nat]
    BY <1>4
  <2> QED BY <2>1, Zenon
<1>6. \A U \in SUBSET T : U # {} => U \ {Chosen(U)} \in SUBSET T /\ U \ {Chosen(U)} # U /\ Chosen(U) \in U /\ U \ {Chosen(U)} # T
  BY DEF Chosen
<1> HIDE DEF Has, Lack, Fam
<1>7. ASSUME NEW U \in SUBSET T, U # T
      PROVE  Part(U) \in Nat /\ Part(U) = IF U = {} THEN 0 ELSE Part(U \ {Chosen(U)}) + VramOf(Chosen(U))
  <2>1. Sums(Fam(U), U) /\ Fam(U) \in [SUBSET U -> Nat] /\ U \in SUBSET U
    BY <1>5, <1>7
  <2>2. Fam(U)[U] = IF U = {} THEN 0 ELSE Fam(U)[U \ {Chosen(U)}] + VramOf(Chosen(U))
    BY <2>1 DEF Sums
  <2>3. ASSUME U # {} PROVE Fam(U)[U \ {Chosen(U)}] = Part(U \ {Chosen(U)})
    <3> DEFINE W == U \ {Chosen(U)}
    <3>1. W \subseteq U /\ W \in SUBSET T /\ W # T /\ W \in SUBSET W
      BY <1>6, <2>3
    <3>2. Sums([s \in SUBSET W |-> Fam(U)[s]], W)
      BY <2>1, <3>1, SumsOfPart
    <3>3. Sums(Fam(W), W)
      BY <1>5, <3>1
    <3>4. IsFiniteSet(W)
      BY <3>1, <1>3, FS_Subset DEF Lack
    <3> HIDE DEF W
    <3>5. Fam(W) = [s \in SUBSET W |-> Fam(U)[s]]
      BY <3>2, <3>3, <3>4, SumsUnique
    <3>6. Fam(W)[W] = Fam(U)[W]
      BY <3>1, <3>5
    <3> QED BY <3>6 DEF W
  <2> QED BY <2>1, <2>2, <2>3
<1>8. ASSUME NEW U \in SUBSET T
      PROVE  F[U] \in Nat /\ F[U] = IF U = {} THEN 0 ELSE F[U \ {Chosen(U)}] + VramOf(Chosen(U))
  <2> HIDE DEF Part
  <2>1. CASE U # T
    BY <1>6, <1>7, <2>1
  <2>2. CASE U = T /\ T = {}
    BY <2>2
  <2>3. CASE U = T /\ T # {}
    <3>1. F[T \ {c}] = Part(T \ {c}) /\ Part(T \ {c}) \in Nat
      BY <1>6, <1>7, <2>3
    <3>2. VramOf(c) \in Nat
      BY <1>3, <1>6, <2>3 DEF Lack
    <3> QED BY <2>3, <3>1, <3>2
  <2> QED BY <2>1, <2>2, <2>3
<1> HIDE DEF Part
<1>9. F = [U \in SUBSET T |-> IF U = {} THEN 0 ELSE F[U \ {Chosen(U)}] + VramOf(Chosen(U))]
  BY <1>8
<1>10. F \in [SUBSET T -> Nat]
  BY <1>8
<1>11. Has(T)
  <2> HIDE DEF F
  <2> QED BY <1>9, <1>10 DEF Has, Sums
<1> QED BY <1>3, <1>11 DEF Lack

LEMMA SumIsNat == ASSUME NEW S, IsFiniteSet(S), \A x \in S : VramOf(x) \in Nat PROVE SumOf(S) \in Nat
<1>1. PICK f : Sums(f, S) /\ f \in [SUBSET S -> Nat]
  BY SumsExist
<1> DEFINE g == CHOOSE h : Sums(h, S)
<1>2. Sums(g, S)
  BY <1>1, Zenon
<1>3. g = f
  <2> HIDE DEF g
  <2> QED BY <1>1, <1>2, SumsUnique
<1>4. f[S] \in Nat
  BY <1>1
<1> QED BY <1>3, <1>4 DEF SumOf

-----------------------------------------------------------------------------
(* The slots of a machine *)

Rank0(rows, i) == Cardinality({k \in rows : k < i})
CudaRows(ds)   == {i \in DOMAIN ds : ds[i].enabled /\ IsCuda(ds[i])}
MetalRows(ds)  == IF MetalRuntime THEN {i \in DOMAIN ds : ds[i].enabled /\ IsMetal(ds[i])} ELSE {}
VulkanRows(ds) == IF VulkanRuntime THEN {i \in DOMAIN ds : /\ ds[i].enabled /\ ds[i].kind # "integrated"
                                                            /\ IsVulkan(ds[i])} ELSE {}
IgpuRows(ds)   == IF VulkanRuntime THEN {i \in DOMAIN ds : ds[i].enabled /\ ds[i].kind = "integrated"}
                  ELSE {}

GroupOf(ds) == IF Homogeneous({ds[i] : i \in CudaRows(ds)}) THEN TpGroupId ELSE NoGroup

\* Each slot comes from one row of the devices, but the processor's.
LEMMA PlanRows ==
    ASSUME NEW ds, NEW s \in BuildComputeSlots(ds)
    PROVE  \/ \E i \in CudaRows(ds) : s = CudaSlot(ds[i], GroupOf(ds))
           \/ \E i \in MetalRows(ds) : s = MetalSlot(ds[i], Rank0(MetalRows(ds), i))
           \/ \E i \in VulkanRows(ds) : s = VulkanSlot(ds[i], Rank0(VulkanRows(ds), i))
           \/ \E i \in IgpuRows(ds) : s = IgpuSlot(ds[i], Rank0(IgpuRows(ds), i))
           \/ s = CpuSlot
BY DEF BuildComputeSlots, GroupOf, CudaRows, MetalRows, VulkanRows, IgpuRows, Rank0

LEMMA FiniteImage ==
    ASSUME NEW f, IsFiniteSet(DOMAIN f) PROVE IsFiniteSet({f[x] : x \in DOMAIN f})
<1> DEFINE g == [x \in DOMAIN f |-> f[x]]
<1>1. g \in Surjection(DOMAIN f, {f[x] : x \in DOMAIN f})
  BY DEF Surjection
<1> QED BY <1>1, FS_Surjection

LEMMA RowsFinite == ASSUME NEW ds, Detected(ds) PROVE IsFiniteSet(DOMAIN ds) /\ DOMAIN ds \subseteq Nat
<1>1. DOMAIN ds = 1..Len(ds) /\ Len(ds) \in Nat
  BY DEF Detected
<1>2. IsFiniteSet(1..Len(ds))
  BY <1>1, FS_Interval
<1>3. 1..Len(ds) \subseteq Nat
  OBVIOUS
<1> QED BY <1>1, <1>2, <1>3

LEMMA PlanFinite == ASSUME NEW ds, Detected(ds) PROVE IsFiniteSet(BuildComputeSlots(ds))
<1> DEFINE D == DOMAIN ds
           c == [i \in D |-> CudaSlot(ds[i], GroupOf(ds))]
           m == [i \in D |-> MetalSlot(ds[i], Rank0(MetalRows(ds), i))]
           v == [i \in D |-> VulkanSlot(ds[i], Rank0(VulkanRows(ds), i))]
           g == [i \in D |-> IgpuSlot(ds[i], Rank0(IgpuRows(ds), i))]
           Im(f) == {f[x] : x \in DOMAIN f}
           W == Im(c) \cup (Im(m) \cup (Im(v) \cup (Im(g) \cup {CpuSlot})))
<1>1. IsFiniteSet(D)
  BY RowsFinite
<1>2. DOMAIN c = D /\ DOMAIN m = D /\ DOMAIN v = D /\ DOMAIN g = D
  OBVIOUS
<1>3. /\ CudaRows(ds) \subseteq D /\ MetalRows(ds) \subseteq D
      /\ VulkanRows(ds) \subseteq D /\ IgpuRows(ds) \subseteq D
  BY DEF CudaRows, MetalRows, VulkanRows, IgpuRows
<1>4. BuildComputeSlots(ds) \subseteq W
  <2> SUFFICES ASSUME NEW s \in BuildComputeSlots(ds) PROVE s \in W
    OBVIOUS
  <2>1. \A i \in CudaRows(ds) : s = CudaSlot(ds[i], GroupOf(ds)) => s \in Im(c)
    BY <1>3
  <2>3. \A i \in MetalRows(ds) : s = MetalSlot(ds[i], Rank0(MetalRows(ds), i)) => s \in Im(m)
    BY <1>3
  <2>4. \A i \in VulkanRows(ds) : s = VulkanSlot(ds[i], Rank0(VulkanRows(ds), i)) => s \in Im(v)
    BY <1>3
  <2>5. \A i \in IgpuRows(ds) : s = IgpuSlot(ds[i], Rank0(IgpuRows(ds), i)) => s \in Im(g)
    BY <1>3
  <2> HIDE DEF c, m, v, g, Im
  <2> QED BY <2>1, <2>3, <2>4, <2>5, PlanRows
<1>5. IsFiniteSet(Im(c)) /\ IsFiniteSet(Im(m)) /\ IsFiniteSet(Im(v)) /\ IsFiniteSet(Im(g))
  <2> HIDE DEF c, m, v, g, D
  <2> QED BY <1>1, <1>2, FiniteImage
<1>6. IsFiniteSet({CpuSlot})
  BY FS_Singleton
<1> HIDE DEF c, m, v, g, Im
<1>7. IsFiniteSet(W)
  BY <1>5, <1>6, FS_Union
<1> QED BY <1>4, <1>7, FS_Subset

\* What a slot of a machine is.
SlotShape(s) ==
    /\ s.id \in SlotName \X Nat /\ s.id # AnySlot
    /\ s.card \in VirtualCard
    /\ VramOf(s) \in Nat
    /\ s.priority \in Nat
    /\ s.group \in {TpGroupId, NoGroup} /\ (s.group = TpGroupId => s.kind = "discrete_cuda")
    /\ s.card.kind = s.device.kind /\ s.card.family = s.device.vendor
    /\ \/ /\ s.kind = "discrete_cuda" /\ s.id[1] = "cuda" /\ s.priority = 10
          /\ s.card.strategy = "single" /\ IsCuda(s.device)
       \/ /\ s.kind = "metal" /\ s.id[1] = "metal" /\ s.priority = 15
          /\ s.card.strategy = "metal" /\ s.card.vram > 0 /\ IsMetal(s.device)
          /\ s.device.vendor = "apple"
       \/ /\ s.kind = "discrete_vulkan" /\ s.id[1] = "vulkan" /\ s.priority = 20
          /\ s.card.strategy = "vulkan" /\ s.card.vram > 0
       \/ /\ s.kind = "integrated" /\ s.id[1] = "igpu" /\ s.priority = 40
          /\ s.card.strategy = "vulkan" /\ s.card.vram > 0
       \/ /\ s.kind = "cpu" /\ s.id = <<"cpu", 0>> /\ s.priority = 90
          /\ s.card.strategy = "cpu"

LEMMA VramIsNat == ASSUME NEW d \in ComputeDevice PROVE EffectiveVram(d) \in Nat
BY DEF ComputeDevice, EffectiveVram, SoftDiscreteVram

LEMMA BudgetIsNat == ASSUME NEW gb \in Nat PROVE OffloadLayerBudget(gb) \in Nat
<1> DEFINE u == gb * 1024 - 768
<1>1. u \in Int /\ (u >= 300 => (2 * u + 300) \div 600 \in Nat)
  OBVIOUS
<1> QED BY <1>1 DEF OffloadLayerBudget

LEMMA CardType ==
    ASSUME NEW d, d.kind \in DeviceKinds, d.vendor \in Vendors, NEW st \in {"single", "tp", "metal", "vulkan", "cpu"}, NEW v \in Nat
    PROVE  CardForDevice(d, st, v) \in VirtualCard
BY BudgetIsNat DEF CardForDevice, VirtualCard

LEMMA RankIsNat ==
    ASSUME NEW ds, Detected(ds), NEW rows \in SUBSET DOMAIN ds, NEW i PROVE Rank0(rows, i) \in Nat
<1>1. IsFiniteSet(DOMAIN ds)
  BY RowsFinite
<1>2. IsFiniteSet({k \in rows : k < i})
  BY <1>1, FS_Subset
<1> QED BY <1>2, FS_CardinalityType DEF Rank0

LEMMA SlotsHaveShape ==
    ASSUME NEW ds, Detected(ds), NEW s \in BuildComputeSlots(ds)
    PROVE  SlotShape(s)
<1>1. \A i \in DOMAIN ds : /\ ds[i] \in ComputeDevice /\ EffectiveVram(ds[i]) \in Nat
                           /\ IsMetal(ds[i]) => ds[i].vendor = "apple"
  BY VramIsNat DEF Detected
<1>2. /\ CudaRows(ds) \subseteq DOMAIN ds /\ MetalRows(ds) \subseteq DOMAIN ds
      /\ VulkanRows(ds) \subseteq DOMAIN ds /\ IgpuRows(ds) \subseteq DOMAIN ds
      /\ \A i \in CudaRows(ds) : IsCuda(ds[i])
      /\ \A i \in MetalRows(ds) : IsMetal(ds[i])
  BY DEF CudaRows, MetalRows, VulkanRows, IgpuRows
<1>3. ASSUME NEW i \in CudaRows(ds), s = CudaSlot(ds[i], GroupOf(ds))
      PROVE  SlotShape(s)
  <2>a. i \in DOMAIN ds
    BY <1>2, Zenon
  <2>0. ds[i] \in ComputeDevice /\ EffectiveVram(ds[i]) \in Nat
    BY <1>1, <2>a, Zenon
  <2>1. ds[i] \in ComputeDevice /\ CardForDevice(ds[i], "single", EffectiveVram(ds[i])) \in VirtualCard
    BY <2>0, CardType DEF ComputeDevice
  <2>2. ds[i].index \in Nat
    BY <2>1 DEF ComputeDevice
  <2> QED BY <1>2, <1>3, <2>0, <2>1, <2>2 DEF CudaSlot, SlotFor, SlotShape, CardForDevice, SlotName, AnySlot, VramOf, GroupOf
<1>4. ASSUME NEW i \in MetalRows(ds), s = MetalSlot(ds[i], Rank0(MetalRows(ds), i))
      PROVE  SlotShape(s)
  <2> DEFINE v == IF EffectiveVram(ds[i]) = 0 THEN 1 ELSE EffectiveVram(ds[i])
  <2>a. i \in DOMAIN ds
    BY <1>2, Zenon
  <2>0. ds[i] \in ComputeDevice /\ EffectiveVram(ds[i]) \in Nat
    BY <1>1, <2>a, Zenon
  <2>1. ds[i] \in ComputeDevice /\ v \in Nat /\ v > 0
    BY <2>0
  <2>2. CardForDevice(ds[i], "metal", v) \in VirtualCard
    BY <2>1, CardType DEF ComputeDevice
  <2>3. Rank0(MetalRows(ds), i) \in Nat
    BY <1>2, RankIsNat
  <2>4. s = SlotFor(ds[i], "metal", Rank0(MetalRows(ds), i), "metal", 15, "metal", v, NoGroup)
    BY <1>4 DEF MetalSlot, AtLeastOne
  <2> HIDE DEF v
  <2> QED BY <1>1, <1>2, <2>0, <2>1, <2>2, <2>3, <2>4 DEF SlotFor, SlotShape, CardForDevice, SlotName, AnySlot, NoGroup, TpGroupId, VramOf
<1>5. ASSUME NEW i \in VulkanRows(ds), s = VulkanSlot(ds[i], Rank0(VulkanRows(ds), i))
      PROVE  SlotShape(s)
  <2> DEFINE v == IF EffectiveVram(ds[i]) = 0 THEN 1 ELSE EffectiveVram(ds[i])
  <2>a. i \in DOMAIN ds
    BY <1>2, Zenon
  <2>0. ds[i] \in ComputeDevice /\ EffectiveVram(ds[i]) \in Nat
    BY <1>1, <2>a, Zenon
  <2>1. ds[i] \in ComputeDevice /\ v \in Nat /\ v > 0
    BY <2>0
  <2>2. CardForDevice(ds[i], "vulkan", v) \in VirtualCard
    BY <2>1, CardType DEF ComputeDevice
  <2>3. Rank0(VulkanRows(ds), i) \in Nat
    BY <1>2, RankIsNat
  <2>4. s = SlotFor(ds[i], "vulkan", Rank0(VulkanRows(ds), i), "discrete_vulkan", 20, "vulkan", v, NoGroup)
    BY <1>5 DEF VulkanSlot, AtLeastOne
  <2> HIDE DEF v
  <2> QED BY <2>0, <2>1, <2>2, <2>3, <2>4 DEF SlotFor, SlotShape, CardForDevice, SlotName, AnySlot, NoGroup, TpGroupId, VramOf
<1>6. ASSUME NEW i \in IgpuRows(ds), s = IgpuSlot(ds[i], Rank0(IgpuRows(ds), i))
      PROVE  SlotShape(s)
  <2> DEFINE v == IF EffectiveVram(ds[i]) = 0 THEN 1 ELSE EffectiveVram(ds[i])
  <2>a. i \in DOMAIN ds
    BY <1>2, Zenon
  <2>0. ds[i] \in ComputeDevice /\ EffectiveVram(ds[i]) \in Nat
    BY <1>1, <2>a, Zenon
  <2>1. ds[i] \in ComputeDevice /\ v \in Nat /\ v > 0
    BY <2>0
  <2>2. CardForDevice(ds[i], "vulkan", v) \in VirtualCard
    BY <2>1, CardType DEF ComputeDevice
  <2>3. Rank0(IgpuRows(ds), i) \in Nat
    BY <1>2, RankIsNat
  <2>4. s = SlotFor(ds[i], "igpu", Rank0(IgpuRows(ds), i), "integrated", 40, "vulkan", v, NoGroup)
    BY <1>6 DEF IgpuSlot, AtLeastOne
  <2> HIDE DEF v
  <2> QED BY <2>0, <2>1, <2>2, <2>3, <2>4 DEF SlotFor, SlotShape, CardForDevice, SlotName, AnySlot, NoGroup, TpGroupId, VramOf
<1>7. ASSUME s = CpuSlot PROVE SlotShape(s)
  <2>1. CpuRow.kind \in DeviceKinds /\ CpuRow.vendor \in Vendors /\ EffectiveVram(CpuRow) \in Nat
    BY DEF CpuRow, DeviceKinds, Vendors, EffectiveVram
  <2>2. CardForDevice(CpuRow, "cpu", 0) \in VirtualCard
    BY <2>1, CardType
  <2> QED BY <1>7, <2>1, <2>2 DEF CpuSlot, SlotFor, SlotShape, CardForDevice, SlotName, AnySlot, NoGroup, TpGroupId, VramOf
<1> QED BY <1>3, <1>4, <1>5, <1>6, <1>7, PlanRows

\* Rows of one kind have numbers of their own.
LEMMA RankInjective ==
    ASSUME NEW ds, Detected(ds), NEW rows \in SUBSET DOMAIN ds, NEW i \in rows, NEW k \in rows,
           Rank0(rows, i) = Rank0(rows, k)
    PROVE  i = k
<1>1. IsFiniteSet(DOMAIN ds) /\ DOMAIN ds \subseteq Nat
  BY RowsFinite
<1>2. ASSUME NEW a \in rows, NEW b \in rows, a < b PROVE Rank0(rows, a) # Rank0(rows, b)
  <2> DEFINE A == {n \in rows : n < a}
             B == {n \in rows : n < b}
  <2>1. A \in SUBSET B /\ a \in B /\ a \notin A
    BY <1>1, <1>2
  <2>2. IsFiniteSet(B)
    BY <1>1, FS_Subset
  <2>3. Cardinality(A) # Cardinality(B)
    <3> HIDE DEF A, B
    <3> QED BY <2>1, <2>2, FS_Subset
  <2> QED BY <2>3 DEF Rank0
<1>3. i < k \/ k < i \/ i = k
  BY <1>1
<1> QED BY <1>2, <1>3

\* The slots of a machine are told apart by their ids.
LEMMA SlotsHaveIds ==
    ASSUME NEW ds, Detected(ds), NEW s \in BuildComputeSlots(ds), NEW t \in BuildComputeSlots(ds), s.id = t.id
    PROVE  s = t
<1>1. /\ CudaRows(ds) \subseteq DOMAIN ds /\ MetalRows(ds) \subseteq DOMAIN ds
      /\ VulkanRows(ds) \subseteq DOMAIN ds /\ IgpuRows(ds) \subseteq DOMAIN ds
      /\ \A i \in CudaRows(ds) : IsCuda(ds[i])
  BY DEF CudaRows, MetalRows, VulkanRows, IgpuRows
<1> DEFINE FromCuda(x)   == \E i \in CudaRows(ds) : x = CudaSlot(ds[i], GroupOf(ds))
           FromMetal(x)  == \E i \in MetalRows(ds) : x = MetalSlot(ds[i], Rank0(MetalRows(ds), i))
           FromVulkan(x) == \E i \in VulkanRows(ds) : x = VulkanSlot(ds[i], Rank0(VulkanRows(ds), i))
           FromIgpu(x)   == \E i \in IgpuRows(ds) : x = IgpuSlot(ds[i], Rank0(IgpuRows(ds), i))
<1>2. /\ FromCuda(s) \/ FromMetal(s) \/ FromVulkan(s) \/ FromIgpu(s) \/ s = CpuSlot
      /\ FromCuda(t) \/ FromMetal(t) \/ FromVulkan(t) \/ FromIgpu(t) \/ t = CpuSlot
  BY PlanRows
<1>3. /\ \A d, g : CudaSlot(d, g).id[1] = "cuda" /\ CudaSlot(d, g).id[2] = d.index
      /\ \A d, n : MetalSlot(d, n).id[1] = "metal" /\ MetalSlot(d, n).id[2] = n
      /\ \A d, n : VulkanSlot(d, n).id[1] = "vulkan" /\ VulkanSlot(d, n).id[2] = n
      /\ \A d, n : IgpuSlot(d, n).id[1] = "igpu" /\ IgpuSlot(d, n).id[2] = n
      /\ CpuSlot.id[1] = "cpu"
  BY DEF CudaSlot, MetalSlot, VulkanSlot, IgpuSlot, CpuSlot, SlotFor
<1>4. ASSUME FromCuda(s), FromCuda(t) PROVE s = t
  <2>1. PICK i \in CudaRows(ds) : s = CudaSlot(ds[i], GroupOf(ds))
    BY <1>4
  <2>2. PICK k \in CudaRows(ds) : t = CudaSlot(ds[k], GroupOf(ds))
    BY <1>4
  <2>3. ds[i].index = ds[k].index
    BY <1>3, <2>1, <2>2
  <2>4. i = k
    BY <1>1, <2>3 DEF Detected
  <2> QED BY <2>1, <2>2, <2>4
<1>5. ASSUME FromMetal(s), FromMetal(t) PROVE s = t
  <2>1. PICK i \in MetalRows(ds) : s = MetalSlot(ds[i], Rank0(MetalRows(ds), i))
    BY <1>5
  <2>2. PICK k \in MetalRows(ds) : t = MetalSlot(ds[k], Rank0(MetalRows(ds), k))
    BY <1>5
  <2>3. Rank0(MetalRows(ds), i) = Rank0(MetalRows(ds), k)
    BY <1>3, <2>1, <2>2
  <2>4. i = k
    BY <1>1, <2>3, RankInjective
  <2> QED BY <2>1, <2>2, <2>4
<1>6. ASSUME FromVulkan(s), FromVulkan(t) PROVE s = t
  <2>1. PICK i \in VulkanRows(ds) : s = VulkanSlot(ds[i], Rank0(VulkanRows(ds), i))
    BY <1>6
  <2>2. PICK k \in VulkanRows(ds) : t = VulkanSlot(ds[k], Rank0(VulkanRows(ds), k))
    BY <1>6
  <2>3. Rank0(VulkanRows(ds), i) = Rank0(VulkanRows(ds), k)
    BY <1>3, <2>1, <2>2
  <2>4. i = k
    BY <1>1, <2>3, RankInjective
  <2> QED BY <2>1, <2>2, <2>4
<1>7. ASSUME FromIgpu(s), FromIgpu(t) PROVE s = t
  <2>1. PICK i \in IgpuRows(ds) : s = IgpuSlot(ds[i], Rank0(IgpuRows(ds), i))
    BY <1>7
  <2>2. PICK k \in IgpuRows(ds) : t = IgpuSlot(ds[k], Rank0(IgpuRows(ds), k))
    BY <1>7
  <2>3. Rank0(IgpuRows(ds), i) = Rank0(IgpuRows(ds), k)
    BY <1>3, <2>1, <2>2
  <2>4. i = k
    BY <1>1, <2>3, RankInjective
  <2> QED BY <2>1, <2>2, <2>4
<1>8. /\ \A x : FromCuda(x) => x.id[1] = "cuda"
      /\ \A x : FromMetal(x) => x.id[1] = "metal"
      /\ \A x : FromVulkan(x) => x.id[1] = "vulkan"
      /\ \A x : FromIgpu(x) => x.id[1] = "igpu"
      /\ CpuSlot.id[1] = "cpu"
  BY <1>3
<1> HIDE DEF FromCuda, FromMetal, FromVulkan, FromIgpu
<1> QED BY <1>2, <1>4, <1>5, <1>6, <1>7, <1>8

-----------------------------------------------------------------------------
(* Plans *)

IsPlan(p) ==
    /\ IsFiniteSet(p)
    /\ \A s \in p : SlotShape(s)
    /\ \A s, t \in p : s.id = t.id => s = t

LEMMA BuildsPlan == ASSUME NEW ds, Detected(ds) PROVE IsPlan(BuildComputeSlots(ds))
BY PlanFinite, SlotsHaveShape, SlotsHaveIds DEF IsPlan

LEMMA SlotOfId ==
    ASSUME NEW p, IsPlan(p), NEW id \in SlotIds(p)
    PROVE  SlotOf(p, id) \in p /\ SlotOf(p, id).id = id
<1>1. \E s : s \in p /\ s.id = id
  BY DEF SlotIds
<1> DEFINE P(s) == s \in p /\ s.id = id
<1>2. SlotOf(p, id) = CHOOSE s \in p : s.id = id
  BY DEF SlotOf
<1> QED BY <1>1, <1>2

LEMMA IdOfSlot ==
    ASSUME NEW p, IsPlan(p), NEW s \in p
    PROVE  s.id \in SlotIds(p) /\ SlotOf(p, s.id) = s
<1>1. s.id \in SlotIds(p)
  BY DEF SlotIds
<1> QED BY <1>1, SlotOfId DEF IsPlan

-----------------------------------------------------------------------------
(* The orders among the slots of a plan *)

SoonerIn(p)    == {x \in p \X p : Sooner(x[1], x[2])}
SmallestIn(p)  == {x \in p \X p : Smallest(x[1], x[2])}
LargestIn(p)   == {x \in p \X p : Largest(x[1], x[2])}
BestImageIn(p) == {x \in p \X p : BestImage(x[1], x[2])}

LEMMA SlotNumbers ==
    ASSUME NEW p, IsPlan(p)
    PROVE  /\ \A s \in p : s.priority \in Nat /\ s.id[2] \in Nat /\ s.card.vram \in Nat /\ Rank(s) \in 0..3
           /\ \A s, t \in p : s # t => s.priority # t.priority \/ s.id[2] # t.id[2]
<1>1. \A s \in p : SlotShape(s)
  BY DEF IsPlan
<1>2. ASSUME NEW s \in p PROVE s.priority \in Nat /\ s.id[2] \in Nat /\ s.card.vram \in Nat /\ Rank(s) \in 0..3
  BY <1>1 DEF SlotShape, VirtualCard, Rank
<1>3. ASSUME NEW s \in p, NEW t \in p, s.priority = t.priority, s.id[2] = t.id[2] PROVE s = t
  <2>1. s.id[1] = t.id[1]
    BY <1>1, <1>3 DEF SlotShape
  <2>2. s.id = <<s.id[1], s.id[2]>> /\ t.id = <<t.id[1], t.id[2]>>
    BY <1>1 DEF SlotShape
  <2>3. s.id = t.id
    BY <1>3, <2>1, <2>2
  <2> QED BY <2>3 DEF IsPlan
<1> QED BY <1>2, <1>3

LEMMA LargestOrders == ASSUME NEW p, IsPlan(p) PROVE Orders(LargestIn(p), p)
BY SlotNumbers DEF Orders, LargestIn, Largest, Sooner

LEMMA SmallestOrders == ASSUME NEW p, IsPlan(p) PROVE Orders(SmallestIn(p), p)
BY SlotNumbers DEF Orders, SmallestIn, Smallest, Sooner

LEMMA BestImageOrders == ASSUME NEW p, IsPlan(p) PROVE Orders(BestImageIn(p), p)
BY SlotNumbers DEF Orders, BestImageIn, BestImage, Smallest, Sooner

LEMMA PartOrders == ASSUME NEW R, NEW S, Orders(R, S), NEW T, T \subseteq S PROVE Orders(R, T)
BY DEF Orders

\* A placement is a record.
LEMMA OnIsPlacement == ASSUME NEW s PROVE On(s) # NoPlacement
<1>1. DOMAIN On(s) = {"slots", "card", "tp"} /\ DOMAIN NoPlacement = 1..0
  BY DEF On, NoPlacement
<1> QED BY <1>1

LEMMA GroupIsPlacement == ASSUME NEW s PROVE OnGroup(s) # NoPlacement
<1>1. DOMAIN OnGroup(s) = {"slots", "card", "tp"} /\ DOMAIN NoPlacement = 1..0
  BY DEF OnGroup, NoPlacement
<1> QED BY <1>1

\* A set of slots that is not empty has a smallest, a largest and a best one.
LEMMA SmallestFirst ==
    ASSUME NEW p, IsPlan(p), NEW S, S \subseteq p, S # {}
    PROVE  \E s \in S : \A t \in S \ {s} : Smallest(s, t)
<1>1. IsFiniteSet(S)
  BY FS_Subset DEF IsPlan
<1>2. Orders(SmallestIn(p), S)
  BY SmallestOrders, PartOrders
<1>3. PICK s \in S : \A t \in S \ {s} : <<s, t>> \in SmallestIn(p)
  BY <1>1, <1>2, FirstExists
<1>4. \A t \in S \ {s} : Smallest(s, t)
  BY <1>3 DEF SmallestIn
<1> QED BY <1>4

LEMMA LargestFirst ==
    ASSUME NEW p, IsPlan(p), NEW S, S \subseteq p, S # {}
    PROVE  \E s \in S : \A t \in S \ {s} : Largest(s, t)
<1>1. IsFiniteSet(S)
  BY FS_Subset DEF IsPlan
<1>2. Orders(LargestIn(p), S)
  BY LargestOrders, PartOrders
<1>3. PICK s \in S : \A t \in S \ {s} : <<s, t>> \in LargestIn(p)
  BY <1>1, <1>2, FirstExists
<1>4. \A t \in S \ {s} : Largest(s, t)
  BY <1>3 DEF LargestIn
<1> QED BY <1>4

LEMMA BestImageFirst ==
    ASSUME NEW p, IsPlan(p), NEW S, S \subseteq p, S # {}
    PROVE  \E s \in S : \A t \in S \ {s} : BestImage(s, t)
<1>1. IsFiniteSet(S)
  BY FS_Subset DEF IsPlan
<1>2. Orders(BestImageIn(p), S)
  BY BestImageOrders, PartOrders
<1>3. PICK s \in S : \A t \in S \ {s} : <<s, t>> \in BestImageIn(p)
  BY <1>1, <1>2, FirstExists
<1>4. \A t \in S \ {s} : BestImage(s, t)
  BY <1>3 DEF BestImageIn
<1> QED BY <1>4

-----------------------------------------------------------------------------
(* Numbers of a model *)

LEMMA CeilIsNat == ASSUME NEW x \in Int PROVE GbCeil(x) \in Nat
<1>1. x > 0 => (x + 1) \div 2 \in Nat
  OBVIOUS
<1> QED BY <1>1 DEF GbCeil

LEMMA ProductIsNat == ASSUME NEW x \in Nat, NEW y \in Nat PROVE x * y \in Nat
OBVIOUS

LEMMA ModelFields ==
    ASSUME NEW m \in CatalogModel
    PROVE  /\ m.image \in BOOLEAN /\ m.vision \in BOOLEAN
           /\ m.weight \in Nat /\ m.mmproj \in Nat /\ m.minVram \in Nat /\ m.minVramVision \in Nat
           /\ m.minRam \in Nat /\ m.ctx \in Nat /\ m.kvUnit \in Nat /\ m.extras \in Nat
           /\ m.fullVram \in Nat /\ m.weightsVram \in Nat /\ m.kvCatalog \in Nat
BY DEF CatalogModel

LEMMA KvIsNat ==
    ASSUME NEW m \in CatalogModel, NEW vision \in BOOLEAN, NEW nCtx \in Nat
    PROVE  /\ KvGb(m, EffectiveJobNCtx(m, nCtx)) \in Nat
           /\ JobKv(m, vision, nCtx) \in Nat
<1>1. EffectiveJobNCtx(m, nCtx) \in Nat
  BY ModelFields DEF EffectiveJobNCtx, Larger, Smaller
<1>2. KvGb(m, EffectiveJobNCtx(m, nCtx)) \in Nat
  BY <1>1, ModelFields, ProductIsNat DEF KvGb
<1> QED BY <1>2, ModelFields DEF JobKv

LEMMA NeedsAreNats ==
    ASSUME NEW m \in CatalogModel, NEW vision \in BOOLEAN, NEW nCtx \in Nat
    PROVE  /\ HostingMinVram(m) \in Nat /\ ImageJobMinVram(m) \in Nat
           /\ GpuWeightsNeed(m, vision, nCtx) \in Nat
           /\ GpuFullHostNeed(m, vision, nCtx) \in Nat
           /\ OccupancyMinVram(m) \in Nat
<1>1. HostingMinVram(m) \in Nat
  BY ModelFields, CeilIsNat DEF HostingMinVram
<1>2. ImageJobMinVram(m) \in Nat
  <2>1. GbCeil(m.minVramVision) \in Nat /\ GbCeil(m.weight + m.mmproj + 1) \in Nat
    BY ModelFields, CeilIsNat
  <2> QED BY <1>1, <2>1 DEF ImageJobMinVram
<1>3. GpuWeightsNeed(m, vision, nCtx) \in Nat
  BY ModelFields DEF GpuWeightsNeed, Mmproj
<1>4. GpuFullHostNeed(m, vision, nCtx) \in Nat
  BY <1>1, <1>2, ModelFields, KvIsNat DEF GpuFullHostNeed, Larger, Half, Mmproj
<1>5. OccupancyMinVram(m) \in Nat
  <2>1. OffloadFloor(m.weight) \in Nat
    BY ModelFields DEF OffloadFloor
  <2> QED BY <1>1, <2>1 DEF OccupancyMinVram, Larger, Half
<1> QED BY <1>1, <1>2, <1>3, <1>4, <1>5

LEMMA RamNeedsAreNats ==
    ASSUME NEW m \in CatalogModel, NEW card \in VirtualCard, NEW vision \in BOOLEAN, NEW headroom \in Nat
    PROVE  /\ PlacementSysRamNeed(m, card, vision, headroom) \in Nat
           /\ WarmKvOffloadRamNeed(m, vision) \in Nat
<1>1. JobKv(m, vision, 0) \in Nat /\ GbCeil(JobKv(m, vision, 0)) \in Nat
  BY KvIsNat, CeilIsNat
<1>2. WarmKvOffloadRamNeed(m, vision) \in Nat
  BY <1>1 DEF WarmKvOffloadRamNeed, KvOffloadRam, Smaller, Larger, WarmKvOffloadRamCap
<1>3. WeightPlusKvRamNeed(m, vision, headroom) \in Nat
  <2>1. GbCeil(m.weight + JobKv(m, vision, 0)) \in Nat /\ GbCeil(m.minRam) \in Nat
    BY <1>1, ModelFields, CeilIsNat
  <2> QED BY <2>1 DEF WeightPlusKvRamNeed, Larger
<1>4. card.vram \in Nat
  BY DEF VirtualCard
<1> DEFINE spilled == Larger(GpuWeightsNeed(m, vision, 0) - Half(card.vram), 0)
           kvRam   == IF KvFitsOnGpu(Half(card.vram), m, vision, 0) THEN 0 ELSE JobKv(m, vision, 0)
<1>5. spilled \in Nat /\ kvRam \in Nat
  BY <1>1, <1>4, NeedsAreNats DEF Larger, Half
<1>6. GbCeil(spilled + kvRam) \in Nat
  <2> HIDE DEF spilled, kvRam
  <2> QED BY <1>5, CeilIsNat
<1>7. PlacementSysRamNeed(m, card, vision, headroom) =
         CASE m.image \/ card.strategy = "metal" -> 0
          [] ~m.image /\ card.strategy = "cpu" -> WeightPlusKvRamNeed(m, vision, headroom)
          [] OTHER -> IF spilled + kvRam = 0 THEN 0 ELSE GbCeil(spilled + kvRam) + headroom
  BY DEF PlacementSysRamNeed
<1> HIDE DEF spilled, kvRam
<1> QED BY <1>2, <1>3, <1>5, <1>6, <1>7

-----------------------------------------------------------------------------
(* What a placement is *)

Places == [slots : SUBSET (SlotName \X Nat), card : VirtualCard, tp : BOOLEAN]

\* A placement on slots of the plan p that are among ids.
PlacedIn(pl, p, ids) ==
    /\ pl.slots \subseteq ids /\ pl.slots # {}
    /\ \/ \E s \in p : pl = On(s)
       \/ Siblings(p, TpGroupId) # {} /\ pl = OnGroup(Siblings(p, TpGroupId))

Above(S) == {x \in S \X S : x[1] > x[2]}

LEMMA AboveOrders == ASSUME NEW S, S \subseteq Nat PROVE Orders(Above(S), S)
BY DEF Orders, Above

LEMMA GreatestExists ==
    ASSUME NEW S, S \subseteq Nat, IsFiniteSet(S), S # {}
    PROVE  (CHOOSE n \in S : \A k \in S : k <= n) \in S
<1>1. Orders(Above(S), S)
  BY AboveOrders
<1>2. PICK n \in S : \A k \in S \ {n} : <<n, k>> \in Above(S)
  BY <1>1, FirstExists
<1>3. ASSUME NEW k \in S PROVE k <= n
  <2>1. k # n => <<n, k>>[1] > <<n, k>>[2]
    BY <1>2 DEF Above
  <2> QED BY <2>1
<1> QED BY <1>3

LEMMA GroupCard ==
    ASSUME NEW p, IsPlan(p), Siblings(p, TpGroupId) # {}
    PROVE  BuildTpCard(Siblings(p, TpGroupId)) \in VirtualCard
<1> DEFINE sibs == Siblings(p, TpGroupId)
           vrams == {EffectiveVram(s.device) : s \in sibs}
           widest == IF vrams = {} THEN 0 ELSE CHOOSE n \in vrams : \A k \in vrams : k <= n
           total == FoldSet(LAMBDA s, sum : sum + EffectiveVram(s.device), 0, sibs)
           f == [s \in sibs |-> VramOf(s)]
<1>1. sibs \subseteq p /\ IsFiniteSet(sibs) /\ \A s \in sibs : VramOf(s) \in Nat
  BY FS_Subset DEF Siblings, IsPlan, SlotShape
<1>2. BuildTpCard(sibs).vram \in Nat
  <2> HIDE DEF sibs
  <2> QED BY <1>1, SumIsNat, CardFolds
<1>3. vrams \subseteq Nat /\ vrams # {}
  BY <1>1 DEF VramOf
<1>4. IsFiniteSet(vrams)
  <2>1. vrams = {f[s] : s \in DOMAIN f} /\ DOMAIN f = sibs
    BY DEF VramOf
  <2> HIDE DEF f, sibs, vrams
  <2> QED BY <1>1, <2>1, FiniteImage
<1>5. widest \in Nat
  <2> HIDE DEF vrams
  <2> QED BY <1>3, <1>4, GreatestExists
<1>6. BuildTpCard(sibs) = [strategy |-> "tp", kind |-> "discrete", family |-> "nvidia",
                           vram |-> total, layers |-> OffloadLayerBudget(widest)]
  BY Zenon DEF BuildTpCard
<1> HIDE DEF sibs, widest, total
<1>7. total \in Nat /\ OffloadLayerBudget(widest) \in Nat
  BY <1>2, <1>5, <1>6, BudgetIsNat
<1>8. BuildTpCard(sibs) \in VirtualCard
  BY <1>6, <1>7 DEF VirtualCard, DeviceKinds, Vendors
<1> QED BY <1>8 DEF sibs

LEMMA PlacementShape ==
    ASSUME NEW p, IsPlan(p), NEW ids, ids \subseteq SlotIds(p), NEW pl, PlacedIn(pl, p, ids)
    PROVE  pl \in Places
<1>1. SlotIds(p) \subseteq SlotName \X Nat
  BY DEF SlotIds, IsPlan, SlotShape
<1>2. pl.slots \in SUBSET (SlotName \X Nat)
  BY <1>1 DEF PlacedIn
<1>3. ASSUME NEW s \in p, pl = On(s) PROVE pl \in Places
  <2>1. pl = [slots |-> {s.id}, card |-> s.card, tp |-> FALSE]
    BY <1>3 DEF On
  <2>2. s.card \in VirtualCard
    BY DEF IsPlan, SlotShape
  <2> QED BY <1>2, <2>1, <2>2 DEF Places
<1>4. ASSUME Siblings(p, TpGroupId) # {}, pl = OnGroup(Siblings(p, TpGroupId)) PROVE pl \in Places
  <2> DEFINE card == BuildTpCard(Siblings(p, TpGroupId))
  <2>1. card \in VirtualCard
    BY <1>4, GroupCard
  <2>2. pl = [slots |-> SlotIds(Siblings(p, TpGroupId)), card |-> card, tp |-> TRUE]
    BY <1>4 DEF OnGroup
  <2> HIDE DEF card
  <2> QED BY <1>2, <2>1, <2>2 DEF Places
<1> QED BY <1>3, <1>4 DEF PlacedIn

\* The placement of FirstBy, on one of the slots it may choose from.
LEMMA PickedImage ==
    ASSUME NEW v, NEW r, PickImagePlacement(v, r) # NoPlacement
    PROVE  \E s \in v.plan : IsIdle(v, s) /\ ImageSlot(r.model, s) /\ PickImagePlacement(v, r) = On(s)
BY DEF PickImagePlacement, FirstBy, Those

LEMMA PickedFit ==
    ASSUME NEW v, NEW r, FullFit(v, r) # NoPlacement
    PROVE  \E s \in v.plan : IsIdle(v, s) /\ FullFit(v, r) = On(s)
BY DEF FullFit, FirstBy, Those, MayPlace

LEMMA PickedOffload ==
    ASSUME NEW v, NEW r, Offload(v, r) # NoPlacement
    PROVE  \E s \in v.plan : IsIdle(v, s) /\ Offload(v, r) = On(s)
BY DEF Offload, FirstBy, Those, MayPlace

LEMMA PickedProcessor ==
    ASSUME NEW v, NEW r, OnProcessor(v, r) # NoPlacement
    PROVE  \E s \in v.plan : IsIdle(v, s) /\ OnProcessor(v, r) = On(s)
BY DEF OnProcessor, FirstBy, Those

LEMMA PickedResident ==
    ASSUME NEW v, NEW r, NEW resident, PickResident(v, r, resident) # NoPlacement
    PROVE  \E s \in v.plan : IsIdle(v, s) /\ PickResident(v, r, resident) = On(s)
BY DEF PickResident, FirstBy, Those

LEMMA PickedGroup ==
    ASSUME NEW v, NEW r, TensorParallel(v, r) # NoPlacement
    PROVE  /\ Siblings(v.plan, TpGroupId) # {} /\ SlotIds(Siblings(v.plan, TpGroupId)) \subseteq v.idle
           /\ TensorParallel(v, r) = OnGroup(Siblings(v.plan, TpGroupId))
BY DEF TensorParallel

LEMMA OnIdle ==
    ASSUME NEW v, NEW s \in v.plan, IsIdle(v, s)
    PROVE  PlacedIn(On(s), v.plan, v.idle)
BY DEF PlacedIn, On, IsIdle

LEMMA GroupIdle ==
    ASSUME NEW v, Siblings(v.plan, TpGroupId) # {}, SlotIds(Siblings(v.plan, TpGroupId)) \subseteq v.idle
    PROVE  PlacedIn(OnGroup(Siblings(v.plan, TpGroupId)), v.plan, v.idle)
BY DEF PlacedIn, OnGroup, SlotIds

LEMMA PickedPlacement ==
    ASSUME NEW v, NEW r, PickPlacement(v, r) # NoPlacement
    PROVE  /\ PlacedIn(PickPlacement(v, r), v.plan, v.idle)
           /\ r.model.image => ~PickPlacement(v, r).tp
<1>1. CASE r.model.image
  <2>1. PickPlacement(v, r) = PickImagePlacement(v, r)
    BY <1>1 DEF PickPlacement
  <2> QED BY <2>1, PickedImage, OnIdle DEF On
<1>2. CASE ~r.model.image
  <2>1. \/ FullFit(v, r) # NoPlacement /\ PickPlacement(v, r) = FullFit(v, r)
        \/ TensorParallel(v, r) # NoPlacement /\ PickPlacement(v, r) = TensorParallel(v, r)
        \/ Offload(v, r) # NoPlacement /\ PickPlacement(v, r) = Offload(v, r)
        \/ OnProcessor(v, r) # NoPlacement /\ PickPlacement(v, r) = OnProcessor(v, r)
    BY <1>2 DEF PickPlacement, Else
  <2> QED BY <1>2, <2>1, PickedFit, PickedGroup, PickedOffload, PickedProcessor, OnIdle, GroupIdle
<1> QED BY <1>1, <1>2

LEMMA RequiredPlacement ==
    ASSUME NEW p, IsPlan(p), NEW r, NEW id \in SlotIds(p)
    PROVE  /\ PlacedIn(PlacementForRequired(p, r, id), p, SlotIds(p))
           /\ PlacementForRequired(p, r, id) # NoPlacement
           /\ r.model.image => ~PlacementForRequired(p, r, id).tp
<1> DEFINE s == SlotOf(p, id)
           sibs == Siblings(p, s.group)
<1>1. s \in p /\ s.id = id
  BY SlotOfId
<1>2. \/ PlacementForRequired(p, r, id) = On(s)
      \/ ~r.model.image /\ Cardinality(sibs) > 1 /\ PlacementForRequired(p, r, id) = OnGroup(sibs)
  BY DEF PlacementForRequired
<1> HIDE DEF s
<1>3. CASE PlacementForRequired(p, r, id) = On(s)
  <2>1. On(s).slots = {s.id} /\ s.id \in SlotIds(p) /\ ~On(s).tp
    BY <1>1 DEF On, SlotIds
  <2> QED BY <1>1, <1>3, <2>1, OnIsPlacement DEF PlacedIn
<1>4. CASE ~r.model.image /\ Cardinality(sibs) > 1 /\ PlacementForRequired(p, r, id) = OnGroup(sibs)
  <2>1. sibs # {}
    BY <1>4, FS_EmptySet
  <2>2. \A t \in p : t.group \in {TpGroupId, NoGroup}
    BY DEF IsPlan, SlotShape
  <2>3. s.group = TpGroupId
    BY <1>1, <2>1, <2>2 DEF Siblings
  <2>4. sibs = Siblings(p, TpGroupId)
    BY <2>3
  <2> HIDE DEF sibs
  <2>5. OnGroup(sibs).slots = SlotIds(sibs) /\ SlotIds(sibs) # {} /\ SlotIds(sibs) \subseteq SlotIds(p)
    BY <2>1, <2>4 DEF OnGroup, SlotIds, Siblings
  <2> QED BY <1>4, <2>1, <2>4, <2>5, GroupIsPlacement DEF PlacedIn
<1> QED BY <1>2, <1>3, <1>4

-----------------------------------------------------------------------------
(* The invariant that makes the types inductive *)

Workers == [here : BOOLEAN, healthy : BOOLEAN, busy : BOOLEAN,
            loaded : SUBSET DOMAIN Catalog, holds : SUBSET DOMAIN Catalog]
Checkouts == [job : Job \cup {NoJob, "warm"}, ram : Nat, fresh : BOOLEAN]
Jobs == [pc : {"off", "new", "claimed", "checked", "running", "done"}, skip : SUBSET (SlotName \X Nat),
         tries : 0..MaxAttempts - 1, place : Places \cup {NoPlacement}, code : Codes]
Watches(ids) == [latched : SUBSET ids, ignore : Nat, candidate : [ids -> Never..EnterHold],
                 clear : [ids -> Never..ExitHold]]
MachineOK == scene \in Scenarios /\ devices \in {scene.devices, scene.measured} /\ IsPlan(plan)
PoolOK ==
    /\ worker \in [Ids -> Workers] /\ checkout \in [Ids -> Checkouts]
    /\ residue \in [Ids -> 0..DriverLag]
    /\ \A id \in Ids : worker[id].here => id \notin scene.unusable
JobsOK ==
    /\ job \in [Job -> Jobs]
    /\ \A j \in Job : (job[j].code # NoCode) = Ended(j)
    /\ \A j \in Job : job[j].pc \in {"claimed", "checked", "running"}
                         => PlacedIn(job[j].place, plan, Ids \ scene.unusable)
SetsOK ==
    /\ watch \in Watches(Ids)
    /\ evicting \cup foreign \subseteq Ids /\ warm \subseteq Ids \ scene.unusable

TypeInv == MachineOK /\ PoolOK /\ JobsOK /\ SetsOK

\* What the machine of a behaviour tells of a job.
LEMMA JobFacts ==
    ASSUME MachineOK, NEW j \in Job
    PROVE  /\ Asked(j) \in DOMAIN Catalog /\ Model(j) \in CatalogModel
           /\ Request(j).model = Model(j) /\ Request(j).vision \in BOOLEAN /\ Request(j).nCtx \in Nat
           /\ Request(j).pin \in SlotName \X Nat
<1>1. Possible(scene)
  BY DispatchAssumption DEF MachineOK
<1>2. scene.request[j] \in [model : DOMAIN Catalog, vision : BOOLEAN, nCtx : Nat, pin : SlotName \X Nat]
  BY <1>1 DEF Possible
<1>3. Asked(j) \in DOMAIN Catalog
  BY <1>2 DEF Asked
<1>4. Model(j) \in CatalogModel
  BY <1>3, DispatchAssumption DEF Model, Chartable
<1>5. Request(j) = [scene.request[j] EXCEPT !.model = Model(j)]
  BY DEF Request
<1> HIDE DEF Request
<1>6. /\ Request(j).model = Model(j) /\ Request(j).vision = scene.request[j].vision
      /\ Request(j).nCtx = scene.request[j].nCtx /\ Request(j).pin = scene.request[j].pin
  BY <1>2, <1>5
<1> QED BY <1>2, <1>3, <1>4, <1>6

\* The first of some slots is one of them.
LEMMA FirstIsOf ==
    ASSUME MachineOK, NEW ids, ids \subseteq Ids, ids # {}
    PROVE  /\ FirstOf(ids) \in ids
           /\ \A other \in ids \ {FirstOf(ids)} : Largest(Slot(FirstOf(ids)), Slot(other))
<1>1. IsPlan(plan)
  BY DEF MachineOK
<1> DEFINE S == {s \in plan : s.id \in ids}
<1>2. \A id \in ids : Slot(id) \in S /\ Slot(id).id = id
  BY <1>1, SlotOfId DEF Slot, Ids
<1>3. S \subseteq plan /\ S # {}
  BY <1>2
<1>4. PICK s \in S : \A t \in S \ {s} : Largest(s, t)
  <2> HIDE DEF S
  <2> QED BY <1>1, <1>3, LargestFirst
<1>5. s.id \in ids /\ Slot(s.id) = s
  BY <1>1, <1>4, IdOfSlot DEF Slot
<1>6. \A other \in ids \ {s.id} : Slot(other) \in S \ {s}
  BY <1>2, <1>5
<1>7. \A other \in ids \ {s.id} : Largest(Slot(s.id), Slot(other))
  BY <1>4, <1>5, <1>6
<1>8. \E id \in ids : \A other \in ids \ {id} : Largest(Slot(id), Slot(other))
  BY <1>5, <1>7
<1> HIDE DEF S
<1> QED BY <1>8 DEF FirstOf

\* The slot of a job that has a place.
LEMMA TakenFacts ==
    ASSUME TypeInv, NEW j \in Job, job[j].pc \in {"claimed", "checked", "running"}
    PROVE  /\ SlotTaken(j) \in job[j].place.slots
           /\ job[j].place.slots \subseteq Ids \ scene.unusable
           /\ SlotTaken(j) \in Ids \ scene.unusable
           /\ job[j].place \in Places
<1>1. PlacedIn(job[j].place, plan, Ids \ scene.unusable)
  BY DEF TypeInv, JobsOK
<1>2. job[j].place.slots \subseteq Ids \ scene.unusable /\ job[j].place.slots # {}
  BY <1>1 DEF PlacedIn
<1>3. SlotTaken(j) \in job[j].place.slots
  BY <1>2, FirstIsOf DEF TypeInv, SlotTaken
<1>4. job[j].place \in Places
  BY <1>1, PlacementShape DEF TypeInv, MachineOK, Ids
<1> QED BY <1>2, <1>3, <1>4

LEMMA FreshIsWorker == Fresh \in Workers /\ Absent \in Workers /\ Fresh.here /\ ~Absent.here /\ NoHold \in Checkouts
BY DEF Fresh, Absent, Workers, NoHold, Checkouts

\* The configuration stays: so do the slots and what the jobs ask.
Stays == scene' = scene /\ devices' = devices /\ plan' = plan

LEMMA StaysFacts ==
    ASSUME MachineOK, Stays
    PROVE  MachineOK' /\ Ids' = Ids
BY DEF MachineOK, Stays, Ids

LEMMA JobsKept == ASSUME JobsOK, Stays, job' = job PROVE JobsOK'
BY DEF JobsOK, Stays, Ids, Ended

LEMMA PoolKept == ASSUME PoolOK, Stays, UNCHANGED <<worker, checkout, residue>> PROVE PoolOK'
BY DEF PoolOK, Stays, Ids

LEMMA SetsKept == ASSUME SetsOK, Stays, UNCHANGED <<watch, evicting, foreign, warm>> PROVE SetsOK'
BY DEF SetsOK, Stays, Ids

\* A job gets a new state; the others keep theirs.
LEMMA JobSet ==
    ASSUME JobsOK, Stays, NEW j \in Job, NEW s \in Jobs, job' = [job EXCEPT ![j] = s],
           (s.code # NoCode) = (s.pc = "done"),
           s.pc \in {"claimed", "checked", "running"} => PlacedIn(s.place, plan, Ids \ scene.unusable)
    PROVE  JobsOK'
BY DEF JobsOK, Stays, Ids, Ended

LEMMA JobEnds ==
    ASSUME JobsOK, Stays, NEW j \in Job, NEW code \in Codes \ {NoCode}, Ends(j, code) PROVE JobsOK'
<1> DEFINE s == [job[j] EXCEPT !.pc = "done", !.code = code]
<1>1. job' = [job EXCEPT ![j] = s]
  BY DEF Ends, JobsOK
<1>2. s \in Jobs /\ s.pc = "done" /\ s.code = code
  BY DEF JobsOK, Jobs
<1> HIDE DEF s
<1> QED BY <1>1, <1>2, JobSet

-----------------------------------------------------------------------------
(* Submission and claims *)

LEMMA SubmitType == ASSUME TypeInv, NEW j \in Job, Submit(j) PROVE TypeInv'
<1>1. Stays
  BY DEF Submit, config, Stays
<1>2. JobsOK'
  <2> DEFINE s == [job[j] EXCEPT !.pc = "new"]
  <2>1. job' = [job EXCEPT ![j] = s]
    BY DEF Submit, TypeInv, JobsOK
  <2>2. s \in Jobs /\ s.pc = "new" /\ s.code = NoCode
    BY DEF Submit, TypeInv, JobsOK, Jobs, Ended
  <2> HIDE DEF s
  <2> QED BY <1>1, <2>1, <2>2, JobSet DEF TypeInv
<1> QED BY <1>1, <1>2, StaysFacts, PoolKept, SetsKept DEF TypeInv, Submit, pool, watched, truth

LEMMA ClaimType ==
    ASSUME TypeInv, Stays, NEW j \in Job, job[j].pc = "new", NEW p, NEW ids, ids \subseteq Ids,
           PlacedIn(p, plan, ids), \A id \in ids : worker[id].here, job' = ClaimedBy(j, p)
    PROVE  JobsOK'
<1>1. PlacedIn(p, plan, Ids \ scene.unusable)
  BY DEF PlacedIn, TypeInv, PoolOK
<1>2. p \in Places
  BY PlacementShape DEF TypeInv, MachineOK, Ids
<1> DEFINE s == [job[j] EXCEPT !.pc = "claimed", !.place = p]
<1>3. job' = [job EXCEPT ![j] = s]
  BY DEF ClaimedBy, TypeInv, JobsOK
<1>4. s \in Jobs /\ s.pc = "claimed" /\ s.code = NoCode /\ s.place = p
  BY <1>2 DEF TypeInv, JobsOK, Jobs, Ended
<1> HIDE DEF s
<1> QED BY <1>1, <1>3, <1>4, JobSet DEF TypeInv

LEMMA ClaimedPool ==
    ASSUME TypeInv, Stays, UNCHANGED <<checkout, residue>>, NEW j, NEW p, Claimed(j, p) PROVE PoolOK'
<1>1. \A id \in Ids : worker'[id] \in Workers /\ worker'[id].here = worker[id].here
  BY DEF TypeInv, PoolOK, Claimed, Workers
<1>2. worker' \in [Ids -> Workers]
  BY <1>1 DEF Claimed
<1> QED BY <1>1, <1>2 DEF TypeInv, PoolOK, Stays, Ids

LEMMA MissCode == ASSUME NEW v, NEW r PROVE PlacementMiss(v, r) \in Codes \ {NoCode}
<1>1. ImageMiss(v, r) \in {"insufficient_vram", "no_idle_slot", "agent_busy"}
  BY DEF ImageMiss
<1>2. TextMiss(v, r) \in {"insufficient_vram", "agent_busy"}
  BY DEF TextMiss
<1> QED BY <1>1, <1>2 DEF PlacementMiss, Codes, NoCode

\* What a job is placed on is idle.
LEMMA ChoiceIdle ==
    ASSUME NEW j, NEW idle, Choice(j, idle) # NoPlacement
    PROVE  PlacedIn(Choice(j, idle), plan, idle)
<1>1. View(idle).plan = plan /\ View(idle).idle = idle
  BY DEF View
<1>2. CASE PickResident(View(idle), Request(j), Resident(idle, Asked(j))) # NoPlacement
  <2>1. Choice(j, idle) = PickResident(View(idle), Request(j), Resident(idle, Asked(j)))
    BY <1>2 DEF Choice
  <2> QED BY <1>1, <1>2, <2>1, PickedResident, OnIdle
<1>3. CASE PickResident(View(idle), Request(j), Resident(idle, Asked(j))) = NoPlacement
  <2>1. Choice(j, idle) = PickPlacement(View(idle), Request(j))
    BY <1>3 DEF Choice
  <2> QED BY <1>1, <2>1, PickedPlacement
<1> QED BY <1>2, <1>3

LEMMA IdleForIs ==
    ASSUME MachineOK, NEW j, NEW contended
    PROVE  /\ IdleFor(j, contended) \subseteq Ids
           /\ \A id \in IdleFor(j, contended) :
                 /\ id \notin job[j].skip \cup Blocked(Asked(j)) \cup watch.latched
                 /\ Available(id)
                 /\ Accelerator(Slot(id)) \/ CpuOffered(j, contended)
<1>1. ASSUME NEW id \in IdleFor(j, contended)
      PROVE  /\ id \in Ids
             /\ id \notin job[j].skip \cup Blocked(Asked(j)) \cup watch.latched
             /\ Available(id)
             /\ Accelerator(Slot(id)) \/ CpuOffered(j, contended)
  <2>1. PICK s \in plan : /\ s.id = id
                          /\ s.id \notin job[j].skip \cup Blocked(Asked(j)) \cup watch.latched
                          /\ Accelerator(s) \/ CpuOffered(j, contended)
                          /\ Available(s.id)
    BY DEF IdleFor, SlotIds
  <2>2. s.id \in Ids /\ Slot(s.id) = s
    BY <2>1, IdOfSlot DEF MachineOK, Ids, Slot
  <2> QED BY <2>1, <2>2
<1> QED BY <1>1

LEMMA PlaceType == ASSUME TypeInv, NEW j \in Job, Place(j) PROVE TypeInv'
<1>1. Stays /\ UNCHANGED <<checkout, residue, watch, evicting, foreign, warm>>
  BY DEF Place, config, Stays, watched, truth
<1>2. PICK contended \in BOOLEAN :
         LET idle == IdleFor(j, contended)
             p    == Choice(j, idle)
         IN  IF p # NoPlacement THEN Claimed(j, p)
             ELSE /\ Ends(j, IF job[j].tries > 0 THEN "crash"
                             ELSE PlacementMiss(View(idle), Request(j)))
                  /\ JobFinishes(j) /\ UNCHANGED worker
  BY DEF Place
<1> DEFINE idle == IdleFor(j, contended)
           p == Choice(j, idle)
<1> HIDE DEF idle
<1>3. idle \subseteq Ids /\ \A id \in idle : worker[id].here
  BY IdleForIs DEF TypeInv, Available, idle
<1>4. CASE p # NoPlacement
  <2>1. Claimed(j, p)
    BY <1>2, <1>4 DEF idle
  <2>2. PlacedIn(p, plan, idle)
    BY <1>4, ChoiceIdle
  <2> HIDE DEF p
  <2>3. job[j].pc = "new" /\ job' = ClaimedBy(j, p)
    BY <2>1 DEF Place, Claimed
  <2>4. JobsOK'
    BY <1>1, <1>3, <2>2, <2>3, ClaimType
  <2>5. PoolOK'
    BY <1>1, <2>1, ClaimedPool
  <2> QED BY <1>1, <2>4, <2>5, StaysFacts, SetsKept DEF TypeInv
<1>5. CASE p = NoPlacement
  <2>1. PICK code \in Codes \ {NoCode} : Ends(j, code)
    BY <1>2, <1>5, MissCode DEF Codes, NoCode, idle
  <2>2. worker' = worker
    BY <1>2, <1>5 DEF idle
  <2> HIDE DEF p
  <2> QED BY <1>1, <2>1, <2>2, StaysFacts, JobEnds, PoolKept, SetsKept DEF TypeInv
<1> QED BY <1>4, <1>5

LEMMA PlaceImageType == ASSUME TypeInv, NEW j \in Job, PlaceImage(j) PROVE TypeInv'
<1>1. Stays /\ UNCHANGED <<checkout, residue, watch, evicting, foreign, warm>>
  BY DEF PlaceImage, config, Stays, watched, truth
<1> DEFINE idle == {id \in Ids : id \notin Blocked(Asked(j)) \cup watch.latched /\ Available(id)}
           p == PickPlacement(View(idle), Request(j))
<1>2. /\ job[j].pc = "new"
      /\ IF p # NoPlacement THEN Claimed(j, p)
         ELSE /\ Ends(j, PlacementMiss(View(idle), Request(j)))
              /\ JobFinishes(j) /\ UNCHANGED worker
  BY DEF PlaceImage
<1>3. idle \subseteq Ids /\ \A id \in idle : worker[id].here
  BY DEF Available
<1> HIDE DEF idle
<1>4. View(idle).plan = plan /\ View(idle).idle = idle
  BY DEF View
<1>5. CASE p # NoPlacement
  <2>1. Claimed(j, p)
    BY <1>2, <1>5
  <2>2. PlacedIn(p, plan, idle)
    BY <1>4, <1>5, PickedPlacement
  <2> HIDE DEF p
  <2>3. job' = ClaimedBy(j, p)
    BY <2>1 DEF Claimed
  <2>4. JobsOK'
    BY <1>1, <1>2, <1>3, <2>2, <2>3, ClaimType
  <2>5. PoolOK'
    BY <1>1, <2>1, ClaimedPool
  <2> QED BY <1>1, <2>4, <2>5, StaysFacts, SetsKept DEF TypeInv
<1>6. CASE p = NoPlacement
  <2>1. PICK code \in Codes \ {NoCode} : Ends(j, code)
    BY <1>2, <1>6, MissCode
  <2>2. worker' = worker
    BY <1>2, <1>6
  <2> HIDE DEF p
  <2> QED BY <1>1, <2>1, <2>2, StaysFacts, JobEnds, PoolKept, SetsKept DEF TypeInv
<1> QED BY <1>5, <1>6

\* One slot changes.
LEMMA PoolSet ==
    ASSUME TypeInv, Stays, NEW id \in Ids \ scene.unusable, NEW w \in Workers,
           worker' = [worker EXCEPT ![id] = w],
           checkout' \in [Ids -> Checkouts], residue' \in [Ids -> 0..DriverLag]
    PROVE  PoolOK'
BY DEF TypeInv, PoolOK, Stays, Ids

LEMMA OneHold ==
    ASSUME TypeInv, NEW id \in Ids, NEW c \in Checkouts PROVE [checkout EXCEPT ![id] = c] \in [Ids -> Checkouts]
BY DEF TypeInv, PoolOK

LEMMA OneResidue ==
    ASSUME TypeInv, NEW id \in Ids, NEW n \in 0..DriverLag
    PROVE  [residue EXCEPT ![id] = n] \in [Ids -> 0..DriverLag]
BY DEF TypeInv, PoolOK

LEMMA PoolFacts ==
    ASSUME TypeInv, NEW id \in Ids
    PROVE  /\ worker[id] \in Workers /\ worker[id].loaded \subseteq DOMAIN Catalog
           /\ worker[id].holds \subseteq DOMAIN Catalog
           /\ checkout[id] \in Checkouts /\ residue[id] \in 0..DriverLag
           /\ residue \in [Ids -> 0..DriverLag] /\ checkout \in [Ids -> Checkouts]
           /\ worker \in [Ids -> Workers]
BY DEF TypeInv, PoolOK, Workers

LEMMA LagIs == DriverLag \in 0..DriverLag /\ 0 \in 0..DriverLag
BY DEF DriverLag

LEMMA CodesAre ==
    /\ {"ok", "failed", "crash", "agent_busy", "no_idle_slot", "insufficient_vram"} \subseteq Codes \ {NoCode}
    /\ NoCode \in Codes
BY DEF Codes, NoCode

LEMMA AttemptsBound == ASSUME MachineOK PROVE Attempts \in 1..MaxAttempts
<1>1. IsFiniteSet({s \in plan : Accelerator(s)})
  BY FS_Subset DEF MachineOK, IsPlan
<1>2. Cardinality({s \in plan : Accelerator(s)}) \in Nat
  BY <1>1, FS_CardinalityType
<1> QED BY <1>2 DEF Attempts, MaxAttempts

LEMMA FailureType ==
    ASSUME TypeInv, Stays, NEW j \in Job, job[j].pc \in {"claimed", "running"},
           NEW id, NEW fault, AfterFailure(j, id, fault)
    PROVE  JobsOK'
<1>1. CASE fault = "crash" /\ ~Pinned(j) /\ job[j].tries + 1 < Attempts
  <2> DEFINE s == [job[j] EXCEPT !.pc = "new", !.tries = @ + 1, !.skip = @ \cup job[j].place.slots]
  <2>1. job' = [job EXCEPT ![j] = s]
    BY <1>1 DEF AfterFailure, TypeInv, JobsOK
  <2>2. job[j].tries + 1 \in 0..MaxAttempts - 1
    BY <1>1, AttemptsBound DEF TypeInv, JobsOK, Jobs, MaxAttempts
  <2>3. job[j].skip \cup job[j].place.slots \subseteq SlotName \X Nat
    BY TakenFacts DEF TypeInv, JobsOK, Jobs, Places
  <2>4. job[j] \in Jobs /\ job[j].code = NoCode
    BY DEF TypeInv, JobsOK, Ended
  <2>5. s \in Jobs
    BY <2>2, <2>3, <2>4 DEF Jobs
  <2>6. s.pc = "new" /\ s.code = NoCode
    BY <2>4 DEF Jobs
  <2> HIDE DEF s
  <2> QED BY <2>1, <2>5, <2>6, JobSet DEF TypeInv
<1>2. CASE ~(fault = "crash" /\ ~Pinned(j) /\ job[j].tries + 1 < Attempts)
  BY <1>2, CodesAre, JobEnds DEF AfterFailure, TypeInv
<1> QED BY <1>1, <1>2

-----------------------------------------------------------------------------
(* A pin *)

LEMMA PinIds ==
    ASSUME TypeInv, NEW j \in Job, Request(j).pin \in Ids
    PROVE  LET p == PlacementForRequired(plan, Request(j), Request(j).pin)
           IN  PlacedIn(p, plan, Ids) /\ p # NoPlacement
BY RequiredPlacement DEF TypeInv, MachineOK, Ids

LEMMA RefusalCode ==
    ASSUME NEW j, NEW p PROVE PinRefusal(j, p) \in Codes
BY CodesAre DEF PinRefusal

LEMMA NotRefused ==
    ASSUME NEW j, NEW p, PinRefusal(j, p) = NoCode
    PROVE  /\ ~PinLacksCapacity(j, p)
           /\ \A id \in p.slots : id \notin BarredTo(j) /\ worker[id].here /\ ~worker[id].busy
<1>1. Refusing(j, p) = {} /\ ~PinLacksCapacity(j, p)
  BY DEF PinRefusal, NoCode
<1> QED BY <1>1 DEF Refusing

\* The workers that a pin asks for are in the table.
LEMMA AskedHere ==
    ASSUME TypeInv, NEW j, NEW p, PlacedIn(p, plan, Ids), NEW id \in PinAsks(j, p)
    PROVE  id \in Ids /\ worker[id].here /\ ~worker[id].busy
<1>1. id \in p.slots /\ id \in Ids /\ \A other \in Refusing(j, p) : Largest(Slot(id), Slot(other))
  BY DEF PinAsks, PlacedIn
<1>2. ~Largest(Slot(id), Slot(id))
  <2>1. Slot(id) \in plan
    BY <1>1, SlotOfId DEF TypeInv, MachineOK, Ids, Slot
  <2>2. SlotShape(Slot(id))
    BY <2>1 DEF TypeInv, MachineOK, IsPlan
  <2>3. Slot(id).card.vram \in Nat /\ Slot(id).priority \in Nat /\ Slot(id).id[2] \in Nat
    BY <2>2 DEF SlotShape, VirtualCard
  <2> QED BY <2>3 DEF Largest, Sooner
<1>3. id \notin Refusing(j, p)
  BY <1>1, <1>2
<1> QED BY <1>1, <1>3 DEF Refusing

LEMMA PinnedType == ASSUME TypeInv, NEW j \in Job, PlacePinned(j) PROVE TypeInv'
<1>1. Stays /\ UNCHANGED <<checkout, residue, watch, evicting, foreign, warm>> /\ job[j].pc = "new"
  BY DEF PlacePinned, config, Stays, watched, truth
<1>2. CASE Request(j).pin \notin Ids
  <2>1. Ends(j, "no_idle_slot") /\ worker' = worker
    BY <1>2 DEF PlacePinned
  <2> QED BY <1>1, <2>1, StaysFacts, CodesAre, JobEnds, PoolKept, SetsKept DEF TypeInv
<1>3. CASE Request(j).pin \in Ids
  <2> DEFINE p == PlacementForRequired(plan, Request(j), Request(j).pin)
             code == PinRefusal(j, p)
  <2>1. PlacedIn(p, plan, Ids)
    BY <1>3, PinIds
  <2>2. /\ worker' = [id \in Ids |-> IF id \notin PinAsks(j, p) THEN worker[id]
                          ELSE [Respawned(id) EXCEPT !.busy = (code = NoCode)]]
        /\ IF code = NoCode THEN job' = ClaimedBy(j, p) /\ UNCHANGED life
           ELSE Ends(j, code) /\ JobFinishes(j)
    BY <1>3 DEF PlacePinned
  <2> HIDE DEF p
  <2>3. ASSUME NEW id \in Ids
        PROVE  worker'[id] \in Workers /\ (worker'[id].here => id \notin scene.unusable)
    <3>1. CASE id \notin PinAsks(j, p)
      BY <2>2, <3>1 DEF TypeInv, PoolOK
    <3>2. CASE id \in PinAsks(j, p)
      <4>1. worker[id].here /\ worker[id] \in Workers /\ id \notin scene.unusable
        BY <2>1, <3>2, AskedHere DEF TypeInv, PoolOK
      <4>2. Respawned(id) \in Workers
        BY <4>1, FreshIsWorker DEF Respawned
      <4>3. [Respawned(id) EXCEPT !.busy = (code = NoCode)] \in Workers
        BY <4>2 DEF Workers
      <4> QED BY <2>2, <3>2, <4>1, <4>3
    <3> QED BY <3>1, <3>2
  <2>4. worker' \in [Ids -> Workers]
    BY <2>2, <2>3
  <2>5. PoolOK'
    BY <1>1, <2>3, <2>4 DEF TypeInv, PoolOK, Stays, Ids
  <2>6. JobsOK'
    <3>1. CASE code = NoCode
      <4>1. job' = ClaimedBy(j, p)
        BY <2>2, <3>1
      <4>2. \A id \in p.slots : worker[id].here
        BY <3>1, NotRefused
      <4>3. PlacedIn(p, plan, p.slots) /\ p.slots \subseteq Ids
        BY <2>1 DEF PlacedIn
      <4> QED BY <1>1, <4>1, <4>2, <4>3, ClaimType
    <3>2. CASE code # NoCode
      <4>1. code \in Codes \ {NoCode}
        BY <3>2, RefusalCode
      <4>2. Ends(j, code)
        BY <2>2, <3>2
      <4> HIDE DEF code
      <4> QED BY <1>1, <4>1, <4>2, JobEnds DEF TypeInv
    <3> QED BY <3>1, <3>2
  <2> QED BY <1>1, <2>5, <2>6, StaysFacts, SetsKept DEF TypeInv
<1> QED BY <1>2, <1>3

-----------------------------------------------------------------------------
(* A job at its slot *)

LEMMA JobRamIsNat ==
    ASSUME TypeInv, NEW j \in Job, job[j].place \in Places
    PROVE  /\ JobRamNeed(j) \in Nat
           /\ PlacementSysRamNeed(Model(j), job[j].place.card, Request(j).vision, CpuRamHeadroom) \in Nat
<1>1. Model(j) \in CatalogModel /\ Request(j).vision \in BOOLEAN /\ job[j].place.card \in VirtualCard
  BY JobFacts DEF TypeInv, Places
<1>2. PlacementSysRamNeed(Model(j), job[j].place.card, Request(j).vision, CpuRamHeadroom) \in Nat
  BY <1>1, RamNeedsAreNats DEF CpuRamHeadroom, DefaultCpuRamHeadroom
<1>3. WarmKvOffloadRamNeed(Model(j), Request(j).vision) \in Nat
  BY <1>1, RamNeedsAreNats
<1> QED BY <1>2, <1>3 DEF JobRamNeed

LEMMA MissType == ASSUME TypeInv, NEW j \in Job, TakeMisses(j) PROVE TypeInv'
<1>1. Stays /\ UNCHANGED <<worker, checkout, residue, watch, evicting, foreign, warm>>
  BY DEF TakeMisses, config, pool, Stays, watched, truth
<1>2. JobsOK'
  BY <1>1, CodesAre, JobEnds DEF TakeMisses, TypeInv
<1> QED BY <1>1, <1>2, StaysFacts, PoolKept, SetsKept DEF TypeInv

\* A worker that comes back, or is dropped.
LEMMA ReturnsPool ==
    ASSUME TypeInv, Stays, NEW id \in Ids \ scene.unusable, NEW w \in Workers, Returns(id, w),
           checkout' \in [Ids -> Checkouts], residue' \in [Ids -> 0..DriverLag]
    PROVE  PoolOK'
<1> DEFINE u == IF Available(id) THEN worker[id] ELSE w
<1>1. worker' = [worker EXCEPT ![id] = u]
  BY DEF Returns, TypeInv, PoolOK
<1>2. u \in Workers
  BY PoolFacts
<1> HIDE DEF u
<1> QED BY <1>1, <1>2, PoolSet

LEMMA TakeType == ASSUME TypeInv, NEW j \in Job, Take(j) PROVE TypeInv'
<1> DEFINE id == SlotTaken(j)
<1>1. Stays /\ UNCHANGED <<residue, watch, evicting, foreign, warm>> /\ job[j].pc = "claimed"
  BY DEF Take, config, Stays, watched, truth
<1>2. id \in Ids \ scene.unusable /\ job[j].place \in Places
  BY <1>1, TakenFacts
<1>3. \/ Refused(j, id, "insufficient_vram", "resource")
      \/ /\ worker' = [worker EXCEPT ![id].here = FALSE]
         /\ job' = [job EXCEPT ![j].pc = "checked"]
         /\ UNCHANGED checkout
      \/ /\ worker' = [worker EXCEPT ![id] = Fresh]
         /\ checkout' = [checkout EXCEPT ![id] = NoHold]
         /\ AfterFailure(j, id, "crash")
  BY DEF Take
<1> HIDE DEF id
<1>4. worker[id] \in Workers /\ checkout \in [Ids -> Checkouts] /\ residue' \in [Ids -> 0..DriverLag]
  BY <1>1, <1>2, PoolFacts
<1>5. NoHold \in Checkouts /\ Fresh \in Workers
  BY FreshIsWorker
<1>6. CASE Refused(j, id, "insufficient_vram", "resource")
  <2> DEFINE w == [worker[id] EXCEPT !.here = TRUE, !.busy = FALSE]
  <2>1. worker' = [worker EXCEPT ![id] = w]
    BY <1>2, <1>6 DEF Refused, TypeInv, PoolOK
  <2>2. w \in Workers
    BY <1>4 DEF Workers
  <2>3. checkout' \in [Ids -> Checkouts]
    BY <1>2, <1>5, <1>6, OneHold DEF Refused
  <2> HIDE DEF w
  <2>4. PoolOK'
    BY <1>1, <1>2, <1>4, <2>1, <2>2, <2>3, PoolSet
  <2>5. JobsOK'
    BY <1>1, <1>6, CodesAre, JobEnds DEF Refused, TypeInv
  <2> QED BY <1>1, <2>4, <2>5, StaysFacts, SetsKept DEF TypeInv
<1>7. CASE /\ worker' = [worker EXCEPT ![id].here = FALSE]
           /\ job' = [job EXCEPT ![j].pc = "checked"]
           /\ UNCHANGED checkout
  <2> DEFINE w == [worker[id] EXCEPT !.here = FALSE]
             s == [job[j] EXCEPT !.pc = "checked"]
  <2>1. worker' = [worker EXCEPT ![id] = w]
    BY <1>2, <1>7 DEF TypeInv, PoolOK
  <2>2. w \in Workers
    BY <1>4 DEF Workers
  <2>3. job' = [job EXCEPT ![j] = s]
    BY <1>7 DEF TypeInv, JobsOK
  <2>4. s \in Jobs /\ s.pc = "checked" /\ s.code = NoCode /\ s.place = job[j].place
    BY <1>1 DEF TypeInv, JobsOK, Jobs, Ended
  <2>5. PlacedIn(job[j].place, plan, Ids \ scene.unusable)
    BY <1>1 DEF TypeInv, JobsOK
  <2> HIDE DEF w, s
  <2>6. JobsOK'
    BY <1>1, <2>3, <2>4, <2>5, JobSet DEF TypeInv
  <2>7. PoolOK'
    BY <1>1, <1>2, <1>4, <1>7, <2>1, <2>2, PoolSet
  <2> QED BY <1>1, <2>6, <2>7, StaysFacts, SetsKept DEF TypeInv
<1>8. CASE /\ worker' = [worker EXCEPT ![id] = Fresh]
           /\ checkout' = [checkout EXCEPT ![id] = NoHold]
           /\ AfterFailure(j, id, "crash")
  <2>1. PoolOK'
    BY <1>1, <1>2, <1>4, <1>5, <1>8, OneHold, PoolSet
  <2>2. JobsOK'
    BY <1>1, <1>8, FailureType
  <2> QED BY <1>1, <2>1, <2>2, StaysFacts, SetsKept DEF TypeInv
<1> QED BY <1>3, <1>6, <1>7, <1>8

\* The checkout of a job that begins to run.
LEMMA RunHold ==
    ASSUME NEW j \in Job, NEW ram \in Nat PROVE [job |-> j, ram |-> ram, fresh |-> TRUE] \in Checkouts
BY DEF Checkouts

LEMMA RunsType ==
    ASSUME TypeInv, Stays, NEW j \in Job, job[j].pc \in {"claimed", "checked"},
           job' = [job EXCEPT ![j].pc = "running"]
    PROVE  JobsOK'
<1> DEFINE s == [job[j] EXCEPT !.pc = "running"]
<1>1. job' = [job EXCEPT ![j] = s]
  BY DEF TypeInv, JobsOK
<1>2. s \in Jobs /\ s.pc = "running" /\ s.code = NoCode /\ s.place = job[j].place
  BY DEF TypeInv, JobsOK, Jobs, Ended
<1>3. PlacedIn(job[j].place, plan, Ids \ scene.unusable)
  BY DEF TypeInv, JobsOK
<1> HIDE DEF s
<1> QED BY <1>1, <1>2, <1>3, JobSet DEF TypeInv

LEMMA MarkType == ASSUME TypeInv, NEW j \in Job, Mark(j) PROVE TypeInv'
<1> DEFINE id == SlotTaken(j)
           listed == worker[id].loaded \cup {Asked(j)}
<1>1. Stays /\ UNCHANGED <<watch, evicting, foreign, warm>> /\ job[j].pc = "checked"
  BY DEF Mark, config, Stays, watched
<1>2. id \in Ids \ scene.unusable /\ job[j].place \in Places
  BY <1>1, TakenFacts
<1>3. \/ /\ Returns(id, [Fresh EXCEPT !.loaded = listed, !.holds = worker[id].holds])
         /\ checkout' = [checkout EXCEPT ![id] = NoHold]
         /\ Ends(j, "insufficient_vram") /\ UNCHANGED residue
      \/ /\ worker' = IF worker[id].here THEN worker
                      ELSE [worker EXCEPT ![id].loaded = listed, ![id].holds = {Asked(j)}]
         /\ checkout' = [checkout EXCEPT ![id] = [job |-> j, ram |-> JobRamNeed(j), fresh |-> TRUE]]
         /\ job' = [job EXCEPT ![j].pc = "running"]
         /\ residue' = [residue EXCEPT ![id] = 0]
  BY DEF Mark
<1> HIDE DEF id
<1>4. /\ worker[id] \in Workers /\ worker[id].loaded \subseteq DOMAIN Catalog
      /\ worker[id].holds \subseteq DOMAIN Catalog /\ residue \in [Ids -> 0..DriverLag]
  BY <1>2, PoolFacts
<1>5. listed \subseteq DOMAIN Catalog /\ {Asked(j)} \subseteq DOMAIN Catalog
  BY <1>4, JobFacts DEF TypeInv
<1> HIDE DEF listed
<1>6. CASE /\ Returns(id, [Fresh EXCEPT !.loaded = listed, !.holds = worker[id].holds])
           /\ checkout' = [checkout EXCEPT ![id] = NoHold]
           /\ Ends(j, "insufficient_vram") /\ UNCHANGED residue
  <2> DEFINE w == [Fresh EXCEPT !.loaded = listed, !.holds = worker[id].holds]
  <2>1. w \in Workers
    BY <1>4, <1>5, FreshIsWorker DEF Workers
  <2>2. checkout' \in [Ids -> Checkouts]
    BY <1>2, <1>6, FreshIsWorker, OneHold
  <2>3. PoolOK'
    BY <1>1, <1>2, <1>4, <1>6, <2>1, <2>2, ReturnsPool
  <2>4. JobsOK'
    BY <1>1, <1>6, CodesAre, JobEnds DEF TypeInv
  <2> QED BY <1>1, <2>3, <2>4, StaysFacts, SetsKept DEF TypeInv
<1>7. CASE /\ worker' = IF worker[id].here THEN worker
                        ELSE [worker EXCEPT ![id].loaded = listed, ![id].holds = {Asked(j)}]
           /\ checkout' = [checkout EXCEPT ![id] = [job |-> j, ram |-> JobRamNeed(j), fresh |-> TRUE]]
           /\ job' = [job EXCEPT ![j].pc = "running"]
           /\ residue' = [residue EXCEPT ![id] = 0]
  <2> DEFINE w == IF worker[id].here THEN worker[id]
                  ELSE [worker[id] EXCEPT !.loaded = listed, !.holds = {Asked(j)}]
             c == [job |-> j, ram |-> JobRamNeed(j), fresh |-> TRUE]
  <2>1. worker' = [worker EXCEPT ![id] = w]
    BY <1>2, <1>7 DEF TypeInv, PoolOK
  <2>2. w \in Workers
    BY <1>4, <1>5 DEF Workers
  <2>3. c \in Checkouts
    BY <1>2, JobRamIsNat, RunHold
  <2>4. residue' \in [Ids -> 0..DriverLag]
    BY <1>2, <1>7, LagIs, OneResidue
  <2>5. checkout' \in [Ids -> Checkouts]
    <3> HIDE DEF c
    <3> QED BY <1>2, <1>7, <2>3, OneHold DEF c
  <2> HIDE DEF w, c
  <2>6. PoolOK'
    BY <1>1, <1>2, <2>1, <2>2, <2>4, <2>5, PoolSet
  <2>7. JobsOK'
    BY <1>1, <1>7, RunsType
  <2> QED BY <1>1, <2>6, <2>7, StaysFacts, SetsKept DEF TypeInv
<1> QED BY <1>3, <1>6, <1>7

LEMMA FinishType == ASSUME TypeInv, NEW j \in Job, Finish(j) PROVE TypeInv'
<1> DEFINE id == SlotTaken(j)
           w == [Fresh EXCEPT !.loaded = {Asked(j)}, !.holds = {Asked(j)}]
           n == IF Available(id) THEN DriverLag ELSE residue[id]
<1>1. /\ Stays /\ UNCHANGED <<watch, evicting, foreign, warm>> /\ job[j].pc = "running"
      /\ Returns(id, w) /\ checkout' = [checkout EXCEPT ![id] = NoHold] /\ Ends(j, "ok")
  BY DEF Finish, config, Stays, watched
<1>2. id \in Ids \ scene.unusable
  BY <1>1, TakenFacts
<1>3. residue' = [residue EXCEPT ![id] = n]
  BY <1>2 DEF Finish, TypeInv, PoolOK
<1> HIDE DEF id
<1>4. n \in 0..DriverLag
  BY <1>2, PoolFacts, LagIs
<1>5. w \in Workers
  BY JobFacts, FreshIsWorker DEF Workers, TypeInv
<1> HIDE DEF w, n
<1>6. residue' \in [Ids -> 0..DriverLag] /\ checkout' \in [Ids -> Checkouts]
  BY <1>1, <1>2, <1>3, <1>4, FreshIsWorker, OneHold, OneResidue
<1>7. PoolOK'
  BY <1>1, <1>2, <1>5, <1>6, ReturnsPool
<1>8. JobsOK'
  BY <1>1, CodesAre, JobEnds DEF TypeInv
<1> QED BY <1>1, <1>7, <1>8, StaysFacts, SetsKept DEF TypeInv

LEMMA FailType == ASSUME TypeInv, NEW j \in Job, Fail(j) PROVE TypeInv'
<1> DEFINE id == SlotTaken(j)
<1>1. /\ Stays /\ UNCHANGED <<watch, evicting, foreign, warm>> /\ job[j].pc = "running"
      /\ Returns(id, Fresh) /\ checkout' = [checkout EXCEPT ![id] = NoHold]
      /\ residue' = [residue EXCEPT ![id] = DriverLag]
      /\ \E fault \in scene.faults : AfterFailure(j, id, fault)
  BY DEF Fail, config, Stays, watched
<1>2. id \in Ids \ scene.unusable
  BY <1>1, TakenFacts
<1> HIDE DEF id
<1>3. residue' \in [Ids -> 0..DriverLag] /\ checkout' \in [Ids -> Checkouts]
  BY <1>1, <1>2, FreshIsWorker, LagIs, OneHold, OneResidue
<1>4. PoolOK'
  BY <1>1, <1>2, <1>3, FreshIsWorker, ReturnsPool
<1>5. JobsOK'
  BY <1>1, FailureType
<1> QED BY <1>1, <1>4, <1>5, StaysFacts, SetsKept DEF TypeInv

LEMMA AgeType == ASSUME TypeInv, NEW id \in Ids, AgeReservation(id) PROVE TypeInv'
<1> DEFINE c == [checkout[id] EXCEPT !.fresh = FALSE]
<1>1. Stays /\ UNCHANGED <<worker, job, residue, watch, evicting, foreign, warm>>
  BY DEF AgeReservation, config, Stays, watched, truth
<1>2. checkout' = [checkout EXCEPT ![id] = c]
  BY DEF AgeReservation, TypeInv, PoolOK
<1>3. c \in Checkouts
  BY PoolFacts DEF Checkouts
<1> HIDE DEF c
<1>4. PoolOK'
  BY <1>1, <1>2, <1>3, OneHold DEF TypeInv, PoolOK, Stays, Ids
<1> QED BY <1>1, <1>4, StaysFacts, JobsKept, SetsKept DEF TypeInv

-----------------------------------------------------------------------------
(* Image jobs *)

LEMMA ImageStartType == ASSUME TypeInv, NEW j \in Job, ImageStart(j) PROVE TypeInv'
<1> DEFINE id == SlotTaken(j)
           w == [worker[id] EXCEPT !.here = FALSE, !.loaded = @ \cup {Asked(j)}, !.holds = {}]
           c == [job |-> j, ram |-> 0, fresh |-> TRUE]
<1>1. /\ Stays /\ UNCHANGED <<watch, evicting, foreign, warm>> /\ job[j].pc = "claimed"
      /\ checkout' = [checkout EXCEPT ![id] = c] /\ residue' = [residue EXCEPT ![id] = 0]
      /\ job' = [job EXCEPT ![j].pc = "running"]
  BY DEF ImageStart, config, Stays, watched
<1>2. id \in Ids \ scene.unusable
  BY <1>1, TakenFacts
<1>3. worker' = [worker EXCEPT ![id] = w]
  BY <1>2 DEF ImageStart, TypeInv, PoolOK
<1> HIDE DEF id
<1>4. w \in Workers
  BY <1>2, PoolFacts, JobFacts DEF Workers, TypeInv
<1>5. c \in Checkouts
  BY RunHold
<1> HIDE DEF w, c
<1>6. residue' \in [Ids -> 0..DriverLag] /\ checkout' \in [Ids -> Checkouts]
  BY <1>1, <1>2, <1>5, LagIs, OneHold, OneResidue
<1>7. PoolOK'
  BY <1>1, <1>2, <1>3, <1>4, <1>6, PoolSet
<1>8. JobsOK'
  BY <1>1, RunsType
<1> QED BY <1>1, <1>7, <1>8, StaysFacts, SetsKept DEF TypeInv

LEMMA ImageEndType == ASSUME TypeInv, NEW j \in Job, ImageEnd(j) PROVE TypeInv'
<1> DEFINE id == SlotTaken(j)
<1>1. /\ Stays /\ UNCHANGED <<watch, evicting, foreign, warm>> /\ job[j].pc = "running"
      /\ Returns(id, Fresh) /\ checkout' = [checkout EXCEPT ![id] = NoHold]
      /\ residue' = [residue EXCEPT ![id] = DriverLag]
      /\ Ends(j, "ok") \/ Ends(j, "failed")
  BY DEF ImageEnd, config, Stays, watched
<1>2. id \in Ids \ scene.unusable
  BY <1>1, TakenFacts
<1> HIDE DEF id
<1>3. residue' \in [Ids -> 0..DriverLag] /\ checkout' \in [Ids -> Checkouts]
  BY <1>1, <1>2, FreshIsWorker, LagIs, OneHold, OneResidue
<1>4. PoolOK'
  BY <1>1, <1>2, <1>3, FreshIsWorker, ReturnsPool
<1>5. JobsOK'
  BY <1>1, CodesAre, JobEnds DEF TypeInv
<1> QED BY <1>1, <1>4, <1>5, StaysFacts, SetsKept DEF TypeInv

-----------------------------------------------------------------------------
(* Groups *)

\* A step that treats every slot.
LEMMA PoolAll ==
    ASSUME TypeInv, Stays, DOMAIN worker' = Ids, worker' = [id \in Ids |-> worker'[id]],
           \A id \in Ids : worker'[id] \in Workers /\ (worker'[id].here => worker[id].here \/ id \notin scene.unusable),
           checkout' \in [Ids -> Checkouts], residue' \in [Ids -> 0..DriverLag]
    PROVE  PoolOK'
<1>1. worker' \in [Ids -> Workers]
  OBVIOUS
<1> QED BY <1>1 DEF TypeInv, PoolOK, Stays, Ids

LEMMA TpStartType == ASSUME TypeInv, NEW j \in Job, TpStart(j) PROVE TypeInv'
<1> DEFINE ids == job[j].place.slots
           need == PlacementSysRamNeed(Model(j), job[j].place.card, Request(j).vision, CpuRamHeadroom)
<1>1. /\ Stays /\ UNCHANGED <<watch, evicting, foreign, warm>> /\ job[j].pc = "claimed"
      /\ job' = [job EXCEPT ![j].pc = "running"]
  BY DEF TpStart, config, Stays, watched
<1>2. /\ worker' = [id \in Ids |-> IF id \in ids
                    THEN [worker[id] EXCEPT !.healthy = FALSE, !.holds = {}] ELSE worker[id]]
      /\ checkout' = [id \in Ids |->
          IF id \notin ids THEN checkout[id]
          ELSE [job |-> j, fresh |-> TRUE, ram |-> IF id # SlotTaken(j) THEN 0 ELSE need]]
      /\ residue' = [id \in Ids |-> IF id \in ids THEN 0 ELSE residue[id]]
  BY DEF TpStart
<1>3. need \in Nat
  BY <1>1, JobRamIsNat, TakenFacts
<1> HIDE DEF ids, need
<1>4. ASSUME NEW id \in Ids
      PROVE  /\ worker'[id] \in Workers /\ worker'[id].here = worker[id].here
             /\ checkout'[id] \in Checkouts /\ residue'[id] \in 0..DriverLag
  <2>1. worker[id] \in Workers /\ checkout[id] \in Checkouts /\ residue[id] \in 0..DriverLag
    BY PoolFacts
  <2>2. worker'[id] \in Workers /\ worker'[id].here = worker[id].here
    BY <1>2, <2>1 DEF Workers
  <2>3. checkout'[id] \in Checkouts
    <3> DEFINE ram == IF id # SlotTaken(j) THEN 0 ELSE need
    <3>1. ram \in Nat
      BY <1>3
    <3>2. id \in ids => checkout'[id] = [job |-> j, ram |-> ram, fresh |-> TRUE]
      BY <1>2
    <3> HIDE DEF ram
    <3> QED BY <1>2, <2>1, <3>1, <3>2, RunHold
  <2>4. residue'[id] \in 0..DriverLag
    BY <1>2, <2>1, LagIs
  <2> QED BY <2>2, <2>3, <2>4
<1>5. PoolOK'
  <2>1. /\ DOMAIN worker' = Ids /\ worker' = [id \in Ids |-> worker'[id]]
        /\ checkout' = [id \in Ids |-> checkout'[id]] /\ residue' = [id \in Ids |-> residue'[id]]
    BY <1>2
  <2>2. checkout' \in [Ids -> Checkouts] /\ residue' \in [Ids -> 0..DriverLag]
    BY <1>4, <2>1
  <2> QED BY <1>1, <1>4, <2>1, <2>2, PoolAll
<1>6. JobsOK'
  BY <1>1, RunsType
<1> QED BY <1>1, <1>5, <1>6, StaysFacts, SetsKept DEF TypeInv

LEMMA TpMissesType == ASSUME TypeInv, NEW j \in Job, TpMisses(j) PROVE TypeInv'
<1> DEFINE ids == job[j].place.slots
           out == FirstOf({id \in ids : ~worker[id].here})
           Stopped(id) == id \in ids \ {out} /\ Largest(Slot(id), Slot(out))
<1>1. Stays /\ UNCHANGED <<checkout, watch, evicting, foreign, warm>> /\ Ends(j, "failed")
  BY DEF TpMisses, config, Stays, watched
<1>2. /\ worker' = [id \in Ids |-> IF Stopped(id)
                    THEN [worker[id] EXCEPT !.healthy = FALSE, !.holds = {}] ELSE worker[id]]
      /\ residue' = [id \in Ids |-> IF worker'[id].holds # worker[id].holds THEN DriverLag
                                    ELSE residue[id]]
  BY DEF TpMisses
<1> HIDE DEF Stopped
<1>3. ASSUME NEW id \in Ids
      PROVE  /\ worker'[id] \in Workers /\ worker'[id].here = worker[id].here
             /\ residue'[id] \in 0..DriverLag
  <2>1. worker[id] \in Workers /\ residue[id] \in 0..DriverLag
    BY PoolFacts
  <2>2. worker'[id] = worker[id] \/ worker'[id] = [worker[id] EXCEPT !.healthy = FALSE, !.holds = {}]
    BY <1>2
  <2>3. worker'[id] \in Workers /\ worker'[id].here = worker[id].here
    BY <2>1, <2>2 DEF Workers
  <2>4. residue'[id] \in 0..DriverLag
    BY <1>2, <2>1, LagIs
  <2> QED BY <2>3, <2>4
<1>4. PoolOK'
  <2>1. /\ DOMAIN worker' = Ids /\ worker' = [id \in Ids |-> worker'[id]]
        /\ residue' = [id \in Ids |-> residue'[id]]
    BY <1>2
  <2>2. residue' \in [Ids -> 0..DriverLag] /\ checkout' \in [Ids -> Checkouts]
    BY <1>1, <1>3, <2>1 DEF TypeInv, PoolOK
  <2> QED BY <1>1, <1>3, <2>1, <2>2, PoolAll
<1>5. JobsOK'
  BY <1>1, CodesAre, JobEnds DEF TypeInv
<1> QED BY <1>1, <1>4, <1>5, StaysFacts, SetsKept DEF TypeInv

LEMMA TpEndType == ASSUME TypeInv, NEW j \in Job, TpEnd(j) PROVE TypeInv'
<1> DEFINE ids == job[j].place.slots
<1>1. /\ Stays /\ UNCHANGED <<watch, evicting, foreign, warm>> /\ job[j].pc = "running"
      /\ Ends(j, "ok") \/ \E fault \in scene.faults : AfterFailure(j, SlotTaken(j), fault)
  BY DEF TpEnd, config, Stays, watched
<1>2. /\ worker' = [id \in Ids |-> IF id \in ids THEN Fresh ELSE worker[id]]
      /\ checkout' = [id \in Ids |-> IF id \in ids THEN NoHold ELSE checkout[id]]
      /\ residue' = [id \in Ids |-> IF id \in ids THEN DriverLag ELSE residue[id]]
  BY DEF TpEnd
<1>3. ids \subseteq Ids \ scene.unusable
  BY <1>1, TakenFacts
<1> HIDE DEF ids
<1>4. ASSUME NEW id \in Ids
      PROVE  /\ worker'[id] \in Workers /\ (worker'[id].here => worker[id].here \/ id \notin scene.unusable)
             /\ checkout'[id] \in Checkouts /\ residue'[id] \in 0..DriverLag
  BY <1>2, <1>3, PoolFacts, FreshIsWorker, LagIs
<1>5. PoolOK'
  <2>1. /\ DOMAIN worker' = Ids /\ worker' = [id \in Ids |-> worker'[id]]
        /\ checkout' = [id \in Ids |-> checkout'[id]] /\ residue' = [id \in Ids |-> residue'[id]]
    BY <1>2
  <2>2. checkout' \in [Ids -> Checkouts] /\ residue' \in [Ids -> 0..DriverLag]
    BY <1>4, <2>1
  <2> QED BY <1>1, <1>4, <2>1, <2>2, PoolAll
<1>6. JobsOK'
  BY <1>1, CodesAre, JobEnds, FailureType DEF TypeInv
<1> QED BY <1>1, <1>5, <1>6, StaysFacts, SetsKept DEF TypeInv

-----------------------------------------------------------------------------
(* The heartbeat and the events *)

LEMMA NewWatchType == ASSUME NEW ids PROVE NewWatch(ids) \in Watches(ids)
BY DEF NewWatch, Watches, Never, EnterHold, ExitHold

\* A sample, slot by slot.
LEMMA SampleIs ==
    ASSUME NEW ids, NEW w \in Watches(ids), NEW raw, DOMAIN raw = ids
    PROVE  /\ WatchSample(w, raw) \in Watches(ids)
           /\ \A id \in ids :
                 /\ WatchSample(w, raw).candidate[id] # Never => raw[id]
                 /\ WatchSample(w, raw).candidate[id] >= 1 => w.candidate[id] # Never
                 /\ WatchSample(w, raw).candidate[id] = EnterHold
                       => w.candidate[id] >= 1 /\ id \in WatchSample(w, raw).latched
                 /\ id \in WatchSample(w, raw).latched \ w.latched
                       => raw[id] /\ w.candidate[id] >= 1
<1> DEFINE ignoring == w.ignore > 0
           Older(age, limit) == IF age = Never THEN 0 ELSE IF age < limit THEN age + 1 ELSE limit
           taken(id) == raw[id] /\ ~ignoring
           cand == [id \in ids |-> IF taken(id) THEN Older(w.candidate[id], EnterHold) ELSE Never]
           free == [id \in ids |-> CASE taken(id) -> Never
                                     [] raw[id] /\ ignoring -> w.clear[id]
                                     [] OTHER -> IF id \in w.latched THEN Older(w.clear[id], ExitHold) ELSE Never]
           enter == {id \in ids : taken(id) /\ cand[id] >= EnterHold}
           leave == {id \in w.latched : ~raw[id] /\ free[id] >= ExitHold}
           ignore == IF ignoring THEN w.ignore - 1 ELSE 0
           clear == [id \in ids |-> IF id \in leave THEN Never ELSE free[id]]
           new == WatchSample(w, raw)
<1>1. new = [latched |-> (w.latched \cup enter) \ leave, ignore |-> ignore, candidate |-> cand, clear |-> clear]
  BY DEF WatchSample
<1>2. /\ w.latched \subseteq ids /\ w.ignore \in Nat
      /\ \A id \in ids : w.candidate[id] \in -1..2 /\ w.clear[id] \in -1..2
  BY DEF Watches, Never, EnterHold, ExitHold
<1>3. \A id \in ids : cand[id] \in -1..2 /\ free[id] \in -1..2
  BY <1>2 DEF Never, EnterHold, ExitHold
<1>4. \A id \in ids : /\ cand[id] # Never => raw[id]
                      /\ cand[id] >= 1 => w.candidate[id] # Never
                      /\ cand[id] = EnterHold => w.candidate[id] >= 1 /\ taken(id)
                      /\ cand[id] >= EnterHold => w.candidate[id] >= 1
  BY <1>2 DEF Never, EnterHold
<1>5. ignore \in Nat /\ (w.latched \cup enter) \ leave \subseteq ids
  BY <1>2
<1>6. cand \in [ids -> -1..2] /\ clear \in [ids -> -1..2]
  BY <1>3 DEF Never
<1>7. /\ \A id \in ids : cand[id] = EnterHold => id \in enter /\ id \notin leave
      /\ \A id \in enter : raw[id] /\ w.candidate[id] >= 1
  BY <1>4 DEF EnterHold
<1> HIDE DEF cand, free, enter, leave, ignore, clear, new
<1>8. new \in Watches(ids)
  BY <1>1, <1>5, <1>6 DEF Watches, Never, EnterHold, ExitHold
<1>9. new.candidate = cand /\ new.latched = (w.latched \cup enter) \ leave
  BY <1>1
<1>10. \A id \in ids :
                 /\ new.candidate[id] # Never => raw[id]
                 /\ new.candidate[id] >= 1 => w.candidate[id] # Never
                 /\ new.candidate[id] = EnterHold => w.candidate[id] >= 1 /\ id \in new.latched
                 /\ id \in new.latched \ w.latched => raw[id] /\ w.candidate[id] >= 1
  BY <1>4, <1>7, <1>9
<1> QED BY <1>8, <1>10 DEF new

LEMMA RawIds == DOMAIN RawSamples = Ids
BY DEF RawSamples

LEMMA HeartbeatType == ASSUME TypeInv, Heartbeat PROVE TypeInv'
<1>1. Stays /\ UNCHANGED <<worker, checkout, job, foreign, warm>>
  BY DEF Heartbeat, config, pool, Stays
<1>2. watch' \in Watches(Ids)
  BY SampleIs, RawIds DEF Heartbeat, TypeInv, SetsOK
<1>3. evicting' \subseteq Ids
  BY DEF Heartbeat, TypeInv, SetsOK
<1>4. residue' \in [Ids -> 0..DriverLag]
  <2>1. residue' = [id \in Ids |-> Minus(residue[id], 1)]
    BY DEF Heartbeat
  <2>2. \A id \in Ids : Minus(residue[id], 1) \in 0..DriverLag
    BY PoolFacts DEF Minus, DriverLag
  <2> QED BY <2>1, <2>2
<1>5. PoolOK'
  BY <1>1, <1>4 DEF TypeInv, PoolOK, Stays, Ids
<1>6. SetsOK'
  BY <1>1, <1>2, <1>3 DEF TypeInv, SetsOK, Stays, Ids
<1> QED BY <1>1, <1>5, <1>6, StaysFacts, JobsKept DEF TypeInv

LEMMA QuietType ==
    ASSUME TypeInv, Stays, UNCHANGED <<worker, checkout, residue, job, watch, foreign, warm>>, evicting' \subseteq Ids
    PROVE  TypeInv'
<1>1. SetsOK'
  BY DEF TypeInv, SetsOK, Stays, Ids
<1> QED BY <1>1, StaysFacts, PoolKept, JobsKept DEF TypeInv

LEMMA PongType == ASSUME TypeInv, Pong PROVE TypeInv'
BY QuietType DEF Pong, TypeInv, SetsOK, Stays, config, pool, watched, truth

LEMMA ScheduleType == ASSUME TypeInv, Schedule PROVE TypeInv'
BY QuietType DEF Schedule, TypeInv, SetsOK, Stays, config, pool, watched, truth

LEMMA GraceType == ASSUME TypeInv, GraceEnds PROVE TypeInv'
BY QuietType DEF GraceEnds, TypeInv, SetsOK, Stays, config, pool, watched, truth

LEMMA SmiType == ASSUME TypeInv, SmiFails PROVE TypeInv'
BY QuietType DEF SmiFails, TypeInv, SetsOK, Stays, config, pool, watched

LEMMA ForeignType == ASSUME TypeInv, NEW id \in Ids, Foreign(id) PROVE TypeInv'
<1>1. Stays /\ UNCHANGED <<worker, checkout, residue, job, watch, evicting, warm>> /\ foreign' \subseteq Ids
  BY DEF Foreign, TypeInv, SetsOK, Stays, config, pool, watched
<1>2. SetsOK'
  BY <1>1 DEF TypeInv, SetsOK, Stays, Ids
<1> QED BY <1>1, <1>2, StaysFacts, PoolKept, JobsKept DEF TypeInv

LEMMA MeasureType == ASSUME TypeInv, Measure PROVE TypeInv'
<1>1. scene' = scene /\ plan' = plan /\ devices' = scene.measured
  BY DEF Measure
<1>2. UNCHANGED <<worker, checkout, residue, job, watch, evicting, foreign, warm>> /\ Ids' = Ids
  BY <1>1 DEF Measure, pool, watched, truth, Ids
<1>3. MachineOK'
  BY <1>1 DEF TypeInv, MachineOK
<1> QED BY <1>1, <1>2, <1>3 DEF TypeInv, PoolOK, JobsOK, SetsOK, Ended

-----------------------------------------------------------------------------
(* Evictions and warm plans *)

LEMMA EvictType == ASSUME TypeInv, NEW id \in Ids, EvictSlot(id) PROVE TypeInv'
<1> DEFINE w == IF worker[id].here THEN [worker[id] EXCEPT !.loaded = {}, !.busy = FALSE, !.holds = {}]
                ELSE worker[id]
           n == IF worker[id].here /\ worker'[id].holds # worker[id].holds THEN DriverLag ELSE residue[id]
           c == IF worker[id].here THEN NoHold ELSE checkout[id]
<1>1. Stays /\ UNCHANGED <<job, foreign, warm>> /\ evicting' \subseteq Ids
  BY DEF EvictSlot, config, Stays, TypeInv, SetsOK
<1>2. worker' = [worker EXCEPT ![id] = w]
  BY DEF EvictSlot, TypeInv, PoolOK
<1>3. residue' = [residue EXCEPT ![id] = n]
  BY DEF EvictSlot, TypeInv, PoolOK
<1>4. checkout' = [checkout EXCEPT ![id] = c]
  BY DEF EvictSlot, TypeInv, PoolOK
<1>5. w \in Workers /\ w.here = worker[id].here /\ c \in Checkouts
  BY PoolFacts, FreshIsWorker DEF Workers
<1>6. n \in 0..DriverLag
  BY PoolFacts, LagIs
<1> HIDE DEF w, n, c
<1>7. PoolOK'
  <2>1. checkout' \in [Ids -> Checkouts] /\ residue' \in [Ids -> 0..DriverLag] /\ worker' \in [Ids -> Workers]
    BY <1>2, <1>3, <1>4, <1>5, <1>6, OneHold, OneResidue, PoolFacts
  <2>2. \A o \in Ids : worker'[o].here = worker[o].here
    BY <1>2, <1>5, PoolFacts
  <2> QED BY <1>1, <2>1, <2>2 DEF TypeInv, PoolOK, Stays, Ids
<1>8. watch' \in Watches(Ids)
  <2>1. PICK samples \in IgnoreAfterOurs :
            watch' = IF evicting = {id} THEN NoteOurVram(watch, samples) ELSE watch
    BY DEF EvictSlot
  <2>2. samples \in Nat
    BY DEF IgnoreAfterOurs
  <2>3. watch \in Watches(Ids)
    BY DEF TypeInv, SetsOK
  <2>4. NoteOurVram(watch, samples) = [watch EXCEPT !.ignore = samples,
                                          !.candidate = [o \in DOMAIN watch.candidate |-> Never]]
    BY DEF NoteOurVram
  <2> DEFINE none == [o \in Ids |-> Never]
  <2>5. none \in [Ids -> Never..EnterHold]
    BY DEF Never, EnterHold
  <2>6. DOMAIN watch.candidate = Ids
    BY <2>3 DEF Watches
  <2>7. NoteOurVram(watch, samples) = [watch EXCEPT !.ignore = samples, !.candidate = none]
    BY <2>4, <2>6
  <2> HIDE DEF none
  <2>8. NoteOurVram(watch, samples) \in Watches(Ids)
    BY <2>2, <2>3, <2>5, <2>7 DEF Watches
  <2> QED BY <2>1, <2>3, <2>8
<1>9. SetsOK'
  BY <1>1, <1>8 DEF TypeInv, SetsOK, Stays, Ids
<1> QED BY <1>1, <1>7, <1>9, StaysFacts, JobsKept DEF TypeInv

LEMMA WarmStartType == ASSUME TypeInv, WarmStart PROVE TypeInv'
<1>1. Stays /\ UNCHANGED <<job, watch, evicting, foreign>>
  BY DEF WarmStart, config, Stays, watched
<1>2. PICK p \in scene.warmPlans :
         LET free    == {id \in Ids : Available(id) /\ id \notin watch.latched}
             out     == {id \in free \ p.slots : worker[id].loaded # {}}
             targets == {id \in free \cap p.slots : worker[id].loaded = {}}
         IN  /\ worker' = [id \in Ids |->
                    CASE id \in out -> [worker[id] EXCEPT !.loaded = {}, !.holds = {}]
                      [] id \in targets -> [worker[id] EXCEPT !.here = FALSE, !.busy = TRUE,
                                                              !.holds = {p.model}]
                      [] OTHER -> worker[id]]
             /\ residue' = [id \in Ids |-> IF id \in out THEN DriverLag ELSE residue[id]]
             /\ checkout' = [id \in Ids |-> IF id \in targets
                                THEN [job |-> "warm", ram |-> 0, fresh |-> TRUE] ELSE checkout[id]]
             /\ warm' = targets
  BY DEF WarmStart
<1> DEFINE free    == {id \in Ids : Available(id) /\ id \notin watch.latched}
           out     == {id \in free \ p.slots : worker[id].loaded # {}}
           targets == {id \in free \cap p.slots : worker[id].loaded = {}}
<1>3. p.model \in DOMAIN Catalog
  BY DispatchAssumption DEF Possible, TypeInv, MachineOK
<1>4. targets \subseteq Ids \ scene.unusable
  BY DEF TypeInv, PoolOK, Available
<1> HIDE DEF free, out, targets
<1>5. ASSUME NEW id \in Ids
      PROVE  /\ worker'[id] \in Workers /\ (worker'[id].here => worker[id].here)
             /\ checkout'[id] \in Checkouts /\ residue'[id] \in 0..DriverLag
  <2>1. worker[id] \in Workers /\ checkout[id] \in Checkouts /\ residue[id] \in 0..DriverLag
    BY PoolFacts
  <2>2. \/ worker'[id] = worker[id]
        \/ worker'[id] = [worker[id] EXCEPT !.loaded = {}, !.holds = {}]
        \/ worker'[id] = [worker[id] EXCEPT !.here = FALSE, !.busy = TRUE, !.holds = {p.model}]
    <3>1. worker' = [o \in Ids |->
              CASE o \in out -> [worker[o] EXCEPT !.loaded = {}, !.holds = {}]
                [] o \in targets -> [worker[o] EXCEPT !.here = FALSE, !.busy = TRUE, !.holds = {p.model}]
                [] OTHER -> worker[o]]
      BY <1>2 DEF free, out, targets
    <3>2. CASE id \in out /\ id \notin targets
      BY <3>1, <3>2
    <3>3. CASE id \in targets /\ id \notin out
      BY <3>1, <3>3
    <3>4. CASE id \notin out /\ id \notin targets
      BY <3>1, <3>4
    <3>5. ~(id \in out /\ id \in targets)
      BY DEF free, out, targets
    <3> QED BY <3>2, <3>3, <3>4, <3>5
  <2>3. worker'[id] \in Workers /\ (worker'[id].here => worker[id].here)
    BY <1>3, <2>1, <2>2 DEF Workers
  <2>4. checkout'[id] = checkout[id] \/ checkout'[id] = [job |-> "warm", ram |-> 0, fresh |-> TRUE]
    BY <1>2 DEF free, targets
  <2>7. [job |-> "warm", ram |-> 0, fresh |-> TRUE] \in Checkouts
    BY DEF Checkouts
  <2>5. checkout'[id] \in Checkouts
    BY <2>1, <2>4, <2>7
  <2>6. residue'[id] \in 0..DriverLag
    BY <1>2, <2>1, LagIs
  <2> QED BY <2>3, <2>5, <2>6
<1>6. PoolOK'
  <2>1. /\ DOMAIN worker' = Ids /\ worker' = [id \in Ids |-> worker'[id]]
        /\ checkout' = [id \in Ids |-> checkout'[id]] /\ residue' = [id \in Ids |-> residue'[id]]
    BY <1>2
  <2>2. checkout' \in [Ids -> Checkouts] /\ residue' \in [Ids -> 0..DriverLag]
    BY <1>5, <2>1
  <2> QED BY <1>1, <1>5, <2>1, <2>2, PoolAll
<1>7. SetsOK'
  <2>1. warm' = targets
    BY <1>2 DEF free, targets
  <2> QED BY <1>1, <1>4, <2>1 DEF TypeInv, SetsOK, Stays, Ids
<1> QED BY <1>1, <1>6, <1>7, StaysFacts, JobsKept DEF TypeInv

LEMMA WarmEndType == ASSUME TypeInv, WarmEnd PROVE TypeInv'
<1>1. Stays /\ UNCHANGED <<job, watch, evicting, foreign>> /\ warm' = {}
  BY DEF WarmEnd, config, Stays, watched
<1>2. PICK ok \in SUBSET warm :
         /\ worker' = [id \in Ids |-> IF id \notin warm THEN worker[id]
                ELSE IF id \in ok THEN [Fresh EXCEPT !.loaded = worker[id].holds, !.holds = worker[id].holds]
                     ELSE Fresh]
         /\ residue' = [id \in Ids |-> IF id \in warm \ ok THEN DriverLag ELSE residue[id]]
  BY DEF WarmEnd
<1>3. checkout' = [id \in Ids |-> IF id \in warm THEN NoHold ELSE checkout[id]]
  BY DEF WarmEnd
<1>4. ASSUME NEW id \in Ids
      PROVE  /\ worker'[id] \in Workers /\ (worker'[id].here => worker[id].here \/ id \notin scene.unusable)
             /\ checkout'[id] \in Checkouts /\ residue'[id] \in 0..DriverLag
  <2>1. worker[id] \in Workers /\ checkout[id] \in Checkouts /\ residue[id] \in 0..DriverLag
    BY PoolFacts
  <2>2. [Fresh EXCEPT !.loaded = worker[id].holds, !.holds = worker[id].holds] \in Workers
    BY PoolFacts, FreshIsWorker DEF Workers
  <2>3. worker'[id] \in Workers /\ (id \notin warm => worker'[id] = worker[id])
    BY <1>2, <2>1, <2>2, FreshIsWorker
  <2>4. id \in warm => id \notin scene.unusable
    BY DEF TypeInv, SetsOK
  <2> QED BY <1>2, <1>3, <2>1, <2>3, <2>4, FreshIsWorker, LagIs
<1>5. PoolOK'
  <2>1. /\ DOMAIN worker' = Ids /\ worker' = [id \in Ids |-> worker'[id]]
        /\ checkout' = [id \in Ids |-> checkout'[id]] /\ residue' = [id \in Ids |-> residue'[id]]
    BY <1>2, <1>3
  <2>2. checkout' \in [Ids -> Checkouts] /\ residue' \in [Ids -> 0..DriverLag]
    BY <1>4, <2>1
  <2> QED BY <1>1, <1>4, <2>1, <2>2, PoolAll
<1>6. SetsOK'
  BY <1>1 DEF TypeInv, SetsOK, Stays, Ids
<1> QED BY <1>1, <1>5, <1>6, StaysFacts, JobsKept DEF TypeInv

LEMMA RebuildType == ASSUME TypeInv, Rebuild PROVE TypeInv'
<1>1. /\ scene' = scene /\ devices' = devices /\ plan' = BuildComputeSlots(devices) /\ job' = job
      /\ Active = {} /\ warm = {} /\ warm' = {} /\ evicting' = {}
      /\ worker' = [id \in Ids' |-> IF id \in scene.unusable THEN Absent ELSE Fresh]
      /\ checkout' = [id \in Ids' |-> NoHold]
      /\ watch' = NewWatch(Ids') /\ residue' = [id \in Ids' |-> 0] /\ foreign' = foreign \cap Ids'
  BY DEF Rebuild
<1>2. Detected(devices)
  BY DispatchAssumption DEF TypeInv, MachineOK, Possible
<1>3. MachineOK'
  BY <1>1, <1>2, BuildsPlan DEF TypeInv, MachineOK
<1>4. PoolOK'
  BY <1>1, FreshIsWorker, LagIs DEF PoolOK
<1>5. JobsOK'
  BY <1>1 DEF TypeInv, JobsOK, Ended, Active
<1>6. SetsOK'
  BY <1>1, NewWatchType DEF SetsOK
<1> QED BY <1>3, <1>4, <1>5, <1>6 DEF TypeInv

-----------------------------------------------------------------------------
(* Types *)

LEMMA TypeStarts == Init => TypeInv
<1> SUFFICES ASSUME Init PROVE TypeInv
  OBVIOUS
<1>1. scene \in Scenarios /\ devices = scene.devices /\ plan = BuildComputeSlots(scene.devices)
  BY DEF Init
<1>2. MachineOK
  BY <1>1, BuildsPlan, DispatchAssumption DEF MachineOK, Possible
<1>3. PoolOK
  BY FreshIsWorker, LagIs DEF Init, StartOn, PoolOK, Ids
<1>4. Idle \in Jobs
  BY DEF Idle, Jobs, Codes, NoCode, MaxAttempts
<1>5. JobsOK
  BY <1>4 DEF Init, JobsOK, Idle, Ended
<1>6. SetsOK
  BY NewWatchType DEF Init, StartOn, SetsOK, Ids
<1> QED BY <1>2, <1>3, <1>5, <1>6 DEF TypeInv

LEMMA TypeSteps == TypeInv /\ [Next]_vars => TypeInv'
<1> SUFFICES ASSUME TypeInv, [Next]_vars PROVE TypeInv'
  OBVIOUS
<1>1. ASSUME NEW j \in Job, Submit(j) \/ JobStep(j) PROVE TypeInv'
  BY <1>1, SubmitType, PlaceType, PinnedType, MissType, TakeType, MarkType, FinishType, FailType,
     TpMissesType, TpStartType, TpEndType, PlaceImageType, ImageStartType, ImageEndType DEF JobStep
<1>2. ASSUME NEW id \in Ids, AgeReservation(id) \/ EvictSlot(id) \/ Foreign(id) PROVE TypeInv'
  BY <1>2, AgeType, EvictType, ForeignType
<1>3. CASE Pong \/ Heartbeat \/ Schedule \/ GraceEnds \/ WarmStart \/ WarmEnd \/ SmiFails \/ Measure \/ Rebuild
  BY <1>3, PongType, HeartbeatType, ScheduleType, GraceType, WarmStartType, WarmEndType, SmiType,
     MeasureType, RebuildType
<1>4. CASE UNCHANGED vars
  BY <1>4, QuietType DEF vars, config, pool, watched, truth, Stays, TypeInv, SetsOK
<1> QED BY <1>1, <1>2, <1>3, <1>4 DEF Next

\* Of any machine, catalog and requests, the state keeps its types (TypeOK).
THEOREM TypeCorrect == Spec => []TypeOK
<1>1. TypeInv => TypeOK
  BY DEF TypeInv, PoolOK, JobsOK, SetsOK, Watches, Workers, Checkouts, Jobs, TypeOK
<1> QED BY <1>1, TypeStarts, TypeSteps, PTL DEF Spec

-----------------------------------------------------------------------------
(* What a claim has seen of its slots *)

LEMMA ClaimedState ==
    ASSUME TypeInv, NEW j \in Job, NEW p, job' = ClaimedBy(j, p)
    PROVE  /\ job'[j].pc = "claimed" /\ job'[j].place = p
           /\ \A k \in Job \ {j} : job'[k] = job[k]
BY DEF TypeInv, JobsOK, Jobs, ClaimedBy

LEMMA EndedState ==
    ASSUME TypeInv, NEW j \in Job, NEW code, Ends(j, code)
    PROVE  job'[j].pc = "done" /\ \A k \in Job \ {j} : job'[k] = job[k]
BY DEF TypeInv, JobsOK, Jobs, Ends

LEMMA FailedState ==
    ASSUME TypeInv, NEW j \in Job, NEW id, NEW fault, AfterFailure(j, id, fault)
    PROVE  job'[j].pc \in {"new", "done"} /\ \A k \in Job \ {j} : job'[k] = job[k]
<1>1. CASE fault = "crash" /\ ~Pinned(j) /\ job[j].tries + 1 < Attempts
  BY <1>1 DEF AfterFailure, TypeInv, JobsOK, Jobs
<1>2. CASE ~(fault = "crash" /\ ~Pinned(j) /\ job[j].tries + 1 < Attempts)
  BY <1>2, EndedState DEF AfterFailure
<1> QED BY <1>1, <1>2

\* A step of one job, other than its claim, claims nothing.
LEMMA OthersKept ==
    ASSUME TypeInv, NEW j \in Job,
           \/ Submit(j) \/ TakeMisses(j) \/ Take(j) \/ Mark(j) \/ Finish(j) \/ Fail(j)
           \/ TpMisses(j) \/ TpStart(j) \/ TpEnd(j) \/ ImageStart(j) \/ ImageEnd(j)
    PROVE  job'[j].pc # "claimed" /\ \A k \in Job \ {j} : job'[k] = job[k]
<1>1. CASE Submit(j) \/ TpStart(j) \/ ImageStart(j)
  <2>1. \E pc \in {"new", "running"} : job' = [job EXCEPT ![j].pc = pc]
    BY <1>1 DEF Submit, TpStart, ImageStart
  <2> QED BY <2>1 DEF TypeInv, JobsOK, Jobs
<1>2. CASE TakeMisses(j) \/ Finish(j) \/ TpMisses(j)
  BY <1>2, EndedState DEF TakeMisses, Finish, TpMisses
<1>3. CASE Take(j)
  <2>1. \/ \E code, fault : Refused(j, SlotTaken(j), code, fault)
        \/ job' = [job EXCEPT ![j].pc = "checked"]
        \/ AfterFailure(j, SlotTaken(j), "crash")
    BY <1>3 DEF Take
  <2>2. CASE \E code, fault : Refused(j, SlotTaken(j), code, fault)
    BY <2>2, EndedState DEF Refused
  <2>3. CASE job' = [job EXCEPT ![j].pc = "checked"]
    BY <2>3 DEF TypeInv, JobsOK, Jobs
  <2> QED BY <2>1, <2>2, <2>3, FailedState
<1>4. CASE Mark(j)
  <2>1. Ends(j, "insufficient_vram") \/ job' = [job EXCEPT ![j].pc = "running"]
    BY <1>4 DEF Mark
  <2>2. CASE job' = [job EXCEPT ![j].pc = "running"]
    BY <2>2 DEF TypeInv, JobsOK, Jobs
  <2> QED BY <2>1, <2>2, EndedState
<1>5. CASE Fail(j)
  BY <1>5, FailedState DEF Fail
<1>6. CASE TpEnd(j)
  BY <1>6, FailedState, EndedState DEF TpEnd
<1>7. CASE ImageEnd(j)
  BY <1>7, EndedState DEF ImageEnd
<1> QED BY <1>1, <1>2, <1>3, <1>4, <1>5, <1>6, <1>7

LEMMA ClaimingKeeps ==
    ASSUME TypeInv, NEW j \in Job, Place(j) \/ PlacePinned(j) \/ PlaceImage(j)
    PROVE  \A k \in Job \ {j} : job'[k] = job[k]
<1>1. (\E p : job' = ClaimedBy(j, p)) \/ \E code : Ends(j, code)
  <2>1. CASE Place(j)
    BY <2>1 DEF Place, Claimed
  <2>2. CASE PlacePinned(j)
    BY <2>2 DEF PlacePinned
  <2>3. CASE PlaceImage(j)
    BY <2>3 DEF PlaceImage, Claimed
  <2> QED BY <2>1, <2>2, <2>3
<1> QED BY <1>1, ClaimedState, EndedState

LEMMA ClaimStep ==
    ASSUME TypeInv, [Next]_vars, NEW j \in Job, job[j].pc = "new", job'[j].pc = "claimed"
    PROVE  Place(j) \/ PlacePinned(j) \/ PlaceImage(j)
<1>1. ASSUME NEW k \in Job, Submit(k) \/ JobStep(k) PROVE Place(j) \/ PlacePinned(j) \/ PlaceImage(j)
  <2>1. CASE Place(k) \/ PlacePinned(k) \/ PlaceImage(k)
    BY <2>1, ClaimingKeeps
  <2>2. CASE ~(Place(k) \/ PlacePinned(k) \/ PlaceImage(k))
    <3>1. \/ Submit(k) \/ TakeMisses(k) \/ Take(k) \/ Mark(k) \/ Finish(k) \/ Fail(k)
          \/ TpMisses(k) \/ TpStart(k) \/ TpEnd(k) \/ ImageStart(k) \/ ImageEnd(k)
      BY <1>1, <2>2 DEF JobStep
    <3> QED BY <3>1, OthersKept
  <2> QED BY <2>1, <2>2
<1>2. job' = job => FALSE
  OBVIOUS
<1>3. ASSUME NEW id \in Ids, AgeReservation(id) \/ EvictSlot(id) \/ Foreign(id) PROVE FALSE
  BY <1>2, <1>3 DEF AgeReservation, EvictSlot, Foreign
<1>4. CASE Pong \/ Heartbeat \/ Schedule \/ GraceEnds \/ WarmStart \/ WarmEnd \/ SmiFails \/ Measure \/ Rebuild
  BY <1>2, <1>4 DEF Pong, Heartbeat, Schedule, GraceEnds, WarmStart, WarmEnd, SmiFails, Measure, Rebuild
<1>5. CASE UNCHANGED vars
  BY <1>2, <1>5 DEF vars
<1> QED BY <1>1, <1>3, <1>4, <1>5 DEF Next

\* An unpinned claim is of idle slots; no claim is of a barred one.
LEMMA ClaimSees ==
    ASSUME TypeInv, [Next]_vars, NEW j \in Job, job[j].pc = "new", job'[j].pc = "claimed"
    PROVE  \/ /\ ~Pinned(j)
              /\ \E contended \in BOOLEAN : job'[j].place.slots \subseteq IdleFor(j, contended)
           \/ /\ ~Pinned(j)
              /\ \A id \in job'[j].place.slots : /\ id \in Ids /\ id \notin BarredTo(j)
                                                 /\ Accelerator(Slot(id))
           \/ Pinned(j) /\ \A id \in job'[j].place.slots : id \notin BarredTo(j)
<1>1. CASE Place(j)
  <2>1. PICK contended \in BOOLEAN :
           LET idle == IdleFor(j, contended)
               p    == Choice(j, idle)
           IN  IF p # NoPlacement THEN Claimed(j, p)
               ELSE Ends(j, IF job[j].tries > 0 THEN "crash"
                            ELSE PlacementMiss(View(idle), Request(j)))
    BY <1>1 DEF Place
  <2> DEFINE p == Choice(j, IdleFor(j, contended))
  <2>2. p # NoPlacement /\ Claimed(j, p)
    BY <2>1, EndedState
  <2>3. p.slots \subseteq IdleFor(j, contended)
    BY <2>2, ChoiceIdle DEF PlacedIn
  <2>4. job'[j].place = p
    BY <2>2, ClaimedState DEF Claimed
  <2>5. ~Pinned(j)
    BY <1>1 DEF Place
  <2> QED BY <2>3, <2>4, <2>5
<1>2. CASE PlaceImage(j)
  <2> DEFINE idle == {id \in Ids : id \notin Blocked(Asked(j)) \cup watch.latched /\ Available(id)}
             p == PickPlacement(View(idle), Request(j))
  <2>1. ~Pinned(j) /\ Model(j).image /\ IF p # NoPlacement THEN Claimed(j, p)
                           ELSE Ends(j, PlacementMiss(View(idle), Request(j)))
    BY <1>2 DEF PlaceImage
  <2>0. \A id \in idle : id \in Ids /\ id \notin BarredTo(j)
    BY DEF BarredTo
  <2> HIDE DEF idle
  <2>2. p # NoPlacement /\ Claimed(j, p)
    BY <2>1, EndedState
  <2>3. p = PickImagePlacement(View(idle), Request(j))
    BY <2>1, JobFacts DEF PickPlacement, TypeInv
  <2>4. View(idle).plan = plan /\ View(idle).idle = idle
    BY DEF View
  <2>5. PICK s \in plan : IsIdle(View(idle), s) /\ ImageSlot(Request(j).model, s) /\ p = On(s)
    BY <2>2, <2>3, <2>4, PickedImage
  <2>6. s.id \in idle /\ Slot(s.id) = s /\ Accelerator(s) /\ p.slots = {s.id}
    BY <2>4, <2>5, IdOfSlot DEF IsIdle, ImageSlot, On, Slot, TypeInv, MachineOK
  <2>7. job'[j].place = p
    BY <2>2, ClaimedState DEF Claimed
  <2> QED BY <2>0, <2>1, <2>6, <2>7
<1>3. CASE PlacePinned(j)
  <2>1. Pinned(j)
    BY <1>3 DEF PlacePinned
  <2>2. Request(j).pin \in Ids
    BY <1>3, EndedState DEF PlacePinned
  <2> DEFINE p == PlacementForRequired(plan, Request(j), Request(j).pin)
  <2>3. IF PinRefusal(j, p) = NoCode THEN job' = ClaimedBy(j, p) ELSE Ends(j, PinRefusal(j, p))
    BY <1>3, <2>2 DEF PlacePinned
  <2> HIDE DEF p
  <2>4. PinRefusal(j, p) = NoCode /\ job' = ClaimedBy(j, p)
    BY <2>3, EndedState
  <2>5. job'[j].place = p
    BY <2>4, ClaimedState
  <2> QED BY <2>1, <2>4, <2>5, NotRefused
<1> QED BY <1>1, <1>2, <1>3, ClaimStep

-----------------------------------------------------------------------------
(* Failed slots *)

\* What failed is blocked.
BurntOK == burnt \subseteq serverBlocks \cup localBlocks

\* The scope of a failure has every slot that it proves broken.
LEMMA ScopeCovers ==
    ASSUME MachineOK, NEW id \in Ids, NEW fault PROVE Proves(fault, id) \subseteq FaultScope(fault, id)
<1>1. CASE fault \in {"machine", "resource"}
  BY <1>1 DEF Proves, FaultScope
<1>2. CASE fault = "origin"
  <2> SUFFICES ASSUME NEW o \in Ids, Accelerator(Slot(id)), Accelerator(Slot(o)),
                      Slot(o).device.vendor = Slot(id).device.vendor, Slot(o).device.vendor # "none"
               PROVE  o \in FaultScope(fault, id)
    BY <1>2 DEF Proves
  <2>1. /\ Slot(id) \in plan /\ Slot(o) \in plan /\ Slot(o).id = o
    BY SlotOfId DEF MachineOK, Ids, Slot
  <2>2. SlotShape(Slot(id)) /\ SlotShape(Slot(o))
    BY <2>1 DEF MachineOK, IsPlan
  <2>3. \A s \in {Slot(id), Slot(o)} :
            /\ s.card.strategy # "cpu"
            /\ s.card.strategy = "metal" => s.device.vendor = "apple"
    BY <2>2 DEF SlotShape, Accelerator
  <2>4. Family(Slot(o)) = Family(Slot(id)) /\ Family(Slot(id)) # "none"
    BY <2>3 DEF Family
  <2>5. o \in SlotsInFamily(Family(Slot(id)))
    BY <2>1, <2>4 DEF SlotsInFamily, SlotIds
  <2> QED BY <1>2, <2>4, <2>5 DEF FaultScope
<1>3. CASE fault \notin {"machine", "resource", "origin"}
  BY <1>3 DEF Proves
<1> QED BY <1>1, <1>2, <1>3

LEMMA BurnBlocks ==
    ASSUME MachineOK, BurntOK, NEW m, NEW id \in Ids, NEW fault,
           NoteSlotFailure(m, id, fault), Burn(m, id, fault), UNCHANGED serverBlocks
    PROVE  BurntOK'
BY ScopeCovers DEF BurntOK, NoteSlotFailure, Burn

LEMMA FailureBlocks ==
    ASSUME MachineOK, BurntOK, NEW j, NEW id \in Ids, NEW fault, AfterFailure(j, id, fault)
    PROVE  BurntOK'
BY BurnBlocks DEF AfterFailure, blocks, BurntOK

LEMMA BurntSteps == TypeInv /\ BurntOK /\ [Next]_vars => BurntOK'
<1> SUFFICES ASSUME TypeInv, BurntOK, [Next]_vars PROVE BurntOK'
  OBVIOUS
<1> USE DEF BurntOK
<1>1. UNCHANGED blocks => BurntOK'
  BY DEF blocks
<1>2. ASSUME NEW j \in Job, Submit(j) \/ JobStep(j) PROVE BurntOK'
  <2>0. MachineOK
    BY DEF TypeInv
  <2>1. CASE UNCHANGED blocks
    BY <1>1, <2>1
  <2>2. CASE Take(j)
    <3>1. SlotTaken(j) \in Ids
      BY <2>2, TakenFacts DEF Take
    <3>2. \/ Refused(j, SlotTaken(j), "insufficient_vram", "resource")
          \/ UNCHANGED blocks \/ AfterFailure(j, SlotTaken(j), "crash")
      BY <2>2 DEF Take
    <3> QED BY <1>1, <2>0, <3>1, <3>2, BurnBlocks, FailureBlocks DEF Refused
  <2>3. CASE Mark(j)
    <3>1. SlotTaken(j) \in Ids
      BY <2>3, TakenFacts DEF Mark
    <3>2. \/ UNCHANGED blocks
          \/ /\ NoteSlotFailure(Asked(j), SlotTaken(j), "resource")
             /\ Burn(Asked(j), SlotTaken(j), "resource") /\ UNCHANGED serverBlocks
      BY <2>3 DEF Mark
    <3> QED BY <1>1, <2>0, <3>1, <3>2, BurnBlocks
  <2>4. CASE Fail(j)
    <3>1. SlotTaken(j) \in Ids
      BY <2>4, TakenFacts DEF Fail
    <3> QED BY <2>0, <2>4, <3>1, FailureBlocks DEF Fail
  <2>5. CASE TpEnd(j)
    <3>1. SlotTaken(j) \in Ids
      BY <2>5, TakenFacts DEF TpEnd
    <3> QED BY <1>1, <2>0, <2>5, <3>1, FailureBlocks DEF TpEnd
  <2>6. CASE ImageEnd(j)
    <3>1. SlotTaken(j) \in Ids
      BY <2>6, TakenFacts DEF ImageEnd
    <3> QED BY <1>1, <2>0, <2>6, <3>1, BurnBlocks DEF ImageEnd
  <2>7. CASE Submit(j) \/ Place(j) \/ PlacePinned(j) \/ TakeMisses(j) \/ Finish(j)
             \/ TpMisses(j) \/ TpStart(j) \/ PlaceImage(j) \/ ImageStart(j)
    BY <1>1, <2>7 DEF Submit, Place, PlacePinned, TakeMisses, Finish, TpMisses, TpStart, PlaceImage, ImageStart
  <2> QED BY <1>2, <2>2, <2>3, <2>4, <2>5, <2>6, <2>7 DEF JobStep
<1>3. ASSUME NEW id \in Ids, AgeReservation(id) \/ EvictSlot(id) \/ Foreign(id) PROVE BurntOK'
  BY <1>1, <1>3 DEF AgeReservation, EvictSlot, Foreign
<1>4. CASE Heartbeat \/ Schedule \/ GraceEnds \/ WarmStart \/ WarmEnd \/ SmiFails \/ Measure
  BY <1>1, <1>4 DEF Heartbeat, Schedule, GraceEnds, WarmStart, WarmEnd, SmiFails, Measure
<1>5. CASE Pong \/ Rebuild
  BY <1>5 DEF Pong, Rebuild
<1>6. CASE UNCHANGED vars
  BY <1>1, <1>6 DEF vars
<1> QED BY <1>2, <1>3, <1>4, <1>5, <1>6 DEF Next

\* A model never goes back to a slot that a failure has proved unfit for it
\* (note_slot_failure and the claims of Supervisor::invoke).
THEOREM FailuresAvoided == Spec => FailedSlotAvoided
<1>1. Init => TypeInv /\ BurntOK
  BY TypeStarts DEF Init, BurntOK
<1>2. TypeInv /\ BurntOK /\ [Next]_vars => (TypeInv /\ BurntOK)'
  BY TypeSteps, BurntSteps
<1> DEFINE Avoids == \A j \in Job : job[j].pc = "new" /\ job'[j].pc = "claimed"
                        => \A id \in job'[j].place.slots : <<Asked(j), id>> \notin burnt
<1>3. TypeInv /\ BurntOK /\ [Next]_vars => Avoids
  <2> SUFFICES ASSUME TypeInv, BurntOK, [Next]_vars, NEW j \in Job, job[j].pc = "new",
                      job'[j].pc = "claimed", NEW id \in job'[j].place.slots
               PROVE  <<Asked(j), id>> \notin burnt
    OBVIOUS
  <2>2. id \in Ids /\ id \notin Blocked(Asked(j))
    <3>1. job'[j].place.slots \subseteq Ids
      <4>1. TypeInv' /\ TypeInv
        BY TypeSteps
      <4>2. PlacedIn(job'[j].place, plan', Ids' \ scene'.unusable)
        BY <4>1 DEF TypeInv, JobsOK
      <4>3. Ids' = Ids
        BY ClaimStep DEF Place, PlacePinned, PlaceImage, config, Ids
      <4> QED BY <4>2, <4>3 DEF PlacedIn
    <3>2. id \notin Blocked(Asked(j))
      BY ClaimSees, IdleForIs DEF TypeInv, BarredTo
    <3> QED BY <3>1, <3>2
  <2>3. <<Asked(j), id>> \notin serverBlocks \cup localBlocks
    BY <2>2 DEF Blocked
  <2> QED BY <2>3 DEF BurntOK
<1>4. TypeInv /\ BurntOK /\ [Next]_vars => [Avoids]_vars
  BY <1>3
<1> QED BY <1>1, <1>2, <1>4, PTL DEF Spec, FailedSlotAvoided

-----------------------------------------------------------------------------
(* The processor *)

\* An unpinned job runs on the processor only when no graphics slot that works
\* could host it (the cpu_allowed of Supervisor::invoke_single).
THEOREM ProcessorLast == Spec => ProcessorIsLastResort
<1> DEFINE Last == \A j \in Job : /\ job[j].pc = "new" /\ job'[j].pc = "claimed" /\ ~Pinned(j)
                                  /\ <<"cpu", 0>> \in job'[j].place.slots
                      => \A s \in plan : Usable(s) /\ HostsByDefault(Model(j), s)
                                           => s.id \in watch.latched \cup job[j].skip
<1>1. TypeInv /\ [Next]_vars => Last
  <2> SUFFICES ASSUME TypeInv, [Next]_vars, NEW j \in Job, job[j].pc = "new", job'[j].pc = "claimed",
                      ~Pinned(j), <<"cpu", 0>> \in job'[j].place.slots,
                      NEW s \in plan, Usable(s), HostsByDefault(Model(j), s)
               PROVE  s.id \in watch.latched \cup job[j].skip
    OBVIOUS
  <2> DEFINE cpu == <<"cpu", 0>>
  <2>1. ASSUME cpu \in Ids PROVE ~Accelerator(Slot(cpu))
    <3>1. Slot(cpu) \in plan /\ Slot(cpu).id = cpu
      BY <2>1, SlotOfId DEF TypeInv, MachineOK, Ids, Slot
    <3>2. SlotShape(Slot(cpu))
      BY <3>1 DEF TypeInv, MachineOK, IsPlan
    <3>3. Slot(cpu).id[1] = "cpu"
      BY <3>1
    <3> QED BY <3>2, <3>3 DEF SlotShape, Accelerator
  <2>2. PICK contended \in BOOLEAN : cpu \in IdleFor(j, contended)
    BY <2>1, ClaimSees
  <2>3. CpuOffered(j, contended)
    BY <2>1, <2>2, IdleForIs DEF TypeInv
  <2> QED BY <2>3 DEF CpuOffered
<1>2. TypeInv /\ [Next]_vars => [Last]_vars
  BY <1>1
<1> QED BY <1>2, TypeStarts, TypeSteps, PTL DEF Spec, ProcessorIsLastResort

-----------------------------------------------------------------------------
(* What an empty card shows *)

LEMMA AtLeastBoth == ASSUME NEW a \in Nat, NEW b \in Nat, NEW c \in Nat, a >= b, b >= c PROVE a >= c
OBVIOUS

\* A card that could host a model, empty, has the least the model needs.
LEMMA EmptyCardHosts ==
    ASSUME NEW m, Chartable(m), NEW card \in VirtualCard, card.strategy = "single",
           NEW ram \in Nat, NEW headroom \in Nat, CanHostModel(m, card, ram, headroom, 0)
    PROVE  Half(card.vram) + OsSlack >= OccupancyMinVram(m)
<1>1. m \in CatalogModel /\ card.vram \in Nat
  BY DEF Chartable, VirtualCard
<1>2. HostingMinVram(m) \in Nat
  BY <1>1, NeedsAreNats
<1>3. CASE m.image
  <2>1. HostingMinVram(m) = 0 \/ card.vram >= HostingMinVram(m)
    BY <1>3 DEF CanHostModel, CanHostImageModel
  <2> QED BY <1>1, <1>2, <1>3, <2>1 DEF OccupancyMinVram, Larger, Half, OsSlack
<1>4. CASE ~m.image
  <2>1. m.weight \in Nat /\ m.weight > 0 /\ m.extras \in Nat /\ m.fullVram \in Nat /\ m.weightsVram \in Nat
    BY <1>1, <1>4, ModelFields DEF Chartable
  <2>2. OffloadFloor(m.weight) <= m.weight /\ OffloadFloor(m.weight) \in Nat
    BY <2>1 DEF OffloadFloor
  <2>5. Half(card.vram) \in Nat
    BY <1>1 DEF Half
  <2>3. Half(card.vram) >= m.weight \/ Half(card.vram) >= OffloadFloor(m.weight)
    <3>1. \/ KvFitsOnGpu(Half(card.vram), m, FALSE, 0)
          \/ Half(card.vram) >= GpuWeightsNeed(m, FALSE, 0)
          \/ LayerOffloadFits(m, Half(card.vram), GpuWeightsNeed(m, FALSE, 0), FALSE, ram, headroom)
      BY <1>4 DEF CanHostModel
    <3>2. CASE KvFitsOnGpu(Half(card.vram), m, FALSE, 0)
      <4>1. GpuFullHostNeed(m, FALSE, 0) >= m.weight
        <5>1. m.fullVram > 0 => m.fullVram >= m.weight
          BY <2>1 DEF Chartable
        <5>2. KvGb(m, EffectiveJobNCtx(m, 0)) \in Nat
          BY <1>1, KvIsNat
        <5> QED BY <1>2, <2>1, <5>1, <5>2 DEF GpuFullHostNeed, Larger, Half, Mmproj
      <4>2. GpuFullHostNeed(m, FALSE, 0) \in Nat
        BY <1>1, NeedsAreNats
      <4>3. Half(card.vram) >= GpuFullHostNeed(m, FALSE, 0)
        BY <3>2 DEF KvFitsOnGpu
      <4> QED BY <2>1, <2>5, <4>1, <4>2, <4>3, AtLeastBoth
    <3>3. CASE Half(card.vram) >= GpuWeightsNeed(m, FALSE, 0)
      <4>1. GpuWeightsNeed(m, FALSE, 0) >= m.weight
        BY <2>1 DEF GpuWeightsNeed, Mmproj, Chartable
      <4>2. GpuWeightsNeed(m, FALSE, 0) \in Nat
        BY <1>1, NeedsAreNats
      <4> QED BY <2>1, <2>5, <3>3, <4>1, <4>2, AtLeastBoth
    <3>4. CASE LayerOffloadFits(m, Half(card.vram), GpuWeightsNeed(m, FALSE, 0), FALSE, ram, headroom)
      BY <2>1, <3>4 DEF LayerOffloadFits
    <3> QED BY <3>1, <3>2, <3>3, <3>4
  <2>4. OccupancyMinVram(m) = Larger(OffloadFloor(m.weight), 2)
    BY <1>4, <2>1 DEF OccupancyMinVram
  <2> QED BY <1>1, <2>1, <2>2, <2>3, <2>4 DEF Larger, Half, OsSlack
<1> QED BY <1>3, <1>4

\* The members of S up to n, the greater first.
Below(S) == {x \in S \X S : x[1] < x[2]}

LEMMA LeastExists ==
    ASSUME NEW S, S \subseteq Nat, S # {}
    PROVE  (CHOOSE n \in S : \A k \in S : n <= k) \in S
<1>1. PICK m \in S : TRUE
  OBVIOUS
<1> DEFINE T == S \cap 0..m
<1>2. T # {} /\ T \subseteq Nat /\ m \in T
  BY <1>1
<1>3. IsFiniteSet(T)
  <2>1. IsFiniteSet(0..m) /\ T \subseteq 0..m
    BY FS_Interval
  <2> HIDE DEF T
  <2> QED BY <2>1, FS_Subset
<1> HIDE DEF T
<1>4. Orders(Below(T), T)
  BY <1>2 DEF Orders, Below
<1>5. PICK n \in T : \A k \in T \ {n} : <<n, k>> \in Below(T)
  BY <1>2, <1>3, <1>4, FirstExists
<1>6. \A k \in T : n <= k
  <2> TAKE k \in T
  <2>1. k # n => <<n, k>>[1] < <<n, k>>[2]
    BY <1>5 DEF Below
  <2> QED BY <1>2, <2>1
<1>7. n \in S /\ \A k \in S : n <= k
  <2>1. n <= m /\ m \in Nat /\ n \in Nat
    BY <1>2, <1>5, <1>6
  <2>2. \A k \in S : k \in T \/ k > m
    BY <1>1 DEF T
  <2> QED BY <1>2, <1>6, <2>1, <2>2 DEF T
<1> QED BY <1>7

\* The sum over nothing.
LEMMA NothingHeld == VramTaken({}) = 0
<1> DEFINE Nothing(f) == f = [s \in SUBSET {} |->
              IF s = {} THEN 0
              ELSE f[s \ {CHOOSE x \in s : TRUE}]
                     + (Catalog[CHOOSE x \in s : TRUE].weight + Catalog[CHOOSE x \in s : TRUE].extras)]
<1>1. Nothing([s \in SUBSET {} |-> 0])
  OBVIOUS
<1>2. \A f : Nothing(f) => f[{}] = 0
  OBVIOUS
<1>3. Nothing(CHOOSE f : Nothing(f))
  <2> HIDE DEF Nothing
  <2> QED BY <1>1, Zenon
<1> QED BY <1>2, <1>3 DEF VramTaken, Total, FoldSet, MapThenFoldSet

-----------------------------------------------------------------------------
(* What the watch is told of our own weights *)

\* A worker in the table that says it is empty is empty; and what the driver still
\* reports of old weights began with this run of samples, or is over.
Tame(w) == w.here /\ w.loaded = {} => w.holds = {}
HoldsOK == \A id \in Ids : Tame(worker[id])
LagOK == \A id \in Ids \ (excused \cup watch.latched) :
            watch.candidate[id] >= 1 => residue[id] \in {0, DriverLag}

LEMMA FreshIsTame == Tame(Fresh) /\ Tame(Absent)
BY DEF Tame, Fresh, Absent

LEMMA ReturnsTame ==
    ASSUME TypeInv, HoldsOK, plan' = plan, NEW id \in Ids, NEW w, Tame(w), Returns(id, w)
    PROVE  HoldsOK'
BY DEF HoldsOK, Returns, TypeInv, PoolOK, Ids

LEMMA TameSet ==
    ASSUME TypeInv, HoldsOK, plan' = plan, NEW id \in Ids, NEW w, Tame(w), worker' = [worker EXCEPT ![id] = w]
    PROVE  HoldsOK'
BY DEF HoldsOK, TypeInv, PoolOK, Ids

LEMMA TameKept == ASSUME HoldsOK, plan' = plan, worker' = worker PROVE HoldsOK'
BY DEF HoldsOK, Ids

\* A job takes its slots, or leaves them.
LEMMA HoldsClaims ==
    ASSUME TypeInv, HoldsOK, NEW j \in Job, Place(j) \/ PlacePinned(j) \/ PlaceImage(j)
    PROVE  HoldsOK'
<1>1. plan' = plan
  BY DEF Place, PlacePinned, PlaceImage, config
<1>2. worker \in [Ids -> Workers]
  BY DEF TypeInv, PoolOK
<1>3. CASE \E p : Claimed(j, p)
  <2>1. \A id \in Ids : worker'[id] = worker[id] \/ worker'[id] = [worker[id] EXCEPT !.busy = TRUE]
    BY <1>3 DEF Claimed
  <2>2. \A id \in Ids : Tame(worker'[id])
    BY <1>2, <2>1 DEF HoldsOK, Tame, Workers
  <2> QED BY <1>1, <2>2 DEF HoldsOK, Ids
<1>4. CASE PlacePinned(j)
  <2> DEFINE p    == PlacementForRequired(plan, Request(j), Request(j).pin)
             asks == PinAsks(j, p)
             b    == (PinRefusal(j, p) = NoCode)
  <2>1. CASE Request(j).pin \notin Ids
    BY <1>1, <1>4, <2>1, TameKept DEF PlacePinned
  <2>2. CASE Request(j).pin \in Ids
    <3>1. worker' = [id \in Ids |-> IF id \notin asks THEN worker[id]
                                    ELSE [Respawned(id) EXCEPT !.busy = b]]
      BY <1>4, <2>2 DEF PlacePinned
    <3> HIDE DEF p, asks, b
    <3>2. ASSUME NEW id \in Ids PROVE Tame(worker'[id])
      <4>1. Tame(Respawned(id)) /\ Respawned(id) \in Workers
        BY <1>2, FreshIsTame, FreshIsWorker DEF Respawned, HoldsOK
      <4>2. Tame([Respawned(id) EXCEPT !.busy = b])
        BY <4>1 DEF Tame, Workers
      <4> QED BY <3>1, <4>2 DEF HoldsOK
    <3> QED BY <1>1, <3>2 DEF HoldsOK, Ids
  <2> QED BY <2>1, <2>2
<1>5. CASE worker' = worker
  BY <1>1, <1>5, TameKept
<1> QED BY <1>3, <1>4, <1>5 DEF Place, PlaceImage

LEMMA HoldsTaken ==
    ASSUME TypeInv, HoldsOK, NEW j \in Job, Take(j) \/ Mark(j)
    PROVE  HoldsOK'
<1> DEFINE id == SlotTaken(j)
<1>1. plan' = plan /\ id \in Ids
  BY TakenFacts DEF Take, Mark, config
<1>2. worker[id] \in Workers /\ Tame(worker[id])
  BY <1>1 DEF TypeInv, PoolOK, HoldsOK
<1>3. CASE Take(j)
  <2>1. worker[id].here
    BY <1>3 DEF Take
  <2>2. \/ worker' = [worker EXCEPT ![id].here = TRUE, ![id].busy = FALSE]
        \/ worker' = [worker EXCEPT ![id].here = FALSE]
        \/ worker' = [worker EXCEPT ![id] = Fresh]
    BY <1>3 DEF Take, Refused
  <2>3. CASE worker' = [worker EXCEPT ![id].here = TRUE, ![id].busy = FALSE]
    <3> DEFINE w == [worker[id] EXCEPT !.here = TRUE, !.busy = FALSE]
    <3>1. Tame(w)
      BY <1>2, <2>1 DEF Tame, Workers
    <3>2. worker' = [worker EXCEPT ![id] = w]
      BY <2>3
    <3> HIDE DEF w, id
    <3> QED BY <1>1, <3>1, <3>2, TameSet
  <2>4. CASE worker' = [worker EXCEPT ![id].here = FALSE]
    <3> DEFINE w == [worker[id] EXCEPT !.here = FALSE]
    <3>1. Tame(w)
      BY <1>2 DEF Tame, Workers
    <3>2. worker' = [worker EXCEPT ![id] = w]
      BY <2>4
    <3> HIDE DEF w, id
    <3> QED BY <1>1, <3>1, <3>2, TameSet
  <2> HIDE DEF id
  <2> QED BY <1>1, <2>2, <2>3, <2>4, FreshIsTame, TameSet
<1>4. CASE Mark(j)
  <2> DEFINE listed == worker[id].loaded \cup {Asked(j)}
  <2>1. \/ Returns(id, [Fresh EXCEPT !.loaded = listed, !.holds = worker[id].holds])
        \/ worker' = worker
        \/ worker' = [worker EXCEPT ![id].loaded = listed, ![id].holds = {Asked(j)}]
    BY <1>4 DEF Mark
  <2>2. listed # {}
    OBVIOUS
  <2> HIDE DEF listed
  <2>3. Tame([Fresh EXCEPT !.loaded = listed, !.holds = worker[id].holds])
    BY <2>2 DEF Tame, Fresh
  <2>4. CASE worker' = [worker EXCEPT ![id].loaded = listed, ![id].holds = {Asked(j)}]
    <3> DEFINE w == [worker[id] EXCEPT !.loaded = listed, !.holds = {Asked(j)}]
    <3>1. Tame(w)
      BY <1>2, <2>2 DEF Tame, Workers
    <3>2. worker' = [worker EXCEPT ![id] = w]
      BY <2>4
    <3> HIDE DEF w, id
    <3> QED BY <1>1, <3>1, <3>2, TameSet
  <2> HIDE DEF id
  <2> QED BY <1>1, <2>1, <2>3, <2>4, ReturnsTame, TameKept
<1> HIDE DEF id
<1> QED BY <1>3, <1>4

LEMMA HoldsEnds ==
    ASSUME TypeInv, HoldsOK, NEW j \in Job, Finish(j) \/ Fail(j) \/ ImageStart(j) \/ ImageEnd(j)
    PROVE  HoldsOK'
<1> DEFINE id == SlotTaken(j)
<1>1. plan' = plan /\ id \in Ids
  BY TakenFacts DEF Finish, Fail, ImageStart, ImageEnd, config
<1>2. CASE ImageStart(j)
  <2> DEFINE w == [worker[id] EXCEPT !.here = FALSE, !.loaded = @ \cup {Asked(j)}, !.holds = {}]
  <2>1. worker' = [worker EXCEPT ![id] = w]
    BY <1>2 DEF ImageStart, TypeInv, PoolOK
  <2>2. Tame(w)
    BY <1>1 DEF Tame, Workers, TypeInv, PoolOK
  <2> HIDE DEF w, id
  <2> QED BY <1>1, <2>1, <2>2, TameSet
<1>3. CASE Finish(j) \/ Fail(j) \/ ImageEnd(j)
  <2>1. Returns(id, Fresh) \/ Returns(id, [Fresh EXCEPT !.loaded = {Asked(j)}, !.holds = {Asked(j)}])
    BY <1>3 DEF Finish, Fail, ImageEnd
  <2>2. Tame([Fresh EXCEPT !.loaded = {Asked(j)}, !.holds = {Asked(j)}])
    BY DEF Tame, Fresh
  <2> HIDE DEF id
  <2> QED BY <1>1, <2>1, <2>2, FreshIsTame, ReturnsTame
<1> QED BY <1>2, <1>3

LEMMA HoldsGroup ==
    ASSUME TypeInv, HoldsOK, NEW j \in Job, TpStart(j) \/ TpMisses(j) \/ TpEnd(j)
    PROVE  HoldsOK'
<1>1. plan' = plan
  BY DEF TpStart, TpMisses, TpEnd, config
<1>2. \A id \in Ids : \/ worker'[id] = worker[id] \/ worker'[id] = Fresh
                      \/ worker'[id] = [worker[id] EXCEPT !.healthy = FALSE, !.holds = {}]
  BY DEF TpStart, TpMisses, TpEnd
<1>3. \A id \in Ids : Tame([worker[id] EXCEPT !.healthy = FALSE, !.holds = {}])
  BY DEF TypeInv, PoolOK, Workers, Tame
<1>4. \A id \in Ids : Tame(worker'[id])
  BY <1>2, <1>3, FreshIsTame DEF HoldsOK
<1> QED BY <1>1, <1>4 DEF HoldsOK, Ids

LEMMA HoldsFreed ==
    ASSUME TypeInv, HoldsOK,
           \/ \E id \in Ids : EvictSlot(id)
           \/ WarmStart \/ WarmEnd \/ Rebuild
    PROVE  HoldsOK'
<1>0. worker \in [Ids -> Workers]
  BY DEF TypeInv, PoolOK
<1>1. ASSUME NEW id \in Ids, EvictSlot(id) PROVE HoldsOK'
  <2> DEFINE w == [worker[id] EXCEPT !.loaded = {}, !.busy = FALSE, !.holds = {}]
  <2>1. plan' = plan /\ (worker' = worker \/ worker' = [worker EXCEPT ![id] = w])
    BY <1>0, <1>1 DEF EvictSlot, config
  <2>2. Tame(w)
    BY <1>0 DEF Tame, Workers
  <2> HIDE DEF w
  <2> QED BY <2>1, <2>2, TameSet, TameKept
<1>2. CASE WarmStart
  <2>1. plan' = plan
    BY <1>2 DEF WarmStart, config
  <2>2. \E out, targets, m : worker' = [id \in Ids |->
            CASE id \in out -> [worker[id] EXCEPT !.loaded = {}, !.holds = {}]
              [] id \in targets -> [worker[id] EXCEPT !.here = FALSE, !.busy = TRUE, !.holds = m]
              [] OTHER -> worker[id]]
            /\ out \cap targets = {}
    <3> DEFINE Free == {id \in Ids : Available(id) /\ id \notin watch.latched}
               Out(p) == {id \in Free \ p.slots : worker[id].loaded # {}}
               Targets(p) == {id \in Free \cap p.slots : worker[id].loaded = {}}
    <3>1. PICK p \in scene.warmPlans : worker' = [id \in Ids |->
            CASE id \in Out(p) -> [worker[id] EXCEPT !.loaded = {}, !.holds = {}]
              [] id \in Targets(p) -> [worker[id] EXCEPT !.here = FALSE, !.busy = TRUE, !.holds = {p.model}]
              [] OTHER -> worker[id]]
      BY <1>2 DEF WarmStart
    <3>2. Out(p) \cap Targets(p) = {}
      OBVIOUS
    <3> QED BY <3>1, <3>2
  <2>3. PICK out, targets, m : worker' = [id \in Ids |->
            CASE id \in out -> [worker[id] EXCEPT !.loaded = {}, !.holds = {}]
              [] id \in targets -> [worker[id] EXCEPT !.here = FALSE, !.busy = TRUE, !.holds = m]
              [] OTHER -> worker[id]]
            /\ out \cap targets = {}
    BY <2>2
  <2>4. ASSUME NEW id \in Ids PROVE Tame(worker'[id])
    <3>1. Tame([worker[id] EXCEPT !.loaded = {}, !.holds = {}])
      BY <1>0 DEF Tame, Workers
    <3>2. Tame([worker[id] EXCEPT !.here = FALSE, !.busy = TRUE, !.holds = m])
      BY <1>0 DEF Tame, Workers
    <3>3. CASE id \in out /\ id \notin targets
      BY <2>3, <3>1, <3>3
    <3>4. CASE id \in targets /\ id \notin out
      BY <2>3, <3>2, <3>4
    <3>5. CASE id \notin out /\ id \notin targets
      BY <2>3, <3>5 DEF HoldsOK
    <3> QED BY <2>3, <3>3, <3>4, <3>5
  <2> QED BY <2>1, <2>4 DEF HoldsOK, Ids
<1>3. CASE WarmEnd
  <2>1. plan' = plan
    BY <1>3 DEF WarmEnd, config
  <2>2. \A id \in Ids : \/ worker'[id] = worker[id] \/ worker'[id] = Fresh
                        \/ worker'[id] = [Fresh EXCEPT !.loaded = worker[id].holds, !.holds = worker[id].holds]
    BY <1>3 DEF WarmEnd
  <2>3. \A id \in Ids : Tame([Fresh EXCEPT !.loaded = worker[id].holds, !.holds = worker[id].holds])
    BY DEF Tame, Fresh
  <2>4. \A id \in Ids : Tame(worker'[id])
    BY <2>2, <2>3, FreshIsTame DEF HoldsOK
  <2> QED BY <2>1, <2>4 DEF HoldsOK, Ids
<1>4. CASE Rebuild
  <2>1. \A id \in Ids' : worker'[id] = Fresh \/ worker'[id] = Absent
    BY <1>4 DEF Rebuild
  <2> QED BY <2>1, FreshIsTame DEF HoldsOK
<1> QED BY <1>1, <1>2, <1>3, <1>4

LEMMA HoldsSteps == TypeInv /\ HoldsOK /\ [Next]_vars => HoldsOK'
<1> SUFFICES ASSUME TypeInv, HoldsOK, [Next]_vars PROVE HoldsOK'
  OBVIOUS
<1>1. ASSUME NEW j \in Job, Submit(j) \/ JobStep(j) PROVE HoldsOK'
  <2>1. CASE Submit(j) \/ TakeMisses(j)
    BY <2>1, TameKept DEF Submit, TakeMisses, config, pool
  <2> QED BY <1>1, <2>1, HoldsClaims, HoldsTaken, HoldsEnds, HoldsGroup DEF JobStep
<1>2. ASSUME NEW id \in Ids, AgeReservation(id) \/ Foreign(id) PROVE HoldsOK'
  BY <1>2, TameKept DEF AgeReservation, Foreign, config, pool
<1>3. CASE Pong \/ Heartbeat \/ Schedule \/ GraceEnds \/ SmiFails \/ Measure
  BY <1>3, TameKept DEF Pong, Heartbeat, Schedule, GraceEnds, SmiFails, Measure, config, pool
<1>4. CASE UNCHANGED vars
  BY <1>4, TameKept DEF vars, config, pool
<1> QED BY <1>1, <1>2, <1>3, <1>4, HoldsFreed DEF Next

\* The driver's lag, slot by slot.
LEMMA LagKept ==
    ASSUME LagOK, plan' = plan, UNCHANGED watched, \A id \in Ids : residue'[id] \in {0, DriverLag, residue[id]}
    PROVE  LagOK'
BY DEF LagOK, watched, Ids

LEMMA LagBeats == ASSUME TypeInv, LagOK, Heartbeat PROVE LagOK'
<1>1. Ids' = Ids
  BY DEF Heartbeat, config, Ids
<1> SUFFICES ASSUME NEW id \in Ids, id \notin excused', id \notin watch'.latched, watch'.candidate[id] >= 1
             PROVE  residue'[id] \in {0, DriverLag}
  BY <1>1 DEF LagOK
<1>2. watch' = WatchSample(watch, RawSamples) /\ watch \in Watches(Ids)
  BY DEF Heartbeat, TypeInv, SetsOK
<1>3. watch.candidate[id] # Never
  BY <1>2, SampleIs, RawIds
<1>4. watch'.candidate[id] # Never
  BY DEF Never
<1>5. excused' = {o \in Ids : /\ watch'.candidate[o] # Never \/ o \in watch'.latched
                              /\ \/ o \in excused \cup foreign
                                 \/ watch.candidate[o] # Never /\ residue[o] = DriverLag
                                 \/ Running(o) # {}}
  BY DEF Heartbeat
<1>6. residue[id] # DriverLag
  BY <1>3, <1>4, <1>5
<1>7. residue[id] \in 0..DriverLag /\ residue' = [o \in Ids |-> Minus(residue[o], 1)]
  BY PoolFacts DEF Heartbeat
<1>8. residue'[id] = Minus(residue[id], 1)
  BY <1>7
<1> QED BY <1>6, <1>7, <1>8 DEF Minus, DriverLag

LEMMA LagSteps == TypeInv /\ LagOK /\ [Next]_vars => LagOK'
<1> SUFFICES ASSUME TypeInv, LagOK, [Next]_vars PROVE LagOK'
  OBVIOUS
<1>0. residue \in [Ids -> 0..DriverLag]
  BY DEF TypeInv, PoolOK
<1>1. ASSUME NEW j \in Job, Submit(j) \/ JobStep(j) PROVE LagOK'
  <2>1. CASE Submit(j) \/ Place(j) \/ PlacePinned(j) \/ PlaceImage(j) \/ TakeMisses(j) \/ Take(j)
    <3>1. plan' = plan /\ UNCHANGED <<watched, residue>>
      BY <2>1 DEF Submit, Place, PlacePinned, PlaceImage, TakeMisses, Take, config, truth
    <3> QED BY <3>1, LagKept
  <2>2. CASE Mark(j) \/ Finish(j) \/ Fail(j) \/ ImageStart(j) \/ ImageEnd(j)
    <3>1. plan' = plan /\ UNCHANGED watched
      BY <2>2 DEF Mark, Finish, Fail, ImageStart, ImageEnd, config
    <3>2. \/ residue' = residue
          \/ \E o, n : n \in {0, DriverLag, residue[o]} /\ residue' = [residue EXCEPT ![o] = n]
      <4>1. CASE Mark(j)
        BY <4>1 DEF Mark
      <4>2. CASE Finish(j)
        BY <4>2 DEF Finish
      <4>3. CASE Fail(j) \/ ImageStart(j) \/ ImageEnd(j)
        BY <4>3 DEF Fail, ImageStart, ImageEnd
      <4> QED BY <2>2, <4>1, <4>2, <4>3
    <3>3. \A id \in Ids : residue'[id] \in {0, DriverLag, residue[id]}
      BY <1>0, <3>2
    <3> QED BY <3>1, <3>3, LagKept
  <2>3. CASE TpStart(j) \/ TpMisses(j) \/ TpEnd(j)
    <3>1. plan' = plan /\ UNCHANGED watched
      BY <2>3 DEF TpStart, TpMisses, TpEnd, config
    <3>2. \A id \in Ids : residue'[id] \in {0, DriverLag, residue[id]}
      BY <2>3 DEF TpStart, TpMisses, TpEnd
    <3> QED BY <3>1, <3>2, LagKept
  <2> QED BY <1>1, <2>1, <2>2, <2>3 DEF JobStep
<1>2. ASSUME NEW id \in Ids, AgeReservation(id) \/ Foreign(id) PROVE LagOK'
  BY <1>2, LagKept DEF AgeReservation, Foreign, config, truth
<1>3. ASSUME NEW id \in Ids, EvictSlot(id) PROVE LagOK'
  <2>1. plan' = plan /\ Ids' = Ids
    BY <1>3 DEF EvictSlot, config, Ids
  <2>2. \A o \in Ids : residue'[o] \in {0, DriverLag, residue[o]}
    <3>1. \E n : n \in {DriverLag, residue[id]} /\ residue' = [residue EXCEPT ![id] = n]
      BY <1>3 DEF EvictSlot
    <3> QED BY <1>0, <3>1
  <2>3. CASE evicting # {id}
    BY <1>3, <2>1, <2>2, <2>3, LagKept DEF EvictSlot, watched
  <2>4. CASE evicting = {id}
    <3>1. PICK samples : watch' = NoteOurVram(watch, samples)
      BY <1>3, <2>4 DEF EvictSlot
    <3>2. watch \in Watches(Ids)
      BY DEF TypeInv, SetsOK
    <3>3. watch'.candidate = [o \in Ids |-> Never]
      BY <3>1, <3>2 DEF NoteOurVram, Watches
    <3> QED BY <2>1, <3>3 DEF LagOK, Never
  <2> QED BY <2>3, <2>4
<1>4. CASE Pong \/ Schedule \/ GraceEnds \/ SmiFails \/ Measure
  <2>1. plan' = plan /\ UNCHANGED <<watched, residue>>
    BY <1>4 DEF Pong, Schedule, GraceEnds, SmiFails, Measure, config, truth
  <2> QED BY <2>1, LagKept
<1>5. CASE WarmStart \/ WarmEnd
  <2>1. plan' = plan /\ UNCHANGED watched
    BY <1>5 DEF WarmStart, WarmEnd, config
  <2>2. \E out : residue' = [id \in Ids |-> IF id \in out THEN DriverLag ELSE residue[id]]
    BY <1>5 DEF WarmStart, WarmEnd
  <2>3. \A id \in Ids : residue'[id] \in {0, DriverLag, residue[id]}
    BY <2>2
  <2> QED BY <2>1, <2>3, LagKept
<1>6. CASE Rebuild
  <2>1. \A id \in Ids' : residue'[id] = 0
    BY <1>6 DEF Rebuild
  <2> QED BY <2>1 DEF LagOK
<1>7. CASE UNCHANGED vars
  BY <1>7, LagKept DEF vars, config, truth
<1> QED BY <1>1, <1>2, <1>3, <1>4, <1>5, <1>6, <1>7, LagBeats DEF Next

-----------------------------------------------------------------------------
(* A latched slot *)

\* An idle card that holds nothing, and that nothing but its own weights fills, is
\* never reported as taken.
LEMMA EmptyIsNotTaken ==
    ASSUME TypeInv, HoldsOK, NEW id \in Ids, id \notin foreign, Running(id) = {}, residue[id] = 0
    PROVE  ~RawSamples[id]
<1> SUFFICES ASSUME RawSamples[id] PROVE FALSE
  OBVIOUS
<1> DEFINE card == Slot(id).card
           on   == {Catalog[m] : m \in scene.advertised}
           need == SmallestAdvertisedNeed(card, on, scene.ram, scene.headroom)
           needs == {OccupancyMinVram(m) : m \in {m \in on : CanHostModel(m, card, scene.ram, scene.headroom, 0)}}
<1>1. /\ worker[id].here /\ worker[id].loaded = {}
      /\ need > 0 /\ LiveFree(id) >= 0 /\ LiveFree(id) + OsSlack < need
  BY DEF RawSamples, RawForeignOccupancy
<1>2. Held(id) = {}
  BY <1>1 DEF HoldsOK, Tame, Held
<1>3. card \in VirtualCard /\ card.vram \in Nat
  <2>1. Slot(id) \in plan
    BY SlotOfId DEF TypeInv, MachineOK, Ids, Slot
  <2> QED BY <2>1 DEF TypeInv, MachineOK, IsPlan, SlotShape, VirtualCard
<1>4. card.strategy = "single" /\ LiveFree(id) = FreeVram(id)
  BY <1>1 DEF LiveFree, Unknown
<1>5. FreeVram(id) = Half(card.vram)
  <2>1. FreeVram(id) = Minus(Half(card.vram), 0 + 0)
    BY <1>2, NothingHeld DEF FreeVram
  <2> QED BY <1>3, <2>1 DEF Minus, Half
<1>6. /\ Possible(scene) /\ scene.ram \in Nat /\ scene.headroom \in Nat
      /\ \A m \in scene.advertised : Chartable(Catalog[m])
  BY DispatchAssumption DEF TypeInv, MachineOK, Possible
<1>7. \A m \in on : Chartable(m)
  BY <1>6
<1> HIDE DEF card, on
<1>8. needs \subseteq Nat
  <2>1. \A m \in on : OccupancyMinVram(m) \in Nat
    BY <1>7, NeedsAreNats DEF Chartable
  <2> QED BY <2>1
<1>9. need = IF needs = {} THEN 0 ELSE CHOOSE n \in needs : \A k \in needs : n <= k
  BY DEF SmallestAdvertisedNeed
<1>10. need \in needs
  <2>1. needs # {}
    BY <1>1, <1>9
  <2>2. need = CHOOSE n \in needs : \A k \in needs : n <= k
    BY <1>9, <2>1
  <2> HIDE DEF needs, need
  <2> QED BY <1>8, <2>1, <2>2, LeastExists
<1> HIDE DEF need
<1>11. PICK m \in on : CanHostModel(m, card, scene.ram, scene.headroom, 0) /\ need = OccupancyMinVram(m)
  BY <1>10
<1>12. Half(card.vram) + OsSlack >= need
  BY <1>3, <1>4, <1>6, <1>7, <1>11, EmptyCardHosts
<1>13. Half(card.vram) + OsSlack < need
  BY <1>1, <1>4, <1>5
<1>14. need \in Nat /\ Half(card.vram) + OsSlack \in Nat
  BY <1>3, <1>8, <1>10 DEF Half, OsSlack
<1> QED BY <1>12, <1>13, <1>14

LEMMA BeatLatches ==
    ASSUME TypeInv, HoldsOK, LagOK, Heartbeat, NEW id \in Ids, id \in watch'.latched, id \notin watch.latched
    PROVE  id \in excused'
<1> SUFFICES ASSUME id \notin excused' PROVE FALSE
  OBVIOUS
<1>1. watch' = WatchSample(watch, RawSamples) /\ watch \in Watches(Ids)
  BY DEF Heartbeat, TypeInv, SetsOK
<1>2. RawSamples[id] /\ watch.candidate[id] >= 1
  BY <1>1, SampleIs, RawIds
<1>3. excused' = {o \in Ids : /\ watch'.candidate[o] # Never \/ o \in watch'.latched
                              /\ \/ o \in excused \cup foreign
                                 \/ watch.candidate[o] # Never /\ residue[o] = DriverLag
                                 \/ Running(o) # {}}
  BY DEF Heartbeat
<1>4. id \notin excused /\ id \notin foreign /\ Running(id) = {}
  BY <1>3
<1>5. watch.candidate[id] # Never
  BY <1>2 DEF Never
<1>6. residue[id] # DriverLag
  BY <1>3, <1>5
<1>7. residue[id] = 0
  BY <1>2, <1>4, <1>6 DEF LagOK
<1> QED BY <1>2, <1>4, <1>7, EmptyIsNotTaken

\* A card is taken out of the pool only for what other software holds, or for our
\* own weights freed twice in a row or held by a job that has lost its slot
\* (OccupancyWatch::sample of gpu_occupancy.rs, fed by refresh_gpu_occupancy).
THEOREM ForeignLatches == Spec => OnlyForeignLatches
<1>1. Init => TypeInv /\ HoldsOK /\ LagOK
  <2> SUFFICES ASSUME Init PROVE HoldsOK /\ LagOK
    BY TypeStarts
  <2>1. \A id \in Ids : worker[id] \in {Fresh, Absent} /\ residue[id] = 0
    BY DEF Init, StartOn, Ids
  <2> QED BY <2>1, FreshIsTame DEF HoldsOK, LagOK
<1>2. TypeInv /\ HoldsOK /\ LagOK /\ [Next]_vars => (TypeInv /\ HoldsOK /\ LagOK)'
  BY TypeSteps, HoldsSteps, LagSteps
<1> DEFINE Only == \A id \in Ids : Ids' = Ids /\ id \in watch'.latched \ watch.latched => id \in excused'
<1>3. TypeInv /\ HoldsOK /\ LagOK /\ [Next]_vars => Only
  <2> SUFFICES ASSUME TypeInv, HoldsOK, LagOK, [Next]_vars,
                      NEW id \in Ids, id \in watch'.latched, id \notin watch.latched
               PROVE  id \in excused'
    OBVIOUS
  <2>1. Heartbeat
    <3>1. watch' # watch
      OBVIOUS
    <3>2. ASSUME NEW j \in Job, Submit(j) \/ JobStep(j) PROVE FALSE
      <4>1. UNCHANGED watched
        BY <3>2 DEF JobStep, Submit, Place, PlacePinned, PlaceImage, TakeMisses, Take, Mark, Finish, Fail,
           TpStart, TpMisses, TpEnd, ImageStart, ImageEnd
      <4> QED BY <3>1, <4>1 DEF watched
    <3>3. ASSUME NEW o \in Ids, AgeReservation(o) \/ EvictSlot(o) \/ Foreign(o) PROVE FALSE
      <4>1. watch' = watch \/ \E samples : watch' = NoteOurVram(watch, samples)
        BY <3>3 DEF AgeReservation, EvictSlot, Foreign, watched
      <4>2. watch \in Watches(Ids)
        BY DEF TypeInv, SetsOK
      <4>3. watch'.latched = watch.latched
        BY <4>1, <4>2 DEF NoteOurVram, Watches
      <4> QED BY <4>3
    <3>4. CASE Rebuild
      <4>1. watch'.latched = {}
        BY <3>4 DEF Rebuild, NewWatch
      <4> QED BY <4>1
    <3>5. CASE Pong \/ Schedule \/ GraceEnds \/ WarmStart \/ WarmEnd \/ SmiFails \/ Measure
      BY <3>1, <3>5 DEF Pong, Schedule, GraceEnds, WarmStart, WarmEnd, SmiFails, Measure, watched
    <3>6. CASE UNCHANGED vars
      BY <3>1, <3>6 DEF vars, watched
    <3> QED BY <3>2, <3>3, <3>4, <3>5, <3>6 DEF Next
  <2> QED BY <2>1, BeatLatches
<1>4. TypeInv /\ HoldsOK /\ LagOK /\ [Next]_vars => [Only]_vars
  BY <1>3
<1> QED BY <1>1, <1>2, <1>4, PTL DEF Spec, OnlyForeignLatches

-----------------------------------------------------------------------------
(* A miss that asks to wait *)

AllFreeFacts(v) ==
    /\ v.plan = plan /\ v.idle = Ids /\ v.ram = scene.ram /\ v.headroom = scene.headroom
    /\ v.avail = scene.ram /\ v.warm = {}
    /\ \A id \in Ids : v.live[id] = Unknown /\ v.credit[id] = 0

LEMMA AllFreeIs == AllFreeFacts(AllFree)
<1> DEFINE v == View(Ids)
           live == [id \in Ids |-> Unknown]
           credit == [id \in Ids |-> 0]
<1>1. /\ v.plan = plan /\ v.idle = Ids /\ v.ram = scene.ram /\ v.headroom = scene.headroom
      /\ DOMAIN v = {"plan", "idle", "ram", "headroom", "cores", "avail", "warm", "live", "credit"}
  BY DEF View
<1>2. AllFree = [v EXCEPT !.live = live, !.avail = scene.ram, !.warm = {}, !.credit = credit]
  BY Zenon DEF AllFree
<1>3. \A id \in Ids : live[id] = Unknown /\ credit[id] = 0
  OBVIOUS
<1> HIDE DEF v, live, credit
<1>4. /\ AllFree.plan = v.plan /\ AllFree.idle = v.idle /\ AllFree.ram = v.ram /\ AllFree.headroom = v.headroom
      /\ AllFree.avail = scene.ram /\ AllFree.warm = {} /\ AllFree.live = live /\ AllFree.credit = credit
  BY <1>1, <1>2
<1> QED BY <1>1, <1>3, <1>4 DEF AllFreeFacts

\* A free card that fits all of a model, or enough of it with system RAM for the
\* rest, gets it.
LEMMA FitIsPicked ==
    ASSUME NEW v, IsPlan(v.plan), NEW r, ~r.model.image, NEW s \in v.plan, MayPlace(v, r, s),
           CanGpuFull(r, SlotAvailable(v, s)), Hosts(v, r, s), Sees(r, s.card)
    PROVE  PickPlacement(v, r) # NoPlacement
<1> DEFINE S == {t \in v.plan : /\ MayPlace(v, r, t) /\ CanGpuFull(r, SlotAvailable(v, t))
                                /\ Hosts(v, r, t) /\ Sees(r, t.card)}
<1>1. S \subseteq v.plan /\ S # {}
  OBVIOUS
<1>2. FullFit(v, r) =
         LET first == {t \in S : \A u \in S \ {t} : Smallest(t, u)}
         IN  IF first = {} THEN NoPlacement ELSE On(CHOOSE t \in first : TRUE)
  BY DEF FullFit, FirstBy, Those
<1> HIDE DEF S
<1>3. PICK t \in S : \A u \in S \ {t} : Smallest(t, u)
  BY <1>1, SmallestFirst
<1>4. FullFit(v, r) # NoPlacement
  BY <1>2, <1>3, OnIsPlacement
<1> QED BY <1>4 DEF PickPlacement, Else

LEMMA OffloadIsPicked ==
    ASSUME NEW v, IsPlan(v.plan), NEW r, ~r.model.image, ~r.vision, NEW s \in v.plan, MayPlace(v, r, s),
           AcceleratorLiveCanPlace(v, r.model, s), Hosts(v, r, s), RamNeed(v, r, s) <= RamFree(v, s)
    PROVE  PickPlacement(v, r) # NoPlacement
<1> DEFINE S == {t \in v.plan : /\ MayPlace(v, r, t) /\ AcceleratorLiveCanPlace(v, r.model, t)
                                /\ Hosts(v, r, t) /\ RamNeed(v, r, t) <= RamFree(v, t)}
<1>1. S \subseteq v.plan /\ S # {}
  OBVIOUS
<1>2. Offload(v, r) =
         LET first == {t \in S : \A u \in S \ {t} : Largest(t, u)}
         IN  IF first = {} THEN NoPlacement ELSE On(CHOOSE t \in first : TRUE)
  BY DEF Offload, FirstBy, Those
<1> HIDE DEF S
<1>3. PICK t \in S : \A u \in S \ {t} : Largest(t, u)
  BY <1>1, LargestFirst
<1>4. Offload(v, r) # NoPlacement
  BY <1>2, <1>3, OnIsPlacement
<1> QED BY <1>4 DEF PickPlacement, Else

LEMMA ImageIsPicked ==
    ASSUME NEW v, IsPlan(v.plan), NEW r, r.model.image, NEW s \in v.plan, IsIdle(v, s), ImageSlot(r.model, s)
    PROVE  PickPlacement(v, r) # NoPlacement
<1> DEFINE S == {t \in v.plan : IsIdle(v, t) /\ ImageSlot(r.model, t)}
<1>1. S \subseteq v.plan /\ S # {}
  OBVIOUS
<1>2. PickImagePlacement(v, r) =
         LET first == {t \in S : \A u \in S \ {t} : BestImage(t, u)}
         IN  IF first = {} THEN NoPlacement ELSE On(CHOOSE t \in first : TRUE)
  BY DEF PickImagePlacement, FirstBy, Those
<1> HIDE DEF S
<1>3. PICK t \in S : \A u \in S \ {t} : BestImage(t, u)
  BY <1>1, BestImageFirst
<1>4. PickImagePlacement(v, r) # NoPlacement
  BY <1>2, <1>3, OnIsPlacement
<1> QED BY <1>4 DEF PickPlacement

\* The arithmetic of RAM needs, on plain numbers.
LEMMA FirstOfLargest ==
    ASSUME NEW a \in Nat, NEW b \in Nat, NEW c \in Nat, NEW ram \in Nat, ram >= Larger(Larger(a, b), c)
    PROVE  ram >= a
BY DEF Larger

LEMMA CeilOfNat == ASSUME NEW x \in Nat PROVE GbCeil(x) \in Nat
BY CeilIsNat

LEMMA SpillIsNat == ASSUME NEW a \in Nat, NEW b \in Nat PROVE Larger(a - b, 0) \in Nat
BY DEF Larger

LEMMA NoSpill == ASSUME NEW a \in Nat, NEW b \in Nat, b >= a PROVE Larger(a - b, 0) = 0
BY DEF Larger

LEMMA NeedWithin ==
    ASSUME NEW spilled \in Nat, NEW kv \in Nat, NEW headroom \in Nat, NEW ram \in Nat,
           ram >= GbCeil(spilled + kv) + headroom
    PROVE  (IF spilled + kv = 0 THEN 0 ELSE GbCeil(spilled + kv) + headroom) <= ram
<1> DEFINE c == GbCeil(spilled + kv)
<1>1. c \in Nat
  BY CeilIsNat
<1>2. ram >= c + headroom
  OBVIOUS
<1> HIDE DEF c
<1>3. c + headroom <= ram /\ 0 <= ram
  BY <1>1, <1>2
<1> QED BY <1>3 DEF c

LEMMA KvInRam ==
    ASSUME NEW m, JobKv(m, FALSE, 0) \in Nat, m.minRam \in Nat, NEW headroom \in Nat, NEW ram \in Nat,
           ram >= KvRamNeed(m, FALSE, headroom)
    PROVE  ram >= GbCeil(0 + JobKv(m, FALSE, 0)) + headroom
<1> DEFINE kv == JobKv(m, FALSE, 0)
           c  == GbCeil(kv)
           d  == GbCeil(m.minRam)
<1>1. c \in Nat /\ d \in Nat
  BY CeilOfNat
<1>2. ram >= Larger(Larger(c + headroom, d), 1)
  BY DEF KvRamNeed
<1>3. kv \in Nat
  OBVIOUS
<1> HIDE DEF c, d, kv
<1>4. c + headroom \in Nat
  BY <1>1
<1>5. ram >= c + headroom
  BY <1>1, <1>2, <1>4, FirstOfLargest
<1>6. 0 + kv = kv
  BY <1>3
<1> QED BY <1>5, <1>6 DEF c, kv

LEMMA SpillInRam ==
    ASSUME NEW m, NEW vram \in Nat, NEW weights \in Nat, JobKv(m, FALSE, 0) \in Nat, m.minRam \in Nat, NEW headroom \in Nat,
           NEW ram \in Nat, LayerOffloadFits(m, vram, weights, FALSE, ram, headroom)
    PROVE  ram >= GbCeil(Larger(weights - vram, 0) + JobKv(m, FALSE, 0)) + headroom
<1> DEFINE spilled == Larger(weights - vram, 0)
           kv == JobKv(m, FALSE, 0)
           c  == GbCeil(spilled + kv)
           d  == GbCeil(m.minRam)
<1>1. spilled \in Nat
  BY DEF Larger
<1>2. ram >= Larger(c + headroom, d)
  BY DEF LayerOffloadFits
<1>3. kv \in Nat
  OBVIOUS
<1> HIDE DEF spilled, kv
<1>4. c \in Nat /\ d \in Nat
  BY <1>1, <1>3, CeilIsNat
<1> HIDE DEF c, d
<1>5. ram >= c + headroom
  BY <1>2, <1>4 DEF Larger
<1> QED BY <1>5 DEF c, spilled, kv

\* A discrete card takes what does not fit on it from the RAM.
LEMMA CardNeedOfRam ==
    ASSUME NEW m \in CatalogModel, NEW card \in VirtualCard, NEW headroom \in Nat, NEW ram \in Nat,
           ~m.image, card.strategy \in {"single", "vulkan"}, ~KvFitsOnGpu(Half(card.vram), m, FALSE, 0),
           ram >= GbCeil(Larger(GpuWeightsNeed(m, FALSE, 0) - Half(card.vram), 0) + JobKv(m, FALSE, 0)) + headroom
    PROVE  PlacementSysRamNeed(m, card, FALSE, headroom) <= ram
<1> DEFINE spilled == Larger(GpuWeightsNeed(m, FALSE, 0) - Half(card.vram), 0)
           kv == JobKv(m, FALSE, 0)
<1>0. GpuWeightsNeed(m, FALSE, 0) \in Nat /\ kv \in Nat
  BY NeedsAreNats, KvIsNat
<1>1. spilled \in Nat
  <2>1. Half(card.vram) \in Nat
    BY DEF VirtualCard, Half
  <2> QED BY <1>0, <2>1, SpillIsNat
<1>2. PlacementSysRamNeed(m, card, FALSE, headroom) =
         IF spilled + kv = 0 THEN 0 ELSE GbCeil(spilled + kv) + headroom
  BY DEF PlacementSysRamNeed
<1>3. ram >= GbCeil(spilled + kv) + headroom /\ kv \in Nat
  BY <1>0
<1> HIDE DEF spilled, kv
<1>4. (IF spilled + kv = 0 THEN 0 ELSE GbCeil(spilled + kv) + headroom) <= ram
  BY <1>1, <1>3, NeedWithin
<1> QED BY <1>2, <1>4

\* What hosting a text model in the catalog's window takes of a card and of the RAM.
LEMMA HostsMeans ==
    ASSUME NEW m, Chartable(m), ~m.image, NEW card \in VirtualCard, card.strategy \in {"single", "vulkan"},
           card.vram > 0, NEW ram \in Nat, NEW headroom \in Nat, CanHostModel(m, card, ram, headroom, 0)
    PROVE  \/ VramCanGpuFull(Half(card.vram), m, HostingMinVram(m), FALSE, 0)
           \/ /\ Half(card.vram) >= OccupancyMinVram(m)
              /\ PlacementSysRamNeed(m, card, FALSE, headroom) <= ram
<1>1. m \in CatalogModel /\ card.vram \in Nat /\ Half(card.vram) \in Nat /\ Half(card.vram) >= 2
  BY DEF Chartable, VirtualCard, Half
<1>2. /\ m.weight \in Nat /\ m.weight > 0 /\ m.extras \in Nat /\ m.fullVram \in Nat /\ m.weightsVram \in Nat
      /\ m.minRam \in Nat
  BY <1>1, ModelFields DEF Chartable
<1>3. /\ GpuWeightsNeed(m, FALSE, 0) \in Nat /\ JobKv(m, FALSE, 0) \in Nat
      /\ HostingMinVram(m) \in Nat /\ GpuFullHostNeed(m, FALSE, 0) \in Nat
  BY <1>1, NeedsAreNats, KvIsNat
<1>4. OffloadFloor(m.weight) <= m.weight /\ OffloadFloor(m.weight) \in Nat
  BY <1>2 DEF OffloadFloor
<1>5. GpuWeightsNeed(m, FALSE, 0) >= m.weight
  BY <1>2 DEF GpuWeightsNeed, Mmproj, Chartable
<1>6. OccupancyMinVram(m) = Larger(OffloadFloor(m.weight), 2)
  BY <1>2 DEF OccupancyMinVram
<1>7. CASE KvFitsOnGpu(Half(card.vram), m, FALSE, 0)
  <2>1. Half(card.vram) >= GpuFullHostNeed(m, FALSE, 0)
    BY <1>7 DEF KvFitsOnGpu
  <2>2. GpuFullHostNeed(m, FALSE, 0) >= Half(HostingMinVram(m))
    <3>1. KvGb(m, EffectiveJobNCtx(m, 0)) \in Nat
      BY <1>1, KvIsNat
    <3> QED BY <1>2, <1>3, <3>1 DEF GpuFullHostNeed, Larger, Half, Mmproj
  <2>3. Half(HostingMinVram(m)) \in Nat
    BY <1>3 DEF Half
  <2>4. Half(card.vram) >= Half(HostingMinVram(m))
    BY <1>1, <1>3, <2>1, <2>2, <2>3, AtLeastBoth
  <2> QED BY <1>7, <2>4 DEF VramCanGpuFull
<1>8. CASE ~KvFitsOnGpu(Half(card.vram), m, FALSE, 0)
  <2> DEFINE vram == Half(card.vram)
             weights == GpuWeightsNeed(m, FALSE, 0)
  <2>1. \/ vram >= weights /\ ram >= KvRamNeed(m, FALSE, headroom)
        \/ ~(vram >= weights) /\ LayerOffloadFits(m, vram, weights, FALSE, ram, headroom)
    BY <1>8 DEF CanHostModel
  <2>2. CASE vram >= weights /\ ram >= KvRamNeed(m, FALSE, headroom)
    <3>1. ram >= GbCeil(0 + JobKv(m, FALSE, 0)) + headroom
      BY <1>2, <1>3, <2>2, KvInRam
    <3>2. ram >= GbCeil(Larger(weights - vram, 0) + JobKv(m, FALSE, 0)) + headroom
      <4>1. Larger(weights - vram, 0) = 0
        BY <1>1, <1>3, <2>2, NoSpill
      <4> HIDE DEF vram, weights
      <4> QED BY <3>1, <4>1
    <3>3. vram \in Nat /\ weights \in Nat /\ weights >= m.weight /\ vram >= 2
      BY <1>1, <1>3, <1>5
    <3>4. PlacementSysRamNeed(m, card, FALSE, headroom) <= ram
      BY <1>1, <1>3, <1>8, <3>2, CardNeedOfRam
    <3>5. vram >= OccupancyMinVram(m)
      <4> HIDE DEF vram, weights
      <4> QED BY <1>2, <1>4, <1>6, <2>2, <3>3 DEF Larger
    <3> QED BY <3>4, <3>5
  <2>3. CASE ~(vram >= weights) /\ LayerOffloadFits(m, vram, weights, FALSE, ram, headroom)
    <3>1. ram >= GbCeil(Larger(weights - vram, 0) + JobKv(m, FALSE, 0)) + headroom
      BY <1>1, <1>2, <1>3, <2>3, SpillInRam
    <3>2. vram >= OffloadFloor(m.weight)
      BY <1>2, <2>3 DEF LayerOffloadFits
    <3>3. vram \in Nat /\ vram >= 2
      BY <1>1
    <3>4. PlacementSysRamNeed(m, card, FALSE, headroom) <= ram
      BY <1>1, <1>3, <1>8, <3>1, CardNeedOfRam
    <3> HIDE DEF vram
    <3>5. vram >= OccupancyMinVram(m)
      BY <1>4, <1>6, <3>2, <3>3 DEF Larger
    <3> QED BY <3>4, <3>5 DEF vram
  <2> QED BY <2>1, <2>2, <2>3
<1> QED BY <1>7, <1>8

\* What a miss that says busy has seen.
LEMMA BusyMeans ==
    ASSUME NEW v, NEW r, PlacementMiss(v, r) = "agent_busy"
    PROVE  IF r.model.image THEN \E s \in v.plan : ImageSlot(r.model, s)
           ELSE ~r.vision /\ DiscreteNameplateHosts(v, r)
<1>1. PlacementMiss(v, r) = IF r.model.image THEN ImageMiss(v, r) ELSE TextMiss(v, r)
  BY DEF PlacementMiss
<1>2. CASE r.model.image
  <2>1. ImageMiss(v, r) = "agent_busy"
    BY <1>1, <1>2
  <2>2. {s \in v.plan : ImageSlot(r.model, s)} # {}
    BY <2>1 DEF ImageMiss, Those
  <2> QED BY <1>2, <2>2
<1>3. CASE ~r.model.image
  <2>1. TextMiss(v, r) = "agent_busy"
    BY <1>1, <1>3
  <2> QED BY <1>3, <2>1 DEF TextMiss
<1> QED BY <1>2, <1>3

LEMMA BusyIsTrue ==
    ASSUME TypeInv, NEW j \in Job, NEW idle, PlacementMiss(View(idle), Request(j)) = "agent_busy",
           Model(j).image \/ (Request(j).nCtx = 0 /\ \A s \in plan : s.card.strategy # "metal")
    PROVE  PickPlacement(AllFree, Request(j)) # NoPlacement
<1> DEFINE v == AllFree
           w == View(idle)
           r == Request(j)
<1>1. AllFreeFacts(v)
  BY AllFreeIs
<1>2. w.plan = plan /\ w.ram = scene.ram /\ w.headroom = scene.headroom
  BY DEF View
<1>3. IsPlan(v.plan) /\ v.plan = plan /\ IsPlan(plan)
  BY <1>1 DEF AllFreeFacts, TypeInv, MachineOK
<1>4. r.model = Model(j) /\ Chartable(r.model)
  BY JobFacts, DispatchAssumption DEF TypeInv, Model
<1>5. scene.ram \in Nat /\ scene.headroom \in Nat
  BY DispatchAssumption DEF TypeInv, MachineOK, Possible
<1>6. IF r.model.image THEN \E s \in w.plan : ImageSlot(r.model, s)
      ELSE ~r.vision /\ DiscreteNameplateHosts(w, r)
  BY BusyMeans
<1> HIDE DEF v, w, r
<1>7. \A s \in plan : IsIdle(v, s)
  BY <1>1 DEF AllFreeFacts, IsIdle, Ids, SlotIds
<1>8. CASE r.model.image
  <2>1. PICK s \in plan : ImageSlot(r.model, s)
    BY <1>2, <1>6, <1>8
  <2> QED BY <1>3, <1>7, <1>8, <2>1, ImageIsPicked DEF v, r
<1>9. CASE ~r.model.image
  <2>1. PICK s \in plan : /\ Accelerator(s) /\ s.kind # "integrated" /\ Measured(s)
                          /\ Hosts(w, r, s) /\ Sees(r, s.card)
    BY <1>2, <1>6, <1>9 DEF DiscreteNameplateHosts
  <2>2. r.nCtx = 0 /\ s.card.strategy # "metal" /\ ~r.vision
    BY <1>4, <1>6, <1>9 DEF r
  <2>3. /\ s.card \in VirtualCard /\ s.card.strategy \in {"single", "vulkan"} /\ s.card.vram > 0
        /\ s.id \in Ids
    <3>1. SlotShape(s) /\ s.card.vram \in Nat
      BY <1>3 DEF IsPlan, SlotShape, VirtualCard
    <3>2. s.card.strategy \in {"single", "vulkan"} /\ (s.card.strategy = "vulkan" => s.card.vram > 0)
      BY <2>1, <2>2, <3>1 DEF SlotShape, Accelerator
    <3>3. s.card.strategy = "single" => s.card.vram > 1
      BY <2>1, <3>1 DEF Measured, SoftNameplate, SoftDiscreteVram
    <3> QED BY <3>1, <3>2, <3>3 DEF SlotShape, Ids, SlotIds
  <2>4. MayPlace(v, r, s)
    BY <1>7, <2>1 DEF MayPlace
  <2>5. CanHostModel(r.model, s.card, scene.ram, scene.headroom, 0) /\ Hosts(v, r, s)
    BY <1>1, <1>2, <2>1, <2>2 DEF Hosts, AllFreeFacts
  <2>6. SlotAvailable(v, s) = Half(s.card.vram)
    BY <1>1, <2>1, <2>3 DEF AllFreeFacts, SlotAvailable
  <2>7. CASE VramCanGpuFull(Half(s.card.vram), r.model, HostingMinVram(r.model), FALSE, 0)
    <3>1. CanGpuFull(r, SlotAvailable(v, s))
      BY <2>2, <2>6, <2>7, <1>6, <1>9, JobFacts DEF CanGpuFull, MinVramOf, VramCanGpuFull, TypeInv, r
    <3> QED BY <1>3, <1>9, <2>1, <2>4, <2>5, <3>1, FitIsPicked DEF v, r
  <2>8. CASE /\ Half(s.card.vram) >= OccupancyMinVram(r.model)
             /\ PlacementSysRamNeed(r.model, s.card, FALSE, scene.headroom) <= scene.ram
    <3>1. AcceleratorLiveCanPlace(v, r.model, s)
      BY <2>1, <2>6, <2>8 DEF AcceleratorLiveCanPlace
    <3>2. RamFree(v, s) = scene.ram
      BY <1>1, <1>5, <2>3 DEF RamFree, AllFreeFacts
    <3>3. RamNeed(v, r, s) = PlacementSysRamNeed(r.model, s.card, FALSE, scene.headroom)
      <4>1. r.vision = FALSE
        BY <2>2, JobFacts DEF TypeInv, r
      <4> QED BY <1>1, <4>1 DEF RamNeed, AllFreeFacts
    <3> QED BY <1>3, <1>9, <2>2, <2>4, <2>5, <2>8, <3>1, <3>2, <3>3, OffloadIsPicked DEF v, r
  <2> QED BY <1>4, <1>5, <1>9, <2>3, <2>5, <2>7, <2>8, HostsMeans
<1> QED BY <1>8, <1>9

\* The step that tells an unpinned job anything is its placement.
LEMMA BusyStep ==
    ASSUME TypeInv, [Next]_vars, NEW j \in Job, job[j].pc = "new", ~Pinned(j), job'[j].code # job[j].code
    PROVE  Place(j) \/ PlaceImage(j)
<1>1. ASSUME NEW k \in Job, Submit(k) \/ JobStep(k) PROVE Place(j) \/ PlaceImage(j)
  <2>1. CASE Place(k) \/ PlacePinned(k) \/ PlaceImage(k)
    <3>1. k = j
      BY <2>1, ClaimingKeeps
    <3> QED BY <2>1, <3>1 DEF PlacePinned
  <2>2. CASE ~(Place(k) \/ PlacePinned(k) \/ PlaceImage(k))
    <3>1. \/ Submit(k) \/ TakeMisses(k) \/ Take(k) \/ Mark(k) \/ Finish(k) \/ Fail(k)
          \/ TpMisses(k) \/ TpStart(k) \/ TpEnd(k) \/ ImageStart(k) \/ ImageEnd(k)
      BY <1>1, <2>2 DEF JobStep
    <3>2. k = j
      BY <3>1, OthersKept
    <3>3. FALSE
      BY <3>1, <3>2 DEF Submit, TakeMisses, Take, Mark, Finish, Fail, TpMisses, TpStart, TpEnd,
         ImageStart, ImageEnd
    <3> QED BY <3>3
  <2> QED BY <2>1, <2>2
<1>2. job' = job => FALSE
  OBVIOUS
<1>3. ASSUME NEW id \in Ids, AgeReservation(id) \/ EvictSlot(id) \/ Foreign(id) PROVE FALSE
  BY <1>2, <1>3 DEF AgeReservation, EvictSlot, Foreign
<1>4. CASE Pong \/ Heartbeat \/ Schedule \/ GraceEnds \/ WarmStart \/ WarmEnd \/ SmiFails \/ Measure \/ Rebuild
  BY <1>2, <1>4 DEF Pong, Heartbeat, Schedule, GraceEnds, WarmStart, WarmEnd, SmiFails, Measure, Rebuild
<1>5. CASE UNCHANGED vars
  BY <1>2, <1>5 DEF vars
<1> QED BY <1>1, <1>3, <1>4, <1>5 DEF Next

\* A job is told to wait only for a machine that, free, would take it
\* (placement_miss_detail).
THEOREM MissesTrue == Spec => MissIsTrue
<1> DEFINE True == \A j \in Job : /\ job[j].pc = "new" /\ ~Pinned(j) /\ job[j].tries = 0
                                  /\ job'[j].code = "agent_busy"
                                  /\ \/ Model(j).image
                                     \/ Request(j).nCtx = 0 /\ \A s \in plan : s.card.strategy # "metal"
                      => PickPlacement(AllFree, Request(j)) # NoPlacement
<1>1. TypeInv /\ [Next]_vars => True
  <2> SUFFICES ASSUME TypeInv, [Next]_vars, NEW j \in Job, job[j].pc = "new", ~Pinned(j), job[j].tries = 0,
                      job'[j].code = "agent_busy",
                      Model(j).image \/ (Request(j).nCtx = 0 /\ \A s \in plan : s.card.strategy # "metal")
               PROVE  PickPlacement(AllFree, Request(j)) # NoPlacement
    OBVIOUS
  <2>1. job[j].code = NoCode
    BY DEF TypeInv, JobsOK, Ended
  <2>2. job'[j].code # job[j].code
    BY <2>1 DEF NoCode
  <2>3. Place(j) \/ PlaceImage(j)
    BY <2>2, BusyStep
  <2>4. \E idle : PlacementMiss(View(idle), Request(j)) = "agent_busy"
    <3>1. \/ (\E p : job' = ClaimedBy(j, p))
          \/ \E idle : Ends(j, PlacementMiss(View(idle), Request(j)))
      BY <2>3 DEF Place, PlaceImage, Claimed
    <3>2. ASSUME NEW p, job' = ClaimedBy(j, p) PROVE FALSE
      BY <2>1, <3>2 DEF ClaimedBy, TypeInv, JobsOK, Jobs, NoCode
    <3>3. ASSUME NEW idle, Ends(j, PlacementMiss(View(idle), Request(j)))
          PROVE  PlacementMiss(View(idle), Request(j)) = "agent_busy"
      BY <3>3 DEF Ends, TypeInv, JobsOK, Jobs
    <3> QED BY <3>1, <3>2, <3>3
  <2> QED BY <2>4, BusyIsTrue
<1>2. TypeInv /\ [Next]_vars => [True]_vars
  BY <1>1
<1> QED BY <1>2, TypeStarts, TypeSteps, PTL DEF Spec, MissIsTrue
=============================================================================
