--------------------------- MODULE InventoryProofs ---------------------------
(***************************************************************************)
(* Lemmas about the operators of Inventory, for any items, inventories,    *)
(* grids, sizes and weights; ItemTransferProofs builds on them. The first  *)
(* part is the sum of the weights of a finite set of items, the second the *)
(* slots of an item in a grid.                                             *)
(***************************************************************************)
EXTENDS Inventory, FiniteSetTheorems, FunctionTheorems, WellFoundedInduction, TLAPS

Total(S) == MapThenSumSet(LAMBDA k : weight[k], S)

\* The equation that the fold over the subsets of S solves.
Sums(S, g) ==
    g = [T \in SUBSET S |-> IF T = {} THEN 0
                            ELSE LET k == CHOOSE k \in T : TRUE IN weight[k] + g[T \ {k}]]

\* As many units as the items of S weigh: their number is a solution.
Units(S) == UNION {{k} \X (1 .. weight[k]) : k \in S}

LEMMA TotalSums ==
    ASSUME NEW S
    PROVE  Total(S) = (CHOOSE g : Sums(S, g))[S]
BY DEF Total, MapThenSumSet, MapThenFoldSet, Sums

LEMMA ItemUnits ==
    ASSUME NEW k \in Items
    PROVE  /\ IsFiniteSet({k} \X (1 .. weight[k]))
           /\ Cardinality({k} \X (1 .. weight[k])) = weight[k]
<1>1. PICK n \in Nat : n = weight[k]
    BY ItemSizes
<1>2. IsFiniteSet(1 .. n) /\ Cardinality(1 .. n) = n
  <2>1. IsFiniteSet(1 .. n) /\ Cardinality(1 .. n) = IF 1 > n THEN 0 ELSE n - 1 + 1
      BY FS_Interval
  <2> QED BY <2>1
<1>3. IsFiniteSet({k}) /\ Cardinality({k}) = 1
    BY FS_Singleton
<1>4. /\ IsFiniteSet({k} \X (1 .. n))
      /\ Cardinality({k} \X (1 .. n)) = Cardinality({k}) * Cardinality(1 .. n)
    BY <1>2, <1>3, FS_Product
<1> QED BY <1>1, <1>2, <1>3, <1>4

LEMMA UnitsFinite ==
    ASSUME NEW S \in SUBSET Items, IsFiniteSet(S)
    PROVE  IsFiniteSet(Units(S)) /\ Cardinality(Units(S)) \in Nat
<1> DEFINE f == [k \in S |-> {k} \X (1 .. weight[k])]
           U == {{k} \X (1 .. weight[k]) : k \in S}
<1>1. f \in Surjection(S, U)
    BY DEF Surjection
<1>2. IsFiniteSet(U)
    BY <1>1, FS_Surjection
<1>3. \A T \in U : IsFiniteSet(T)
    BY ItemUnits
<1>4. IsFiniteSet(UNION U)
    BY <1>2, <1>3, FS_UNION
<1> QED BY <1>4, FS_CardinalityType DEF Units

\* One item more weighs its weight more.
LEMMA UnitsAdd ==
    ASSUME NEW S \in SUBSET Items, IsFiniteSet(S), NEW k \in Items, k \notin S
    PROVE  Cardinality(Units(S \cup {k})) = Cardinality(Units(S)) + weight[k]
<1> DEFINE V == {k} \X (1 .. weight[k])
<1>1. Units(S \cup {k}) = Units(S) \cup V
    BY DEF Units
<1>2. Units(S) \cap V = {}
    BY DEF Units
<1>3. IsFiniteSet(V) /\ Cardinality(V) = weight[k]
    BY ItemUnits
<1>4. IsFiniteSet(Units(S)) /\ Cardinality(Units(S)) \in Nat
    BY UnitsFinite
<1> HIDE DEF V
<1>5. Cardinality(Units(S) \cup V) =
         Cardinality(Units(S)) + Cardinality(V) - Cardinality(Units(S) \cap V)
    BY <1>3, <1>4, FS_Union
<1>6. Cardinality(Units(S) \cap V) = 0
    BY <1>2, FS_EmptySet
<1>7. PICK n \in Nat, w \in Nat : n = Cardinality(Units(S)) /\ w = weight[k]
    BY <1>4, ItemSizes
<1>8. Cardinality(Units(S) \cup V) = n + w - 0
    BY <1>3, <1>5, <1>6, <1>7
<1>9. n + w - 0 = n + w
    OBVIOUS
<1> QED BY <1>1, <1>7, <1>8, <1>9

LEMMA UnitsSolve ==
    ASSUME NEW S \in SUBSET Items, IsFiniteSet(S)
    PROVE  Sums(S, [T \in SUBSET S |-> Cardinality(Units(T))])
<1> DEFINE h == [T \in SUBSET S |-> Cardinality(Units(T))]
           Step(T) == IF T = {} THEN 0
                      ELSE LET k == CHOOSE k \in T : TRUE IN weight[k] + h[T \ {k}]
<1>1. ASSUME NEW T \in SUBSET S PROVE Cardinality(Units(T)) = Step(T)
  <2>1. CASE T = {}
    <3>1. Units(T) = {}
        BY <2>1 DEF Units
    <3> QED BY <2>1, <3>1, FS_EmptySet
  <2>2. CASE T # {}
    <3>1. PICK k \in T : k = CHOOSE j \in T : TRUE
        BY <2>2
    <3>2. IsFiniteSet(T \ {k}) /\ T \ {k} \in SUBSET Items
      <4>1. T \ {k} \in SUBSET S
          OBVIOUS
      <4> QED BY <4>1, FS_Subset
    <3>3. Cardinality(Units((T \ {k}) \cup {k})) = Cardinality(Units(T \ {k})) + weight[k]
        BY <3>2, UnitsAdd
    <3>4. (T \ {k}) \cup {k} = T
        OBVIOUS
    <3>5. PICK n \in Nat, w \in Nat : n = Cardinality(Units(T \ {k})) /\ w = weight[k]
        BY <3>2, UnitsFinite, ItemSizes
    <3>6. n + w = w + n
        OBVIOUS
    <3>7. Cardinality(Units(T)) = weight[k] + Cardinality(Units(T \ {k}))
        BY <3>3, <3>4, <3>5, <3>6
    <3>8. h[T \ {k}] = Cardinality(Units(T \ {k}))
        OBVIOUS
    <3> QED BY <2>2, <3>1, <3>7, <3>8
  <2> QED BY <2>1, <2>2
<1>2. h = [T \in SUBSET S |-> Step(T)]
    BY <1>1
<1> QED BY <1>2 DEF Sums

\* The fold is that number: no subset is a smallest one where they differ.
LEMMA TotalIsUnits ==
    ASSUME NEW S \in SUBSET Items, IsFiniteSet(S)
    PROVE  Total(S) = Cardinality(Units(S))
<1> DEFINE f == CHOOSE g : Sums(S, g)
           h == [T \in SUBSET S |-> Cardinality(Units(T))]
           Wrong == {T \in SUBSET S : f[T] # h[T]}
<1>1. Sums(S, h)
    BY UnitsSolve
<1>2. Sums(S, f)
    BY <1>1
<1>3. Wrong = {}
  <2> SUFFICES ASSUME Wrong # {} PROVE FALSE
      OBVIOUS
  <2>1. PICK T \in Wrong : \A U \in Wrong : ~ (<<U, T>> \in StrictSubsetOrdering(S))
    <3>1. IsWellFoundedOn(StrictSubsetOrdering(S), SUBSET S)
        BY FS_StrictSubsetOrderingWellFounded, FS_FiniteSubsetsOfFinite
    <3>2. Wrong \subseteq SUBSET S
        OBVIOUS
    <3> HIDE DEF Wrong
    <3> QED BY <3>1, <3>2, WFMin
  <2>2. T \in SUBSET S /\ f[T] # h[T]
      OBVIOUS
  <2> HIDE DEF f, h
  <2>3. CASE T = {}
      BY <1>1, <1>2, <2>2, <2>3 DEF Sums
  <2>4. CASE T # {}
    <3>1. PICK k \in T : k = CHOOSE j \in T : TRUE
        BY <2>4
    <3>2. T \ {k} \in SUBSET S /\ T \ {k} # T
        BY <2>2
    <3>3. f[T] = weight[k] + f[T \ {k}] /\ h[T] = weight[k] + h[T \ {k}]
        BY <1>1, <1>2, <2>2, <2>4, <3>1 DEF Sums
    <3>4. f[T \ {k}] # h[T \ {k}]
        BY <2>2, <3>3
    <3>5. <<T \ {k}, T>> \in StrictSubsetOrdering(S)
        BY <2>2, <3>2 DEF StrictSubsetOrdering
    <3>6. T \ {k} \in Wrong
        BY <3>2, <3>4
    <3> HIDE DEF Wrong
    <3> QED BY <2>1, <3>5, <3>6
  <2> QED BY <2>3, <2>4
<1>4. f[S] = h[S]
    BY <1>3
<1>5. Total(S) = f[S]
    BY TotalSums
<1> QED BY <1>4, <1>5

\* The sum of the weights of no item, and of one item more or less.
LEMMA TotalEmpty == Total({}) = 0
<1>1. IsFiniteSet({}) /\ Cardinality({}) = 0
    BY FS_EmptySet
<1>2. Units({}) = {}
    BY DEF Units
<1> QED BY <1>1, <1>2, TotalIsUnits

LEMMA TotalAdd ==
    ASSUME NEW S \in SUBSET Items, IsFiniteSet(S), NEW k \in Items, k \notin S
    PROVE  /\ IsFiniteSet(S \cup {k}) /\ Total(S) \in Nat
           /\ Total(S \cup {k}) = Total(S) + weight[k]
<1>1. IsFiniteSet(S \cup {k}) /\ S \cup {k} \in SUBSET Items
    BY FS_AddElement
<1> QED BY <1>1, TotalIsUnits, UnitsFinite, UnitsAdd

LEMMA TotalRemove ==
    ASSUME NEW S \in SUBSET Items, IsFiniteSet(S), NEW k \in S
    PROVE  /\ IsFiniteSet(S \ {k}) /\ Total(S \ {k}) \in Nat
           /\ Total(S) = Total(S \ {k}) + weight[k]
<1>1. IsFiniteSet(S \ {k}) /\ S \ {k} \in SUBSET Items /\ k \notin S \ {k}
    BY FS_RemoveElement
<1>2. Total((S \ {k}) \cup {k}) = Total(S \ {k}) + weight[k] /\ Total(S \ {k}) \in Nat
    BY <1>1, TotalAdd
<1>3. (S \ {k}) \cup {k} = S
    OBVIOUS
<1> QED BY <1>1, <1>2, <1>3

-----------------------------------------------------------------------------
(* The slots of an item.                                                   *)

LEMMA MinIn ==
    ASSUME NEW S \in SUBSET Nat, S # {}
    PROVE  Min(S) \in S
<1>1. PICK m \in S : \A y \in S : ~ (<<y, m>> \in OpToRel(<, Nat))
    BY NatLessThanWellFounded, WFMin
<1>2. ASSUME NEW y \in S, y < m PROVE FALSE
  <2>1. <<y, m>> \in Nat \X Nat /\ y < m
      BY <1>2
  <2>2. <<y, m>> \in OpToRel(<, Nat)
      BY <2>1, Zenon DEF OpToRel
  <2> QED BY <1>1, <2>2
<1>3. \A y \in S : m <= y
    BY <1>2
<1> QED BY <1>3 DEF Min

\* The rectangle of an item that CheckValidSlot accepts lies in the grid.
LEMMA CoverInside ==
    ASSUME NEW i \in Inventories, NEW k \in Items, NEW s \in Int, NEW rotated \in BOOLEAN,
           NEW slots, CheckValidSlot(slots, i, k, s, rotated)
    PROVE  /\ s \in Nat
           /\ CoveredSlots(i, k, s, rotated) \subseteq Slots(i)
           /\ CoveredSlots(i, k, s, rotated) \cap slots = {}
<1>1. s \in Nat
    BY DEF CheckValidSlot
<1>2. PICK c \in Nat \ {0}, r \in Nat \ {0} : c = column_[i] /\ r = row_[i]
    BY GridSizes
<1>3. PICK x0 \in Nat, y0 \in Nat : x0 = s % c /\ y0 = s \div c
    BY <1>1
<1>4. PICK w \in Nat, h \in Nat : /\ w = (IF rotated THEN row[k] ELSE column[k])
                                  /\ h = (IF rotated THEN column[k] ELSE row[k])
    BY ItemSizes
<1>5. ASSUME NEW p \in Cover(i, k, s, rotated)
      PROVE  p.x \in Nat /\ p.y \in Nat /\ p.x < c /\ p.y < r /\ PointToIndex(i, p) \notin slots
  <2>1. PICK dx \in 0 .. w - 1, dy \in 0 .. h - 1 : p = [x |-> x0 + dx, y |-> y0 + dy]
      BY <1>2, <1>3, <1>4 DEF Cover, IndexToPoint
  <2>2. p.x < column_[i] /\ p.y < row_[i] /\ PointToIndex(i, p) \notin slots
      BY DEF CheckValidSlot
  <2> QED BY <1>2, <2>1, <2>2
<1>6. ASSUME NEW x \in Nat, NEW y \in Nat, x < c, y < r
      PROVE  x + y * c \in 0 .. r * c - 1
  <2>1. y * c \in Nat /\ r * c \in Nat /\ (r - 1) * c = r * c - c
      BY <1>2
  <2>2. y * c <= (r - 1) * c
    <3>1. PICK d \in Nat : r - 1 = y + d
        BY <1>6
    <3>2. (y + d) * c = y * c + d * c /\ d * c \in Nat
        OBVIOUS
    <3> QED BY <2>1, <3>1, <3>2
  <2> QED BY <1>6, <2>1, <2>2
<1>7. ASSUME NEW p \in Cover(i, k, s, rotated) PROVE PointToIndex(i, p) \in Slots(i)
    BY <1>2, <1>5, <1>6 DEF PointToIndex, Slots
<1> QED BY <1>1, <1>5, <1>7 DEF CoveredSlots

\* What GridExact says of one inventory.
GridOf(i, slots, owned, corner, turned) ==
    /\ slots = UNION {CoveredSlots(i, k, corner[k], turned[k]) : k \in owned}
    /\ \A k, l \in owned : k # l =>
          CoveredSlots(i, k, corner[k], turned[k]) \cap CoveredSlots(i, l, corner[l], turned[l]) = {}

LEMMA GridRemove ==
    ASSUME NEW i, NEW slots, NEW owned, NEW corner, NEW turned, NEW k \in owned,
           GridOf(i, slots, owned, corner, turned)
    PROVE  GridOf(i, slots \ CoveredSlots(i, k, corner[k], turned[k]), owned \ {k}, corner, turned)
<1> DEFINE area(l) == CoveredSlots(i, l, corner[l], turned[l])
<1>1. slots = UNION {area(l) : l \in owned}
    BY DEF GridOf
<1>2. \A l, m \in owned : l # m => area(l) \cap area(m) = {}
    BY DEF GridOf
<1> HIDE DEF area
<1>3. slots \ area(k) = UNION {area(l) : l \in owned \ {k}}
    BY <1>1, <1>2
<1> USE DEF area
<1> QED BY <1>2, <1>3 DEF GridOf

\* An item that is not in the grid may be anywhere else.
LEMMA GridSame ==
    ASSUME NEW i, NEW slots, NEW owned \in SUBSET Items, NEW k \in Items, k \notin owned,
           NEW corner, NEW turned, NEW corner2, NEW turned2,
           \A l \in Items : l # k => corner2[l] = corner[l] /\ turned2[l] = turned[l],
           GridOf(i, slots, owned, corner, turned)
    PROVE  GridOf(i, slots, owned, corner2, turned2)
<1>1. \A l \in owned : corner2[l] = corner[l] /\ turned2[l] = turned[l]
    OBVIOUS
<1> QED BY <1>1 DEF GridOf

LEMMA GridAdd ==
    ASSUME NEW i, NEW slots, NEW owned \in SUBSET Items, NEW k \in Items, k \notin owned,
           NEW corner, NEW turned,
           GridOf(i, slots, owned, corner, turned),
           CoveredSlots(i, k, corner[k], turned[k]) \cap slots = {}
    PROVE  GridOf(i, slots \cup CoveredSlots(i, k, corner[k], turned[k]), owned \cup {k},
                  corner, turned)
<1> DEFINE area(l) == CoveredSlots(i, l, corner[l], turned[l])
<1>1. slots = UNION {area(l) : l \in owned}
    BY DEF GridOf
<1>2. \A l, m \in owned : l # m => area(l) \cap area(m) = {}
    BY DEF GridOf
<1>3. area(k) \cap slots = {}
    OBVIOUS
<1> HIDE DEF area
<1>4. slots \cup area(k) = UNION {area(l) : l \in owned \cup {k}}
    BY <1>1
<1>5. \A l \in owned : area(l) \subseteq slots
    BY <1>1
<1>6. \A l, m \in owned \cup {k} : l # m => area(l) \cap area(m) = {}
    BY <1>2, <1>3, <1>5
<1> USE DEF area
<1> QED BY <1>4, <1>6 DEF GridOf

-----------------------------------------------------------------------------
(* One inventory: its slots, its items, their weight, and where they are.  *)

Sound(i, slots, owned, heavy, corner, turned) ==
    /\ slots \subseteq Slots(i)
    /\ owned \subseteq Items /\ IsFiniteSet(owned)
    /\ GridOf(i, slots, owned, corner, turned)
    /\ heavy \in Nat /\ heavy = Total(owned) /\ heavy <= maxWeight_[i]

LEMMA SoundRemove ==
    ASSUME NEW i \in Inventories, NEW slots, NEW owned, NEW heavy, NEW corner, NEW turned,
           NEW k \in owned, Sound(i, slots, owned, heavy, corner, turned)
    PROVE  Sound(i, slots \ CoveredSlots(i, k, corner[k], turned[k]), owned \ {k},
                 heavy - weight[k], corner, turned)
<1>1. /\ IsFiniteSet(owned \ {k}) /\ Total(owned \ {k}) \in Nat
      /\ Total(owned) = Total(owned \ {k}) + weight[k]
    BY TotalRemove DEF Sound
<1>2. PICK n \in Nat, w \in Nat, m \in Nat :
          n = Total(owned \ {k}) /\ w = weight[k] /\ m = maxWeight_[i]
    BY <1>1, ItemSizes, GridSizes DEF Sound
<1>3. heavy = n + w /\ n + w <= m
    BY <1>1, <1>2 DEF Sound
<1>4. heavy - weight[k] = n /\ n <= m
    BY <1>2, <1>3
<1> QED BY <1>1, <1>2, <1>4, GridRemove DEF Sound

LEMMA SoundSame ==
    ASSUME NEW i, NEW slots, NEW owned, NEW heavy, NEW k \in Items, k \notin owned,
           NEW corner, NEW turned, NEW corner2, NEW turned2,
           \A l \in Items : l # k => corner2[l] = corner[l] /\ turned2[l] = turned[l],
           Sound(i, slots, owned, heavy, corner, turned)
    PROVE  Sound(i, slots, owned, heavy, corner2, turned2)
BY GridSame DEF Sound

LEMMA SoundAdd ==
    ASSUME NEW i \in Inventories, NEW slots, NEW owned, NEW heavy, NEW corner, NEW turned,
           NEW k \in Items, k \notin owned, Sound(i, slots, owned, heavy, corner, turned),
           CoveredSlots(i, k, corner[k], turned[k]) \subseteq Slots(i),
           CoveredSlots(i, k, corner[k], turned[k]) \cap slots = {},
           weight[k] + heavy <= maxWeight_[i]
    PROVE  Sound(i, slots \cup CoveredSlots(i, k, corner[k], turned[k]), owned \cup {k},
                 heavy + weight[k], corner, turned)
<1>1. IsFiniteSet(owned \cup {k}) /\ Total(owned \cup {k}) = Total(owned) + weight[k]
    BY TotalAdd DEF Sound
<1>2. PICK n \in Nat, w \in Nat, m \in Nat : n = heavy /\ w = weight[k] /\ m = maxWeight_[i]
    BY ItemSizes, GridSizes DEF Sound
<1>3. n + w \in Nat /\ n + w <= m
    BY <1>2
<1>4. GridOf(i, slots \cup CoveredSlots(i, k, corner[k], turned[k]), owned \cup {k},
             corner, turned)
    BY GridAdd DEF Sound
<1> QED BY <1>1, <1>2, <1>3, <1>4 DEF Sound

-----------------------------------------------------------------------------
(* All inventories, and what the operations do to them.                    *)

InventoryInv ==
    /\ inventorySlots_ \in [Inventories -> SUBSET Int]
    /\ owningItems_ \in [Inventories -> SUBSET Items]
    /\ currentWeight_ \in [Inventories -> Nat]
    /\ topLeftIndex \in [Items -> Nat \cup {INVALID_TOP_LEFT_INDEX}]
    /\ bIsRotated \in [Items -> BOOLEAN]
    /\ \A i \in Inventories : Sound(i, inventorySlots_[i], owningItems_[i], currentWeight_[i],
                                     topLeftIndex, bIsRotated)

\* The inventories are typed, their grids exact and their weights exact.
LEMMA InventorySafe ==
    ASSUME InventoryInv
    PROVE  InventoryTypeOK /\ GridExact /\ WeightExact
<1>1. InventoryTypeOK
    BY DEF InventoryInv, InventoryTypeOK, Sound
<1>2. GridExact
    BY DEF InventoryInv, GridExact, Sound, GridOf
<1>3. WeightExact
    BY DEF InventoryInv, WeightExact, Sound, Total
<1> QED BY <1>1, <1>2, <1>3

LEMMA InventoryInitInv == InventoryInit => InventoryInv
<1> SUFFICES ASSUME InventoryInit PROVE InventoryInv
    OBVIOUS
<1>1. ASSUME NEW i \in Inventories
      PROVE  Sound(i, {}, {}, 0, topLeftIndex, bIsRotated)
  <2>1. GridOf(i, {}, {}, topLeftIndex, bIsRotated)
      BY DEF GridOf
  <2>2. 0 <= maxWeight_[i]
      BY GridSizes
  <2> QED BY <2>1, <2>2, TotalEmpty, FS_EmptySet DEF Sound
<1> QED BY <1>1 DEF InventoryInit, InventoryInv

LEMMA TryAddSound ==
    ASSUME InventoryInv, NEW i \in Inventories, NEW k \in Items,
           \A j \in Inventories : k \notin owningItems_[j], TryAddItem(i, k)
    PROVE  InventoryInv'
<1>1. CASE TryAddResult(i, k) # "SUCCESS"
    BY <1>1 DEF TryAddItem, invVars, InventoryInv
<1>2. CASE TryAddResult(i, k) = "SUCCESS"
  <2> DEFINE s == Min(Fits(i, k))
             rotated == ~CheckValidSlot(inventorySlots_[i], i, k, s, FALSE)
             covered == CoveredSlots(i, k, s, rotated)
  <2>1. /\ topLeftIndex' = [topLeftIndex EXCEPT ![k] = s]
        /\ bIsRotated' = [bIsRotated EXCEPT ![k] = rotated]
        /\ inventorySlots_' = [inventorySlots_ EXCEPT ![i] = @ \cup covered]
        /\ owningItems_' = [owningItems_ EXCEPT ![i] = @ \cup {k}]
        /\ currentWeight_' = [currentWeight_ EXCEPT ![i] = @ + weight[k]]
      BY <1>2 DEF TryAddItem
  <2>2. s \in Slots(i) /\ s \in Nat /\ CheckValidSlot(inventorySlots_[i], i, k, s, rotated)
    <3>1. Fits(i, k) # {} /\ Fits(i, k) \subseteq Nat /\ Fits(i, k) \subseteq Slots(i)
        BY <1>2 DEF TryAddResult, Fits, Slots
    <3>2. s \in Fits(i, k)
        BY <3>1, MinIn
    <3>3. PICK r \in BOOLEAN : CheckValidSlot(inventorySlots_[i], i, k, s, r)
        BY <3>2 DEF Fits
    <3>4. r = TRUE \/ r = FALSE
        OBVIOUS
    <3>5. CASE rotated
      <4>1. CheckValidSlot(inventorySlots_[i], i, k, s, TRUE)
          BY <3>3, <3>4, <3>5
      <4>2. rotated = TRUE
          BY <3>5
      <4> QED BY <3>1, <3>2, <4>1, <4>2
    <3>6. CASE ~rotated
      <4>1. CheckValidSlot(inventorySlots_[i], i, k, s, FALSE)
          BY <3>6
      <4>2. rotated = FALSE
          BY <3>6
      <4> QED BY <3>1, <3>2, <4>1, <4>2
    <3> QED BY <3>5, <3>6
  <2>3. rotated \in BOOLEAN
      OBVIOUS
  <2> HIDE DEF s, rotated
  <2>4. covered \subseteq Slots(i) /\ covered \cap inventorySlots_[i] = {}
      BY <2>2, <2>3, CoverInside
  <2>5. /\ topLeftIndex'[k] = s /\ bIsRotated'[k] = rotated
        /\ \A l \in Items : l # k => /\ topLeftIndex'[l] = topLeftIndex[l]
                                     /\ bIsRotated'[l] = bIsRotated[l]
      BY <2>1 DEF InventoryInv
  <2>6. ASSUME NEW j \in Inventories
        PROVE  Sound(j, inventorySlots_[j], owningItems_[j], currentWeight_[j],
                     topLeftIndex', bIsRotated')
    <3>1. Sound(j, inventorySlots_[j], owningItems_[j], currentWeight_[j], topLeftIndex, bIsRotated)
        BY DEF InventoryInv
    <3> QED BY <2>5, <3>1, SoundSame
  <2>7. weight[k] + currentWeight_[i] <= maxWeight_[i]
      BY <1>2 DEF TryAddResult, CheckWeightLimit
  <2>8. Sound(i, inventorySlots_[i] \cup covered, owningItems_[i] \cup {k},
              currentWeight_[i] + weight[k], topLeftIndex', bIsRotated')
      BY <2>4, <2>5, <2>6, <2>7, SoundAdd
  <2>9. \A j \in Inventories : Sound(j, inventorySlots_'[j], owningItems_'[j],
                                     currentWeight_'[j], topLeftIndex', bIsRotated')
    <3> TAKE j \in Inventories
    <3>1. CASE j = i
        BY <2>1, <2>8, <3>1 DEF InventoryInv
    <3>2. CASE j # i
        BY <2>1, <2>6, <3>2 DEF InventoryInv
    <3> QED BY <3>1, <3>2
  <2>10. currentWeight_[i] + weight[k] \in Nat /\ covered \subseteq Int
      BY <2>4, <2>8 DEF Sound, Slots
  <2> HIDE DEF covered
  <2> QED BY <2>1, <2>2, <2>3, <2>9, <2>10 DEF InventoryInv
<1> QED BY <1>1, <1>2

\* What is left of an inventory when an item is picked up.
LEMMA PickUpSound ==
    ASSUME InventoryInv, NEW i \in Inventories, NEW k \in owningItems_[i], PickUpItem(i, k)
    PROVE  /\ inventorySlots_' \in [Inventories -> SUBSET Int]
           /\ owningItems_' \in [Inventories -> SUBSET Items]
           /\ currentWeight_' \in [Inventories -> Nat]
           /\ k \notin owningItems_'[i]
           /\ \A j \in Inventories : owningItems_'[j] \subseteq owningItems_[j]
           /\ \A j \in Inventories : Sound(j, inventorySlots_'[j], owningItems_'[j],
                                           currentWeight_'[j], topLeftIndex, bIsRotated)
<1>1. \A j \in Inventories : Sound(j, inventorySlots_[j], owningItems_[j], currentWeight_[j],
                                  topLeftIndex, bIsRotated)
    BY DEF InventoryInv
<1>2. Sound(i, Without(i, k), owningItems_[i] \ {k}, currentWeight_[i] - weight[k],
            topLeftIndex, bIsRotated)
    BY <1>1, SoundRemove DEF Without
<1>3. currentWeight_[i] - weight[k] \in Nat /\ Without(i, k) \subseteq Int
    BY <1>2 DEF Sound, Slots
<1>4. /\ inventorySlots_' = [inventorySlots_ EXCEPT ![i] = Without(i, k)]
      /\ owningItems_' = [owningItems_ EXCEPT ![i] = @ \ {k}]
      /\ currentWeight_' = [currentWeight_ EXCEPT ![i] = @ - weight[k]]
    BY DEF PickUpItem
<1>5. ASSUME NEW j \in Inventories
      PROVE  Sound(j, inventorySlots_'[j], owningItems_'[j], currentWeight_'[j],
                   topLeftIndex, bIsRotated)
  <2>1. CASE j = i
      BY <1>2, <1>4, <2>1 DEF InventoryInv
  <2>2. CASE j # i
      BY <1>1, <1>4, <2>2 DEF InventoryInv
  <2> QED BY <2>1, <2>2
<1> QED BY <1>3, <1>4, <1>5 DEF InventoryInv

LEMMA DropSound ==
    ASSUME InventoryInv, NEW i \in Inventories, NEW k \in Items,
           \A j \in Inventories : k \in owningItems_[j] => j = i, DropItem(i, k)
    PROVE  InventoryInv'
<1>1. CASE k \notin owningItems_[i]
    BY <1>1 DEF DropItem, DropResult, invVars, InventoryInv
<1>2. CASE k \in owningItems_[i]
  <2>1. /\ PickUpItem(i, k)
        /\ topLeftIndex' = [topLeftIndex EXCEPT ![k] = INVALID_TOP_LEFT_INDEX]
        /\ bIsRotated' = [bIsRotated EXCEPT ![k] = FALSE]
      BY <1>2 DEF DropItem, DropResult
  <2>2. /\ inventorySlots_' \in [Inventories -> SUBSET Int]
        /\ owningItems_' \in [Inventories -> SUBSET Items]
        /\ currentWeight_' \in [Inventories -> Nat]
        /\ k \notin owningItems_'[i]
        /\ \A j \in Inventories : owningItems_'[j] \subseteq owningItems_[j]
        /\ \A j \in Inventories : Sound(j, inventorySlots_'[j], owningItems_'[j],
                                        currentWeight_'[j], topLeftIndex, bIsRotated)
      BY <1>2, <2>1, PickUpSound
  <2>3. \A l \in Items : l # k => /\ topLeftIndex'[l] = topLeftIndex[l]
                                 /\ bIsRotated'[l] = bIsRotated[l]
      BY <2>1 DEF InventoryInv
  <2>4. \A j \in Inventories : k \notin owningItems_'[j]
      BY <2>2
  <2>5. \A j \in Inventories : Sound(j, inventorySlots_'[j], owningItems_'[j],
                                     currentWeight_'[j], topLeftIndex', bIsRotated')
      BY <2>2, <2>3, <2>4, SoundSame
  <2>6. /\ topLeftIndex' \in [Items -> Nat \cup {INVALID_TOP_LEFT_INDEX}]
        /\ bIsRotated' \in [Items -> BOOLEAN]
      BY <2>1 DEF InventoryInv
  <2> QED BY <2>2, <2>5, <2>6 DEF InventoryInv
<1> QED BY <1>1, <1>2

LEMMA RelocateSound ==
    ASSUME InventoryInv, NEW from \in Inventories, NEW to \in Inventories, NEW k \in Items,
           NEW s \in Int, NEW rotated \in BOOLEAN,
           \A j \in Inventories : k \in owningItems_[j] => j = from,
           RelocateItem(from, to, k, s, rotated)
    PROVE  InventoryInv'
<1> DEFINE result == RelocateResult(from, to, k, s, rotated)
<1>1. CASE result \in {"ALREADY_SCALE_OPERATED", "FROM_DOES_NOT_HAVE", "TO_NO_EMPTY_SPACE"}
    BY <1>1 DEF RelocateItem, invVars, InventoryInv
<1>2. CASE result = "TO_EXCEEDING_WEIGHT_LIMITS"
  <2>1. k \in owningItems_[from]
      BY <1>2 DEF RelocateResult
  <2>2. PickUpItem(from, k) /\ UNCHANGED <<topLeftIndex, bIsRotated>>
      BY <1>2 DEF RelocateItem
  <2> QED BY <2>1, <2>2, PickUpSound DEF InventoryInv
<1>3. CASE result = "SUCCESS"
  <2> DEFINE covered == CoveredSlots(to, k, s, rotated)
             left == IF from = to THEN Without(from, k) ELSE inventorySlots_[to]
  <2>1. /\ topLeftIndex' = [topLeftIndex EXCEPT ![k] = s]
        /\ bIsRotated' = [bIsRotated EXCEPT ![k] = rotated]
        /\ inventorySlots_' = [inventorySlots_ EXCEPT
              ![from] = Without(from, k),
              ![to] = (IF from = to THEN Without(from, k) ELSE @) \cup covered]
        /\ owningItems_' = [owningItems_ EXCEPT ![from] = @ \ {k}, ![to] = @ \cup {k}]
        /\ currentWeight_' = [currentWeight_ EXCEPT ![from] = @ - weight[k],
                                                    ![to] = @ + weight[k]]
      BY <1>3 DEF RelocateItem
  <2>2. /\ k \in owningItems_[from] /\ CheckValidSlot(left, to, k, s, rotated)
        /\ FitsWeight(from, to, k)
      BY <1>3 DEF RelocateResult
  <2>3. s \in Nat /\ covered \subseteq Slots(to) /\ covered \cap left = {}
      BY <2>2, CoverInside
  <2>4. \A j \in Inventories : Sound(j, inventorySlots_[j], owningItems_[j], currentWeight_[j],
                                    topLeftIndex, bIsRotated)
      BY DEF InventoryInv
  <2>5. Sound(from, Without(from, k), owningItems_[from] \ {k},
              currentWeight_[from] - weight[k], topLeftIndex, bIsRotated)
      BY <2>2, <2>4, SoundRemove DEF Without
  <2>6. /\ topLeftIndex'[k] = s /\ bIsRotated'[k] = rotated
        /\ \A l \in Items : l # k => /\ topLeftIndex'[l] = topLeftIndex[l]
                                     /\ bIsRotated'[l] = bIsRotated[l]
      BY <2>1 DEF InventoryInv
  <2>7. Sound(from, Without(from, k), owningItems_[from] \ {k},
              currentWeight_[from] - weight[k], topLeftIndex', bIsRotated')
      BY <2>5, <2>6, SoundSame
  <2>8. ASSUME NEW j \in Inventories, j # from
        PROVE  Sound(j, inventorySlots_[j], owningItems_[j], currentWeight_[j],
                     topLeftIndex', bIsRotated')
    <3>1. k \notin owningItems_[j]
        BY <2>8
    <3> QED BY <2>4, <2>6, <3>1, SoundSame
  <2>9. PICK n \in Nat, w \in Nat : n = currentWeight_[from] /\ w = weight[k]
      BY ItemSizes DEF InventoryInv
  <2>10. \A j \in Inventories : Sound(j, inventorySlots_'[j], owningItems_'[j],
                                      currentWeight_'[j], topLeftIndex', bIsRotated')
    <3>1. CASE from = to
      <4>1. currentWeight_[from] <= maxWeight_[from]
          BY <2>4 DEF Sound
      <4>2. weight[k] + (currentWeight_[from] - weight[k]) <= maxWeight_[from]
          BY <2>9, <4>1
      <4>3. Sound(from, Without(from, k) \cup covered, (owningItems_[from] \ {k}) \cup {k},
                  currentWeight_[from] - weight[k] + weight[k], topLeftIndex', bIsRotated')
          BY <2>3, <2>6, <2>7, <3>1, <4>2, SoundAdd
      <4>4. TAKE j \in Inventories
      <4>5. CASE j = from
          BY <2>1, <3>1, <4>3, <4>5 DEF InventoryInv
      <4>6. CASE j # from
          BY <2>1, <2>8, <3>1, <4>6 DEF InventoryInv
      <4> QED BY <4>5, <4>6
    <3>2. CASE from # to
      <4>1. weight[k] + currentWeight_[to] <= maxWeight_[to]
          BY <2>2, <3>2 DEF FitsWeight, CheckWeightLimit
      <4>2. k \notin owningItems_[to]
          BY <3>2
      <4>3. Sound(to, inventorySlots_[to] \cup covered, owningItems_[to] \cup {k},
                  currentWeight_[to] + weight[k], topLeftIndex', bIsRotated')
          BY <2>3, <2>6, <2>8, <3>2, <4>1, <4>2, SoundAdd
      <4>4. TAKE j \in Inventories
      <4>5. CASE j = from
          BY <2>1, <2>7, <3>2, <4>5 DEF InventoryInv
      <4>6. CASE j = to
          BY <2>1, <3>2, <4>3, <4>6 DEF InventoryInv
      <4>7. CASE j # from /\ j # to
          BY <2>1, <2>8, <4>7 DEF InventoryInv
      <4> QED BY <4>5, <4>6, <4>7
    <3> QED BY <3>1, <3>2
  <2>11. \A j \in Inventories : /\ inventorySlots_'[j] \subseteq Int
                               /\ owningItems_'[j] \subseteq Items /\ currentWeight_'[j] \in Nat
      BY <2>10 DEF Sound, Slots
  <2>12. /\ DOMAIN inventorySlots_' = Inventories /\ DOMAIN owningItems_' = Inventories
         /\ DOMAIN currentWeight_' = Inventories
      BY <2>1 DEF InventoryInv
  <2> HIDE DEF covered
  <2>13. /\ topLeftIndex' \in [Items -> Nat \cup {INVALID_TOP_LEFT_INDEX}]
         /\ bIsRotated' \in [Items -> BOOLEAN]
      BY <2>1, <2>3 DEF InventoryInv
  <2>14. /\ inventorySlots_' \in [Inventories -> SUBSET Int]
         /\ owningItems_' \in [Inventories -> SUBSET Items]
         /\ currentWeight_' \in [Inventories -> Nat]
      BY <2>1, <2>11, <2>12 DEF InventoryInv
  <2> QED BY <2>10, <2>13, <2>14 DEF InventoryInv
<1> QED BY <1>1, <1>2, <1>3 DEF RelocateItem
=============================================================================
