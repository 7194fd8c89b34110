----------------------------- MODULE Inventory -----------------------------
(***************************************************************************)
(* GameServer/Inventory.{h,cpp} and Scale::IsOperating: the grids of the   *)
(* players and of the scales of one match. Every operation here runs under *)
(* the mutex of the inventory, or under both mutexes (std::lock) when it   *)
(* concerns two, so each is one step. Match calls them from the IO threads *)
(* (ItemTransfer).                                                         *)
(*                                                                         *)
(* inventorySlots_ holds item ids, which are only ever compared with       *)
(* EMPTY_ITEM_ID; it is the set of the occupied slots here.                *)
(***************************************************************************)
EXTENDS Integers, FiniteSets, FiniteSetsExt

CONSTANTS Items,
          Players, Scales,            (* the two kinds of Inventory        *)
          row_, column_, maxWeight_,  (* of each inventory                 *)
          weight, row, column,        (* of each item                      *)
          operatingWeight_, tolerance_ (* of the scales                    *)

Inventories == Players \cup Scales

ASSUME KindsDiffer == Players \cap Scales = {}
ASSUME GridSizes   == /\ row_ \in [Inventories -> Nat \ {0}]
                      /\ column_ \in [Inventories -> Nat \ {0}]
                      /\ maxWeight_ \in [Inventories -> Nat]
ASSUME ItemSizes   == /\ row \in [Items -> Nat \ {0}]
                      /\ column \in [Items -> Nat \ {0}]
                      /\ weight \in [Items -> Nat]
ASSUME ScaleRange  == operatingWeight_ \in Nat /\ tolerance_ \in Nat

INVALID_TOP_LEFT_INDEX == -1

VARIABLES inventorySlots_, owningItems_, currentWeight_, (* per inventory  *)
          topLeftIndex, bIsRotated                       (* per item       *)

invVars == <<inventorySlots_, owningItems_, currentWeight_, topLeftIndex, bIsRotated>>

Slots(i) == 0 .. row_[i] * column_[i] - 1

InventoryTypeOK ==
    /\ \A i \in Inventories : inventorySlots_[i] \subseteq Slots(i)
    /\ owningItems_ \in [Inventories -> SUBSET Items]
    /\ currentWeight_ \in [Inventories -> Nat]
    /\ topLeftIndex \in [Items -> Nat \cup {INVALID_TOP_LEFT_INDEX}]
    /\ bIsRotated \in [Items -> BOOLEAN]

InventoryInit ==
    /\ inventorySlots_ = [i \in Inventories |-> {}]
    /\ owningItems_ = [i \in Inventories |-> {}]
    /\ currentWeight_ = [i \in Inventories |-> 0]
    /\ topLeftIndex = [k \in Items |-> INVALID_TOP_LEFT_INDEX]
    /\ bIsRotated = [k \in Items |-> FALSE]

-----------------------------------------------------------------------------
\* The points an item covers with its top left corner at a slot.
IndexToPoint(i, index) == [x |-> index % column_[i], y |-> index \div column_[i]]
PointToIndex(i, point) == point.x + point.y * column_[i]

Cover(i, k, slotIndex, rotated) ==
    LET tile == IndexToPoint(i, slotIndex)
        sizeX == IF rotated THEN row[k] ELSE column[k]
        sizeY == IF rotated THEN column[k] ELSE row[k]
    IN {[x |-> tile.x + dx, y |-> tile.y + dy] : dx \in 0 .. sizeX - 1, dy \in 0 .. sizeY - 1}

CoveredSlots(i, k, slotIndex, rotated) ==
    {PointToIndex(i, point) : point \in Cover(i, k, slotIndex, rotated)}

\* Mutant: only the top left tile is looked at.
CheckCorner(slots, i, k, slotIndex, rotated) ==
    slotIndex \in Slots(i) \ slots

\* A negative slot has a negative coordinate, whichever way the division of
\* IndexToPoint rounds.
CheckValidSlot(slots, i, k, slotIndex, rotated) ==
    /\ slotIndex >= 0
    /\ \A point \in Cover(i, k, slotIndex, rotated) :
          /\ point.x < column_[i] /\ point.y < row_[i]
          /\ PointToIndex(i, point) \notin slots

\* Mutant: the weight of the new item is not added.
CheckWeightBefore(i, k) == currentWeight_[i] <= maxWeight_[i]

CheckWeightLimit(i, k) == weight[k] + currentWeight_[i] <= maxWeight_[i]

\* Only scales can be operated.
IsOperating(i) ==
    /\ i \in Scales
    /\ operatingWeight_ - tolerance_ <= currentWeight_[i]
    /\ currentWeight_[i] <= operatingWeight_ + tolerance_

-----------------------------------------------------------------------------
\* TryAddItem scans the slots in order and tries each unrotated first.
Fits(i, k) == {s \in Slots(i) : \E rotated \in BOOLEAN :
                                   CheckValidSlot(inventorySlots_[i], i, k, s, rotated)}

TryAddResult(i, k) ==
    IF k \in owningItems_[i] THEN "ALREADY_HAVE"
    ELSE IF ~CheckWeightLimit(i, k) THEN "EXCEEDING_WEIGHT_LIMITS"
    ELSE IF Fits(i, k) = {} THEN "ALREADY_HAVE"
    ELSE "SUCCESS"

TryAddItem(i, k) ==
    IF TryAddResult(i, k) = "SUCCESS"
    THEN LET slotIndex == Min(Fits(i, k))
             rotated == ~CheckValidSlot(inventorySlots_[i], i, k, slotIndex, FALSE)
         IN /\ topLeftIndex' = [topLeftIndex EXCEPT ![k] = slotIndex]
            /\ bIsRotated' = [bIsRotated EXCEPT ![k] = rotated]
            /\ inventorySlots_' =
                  [inventorySlots_ EXCEPT ![i] = @ \cup CoveredSlots(i, k, slotIndex, rotated)]
            /\ owningItems_' = [owningItems_ EXCEPT ![i] = @ \cup {k}]
            /\ currentWeight_' = [currentWeight_ EXCEPT ![i] = @ + weight[k]]
    ELSE UNCHANGED invVars

\* What PickUpItem leaves in the grid.
Without(i, k) == inventorySlots_[i] \ CoveredSlots(i, k, topLeftIndex[k], bIsRotated[k])

PickUpItem(i, k) ==
    /\ inventorySlots_' = [inventorySlots_ EXCEPT ![i] = Without(i, k)]
    /\ owningItems_' = [owningItems_ EXCEPT ![i] = @ \ {k}]
    /\ currentWeight_' = [currentWeight_ EXCEPT ![i] = @ - weight[k]]

\* The weight limit of `to` is compared after PickUpItem: when from = to the
\* item's own weight is out of the sum.
FitsWeight(from, to, k) ==
    IF from = to THEN currentWeight_[to] <= maxWeight_[to] ELSE CheckWeightLimit(to, k)

\* Mutant: an operated scale still takes items.
RelocateUnlocked(from, to, k, slotIndex, rotated) ==
    LET slots == IF from = to THEN Without(from, k) ELSE inventorySlots_[to]
    IN IF k \notin owningItems_[from] THEN "FROM_DOES_NOT_HAVE"
       ELSE IF ~CheckValidSlot(slots, to, k, slotIndex, rotated) THEN "TO_NO_EMPTY_SPACE"
       ELSE IF ~FitsWeight(from, to, k) THEN "TO_EXCEEDING_WEIGHT_LIMITS"
       ELSE "SUCCESS"

RelocateResult(from, to, k, slotIndex, rotated) ==
    LET slots == IF from = to THEN Without(from, k) ELSE inventorySlots_[to]
    IN IF IsOperating(to) THEN "ALREADY_SCALE_OPERATED"
       ELSE IF k \notin owningItems_[from] THEN "FROM_DOES_NOT_HAVE"
       ELSE IF ~CheckValidSlot(slots, to, k, slotIndex, rotated) THEN "TO_NO_EMPTY_SPACE"
       ELSE IF ~FitsWeight(from, to, k) THEN "TO_EXCEEDING_WEIGHT_LIMITS"
       ELSE "SUCCESS"

\* A full `to` gets nothing and `from` takes the item back where it was; when
\* `to` cannot bear the weight the item is picked up and put nowhere.
RelocateItem(from, to, k, slotIndex, rotated) ==
    LET result == RelocateResult(from, to, k, slotIndex, rotated) IN
    \/ /\ result = "SUCCESS"
       /\ topLeftIndex' = [topLeftIndex EXCEPT ![k] = slotIndex]
       /\ bIsRotated' = [bIsRotated EXCEPT ![k] = rotated]
       /\ inventorySlots_' = [inventorySlots_ EXCEPT
             ![from] = Without(from, k),
             ![to] = (IF from = to THEN Without(from, k) ELSE @)
                     \cup CoveredSlots(to, k, slotIndex, rotated)]
       /\ owningItems_' = [owningItems_ EXCEPT ![from] = @ \ {k}, ![to] = @ \cup {k}]
       /\ currentWeight_' = [currentWeight_ EXCEPT ![from] = @ - weight[k],
                                                   ![to] = @ + weight[k]]
    \/ /\ result = "TO_EXCEEDING_WEIGHT_LIMITS"
       /\ PickUpItem(from, k)
       /\ UNCHANGED <<topLeftIndex, bIsRotated>>
    \/ /\ result \in {"ALREADY_SCALE_OPERATED", "FROM_DOES_NOT_HAVE", "TO_NO_EMPTY_SPACE"}
       /\ UNCHANGED invVars

DropResult(i, k) == IF k \in owningItems_[i] THEN "SUCCESS" ELSE "DO_NOT_HAVE"

\* Mutant: the item is dropped whether it is owned or not.
DropAnyway(i, k) ==
    /\ PickUpItem(i, k)
    /\ topLeftIndex' = [topLeftIndex EXCEPT ![k] = INVALID_TOP_LEFT_INDEX]
    /\ bIsRotated' = [bIsRotated EXCEPT ![k] = FALSE]

DropItem(i, k) ==
    IF DropResult(i, k) = "SUCCESS"
    THEN /\ PickUpItem(i, k)
         /\ topLeftIndex' = [topLeftIndex EXCEPT ![k] = INVALID_TOP_LEFT_INDEX]
         /\ bIsRotated' = [bIsRotated EXCEPT ![k] = FALSE]
    ELSE UNCHANGED invVars

-----------------------------------------------------------------------------
\* inventorySlots_ is exactly the disjoint union of the items' rectangles:
\* no two items overlap, and no slot stays occupied after its item has left.
GridExact == \A i \in Inventories :
    LET area(k) == CoveredSlots(i, k, topLeftIndex[k], bIsRotated[k]) IN
    /\ inventorySlots_[i] = UNION {area(k) : k \in owningItems_[i]}
    /\ \A k, l \in owningItems_[i] : k # l => area(k) \cap area(l) = {}

\* currentWeight_ is the weight of the owned items, within the limit.
WeightExact == \A i \in Inventories :
    /\ currentWeight_[i] = MapThenSumSet(LAMBDA k : weight[k], owningItems_[i])
    /\ currentWeight_[i] <= maxWeight_[i]
=============================================================================
