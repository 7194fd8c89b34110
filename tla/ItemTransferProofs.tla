------------------------- MODULE ItemTransferProofs -------------------------
(***************************************************************************)
(* Theorems about ItemTransfer, for any sets of items, players and scales  *)
(* and any grids, weights and sizes. The ownerFlag protocol does not       *)
(* depend on where an item fits, so neither does its invariant: of the     *)
(* inventories it speaks of owningItems_ only. What the inventories hold   *)
(* does depend on the protocol: InventoryProofs says what one operation    *)
(* does on an item that is in no other inventory.                          *)
(***************************************************************************)
EXTENDS ItemTransfer, InventoryProofs

Working == {"tryAdd", "relocate", "drop", "store"}

\* The types the protocol relies on. A handler past its first step has an
\* item, and PlayerMoveItem has two inventories.
TransferType ==
    /\ owningItems_ \in [Inventories -> SUBSET Items]
    /\ ownerFlag \in [Items -> [handler : Players \cup {Nobody}, owner : Owners]]
    /\ pc \in [Players -> {"idle", "tryAdd", "relocate", "dropCas", "drop", "store"}]
    /\ req \in [Players -> Request]
    /\ next \in [Players -> Owners]
    /\ \A p \in Players :
          /\ pc[p] # "idle" => req[p].item \in Items
          /\ pc[p] = "relocate" => req[p].from \in Inventories /\ req[p].to \in Inventories

\* What a handler knows of the owner from its compare-and-exchange on.
OwnerKnown == \A p \in Players :
    /\ pc[p] = "tryAdd" => ownerFlag[req[p].item].owner = Nobody
    /\ pc[p] = "relocate" => ownerFlag[req[p].item].owner = req[p].from
    /\ pc[p] = "drop" => ownerFlag[req[p].item].owner = p

\* HolderIsRecorded without its CHOOSE: whoever is storing an owner stores the
\* inventory that holds the item.
Held == \A k \in Items, i \in Inventories :
    k \in owningItems_[i] =>
        /\ \A p \in Players : Storing(p, k) => next[p] = i
        /\ (\A p \in Players : ~Storing(p, k)) => ownerFlag[k].owner = i

\* The inductive invariant.
IInv == TransferType /\ HandleExact /\ OwnerKnown /\ Held

-----------------------------------------------------------------------------
(* What the operations of Inventory do to owningItems_.                    *)

LEMMA TryAddOwning ==
    ASSUME NEW i, NEW k, TryAddItem(i, k)
    PROVE  owningItems_' = IF TryAddResult(i, k) = "SUCCESS"
                           THEN [owningItems_ EXCEPT ![i] = @ \cup {k}]
                           ELSE owningItems_
BY DEF TryAddItem, invVars

LEMMA DropOwning ==
    ASSUME NEW i, NEW k, DropItem(i, k)
    PROVE  owningItems_' = IF DropResult(i, k) = "SUCCESS"
                           THEN [owningItems_ EXCEPT ![i] = @ \ {k}]
                           ELSE owningItems_
BY DEF DropItem, PickUpItem, invVars

LEMMA RelocateOwning ==
    ASSUME NEW from, NEW to, NEW k, NEW slot, NEW rotated,
           RelocateItem(from, to, k, slot, rotated)
    PROVE  \/ /\ RelocateResult(from, to, k, slot, rotated) = "SUCCESS"
              /\ owningItems_' = [owningItems_ EXCEPT ![from] = @ \ {k}, ![to] = @ \cup {k}]
           \/ /\ RelocateResult(from, to, k, slot, rotated) # "SUCCESS"
              /\ owningItems_' \in {owningItems_, [owningItems_ EXCEPT ![from] = @ \ {k}]}
BY DEF RelocateItem, PickUpItem, invVars

-----------------------------------------------------------------------------
LEMMA InitIInv == Init => IInv
<1> SUFFICES ASSUME Init PROVE IInv
    OBVIOUS
<1> USE DEF Init, InventoryInit
<1>1. TransferType
    BY DEF TransferType, Request, NoRequest, EMPTY_OWNER, Flag, Owners
<1>2. HandleExact
    BY NobodyFresh DEF HandleExact, Claims, EMPTY_OWNER, Flag, Inventories
<1>3. OwnerKnown /\ Held
    BY DEF OwnerKnown, Held
<1> QED BY <1>1, <1>2, <1>3 DEF IInv

\* The types are kept by every step of a handler.
LEMMA TypeStep == IInv /\ [Next]_vars => TransferType'
<1> SUFFICES ASSUME IInv, [Next]_vars PROVE TransferType'
    OBVIOUS
<1> USE DEF IInv, TransferType
<1>1. ASSUME NEW p \in Players, NEW k \in Items, PickUp(p, k) PROVE TransferType'
    BY <1>1 DEF PickUp, Claim, Request, invVars
<1>2. ASSUME NEW p \in Players, TryAdd(p) PROVE TransferType'
  <2>1. owningItems_' \in [Inventories -> SUBSET Items]
    BY <1>2, TryAddOwning DEF TryAdd
  <2> QED BY <1>2, <2>1 DEF TryAdd, Decide, Owners, Inventories
<1>3. ASSUME NEW p \in Players, NEW k \in Items, NEW from \in Inventories,
             NEW to \in Inventories, NEW slot \in TargetSlots, NEW rotated \in BOOLEAN,
             Move(p, k, from, to, slot, rotated)
      PROVE  TransferType'
    BY <1>3 DEF Move, Claim, Request, Owners, invVars
<1>4. ASSUME NEW p \in Players, Relocate(p) PROVE TransferType'
  <2>1. owningItems_' \in [Inventories -> SUBSET Items]
    BY <1>4, RelocateOwning DEF Relocate
  <2> QED BY <1>4, <2>1 DEF Relocate, Decide, Owners
<1>5. ASSUME NEW p \in Players, NEW k \in Items, DropLoad(p, k) PROVE TransferType'
    BY <1>5 DEF DropLoad, Request, invVars
<1>6. ASSUME NEW p \in Players, DropCas(p) PROVE TransferType'
    BY <1>6 DEF DropCas, Claim, invVars
<1>7. ASSUME NEW p \in Players, DropCasFails(p) PROVE TransferType'
    BY <1>7 DEF DropCasFails, Request, NoRequest, Owners, invVars
<1>8. ASSUME NEW p \in Players, Drop(p) PROVE TransferType'
  <2>1. owningItems_' \in [Inventories -> SUBSET Items]
    BY <1>8, DropOwning DEF Drop
  <2> QED BY <1>8, <2>1 DEF Drop, Decide, Owners, Request
<1>9. ASSUME NEW p \in Players, Store(p) PROVE TransferType'
    BY <1>9 DEF Store, Flag, Request, NoRequest, Owners, invVars
<1>10. CASE UNCHANGED vars
    BY <1>10 DEF vars, invVars
<1> QED BY <1>1, <1>2, <1>3, <1>4, <1>5, <1>6, <1>7, <1>8, <1>9, <1>10 DEF Next, Handle

-----------------------------------------------------------------------------
\* Working on an item, one is its handler, so nobody else works on it.
LEMMA OneHandler ==
    ASSUME IInv, NEW p \in Players, pc[p] \in Working
    PROVE  /\ req[p].item \in Items
           /\ ownerFlag[req[p].item].handler = p
           /\ \A q \in Players : q # p => ~Claims(q, req[p].item)
<1>1. req[p].item \in Items
    BY DEF IInv, TransferType, Working
<1>2. Claims(p, req[p].item)
    BY DEF Claims, Working
<1>3. ownerFlag[req[p].item].handler = p
    BY <1>1, <1>2 DEF IInv, HandleExact
<1>4. \A q \in Players : q # p => ~Claims(q, req[p].item)
    BY <1>1, <1>3 DEF IInv, HandleExact
<1> QED BY <1>1, <1>3, <1>4

\* A successful compare-and-exchange finds an item nobody works on.
LEMMA ClaimFree ==
    ASSUME IInv, NEW p \in Players, NEW k \in Items, NEW owner,
           Claim(p, k, Flag(Nobody, owner))
    PROVE  /\ \A q \in Players : ~Claims(q, k)
           /\ ownerFlag[k].owner = owner
           /\ \A l \in Items : ownerFlag'[l] = IF l = k THEN Flag(p, owner) ELSE ownerFlag[l]
           /\ \A l \in Items : ownerFlag'[l].owner = ownerFlag[l].owner
<1>1. ownerFlag[k].handler = Nobody /\ ownerFlag[k].owner = owner
    BY DEF Claim, Flag
<1>2. Nobody \notin Players
    BY NobodyFresh DEF Inventories
<1>3. \A q \in Players : ~Claims(q, k)
    BY <1>1, <1>2 DEF IInv, HandleExact
<1>4. \A l \in Items : ownerFlag'[l] = IF l = k THEN Flag(p, owner) ELSE ownerFlag[l]
    BY <1>1 DEF Claim, Flag, IInv, TransferType
<1>5. \A l \in Items : ownerFlag'[l].owner = ownerFlag[l].owner
    BY DEF Claim, IInv, TransferType
<1> QED BY <1>1, <1>3, <1>4, <1>5

\* The handler in the flag is the player working on the item.
LEMMA HandleStep == IInv /\ [Next]_vars => HandleExact'
<1> SUFFICES ASSUME IInv, [Next]_vars PROVE HandleExact'
    OBVIOUS
<1>0. TransferType /\ HandleExact
    BY DEF IInv
<1>1. ASSUME NEW p \in Players, NEW k \in Items, PickUp(p, k) PROVE HandleExact'
  <2>1. /\ \A q \in Players : ~Claims(q, k)
        /\ \A l \in Items : ownerFlag'[l] = IF l = k THEN Flag(p, Nobody) ELSE ownerFlag[l]
    BY <1>1, ClaimFree DEF PickUp, EMPTY_OWNER
  <2>2. \A l \in Items, q \in Players :
           Claims(q, l)' <=> IF q = p THEN l = k ELSE Claims(q, l)
    BY <1>0, <1>1 DEF PickUp, Claims, TransferType, Request
  <2>3. \A l \in Items : ~Claims(p, l)
    BY <1>1 DEF PickUp, Claims
  <2> QED BY <1>0, <2>1, <2>2, <2>3 DEF HandleExact, Flag
<1>2. ASSUME NEW p \in Players, NEW k \in Items, NEW from \in Inventories,
             NEW to \in Inventories, NEW slot \in TargetSlots, NEW rotated \in BOOLEAN,
             Move(p, k, from, to, slot, rotated)
      PROVE  HandleExact'
  <2>1. /\ \A q \in Players : ~Claims(q, k)
        /\ \A l \in Items : ownerFlag'[l] = IF l = k THEN Flag(p, from) ELSE ownerFlag[l]
    BY <1>2, ClaimFree DEF Move
  <2>2. \A l \in Items, q \in Players :
           Claims(q, l)' <=> IF q = p THEN l = k ELSE Claims(q, l)
    BY <1>0, <1>2 DEF Move, Claims, TransferType
  <2>3. \A l \in Items : ~Claims(p, l)
    BY <1>2 DEF Move, Claims
  <2> QED BY <1>0, <2>1, <2>2, <2>3 DEF HandleExact, Flag
<1>3. ASSUME NEW p \in Players, TryAdd(p) \/ Relocate(p) \/ Drop(p) PROVE HandleExact'
  <2>1. \A l \in Items, q \in Players : Claims(q, l)' <=> Claims(q, l)
    BY <1>0, <1>3 DEF TryAdd, Relocate, Drop, Decide, Claims, TransferType
  <2>2. ownerFlag' = ownerFlag
    BY <1>3 DEF TryAdd, Relocate, Drop
  <2> QED BY <1>0, <2>1, <2>2 DEF HandleExact
<1>4. ASSUME NEW p \in Players, NEW k \in Items, DropLoad(p, k) PROVE HandleExact'
  <2>1. \A l \in Items, q \in Players : Claims(q, l)' <=> Claims(q, l)
    BY <1>0, <1>4 DEF DropLoad, Claims, TransferType
  <2> QED BY <1>0, <1>4, <2>1 DEF HandleExact, DropLoad
<1>5. ASSUME NEW p \in Players, DropCas(p) PROVE HandleExact'
  <2> DEFINE k == req[p].item
  <2>0. k \in Items
    BY <1>0, <1>5 DEF DropCas, TransferType
  <2>1. /\ \A q \in Players : ~Claims(q, k)
        /\ \A l \in Items : ownerFlag'[l] = IF l = k THEN Flag(p, p) ELSE ownerFlag[l]
    BY <1>5, <2>0, ClaimFree DEF DropCas
  <2>2. \A l \in Items, q \in Players :
           Claims(q, l)' <=> IF q = p THEN l = k ELSE Claims(q, l)
    BY <1>0, <1>5 DEF DropCas, Claims, TransferType
  <2>3. \A l \in Items : ~Claims(p, l)
    BY <1>5 DEF DropCas, Claims
  <2> QED BY <1>0, <2>1, <2>2, <2>3 DEF HandleExact, Flag
<1>6. ASSUME NEW p \in Players, DropCasFails(p) PROVE HandleExact'
  <2>1. \A l \in Items, q \in Players : Claims(q, l)' <=> Claims(q, l)
    BY <1>0, <1>6 DEF DropCasFails, Claims, TransferType
  <2> QED BY <1>0, <1>6, <2>1 DEF HandleExact, DropCasFails
<1>7. ASSUME NEW p \in Players, Store(p) PROVE HandleExact'
  <2> DEFINE k == req[p].item
  <2>1. k \in Items /\ \A q \in Players : q # p => ~Claims(q, k)
    BY <1>7, OneHandler DEF Store, Working
  <2>2. \A l \in Items :
           ownerFlag'[l] = IF l = k THEN Flag(Nobody, next[p]) ELSE ownerFlag[l]
    BY <1>0, <1>7 DEF Store, TransferType
  <2>3. \A l \in Items, q \in Players : Claims(q, l)' <=> q # p /\ Claims(q, l)
    BY <1>0, <1>7 DEF Store, Claims, TransferType
  <2>4. \A l \in Items : Claims(p, l) <=> l = k
    BY <1>7 DEF Store, Claims
  <2>5. Nobody \notin Players
    BY NobodyFresh DEF Inventories
  <2> QED BY <1>0, <2>1, <2>2, <2>3, <2>4, <2>5 DEF HandleExact, Flag
<1>8. CASE UNCHANGED vars
    BY <1>0, <1>8 DEF vars, HandleExact, Claims
<1> QED BY <1>1, <1>2, <1>3, <1>4, <1>5, <1>6, <1>7, <1>8 DEF Next, Handle

-----------------------------------------------------------------------------
\* A handler that is past its compare-and-exchange keeps knowing the owner.
LEMMA OwnerStep == IInv /\ [Next]_vars => OwnerKnown'
<1> SUFFICES ASSUME IInv, [Next]_vars PROVE OwnerKnown'
    OBVIOUS
<1>0. TransferType /\ OwnerKnown
    BY DEF IInv
<1>1. ASSUME NEW p \in Players, NEW k \in Items, PickUp(p, k) PROVE OwnerKnown'
  <2>1. /\ ownerFlag[k].owner = Nobody
        /\ \A l \in Items : ownerFlag'[l].owner = ownerFlag[l].owner
    BY <1>1, ClaimFree DEF PickUp, EMPTY_OWNER
  <2>2. /\ pc'[p] = "tryAdd" /\ req'[p].item = k
        /\ \A q \in Players : q # p => pc'[q] = pc[q] /\ req'[q] = req[q]
    BY <1>0, <1>1 DEF PickUp, TransferType, Request
  <2> QED BY <1>0, <2>1, <2>2 DEF OwnerKnown, TransferType
<1>2. ASSUME NEW p \in Players, NEW k \in Items, NEW from \in Inventories,
             NEW to \in Inventories, NEW slot \in TargetSlots, NEW rotated \in BOOLEAN,
             Move(p, k, from, to, slot, rotated)
      PROVE  OwnerKnown'
  <2>1. /\ ownerFlag[k].owner = from
        /\ \A l \in Items : ownerFlag'[l].owner = ownerFlag[l].owner
    BY <1>2, ClaimFree DEF Move
  <2>2. /\ pc'[p] = "relocate" /\ req'[p].item = k /\ req'[p].from = from
        /\ \A q \in Players : q # p => pc'[q] = pc[q] /\ req'[q] = req[q]
    BY <1>0, <1>2 DEF Move, TransferType
  <2> QED BY <1>0, <2>1, <2>2 DEF OwnerKnown, TransferType
<1>3. ASSUME NEW p \in Players, TryAdd(p) \/ Relocate(p) \/ Drop(p) PROVE OwnerKnown'
    BY <1>0, <1>3 DEF TryAdd, Relocate, Drop, Decide, OwnerKnown, TransferType
<1>4. ASSUME NEW p \in Players, NEW k \in Items, DropLoad(p, k) PROVE OwnerKnown'
    BY <1>0, <1>4 DEF DropLoad, OwnerKnown, TransferType
<1>5. ASSUME NEW p \in Players, DropCas(p) PROVE OwnerKnown'
  <2>0. req[p].item \in Items
    BY <1>0, <1>5 DEF DropCas, TransferType
  <2>1. /\ ownerFlag[req[p].item].owner = p
        /\ \A l \in Items : ownerFlag'[l].owner = ownerFlag[l].owner
    BY <1>5, <2>0, ClaimFree DEF DropCas
  <2>2. /\ pc'[p] = "drop" /\ req' = req
        /\ \A q \in Players : q # p => pc'[q] = pc[q]
    BY <1>0, <1>5 DEF DropCas, TransferType
  <2>3. ASSUME NEW q \in Players, q # p, pc[q] \in Working
        PROVE  ownerFlag'[req[q].item].owner = ownerFlag[req[q].item].owner
    BY <2>1, <2>3, OneHandler
  <2> QED BY <1>0, <2>0, <2>1, <2>2, <2>3 DEF OwnerKnown, Working
<1>6. ASSUME NEW p \in Players, DropCasFails(p) PROVE OwnerKnown'
    BY <1>0, <1>6 DEF DropCasFails, OwnerKnown, TransferType
<1>7. ASSUME NEW p \in Players, Store(p) PROVE OwnerKnown'
  <2>1. ASSUME NEW q \in Players, q # p, pc[q] \in Working
        PROVE  ownerFlag'[req[q].item].owner = ownerFlag[req[q].item].owner
    <3>1. req[q].item # req[p].item
      BY <1>7, <2>1, OneHandler DEF Store, Claims, Working
    <3> QED BY <1>0, <1>7, <3>1 DEF Store, TransferType, Working
  <2>2. /\ pc'[p] = "idle"
        /\ \A q \in Players : q # p => pc'[q] = pc[q] /\ req'[q] = req[q]
    BY <1>0, <1>7 DEF Store, TransferType
  <2> QED BY <1>0, <2>1, <2>2 DEF OwnerKnown, Working
<1>8. CASE UNCHANGED vars
    BY <1>0, <1>8 DEF vars, OwnerKnown
<1> QED BY <1>1, <1>2, <1>3, <1>4, <1>5, <1>6, <1>7, <1>8 DEF Next, Handle

-----------------------------------------------------------------------------
\* The handler of an item at an inventory operation is about to store, and
\* nobody else is: Held only asks where the item is after the operation.
LEMMA OperationHeld ==
    ASSUME IInv, NEW p \in Players, pc[p] \in {"tryAdd", "relocate", "drop"},
           pc' = [pc EXCEPT ![p] = "store"], req' = req, ownerFlag' = ownerFlag,
           \A q \in Players : q # p => next'[q] = next[q],
           \A l \in Items, i \in Inventories :
              l # req[p].item => (l \in owningItems_'[i] <=> l \in owningItems_[i]),
           \A i \in Inventories : req[p].item \in owningItems_'[i] => next'[p] = i
    PROVE  Held'
<1> DEFINE k == req[p].item
<1>1. k \in Items /\ \A q \in Players : q # p => ~Storing(q, k)
    BY OneHandler DEF Working, Claims, Storing
<1>2. \A l \in Items, q \in Players :
         Storing(q, l)' <=> IF q = p THEN l = k ELSE Storing(q, l)
    BY DEF Storing, IInv, TransferType
<1>3. \A l \in Items : ~Storing(p, l)
    BY DEF Storing
<1>4. ASSUME NEW i \in Inventories, k \in owningItems_'[i]
      PROVE  /\ \A q \in Players : Storing(q, k)' => next'[q] = i
             /\ ~ \A q \in Players : ~Storing(q, k)'
    BY <1>1, <1>2, <1>4
<1>5. ASSUME NEW l \in Items, l # k, NEW i \in Inventories, l \in owningItems_'[i]
      PROVE  /\ \A q \in Players : Storing(q, l)' => next'[q] = i
             /\ (\A q \in Players : ~Storing(q, l)') => ownerFlag'[l].owner = i
  <2>1. l \in owningItems_[i]
    BY <1>5
  <2>2. /\ \A q \in Players : Storing(q, l) => next[q] = i
        /\ (\A q \in Players : ~Storing(q, l)) => ownerFlag[l].owner = i
    BY <2>1 DEF IInv, Held
  <2>3. \A q \in Players : Storing(q, l)' <=> Storing(q, l)
    BY <1>2, <1>3, <1>5
  <2> QED BY <2>2, <2>3, <1>3
<1> QED BY <1>1, <1>4, <1>5 DEF Held

\* Before the operation, the item lies at most where its handler knows.
LEMMA HolderKnown ==
    ASSUME IInv, NEW p \in Players, pc[p] \in {"tryAdd", "relocate", "drop"},
           NEW i \in Inventories, req[p].item \in owningItems_[i]
    PROVE  ownerFlag[req[p].item].owner = i
<1>1. req[p].item \in Items /\ \A q \in Players : ~Storing(q, req[p].item)
    BY OneHandler DEF Working, Claims, Storing
<1> QED BY <1>1 DEF IInv, Held

LEMMA HeldStep == IInv /\ [Next]_vars => Held'
<1> SUFFICES ASSUME IInv, [Next]_vars PROVE Held'
    OBVIOUS
<1>0. TransferType /\ OwnerKnown /\ Held
    BY DEF IInv
<1>1. ASSUME NEW p \in Players, TryAdd(p) PROVE Held'
  <2> DEFINE k == req[p].item
  <2>1. \A i \in Inventories : k \notin owningItems_[i]
    BY <1>0, <1>1, HolderKnown, NobodyFresh DEF TryAdd, OwnerKnown
  <2>2. owningItems_' = IF TryAddResult(p, k) = "SUCCESS"
                        THEN [owningItems_ EXCEPT ![p] = @ \cup {k}] ELSE owningItems_
    BY <1>1, TryAddOwning DEF TryAdd
  <2>3. /\ next'[p] = IF TryAddResult(p, k) = "SUCCESS" THEN p ELSE Nobody
        /\ \A q \in Players : q # p => next'[q] = next[q]
    BY <1>0, <1>1 DEF TryAdd, Decide, TransferType
  <2>4. \A l \in Items, i \in Inventories :
           l # k => (l \in owningItems_'[i] <=> l \in owningItems_[i])
    BY <1>0, <2>2 DEF TransferType
  <2>5. \A i \in Inventories : k \in owningItems_'[i] => next'[p] = i
    BY <1>0, <2>1, <2>2, <2>3 DEF TransferType
  <2> QED BY <1>1, <2>3, <2>4, <2>5, OperationHeld DEF TryAdd, Decide
<1>2. ASSUME NEW p \in Players, Relocate(p) PROVE Held'
  <2> DEFINE k == req[p].item
             from == req[p].from
             to == req[p].to
             result == RelocateResult(from, to, k, req[p].slot, req[p].rotated)
  <2>1. /\ from \in Inventories /\ to \in Inventories
        /\ \A i \in Inventories : k \in owningItems_[i] => i = from
    BY <1>0, <1>2, HolderKnown DEF Relocate, OwnerKnown, TransferType
  <2>2. \/ /\ result = "SUCCESS"
           /\ owningItems_' = [owningItems_ EXCEPT ![from] = @ \ {k}, ![to] = @ \cup {k}]
        \/ /\ result # "SUCCESS"
           /\ owningItems_' \in {owningItems_, [owningItems_ EXCEPT ![from] = @ \ {k}]}
    BY <1>2, RelocateOwning DEF Relocate
  <2>3. /\ next'[p] = IF result = "SUCCESS" THEN to ELSE from
        /\ \A q \in Players : q # p => next'[q] = next[q]
    BY <1>0, <1>2 DEF Relocate, Decide, TransferType
  <2>4. \A l \in Items, i \in Inventories :
           l # k => (l \in owningItems_'[i] <=> l \in owningItems_[i])
    BY <1>0, <2>1, <2>2 DEF TransferType
  <2>5. \A i \in Inventories : k \in owningItems_'[i] => next'[p] = i
    BY <1>0, <2>1, <2>2, <2>3 DEF TransferType
  <2> QED BY <1>2, <2>3, <2>4, <2>5, OperationHeld DEF Relocate, Decide
<1>3. ASSUME NEW p \in Players, Drop(p) PROVE Held'
  <2> DEFINE k == req[p].item
  <2>1. \A i \in Inventories : k \in owningItems_[i] => i = p
    BY <1>0, <1>3, HolderKnown DEF Drop, OwnerKnown
  <2>2. owningItems_' = IF DropResult(p, k) = "SUCCESS"
                        THEN [owningItems_ EXCEPT ![p] = @ \ {k}] ELSE owningItems_
    BY <1>3, DropOwning DEF Drop
  <2>3. \A q \in Players : q # p => next'[q] = next[q]
    BY <1>0, <1>3 DEF Drop, Decide, TransferType
  <2>4. \A l \in Items, i \in Inventories :
           l # k => (l \in owningItems_'[i] <=> l \in owningItems_[i])
    BY <1>0, <2>2 DEF TransferType
  <2>5. \A i \in Inventories : k \notin owningItems_'[i]
    BY <1>0, <2>1, <2>2 DEF TransferType, DropResult, Inventories
  <2> QED BY <1>3, <2>3, <2>4, <2>5, OperationHeld DEF Drop, Decide
<1>4. ASSUME NEW p \in Players, Store(p) PROVE Held'
  <2> DEFINE k == req[p].item
  <2>1. k \in Items /\ \A q \in Players : q # p => ~Storing(q, k)
    BY <1>4, OneHandler DEF Store, Working, Claims, Storing
  <2>2. \A l \in Items, q \in Players : Storing(q, l)' <=> q # p /\ Storing(q, l)
    BY <1>0, <1>4 DEF Store, Storing, TransferType
  <2>3. Storing(p, k) /\ \A l \in Items : l # k => ~Storing(p, l)
    BY <1>4 DEF Store, Storing
  <2>4. \A l \in Items :
           ownerFlag'[l].owner = IF l = k THEN next[p] ELSE ownerFlag[l].owner
    BY <1>0, <1>4 DEF Store, Flag, TransferType
  <2>5. owningItems_' = owningItems_ /\ \A q \in Players : q # p => next'[q] = next[q]
    BY <1>0, <1>4 DEF Store, invVars, TransferType
  <2> QED BY <1>0, <2>1, <2>2, <2>3, <2>4, <2>5 DEF Held
<1>5. ASSUME NEW p \in Players, NEW k \in Items, NEW from \in Inventories,
             NEW to \in Inventories, NEW slot \in TargetSlots, NEW rotated \in BOOLEAN,
             Move(p, k, from, to, slot, rotated)
      PROVE  Held'
  <2>1. \A l \in Items : ownerFlag'[l].owner = ownerFlag[l].owner
    BY <1>5, ClaimFree DEF Move
  <2>2. \A l \in Items, q \in Players : Storing(q, l)' <=> Storing(q, l)
    BY <1>0, <1>5 DEF Move, Storing, TransferType
  <2> QED BY <1>0, <1>5, <2>1, <2>2 DEF Held, Move, invVars
<1>6. ASSUME NEW p \in Players, DropCas(p) PROVE Held'
  <2>1. \A l \in Items : ownerFlag'[l].owner = ownerFlag[l].owner
    BY <1>0, <1>6, ClaimFree DEF DropCas, TransferType
  <2>2. \A l \in Items, q \in Players : Storing(q, l)' <=> Storing(q, l)
    BY <1>0, <1>6 DEF DropCas, Storing, TransferType
  <2> QED BY <1>0, <1>6, <2>1, <2>2 DEF Held, DropCas, invVars
<1>7. ASSUME NEW p \in Players, DropCasFails(p) PROVE Held'
  <2>1. \A l \in Items, q \in Players : Storing(q, l)' <=> Storing(q, l)
    BY <1>0, <1>7 DEF DropCasFails, Storing, TransferType
  <2> QED BY <1>0, <1>7, <2>1 DEF Held, DropCasFails, invVars
<1>8. CASE UNCHANGED vars
    BY <1>0, <1>8 DEF vars, invVars, Held, Storing
<1>9. ASSUME NEW p \in Players, NEW k \in Items, DropLoad(p, k) PROVE Held'
  <2>1. \A l \in Items, q \in Players : Storing(q, l)' <=> Storing(q, l)
    BY <1>0, <1>9 DEF DropLoad, Storing, TransferType
  <2> QED BY <1>0, <1>9, <2>1 DEF Held, DropLoad, invVars
<1>10. ASSUME NEW p \in Players, NEW k \in Items, PickUp(p, k) PROVE Held'
  <2>1. \A l \in Items : ownerFlag'[l].owner = ownerFlag[l].owner
    BY <1>10, ClaimFree DEF PickUp, EMPTY_OWNER
  <2>2. \A l \in Items, q \in Players : Storing(q, l)' <=> Storing(q, l)
    BY <1>0, <1>10 DEF PickUp, Storing, TransferType
  <2> QED BY <1>0, <1>10, <2>1, <2>2 DEF Held, PickUp, invVars
<1> QED BY <1>1, <1>2, <1>3, <1>4, <1>5, <1>6, <1>7, <1>8, <1>9, <1>10 DEF Next, Handle

-----------------------------------------------------------------------------
\* The inductive invariant holds in every state.
THEOREM Inductive == Spec => []IInv
<1>1. IInv /\ [Next]_vars => IInv'
    BY TypeStep, HandleStep, OwnerStep, HeldStep DEF IInv
<1> QED BY InitIInv, <1>1, PTL DEF Spec

\* ownerFlag names as handler exactly the player whose packet is between its
\* compare-and-exchange and its store (Match::PlayerPickUpItem, PlayerMoveItem,
\* PlayerDropItem).
THEOREM HandleExactAlways == Spec => []HandleExact
<1>1. IInv => HandleExact
    BY DEF IInv
<1> QED BY Inductive, <1>1, PTL

\* An item lies in no inventory but its recorded owner's, so never in two:
\* the races of the item packets duplicate nothing.
THEOREM HolderIsRecordedAlways == Spec => []HolderIsRecorded
<1>1. IInv => HolderIsRecorded
  <2> SUFFICES ASSUME IInv, NEW k \in Items, NEW i \in Inventories, k \in owningItems_[i]
               PROVE  RecordedOwner(k) = i
    BY DEF HolderIsRecorded
  <2>1. /\ \A p \in Players : Storing(p, k) => next[p] = i
        /\ (\A p \in Players : ~Storing(p, k)) => ownerFlag[k].owner = i
    BY DEF IInv, Held
  <2>2. CASE \E p \in Players : Storing(p, k)
    <3>1. PICK p \in Players : p = CHOOSE q \in Players : Storing(q, k)
      BY <2>2
    <3>2. Storing(p, k)
      BY <2>2, <3>1
    <3> QED BY <2>1, <2>2, <3>1, <3>2 DEF RecordedOwner
  <2>3. CASE \A p \in Players : ~Storing(p, k)
    BY <2>1, <2>3 DEF RecordedOwner
  <2> QED BY <2>2, <2>3
<1> QED BY Inductive, <1>1, PTL

\* The part of OperatingScaleFrozen that a step must keep.
ScaleKept == \A i \in Scales : IsOperating(i) => owningItems_'[i] \subseteq owningItems_[i]

LEMMA ScaleStep == IInv /\ [Next]_vars => ScaleKept
<1> SUFFICES ASSUME IInv, [Next]_vars, NEW i \in Scales, IsOperating(i)
             PROVE  owningItems_'[i] \subseteq owningItems_[i]
    BY DEF ScaleKept
<1>0. TransferType /\ i \in Inventories /\ i \notin Players
    BY KindsDiffer DEF IInv, Inventories
<1>1. ASSUME NEW p \in Players, TryAdd(p) PROVE owningItems_'[i] \subseteq owningItems_[i]
  <2>1. owningItems_'[i] = owningItems_[i]
    BY <1>0, <1>1, TryAddOwning DEF TryAdd, TransferType
  <2> QED BY <2>1
<1>2. ASSUME NEW p \in Players, Relocate(p)
      PROVE  owningItems_'[i] \subseteq owningItems_[i]
  <2> DEFINE r == req[p]
             result == RelocateResult(r.from, r.to, r.item, r.slot, r.rotated)
  <2>1. \/ /\ result = "SUCCESS"
           /\ owningItems_' = [owningItems_ EXCEPT ![r.from] = @ \ {r.item},
                                                   ![r.to] = @ \cup {r.item}]
        \/ /\ result # "SUCCESS"
           /\ owningItems_' \in {owningItems_, [owningItems_ EXCEPT ![r.from] = @ \ {r.item}]}
    BY <1>2, RelocateOwning DEF Relocate
  <2>2. result = "SUCCESS" => r.to # i
    BY DEF RelocateResult
  <2> QED BY <1>0, <2>1, <2>2 DEF TransferType
<1>3. ASSUME NEW p \in Players, Drop(p) PROVE owningItems_'[i] \subseteq owningItems_[i]
  <2>1. owningItems_'[i] \in {owningItems_[i], owningItems_[i] \ {req[p].item}}
    BY <1>0, <1>3, DropOwning DEF Drop, TransferType
  <2> QED BY <2>1
<1>4. ASSUME UNCHANGED invVars PROVE owningItems_'[i] \subseteq owningItems_[i]
    BY <1>4 DEF invVars
<1> QED BY <1>1, <1>2, <1>3, <1>4
        DEF Next, Handle, PickUp, Move, DropLoad, DropCas, DropCasFails, Store, vars

\* Nothing is put on a scale while it operates (Inventory::RelocateItem tests
\* it under the mutexes it then adds the item under).
THEOREM OperatingScaleFrozenAlways == Spec => OperatingScaleFrozen
<1>1. IInv /\ [Next]_vars =>
        [\A i \in Scales : IsOperating(i) => owningItems_'[i] \subseteq owningItems_[i]]_vars
    BY ScaleStep DEF ScaleKept
<1> QED BY Inductive, <1>1, PTL DEF Spec, OperatingScaleFrozen

-----------------------------------------------------------------------------
\* An operation's item lies at most in the inventory that the operation takes
\* it from, so the inventories stay sound.
LEMMA InventoryStep == IInv /\ InventoryInv /\ [Next]_vars => InventoryInv'
<1> SUFFICES ASSUME IInv, InventoryInv, [Next]_vars PROVE InventoryInv'
    OBVIOUS
<1>0. TransferType /\ OwnerKnown
    BY DEF IInv
<1>1. ASSUME NEW p \in Players, TryAdd(p) PROVE InventoryInv'
  <2>1. \A i \in Inventories : req[p].item \notin owningItems_[i]
      BY <1>0, <1>1, HolderKnown, NobodyFresh DEF TryAdd, OwnerKnown
  <2>2. p \in Inventories /\ req[p].item \in Items /\ TryAddItem(p, req[p].item)
      BY <1>0, <1>1 DEF TryAdd, TransferType, Inventories
  <2> QED BY <2>1, <2>2, TryAddSound
<1>2. ASSUME NEW p \in Players, Relocate(p) PROVE InventoryInv'
  <2> DEFINE r == req[p]
  <2>1. /\ r.from \in Inventories /\ r.to \in Inventories /\ r.item \in Items
        /\ r.slot \in Int /\ r.rotated \in BOOLEAN
    <3>1. req[p] \in Request
        BY <1>0 DEF TransferType
    <3>2. TargetSlots \cup {0} \subseteq Int
        BY SlotsAreInts
    <3>3. req[p].slot \in TargetSlots \cup {0} /\ req[p].rotated \in BOOLEAN
        BY <3>1, Zenon DEF Request
    <3>4. req[p].slot \in Int
        BY <3>2, <3>3, Zenon
    <3>5. req[p].from \in Inventories /\ req[p].to \in Inventories /\ req[p].item \in Items
        BY <1>0, <1>2 DEF Relocate, TransferType
    <3> QED BY <3>3, <3>4, <3>5
  <2>2. \A i \in Inventories : r.item \in owningItems_[i] => i = r.from
      BY <1>0, <1>2, HolderKnown DEF Relocate, OwnerKnown
  <2>3. RelocateItem(r.from, r.to, r.item, r.slot, r.rotated)
      BY <1>2 DEF Relocate
  <2> HIDE DEF r
  <2> QED BY <2>1, <2>2, <2>3, RelocateSound
<1>3. ASSUME NEW p \in Players, Drop(p) PROVE InventoryInv'
  <2>1. \A i \in Inventories : req[p].item \in owningItems_[i] => i = p
      BY <1>0, <1>3, HolderKnown DEF Drop, OwnerKnown
  <2>2. p \in Inventories /\ req[p].item \in Items /\ DropItem(p, req[p].item)
      BY <1>0, <1>3 DEF Drop, TransferType, Inventories
  <2> QED BY <2>1, <2>2, DropSound
<1>4. ASSUME UNCHANGED invVars PROVE InventoryInv'
    BY <1>4 DEF invVars, InventoryInv
<1> QED BY <1>1, <1>2, <1>3, <1>4
        DEF Next, Handle, PickUp, Move, DropLoad, DropCas, DropCasFails, Store, vars

\* The protocol and the inventories, together.
LEMMA InventoryInductive == Spec => [](IInv /\ InventoryInv)
<1>1. Init => IInv /\ InventoryInv
    BY InitIInv, InventoryInitInv DEF Init
<1>2. IInv /\ InventoryInv /\ [Next]_vars => IInv' /\ InventoryInv'
    BY TypeStep, HandleStep, OwnerStep, HeldStep, InventoryStep DEF IInv
<1> QED BY <1>1, <1>2, PTL DEF Spec

\* Every variable of the items, the inventories and the handlers keeps its
\* type: no covered slot lies outside its grid, and no weight is negative.
THEOREM TypeCorrect == Spec => []TypeOK
<1>1. IInv /\ InventoryInv => TypeOK
    BY InventorySafe DEF IInv, TransferType, TypeOK
<1> QED BY <1>1, InventoryInductive, PTL

\* The occupied slots of a grid are exactly the disjoint rectangles of its
\* items, whatever packets race (Inventory::TryAddItem, RelocateItem, DropItem).
THEOREM GridExactAlways == Spec => []GridExact
<1>1. InventoryInv => GridExact
    BY InventorySafe
<1> QED BY <1>1, InventoryInductive, PTL

\* currentWeight_ is the sum of the weights of the owned items, within
\* maxWeight_, though RelocateItem picks an item up before it looks at the limit.
THEOREM WeightExactAlways == Spec => []WeightExact
<1>1. InventoryInv => WeightExact
    BY InventorySafe
<1> QED BY <1>1, InventoryInductive, PTL
=============================================================================
