---------------------------- MODULE ItemTransfer ----------------------------
(***************************************************************************)
(* GameServer/Match.cpp, PlayerPickUpItem, PlayerMoveItem, PlayerDropItem: *)
(* the packets of the players of one match are handled on IO threads at    *)
(* the same time, each player's own packets one after the other. Item::    *)
(* ownerFlag is the protocol between them: a compare-and-exchange claims   *)
(* the item for the handling player, the inventories are changed under     *)
(* their mutexes, and a store publishes the new owner.                     *)
(*                                                                         *)
(* An attempt whose compare-and-exchange fails returns and has no action.  *)
(* Scores, the move speed and what is broadcast after the store are not    *)
(* part of this module: nothing here reads them.                           *)
(***************************************************************************)
EXTENDS Inventory

CONSTANTS Nobody,
          TargetSlots  (* values of targetTopLeftIndex that are tried      *)

ASSUME NobodyFresh == Nobody \notin Inventories
ASSUME SlotsAreInts == TargetSlots \subseteq Int

VARIABLES ownerFlag,  (* Item::ownerFlag: [handler, owner]                 *)
          pc,         (* where the handler of each player's packet is      *)
          req,        (* its arguments, and the `origin` of PlayerDropItem *)
          next        (* the owner it is about to store                    *)

vars == <<invVars, ownerFlag, pc, req, next>>

Flag(handler, owner) == [handler |-> handler, owner |-> owner]
EMPTY_OWNER == Flag(Nobody, Nobody)

Owners == Inventories \cup {Nobody}

NoRequest == [item |-> Nobody, from |-> Nobody, to |-> Nobody, slot |-> 0,
              rotated |-> FALSE, origin |-> Nobody]

Request == [item : Items \cup {Nobody}, from : Owners, to : Owners, slot : TargetSlots \cup {0},
            rotated : BOOLEAN, origin : Owners]

TypeOK ==
    /\ InventoryTypeOK
    /\ ownerFlag \in [Items -> [handler : Players \cup {Nobody}, owner : Owners]]
    /\ pc \in [Players -> {"idle", "tryAdd", "relocate", "dropCas", "drop", "store"}]
    /\ req \in [Players -> Request]
    /\ next \in [Players -> Owners]

Init ==
    /\ InventoryInit
    /\ ownerFlag = [k \in Items |-> EMPTY_OWNER]
    /\ pc = [p \in Players |-> "idle"]
    /\ req = [p \in Players |-> NoRequest]
    /\ next = [p \in Players |-> Nobody]

-----------------------------------------------------------------------------
\* compare_exchange_strong: the item is claimed by p while its flag is as
\* expected.
Claim(p, k, expected) ==
    /\ ownerFlag[k] = expected
    /\ ownerFlag' = [ownerFlag EXCEPT ![k].handler = p]

\* The result of the inventory operation decides what is stored.
Decide(p, owner) ==
    /\ next' = [next EXCEPT ![p] = owner]
    /\ pc' = [pc EXCEPT ![p] = "store"]

\* Mutant: the item is claimed whoever handles or owns it.
PickUpUnclaimed(p, k) ==
    /\ pc[p] = "idle"
    /\ ownerFlag[k].owner = Nobody
    /\ ownerFlag' = [ownerFlag EXCEPT ![k].handler = p]
    /\ req' = [req EXCEPT ![p].item = k]
    /\ pc' = [pc EXCEPT ![p] = "tryAdd"]
    /\ UNCHANGED <<invVars, next>>

PickUp(p, k) ==
    /\ pc[p] = "idle"
    /\ Claim(p, k, EMPTY_OWNER)
    /\ req' = [req EXCEPT ![p].item = k]
    /\ pc' = [pc EXCEPT ![p] = "tryAdd"]
    /\ UNCHANGED <<invVars, next>>

TryAdd(p) ==
    /\ pc[p] = "tryAdd"
    /\ TryAddItem(p, req[p].item)
    /\ Decide(p, IF TryAddResult(p, req[p].item) = "SUCCESS" THEN p ELSE Nobody)
    /\ UNCHANGED <<ownerFlag, req>>

\* Any player may move an item between any two inventories, its own or not.
Move(p, k, from, to, slot, rotated) ==
    /\ pc[p] = "idle"
    /\ Claim(p, k, Flag(Nobody, from))
    /\ req' = [req EXCEPT ![p] = [item |-> k, from |-> from, to |-> to, slot |-> slot,
                                  rotated |-> rotated, origin |-> Nobody]]
    /\ pc' = [pc EXCEPT ![p] = "relocate"]
    /\ UNCHANGED <<invVars, next>>

\* Mutant: the new owner is stored whatever RelocateItem returned.
RelocateAlwaysMoves(p) ==
    LET r == req[p] IN
    /\ pc[p] = "relocate"
    /\ RelocateItem(r.from, r.to, r.item, r.slot, r.rotated)
    /\ Decide(p, r.to)
    /\ UNCHANGED <<ownerFlag, req>>

Relocate(p) ==
    LET r == req[p] IN
    /\ pc[p] = "relocate"
    /\ RelocateItem(r.from, r.to, r.item, r.slot, r.rotated)
    /\ Decide(p, IF RelocateResult(r.from, r.to, r.item, r.slot, r.rotated) = "SUCCESS"
                 THEN r.to ELSE r.from)
    /\ UNCHANGED <<ownerFlag, req>>

\* const UINT32 origin = item->ownerFlag.load(), masked when it is stored back.
DropLoad(p, k) ==
    /\ pc[p] = "idle"
    /\ req' = [req EXCEPT ![p].item = k, ![p].origin = ownerFlag[k].owner]
    /\ pc' = [pc EXCEPT ![p] = "dropCas"]
    /\ UNCHANGED <<invVars, ownerFlag, next>>

DropCas(p) ==
    /\ pc[p] = "dropCas"
    /\ Claim(p, req[p].item, Flag(Nobody, p))
    /\ pc' = [pc EXCEPT ![p] = "drop"]
    /\ UNCHANGED <<invVars, req, next>>

DropCasFails(p) ==
    /\ pc[p] = "dropCas"
    /\ ownerFlag[req[p].item] # Flag(Nobody, p)
    /\ req' = [req EXCEPT ![p] = NoRequest]
    /\ pc' = [pc EXCEPT ![p] = "idle"]
    /\ UNCHANGED <<invVars, ownerFlag, next>>

Drop(p) ==
    /\ pc[p] = "drop"
    /\ DropItem(p, req[p].item)
    /\ Decide(p, IF DropResult(p, req[p].item) = "SUCCESS" THEN Nobody ELSE req[p].origin)
    /\ UNCHANGED <<ownerFlag, req>>

Store(p) ==
    /\ pc[p] = "store"
    /\ ownerFlag' = [ownerFlag EXCEPT ![req[p].item] = Flag(Nobody, next[p])]
    /\ req' = [req EXCEPT ![p] = NoRequest]
    /\ next' = [next EXCEPT ![p] = Nobody]
    /\ pc' = [pc EXCEPT ![p] = "idle"]
    /\ UNCHANGED invVars

Handle(p, k) ==
    \/ PickUp(p, k) \/ DropLoad(p, k)
    \/ \E from, to \in Inventories, slot \in TargetSlots, rotated \in BOOLEAN :
          Move(p, k, from, to, slot, rotated)

Next ==
    \E p \in Players :
        \/ \E k \in Items : Handle(p, k)
        \/ TryAdd(p) \/ Relocate(p) \/ DropCas(p) \/ DropCasFails(p) \/ Drop(p) \/ Store(p)

Spec == Init /\ [][Next]_vars

-----------------------------------------------------------------------------
Claims(p, k) == pc[p] \in {"tryAdd", "relocate", "drop", "store"} /\ req[p].item = k

\* The handler in the flag is exactly the player whose packet is working on
\* the item: nobody else touches the item, and nobody leaves it claimed.
HandleExact == \A k \in Items, p \in Players : ownerFlag[k].handler = p <=> Claims(p, k)

\* The owner the item has once the packet working on it, if any, has stored it.
Storing(p, k) == pc[p] = "store" /\ req[p].item = k

RecordedOwner(k) ==
    IF \E p \in Players : Storing(p, k)
    THEN next[CHOOSE p \in Players : Storing(p, k)]
    ELSE ownerFlag[k].owner

\* An item lies in no inventory but the one recorded as its owner, so never in
\* two, and an item free to be picked up lies in none: nothing is duplicated
\* whatever packets race for it.
HolderIsRecorded == \A k \in Items, i \in Inventories :
    k \in owningItems_[i] => RecordedOwner(k) = i

\* Nothing is put on a scale while it operates, by whatever pair of packets:
\* the check and the addition see the same weight.
OperatingScaleFrozen ==
    [][\A i \in Scales : IsOperating(i) => owningItems_'[i] \subseteq owningItems_[i]]_vars

\* The comment of Item.h: the low bits say who owns the item now. Whenever
\* nobody handles an item, the inventory named as its owner holds it.
OwnedItemIsHeld == \A k \in Items, i \in Inventories :
    ownerFlag[k] = Flag(Nobody, i) => k \in owningItems_[i]
=============================================================================
