--------------------------- MODULE MCItemTransfer ---------------------------
(* Two players with grids of different shape and one scale; "ring" is a    *)
(* single tile, "vase" two tiles that fit some grids only rotated. Together *)
(* they are too heavy for a player, and the vase alone operates the scale. *)
EXTENDS ItemTransfer, TLC

MCrow       == "chaser" :> 2 @@ "fugitive" :> 2 @@ "scale" :> 1
MCcolumn    == "chaser" :> 1 @@ "fugitive" :> 2 @@ "scale" :> 3
MCmaxWeight == "chaser" :> 2 @@ "fugitive" :> 2 @@ "scale" :> 9
MCitemRow   == "ring" :> 1 @@ "vase" :> 1
MCitemCol   == "ring" :> 1 @@ "vase" :> 2
MCweight    == "ring" :> 1 @@ "vase" :> 2

MCTargetSlots == -1 .. 1
=============================================================================
