--------------------------- MODULE MCCommandTask ---------------------------
(***************************************************************************)
(* The constants are model values, given in MCCommandTask.cfg. A temporal  *)
(* property is checked, so no symmetry is declared.                        *)
(***************************************************************************)
EXTENDS CommandTask

=============================================================================
