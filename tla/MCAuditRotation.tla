--------------------------- MODULE MCAuditRotation --------------------------
(***************************************************************************)
(* Two configurations to restart under: short segments of which one stays, *)
(* and longer ones of which two do.                                        *)
(***************************************************************************)
EXTENDS AuditRotation

MCConfigs == {[segment |-> 1, retained |-> 1], [segment |-> 2, retained |-> 2]}
=============================================================================
