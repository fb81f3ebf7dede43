--------------------------- MODULE MCSBRouteTable ---------------------------
(***************************************************************************)
(* The routing state of SBRouteTable on its own, driven by every operation  *)
(* in every order.                                                          *)
(***************************************************************************)
EXTENDS SBRouteTable, TLC

CONSTANTS m1, m2, m3

AllIds == {m1, m2, m3}
Symmetry == Permutations(AllIds)
=============================================================================
