--------------------------- MODULE MCTableRegistry ---------------------------
EXTENDS TableRegistry, TLC

CONSTANTS a1, a2, a3, dmp, dbl, sgl

(* a1 owns the dump-only table and may exit; a2 owns the double buffered    *)
(* one and shares a1's; a3 shares both, has a table of its own, and may     *)
(* exit or be removed.                                                      *)
MCOwnerOf == dmp :> a1 @@ dbl :> a2 @@ sgl :> a3
MCSharing == {<<a2, dmp>>, <<a3, dmp>>, <<a3, dbl>>}
=============================================================================
