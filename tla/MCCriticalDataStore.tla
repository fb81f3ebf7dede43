------------------------ MODULE MCCriticalDataStore ------------------------
EXTENDS CriticalDataStore, TLC

CONSTANTS a1, a2, n1, n2, n3, d1

MCOwnerOf  == (n1 :> a1) @@ (n2 :> a2) @@ (n3 :> a1)
MCBinSizes == <<3, 1>>

(* n1 is resized, also within a bin, n2 is copied to, n3 asks for more than *)
(* any bin holds.                                                          *)
MCSizesOf == (n1 :> {1, 2, 3}) @@ (n2 :> {1}) @@ (n3 :> {4})

(* n1 is registered again with a size no bin holds.                        *)
MCResizes == (n1 :> {1, 4}) @@ (n2 :> {1}) @@ (n3 :> {4})
MCDataOf  == (n1 :> {}) @@ (n2 :> {d1}) @@ (n3 :> {})
=============================================================================
