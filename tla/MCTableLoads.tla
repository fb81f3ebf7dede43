---------------------------- MODULE MCTableLoads ----------------------------
EXTENDS TableLoads, TLC

CONSTANTS a1, a2, dbl, sgl, v1, v2, bad

(* a1 owns both tables and reads one; a2 shares them and reads both.       *)
MCOwnerOf == [t \in Tables |-> a1]
MCAccess  == ({a1} \X Tables) \cup ({a2} \X Tables)

MCReaders == {<<a2, dbl>>, <<a2, sgl>>}

From(forms, images) == [form : forms, image : images]
MCSourcesOf == (dbl :> From({"full"}, {v1}) \cup From({"partial"}, {bad}))
            @@ (sgl :> From({"full"}, {v1}) \cup From({"partial"}, {v2}))

(* The same, with a file that ends early.                                  *)
MCShortFiles == [MCSourcesOf EXCEPT ![dbl] = @ \cup From({"short"}, {v1})]
=============================================================================
