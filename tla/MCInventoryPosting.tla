------------------------- MODULE MCInventoryPosting -------------------------
(***************************************************************************)
(* Small instances of InventoryPosting for TLC.                            *)
(***************************************************************************)
EXTENDS InventoryPosting, TLC

CONSTANTS t1, t2, a1   \* two requests in threads, one on the loop

AllDirect == [s \in Sessions |-> "direct"]
OneOfEach == [s \in Sessions |-> IF s = t1 THEN "policy" ELSE IF s = t2 THEN "repair" ELSE "direct"]

OneUpOrDown == {-1, 1}
=============================================================================
