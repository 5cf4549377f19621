------------------------- MODULE MCPaperSettlement -------------------------
(* Small markets and orders for PaperSettlement.                           *)
EXTENDS PaperSettlement

High == [lo |-> 3, hi |-> 4, close |-> 3]
Down == [lo |-> 2, hi |-> 3, close |-> 2]
Wide == [lo |-> 1, hi |-> 4, close |-> 2]

(* A bar around the entries, one at the target of LONG and the stop of     *)
(* SHORT orders, and one that spans every level.                           *)
MixedBars == {Down, High, Wide}

TwoBooks == {<<"plain", "LONG">>, <<"reversal", "SHORT">>}
=============================================================================
