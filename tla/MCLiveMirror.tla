---------------------------- MODULE MCLiveMirror ----------------------------
EXTENDS LiveMirror, TLC

AnyDirection == [s \in Strategies |-> Directions]
LongOnly     == [s \in Strategies |-> {"LONG"}]
TwoPrices    == {1000, 1010}
OnePrice     == {1000}
OrderSymmetry == Permutations(Orders)
=============================================================================
