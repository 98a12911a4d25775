----------------------------- MODULE MCElection -----------------------------
(* Clusters of two to four computers for TLC.                              *)
EXTENDS CluckElection

TwoIdentifiers == <<2, 1>>
ThreeIdentifiers == <<2, 1, 3>>
FourIdentifiers == <<4, 1, 3, 2>>

AllConnected == {}
OneAndTwoApart == {{1, 2}}
TwoAndThreeApart == {{2, 3}}
=============================================================================
