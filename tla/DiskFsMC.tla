------------------------------ MODULE DiskFsMC ------------------------------
(* DiskFs on two files of at most two sectors, and one text too long to be *)
(* saved whole.                                                            *)
EXTENDS DiskFs, TLC

CONSTANTS a, b, f1, f2

TwoFiles == {f1, f2}
TwoBlocks == {a, b}
ShortTexts == {<<>>, <<a>>, <<a, b>>, <<a, b, a>>}
OneFile == {f1}
Defaults == [f \in TwoFiles |-> <<a>>]
=============================================================================
