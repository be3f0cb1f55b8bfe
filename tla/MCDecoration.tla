--------------------------- MODULE MCDecoration ---------------------------
(***************************************************************************)
(* Instances of Decoration for TLC.                                         *)
(***************************************************************************)
EXTENDS Decoration, TLC

CONSTANTS c1, c2, h1, h2, d1, d2, s1, s2

TwoRecords == {c1, c2}
TwoWindows == {h1, h2}
TwoDesktops == {d1, d2}
OneSurface == {s1}
=============================================================================
