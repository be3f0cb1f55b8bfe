------------------------------- MODULE MCUdev -------------------------------
(***************************************************************************)
(* Instances of Udev for TLC.                                               *)
(***************************************************************************)
EXTENDS Udev, TLC

CONSTANTS c1, c2, c3

\* Cells are interchangeable.
CellSymmetry == Permutations(Cells)

ThreeCells == {c1, c2, c3}

TwoCards == {<<"drm", 0>>, <<"drm", 1>>, <<"input", 0>>}

\* "input", and a pattern for one number of each class.
OneSubsystem == {{"input"}}
OneSysname == {{<<"drm", 0>>, <<"input", 0>>}}
=============================================================================
