---------------------------- MODULE MCDoomInput ----------------------------
(***************************************************************************)
(* Instances of DoomInput for TLC: w (code 17), which walks in a level,    *)
(* and both Ctrl keys (29 and 97), which are one key to Doom; from a         *)
(* terminal the characters w and escape, numbered from 1000 on.            *)
(***************************************************************************)
EXTENDS DoomInput

MCCodes == {17, 29, 97}
MCKeys == {"w", "up", "fire", "escape"}
Menu(x) == CASE x \in {17, 1119} -> "w" [] x \in {29, 97} -> "fire" [] x = 1027 -> "escape"
Game(x) == IF Menu(x) = "w" THEN "up" ELSE Menu(x)
MCMenuKey == [x \in Codes \cup Chars |-> Menu(x)]
MCGameKey == [x \in Codes \cup Chars |-> Game(x)]
=============================================================================
