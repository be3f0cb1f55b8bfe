------------------------------- MODULE MCDoom -------------------------------
(***************************************************************************)
(* An instance of Doom for TLC: machines on which different things are      *)
(* there, a picture of 4 by 3, two channels, and a device of 2 frames a     *)
(* tick and a second.                                                      *)
(***************************************************************************)
EXTENDS Doom

Of(w, h) == [width |-> w, height |-> h]

Console(fb, owner, terminal, keyboard, audio) ==
  [fb |-> fb, display |-> fb, windowed |-> FALSE, resizes |-> FALSE, iwad |-> TRUE,
   screen |-> owner, tty |-> terminal, keyboard |-> keyboard, audio |-> audio]

Window(display, resizes) ==
  [fb |-> Of(5, 4), display |-> display, windowed |-> TRUE, resizes |-> resizes, iwad |-> TRUE,
   screen |-> "free", tty |-> TRUE, keyboard |-> FALSE, audio |-> FALSE]

\* The sound is played where no keys are, and keys are pressed where no sound is.
MCMachines ==
  {Console(Of(13, 7), "free", FALSE, FALSE, TRUE),
   Console(Of(11, 12), "free", TRUE, TRUE, FALSE),
   Console(Of(3, 2), "free", TRUE, FALSE, FALSE),
   Console(Of(9, 9), "session", TRUE, TRUE, FALSE),
   Window(Of(12, 9), TRUE), Window(Of(12, 6), FALSE),
   [Console(Of(9, 9), "free", TRUE, TRUE, FALSE) EXCEPT !.iwad = FALSE]}

\* Three frames, and a last chunk that is not full; two frames of a faster lump,
\* as long as a chunk; a lump with no sound in it, and one of another format.
Made(rate, bytes) ==
  [lumpnum |-> 1, format |-> 3, rate |-> rate, count |-> 32 + Len(bytes),
   size |-> 40 + Len(bytes), bytes |-> bytes]

MCLump(e) ==
  CASE e = "pistol" -> Made(2, <<255, 0, 200>>)
    [] e = "door" -> Made(5, <<0, 60, 120, 180>>)
    [] e = "empty" -> Made(2, <<>>)
    [] e = "other" -> [Made(2, <<7, 7>>) EXCEPT !.format = 0]

MCEffects == {"pistol", "door", "empty", "other"}
MCLumps == [e \in MCEffects |-> MCLump(e)]

\* In the middle, and beyond what a volume and a separation may be.
MCSettings == {<<127, 127>>, <<200, -5>>}
MCBig == Of(10, 8)
=============================================================================
