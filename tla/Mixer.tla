------------------------------- MODULE Mixer -------------------------------
(***************************************************************************)
(* What Doom's sound driver promises the game: every channel plays the     *)
(* rest of its sound, a chunk of frames at a time, and what is heard is    *)
(* the sum of the channels, kept within what a sample can hold.            *)
(***************************************************************************)
EXTENDS Integers, Sequences, Functions

CONSTANTS
  Channels,
  Sounds,      \* sequences of samples
  Volumes,     \* pairs <<left, right>>
  CHUNK,       \* the frames of a chunk
  OUT_MAX      \* the largest sample

VARIABLES
  open,        \* there is a device to play on
  rest,        \* for each channel, what is left of its sound
  volume,      \* for each channel
  heard        \* the last chunk: for each frame, <<left, right>>

vars == <<open, rest, volume, heard>>

Quiet == [c \in Channels |-> <<>>]
Silence == [i \in 1..CHUNK |-> <<0, 0>>]

Init ==
  /\ open = FALSE
  /\ rest = Quiet
  /\ volume = [c \in Channels |-> <<0, 0>>]
  /\ heard = Silence

\* A volume of 127 leaves a sample as it is; the quotient goes towards 0.
Scaled(sample, vol) ==
  IF sample >= 0 THEN (sample * vol) \div 127 ELSE -((-sample * vol) \div 127)

Nearest(x) == IF x < -OUT_MAX - 1 THEN -OUT_MAX - 1 ELSE IF x > OUT_MAX THEN OUT_MAX ELSE x

Sum(i, side) ==
  SumFunction([c \in {d \in Channels : i <= Len(rest[d])} |->
                 Scaled(rest[c][i], volume[c][side])])

Open ==
  /\ open' = TRUE
  /\ rest' = Quiet
  /\ volume' = [c \in Channels |-> <<0, 0>>]
  /\ UNCHANGED heard

Start(c) ==
  /\ open
  /\ \E s \in Sounds : rest' = [rest EXCEPT ![c] = s]
  /\ \E v \in Volumes : volume' = [volume EXCEPT ![c] = v]
  /\ UNCHANGED <<open, heard>>

Turn(c) ==
  /\ \E v \in Volumes : volume' = [volume EXCEPT ![c] = v]
  /\ UNCHANGED <<open, rest, heard>>

Stop(c) ==
  /\ rest' = [rest EXCEPT ![c] = <<>>]
  /\ UNCHANGED <<open, volume, heard>>

Play ==
  /\ open /\ rest # Quiet
  /\ heard' = [i \in 1..CHUNK |-> <<Nearest(Sum(i, 1)), Nearest(Sum(i, 2))>>]
  /\ rest' = [c \in Channels |-> SubSeq(rest[c], CHUNK + 1, Len(rest[c]))]
  /\ UNCHANGED <<open, volume>>

Close ==
  /\ open' = FALSE
  /\ UNCHANGED <<rest, volume, heard>>

Next == Open \/ Play \/ Close \/ \E c \in Channels : Start(c) \/ Turn(c) \/ Stop(c)

Spec == Init /\ [][Next]_vars
=============================================================================
