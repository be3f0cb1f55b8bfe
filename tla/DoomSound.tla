----------------------------- MODULE DoomSound -----------------------------
(***************************************************************************)
(* Doom's sound driver (i_cervussound.c): a lump of the WAD is converted    *)
(* to the rate of the device when it is first played, and kept; once a     *)
(* tick, a chunk of every channel that plays is mixed and written.          *)
(*                                                                         *)
(* An effect stands for its sfxinfo_t, and for the samples made from its    *)
(* lump, which nothing changes.  The sfx of a channel is written only.      *)
(***************************************************************************)
EXTENDS Integers, Sequences, FiniteSetsExt, Functions

CONSTANTS
  Effects,
  Lump,              \* the lump of each effect
  None,
  CERVUS_RATE,       \* 22050
  CERVUS_CHANNELS,   \* 8
  CERVUS_CHUNK,      \* 630 frames: a tick of the game
  OUT_MAX,           \* 32767
  Settings           \* pairs of a volume and a separation the game may ask for

Channels == 0..CERVUS_CHANNELS - 1

\* The header of a lump, and the bytes between its padding of 16 at each end: size
\* counts the header and the padding, count the padding.
ASSUME LumpAssumption ==
  \A e \in Effects :
    /\ Lump[e].lumpnum \in Int /\ Lump[e].size \in Nat /\ Lump[e].count \in Nat
    /\ Lump[e].format \in Nat /\ Lump[e].rate \in Nat
    /\ \A i \in DOMAIN Lump[e].bytes : Lump[e].bytes[i] \in 0..255
    /\ Lump[e].size - 40 <= Len(Lump[e].bytes)

ASSUME SoundAssumption ==
  /\ None \notin Effects /\ Settings \subseteq Int \X Int
  /\ CERVUS_RATE \in Nat \ {0} /\ CERVUS_CHUNK \in Nat \ {0}
  /\ CERVUS_CHANNELS \in Nat /\ OUT_MAX \in Nat

VARIABLES
  g_open,      \* the device is open
  g_chan,      \* the channels
  driver_data, \* the effects converted so far
  g_out        \* the chunk written last

sound == <<g_open, g_chan, driver_data, g_out>>

Idle == [pcm |-> None, frames |-> 0, pos |-> 0, left |-> 0, right |-> 0]

SoundInit ==
  /\ g_open = FALSE
  /\ g_chan = [c \in Channels |-> Idle]
  /\ driver_data = {}
  /\ g_out = [i \in 1..CERVUS_CHUNK |-> <<0, 0>>]

-----------------------------------------------------------------------------
\* sfx_cache.

\* The bytes of sound in a lump that is well formed.
SrcFrames(e) == Min({Lump[e].count, Lump[e].size - 8}) - 32

\* Mutant: the last part of a frame is left out.
OutFramesDown(e) == (SrcFrames(e) * CERVUS_RATE) \div Lump[e].rate

OutFrames(e) == (SrcFrames(e) * CERVUS_RATE + Lump[e].rate - 1) \div Lump[e].rate

Playable(e) ==
  /\ Lump[e].lumpnum >= 0 /\ Lump[e].size >= 40
  /\ Lump[e].format = 3 /\ Lump[e].rate # 0
  /\ SrcFrames(e) >= 0 /\ OutFrames(e) # 0

\* The samples made of each effect, from 0.
Pcm ==
  [e \in {f \in Effects : Playable(f)} |->
     [i \in 0..OutFrames(e) - 1 |->
        LET si == Min({(i * Lump[e].rate) \div CERVUS_RATE, SrcFrames(e) - 1})
        IN (Lump[e].bytes[si + 1] - 128) * 128]]

-----------------------------------------------------------------------------
Clamp(x, low, high) == IF x < low THEN low ELSE IF x > high THEN high ELSE x

\* Mutant: the volume may be as large as the game says.
WithAnyVolume(ch, vol, sep) ==
  [ch EXCEPT !.left = (vol * (254 - Clamp(sep, 0, 254))) \div 254,
             !.right = (vol * Clamp(sep, 0, 254)) \div 254]

\* set_params.
WithParams(ch, vol, sep) ==
  LET v == Clamp(vol, 0, 127)
      s == Clamp(sep, 0, 254)
  IN [ch EXCEPT !.left = (v * (254 - s)) \div 254, !.right = (v * s) \div 254]

\* The device may be missing, or in use.
I_Cervus_InitSound ==
  /\ \/ g_open' = TRUE /\ g_chan' = [c \in Channels |-> Idle]
     \/ UNCHANGED <<g_open, g_chan>>
  /\ UNCHANGED <<driver_data, g_out>>

I_Cervus_ShutdownSound ==
  /\ g_open' = FALSE
  /\ UNCHANGED <<g_chan, driver_data, g_out>>

I_Cervus_StartSound(e, c, vol, sep) ==
  /\ g_open /\ c \in Channels /\ e \in DOMAIN Pcm
  /\ driver_data' = driver_data \union {e}
  /\ g_chan' = [g_chan EXCEPT ![c] =
       WithParams([@ EXCEPT !.pcm = e, !.frames = OutFrames(e), !.pos = 0], vol, sep)]
  /\ UNCHANGED <<g_open, g_out>>

I_Cervus_UpdateSoundParams(c, vol, sep) ==
  /\ c \in Channels
  /\ g_chan' = [g_chan EXCEPT ![c] = WithParams(@, vol, sep)]
  /\ UNCHANGED <<g_open, driver_data, g_out>>

I_Cervus_StopSound(c) ==
  /\ c \in Channels
  /\ g_chan' = [g_chan EXCEPT ![c].pcm = None]
  /\ UNCHANGED <<g_open, driver_data, g_out>>

I_Cervus_SoundIsPlaying(c) == g_chan[c].pcm # None

I_Cervus_PrecacheSounds ==
  /\ driver_data' = driver_data \union DOMAIN Pcm
  /\ UNCHANGED <<g_open, g_chan, g_out>>

-----------------------------------------------------------------------------
\* I_Cervus_Update.

Mixed(ch) ==
  IF ch.frames - ch.pos > CERVUS_CHUNK THEN CERVUS_CHUNK ELSE ch.frames - ch.pos

\* The quotient of C goes towards 0.
Scaled(x, vol) == IF x >= 0 THEN (x * vol) \div 127 ELSE -((-x * vol) \div 127)

\* The sum of frame i over the channels, for one side, "left" or "right".
Acc(i, side) ==
  LET mixed == {c \in Channels : I_Cervus_SoundIsPlaying(c) /\ i < Mixed(g_chan[c])}
  IN SumFunction([c \in mixed |->
       Scaled(Pcm[g_chan[c].pcm][g_chan[c].pos + i], g_chan[c][side])])

\* Mutant: a channel goes on when its sound has been mixed to the end.
NeverPlayed(ch) == [ch EXCEPT !.pos = @ + Mixed(ch)]

\* A channel after its part of the chunk has been mixed.
Played(ch) ==
  LET pos == ch.pos + Mixed(ch)
  IN [ch EXCEPT !.pos = pos, !.pcm = IF pos >= ch.frames THEN None ELSE @]

I_Cervus_Update ==
  /\ g_open
  /\ \E c \in Channels : I_Cervus_SoundIsPlaying(c)
  /\ g_chan' = [c \in Channels |->
       IF I_Cervus_SoundIsPlaying(c) THEN Played(g_chan[c]) ELSE g_chan[c]]
  /\ g_out' = [i \in 1..CERVUS_CHUNK |->
       <<Clamp(Acc(i - 1, "left"), -OUT_MAX - 1, OUT_MAX),
         Clamp(Acc(i - 1, "right"), -OUT_MAX - 1, OUT_MAX)>>]
  /\ UNCHANGED <<g_open, driver_data>>

\* What the game asks for.
SoundCalls ==
  \/ \E c \in Channels, p \in Settings :
       \/ \E e \in Effects : I_Cervus_StartSound(e, c, p[1], p[2])
       \/ I_Cervus_UpdateSoundParams(c, p[1], p[2])
  \/ \E c \in Channels : I_Cervus_StopSound(c)
  \/ I_Cervus_PrecacheSounds

-----------------------------------------------------------------------------
\* The types: a channel's place is within its sound, and its two sides together
\* are no louder than the loudest volume.
SoundTypeOK ==
  /\ g_open \in BOOLEAN
  /\ driver_data \subseteq DOMAIN Pcm
  /\ DOMAIN g_chan = Channels
  /\ \A c \in Channels :
       /\ g_chan[c].pcm \in Effects \union {None}
       /\ I_Cervus_SoundIsPlaying(c) => g_chan[c].pos < g_chan[c].frames
       /\ g_chan[c].left \in 0..127 /\ g_chan[c].right \in 0..127
       /\ g_chan[c].left + g_chan[c].right <= 127

\* An effect lasts as long as its lump does at the lump's own rate, to the next
\* frame, and each frame is what the lump holds at that time.
Lasts(e, n) == n * Lump[e].rate >= SrcFrames(e) * CERVUS_RATE
Length(e) == CHOOSE n \in 0..SrcFrames(e) * CERVUS_RATE :
               Lasts(e, n) /\ \A m \in 0..n - 1 : ~Lasts(e, m)
ByteAt(e, i) == CHOOSE j \in 1..SrcFrames(e) :
                  /\ (j - 1) * CERVUS_RATE <= i * Lump[e].rate
                  /\ i * Lump[e].rate < j * CERVUS_RATE
Sound == [e \in DOMAIN Pcm |->
            [i \in 1..Length(e) |-> (Lump[e].bytes[ByteAt(e, i - 1)] - 128) * 128]]

\* All that the promise may speak of.
Sounds == {Sound[e] : e \in DOMAIN Sound}
Volume(ch) == <<ch.left, ch.right>>
Volumes == {Volume(WithParams(Idle, p[1], p[2])) : p \in Settings}

\* What is left of the sound of a channel.
Rest(ch) ==
  IF ch.pcm = None THEN <<>> ELSE SubSeq(Sound[ch.pcm], ch.pos + 1, Len(Sound[ch.pcm]))

Promise == INSTANCE Mixer WITH
  CHUNK <- CERVUS_CHUNK,
  open <- g_open,
  rest <- [c \in Channels |-> Rest(g_chan[c])],
  volume <- [c \in Channels |-> Volume(g_chan[c])],
  heard <- g_out
=============================================================================
