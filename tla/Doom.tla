-------------------------------- MODULE Doom --------------------------------
(***************************************************************************)
(* Doom on Cervus (doomgeneric_cervus.c and i_cervussound.c): from main to  *)
(* the end of the process.  One thread looks for a WAD, takes the screen    *)
(* and the terminal, opens the sound, and then goes on for ever: it takes   *)
(* keys from the ring (KeyRing), starts and mixes sounds (DoomSound) and    *)
(* draws the picture.  What it took it gives back when it exits, in the     *)
(* middle of its start too; a signal that ends it lets it give back nothing.*)
(*                                                                         *)
(* doomgeneric, which is outside the repository, decides when it asks for   *)
(* what.  How the events get into the ring is DoomInput's.                  *)
(***************************************************************************)
EXTENDS KeyRing, DoomSound

CONSTANTS
  Machines,            \* where Doom is started
  RESX, RESY,          \* the picture: DOOMGENERIC_RESX and DOOMGENERIC_RESY
  BIG,                 \* a display on which the window is doubled: 1500, 950
  UNSIGNED             \* 2^32

\* A machine has a framebuffer, of a window or of its own; a window may be given
\* the size that Doom asks for, and no session has it.  The others are what Doom
\* may find there or not.
Size == [width : 0..UNSIGNED - 1, height : 0..UNSIGNED - 1]
ASSUME MachineAssumption ==
  \A m \in Machines :
    /\ m.fb \in Size /\ m.display \in Size
    /\ {m.windowed, m.resizes, m.iwad, m.tty, m.keyboard, m.audio} \subseteq BOOLEAN
    /\ m.screen \in {"free", "session"}
    /\ m.windowed => m.screen = "free"
\* The picture doubled has a size too.
ASSUME PictureAssumption ==
  /\ RESX \in Nat \ {0} /\ RESY \in Nat \ {0} /\ UNSIGNED \in Nat /\ BIG \in Size
  /\ RESX * 2 < UNSIGNED /\ RESY * 2 < UNSIGNED

VARIABLES
  machine,
  phase,       \* "main", "create", "play", "exit", "ended", or "killed" by a signal
  screen,      \* whose the screen is: "free", a "session"'s or "doom"'s
  tty,         \* how the terminal is set: "cooked" or "raw"
  g_acquired, g_have_tio,
  g_kbd,       \* the device is open
  geometry,    \* g_scale, g_ox and g_oy
  shown        \* the lines on the screen that were last drawn

ring == <<g_queue, g_qhead, g_qtail, got>>
world == <<screen, tty, g_acquired, g_have_tio, g_kbd>>
doom == <<ring, sound, machine, phase, world, geometry, shown>>

-----------------------------------------------------------------------------
\* DG_Init.

Doubled(m) == m.display.width >= BIG.width /\ m.display.height >= BIG.height

\* cervus_fb_info, after the size of a window was set.
Framebuffer(m) ==
  LET s == IF Doubled(m) THEN 2 ELSE 1
  IN IF m.windowed /\ m.resizes THEN [width |-> RESX * s, height |-> RESY * s] ELSE m.fb

\* Mutant: the height is not looked at.
ScaleOfWidth(fb) == Max({1, fb.width \div RESX})

Scale(fb) == Max({1, Min({fb.width \div RESX, fb.height \div RESY})})

\* The differences are unsigned.
Geometry(fb) ==
  [scale |-> Scale(fb),
   ox |-> ((fb.width - RESX * Scale(fb)) % UNSIGNED) \div 2,
   oy |-> ((fb.height - RESY * Scale(fb)) % UNSIGNED) \div 2]

\* Another session has the screen of a console; a window is Doom's own.
CannotAcquire == ~machine.windowed /\ screen = "session"

\* There may be no framebuffer and no memory, and then exit(1) is called.
DG_Init ==
  /\ phase = "main" /\ machine.iwad
  /\ \/ /\ phase' = "exit" /\ UNCHANGED <<geometry, world>>
     \/ /\ CannotAcquire
        /\ geometry' = Geometry(Framebuffer(machine))
        /\ phase' = "exit" /\ UNCHANGED world
     \/ /\ ~CannotAcquire
        /\ geometry' = Geometry(Framebuffer(machine))
        /\ screen' = "doom" /\ g_acquired' = TRUE
        /\ g_kbd' = (~machine.windowed /\ machine.keyboard)
        /\ g_have_tio' = (~machine.windowed /\ machine.tty)
        /\ tty' = IF g_have_tio' THEN "raw" ELSE tty
        /\ phase' = "create"
  /\ UNCHANGED <<ring, sound, machine, shown>>

\* with_default_iwad finds nothing: restore is not registered yet.
NoWad ==
  /\ phase = "main" /\ ~machine.iwad
  /\ phase' = "ended"
  /\ UNCHANGED <<ring, sound, machine, world, geometry, shown>>

\* doomgeneric_Create opens the sound, unless it was told not to.
Create ==
  /\ phase = "create"
  /\ phase' = "play"
  /\ \/ I_Cervus_InitSound /\ g_open' = machine.audio
     \/ UNCHANGED sound
  /\ UNCHANGED <<ring, machine, world, geometry, shown>>

-----------------------------------------------------------------------------
\* doomgeneric_Tick, for ever.

Playing == phase = "play" /\ UNCHANGED <<machine, phase, world, geometry>>

\* Events come from a window, a keyboard or a terminal.
Keys ==
  /\ Playing
  /\ machine.windowed \/ g_kbd \/ g_have_tio
  /\ DG_GetKey \/ \E e \in Event : queue_key(e)
  /\ UNCHANGED <<sound, shown>>

SoundCall == Playing /\ SoundCalls /\ UNCHANGED <<ring, shown>>

Mix == Playing /\ UNCHANGED <<ring, shown>> /\ I_Cervus_Update

\* The lines that DG_DrawFrame copies, each to a row of the screen.
Blits ==
  {[x |-> geometry.ox, y |-> (geometry.oy + y * geometry.scale + s) % UNSIGNED,
    width |-> RESX * geometry.scale] : y \in 0..RESY - 1, s \in 0..geometry.scale - 1}

DG_DrawFrame == Playing /\ shown' = Blits /\ UNCHANGED <<ring, sound>>

\* I_Quit closes the sound; I_Error need not.
Leave ==
  /\ phase \in {"create", "play"}
  /\ phase' = "exit"
  /\ I_Cervus_ShutdownSound \/ UNCHANGED sound
  /\ UNCHANGED <<ring, machine, world, geometry, shown>>

-----------------------------------------------------------------------------
\* Mutant: the screen is released whoever has it.
restore_anyway ==
  /\ phase = "exit" /\ phase' = "ended"
  /\ tty' = (IF g_have_tio THEN "cooked" ELSE tty) /\ screen' = "free" /\ g_kbd' = FALSE
  /\ UNCHANGED <<ring, sound, machine, g_acquired, g_have_tio, geometry, shown>>

\* exit runs what atexit registered.
restore ==
  /\ phase = "exit" /\ phase' = "ended"
  /\ tty' = IF g_have_tio THEN "cooked" ELSE tty
  /\ screen' = IF g_acquired THEN "free" ELSE screen
  /\ g_kbd' = FALSE
  /\ UNCHANGED <<ring, sound, machine, g_acquired, g_have_tio, geometry, shown>>

\* No signal is handled, and what atexit registered runs only on exit: Doom stops
\* where it is.  What the kernel takes back of a process is not spoken of.
Killed ==
  /\ phase \in {"main", "create", "play", "exit"}
  /\ phase' = "killed"
  /\ UNCHANGED <<ring, sound, machine, world, geometry, shown>>

DoomInit ==
  /\ Init /\ SoundInit
  /\ machine \in Machines /\ phase = "main"
  /\ screen = machine.screen /\ tty = "cooked"
  /\ g_acquired = FALSE /\ g_have_tio = FALSE /\ g_kbd = FALSE
  /\ geometry = [scale |-> 0, ox |-> 0, oy |-> 0]
  /\ shown = {}

DoomNext ==
  NoWad \/ DG_Init \/ Create \/ Keys \/ SoundCall \/ Mix \/ DG_DrawFrame \/ Leave \/ restore
  \/ Killed

\* Each tick of the game mixes a chunk.
DoomSpec == DoomInit /\ [][DoomNext]_doom /\ WF_doom(Mix)

-----------------------------------------------------------------------------
\* Every channel plays its sound from its first frame to its last, and what is
\* written is the sum of the channels that play, kept within a sample: sounds
\* whose lumps have any rate and any length, shorter than a chunk, as long as
\* one or longer, started, stopped and made louder at any time
\* (i_cervussound.c:41-90, 118-180).
ImplementsMixer == Promise!Spec

\* A sound ends: a channel that never falls silent is one on which the game starts
\* sounds again and again, whatever becomes of its volume (i_cervussound.c:125-141).
EffectsEnd ==
  \A c \in Channels :
    <>[](phase = "play" /\ I_Cervus_SoundIsPlaying(c)) => []<>(g_chan[c].pos = 0)

\* The picture is on the screen with all its lines, in the middle, and as large
\* as a whole number of pixels for each of its own allows.  A screen that is
\* smaller than the picture is not spoken of (lines 315-326, 371-386).
Fits(scale, fb) == RESX * scale <= fb.width /\ RESY * scale <= fb.height
PictureFits ==
  LET fb == Framebuffer(machine)
      last == geometry.oy + RESY * geometry.scale
  IN (shown # {} /\ Fits(1, fb)) =>
       /\ {b.y : b \in shown} = geometry.oy..last - 1
       /\ \A b \in shown :
            /\ b.x + b.width <= fb.width
            /\ (fb.width - b.x - b.width) - b.x \in {0, 1}
       /\ (fb.height - last) - geometry.oy \in {0, 1}
       /\ ~Fits(geometry.scale + 1, fb)

\* Wherever Doom exits, in the middle of its start too, the terminal is as it was,
\* and so is the screen: given back if Doom had it, and another session's if it was
\* that.  Of a Doom that a signal ended this is not so (lines 334-367, 418-424, 462).
GivenBack == phase = "ended" => screen = machine.screen /\ tty = "cooked" /\ ~g_kbd
=============================================================================
