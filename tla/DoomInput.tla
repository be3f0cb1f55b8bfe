----------------------------- MODULE DoomInput -----------------------------
(***************************************************************************)
(* Doom's input (doomgeneric_cervus.c): what the devices or the window     *)
(* report is drained once a frame, and whenever the game asks for a key    *)
(* and none waits; keys are translated, remembered and queued, and the     *)
(* game takes them out one by one.  One thread does it all; the devices    *)
(* go on reporting while it drains them.                                   *)
(*                                                                         *)
(* A key the game knows is a member of Keys, a key of the keyboard one of  *)
(* Codes.  The queue is the sequence that KeyRing.tla implements.          *)
(***************************************************************************)
EXTENDS Naturals, Sequences

CONSTANTS
  Sources,     \* what may be drained: a "window", the "evdev" devices, the "tty"
  Codes,       \* linux key codes, as numbers below 256
  Chars,       \* the characters a terminal sends
  Keys,        \* Doom's keys
  MenuKey,     \* the key of each code or character outside a level ...
  GameKey,     \* ... and in one; None when it has none
  Buttons,     \* the bits of the mouse buttons
  WheelBits,   \* the bits a turn of the wheel is reported as
  KQ_SIZE,     \* slots of the queue: 128 in the source
  MaxEvents,   \* bound: what the user does
  None

KeyEvent == [pressed : BOOLEAN, key : Keys]
Report ==
       [type : {"key"}, code : Codes, value : 0..2]
  \cup [type : {"button"}, code : Buttons, value : 0..1]
  \cup [type : {"wheel"}, code : WheelBits]
  \cup [type : {"focus"}, value : 0..1]
  \cup [type : {"char"}, code : Chars]
  \cup [type : {"motion", "close"}]

ASSUME SourceAssumption == Sources \subseteq {"window", "evdev", "tty"}
ASSUME CodeAssumption == Codes \subseteq Nat /\ Codes \cap Chars = {}
ASSUME KeyAssumption ==
  /\ None \notin Keys
  /\ MenuKey \in [Codes \cup Chars -> Keys \cup {None}]
  /\ GameKey \in [Codes \cup Chars -> Keys \cup {None}]
ASSUME BitAssumption == Buttons \cap (Codes \cup WheelBits) = {}
ASSUME SizeAssumption == KQ_SIZE \in Nat /\ KQ_SIZE >= 2 /\ MaxEvents \in Nat

VARIABLES
  phase,       \* "game", "drain", "release" (release_all) or "quit"
  queue,       \* the key events that wait for the game
  g_sent,      \* for each code that was reported down, the key it was sent as
  g_buttons, g_focused, g_grabbed,
  moved,       \* dx is not 0 in this drain
  source,      \* what DG_Init found to drain
  in_game,     \* gamestate == GS_LEVEL && !menuactive
  down,        \* the keys the game was last told are down
  told,        \* the buttons and wheel bits the game was last told
  dev,         \* reports that wait in the devices or the window
  held,        \* codes and buttons the user holds
  focus,       \* the window has the keyboard
  events,
  lost         \* history: keys whose release found the queue full

mine == <<phase, queue, g_sent, g_buttons, g_focused, g_grabbed, moved>>
user == <<source, dev, held, focus, events>>
vars == <<mine, user, in_game, down, told, lost>>

Init ==
  /\ phase = "game" /\ queue = <<>> /\ g_sent = [c \in Codes |-> None]
  /\ g_buttons = {} /\ g_focused = TRUE /\ g_grabbed = FALSE /\ moved = FALSE
  /\ source \in Sources /\ in_game = FALSE /\ down = {} /\ told = {}
  /\ dev = <<>> /\ held = {} /\ focus = TRUE /\ events = 0 /\ lost = {}
-----------------------------------------------------------------------------
\* Mutant: one more than the ring can hold.
HasSlot(q) == Len(q) < KQ_SIZE

HasRoom(q) == Len(q) < KQ_SIZE - 1

Queued(q, pressed, key) ==
  IF HasRoom(q) THEN Append(q, [pressed |-> pressed, key |-> key]) ELSE q

\* Mutant: the release of a key is the release of what the code means now.
SentNow(c) == IF in_game THEN GameKey[c] ELSE MenuKey[c]

\* What the press of c was sent as.
SentAs(c) == g_sent[c]

KeyUp(c) ==
  LET k == SentAs(c) IN
  IF g_sent[c] = None THEN UNCHANGED <<queue, g_sent, lost>>
  ELSE /\ queue' = Queued(queue, FALSE, k)
       /\ g_sent' = [g_sent EXCEPT ![c] = None]
       /\ lost' = IF HasRoom(queue) THEN lost \ {k} ELSE lost \cup {k}

Meaning(c) == IF in_game THEN GameKey[c] ELSE MenuKey[c]

\* Mutant: a key that is down is sent again.
KeyDownAgain(c) ==
  IF Meaning(c) = None THEN UNCHANGED <<queue, g_sent, lost>>
  ELSE /\ queue' = Queued(queue, TRUE, Meaning(c))
       /\ g_sent' = [g_sent EXCEPT ![c] = Meaning(c)]
       /\ UNCHANGED lost

KeyDown(c) ==
  IF g_sent[c] # None \/ Meaning(c) = None THEN UNCHANGED <<queue, g_sent, lost>>
  ELSE /\ queue' = Queued(queue, TRUE, Meaning(c))
       /\ g_sent' = [g_sent EXCEPT ![c] = Meaning(c)]
       /\ UNCHANGED lost

\* Mutant: a character is a press only.
TypedDown(c) ==
  /\ UNCHANGED <<g_sent, lost>>
  /\ queue' = IF Meaning(c) = None THEN queue ELSE Queued(queue, TRUE, Meaning(c))

\* A terminal sends no releases: a character is a press and a release at once.
Typed(c) ==
  LET k == Meaning(c)
      q == Queued(queue, TRUE, k) IN
  /\ UNCHANGED g_sent
  /\ IF k = None THEN UNCHANGED <<queue, lost>>
     ELSE /\ queue' = Queued(q, FALSE, k)
          /\ lost' = IF HasRoom(q) THEN lost \ {k} ELSE lost \cup {k}

keys == <<queue, g_sent, lost>>

\* The wheel is reported as a bit that is set and cleared again.
WheelTurned(bit) == g_buttons

\* post_mouse: the game is told the buttons that are down.
button_event(bit, pressed) ==
  /\ g_buttons' = IF pressed THEN g_buttons \cup {bit} ELSE g_buttons \ {bit}
  /\ told' = g_buttons'

\* How far the mouse went is told with the buttons.
motion_event(dx) == told' = IF dx /\ in_game THEN g_buttons ELSE told

\* The first report that waits is dealt with.
Handle ==
  LET e == Head(dev) IN
  /\ phase = "drain" /\ dev # <<>>
  /\ dev' = Tail(dev)
  /\ \/ /\ e.type = "key" /\ (source = "evdev" => e.value # 2)
        /\ IF e.value = 0 THEN KeyUp(e.code) ELSE KeyDown(e.code)
        /\ UNCHANGED <<phase, g_buttons, g_focused, moved, told>>
     \/ /\ e.type = "key" /\ source = "evdev" /\ e.value = 2
        /\ UNCHANGED <<keys, phase, g_buttons, g_focused, moved, told>>
     \/ /\ e.type = "button" /\ button_event(e.code, e.value = 1)
        /\ UNCHANGED <<keys, phase, g_focused, moved>>
     \/ /\ e.type = "wheel"
        /\ told' = IF in_game THEN WheelTurned(e.code) ELSE told
        /\ UNCHANGED <<keys, phase, g_buttons, g_focused, moved>>
     \/ /\ e.type = "motion" /\ moved' = TRUE
        /\ UNCHANGED <<keys, phase, g_buttons, g_focused, told>>
     \/ /\ e.type = "focus" /\ g_focused' = (e.value = 1)
        /\ phase' = IF e.value = 1 THEN phase ELSE "release"
        /\ UNCHANGED <<keys, g_buttons, moved, told>>
     \/ /\ e.type = "char" /\ Typed(e.code)
        /\ UNCHANGED <<phase, g_buttons, g_focused, moved, told>>
     \/ /\ e.type = "close" /\ phase' = "quit"
        /\ UNCHANGED <<keys, g_buttons, g_focused, moved, told>>
  /\ UNCHANGED <<source, g_grabbed, in_game, down, held, focus, events>>

\* release_all: the codes in order, then the buttons.
ReleaseNext ==
  /\ phase = "release"
  /\ \E c \in Codes :
       /\ g_sent[c] # None /\ \A d \in Codes : g_sent[d] # None => c <= d
       /\ KeyUp(c)
  /\ UNCHANGED <<phase, g_buttons, g_focused, g_grabbed, moved, user, in_game, down, told>>

\* Mutant: the buttons stay as they are.
ReleaseKeysOnly ==
  /\ phase = "release" /\ \A c \in Codes : g_sent[c] = None
  /\ phase' = "drain"
  /\ UNCHANGED <<keys, g_buttons, told, g_focused, g_grabbed, moved, user, in_game, down>>

ReleaseButtons ==
  /\ phase = "release" /\ \A c \in Codes : g_sent[c] = None
  /\ g_buttons' = {}
  /\ told' = IF g_buttons # {} THEN {} ELSE told
  /\ phase' = "drain"
  /\ UNCHANGED <<keys, g_focused, g_grabbed, moved, user, in_game, down>>

WantsPointer == g_focused /\ in_game

\* When nothing waits, the motion is reported (by a window only while it has
\* the pointer), and a window asks for the pointer or lets it go, which may fail.
EndDrain ==
  /\ phase = "drain" /\ dev = <<>>
  /\ phase' = "game" /\ moved' = FALSE
  /\ motion_event(moved /\ (source = "window" => g_grabbed))
  /\ IF source = "window" THEN g_grabbed' \in {g_grabbed, WantsPointer}
     ELSE UNCHANGED g_grabbed
  /\ UNCHANGED <<keys, g_buttons, g_focused, user, in_game, down>>
-----------------------------------------------------------------------------
\* The game draws a frame, or asks for a key and none waits.
StartDrain ==
  /\ phase = "game" /\ phase' = "drain"
  /\ UNCHANGED <<keys, g_buttons, g_focused, g_grabbed, moved, user, in_game, down, told>>

DG_GetKey ==
  /\ phase = "game" /\ queue # <<>>
  /\ queue' = Tail(queue)
  /\ down' = IF Head(queue).pressed THEN down \cup {Head(queue).key}
             ELSE down \ {Head(queue).key}
  /\ UNCHANGED <<phase, g_sent, g_buttons, g_focused, g_grabbed, moved, user, in_game, told, lost>>

\* A level begins or ends, or the menu opens or closes.
Turn ==
  /\ phase = "game" /\ in_game' = ~in_game
  /\ UNCHANGED <<mine, user, down, told, lost>>

\* The user does something and the device reports it.  A window gets key and
\* button reports only while it has the focus.
Reports(e) ==
  /\ phase # "quit" /\ events < MaxEvents /\ events' = events + 1
  /\ dev' = IF source = "window" /\ e.type # "focus" /\ ~focus THEN dev ELSE Append(dev, e)
  /\ UNCHANGED <<mine, source, in_game, down, told, lost>>

Press ==
  \/ \E c \in Codes \ held : /\ source # "tty" /\ held' = held \cup {c}
                             /\ Reports([type |-> "key", code |-> c, value |-> 1])
  \/ \E b \in Buttons \ held : /\ held' = held \cup {b}
                               /\ Reports([type |-> "button", code |-> b, value |-> 1])

Release ==
  \/ \E c \in Codes \cap held : /\ held' = held \ {c}
                                /\ Reports([type |-> "key", code |-> c, value |-> 0])
  \/ \E b \in Buttons \cap held : /\ held' = held \ {b}
                                  /\ Reports([type |-> "button", code |-> b, value |-> 0])

Repeat ==
  \E c \in Codes \cap held : /\ UNCHANGED held
                             /\ Reports([type |-> "key", code |-> c, value |-> 2])

Point ==
  /\ UNCHANGED held
  /\ \/ \E b \in WheelBits : Reports([type |-> "wheel", code |-> b])
     \/ Reports([type |-> "motion"])

Type ==
  /\ source = "tty" /\ UNCHANGED held
  /\ \E c \in Chars : Reports([type |-> "char", code |-> c])

Window ==
  /\ source = "window" /\ UNCHANGED held
  /\ \/ focus' = ~focus /\ Reports([type |-> "focus", value |-> IF focus THEN 0 ELSE 1])
     \/ UNCHANGED focus /\ Reports([type |-> "close"])

Act == ((Press \/ Release \/ Repeat \/ Point \/ Type) /\ UNCHANGED focus) \/ Window

Work == Handle \/ ReleaseNext \/ ReleaseButtons \/ EndDrain

Next == Work \/ StartDrain \/ DG_GetKey \/ Turn \/ Act

Spec == Init /\ [][Next]_vars

\* The game goes on asking for keys and drawing frames until it quits.
FairSpec ==
  /\ Spec
  /\ WF_vars(Work) /\ SF_vars(DG_GetKey) /\ SF_vars(StartDrain)
-----------------------------------------------------------------------------
\* The type invariant.
TypeOK ==
  /\ source \in Sources /\ phase \in {"game", "drain", "release", "quit"}
  /\ queue \in Seq(KeyEvent) /\ Len(queue) <= KQ_SIZE - 1
  /\ g_sent \in [Codes -> Keys \cup {None}]
  /\ g_buttons \subseteq Buttons
  /\ g_focused \in BOOLEAN /\ g_grabbed \in BOOLEAN /\ moved \in BOOLEAN
  /\ in_game \in BOOLEAN /\ focus \in BOOLEAN
  /\ down \subseteq Keys /\ told \subseteq Buttons \cup WheelBits /\ lost \subseteq Keys
  /\ dev \in Seq(Report) /\ held \subseteq Codes \cup Buttons /\ events \in Nat

\* Of the keys d that are down, and the events q that wait, k is down in the end.
DownAfter(d, q, k) ==
  \/ k \in d /\ \A i \in 1..Len(q) : q[i].key # k
  \/ \E i \in 1..Len(q) : /\ q[i].pressed /\ q[i].key = k
                          /\ \A j \in i + 1..Len(q) : q[j].key # k

\* No key stays down in the game that no code was sent as, but one whose
\* release found the queue full: a release is sent as the key its press was,
\* whatever the code means by then (lines 138-163).
NoStuckKey ==
  \A k \in Keys : DownAfter(down, queue, k) => k \in lost \/ \E c \in Codes : g_sent[c] = k

\* When all reports have been drained and taken, what the game holds down is
\* held by the user: also after a key was held over a change of menu or focus.
Settled == phase = "game" /\ dev = <<>> /\ queue = <<>>
DownIsHeld ==
  Settled => /\ \A k \in down \ lost : \E c \in held \cap Codes : g_sent[c] = k
             /\ told \subseteq held

\* A window that is out of focus has no key or button down once it has drained
\* (lines 199-203, 277-280).
OutOfFocusIsIdle ==
  (phase = "game" /\ ~g_focused) => g_buttons = {} /\ \A c \in Codes : g_sent[c] = None

\* What the user lets go of the game sees come up, unless its release found the
\* queue full.
LetGoComesUp ==
  (<>[](held = {})) => <>[](phase = "quit" \/ (down \subseteq lost /\ told = {}))
=============================================================================
