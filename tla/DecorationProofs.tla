-------------------------- MODULE DecorationProofs --------------------------
(***************************************************************************)
(* Whatever of a decorated window goes first, nothing keeps a record that    *)
(* was freed, and every object was told the mode that is in effect: for any  *)
(* number of records, windows and surfaces.                                  *)
(***************************************************************************)
EXTENDS Decoration, TLAPS

RecordType ==
  [live : BOOLEAN, window : Windows \cup {None}, pending : Desktops \cup {None},
   role : Roles \cup {None}, xdg : BOOLEAN, kde : BOOLEAN, requested : Modes,
   server : BOOLEAN, frame : BOOLEAN, mapped : BOOLEAN]
WindowType ==
  [live : BOOLEAN, desktop : Desktops \cup {None}, mapped : BOOLEAN,
   fullscreen : BOOLEAN, decoration : Decos \cup {None}]
DesktopType == [surface : Surfaces \cup {None}, window : Windows \cup {None}]
ToldType == [xdg : Modes \cup {None}, kde : Modes \cup {None}]

\* A record r in cell c, among windows w: it is in use or free, its window knows
\* it, and what is drawn of it is drawn by the compositor, off fullscreen.
Sound(c, r, w) ==
  /\ (r.pending = None) = (r.role = None)
  /\ ~r.live => r = Free
  /\ r.live => r.xdg \/ r.kde
  /\ r.window # None => w[r.window].decoration = c /\ r.pending = None
  /\ r.mapped => r.frame /\ r.server /\ r.window # None /\ ~w[r.window].fullscreen

\* What the objects of a record r were told.
Knows(r, t) ==
  /\ r.xdg => t.xdg = Mode(r.server)
  /\ r.kde => t.kde = Mode(r.server)

\* A window x in cell h, and a desktop surface y at d.
Known(h, x, records) == x.decoration # None => x.live /\ records[x.decoration].window = h
Linked(d, y, w) == y.window # None => w[y.window].live /\ w[y.window].desktop = d

\* What the pointer may keep.
Held(p, records) ==
  p \in Decos \cup {None} /\ (p # None => records[p].frame /\ records[p].window # None)

\* The records, with the objects of both protocols, and the windows.
Types ==
  /\ deco \in [Decos -> RecordType] /\ window \in [Windows -> WindowType]
  /\ desktop \in [Desktops -> DesktopType] /\ told \in [Decos -> ToldType]
  /\ surfaces \subseteq Surfaces /\ configure \subseteq Desktops /\ crashed \in BOOLEAN
AllSound == \A c \in Decos : Sound(c, deco[c], window)
AllKnow == \A c \in Decos : Knows(deco[c], told[c])
AllKnown == \A h \in Windows : Known(h, window[h], deco)
AllLinked == \A d \in Desktops : Linked(d, desktop[d], window)
AllHeld == Held(deco_hover, deco) /\ Held(focus, deco) /\ Held(grab, deco)
OneWaits ==
  \A b, c \in Decos : deco[b].pending = deco[c].pending /\ deco[b].pending # None => b = c

Inv == Types /\ AllSound /\ AllKnow /\ AllKnown /\ AllLinked /\ AllHeld /\ OneWaits
-----------------------------------------------------------------------------
\* What the operators on records make of them.
LEMMA FreeIs == Free \in RecordType /\ NoWindow \in WindowType /\ NoDesktop \in DesktopType
                /\ NotTold \in ToldType
  BY DEF Free, RecordType, NoWindow, WindowType, NoDesktop, DesktopType, NotTold, ToldType, Modes

LEMMA AppliedIs ==
  ASSUME NEW r \in RecordType
  PROVE  /\ Applied(r) \in RecordType
         /\ Applied(r).live = r.live /\ Applied(r).window = r.window
         /\ Applied(r).pending = r.pending /\ Applied(r).role = r.role
         /\ Applied(r).xdg = r.xdg /\ Applied(r).kde = r.kde
         /\ Applied(r).frame = r.frame /\ Applied(r).server = wants_server(r)
         /\ Applied(r).mapped = (r.mapped /\ (wants_server(r) \/ r.window = None))
  <1> DEFINE w == wants_server(r)
             m == r.mapped /\ (w \/ r.window = None)
  <1>1. w \in BOOLEAN /\ m \in BOOLEAN
    BY DEF wants_server, RecordType
  <1>2. Applied(r) = [r EXCEPT !.server = w, !.mapped = m]
    BY DEF Applied
  <1> HIDE DEF w, m
  <1>3. LET a == [r EXCEPT !.server = w, !.mapped = m] IN
        /\ a \in RecordType
        /\ a.live = r.live /\ a.window = r.window /\ a.pending = r.pending /\ a.role = r.role
        /\ a.xdg = r.xdg /\ a.kde = r.kde /\ a.frame = r.frame
        /\ a.server = w /\ a.mapped = m
    BY <1>1 DEF RecordType
  <1> QED
    BY <1>2, <1>3 DEF w, m

LEMMA UpdatedIs ==
  ASSUME NEW r \in RecordType, NEW m \in BOOLEAN, NEW f \in BOOLEAN
  PROVE  LET u == Updated(r, m, f) IN
         /\ u \in RecordType
         /\ u.live = r.live /\ u.window = r.window /\ u.pending = r.pending
         /\ u.role = r.role /\ u.xdg = r.xdg /\ u.kde = r.kde /\ u.server = r.server
         /\ r.frame => u.frame
         /\ u.mapped => (r.mapped /\ ~r.server) \/ (u.frame /\ r.server /\ ~f)
  BY DEF Updated, RecordType

LEMMA UnpendIs ==
  ASSUME NEW r \in RecordType
  PROVE  LET u == unpend(r) IN
         /\ u \in RecordType
         /\ u.live = r.live /\ u.window = r.window /\ u.pending = None /\ u.role = None
         /\ u.xdg = r.xdg /\ u.kde = r.kde /\ u.server = r.server
         /\ u.frame = r.frame /\ u.mapped = r.mapped
  BY DEF unpend, RecordType

LEMMA UnpendFree == unpend(Free) = Free
  <1>1. \A r \in RecordType : r.pending = None /\ r.role = None => unpend(r) = r
    BY DEF RecordType, unpend
  <1>2. Free.pending = None /\ Free.role = None
    BY DEF Free
  <1> QED
    BY <1>1, <1>2, FreeIs

LEMMA OrphanedIs ==
  ASSUME NEW r \in RecordType
  PROVE  LET u == Orphaned(r) IN
         /\ u \in RecordType
         /\ u.window = None /\ ~u.frame /\ ~u.mapped
         /\ IF r.xdg \/ r.kde
            THEN /\ u.live = r.live /\ u.pending = r.pending /\ u.role = r.role
                 /\ u.xdg = r.xdg /\ u.kde = r.kde /\ u.server = r.server
            ELSE u = Free
  BY FreeIs DEF Orphaned, free_visuals, RecordType, Free
LEMMA SoundApplied ==
  ASSUME NEW c, NEW r \in RecordType, NEW w, r.live, Sound(c, r, w)
  PROVE  Sound(c, Applied(r), w)
  <1> DEFINE a == Applied(r)
  <1>1. /\ a.live = r.live /\ a.window = r.window /\ a.pending = r.pending
        /\ a.role = r.role /\ a.xdg = r.xdg /\ a.kde = r.kde /\ a.frame = r.frame
        /\ a.server = wants_server(r)
        /\ a.mapped = (r.mapped /\ (wants_server(r) \/ r.window = None))
    BY AppliedIs
  <1> HIDE DEF a
  <1>2. (a.pending = None) = (a.role = None)
    BY <1>1 DEF Sound
  <1>3. a.live /\ (a.xdg \/ a.kde)
    BY <1>1 DEF Sound
  <1>4. a.window # None => w[a.window].decoration = c /\ a.pending = None
    BY <1>1 DEF Sound
  <1>5. a.mapped => a.frame /\ a.server /\ a.window # None /\ ~w[a.window].fullscreen
    BY <1>1 DEF Sound
  <1>6. Sound(c, a, w)
    BY <1>2, <1>3, <1>4, <1>5 DEF Sound
  <1> QED
    BY <1>6 DEF a

\* A record that has an object, a window, a place on the list or a frame is not free.
LEMMA InUse ==
  ASSUME Inv, NEW c \in Decos,
         \/ deco[c].xdg \/ deco[c].kde \/ deco[c].window # None \/ deco[c].pending # None
         \/ deco[c].frame
  PROVE  deco[c].live
  <1>1. /\ ~Free.xdg /\ ~Free.kde /\ Free.window = None /\ Free.pending = None
        /\ ~Free.frame
    BY DEF Free
  <1> QED
    BY <1>1 DEF Inv, AllSound, Sound

LEMMA OutOfUse ==
  ASSUME Inv, NEW c \in Decos, ~deco[c].live
  PROVE  /\ deco[c] = Free /\ deco[c].window = None /\ deco[c].pending = None
         /\ ~deco[c].frame /\ ~deco[c].mapped /\ ~deco[c].xdg /\ ~deco[c].kde
  <1>1. deco[c] = Free
    BY DEF Inv, AllSound, Sound
  <1> QED
    BY <1>1 DEF Free
-----------------------------------------------------------------------------
\* A mode is set for a record that stays.
LEMMA SetModeKeeps ==
  ASSUME Inv, NEW c \in Decos, NEW mode \in Modes, SetMode(c, mode)
  PROVE  Inv'
  <1> USE DEF Inv
  <1> DEFINE r == [deco[c] EXCEPT !.requested = mode]
             a == Applied(r)
  <1>1. /\ r \in RecordType /\ r.live = deco[c].live /\ r.window = deco[c].window
        /\ r.pending = deco[c].pending /\ r.role = deco[c].role
        /\ r.xdg = deco[c].xdg /\ r.kde = deco[c].kde /\ r.frame = deco[c].frame
        /\ r.mapped = deco[c].mapped /\ r.server = deco[c].server
    BY DEF Types, RecordType
  <1>2. /\ deco' = [deco EXCEPT ![c] = a]
        /\ told' = [told EXCEPT ![c] = send_mode(c, a)]
        /\ focus' = IF a.mapped THEN focus ELSE LoseFocus(c)
        /\ configure' = Asked(r)
        /\ UNCHANGED <<window, desktop, surfaces, deco_hover, grab, crashed>>
    BY DEF SetMode, apply, outside
  <1>3. deco[c].live
    BY InUse DEF SetMode
  <1> HIDE DEF r
  <1>4. /\ a \in RecordType /\ a.window = deco[c].window /\ a.pending = deco[c].pending
        /\ a.frame = deco[c].frame
    BY <1>1, AppliedIs
  <1>5. Sound(c, r, window)
    BY <1>1, <1>3 DEF AllSound, Sound
  <1>6. Sound(c, a, window)
    BY <1>1, <1>3, <1>5, SoundApplied
  <1> HIDE DEF a
  <1>7. send_mode(c, a) \in ToldType /\ Knows(a, send_mode(c, a))
    BY DEF send_mode, ToldType, Mode, Modes, Knows
  <1>8. configure' \subseteq Desktops
    BY <1>1, <1>2 DEF Types, Asked, force_configure, WindowType, RecordType
  <1>t1. Types'
    BY <1>2, <1>4, <1>7, <1>8 DEF Types
  <1>t2. AllSound'
    BY <1>2, <1>6 DEF Types, AllSound
  <1>t3. AllKnow'
    BY <1>2, <1>7 DEF Types, AllKnow
  <1>t4. AllKnown'
    BY <1>2, <1>4 DEF Types, AllKnown, Known
  <1>t5. AllLinked'
    BY <1>2 DEF AllLinked
  <1>t6. AllHeld'
    BY <1>2, <1>4, NoneAssumption DEF Types, AllHeld, Held, LoseFocus
  <1>t7. OneWaits'
    BY <1>2, <1>4 DEF Types, OneWaits
  <1> QED
    BY <1>t1, <1>t2, <1>t3, <1>t4, <1>t5, <1>t6, <1>t7
-----------------------------------------------------------------------------
\* The record c that decoration_get gives as r: the one in the cell, or a new one
\* there, which has a window that had none or waits where no other does.
Given(c, r) ==
  /\ r \in RecordType /\ r.live
  /\ (r.pending = None) = (r.role = None)
  /\ r.window # None =>
       /\ window[r.window].live /\ window[r.window].decoration \in {c, None}
       /\ r.pending = None
  /\ r.mapped => r.frame /\ r.server /\ r.window # None /\ ~window[r.window].fullscreen
  /\ deco[c].live => r = deco[c]
  /\ r.pending # None => \A b \in Decos : deco[b].pending = r.pending => b = c

LEMMA GetGives ==
  ASSUME Inv, NEW d \in Desktops, NEW role \in Roles, NEW c \in Decos, NEW r,
         decoration_get(d, role, c, r)
  PROVE  Given(c, r)
  <1> USE DEF Inv
  <1>1. CASE c \in RecordsOf(d) /\ r = deco[c]
    <2>1. deco[c].window # None \/ deco[c].pending # None
      BY <1>1, NoneAssumption DEF RecordsOf, Pending, AllKnown, Known, Types, DesktopType
    <2>2. deco[c].live
      BY <2>1, InUse
    <2>3. r.window # None => window[r.window].live
      BY <1>1, NoneAssumption DEF AllSound, Sound, AllKnown, Known, Types, RecordType
    <2> QED
      BY <1>1, <2>2, <2>3 DEF Given, Types, AllSound, Sound, OneWaits
  <1>2. CASE RecordsOf(d) = {} /\ ~deco[c].live /\ r = NewRecord(d, role)
    <2>1. desktop[d].window \in Windows \cup {None}
      BY DEF Types, DesktopType
    <2>2. CASE desktop[d].window # None
      <3> DEFINE h == desktop[d].window
      <3>1. h \in Windows /\ window[h].live /\ window[h].decoration = None
        BY <1>2, <2>1, <2>2 DEF AllLinked, Linked, RecordsOf
      <3>2. r = [Free EXCEPT !.live = TRUE, !.window = h]
        BY <1>2, <2>2 DEF NewRecord
      <3> HIDE DEF h
      <3>3. /\ r \in RecordType /\ r.live /\ r.window = h /\ r.pending = None /\ r.role = None
            /\ ~r.mapped
        <4>1. \A q \in RecordType :
                LET n == [q EXCEPT !.live = TRUE, !.window = h] IN
                /\ n \in RecordType /\ n.live /\ n.window = h /\ n.pending = q.pending
                /\ n.role = q.role /\ n.mapped = q.mapped
          BY <3>1 DEF RecordType
        <4>2. Free.pending = None /\ Free.role = None /\ ~Free.mapped
          BY DEF Free
        <4> QED
          BY <3>2, <4>1, <4>2, FreeIs
      <3> QED
        BY <1>2, <3>1, <3>3 DEF Given
    <2>3. CASE desktop[d].window = None
      <3>1. r = [Free EXCEPT !.live = TRUE, !.pending = d, !.role = role]
        BY <1>2, <2>3 DEF NewRecord
      <3>2. /\ r \in RecordType /\ r.live /\ r.window = None /\ r.pending = d /\ r.role = role
            /\ ~r.mapped
        BY <3>1, FreeIs DEF RecordType, Free
      <3>3. \A b \in Decos : deco[b].pending # d
        BY <1>2, <2>3 DEF RecordsOf, Pending
      <3>4. d # None /\ role # None
        BY NoneAssumption DEF Roles
      <3> QED
        BY <1>2, <3>2, <3>3, <3>4 DEF Given
    <2> QED
      BY <2>2, <2>3
  <1> QED
    BY <1>1, <1>2 DEF decoration_get

\* An object q for the record r, which decoration_get gave.
LEMMA AdoptKeeps ==
  ASSUME Inv, NEW d \in Desktops, NEW c \in Decos, NEW r, Given(c, r), NEW q \in RecordType,
         q.live = r.live, q.window = r.window, q.pending = r.pending, q.role = r.role,
         q.frame = r.frame, q.mapped = r.mapped, q.server = r.server, q.xdg \/ q.kde,
         Adopt(d, c, q)
  PROVE  Inv'
  <1> USE DEF Inv
  <1> DEFINE a == Applied(q)
  <1>1. /\ deco' = [deco EXCEPT ![c] = a]
        /\ told' = [told EXCEPT ![c] = send_mode(c, a)]
        /\ focus' = IF a.mapped THEN focus ELSE LoseFocus(c)
        /\ window' = IF q.window = None THEN window
                     ELSE [window EXCEPT ![q.window].decoration = c]
        /\ configure' = Asked(q) \cup force_configure(d)
        /\ UNCHANGED <<desktop, surfaces, deco_hover, grab, crashed>>
    BY DEF Adopt, apply, outside
  <1>2. /\ a \in RecordType /\ a.window = q.window /\ a.pending = q.pending
        /\ a.frame = q.frame /\ a.live
    BY AppliedIs DEF Given
  <1>3. /\ window' \in [Windows -> WindowType]
        /\ \A h \in Windows :
             /\ window'[h].live = window[h].live /\ window'[h].desktop = window[h].desktop
             /\ window'[h].fullscreen = window[h].fullscreen
             /\ h # q.window => window'[h].decoration = window[h].decoration
        /\ q.window # None => q.window \in Windows /\ window'[q.window].decoration = c
    <2>1. q.window \in Windows \cup {None} /\ window \in [Windows -> WindowType]
      BY DEF Types, RecordType
    <2> QED
      BY <1>1, <2>1 DEF WindowType
  <1>4. Sound(c, q, window')
    BY <1>3 DEF Given, Sound
  <1>5. Sound(c, a, window')
    BY <1>4, SoundApplied DEF Given
  <1>6. /\ deco[c].window # None => q.window = deco[c].window
        /\ deco[c].frame => q.frame
        /\ deco[c].pending # None => q.pending = deco[c].pending
    BY OutOfUse DEF Given
  <1> HIDE DEF a
  <1>7. send_mode(c, a) \in ToldType /\ Knows(a, send_mode(c, a))
    BY DEF send_mode, ToldType, Mode, Modes, Knows
  <1>8. configure' \subseteq Desktops
    BY <1>1 DEF Types, Asked, force_configure, WindowType, RecordType
  <1>9. ASSUME NEW b \in Decos, b # c, deco[b].window # None
        PROVE  deco[b].window # q.window /\ deco[b].window \in Windows
    BY <1>9, NoneAssumption DEF AllSound, Sound, Given, Types, RecordType
  <1>t1. Types'
    BY <1>1, <1>2, <1>3, <1>7, <1>8 DEF Types
  <1>t2. AllSound'
    <2> SUFFICES ASSUME NEW b \in Decos, b # c PROVE Sound(b, deco[b], window')
      BY <1>1, <1>5 DEF Types, AllSound
    <2> QED
      BY <1>3, <1>9 DEF AllSound, Sound, Types, RecordType
  <1>t3. AllKnow'
    BY <1>1, <1>7 DEF Types, AllKnow
  <1>t4. AllKnown'
    BY <1>1, <1>2, <1>3, <1>6, NoneAssumption DEF Types, AllKnown, Known, Given
  <1>t5. AllLinked'
    BY <1>1, <1>3 DEF AllLinked, Linked, Types, DesktopType
  <1>t6. AllHeld'
    BY <1>1, <1>2, <1>6, NoneAssumption DEF Types, AllHeld, Held, LoseFocus
  <1>t7. OneWaits'
    BY <1>1, <1>2, <1>6 DEF Types, OneWaits, Given
  <1> QED
    BY <1>t1, <1>t2, <1>t3, <1>t4, <1>t5, <1>t6, <1>t7

LEMMA XdgKeeps ==
  ASSUME Inv, NEW d \in Desktops, xdg_manager_get_toplevel_decoration(d)
  PROVE  Inv'
  <1> DEFINE role == <<desktop[d].surface, "toplevel">>
  <1>1. \E c \in Decos : \E r : decoration_get(d, role, c, r) /\ Adopt(d, c, [r EXCEPT !.xdg = TRUE])
    BY DEF xdg_manager_get_toplevel_decoration
  <1>2. PICK c \in Decos : \E r : decoration_get(d, role, c, r) /\ Adopt(d, c, [r EXCEPT !.xdg = TRUE])
    BY <1>1
  <1>3. PICK r : decoration_get(d, role, c, r) /\ Adopt(d, c, [r EXCEPT !.xdg = TRUE])
    BY <1>2
  <1>4. role \in Roles
    BY DEF xdg_manager_get_toplevel_decoration, Inv, Types, DesktopType, Roles
  <1>5. Given(c, r)
    BY <1>3, <1>4, GetGives
  <1> DEFINE q == [r EXCEPT !.xdg = TRUE]
  <1>6. /\ q \in RecordType /\ q.live = r.live /\ q.window = r.window
        /\ q.pending = r.pending /\ q.role = r.role /\ q.frame = r.frame
        /\ q.mapped = r.mapped /\ q.server = r.server /\ q.xdg
    BY <1>5 DEF Given, RecordType
  <1>7. Adopt(d, c, q)
    BY <1>3
  <1> HIDE DEF q
  <1> QED
    BY <1>5, <1>6, <1>7, AdoptKeeps

LEMMA KdeKeeps ==
  ASSUME Inv, NEW d \in Desktops, kde_manager_create(d)
  PROVE  Inv'
  <1> DEFINE role == <<desktop[d].surface, "surface">>
  <1>1. \E c \in Decos : \E r : decoration_get(d, role, c, r) /\ Adopt(d, c, [r EXCEPT !.kde = TRUE])
    BY DEF kde_manager_create
  <1>2. PICK c \in Decos : \E r : decoration_get(d, role, c, r) /\ Adopt(d, c, [r EXCEPT !.kde = TRUE])
    BY <1>1
  <1>3. PICK r : decoration_get(d, role, c, r) /\ Adopt(d, c, [r EXCEPT !.kde = TRUE])
    BY <1>2
  <1>4. role \in Roles
    BY DEF kde_manager_create, Inv, Types, DesktopType, Roles
  <1>5. Given(c, r)
    BY <1>3, <1>4, GetGives
  <1> DEFINE q == [r EXCEPT !.kde = TRUE]
  <1>6. /\ q \in RecordType /\ q.live = r.live /\ q.window = r.window
        /\ q.pending = r.pending /\ q.role = r.role /\ q.frame = r.frame
        /\ q.mapped = r.mapped /\ q.server = r.server /\ q.kde
    BY <1>5 DEF Given, RecordType
  <1>7. Adopt(d, c, q)
    BY <1>3
  <1> HIDE DEF q
  <1> QED
    BY <1>5, <1>6, <1>7, AdoptKeeps

\* An object goes: the record stays for the other, or goes with it.
LEMMA ObjectGoes ==
  ASSUME Inv, NEW c \in Decos, deco[c].live, NEW r \in RecordType,
         r.live = deco[c].live, r.window = deco[c].window, r.pending = deco[c].pending,
         r.role = deco[c].role, r.frame = deco[c].frame, r.mapped = deco[c].mapped,
         r.server = deco[c].server, r.xdg => deco[c].xdg, r.kde => deco[c].kde,
         ResourceDestroyed(c, r)
  PROVE  Inv'
  <1> USE DEF Inv
  <1>1. Sound(c, deco[c], window) /\ Knows(deco[c], told[c]) /\ deco[c] \in RecordType
    BY DEF AllSound, AllKnow, Types
  <1> DEFINE t == [xdg |-> IF r.xdg THEN told[c].xdg ELSE None,
                   kde |-> IF r.kde THEN told[c].kde ELSE None]
  <1>2. told' = [told EXCEPT ![c] = t] /\ UNCHANGED <<desktop, surfaces, crashed>>
    BY DEF ResourceDestroyed, outside
  <1>3. t \in ToldType
    BY DEF Types, ToldType
  <1>4. t.xdg = (IF r.xdg THEN told[c].xdg ELSE None) /\ t.kde = (IF r.kde THEN told[c].kde ELSE None)
    OBVIOUS
  <1> HIDE DEF t
  <1>5. Knows(r, t)
    BY <1>1, <1>4 DEF Knows
  <1>6. CASE r.xdg \/ r.kde
    <2>1. /\ deco' = [deco EXCEPT ![c] = r]
          /\ UNCHANGED <<window, configure, deco_hover, focus, grab>>
      BY <1>6 DEF ResourceDestroyed, maybe_free, HoverWithout
    <2>2. Sound(c, r, window)
      BY <1>1, <1>6 DEF Sound
    <2>t1. Types'
      BY <1>2, <1>3, <2>1 DEF Types
    <2>t2. AllSound'
      BY <2>1, <2>2 DEF Types, AllSound
    <2>t3. AllKnow'
      BY <1>2, <1>5, <2>1 DEF Types, AllKnow
    <2>t4. AllKnown'
      BY <2>1 DEF Types, AllKnown, Known
    <2>t5. AllLinked'
      BY <1>2, <2>1 DEF AllLinked
    <2>t6. AllHeld'
      BY <2>1, NoneAssumption DEF Types, AllHeld, Held
    <2>t7. OneWaits'
      BY <2>1 DEF Types, OneWaits
    <2> QED
      BY <2>t1, <2>t2, <2>t3, <2>t4, <2>t5, <2>t6, <2>t7
  <1>7. CASE ~r.xdg /\ ~r.kde
    <2>1. /\ deco' = [deco EXCEPT ![c] = Free]
          /\ window' = IF r.window = None THEN window
                       ELSE [window EXCEPT ![r.window].decoration = None]
          /\ configure' = IF r.window # None /\ r.server
                          THEN force_configure(window[r.window].desktop) ELSE configure
          /\ focus' = LoseFocus(c) /\ grab' = EndGrab(c)
          /\ deco_hover' = IF deco_hover = c THEN None ELSE deco_hover
      BY <1>7 DEF ResourceDestroyed, maybe_free, HoverWithout
    <2>2. /\ window' \in [Windows -> WindowType]
          /\ \A h \in Windows :
               /\ window'[h].live = window[h].live /\ window'[h].desktop = window[h].desktop
               /\ window'[h].fullscreen = window[h].fullscreen
               /\ h # r.window => window'[h].decoration = window[h].decoration
          /\ r.window # None => r.window \in Windows /\ window'[r.window].decoration = None
      <3>1. r.window \in Windows \cup {None} /\ window \in [Windows -> WindowType]
        BY DEF Types, RecordType
      <3> QED
        BY <2>1, <3>1 DEF WindowType
    <2>3. configure' \subseteq Desktops
      BY <2>1 DEF Types, force_configure, WindowType, RecordType
    <2>4. ASSUME NEW b \in Decos, b # c, deco[b].window # None
          PROVE  deco[b].window # r.window /\ deco[b].window \in Windows
      BY <2>4 DEF AllSound, Sound, Types, RecordType
    <2>5. /\ ~Free.xdg /\ ~Free.kde /\ Free.window = None /\ Free.pending = None
          /\ Free.role = None /\ ~Free.mapped /\ ~Free.live
      BY DEF Free
    <2>6. Sound(c, Free, window') /\ Knows(Free, t)
      BY <2>5 DEF Sound, Knows
    <2>t1. Types'
      BY <1>2, <1>3, <2>1, <2>2, <2>3, FreeIs DEF Types
    <2>t2. AllSound'
      <3> SUFFICES ASSUME NEW b \in Decos, b # c PROVE Sound(b, deco[b], window')
        BY <2>1, <2>6 DEF Types, AllSound
      <3> QED
        BY <2>2, <2>4 DEF AllSound, Sound, Types, RecordType
    <2>t3. AllKnow'
      BY <1>2, <2>1, <2>6 DEF Types, AllKnow
    <2>t4. AllKnown'
      <3> SUFFICES ASSUME NEW h \in Windows, window'[h].decoration # None
                   PROVE  window'[h].live /\ deco'[window'[h].decoration].window = h
        BY DEF AllKnown, Known
      <3>1. h # r.window /\ window'[h].decoration = window[h].decoration
        BY <2>2, NoneAssumption
      <3>2. window[h].live /\ deco[window[h].decoration].window = h
        BY <3>1 DEF AllKnown, Known
      <3>3. window[h].decoration \in Decos /\ window[h].decoration # c
        BY <3>1, <3>2 DEF Types, WindowType
      <3> QED
        BY <2>1, <2>2, <3>1, <3>2, <3>3 DEF Types
    <2>t5. AllLinked'
      BY <1>2, <2>2 DEF AllLinked, Linked, Types, DesktopType
    <2>t6. AllHeld'
      BY <2>1, NoneAssumption DEF Types, AllHeld, Held, LoseFocus, EndGrab
    <2>t7. OneWaits'
      BY <2>1, <2>5 DEF Types, OneWaits
    <2> QED
      BY <2>t1, <2>t2, <2>t3, <2>t4, <2>t5, <2>t6, <2>t7
  <1> QED
    BY <1>6, <1>7

LEMMA ObjectKeeps ==
  ASSUME Inv, NEW c \in Decos, xdg_decoration_destroy(c) \/ kde_decoration_release(c)
  PROVE  Inv'
  <1>1. deco[c] \in RecordType /\ deco[c].live
    BY InUse DEF xdg_decoration_destroy, kde_decoration_release, Inv, Types
  <1>2. CASE xdg_decoration_destroy(c)
    <2> DEFINE r == [deco[c] EXCEPT !.xdg = FALSE]
    <2>1. /\ r \in RecordType /\ r.live = deco[c].live /\ r.window = deco[c].window
          /\ r.pending = deco[c].pending /\ r.role = deco[c].role
          /\ r.frame = deco[c].frame /\ r.mapped = deco[c].mapped
          /\ r.server = deco[c].server /\ ~r.xdg /\ r.kde = deco[c].kde
      BY <1>1 DEF RecordType
    <2>2. ResourceDestroyed(c, r)
      BY <1>2 DEF xdg_decoration_destroy
    <2> HIDE DEF r
    <2> QED
      BY <1>1, <2>1, <2>2, ObjectGoes
  <1>3. CASE kde_decoration_release(c)
    <2> DEFINE r == [deco[c] EXCEPT !.kde = FALSE]
    <2>1. /\ r \in RecordType /\ r.live = deco[c].live /\ r.window = deco[c].window
          /\ r.pending = deco[c].pending /\ r.role = deco[c].role
          /\ r.frame = deco[c].frame /\ r.mapped = deco[c].mapped
          /\ r.server = deco[c].server /\ ~r.kde /\ r.xdg = deco[c].xdg
      BY <1>1 DEF RecordType
    <2>2. ResourceDestroyed(c, r)
      BY <1>3 DEF kde_decoration_release
    <2> HIDE DEF r
    <2> QED
      BY <1>1, <2>1, <2>2, ObjectGoes
  <1> QED
    BY <1>2, <1>3
-----------------------------------------------------------------------------
\* What neither touches a record nor what a window has of it.
LEMMA QuietKeeps ==
  ASSUME Inv,
         \/ \E s \in Surfaces : CreateSurface(s)
         \/ \E s \in Surfaces, d \in Desktops : CreateDesktop(s, d)
         \/ \E d \in Desktops : Unmap(d)
         \/ pointer_motion \/ shell_decoration_button \/ decoration_grab_cancel
         \/ \E c \in Decos : decoration_grab_button(c)
         \/ UNCHANGED vars
  PROVE  Inv'
  <1> USE DEF Inv
  <1>1. CASE UNCHANGED vars
    BY <1>1 DEF vars, outside, ends, Types, AllSound, AllKnow, AllKnown, AllLinked, AllHeld, OneWaits
  <1>2. ASSUME NEW s \in Surfaces, CreateSurface(s) PROVE Inv'
    BY <1>2 DEF CreateSurface, ends, Types, AllSound, AllKnow, AllKnown, AllLinked, AllHeld, OneWaits
  <1>3. ASSUME NEW s \in Surfaces, NEW d \in Desktops, CreateDesktop(s, d) PROVE Inv'
    <2>1. /\ desktop' = [desktop EXCEPT ![d].surface = s]
          /\ UNCHANGED <<deco, window, surfaces, configure, deco_hover, focus, grab, told, crashed>>
      BY <1>3 DEF CreateDesktop, ends
    <2>2. /\ desktop' \in [Desktops -> DesktopType]
          /\ \A e \in Desktops : desktop'[e].window = desktop[e].window
      BY <2>1 DEF Types, DesktopType
    <2> QED
      BY <2>1, <2>2 DEF Types, AllSound, AllKnow, AllKnown, AllLinked, Linked, AllHeld, OneWaits
  <1>4. ASSUME NEW d \in Desktops, Unmap(d) PROVE Inv'
    <2> DEFINE h == desktop[d].window
    <2>1. /\ h \in Windows
          /\ window' = [window EXCEPT ![h].mapped = FALSE]
          /\ focus' = LoseFocus(window[h].decoration)
          /\ UNCHANGED <<deco, desktop, surfaces, configure, deco_hover, grab, told, crashed>>
      BY <1>4 DEF Unmap, outside, Types, DesktopType
    <2> HIDE DEF h
    <2>2. /\ window' \in [Windows -> WindowType]
          /\ \A g \in Windows :
               /\ window'[g].live = window[g].live /\ window'[g].desktop = window[g].desktop
               /\ window'[g].fullscreen = window[g].fullscreen
               /\ window'[g].decoration = window[g].decoration
      <3>1. \A w \in WindowType :
              LET n == [w EXCEPT !.mapped = FALSE] IN
              /\ n \in WindowType /\ n.live = w.live /\ n.desktop = w.desktop
              /\ n.fullscreen = w.fullscreen /\ n.decoration = w.decoration
        BY DEF WindowType
      <3>2. window \in [Windows -> WindowType]
        BY DEF Types
      <3>3. window' = [window EXCEPT ![h] = [window[h] EXCEPT !.mapped = FALSE]]
        BY <2>1
      <3> QED
        BY <2>1, <3>1, <3>2, <3>3
    <2>3. AllSound'
      BY <2>1, <2>2 DEF AllSound, Sound, Types, RecordType
    <2>4. AllLinked'
      BY <2>1, <2>2 DEF AllLinked, Linked, Types, DesktopType
    <2>5. AllHeld'
      BY <2>1 DEF AllHeld, Held, LoseFocus
    <2> QED
      BY <2>1, <2>2, <2>3, <2>4, <2>5 DEF Types, AllKnow, AllKnown, Known, OneWaits
  <1>5. CASE pointer_motion
    <2>1. Held(focus', deco)
      BY <1>5 DEF pointer_motion, Under, Visible, AllHeld, Held, AllSound, Sound
    <2>2. Held(deco_hover', deco)
      BY <1>5, <2>1 DEF pointer_motion, AllHeld, Held
    <2> QED
      BY <1>5, <2>1, <2>2
         DEF pointer_motion, outside, Types, AllSound, AllKnow, AllKnown, AllLinked, AllHeld, OneWaits
  <1>6. CASE shell_decoration_button
    BY <1>6 DEF shell_decoration_button, outside, Types, AllSound, AllKnow, AllKnown, AllLinked,
                AllHeld, OneWaits
  <1>7. CASE decoration_grab_cancel
    BY <1>7 DEF decoration_grab_cancel, outside, Types, AllSound, AllKnow, AllKnown, AllLinked,
                AllHeld, Held, OneWaits
  <1>8. ASSUME NEW c \in Decos, decoration_grab_button(c) PROVE Inv'
    <2>1. /\ configure' \subseteq Desktops /\ crashed' \in BOOLEAN /\ grab' = None
          /\ UNCHANGED <<deco, window, desktop, surfaces, deco_hover, focus, told>>
      <3>1. window[deco[c].window].desktop \in Desktops \cup {None}
        BY <1>8, NoneAssumption
           DEF decoration_grab_button, AllHeld, Held, Types, RecordType, WindowType
      <3> QED
        BY <1>8, <3>1 DEF decoration_grab_button, force_configure, outside, Types
    <2> QED
      BY <2>1 DEF Types, AllSound, AllKnow, AllKnown, AllLinked, AllHeld, Held, OneWaits
  <1> QED
    BY <1>1, <1>2, <1>3, <1>4, <1>5, <1>6, <1>7, <1>8

\* A record is drawn again, with its window's new state or the one it has.
LEMMA UpdateKeeps ==
  ASSUME Inv, NEW h \in Windows, NEW m \in BOOLEAN, NEW f \in BOOLEAN,
         window' = [window EXCEPT ![h].mapped = m, ![h].fullscreen = f],
         update(window[h].decoration, m, f),
         configure' \subseteq Desktops,
         UNCHANGED <<desktop, surfaces, deco_hover, grab, told, crashed>>
  PROVE  Inv'
  <1> USE DEF Inv
  <1> DEFINE c == window[h].decoration
  <1>1. c \in Decos \cup {None}
    BY DEF Types, WindowType
  <1>2. /\ window' \in [Windows -> WindowType]
        /\ \A g \in Windows :
             /\ window'[g].live = window[g].live /\ window'[g].desktop = window[g].desktop
             /\ g # h => window'[g].fullscreen = window[g].fullscreen
             /\ window'[g].decoration = window[g].decoration
        /\ window'[h].fullscreen = f
    BY DEF Types, WindowType
  <1>3. AllLinked'
    BY <1>2 DEF AllLinked, Linked, Types, DesktopType
  <1>4. CASE c = None
    <2>1. UNCHANGED <<deco, focus>>
      BY <1>4 DEF update
    <2>2. \A b \in Decos : deco[b].window # h
      BY <1>4, NoneAssumption DEF AllSound, Sound
    <2>3. AllSound'
      BY <1>2, <2>1, <2>2 DEF AllSound, Sound, Types, RecordType
    <2> QED
      BY <1>2, <1>3, <2>1, <2>3 DEF Types, AllKnow, AllKnown, Known, AllHeld, OneWaits
  <1>5. CASE c # None
    <2> DEFINE r == deco[c]
               u == Updated(r, m, f)
    <2>1. c \in Decos /\ r \in RecordType /\ r.window = h
      BY <1>1, <1>5 DEF Types, AllKnown, Known
    <2>2. deco' = [deco EXCEPT ![c] = u] /\ focus' = IF deco'[c].mapped THEN focus ELSE LoseFocus(c)
      BY <1>5 DEF update
    <2>3. /\ u \in RecordType
          /\ u.live = r.live /\ u.window = r.window /\ u.pending = r.pending
          /\ u.role = r.role /\ u.xdg = r.xdg /\ u.kde = r.kde /\ u.server = r.server
          /\ r.frame => u.frame
          /\ u.mapped => (r.mapped /\ ~r.server) \/ (u.frame /\ r.server /\ ~f)
      <3> HIDE DEF r
      <3> QED
        BY <2>1, UpdatedIs
    <2>4. r.live /\ Sound(c, r, window) /\ Knows(r, told[c]) /\ h # None
      <3> HIDE DEF c
      <3>1. r.live /\ h # None
        BY <2>1, InUse, NoneAssumption
      <3> QED
        BY <2>1, <3>1 DEF AllSound, AllKnow
    <2> HIDE DEF u, r, c
    <2>5. window'[h].decoration = c
      BY <1>2 DEF c
    <2>6. Sound(c, u, window')
      BY <1>2, <2>1, <2>3, <2>4, <2>5 DEF Sound
    <2>7. ASSUME NEW b \in Decos, b # c PROVE Sound(b, deco[b], window')
      <3>1. deco[b].window # h
        BY <1>2, <2>4, <2>5, <2>7 DEF AllSound, Sound
      <3> QED
        BY <1>2, <3>1 DEF AllSound, Sound, Types, RecordType
    <2>8. deco[c].window = u.window /\ deco[c].pending = u.pending /\ (deco[c].frame => u.frame)
      BY <2>3 DEF r
    <2>t1. Types'
      BY <1>2, <2>1, <2>2, <2>3 DEF Types
    <2>t2. AllSound'
      BY <2>2, <2>6, <2>7 DEF Types, AllSound
    <2>t3. AllKnow'
      BY <2>2, <2>3, <2>4 DEF Types, AllKnow, Knows
    <2>t4. AllKnown'
      BY <1>2, <2>2, <2>8 DEF Types, WindowType, AllKnown, Known
    <2>t6. AllHeld'
      BY <2>1, <2>2, <2>8, NoneAssumption DEF Types, AllHeld, Held, LoseFocus
    <2>t7. OneWaits'
      BY <2>2, <2>8 DEF Types, OneWaits
    <2> QED
      BY <1>3, <2>t1, <2>t2, <2>t3, <2>t4, <2>t6, <2>t7
  <1> QED
    BY <1>4, <1>5

LEMMA DrawnKeeps ==
  ASSUME Inv, \/ \E d \in Desktops : Commit(d)
              \/ \E h \in Windows : StateChanged(h)
  PROVE  Inv'
  <1>1. ASSUME NEW d \in Desktops, Commit(d) PROVE Inv'
    <2> DEFINE h == desktop[d].window
    <2>1. h \in Windows /\ configure' \subseteq Desktops
      BY <1>1 DEF Commit, Inv, Types, DesktopType
    <2>2. PICK full \in BOOLEAN :
            /\ window' = [window EXCEPT ![h].mapped = TRUE, ![h].fullscreen = full]
            /\ update(window[h].decoration, TRUE, full)
      BY <1>1 DEF Commit
    <2>3. UNCHANGED <<desktop, surfaces, deco_hover, grab, told, crashed>>
      BY <1>1 DEF Commit, outside
    <2> HIDE DEF h
    <2> QED
      BY <2>1, <2>2, <2>3, UpdateKeeps
  <1>2. ASSUME NEW h \in Windows, StateChanged(h) PROVE Inv'
    <2> DEFINE m == window[h].mapped
               f == window[h].fullscreen
    <2>1. m \in BOOLEAN /\ f \in BOOLEAN
          /\ window = [window EXCEPT ![h].mapped = m, ![h].fullscreen = f]
      BY DEF Inv, Types, WindowType
    <2>2. update(window[h].decoration, m, f)
      BY <1>2 DEF StateChanged
    <2>3. UNCHANGED <<window, desktop, surfaces, configure, deco_hover, grab, told, crashed>>
      BY <1>2 DEF StateChanged, outside
    <2>4. window' = [window EXCEPT ![h].mapped = m, ![h].fullscreen = f] /\ configure' \subseteq Desktops
      BY <2>1, <2>3 DEF Inv, Types
    <2> HIDE DEF m, f
    <2> QED
      BY <2>1, <2>2, <2>3, <2>4, UpdateKeeps
  <1> QED
    BY <1>1, <1>2
-----------------------------------------------------------------------------
\* u is the record r, which may have left the pending list.
Loose(r, u) ==
  /\ u \in RecordType
  /\ u.live = r.live /\ u.window = r.window /\ u.xdg = r.xdg /\ u.kde = r.kde
  /\ u.server = r.server /\ u.frame = r.frame /\ u.mapped = r.mapped
  /\ \/ u.pending = r.pending /\ u.role = r.role
     \/ u.pending = None /\ u.role = None
  /\ r = Free => u = Free

LEMMA NoLonger ==
  ASSUME Inv, NEW role
  PROVE  /\ NotWaitingFor(role) \in [Decos -> RecordType]
         /\ \A c \in Decos : Loose(deco[c], NotWaitingFor(role)[c])
  <1>1. \A c \in Decos : deco[c] \in RecordType
    BY DEF Inv, Types
  <1>2. \A r \in RecordType : Loose(r, r) /\ Loose(r, unpend(r))
    BY UnpendIs, UnpendFree DEF Loose
  <1>3. \A c \in Decos : NotWaitingFor(role)[c] \in {deco[c], unpend(deco[c])}
    BY DEF NotWaitingFor
  <1>4. \A c \in Decos : Loose(deco[c], NotWaitingFor(role)[c])
    BY <1>1, <1>2, <1>3
  <1> QED
    BY <1>4 DEF NotWaitingFor, Loose

\* Records leave the list, and nothing else of them or of the windows changes.
LEMMA ListKeeps ==
  ASSUME Inv, NEW records, records \in [Decos -> RecordType],
         \A c \in Decos : Loose(deco[c], records[c]),
         \A h \in Windows :
           /\ window'[h].live = window[h].live /\ window'[h].fullscreen = window[h].fullscreen
           /\ window'[h].decoration = window[h].decoration,
         deco' = records, Types', AllLinked',
         UNCHANGED <<deco_hover, focus, grab, told>>
  PROVE  Inv'
  <1> USE DEF Inv
  <1>1. AllSound'
    BY DEF AllSound, Sound, Loose, Types, RecordType
  <1>2. AllKnow'
    BY DEF AllKnow, Knows, Loose
  <1>3. AllKnown'
    BY DEF AllKnown, Known, Loose, Types, WindowType
  <1>4. AllHeld'
    BY DEF AllHeld, Held, Loose
  <1>5. OneWaits'
    BY DEF OneWaits, Loose
  <1> QED
    BY <1>1, <1>2, <1>3, <1>4, <1>5

LEMMA SurfaceGoes ==
  ASSUME Inv, NEW s \in Surfaces, DestroySurface(s)
  PROVE  Inv'
  <1>1. /\ surfaces' \subseteq Surfaces
        /\ UNCHANGED <<window, desktop, configure, deco_hover, focus, grab, told, crashed>>
    BY DEF DestroySurface, ends, Inv, Types
  <1>2. deco' = NotWaitingFor(<<s, "surface">>)
    BY DEF DestroySurface
  <1>3. Types' /\ AllLinked'
    BY <1>1, <1>2, NoLonger DEF Inv, Types, AllLinked
  <1> QED
    BY <1>1, <1>2, <1>3, NoLonger, ListKeeps

\* A window goes, when no desktop surface has it: what was its record has none.
LEMMA WindowGoes ==
  ASSUME Inv, NEW h \in Windows, NEW records, records \in [Decos -> RecordType],
         \A c \in Decos : Loose(deco[c], records[c]),
         desktop' \in [Desktops -> DesktopType],
         \A d \in Desktops : desktop'[d].window # None =>
           desktop'[d].window = desktop[d].window /\ desktop[d].window # h,
         desktop_shell_destroy_surface(h, records),
         configure' \subseteq Desktops, UNCHANGED <<surfaces, told, crashed>>
  PROVE  Inv'
  <1> USE DEF Inv
  <1> DEFINE c == window[h].decoration
  <1>1. c \in Decos \cup {None}
    BY DEF Types, WindowType
  <1>2. /\ window' = [window EXCEPT ![h] = NoWindow]
        /\ deco_hover' = Forgotten(h)
    BY DEF desktop_shell_destroy_surface
  <1>3. NoWindow.decoration = None
    BY DEF NoWindow
  <1>4. window' \in [Windows -> WindowType]
    BY <1>2, FreeIs DEF Types
  <1>5. AllLinked'
    BY <1>2, <1>4 DEF AllLinked, Linked, Types, DesktopType
  <1>6. ASSUME NEW b \in Decos, b # c PROVE deco[b].window # h
    BY <1>6, NoneAssumption DEF AllSound, Sound
  <1>7. ASSUME NEW b \in Decos, b # c PROVE Sound(b, records[b], window')
    <2>1. Loose(deco[b], records[b]) /\ Sound(b, deco[b], window) /\ deco[b].window # h
          /\ deco[b] \in RecordType
      BY <1>6, <1>7 DEF AllSound, Types
    <2>2. deco[b].window # None => window'[deco[b].window] = window[deco[b].window]
      BY <1>2, <2>1 DEF RecordType, Types
    <2> QED
      BY <2>1, <2>2 DEF Sound, Loose
  <1>8. CASE c = None
    <2>1. deco' = records /\ UNCHANGED <<focus, grab>>
      BY <1>8 DEF desktop_shell_destroy_surface
    <2>2. \A b \in Decos : b # c
      BY <1>8, NoneAssumption
    <2>t1. Types'
      BY <1>4, <2>1 DEF Types
    <2>t2. AllSound'
      BY <1>7, <2>1, <2>2 DEF AllSound
    <2>t3. AllKnow'
      BY <2>1 DEF AllKnow, Knows, Loose
    <2>t4. AllKnown'
      BY <1>2, <1>3, <2>1 DEF AllKnown, Known, Loose, Types, WindowType
    <2>t6. AllHeld'
      BY <1>2, <2>1 DEF AllHeld, Held, Loose, Forgotten
    <2>t7. OneWaits'
      BY <2>1 DEF OneWaits, Loose
    <2> QED
      BY <1>5, <2>t1, <2>t2, <2>t3, <2>t4, <2>t6, <2>t7
  <1>9. CASE c # None
    <2> DEFINE r == records[c]
               o == Orphaned(r)
    <2>1. /\ deco' = [records EXCEPT ![c] = o]
          /\ focus' = LoseFocus(c) /\ grab' = EndGrab(c)
      BY <1>9 DEF desktop_shell_destroy_surface
    <2>2. c \in Decos /\ r \in RecordType /\ Loose(deco[c], r) /\ deco[c].window = h
      BY <1>1, <1>9 DEF AllKnown, Known
    <2>3. /\ o \in RecordType
          /\ o.window = None /\ ~o.frame /\ ~o.mapped
          /\ IF r.xdg \/ r.kde
             THEN /\ o.live = r.live /\ o.pending = r.pending /\ o.role = r.role
                  /\ o.xdg = r.xdg /\ o.kde = r.kde /\ o.server = r.server
             ELSE o = Free
      BY <2>2, OrphanedIs
    <2>4. Sound(c, deco[c], window) /\ Knows(deco[c], told[c])
      BY <2>2 DEF AllSound, AllKnow
    <2>5. /\ ~Free.xdg /\ ~Free.kde /\ Free.window = None /\ Free.pending = None
          /\ Free.role = None /\ ~Free.live
      BY DEF Free
    <2> HIDE DEF o, r, c
    <2>6. Sound(c, o, window') /\ Knows(o, told[c])
      BY <2>2, <2>3, <2>4, <2>5 DEF Sound, Knows, Loose
    <2>7. o.pending # None => o.pending = deco[c].pending
      BY <2>2, <2>3, <2>5 DEF Loose
    <2>t1. Types'
      BY <1>4, <2>1, <2>3 DEF Types
    <2>t2. AllSound'
      BY <1>7, <2>1, <2>6 DEF AllSound
    <2>t3. AllKnow'
      BY <2>1, <2>6 DEF AllKnow, Knows, Loose
    <2>t4. AllKnown'
      <3> SUFFICES ASSUME NEW g \in Windows, window'[g].decoration # None
                   PROVE  window'[g].live /\ deco'[window'[g].decoration].window = g
        BY DEF AllKnown, Known
      <3>1. g # h /\ window'[g] = window[g]
        BY <1>2, <1>3 DEF Types
      <3>2. window[g].live /\ deco[window[g].decoration].window = g
            /\ window[g].decoration \in Decos
        BY <3>1 DEF AllKnown, Known, Types, WindowType
      <3>3. window[g].decoration # c
        BY <2>2, <3>1, <3>2
      <3> QED
        BY <2>1, <3>1, <3>2, <3>3 DEF Loose
    <2>t6. AllHeld'
      <3>1. Held(deco_hover', deco')
        BY <1>2, <2>1, <2>2, NoneAssumption DEF AllHeld, Held, Loose, Forgotten
      <3>2. Held(focus', deco') /\ Held(grab', deco')
        BY <2>1, NoneAssumption DEF AllHeld, Held, Loose, LoseFocus, EndGrab
      <3> QED
        BY <3>1, <3>2 DEF AllHeld
    <2>t7. OneWaits'
      BY <2>1, <2>7 DEF OneWaits, Loose
    <2> QED
      BY <1>5, <2>t1, <2>t2, <2>t3, <2>t4, <2>t6, <2>t7
  <1> QED
    BY <1>8, <1>9

LEMMA RemovedKeeps ==
  ASSUME Inv,
         \/ \E d \in Desktops : desktop_surface_removed(d)
         \/ \E h \in Windows : fade_out_done(h)
  PROVE  Inv'
  <1>1. ASSUME NEW d \in Desktops, desktop_surface_removed(d) PROVE Inv'
    <2> DEFINE h == desktop[d].window
               role == <<desktop[d].surface, "toplevel">>
               records == NotWaitingFor(role)
    <2>1. /\ desktop' = [desktop EXCEPT ![d] = NoDesktop]
          /\ configure' \subseteq Desktops /\ UNCHANGED <<surfaces, told, crashed>>
      BY <1>1 DEF desktop_surface_removed, Inv, Types
    <2>2. records \in [Decos -> RecordType] /\ \A c \in Decos : Loose(deco[c], records[c])
      BY NoLonger
    <2>3. h \in Windows \cup {None} /\ NoDesktop.window = None
      BY DEF Inv, Types, DesktopType, NoDesktop
    <2>4. desktop' \in [Desktops -> DesktopType]
      BY <2>1, FreeIs DEF Inv, Types
    <2>5. \A e \in Desktops : desktop'[e].window # None =>
            desktop'[e] = desktop[e] /\ e # d
      BY <2>1, <2>3 DEF Inv, Types
    <2>6. ASSUME NEW e \in Desktops, e # d, desktop[e].window # None
          PROVE  desktop[e].window # h
      BY <2>6 DEF Inv, AllLinked, Linked
    <2>7. CASE /\ h # None /\ window[h].mapped
               /\ window' = [window EXCEPT ![h].desktop = None]
               /\ deco' = records /\ UNCHANGED ends
      <3>1. /\ window' \in [Windows -> WindowType]
            /\ \A g \in Windows :
                 /\ window'[g].live = window[g].live /\ window'[g].fullscreen = window[g].fullscreen
                 /\ window'[g].decoration = window[g].decoration
                 /\ g # h => window'[g] = window[g]
        BY <2>3, <2>7 DEF Inv, Types, WindowType
      <3>2. AllLinked'
        BY <2>5, <2>6, <3>1 DEF Inv, AllLinked, Linked, Types, DesktopType
      <3>3. Types'
        BY <2>1, <2>2, <2>4, <2>7, <3>1 DEF Inv, Types
      <3>4. UNCHANGED <<deco_hover, focus, grab, told>>
        BY <2>1, <2>7 DEF ends
      <3> QED
        BY <2>2, <2>7, <3>1, <3>2, <3>3, <3>4, ListKeeps
    <2>8. CASE h # None /\ desktop_shell_destroy_surface(h, records)
      <3>1. \A e \in Desktops : desktop'[e].window # None =>
              desktop'[e].window = desktop[e].window /\ desktop[e].window # h
        BY <2>5, <2>6
      <3> HIDE DEF h, records
      <3> QED
        BY <2>1, <2>2, <2>3, <2>4, <2>8, <3>1, WindowGoes
    <2>9. CASE h = None /\ deco' = records /\ UNCHANGED <<window, ends>>
      <3>1. AllLinked'
        BY <2>5, <2>9 DEF Inv, AllLinked, Linked
      <3>2. Types'
        BY <2>1, <2>2, <2>4, <2>9 DEF Inv, Types
      <3>3. UNCHANGED <<window, deco_hover, focus, grab, told>>
        BY <2>1, <2>9 DEF ends
      <3> QED
        BY <2>2, <2>9, <3>1, <3>2, <3>3, ListKeeps
    <2> QED
      BY <1>1, <2>7, <2>8, <2>9 DEF desktop_surface_removed
  <1>2. ASSUME NEW h \in Windows, fade_out_done(h) PROVE Inv'
    <2>1. /\ desktop_shell_destroy_surface(h, deco)
          /\ UNCHANGED <<desktop, surfaces, configure, told, crashed>>
      BY <1>2 DEF fade_out_done, outside
    <2>2. \A d \in Desktops : desktop[d].window # h
      BY <1>2, NoneAssumption DEF fade_out_done, Inv, AllLinked, Linked
    <2>3. \A c \in Decos : Loose(deco[c], deco[c])
      BY DEF Inv, Types, Loose
    <2>4. /\ desktop' \in [Desktops -> DesktopType] /\ configure' \subseteq Desktops
          /\ deco \in [Decos -> RecordType]
      BY <2>1 DEF Inv, Types
    <2>5. \A d \in Desktops : desktop'[d].window # None =>
            desktop'[d].window = desktop[d].window /\ desktop[d].window # h
      BY <2>1, <2>2
    <2> QED
      BY <2>1, <2>3, <2>4, <2>5, WindowGoes
  <1> QED
    BY <1>1, <1>2

\* A desktop surface gets a window, which takes up the record that waits for it.
LEMMA AddedKeeps ==
  ASSUME Inv, NEW d \in Desktops, NEW h \in Windows, desktop_surface_added(d, h)
  PROVE  Inv'
  <1> USE DEF Inv
  <1> DEFINE dec == IF Pending(d) = {} THEN None ELSE CHOOSE c \in Decos : c \in Pending(d)
             new == [live |-> TRUE, desktop |-> d, mapped |-> FALSE, fullscreen |-> FALSE,
                     decoration |-> dec]
  <1>1. /\ desktop' = [desktop EXCEPT ![d].window = h]
        /\ window' = [window EXCEPT ![h] = new]
        /\ configure' = configure \cup {d}
        /\ UNCHANGED <<surfaces, deco_hover, focus, grab, told, crashed>>
        /\ deco' = [c \in Decos |-> IF c \in Pending(d) THEN [unpend(deco[c]) EXCEPT !.window = h]
                                    ELSE deco[c]]
        /\ desktop[d].window = None /\ ~window[h].live
    BY DEF desktop_surface_added, ends
  <1>2. dec \in Decos \cup {None} /\ (dec # None => dec \in Pending(d))
        /\ (Pending(d) # {} => dec # None)
    BY NoneAssumption DEF Pending
  <1>3. \A c \in Decos : c \in Pending(d) <=> c = dec
    BY <1>2, NoneAssumption DEF Pending, OneWaits
  <1>4. new \in WindowType /\ new.live /\ new.desktop = d /\ ~new.fullscreen /\ new.decoration = dec
    BY <1>2 DEF WindowType
  <1> HIDE DEF dec, new
  <1>5. /\ window' \in [Windows -> WindowType]
        /\ window'[h] = new /\ \A g \in Windows : g # h => window'[g] = window[g]
    BY <1>1, <1>4 DEF Types
  <1>6. h # None /\ d # None
    BY NoneAssumption
  <1>7. \A c \in Decos : deco[c].window # h
    BY <1>1, <1>6, NoneAssumption DEF AllSound, Sound, AllKnown, Known
  <1>8. ASSUME NEW c \in Decos
        PROVE  /\ deco'[c] \in RecordType
               /\ IF c = dec
                  THEN /\ deco'[c].live /\ deco'[c].window = h /\ deco'[c].pending = None
                       /\ deco'[c].role = None /\ deco'[c].xdg = deco[c].xdg
                       /\ deco'[c].kde = deco[c].kde /\ deco'[c].server = deco[c].server
                       /\ ~deco'[c].mapped /\ deco'[c].frame = deco[c].frame
                       /\ deco[c].window = None
                  ELSE deco'[c] = deco[c]
    <2>1. deco[c] \in RecordType
      BY <1>8 DEF Types
    <2>2. CASE c = dec
      <3> DEFINE u == unpend(deco[c])
      <3>1. deco'[c] = [u EXCEPT !.window = h] /\ deco[c].pending # None
        BY <1>1, <1>3, <1>6, <1>8, <2>2 DEF Pending
      <3>2. deco[c].live
        BY <1>8, <3>1, InUse
      <3>3. deco[c].window = None /\ ~deco[c].mapped
        BY <1>8, <3>1 DEF AllSound, Sound
      <3>4. /\ u \in RecordType
            /\ u.live = deco[c].live /\ u.pending = None /\ u.role = None
            /\ u.xdg = deco[c].xdg /\ u.kde = deco[c].kde /\ u.server = deco[c].server
            /\ u.frame = deco[c].frame /\ u.mapped = deco[c].mapped
        BY <2>1, UnpendIs
      <3> HIDE DEF u
      <3> QED
        BY <2>2, <3>1, <3>2, <3>3, <3>4 DEF RecordType
    <2>3. CASE c # dec
      BY <1>1, <1>3, <1>8, <2>1, <2>3
    <2> QED
      BY <2>2, <2>3
  <1>9. deco' \in [Decos -> RecordType]
    BY <1>1, <1>8
  <1>10. /\ desktop' \in [Desktops -> DesktopType]
         /\ desktop'[d].window = h /\ \A e \in Desktops : e # d => desktop'[e] = desktop[e]
    BY <1>1 DEF Types, DesktopType
  <1>t1. Types'
    BY <1>1, <1>5, <1>9, <1>10 DEF Types
  <1>t2. AllSound'
    <2> SUFFICES ASSUME NEW c \in Decos PROVE Sound(c, deco'[c], window')
      BY DEF AllSound
    <2>1. CASE c = dec
      <3>1. deco[c].xdg \/ deco[c].kde
        BY <1>2, <1>3, <1>6, <2>1, InUse DEF Pending, AllSound, Sound
      <3> QED
        BY <1>4, <1>5, <1>8, <2>1, <3>1 DEF Sound
    <2>2. CASE c # dec
      <3>1. deco'[c] = deco[c] /\ Sound(c, deco[c], window) /\ deco[c].window # h
            /\ deco[c] \in RecordType
        BY <1>7, <1>8, <2>2 DEF AllSound, Types
      <3> QED
        BY <1>5, <3>1 DEF Sound, RecordType
    <2> QED
      BY <2>1, <2>2
  <1>t3. AllKnow'
    <2>1. \A c \in Decos : /\ deco'[c].xdg = deco[c].xdg /\ deco'[c].kde = deco[c].kde
                          /\ deco'[c].server = deco[c].server
      BY <1>8
    <2> QED
      BY <1>1, <2>1 DEF AllKnow, Knows
  <1>t4. AllKnown'
    <2> SUFFICES ASSUME NEW g \in Windows, window'[g].decoration # None
                 PROVE  window'[g].live /\ deco'[window'[g].decoration].window = g
      BY DEF AllKnown, Known
    <2>1. CASE g = h
      BY <1>2, <1>4, <1>5, <1>8, <2>1
    <2>2. CASE g # h
      <3>1. window[g].live /\ deco[window[g].decoration].window = g
            /\ window[g].decoration \in Decos /\ window'[g] = window[g] /\ g # None
        BY <1>5, <2>2, NoneAssumption DEF AllKnown, Known, Types, WindowType
      <3> QED
        BY <1>8, <3>1
    <2> QED
      BY <2>1, <2>2
  <1>t5. AllLinked'
    BY <1>1, <1>4, <1>5, <1>10 DEF AllLinked, Linked, Types, DesktopType
  <1>t6. AllHeld'
    BY <1>1, <1>6, <1>8, NoneAssumption DEF AllHeld, Held
  <1>t7. OneWaits'
    BY <1>8 DEF OneWaits
  <1> QED
    BY <1>t1, <1>t2, <1>t3, <1>t4, <1>t5, <1>t6, <1>t7
-----------------------------------------------------------------------------
LEMMA InvInit == Init => Inv
  <1> SUFFICES ASSUME Init PROVE Inv
    OBVIOUS
  <1>1. /\ ~Free.live /\ ~Free.xdg /\ ~Free.kde /\ Free.window = None /\ Free.pending = None
        /\ Free.role = None /\ ~Free.mapped /\ NoWindow.decoration = None /\ NoDesktop.window = None
    BY DEF Free, NoWindow, NoDesktop
  <1> QED
    BY <1>1, FreeIs DEF Init, Inv, Types, AllSound, Sound, AllKnow, Knows, AllKnown, Known,
                        AllLinked, Linked, AllHeld, Held, OneWaits

LEMMA InvStep == Inv /\ [Next]_vars => Inv'
  <1> SUFFICES ASSUME Inv, [Next]_vars PROVE Inv'
    OBVIOUS
  <1>1. CASE UNCHANGED vars
    BY <1>1, QuietKeeps
  <1>2. CASE Client
    BY <1>2, QuietKeeps, SurfaceGoes, AddedKeeps, DrawnKeeps, RemovedKeeps, XdgKeeps, KdeKeeps,
       ObjectKeeps, SetModeKeeps DEF Client
  <1>3. CASE User
    BY <1>3, QuietKeeps, DrawnKeeps, RemovedKeeps DEF User
  <1> QED
    BY <1>1, <1>2, <1>3 DEF Next

LEMMA InvAlways == Spec => []Inv
  BY InvInit, InvStep, PTL DEF Spec

\* The decorations keep their types, and what waits for a window listens to the
\* resource that takes it off the list.
THEOREM TypeCorrect == Spec => []TypeOK
  <1>1. Inv => TypeOK
    BY DEF Inv, Types, AllSound, Sound, AllHeld, Held, TypeOK, RecordType, WindowType,
           DesktopType, ToldType
  <1> QED
    BY <1>1, InvAlways, PTL

\* Whatever goes first, the client's objects, its window, its surface or what the
\* pointer does, no record that was freed is kept by anything.
THEOREM NothingEverDangles == Spec => []NothingDangles
  <1>1. Inv => NothingDangles
    <2> SUFFICES ASSUME Inv PROVE NothingDangles
      OBVIOUS
    <2>1. ASSUME NEW c \in Decos
          PROVE IF deco[c].live
                THEN /\ deco[c].xdg \/ deco[c].kde
                     /\ deco[c].window # None => window[deco[c].window].decoration = c
                     /\ deco[c].pending = None \/ deco[c].window = None
                ELSE deco[c] = Free /\ c \notin {deco_hover, focus, grab}
      <3>1. CASE deco[c].live
        BY <2>1, <3>1 DEF Inv, AllSound, Sound
      <3>2. CASE ~deco[c].live
        BY <2>1, <3>2, OutOfUse, NoneAssumption DEF Inv, AllHeld, Held
      <3> QED
        BY <3>1, <3>2
    <2>2. \A h \in Windows : window[h].decoration # None =>
            window[h].live /\ deco[window[h].decoration].window = h
      BY DEF Inv, AllKnown, Known
    <2>3. \A c \in {deco_hover, focus, grab} \cap Decos : deco[c].frame /\ deco[c].window # None
      BY NoneAssumption DEF Inv, AllHeld, Held
    <2> QED
      BY <2>1, <2>2, <2>3 DEF NothingDangles
  <1> QED
    BY <1>1, InvAlways, PTL

\* Every object was told the mode in effect, whoever asked for it, and a decoration
\* is drawn only around a window whose client was told so.
THEOREM ToldIsInEffect == Spec => []ToldInEffect
  <1>1. Inv => ToldInEffect
    BY DEF Inv, AllSound, Sound, AllKnow, Knows, ToldInEffect, Visible
  <1> QED
    BY <1>1, InvAlways, PTL
=============================================================================
