----------------------------- MODULE Decoration -----------------------------
(***************************************************************************)
(* The window decorations Weston draws (patch 0004, decoration.c): the      *)
(* record of a decorated window, which is shared by the two protocols that  *)
(* ask for it, the window, the pointer that hovers over it and the grab of   *)
(* a button pressed on it, and is freed when the last of the protocols'      *)
(* objects goes.  Each of them goes in its own time; a record may exist      *)
(* before its window, and outlive it.                                        *)
(*                                                                           *)
(* Everything runs on one thread, so each handler is one action.  The cells  *)
(* of memory for records and windows, and the addresses of libweston's       *)
(* desktop surfaces, are used again.                                         *)
(***************************************************************************)
EXTENDS Naturals

CONSTANTS
  Decos,       \* cells for a struct shell_decoration
  Windows,     \* cells for a struct shell_surface
  Desktops,    \* addresses of a struct weston_desktop_surface
  Surfaces,    \* wl_surfaces of the clients
  None

VARIABLES
  deco,        \* the records
  window,      \* the shell's windows
  desktop,     \* desktop surfaces: the wl_surface, and the window once it was added
  surfaces,    \* wl_surfaces that exist
  configure,   \* desktop surfaces whose client was asked to draw again
  deco_hover,  \* the record the pointer is known to be over
  focus,       \* the record whose view has the pointer
  grab,        \* the record that gets what the pointer does, while a button is held
  told,        \* history: the mode last sent for each record by either protocol
  crashed      \* the compositor used a desktop surface that is not there

outside == <<desktop, surfaces>>
ends == <<deco_hover, focus, grab>>
vars == <<deco, window, outside, configure, ends, told, crashed>>

\* What a client asks for, and gets; no wish (DECORATION_REQUEST_DEFAULT) has the
\* effect of "server".
Modes == {"client", "server"}

\* The resource whose destruction takes a record off the pending list: the
\* toplevel of a wl_surface, or the wl_surface.
Roles == Surfaces \X {"toplevel", "surface"}

ASSUME NoneAssumption == None \notin Decos \cup Windows \cup Desktops \cup Surfaces \cup Roles

Free == [live |-> FALSE, window |-> None, pending |-> None, role |-> None,
         xdg |-> FALSE, kde |-> FALSE, requested |-> "server", server |-> FALSE,
         frame |-> FALSE, mapped |-> FALSE]
NoWindow == [live |-> FALSE, desktop |-> None, mapped |-> FALSE, fullscreen |-> FALSE,
             decoration |-> None]
NoDesktop == [surface |-> None, window |-> None]
NotTold == [xdg |-> None, kde |-> None]

Init ==
  /\ deco = [c \in Decos |-> Free] /\ window = [h \in Windows |-> NoWindow]
  /\ desktop = [d \in Desktops |-> NoDesktop] /\ surfaces = {}
  /\ configure = {} /\ deco_hover = None /\ focus = None /\ grab = None
  /\ told = [c \in Decos |-> NotTold] /\ crashed = FALSE
-----------------------------------------------------------------------------
\* The view of a record is on the screen: it goes with that of its window.
Visible(c) == deco[c].mapped /\ deco[c].window # None /\ window[deco[c].window].mapped

\* libweston asks the client of a desktop surface that was added to draw again.
force_configure(d) ==
  IF d # None /\ desktop[d].window # None THEN configure \cup {d} ELSE configure

\* A record without its visuals; its grab and the pointer's focus go with them.
free_visuals(r) == [r EXCEPT !.frame = FALSE, !.mapped = FALSE]
EndGrab(c) == IF grab = c THEN None ELSE grab
LoseFocus(c) == IF focus = c THEN None ELSE focus

\* Mutant: the list is left, but the listener on the role's resource stays.
StillListening(r) == [r EXCEPT !.pending = None]

unpend(r) == [r EXCEPT !.pending = None, !.role = None]

\* The record c, which one of its two resources has left as r.
maybe_free(c, r) ==
  IF r.xdg \/ r.kde
  THEN deco' = [deco EXCEPT ![c] = r] /\ UNCHANGED <<window, configure, focus, grab>>
  ELSE /\ deco' = [deco EXCEPT ![c] = Free]
       /\ window' = IF r.window = None THEN window
                    ELSE [window EXCEPT ![r.window].decoration = None]
       /\ configure' = IF r.window # None /\ r.server
                       THEN force_configure(window[r.window].desktop) ELSE configure
       /\ focus' = LoseFocus(c) /\ grab' = EndGrab(c)

Mode(server) == IF server THEN "server" ELSE "client"

wants_server(r) == r.requested # "client"

\* Mutant: the second protocol is told when it comes, and not what the first asks.
SendToFirst(c, r) ==
  [xdg |-> IF r.xdg THEN Mode(r.server) ELSE None,
   kde |-> IF r.kde /\ told[c].kde = None THEN Mode(r.server) ELSE told[c].kde]

\* Both protocols are told the mode that the record, now r, has.
send_mode(c, r) ==
  [xdg |-> IF r.xdg THEN Mode(r.server) ELSE None,
   kde |-> IF r.kde THEN Mode(r.server) ELSE None]

Applied(r) ==
  [r EXCEPT !.server = wants_server(r),
            !.mapped = @ /\ (wants_server(r) \/ r.window = None)]

\* The mode that the record c, now r, asks for is sent and put into effect.
apply(c, r) ==
  /\ deco' = [deco EXCEPT ![c] = Applied(r)]
  /\ told' = [told EXCEPT ![c] = send_mode(c, Applied(r))]
  /\ focus' = IF Applied(r).mapped THEN focus ELSE LoseFocus(c)

\* Mutant: the client is not asked to draw itself for the new mode.
NotAsked(r) == configure

\* A window whose mode changes is drawn again by its client.
Asked(r) ==
  IF r.window # None /\ Applied(r).server # r.server
  THEN force_configure(window[r.window].desktop) ELSE configure
-----------------------------------------------------------------------------
\* The records of a desktop surface: its window's, or one on the pending list.
Pending(d) == {c \in Decos : deco[c].pending = d}
RecordsOf(d) ==
  LET h == desktop[d].window IN
  IF h = None THEN Pending(d) ELSE {window[h].decoration} \ {None}

NewRecord(d, role) ==
  IF desktop[d].window # None
  THEN [Free EXCEPT !.live = TRUE, !.window = desktop[d].window]
  ELSE [Free EXCEPT !.live = TRUE, !.pending = d, !.role = role]

\* decoration_get gives the record c as r: the one there is, or a new one in a
\* free cell (if none is free, there is no memory).
decoration_get(d, role, c, r) ==
  \/ c \in RecordsOf(d) /\ r = deco[c]
  \/ RecordsOf(d) = {} /\ ~deco[c].live /\ r = NewRecord(d, role)

\* A client's request for a record's object; the object with the record, or
\* without it: the second for a window, of a wl_surface that has no desktop
\* surface, or if there is no memory, which changes nothing here.
Adopt(d, c, r) ==
  /\ apply(c, r)
  /\ window' = IF r.window = None THEN window ELSE [window EXCEPT ![r.window].decoration = c]
  /\ configure' = Asked(r) \cup force_configure(d)
  /\ UNCHANGED <<outside, deco_hover, grab, crashed>>

xdg_manager_get_toplevel_decoration(d) ==
  LET s == desktop[d].surface IN
  /\ s # None
  /\ \E c \in Decos : \E r \in {deco[c], NewRecord(d, <<s, "toplevel">>)} :
       /\ decoration_get(d, <<s, "toplevel">>, c, r)
       /\ ~r.xdg
       /\ Adopt(d, c, [r EXCEPT !.xdg = TRUE])

kde_manager_create(d) ==
  LET s == desktop[d].surface IN
  /\ s # None /\ s \in surfaces
  /\ \E c \in Decos : \E r \in {deco[c], NewRecord(d, <<s, "surface">>)} :
       /\ decoration_get(d, <<s, "surface">>, c, r)
       /\ ~r.kde
       /\ Adopt(d, c, [r EXCEPT !.kde = TRUE])

\* xdg_decoration_set_mode, xdg_decoration_unset_mode and kde_decoration_request_mode.
SetMode(c, mode) ==
  LET r == [deco[c] EXCEPT !.requested = mode] IN
  /\ deco[c].xdg \/ deco[c].kde
  /\ apply(c, r)
  /\ configure' = Asked(r)
  /\ UNCHANGED <<window, outside, deco_hover, grab, crashed>>

HoverWithout(c, r) == IF deco_hover = c /\ ~r.xdg /\ ~r.kde THEN None ELSE deco_hover

\* xdg_decoration_resource_destroyed and kde_decoration_resource_destroyed.
ResourceDestroyed(c, r) ==
  /\ deco_hover' = HoverWithout(c, r)
  /\ maybe_free(c, r)
  /\ told' = [told EXCEPT ![c] = [xdg |-> IF r.xdg THEN @.xdg ELSE None,
                                  kde |-> IF r.kde THEN @.kde ELSE None]]
  /\ UNCHANGED <<outside, crashed>>

xdg_decoration_destroy(c) == deco[c].xdg /\ ResourceDestroyed(c, [deco[c] EXCEPT !.xdg = FALSE])
kde_decoration_release(c) == deco[c].kde /\ ResourceDestroyed(c, [deco[c] EXCEPT !.kde = FALSE])
-----------------------------------------------------------------------------
\* wl_surfaces and desktop surfaces come ...
CreateSurface(s) ==
  /\ s \notin surfaces /\ surfaces' = surfaces \cup {s}
  /\ UNCHANGED <<deco, window, desktop, configure, ends, told, crashed>>

HasDesktop(s) == \E d \in Desktops : desktop[d].surface = s

CreateDesktop(s, d) ==
  /\ s \in surfaces /\ ~HasDesktop(s) /\ desktop[d] = NoDesktop
  /\ desktop' = [desktop EXCEPT ![d].surface = s]
  /\ UNCHANGED <<deco, window, surfaces, configure, ends, told, crashed>>

\* ... are added to the shell, which takes up the record that waits for them ...
desktop_surface_added(d, h) ==
  /\ desktop[d].surface # None /\ desktop[d].window = None /\ ~window[h].live
  /\ desktop' = [desktop EXCEPT ![d].window = h]
  /\ deco' = [c \in Decos |-> IF c \in Pending(d) THEN [unpend(deco[c]) EXCEPT !.window = h]
                              ELSE deco[c]]
  /\ window' = [window EXCEPT ![h] =
       [live |-> TRUE, desktop |-> d, mapped |-> FALSE, fullscreen |-> FALSE,
        decoration |-> IF Pending(d) = {} THEN None ELSE CHOOSE c \in Decos : c \in Pending(d)]]
  /\ configure' = configure \cup {d}
  /\ UNCHANGED <<surfaces, ends, told, crashed>>

\* What update makes of the record r of a window that is mapped and fullscreen or not.
Updated(r, mapped, full) ==
  IF ~r.server THEN r
  ELSE IF full \/ ~mapped THEN [r EXCEPT !.mapped = FALSE]
  ELSE [r EXCEPT !.frame = TRUE, !.mapped = TRUE]

update(c, mapped, full) ==
  IF c = None THEN UNCHANGED <<deco, focus>>
  ELSE /\ deco' = [deco EXCEPT ![c] = Updated(deco[c], mapped, full)]
       /\ focus' = IF deco'[c].mapped THEN focus ELSE LoseFocus(c)

\* ... are committed with something to show, fullscreen or not ...
Commit(d) ==
  LET h == desktop[d].window IN
  /\ h # None
  /\ \E full \in BOOLEAN :
       /\ window' = [window EXCEPT ![h].mapped = TRUE, ![h].fullscreen = full]
       /\ update(window[h].decoration, TRUE, full)
  /\ configure' = configure \ {d}
  /\ UNCHANGED <<outside, deco_hover, grab, told, crashed>>

\* ... or with nothing, which takes every view below off the screen ...
Unmap(d) ==
  LET h == desktop[d].window IN
  /\ h # None /\ window[h].mapped
  /\ window' = [window EXCEPT ![h].mapped = FALSE]
  /\ focus' = LoseFocus(window[h].decoration)
  /\ UNCHANGED <<deco, outside, configure, deco_hover, grab, told, crashed>>

\* shell_decoration_state_changed: another title, or another window is active.
StateChanged(h) ==
  LET c == window[h].decoration IN
  /\ c # None /\ deco[c].frame /\ window[h].desktop # None
  /\ update(c, window[h].mapped, window[h].fullscreen)
  /\ UNCHANGED <<window, outside, configure, deco_hover, grab, told, crashed>>

\* Mutant: the pointer is not made to forget the record.
Remembered(h) == deco_hover

\* What the pointer hovers over after shell_decoration_forget.
Forgotten(h) == IF deco_hover # None /\ deco[deco_hover].window = h THEN None ELSE deco_hover

Orphaned(r) ==
  IF r.xdg \/ r.kde THEN [free_visuals(r) EXCEPT !.window = None] ELSE Free

\* The shell's window goes: shell_decoration_forget, then
\* shell_decoration_surface_destroyed, which leaves the record to its objects.
desktop_shell_destroy_surface(h, records) ==
  LET c == window[h].decoration IN
  /\ deco_hover' = Forgotten(h)
  /\ window' = [window EXCEPT ![h] = NoWindow]
  /\ IF c = None THEN deco' = records /\ UNCHANGED <<focus, grab>>
     ELSE /\ deco' = [records EXCEPT ![c] = Orphaned(@)]
          /\ focus' = LoseFocus(c) /\ grab' = EndGrab(c)

\* Records that waited for role are off the list, when its resource goes.
NotWaitingFor(role) ==
  [c \in Decos |-> IF deco[c].role = role THEN unpend(deco[c]) ELSE deco[c]]

\* ... and go, with the toplevel; a window that is mapped may fade out first.
desktop_surface_removed(d) ==
  LET h == desktop[d].window
      records == NotWaitingFor(<<desktop[d].surface, "toplevel">>) IN
  /\ desktop[d].surface # None
  /\ desktop' = [desktop EXCEPT ![d] = NoDesktop]
  /\ configure' = configure \ {d}
  /\ \/ /\ h # None /\ window[h].mapped
        /\ window' = [window EXCEPT ![h].desktop = None]
        /\ deco' = records /\ UNCHANGED ends
     \/ h # None /\ desktop_shell_destroy_surface(h, records)
     \/ h = None /\ deco' = records /\ UNCHANGED <<window, ends>>
  /\ UNCHANGED <<surfaces, told, crashed>>

fade_out_done(h) ==
  /\ window[h].live /\ window[h].desktop = None
  /\ desktop_shell_destroy_surface(h, deco)
  /\ UNCHANGED <<outside, configure, told, crashed>>

DestroySurface(s) ==
  /\ s \in surfaces /\ ~HasDesktop(s)
  /\ surfaces' = surfaces \ {s}
  /\ deco' = NotWaitingFor(<<s, "surface">>)
  /\ UNCHANGED <<window, desktop, configure, ends, told, crashed>>
-----------------------------------------------------------------------------
\* What is under the pointer when it moves: a decoration, or something else;
\* while a button is held, what it was over.
Under == IF grab = None THEN {c \in Decos : Visible(c)} \cup {None} ELSE {focus}

\* shell_decoration_pointer_motion, and a grab's motion, which gets here too.
pointer_motion ==
  /\ focus' \in Under
  /\ deco_hover' =
       IF focus' # None /\ deco[focus'].frame /\ grab # focus' THEN focus'
       ELSE IF deco_hover = focus' THEN deco_hover ELSE None
  /\ UNCHANGED <<deco, window, outside, configure, grab, told, crashed>>

\* shell_decoration_button: a button of the frame is pressed, and the record
\* holds the pointer; or the shell is asked to move or resize the window, which
\* takes its desktop surface (a grab of the shell's own changes nothing here).
shell_decoration_button ==
  /\ grab = None /\ focus # None /\ deco[focus].frame /\ deco[focus].window # None
  /\ \/ grab' = focus /\ UNCHANGED crashed
     \/ /\ window[deco[focus].window].desktop = None
        /\ crashed' = TRUE /\ UNCHANGED grab
  /\ UNCHANGED <<deco, window, outside, configure, deco_hover, focus, told>>

\* decoration_grab_button: the button is let go, off the frame's buttons or on
\* one: the client is asked to close the window or to draw it in another size.
decoration_grab_button(c) ==
  LET d == window[deco[c].window].desktop IN
  /\ grab = c /\ grab' = None
  /\ \/ UNCHANGED <<configure, crashed>>
     \/ /\ d # None /\ configure' = force_configure(d) /\ UNCHANGED crashed
     \/ /\ d = None /\ crashed' = TRUE /\ UNCHANGED configure
  /\ UNCHANGED <<deco, window, outside, deco_hover, focus, told>>

decoration_grab_cancel ==
  /\ grab # None /\ grab' = None
  /\ UNCHANGED <<deco, window, outside, configure, deco_hover, focus, told, crashed>>
-----------------------------------------------------------------------------
Client ==
  \/ \E s \in Surfaces : CreateSurface(s) \/ DestroySurface(s)
  \/ \E s \in Surfaces, d \in Desktops : CreateDesktop(s, d)
  \/ \E d \in Desktops, h \in Windows : desktop_surface_added(d, h)
  \/ \E d \in Desktops :
       Commit(d) \/ Unmap(d) \/ desktop_surface_removed(d)
         \/ xdg_manager_get_toplevel_decoration(d) \/ kde_manager_create(d)
  \/ \E c \in Decos :
       \/ xdg_decoration_destroy(c) \/ kde_decoration_release(c)
       \/ \E mode \in Modes : SetMode(c, mode)

User ==
  \/ pointer_motion \/ shell_decoration_button \/ decoration_grab_cancel
  \/ \E c \in Decos : decoration_grab_button(c)
  \/ \E h \in Windows : StateChanged(h) \/ fade_out_done(h)

Next == ~crashed /\ (Client \/ User)

Spec == Init /\ [][Next]_vars

\* A client that is asked to draw does, for as long as the compositor runs.
FairSpec == Spec /\ \A d \in Desktops : WF_vars(~crashed /\ d \in configure /\ Commit(d))
-----------------------------------------------------------------------------
\* The type invariant; a record on the pending list listens to its role's resource.
TypeOK ==
  /\ deco \in [Decos -> [live : BOOLEAN, window : Windows \cup {None},
       pending : Desktops \cup {None}, role : Roles \cup {None}, xdg : BOOLEAN,
       kde : BOOLEAN, requested : Modes, server : BOOLEAN, frame : BOOLEAN,
       mapped : BOOLEAN]]
  /\ window \in [Windows -> [live : BOOLEAN, desktop : Desktops \cup {None},
       mapped : BOOLEAN, fullscreen : BOOLEAN, decoration : Decos \cup {None}]]
  /\ desktop \in [Desktops -> [surface : Surfaces \cup {None}, window : Windows \cup {None}]]
  /\ surfaces \subseteq Surfaces /\ configure \subseteq Desktops
  /\ deco_hover \in Decos \cup {None} /\ focus \in Decos \cup {None}
  /\ grab \in Decos \cup {None}
  /\ told \in [Decos -> [xdg : Modes \cup {None}, kde : Modes \cup {None}]]
  /\ crashed \in BOOLEAN
  /\ \A c \in Decos : (deco[c].pending = None) = (deco[c].role = None)

\* Whatever goes first, the client's objects, its window or its surface, nothing
\* keeps a record that was freed: not the pending list, a window, the pointer or
\* its grab; a record is of one window that knows it; and a record whose objects
\* have gone is freed.
NothingDangles ==
  /\ \A c \in Decos :
       IF deco[c].live
       THEN /\ deco[c].xdg \/ deco[c].kde
            /\ deco[c].window # None => window[deco[c].window].decoration = c
            /\ deco[c].pending = None \/ deco[c].window = None
       ELSE deco[c] = Free /\ c \notin {deco_hover, focus, grab}
  /\ \A h \in Windows : window[h].decoration # None =>
       window[h].live /\ deco[window[h].decoration].window = h
  /\ \A c \in {deco_hover, focus, grab} \cap Decos : deco[c].frame /\ deco[c].window # None

\* "The decoration mode now in effect" (line 1776): a record's objects, of
\* whichever protocol, were last told the mode it has, whoever asked for it; and
\* a decoration is on the screen only around a window whose client was told so.
ToldInEffect ==
  \A c \in Decos : deco[c].live =>
    /\ deco[c].xdg => told[c].xdg = Mode(deco[c].server)
    /\ deco[c].kde => told[c].kde = Mode(deco[c].server)
    /\ Visible(c) => deco[c].server /\ ~window[deco[c].window].fullscreen

\* A window that is mapped and was promised a decoration gets it, whenever the
\* promise was made: the client is asked to draw, and the decoration drawn with it.
Owed(c) ==
  LET h == deco[c].window IN
  /\ deco[c].server /\ h # None /\ window[h].desktop # None
  /\ window[h].mapped /\ ~window[h].fullscreen
PromisedIsDrawn == \A c \in Decos : Owed(c) ~> Visible(c) \/ ~Owed(c) \/ crashed
=============================================================================
