------------------------------- MODULE WlDemo -------------------------------
(***************************************************************************)
(* wldemo (src/recipes/wayland/wldemo.c) and wlcomp: the one starts the     *)
(* other where no compositor runs, and wlcomp runs wldemo as its program.   *)
(* wldemo draws every frame into the same shared buffer, and does not look  *)
(* at its release; other clients come and go, keep the loop busy, and may   *)
(* have it show buffers that are not theirs, or gone.                       *)
(*                                                                         *)
(* libwayland queues the requests of wldemo, which the compositor handles   *)
(* while it dispatches (as many as have arrived), and the events of the     *)
(* compositor, which it sends when its loop flushes.  wlcomp offers no      *)
(* xdg_wm_base, so the window of wldemo has no role to wait for.            *)
(***************************************************************************)
EXTENDS WlComp

CONSTANTS
  wldemo,      \* its connection
  MaxFrames    \* 100000

ASSUME WlDemoAssumption == wldemo \in Clients /\ MaxFrames \in Nat \ {0}

VARIABLES
  pc,          \* where wldemo is
  frame,       \* the frame it is at
  up,          \* its connection
  requests,    \* on their way to the compositor
  events,      \* queued in the compositor
  inbox,       \* sent to wldemo
  painted      \* history: how many times a frame was copied to the screen, in wldemo's place

client == <<pc, frame>>
socket == <<up, requests, events, inbox>>
dvars == <<vars, client, socket, painted>>

-----------------------------------------------------------------------------
\* wldemo.  The user may start it, or wlcomp with it.

\* No compositor: wldemo becomes wlcomp, which runs it again, or gives up.
Launch ==
  /\ pc = "user"
  /\ \/ pc' = "none" /\ UNCHANGED phase
     \/ pc' = "quit" /\ phase' = "gone"
  /\ UNCHANGED <<g_surfaces, g_acquired, g_running, child, wayland, clients,
                 frame, socket, painted>>

\* wlcomp has put its socket into the environment: wldemo does not start another.
Connect ==
  /\ pc = "start" /\ phase # "gone"
  /\ pc' = "bind" /\ up' = TRUE
  /\ requests' = <<"get_registry", "sync">>
  /\ UNCHANGED <<vars, frame, events, inbox, painted>>

\* Mutant: wldemo flushes its requests and goes on.
WaitedNot == TRUE

\* wl_display_roundtrip has returned: done has arrived.
Waited == Contains(inbox, "done")

\* The globals are bound, and the buffer is made, if there is memory for it.
Prepare ==
  /\ pc = "bind" /\ Waited
  /\ pc' = "draw"
  /\ inbox' = <<>>
  /\ requests' = requests \o <<"create_buffer", "create_surface">>
  /\ UNCHANGED <<vars, frame, up, events, painted>>

\* draw: the pixels of the buffer change from here on.
draw ==
  /\ pc = "draw" /\ frame < MaxFrames
  /\ pc' = "drawing"
  /\ UNCHANGED <<vars, frame, socket, painted>>

\* Mutant: the roundtrip comes before the commit.
ShowLate ==
  /\ pc = "drawing"
  /\ pc' = "wait"
  /\ requests' = requests \o <<"attach", "sync", "commit">>
  /\ UNCHANGED <<vars, frame, up, events, inbox, painted>>

\* attach, commit, and the sync of the roundtrip.
Show ==
  /\ pc = "drawing"
  /\ pc' = "wait"
  /\ requests' = requests \o <<"attach", "commit", "sync">>
  /\ UNCHANGED <<vars, frame, up, events, inbox, painted>>

Roundtrip ==
  /\ pc = "wait" /\ Waited
  /\ pc' = "draw"
  /\ frame' = frame + 1
  /\ inbox' = <<>>
  /\ UNCHANGED <<vars, up, requests, events, painted>>

\* wldemo ends: after the last frame; when a roundtrip fails, because it has been
\* disconnected; when it cannot connect; when it has no buffer.
Quit ==
  /\ \/ pc = "draw" /\ frame = MaxFrames
     \/ pc \in {"bind", "wait"} /\ ~up
     \/ pc = "start"
     \/ pc = "bind" /\ Waited
  /\ pc' = "quit"
  /\ child' = IF child = "runs" THEN "ended" ELSE child
  /\ UNCHANGED <<g_surfaces, g_acquired, g_running, phase, wayland, clients,
                 frame, socket, painted>>

\* SIGTERM.
Killed ==
  /\ child = "killed" /\ pc # "quit"
  /\ pc' = "quit"
  /\ UNCHANGED <<vars, frame, socket, painted>>

-----------------------------------------------------------------------------
\* The compositor.

\* fork may fail, and so may execvp.
Started ==
  /\ pc = "none" /\ StartUp
  /\ pc' = IF child' = "runs" THEN "start" ELSE "quit"
  /\ UNCHANGED <<frame, socket, painted>>

Closed == up' = FALSE /\ requests' = <<>> /\ events' = <<>>

Own(r) == surfaces[r] = wldemo

Request(name) == up /\ requests # <<>> /\ Head(requests) = name

\* Handling one request; those of a surface that was refused end the connection.
Handle ==
  /\ \/ /\ Request("get_registry")
        /\ Dispatching
        /\ UNCHANGED <<vars, events>>
     \/ /\ Request("create_buffer")
        /\ \E b \in Buffers : CreateBuffer(wldemo, b)
        /\ UNCHANGED events
     \/ /\ Request("create_surface")
        /\ \/ \E r \in Addresses : compositor_create_surface(wldemo, r)
           \/ Dispatching /\ Len(g_surfaces) = MAX_SURFACES /\ UNCHANGED vars
        /\ UNCHANGED events
     \/ /\ Request("attach")
        /\ \E r \in Addresses, b \in Buffers : 
             Own(r) /\ buffers[b] = wldemo /\ surface_attach(r, b)
        /\ UNCHANGED events
     \/ /\ Request("commit")
        /\ \E r \in Addresses : Own(r) /\ surface_commit(r)
        /\ UNCHANGED events
     \/ /\ Request("sync")
        /\ Dispatching
        /\ events' = Append(events, "done")
        /\ UNCHANGED vars
  /\ requests' = Tail(requests)
  /\ UNCHANGED <<client, up, inbox, painted>>

\* The end of the connection: once all that wldemo sent was handled, or when it
\* asks something of the surface it does not have.
HangUp ==
  /\ up
  /\ \/ pc = "quit" /\ requests = <<>>
     \/ Request("attach") /\ \A r \in Addresses : ~Own(r)
  /\ Disconnect(wldemo)
  /\ Closed
  /\ UNCHANGED <<client, inbox, painted>>

\* Other clients; memory is left for what wldemo needs.
Others ==
  /\ \E c \in Clients \ {wldemo} : Requests(c)
  /\ \E r \in Addresses : surfaces'[r] \in {None, wldemo}
  /\ \E b \in Buffers : buffers'[b] \in {None, wldemo}
  /\ UNCHANGED <<client, socket, painted>>

\* Events are sent where the loop begins.
Flushes == phase = "loop" /\ g_running

\* What paint copies of wldemo's buffer, and what of that in wldemo's place.
Copies == {i \in ToPaint : buffers[g_surfaces[i].buffer] = wldemo}
OwnCopies == {i \in Copies : Own(g_surfaces[i].resource)}

\* The loop and its flush; paint queues a release for what it copied.  With the
\* process its connections end.
Turn ==
  /\ MainLoop
  /\ inbox' = IF Flushes THEN inbox \o events ELSE inbox
  /\ LET queued == IF Flushes THEN <<>> ELSE events
         paints == phase = "dispatch" /\ phase' = "reap"
     IN /\ events' = IF paints /\ Copies # {} THEN Append(queued, "release") ELSE queued
        /\ painted' = IF paints /\ OwnCopies # {} THEN painted + 1 ELSE painted
  /\ up' = (up /\ phase' # "gone")
  /\ UNCHANGED <<client, requests>>

Interrupt == on_sigint /\ UNCHANGED <<client, socket, painted>>

-----------------------------------------------------------------------------
DemoInit ==
  /\ Init
  /\ pc \in {"user", "none"} /\ frame = 0
  /\ up = FALSE /\ requests = <<>> /\ events = <<>> /\ inbox = <<>>
  /\ painted = 0

Client == Launch \/ Connect \/ Prepare \/ draw \/ Show \/ Roundtrip \/ Quit \/ Killed

DemoNext == Client \/ Started \/ Handle \/ HangUp \/ Others \/ Turn \/ Interrupt

DemoSpec == DemoInit /\ [][DemoNext]_dvars

\* wldemo and the main loop go on, and a dispatch handles what has arrived.
FairDemo ==
  /\ DemoSpec
  /\ WF_dvars(Client) /\ WF_dvars(Started) /\ WF_dvars(Turn)
  /\ SF_dvars(Handle) /\ SF_dvars(HangUp)

-----------------------------------------------------------------------------
\* A frame is never torn: while wldemo changes the pixels, the compositor has
\* nothing left to copy to where wldemo's surface is, although wldemo ignores the
\* release (the done of its roundtrip is only sent after the paint that follows).
\* What another client does that has wldemo's buffer shown as its own is not
\* spoken of.
NeverTorn ==
  pc = "drawing" => \A i \in ToPaint : ~Own(g_surfaces[i].resource)

\* Each frame reaches the screen, once, before the next is drawn, whatever slot
\* and address of another client's surface it is shown through.
EachFrameOnce == pc \in {"draw", "drawing"} => painted = frame

\* wldemo, and the wlcomp it started, end: after the last frame, when either
\* cannot start, when they are interrupted, and when wldemo is refused a surface,
\* while other clients keep the compositor busy.  A wlcomp that could not start
\* wldemo goes on without it.
DemoEnds == <>(pc = "quit" /\ (phase = "gone" \/ child = "none"))

=============================================================================
