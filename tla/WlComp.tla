------------------------------- MODULE WlComp -------------------------------
(***************************************************************************)
(* wlcomp (src/recipes/wayland/wlcomp.c): a Wayland compositor that copies  *)
(* the buffers of its clients to the framebuffer.                           *)
(*                                                                         *)
(* libwayland is outside the repository: it allocates the resources of a    *)
(* client (an address that was freed may be given out again), calls the     *)
(* handlers while the main loop dispatches, and destroys what a client owns *)
(* when it disconnects.  Where a surface is drawn (its slot says) and how   *)
(* it is clipped are left out, and the requests the code ignores.           *)
(*                                                                         *)
(* A client may ask for what it likes: it may commit before it attached,    *)
(* and destroy a buffer that is still to be shown.  wlcomp keeps no record  *)
(* of either, and follows pointers to what is freed.                        *)
(***************************************************************************)
EXTENDS Integers, Sequences, SequencesExt, FiniteSets

CONSTANTS
  Clients,       \* connections
  Addresses,     \* where libwayland may put a wl_surface resource
  Buffers,       \* where it may put a wl_buffer resource
  None,          \* the null pointer, and the owner of free memory
  MAX_SURFACES   \* the size of g_surfaces

ASSUME WlCompAssumption ==
  /\ None \notin Clients \union Addresses \union Buffers
  /\ MAX_SURFACES \in Nat \ {0}

VARIABLES
  g_surfaces,   \* the slots in use, oldest first
  g_acquired,   \* the framebuffer is the compositor's
  g_running,    \* cleared by SIGINT
  phase,        \* where main is
  child,        \* the program wlcomp was started with: none, runs, ended, killed
  surfaces,     \* libwayland: the owner of each surface resource
  buffers,      \* libwayland: the owner of each buffer resource
  attached,     \* clients: the surfaces that had an attach
  given,        \* clients: the buffers given to each surface, not released for it or destroyed
  astray        \* history: the surfaces whose client destroyed a buffer it had given to them,
                \* or committed one that was left to them by an earlier surface

server == <<g_surfaces, g_acquired, g_running, phase, child>>
wayland == <<surfaces, buffers>>
clients == <<attached, given, astray>>
vars == <<server, wayland, clients>>

Slot(r) == [resource |-> r, buffer |-> None, pending_buffer |-> None, mapped |-> FALSE]

\* The slot of a surface is the first with its address, 0 for none.
surface_of(r) == SelectInSeq(g_surfaces, LAMBDA s : s.resource = r)

\* The slots paint copies to the screen.
Shown(s) == s.mapped /\ s.buffer # None

-----------------------------------------------------------------------------
\* Requests, handled while the loop dispatches.

Dispatching == phase = "dispatch"

\* Mutant: one surface too many.
create_surface_seventeenth(c, r) ==
  /\ Dispatching
  /\ Len(g_surfaces) <= MAX_SURFACES
  /\ surfaces[r] = None
  /\ surfaces' = [surfaces EXCEPT ![r] = c]
  /\ g_surfaces' = Append(g_surfaces, Slot(r))
  /\ UNCHANGED <<g_acquired, g_running, phase, child, buffers, clients>>

\* A surface beyond the sixteenth is not created: the object the client names
\* stays unknown, and what it asks of it disconnects the client.
compositor_create_surface(c, r) ==
  /\ Dispatching
  /\ Len(g_surfaces) < MAX_SURFACES
  /\ surfaces[r] = None
  /\ surfaces' = [surfaces EXCEPT ![r] = c]
  /\ g_surfaces' = Append(g_surfaces, Slot(r))
  /\ UNCHANGED <<g_acquired, g_running, phase, child, buffers, clients>>

surface_attach(r, b) ==
  /\ Dispatching
  /\ g_surfaces' = IF surface_of(r) = 0 THEN g_surfaces
                   ELSE [g_surfaces EXCEPT ![surface_of(r)].pending_buffer = b]
  /\ attached' = attached \union {r}
  /\ given' = [given EXCEPT ![r] = @ \union ({b} \ {None})]
  /\ UNCHANGED <<g_acquired, g_running, phase, child, wayland, astray>>

\* A commit without a buffer changes nothing: a surface is never unmapped.
Committed(s) ==
  IF s.pending_buffer = None THEN s
  ELSE [s EXCEPT !.buffer = s.pending_buffer, !.pending_buffer = None, !.mapped = TRUE]

\* A surface that had no attach is served by the slot of an earlier one, with what
\* that one attached and never committed.
LeftOver(r) ==
  /\ r \notin attached
  /\ surface_of(r) # 0 /\ g_surfaces[surface_of(r)].pending_buffer # None

surface_commit(r) ==
  /\ Dispatching
  /\ g_surfaces' = IF surface_of(r) = 0 THEN g_surfaces
                   ELSE [g_surfaces EXCEPT ![surface_of(r)] = Committed(@)]
  /\ astray' = IF LeftOver(r) THEN astray \union {r} ELSE astray
  /\ UNCHANGED <<g_acquired, g_running, phase, child, wayland, attached, given>>

\* Mutant: a surface is forgotten without unmapping its slot.
DestroyedMapped(R) == g_surfaces

\* surface_resource_destroy, for each of a set of surfaces: their slots are
\* kept, and keep their address and buffers.
Destroyed(R) ==
  [i \in DOMAIN g_surfaces |->
     IF \E r \in R : i = surface_of(r) THEN [g_surfaces[i] EXCEPT !.mapped = FALSE]
     ELSE g_surfaces[i]]

Forget(R) ==
  /\ attached' = attached \ R
  /\ given' = [r \in Addresses |-> IF r \in R THEN {} ELSE given[r]]
  /\ astray' = astray \ R

surface_destroy(r) ==
  /\ Dispatching
  /\ g_surfaces' = Destroyed({r})
  /\ surfaces' = [surfaces EXCEPT ![r] = None]
  /\ Forget({r})
  /\ UNCHANGED <<g_acquired, g_running, phase, child, buffers>>

-----------------------------------------------------------------------------
\* libwayland: buffers belong to wl_shm, and a client may go at any time.

CreateBuffer(c, b) ==
  /\ Dispatching
  /\ buffers[b] = None
  /\ buffers' = [buffers EXCEPT ![b] = c]
  /\ UNCHANGED <<server, surfaces, clients>>

\* A client destroys a buffer, used or not: no slot is told.
DestroyBuffer(b) ==
  /\ Dispatching
  /\ buffers[b] # None
  /\ buffers' = [buffers EXCEPT ![b] = None]
  /\ given' = [r \in Addresses |-> given[r] \ {b}]
  /\ astray' = astray \union {r \in Addresses : b \in given[r]}
  /\ UNCHANGED <<server, surfaces, attached>>

Disconnect(c) ==
  LET R == {r \in Addresses : surfaces[r] = c}
  IN /\ Dispatching
     /\ g_surfaces' = Destroyed(R)
     /\ surfaces' = [r \in Addresses |-> IF r \in R THEN None ELSE surfaces[r]]
     /\ buffers' = [b \in Buffers |-> IF buffers[b] = c THEN None ELSE buffers[b]]
     /\ Forget(R)
     /\ UNCHANGED <<g_acquired, g_running, phase, child>>

-----------------------------------------------------------------------------
\* The main loop.

\* main up to its loop: any step may fail; then the program is started, if there
\* is one and it can be.
StartUp ==
  /\ phase = "start"
  /\ \/ phase' = "gone" /\ UNCHANGED child
     \/ phase' = "loop" /\ child' \in {"none", "runs", "ended"}
  /\ UNCHANGED <<g_surfaces, g_acquired, g_running, wayland, clients>>

\* The condition of the loop, and wl_display_flush_clients.
Loop ==
  /\ phase = "loop"
  /\ phase' = IF g_running THEN "dispatch" ELSE "exit"
  /\ UNCHANGED <<g_surfaces, g_acquired, g_running, child, wayland, clients>>

ToPaint == {i \in DOMAIN g_surfaces : Shown(g_surfaces[i])}
Freed == {i \in ToPaint : buffers[g_surfaces[i].buffer] = None}

\* With its release the client has the buffer back, unless it attached it again.
Releases(s, r, b) == s.resource = r /\ s.buffer = b /\ s.pending_buffer # b

\* paint, once wl_event_loop_dispatch has returned: each buffer shown is copied
\* and released, and the framebuffer is taken for the first of them.  A buffer that
\* was freed may still look like one, or not, and then its slot keeps it.
paint ==
  \E painted \in SUBSET ToPaint :
    /\ ToPaint \ Freed \subseteq painted
    /\ phase = "dispatch"
    /\ g_acquired' = (g_acquired \/ ToPaint # {})
    /\ g_surfaces' = [i \in DOMAIN g_surfaces |->
                        IF i \in painted THEN [g_surfaces[i] EXCEPT !.buffer = None]
                        ELSE g_surfaces[i]]
    /\ given' = [r \in Addresses |->
                   given[r] \ {b \in Buffers : \E i \in painted : Releases(g_surfaces[i], r, b)}]
    /\ phase' = "reap"
    /\ UNCHANGED <<g_running, child, wayland, attached, astray>>

\* Or the process dies of what it reads there, and nothing is restored.
Fault ==
  /\ phase = "dispatch" /\ Freed # {}
  /\ phase' = "gone"
  /\ g_acquired' = TRUE
  /\ UNCHANGED <<g_surfaces, g_running, child, wayland, clients>>

\* Mutant: the child is not waited for.
ReapNothing ==
  /\ phase = "reap"
  /\ phase' = "loop"
  /\ UNCHANGED <<g_surfaces, g_acquired, g_running, child, wayland, clients>>

\* waitpid: the loop ends with the program it was started for.
Reap ==
  /\ phase = "reap"
  /\ phase' = IF child = "ended" THEN "exit" ELSE "loop"
  /\ UNCHANGED <<g_surfaces, g_acquired, g_running, child, wayland, clients>>

\* After the loop: the child is sent SIGTERM, and restore gives the framebuffer
\* back.
Exit ==
  /\ phase = "exit"
  /\ phase' = "gone"
  /\ child' = IF child = "runs" THEN "killed" ELSE child
  /\ g_acquired' = FALSE
  /\ UNCHANGED <<g_surfaces, g_running, wayland, clients>>

\* SIGINT, and the end of the child, at any time.
on_sigint ==
  /\ phase \notin {"start", "gone"}
  /\ g_running' = FALSE
  /\ UNCHANGED <<g_surfaces, g_acquired, phase, child, wayland, clients>>

ChildEnds ==
  /\ child = "runs"
  /\ child' = "ended"
  /\ UNCHANGED <<g_surfaces, g_acquired, g_running, phase, wayland, clients>>

-----------------------------------------------------------------------------
Init ==
  /\ g_surfaces = <<>>
  /\ g_acquired = FALSE
  /\ g_running = TRUE
  /\ phase = "start"
  /\ child = "none"
  /\ surfaces = [r \in Addresses |-> None]
  /\ buffers = [b \in Buffers |-> None]
  /\ attached = {} /\ astray = {}
  /\ given = [r \in Addresses |-> {}]

\* A client names what is its own.
Requests(c) ==
  \/ \E r \in Addresses : compositor_create_surface(c, r)
  \/ \E b \in Buffers : CreateBuffer(c, b) \/ (buffers[b] = c /\ DestroyBuffer(b))
  \/ \E r \in Addresses :
       /\ surfaces[r] = c
       /\ \/ \E b \in Buffers \union {None} :
               /\ b # None => buffers[b] = c
               /\ surface_attach(r, b)
          \/ surface_commit(r)
          \/ surface_destroy(r)
  \/ Disconnect(c)

MainLoop == Loop \/ paint \/ Fault \/ Reap \/ Exit

Next ==
  StartUp \/ (\E c \in Clients : Requests(c)) \/ MainLoop \/ on_sigint \/ ChildEnds

Spec == Init /\ [][Next]_vars

-----------------------------------------------------------------------------
SlotType == [resource : Addresses, buffer : Buffers \union {None},
             pending_buffer : Buffers \union {None}, mapped : BOOLEAN]

\* The type invariant.
TypeOK ==
  /\ g_surfaces \in Seq(SlotType)
  /\ Len(g_surfaces) <= MAX_SURFACES
  /\ g_acquired \in BOOLEAN /\ g_running \in BOOLEAN
  /\ phase \in {"start", "loop", "dispatch", "reap", "exit", "gone"}
  /\ child \in {"none", "runs", "ended", "killed"}
  /\ surfaces \in [Addresses -> Clients \union {None}]
  /\ buffers \in [Buffers -> Clients \union {None}]
  /\ attached \subseteq Addresses /\ astray \subseteq Addresses
  /\ given \in [Addresses -> SUBSET Buffers]

\* What paint reads is there and is the client's own: the surface of a slot it
\* shows exists, the buffer exists and belongs to the same client, who gave it
\* to that surface and was not sent its release for it.  Slots and addresses are
\* used again for other surfaces, of other clients, who may do to their own what
\* they like.  Of a surface whose client destroyed a buffer it had given to it, or
\* committed what an earlier surface left in its slot, this does not hold: nothing
\* in wlcomp looks after either (lines 57, 90, 116-122).
ShownIsOwn ==
  \A i \in DOMAIN g_surfaces : Shown(g_surfaces[i]) =>
    LET s == g_surfaces[i]
    IN /\ surfaces[s.resource] # None
       /\ s.resource \in astray
            \/ /\ buffers[s.buffer] = surfaces[s.resource]
               /\ s.buffer \in given[s.resource]
=============================================================================
