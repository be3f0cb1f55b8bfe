------------------------------ MODULE KeyRing ------------------------------
(***************************************************************************)
(* The ring in doomgeneric_cervus.c that carries key events from the       *)
(* devices to the game: g_queue, with g_qhead where the next event goes    *)
(* and g_qtail where the next one is taken.  The slot before g_qtail stays *)
(* free, so that a full ring is told from an empty one.                    *)
(***************************************************************************)
EXTENDS Naturals, Sequences

CONSTANTS KQ_SIZE,    \* slots: 128 in the source
          Event,      \* (pressed ? 0x100 : 0) | key
          Zero,       \* what the static array holds at the start
          Nothing     \* DG_GetKey returned 0

ASSUME SizeAssumption == KQ_SIZE \in Nat /\ KQ_SIZE >= 2
ASSUME ZeroAssumption == Zero \in Event

VARIABLES g_queue, g_qhead, g_qtail,
          got         \* the event the last call of DG_GetKey returned

vars == <<g_queue, g_qhead, g_qtail, got>>

Slots == 0..KQ_SIZE - 1

Init ==
  /\ g_queue = [i \in Slots |-> Zero]
  /\ g_qhead = 0 /\ g_qtail = 0 /\ got = Nothing

After(i) == (i + 1) % KQ_SIZE

\* Mutant: the last slot is used too.
queue_key_full(e) ==
  /\ g_queue' = [g_queue EXCEPT ![g_qhead] = e] /\ g_qhead' = After(g_qhead)
  /\ UNCHANGED <<g_qtail, got>>

\* An event for which there is no room is dropped.
queue_key(e) ==
  /\ IF After(g_qhead) = g_qtail THEN UNCHANGED <<g_queue, g_qhead>>
     ELSE g_queue' = [g_queue EXCEPT ![g_qhead] = e] /\ g_qhead' = After(g_qhead)
  /\ UNCHANGED <<g_qtail, got>>

\* What follows the draining of the devices.
DG_GetKey ==
  /\ IF g_qtail = g_qhead THEN got' = Nothing /\ UNCHANGED g_qtail
     ELSE got' = g_queue[g_qtail] /\ g_qtail' = After(g_qtail)
  /\ UNCHANGED <<g_queue, g_qhead>>

Next == (\E e \in Event : queue_key(e)) \/ DG_GetKey

Spec == Init /\ [][Next]_vars
-----------------------------------------------------------------------------
\* The type invariant: both indexes stay in the array (lines 132-135, 406-407).
TypeOK ==
  /\ g_queue \in [Slots -> Event]
  /\ g_qhead \in Slots /\ g_qtail \in Slots
  /\ got \in Event \cup {Nothing}

\* The events that wait: those from g_qtail round to g_qhead.
Count == IF g_qtail <= g_qhead THEN g_qhead - g_qtail ELSE g_qhead + KQ_SIZE - g_qtail
At(i) == IF g_qtail + i < KQ_SIZE THEN g_qtail + i ELSE g_qtail + i - KQ_SIZE
Waiting == [i \in 1..Count |-> g_queue[At(i - 1)]]

Fifo == INSTANCE KeyFifo WITH Capacity <- KQ_SIZE - 1, items <- Waiting, taken <- got

\* The ring is a first-in first-out queue of KQ_SIZE - 1 events, however often
\* the indexes go round and whether or not it was full (lines 130-136, 401-411).
ImplementsFifo == Fifo!Spec
=============================================================================
