------------------------------ MODULE WlProofs ------------------------------
(***************************************************************************)
(* What wlcomp paints is there and is its client's own, for any number of   *)
(* clients, slots, surfaces and buffers; wldemo is such a client, and each    *)
(* of its frames is shown, once and whole.                                   *)
(***************************************************************************)
EXTENDS WlDemo, SequenceTheorems, WellFoundedInduction, TLAPS

\* The slot surface_of finds: the first with that address.
First(i, r) ==
  /\ i \in DOMAIN g_surfaces /\ g_surfaces[i].resource = r
  /\ \A j \in DOMAIN g_surfaces : g_surfaces[j].resource = r => i <= j

\* What a client gave to a surface is the client's, and the surface is there.
GivenIsOwn ==
  \A r \in Addresses :
    /\ \A b \in given[r] : surfaces[r] # None /\ buffers[b] = surfaces[r]
    /\ r \in attached => surfaces[r] # None

\* Only the first slot of an address is mapped, while there is a surface, and its
\* buffers are among those the client gave to the surface that has the address now,
\* unless it is one of those that went astray.
SlotIsOwn(i) ==
  LET s == g_surfaces[i] IN
  /\ s.mapped => First(i, s.resource) /\ surfaces[s.resource] # None
  /\ s.mapped /\ s.buffer # None =>
       s.resource \in astray \/ s.buffer \in given[s.resource]
  /\ First(i, s.resource) /\ s.resource \in attached /\ s.pending_buffer # None =>
       s.resource \in astray \/ s.pending_buffer \in given[s.resource]

Inv == TypeOK /\ GivenIsOwn /\ \A i \in DOMAIN g_surfaces : SlotIsOwn(i)
-----------------------------------------------------------------------------
\* Every set of positions has a least one.
LEMMA LeastExists ==
  ASSUME NEW S, S \subseteq Nat, S # {}
  PROVE  \E x \in S : \A y \in S : x <= y
  <1>1. PICK x \in S : \A y \in S : ~ (<<y, x>> \in OpToRel(<, Nat))
    BY NatLessThanWellFounded, WFMin
  <1>2. \A y \in S : ~ (y < x)
    BY <1>1 DEF OpToRel
  <1> QED
    BY <1>2

LEMMA SurfaceOf ==
  ASSUME TypeOK, NEW r
  PROVE  /\ surface_of(r) # 0 => First(surface_of(r), r)
         /\ \A i : First(i, r) => surface_of(r) = i
         /\ surface_of(r) = 0 => \A i \in DOMAIN g_surfaces : g_surfaces[i].resource # r
  <1> DEFINE I == {i \in 1..Len(g_surfaces) : g_surfaces[i].resource = r}
  <1>1. surface_of(r) = IF I # {} THEN CHOOSE x \in I : \A y \in I : x <= y ELSE 0
    BY DEF surface_of, SelectInSeq, Min
  <1>2. DOMAIN g_surfaces = 1..Len(g_surfaces) /\ Len(g_surfaces) \in Nat
    BY DEF TypeOK
  <1>3. I \subseteq Nat
    OBVIOUS
  <1>4. I # {} => \E x \in I : \A y \in I : x <= y
    BY <1>3, LeastExists
  <1>5. \A i : First(i, r) <=> i \in I /\ \A y \in I : i <= y
    BY <1>2 DEF First
  <1>6. ASSUME NEW i, First(i, r) PROVE surface_of(r) = i
    <2>1. i \in I /\ \A y \in I : i <= y
      BY <1>5, <1>6
    <2>2. \A x \in I : (\A y \in I : x <= y) => x = i
      BY <2>1, <1>3
    <2> HIDE DEF I
    <2> QED
      BY <2>1, <2>2, <1>1
  <1>7. I # {} => surface_of(r) \in I /\ \A y \in I : surface_of(r) <= y
    <2> HIDE DEF I
    <2> QED
      BY <1>1, <1>4
  <1>8. 0 \notin I
    OBVIOUS
  <1>9. surface_of(r) # 0 => First(surface_of(r), r)
    <2> HIDE DEF I
    <2> QED
      BY <1>1, <1>5, <1>7
  <1>10. surface_of(r) = 0 => I = {}
    <2> HIDE DEF I
    <2> QED
      BY <1>7, <1>8
  <1> QED
    BY <1>2, <1>6, <1>9, <1>10

\* Slots that keep their addresses are found as before.
LEMMA Reslotted ==
  ASSUME TypeOK, g_surfaces' \in [DOMAIN g_surfaces -> SlotType],
         \A i \in DOMAIN g_surfaces : g_surfaces'[i].resource = g_surfaces[i].resource
  PROVE  /\ g_surfaces' \in Seq(SlotType) /\ Len(g_surfaces') <= MAX_SURFACES
         /\ DOMAIN g_surfaces' = DOMAIN g_surfaces
         /\ \A i, r : First(i, r)' <=> First(i, r)
  <1>1. Len(g_surfaces) \in Nat /\ DOMAIN g_surfaces = 1..Len(g_surfaces)
    BY DEF TypeOK
  <1>2. g_surfaces' \in Seq(SlotType) /\ Len(g_surfaces') = Len(g_surfaces)
    BY <1>1
  <1> QED
    BY <1>1, <1>2 DEF First, TypeOK

LEMMA SlotTypes ==
  ASSUME TypeOK, NEW i \in DOMAIN g_surfaces
  PROVE  g_surfaces[i] \in SlotType
  <1>1. DOMAIN g_surfaces = 1..Len(g_surfaces)
    BY DEF TypeOK
  <1> QED
    BY <1>1 DEF TypeOK
-----------------------------------------------------------------------------
\* A new surface: its address had none, and its slot is empty.
LEMMA CreateKeeps ==
  ASSUME Inv, NEW c \in Clients, NEW r \in Addresses, compositor_create_surface(c, r)
  PROVE  Inv'
  <1> DEFINE n == Len(g_surfaces)
  <1> USE DEF compositor_create_surface
  <1>1. n \in Nat /\ DOMAIN g_surfaces = 1..n /\ g_surfaces \in Seq(SlotType)
    BY DEF Inv, TypeOK
  <1>2. Slot(r) \in SlotType
    BY DEF Slot, SlotType
  <1>3. /\ g_surfaces' \in Seq(SlotType) /\ Len(g_surfaces') = n + 1
        /\ DOMAIN g_surfaces' = 1..n + 1 /\ g_surfaces'[n + 1] = Slot(r)
        /\ \A i \in 1..n : g_surfaces'[i] = g_surfaces[i]
    BY <1>1, <1>2
  <1>4. TypeOK'
    <2>1. Len(g_surfaces') <= MAX_SURFACES
      BY <1>1, <1>3, WlCompAssumption
    <2> QED
      BY <1>3, <2>1 DEF Inv, TypeOK, clients
  <1>5. r \notin attached /\ given[r] = {}
    BY DEF Inv, GivenIsOwn
  <1>6. GivenIsOwn'
    <2> SUFFICES ASSUME NEW q \in Addresses
                 PROVE  /\ \A b \in given[q] : surfaces'[q] # None /\ buffers[b] = surfaces'[q]
                        /\ q \in attached => surfaces'[q] # None
      BY DEF GivenIsOwn, clients
    <2>1. q # r => surfaces'[q] = surfaces[q]
      BY DEF Inv, TypeOK
    <2> QED
      BY <1>5, <2>1 DEF Inv, GivenIsOwn
  <1>7. \A i \in 1..n : \A q : First(i, q)' <=> First(i, q)
    BY <1>1, <1>3 DEF First
  <1>8. ASSUME NEW i \in 1..n PROVE SlotIsOwn(i)'
    <2>1. SlotIsOwn(i) /\ g_surfaces'[i] = g_surfaces[i] /\ UNCHANGED <<given, attached, astray>>
      BY <1>1, <1>3, <1>8 DEF Inv, clients
    <2>2. \A q : surfaces[q] # None => surfaces'[q] # None
      BY WlCompAssumption DEF Inv, TypeOK
    <2> QED
      BY <2>1, <2>2, <1>7 DEF SlotIsOwn
  <1>9. ASSUME NEW k, k = n + 1 PROVE SlotIsOwn(k)'
    <2>1. ~g_surfaces'[k].mapped /\ g_surfaces'[k].pending_buffer = None
      BY <1>3, <1>9 DEF Slot
    <2> QED
      BY <2>1 DEF SlotIsOwn
  <1>10. \A i \in DOMAIN g_surfaces' : i \in 1..n \/ i = n + 1
    BY <1>1, <1>3
  <1> QED
    BY <1>4, <1>6, <1>8, <1>9, <1>10 DEF Inv

\* A surface's slot gets a buffer of the client's own, or none.
LEMMA AttachKeeps ==
  ASSUME Inv, NEW r \in Addresses, NEW b \in Buffers \union {None},
         surfaces[r] # None, b # None => buffers[b] = surfaces[r], surface_attach(r, b)
  PROVE  Inv'
  <1> USE DEF surface_attach
  <1>1. \A i \in DOMAIN g_surfaces :
          /\ g_surfaces'[i] = IF i = surface_of(r)
                              THEN [g_surfaces[i] EXCEPT !.pending_buffer = b]
                              ELSE g_surfaces[i]
    <2>1. surface_of(r) = 0 => \A i \in DOMAIN g_surfaces : i # surface_of(r)
      BY DEF Inv, TypeOK
    <2>2. surface_of(r) # 0 => surface_of(r) \in DOMAIN g_surfaces
      BY SurfaceOf DEF Inv, First
    <2> QED
      BY <2>1, <2>2
  <1>2. \A i \in DOMAIN g_surfaces :
          g_surfaces'[i] \in SlotType /\ g_surfaces'[i].resource = g_surfaces[i].resource
    BY <1>1, SlotTypes DEF Inv, SlotType
  <1>3. g_surfaces' \in [DOMAIN g_surfaces -> SlotType]
    <2>1. g_surfaces = [i \in DOMAIN g_surfaces |-> g_surfaces[i]]
      BY DEF Inv, TypeOK
    <2>2. g_surfaces' = [i \in DOMAIN g_surfaces |-> g_surfaces'[i]]
      BY <2>1
    <2> QED
      BY <1>2, <2>2
  <1>4. /\ g_surfaces' \in Seq(SlotType) /\ Len(g_surfaces') <= MAX_SURFACES
        /\ DOMAIN g_surfaces' = DOMAIN g_surfaces
        /\ \A i, q : First(i, q)' <=> First(i, q)
    BY <1>2, <1>3, Reslotted DEF Inv
  <1>5. TypeOK'
    BY <1>4 DEF Inv, TypeOK, wayland
  <1>6. /\ given'[r] = given[r] \union ({b} \ {None})
        /\ \A q \in Addresses \ {r} : given'[q] = given[q]
    BY DEF Inv, TypeOK
  <1>7. GivenIsOwn'
    <2> SUFFICES ASSUME NEW q \in Addresses
                 PROVE  /\ \A d \in given'[q] : surfaces[q] # None /\ buffers[d] = surfaces[q]
                        /\ q \in attached' => surfaces[q] # None
      BY DEF GivenIsOwn, wayland
    <2> QED
      BY <1>6 DEF Inv, GivenIsOwn
  <1>8. ASSUME NEW i \in DOMAIN g_surfaces PROVE SlotIsOwn(i)'
    <2> DEFINE s == g_surfaces[i]
    <2>1. s \in SlotType /\ SlotIsOwn(i)
      BY SlotTypes DEF Inv
    <2>2. given[s.resource] \subseteq given'[s.resource]
      BY <2>1, <1>6 DEF SlotType
    <2>3. CASE i = surface_of(r)
      <3>1. s.resource = r /\ g_surfaces'[i] = [s EXCEPT !.pending_buffer = b]
        BY <1>1, <2>3, SurfaceOf DEF Inv, TypeOK, First
      <3> QED
        BY <1>4, <1>6, <2>1, <2>2, <3>1 DEF SlotIsOwn, SlotType, wayland
    <2>4. CASE i # surface_of(r)
      <3>1. g_surfaces'[i] = s
        BY <1>1, <2>4
      <3>2. First(i, s.resource) => s.resource # r
        BY <2>4, SurfaceOf DEF Inv
      <3>3. attached' = attached \union {r}
        OBVIOUS
      <3>4. UNCHANGED <<surfaces, astray>>
        BY DEF wayland
      <3> HIDE DEF surface_attach
      <3> QED
        BY <1>4, <2>1, <2>2, <3>1, <3>2, <3>3, <3>4 DEF SlotIsOwn
    <2> QED
      BY <2>3, <2>4
  <1> QED
    BY <1>4, <1>5, <1>7, <1>8 DEF Inv

\* A buffer that was given to the surface becomes the one to be shown; one that was
\* left in its slot makes it one of those that went astray.
LEMMA CommitKeeps ==
  ASSUME Inv, NEW r \in Addresses, surfaces[r] # None, surface_commit(r)
  PROVE  Inv'
  <1> DEFINE k == surface_of(r)
  <1>1. /\ UNCHANGED <<g_acquired, g_running, phase, child, surfaces, buffers, attached, given>>
        /\ astray \subseteq astray' /\ astray' \subseteq astray \union {r}
    BY DEF surface_commit, wayland
  <1>2. CASE k = 0
    <2>1. UNCHANGED g_surfaces
      BY <1>2 DEF surface_commit
    <2> QED
      BY <1>1, <2>1 DEF Inv, TypeOK, GivenIsOwn, SlotIsOwn, First
  <1>3. CASE k # 0
    <2>1. First(k, r) /\ k \in DOMAIN g_surfaces /\ g_surfaces[k].resource = r
      BY <1>3, SurfaceOf DEF Inv, First
    <2>2. PICK i \in DOMAIN g_surfaces : i = k
      BY <2>1
    <2>3. g_surfaces' = [g_surfaces EXCEPT ![i] = Committed(@)]
      BY <1>3, <2>2 DEF surface_commit
    <2>4. g_surfaces[i] \in SlotType /\ SlotIsOwn(i)
      BY SlotTypes DEF Inv
    <2>5. Committed(g_surfaces[i]) \in SlotType /\ Committed(g_surfaces[i]).resource = r
      BY <2>1, <2>2, <2>4 DEF Committed, SlotType
    <2>6. /\ g_surfaces'[i] = Committed(g_surfaces[i])
          /\ \A j \in DOMAIN g_surfaces \ {i} : g_surfaces'[j] = g_surfaces[j]
      BY <2>3
    <2>7. g_surfaces' \in [DOMAIN g_surfaces -> SlotType]
      BY <2>3, <2>5, SlotTypes DEF Inv, TypeOK
    <2>8. \A j \in DOMAIN g_surfaces : g_surfaces'[j].resource = g_surfaces[j].resource
      BY <2>1, <2>2, <2>5, <2>6
    <2>9. /\ g_surfaces' \in Seq(SlotType) /\ Len(g_surfaces') <= MAX_SURFACES
          /\ DOMAIN g_surfaces' = DOMAIN g_surfaces
          /\ \A j, q : First(j, q)' <=> First(j, q)
      BY <2>7, <2>8, Reslotted DEF Inv
    <2>10. TypeOK' /\ GivenIsOwn'
      BY <1>1, <2>9 DEF Inv, TypeOK, GivenIsOwn
    <2>11. SlotIsOwn(i)'
      <3>1. First(i, r) /\ g_surfaces[i].resource = r
        BY <2>1, <2>2
      <3>2. r \notin attached /\ g_surfaces[i].pending_buffer # None => r \in astray'
        BY <1>3, <2>2 DEF surface_commit, LeftOver
      <3> QED
        BY <1>1, <2>4, <2>6, <2>9, <3>1, <3>2 DEF SlotIsOwn, Committed, SlotType
    <2>12. ASSUME NEW j \in DOMAIN g_surfaces \ {i} PROVE SlotIsOwn(j)'
      <3>1. SlotIsOwn(j) /\ g_surfaces'[j] = g_surfaces[j]
        BY <2>6 DEF Inv
      <3> QED
        BY <1>1, <2>9, <3>1 DEF SlotIsOwn
    <2> QED
      BY <2>9, <2>10, <2>11, <2>12 DEF Inv
  <1> QED
    BY <1>2, <1>3

LEMMA Unmapped ==
  ASSUME NEW s \in SlotType
  PROVE  LET u == [s EXCEPT !.mapped = FALSE]
         IN /\ u \in SlotType /\ ~u.mapped /\ u.resource = s.resource
            /\ u.buffer = s.buffer /\ u.pending_buffer = s.pending_buffer
  BY DEF SlotType

\* Surfaces go, and buffers with them that no other surface was given: the slots
\* that were found by their addresses are unmapped.
LEMMA GoneKeeps ==
  ASSUME Inv, NEW R \in SUBSET Addresses, g_surfaces' = Destroyed(R), Forget(R),
         surfaces' = [q \in Addresses |-> IF q \in R THEN None ELSE surfaces[q]],
         buffers' \in [Buffers -> Clients \union {None}],
         \A q \in Addresses \ R : \A b \in given[q] : buffers'[b] = buffers[b],
         UNCHANGED <<g_acquired, g_running, phase, child>>
  PROVE  Inv'
  <1>1. \A i \in DOMAIN g_surfaces :
          g_surfaces'[i] = IF \E r \in R : i = surface_of(r)
                           THEN [g_surfaces[i] EXCEPT !.mapped = FALSE] ELSE g_surfaces[i]
    BY DEF Destroyed
  <1>2. ASSUME NEW i \in DOMAIN g_surfaces
        PROVE  /\ g_surfaces'[i] \in SlotType /\ g_surfaces'[i].resource = g_surfaces[i].resource
               /\ g_surfaces'[i].buffer = g_surfaces[i].buffer
               /\ g_surfaces'[i].pending_buffer = g_surfaces[i].pending_buffer
               /\ (\E r \in R : i = surface_of(r)) => ~g_surfaces'[i].mapped
    <2>1. g_surfaces[i] \in SlotType
      BY SlotTypes DEF Inv
    <2>2. CASE \E r \in R : i = surface_of(r)
      <3>1. g_surfaces'[i] = [g_surfaces[i] EXCEPT !.mapped = FALSE]
        BY <1>1, <2>2
      <3> QED
        BY <2>1, <3>1, Unmapped
    <2>3. CASE ~ \E r \in R : i = surface_of(r)
      <3>1. g_surfaces'[i] = g_surfaces[i]
        BY <1>1, <2>3
      <3> QED
        BY <2>1, <2>3, <3>1
    <2> QED
      BY <2>2, <2>3
  <1>3. g_surfaces' \in [DOMAIN g_surfaces -> SlotType]
    BY <1>2 DEF Destroyed
  <1>4. /\ g_surfaces' \in Seq(SlotType) /\ Len(g_surfaces') <= MAX_SURFACES
        /\ DOMAIN g_surfaces' = DOMAIN g_surfaces
        /\ \A j, q : First(j, q)' <=> First(j, q)
    BY <1>2, <1>3, Reslotted DEF Inv
  <1>5. /\ attached' = attached \ R
        /\ \A q \in Addresses : given'[q] = IF q \in R THEN {} ELSE given[q]
        /\ \A q \in Addresses : surfaces'[q] = IF q \in R THEN None ELSE surfaces[q]
        /\ astray' = astray \ R
    BY DEF Forget
  <1>6. TypeOK'
    BY <1>4 DEF Inv, TypeOK, Forget
  <1>7. GivenIsOwn'
    <2> SUFFICES ASSUME NEW q \in Addresses
                 PROVE  /\ \A b \in given'[q] : surfaces'[q] # None /\ buffers'[b] = surfaces'[q]
                        /\ q \in attached' => surfaces'[q] # None
      BY DEF GivenIsOwn
    <2> QED
      BY <1>5 DEF Inv, GivenIsOwn
  <1>8. ASSUME NEW i \in DOMAIN g_surfaces PROVE SlotIsOwn(i)'
    <2>1. SlotIsOwn(i) /\ g_surfaces[i].resource \in Addresses
      BY SlotTypes DEF Inv, SlotType
    <2>2. g_surfaces'[i].mapped => g_surfaces[i].mapped /\ g_surfaces[i].resource \notin R
      <3>1. CASE \E r \in R : i = surface_of(r)
        BY <1>2, <3>1
      <3>2. CASE ~ \E r \in R : i = surface_of(r)
        <4>1. First(i, g_surfaces[i].resource) => i = surface_of(g_surfaces[i].resource)
          BY SurfaceOf DEF Inv
        <4> QED
          BY <1>1, <2>1, <3>2, <4>1 DEF SlotIsOwn
      <3> QED
        BY <3>1, <3>2
    <2> QED
      BY <1>2, <1>4, <1>5, <2>1, <2>2 DEF SlotIsOwn
  <1> QED
    BY <1>4, <1>6, <1>7, <1>8 DEF Inv

LEMMA DestroyKeeps ==
  ASSUME Inv, NEW r \in Addresses, surface_destroy(r)
  PROVE  Inv'
  <1>1. surfaces' = [q \in Addresses |-> IF q \in {r} THEN None ELSE surfaces[q]]
    BY DEF surface_destroy, Inv, TypeOK
  <1>2. buffers' = buffers /\ buffers \in [Buffers -> Clients \union {None}]
    BY DEF surface_destroy, Inv, TypeOK
  <1> QED
    BY <1>1, <1>2, GoneKeeps DEF surface_destroy

LEMMA DisconnectKeeps ==
  ASSUME Inv, NEW c \in Clients, Disconnect(c)
  PROVE  Inv'
  <1> DEFINE R == {r \in Addresses : surfaces[r] = c}
  <1>1. \A b \in Buffers : buffers'[b] = IF buffers[b] = c THEN None ELSE buffers[b]
    BY DEF Disconnect
  <1>2. buffers' \in [Buffers -> Clients \union {None}]
    BY DEF Disconnect, Inv, TypeOK
  <1>3. \A q \in Addresses \ R : \A b \in given[q] : buffers'[b] = buffers[b]
    BY <1>1 DEF Inv, TypeOK, GivenIsOwn
  <1> QED
    BY <1>2, <1>3, GoneKeeps DEF Disconnect
-----------------------------------------------------------------------------
\* A buffer that is made is one no surface was given.
LEMMA BufferKeeps ==
  ASSUME Inv, NEW b \in Buffers, NEW c \in Clients, CreateBuffer(c, b)
  PROVE  Inv'
  <1>1. UNCHANGED <<server, surfaces, clients>>
    BY DEF CreateBuffer
  <1>2. TypeOK'
    BY <1>1 DEF CreateBuffer, Inv, TypeOK, server, clients
  <1>3. \A q \in Addresses : b \notin given[q]
    BY WlCompAssumption DEF CreateBuffer, Inv, GivenIsOwn
  <1>4. \A d \in Buffers \ {b} : buffers'[d] = buffers[d]
    BY DEF CreateBuffer, Inv, TypeOK
  <1>5. GivenIsOwn'
    BY <1>1, <1>3, <1>4 DEF Inv, TypeOK, GivenIsOwn, clients
  <1> QED
    BY <1>1, <1>2, <1>5 DEF Inv, SlotIsOwn, First, server, clients

\* One that is destroyed is taken from the surfaces it was given to, and their slots
\* may keep it.
LEMMA DestroyBufferKeeps ==
  ASSUME Inv, NEW b \in Buffers, DestroyBuffer(b)
  PROVE  Inv'
  <1>1. UNCHANGED <<g_surfaces, g_acquired, g_running, phase, child, surfaces, attached>>
    BY DEF DestroyBuffer, server
  <1>2. \A q \in Addresses :
          /\ given'[q] = given[q] \ {b}
          /\ b \in given[q] => q \in astray'
    BY DEF DestroyBuffer
  <1>3. astray \subseteq astray'
    BY DEF DestroyBuffer
  <1>4. TypeOK'
    BY <1>1 DEF DestroyBuffer, Inv, TypeOK
  <1>5. \A d \in Buffers \ {b} : buffers'[d] = buffers[d]
    BY DEF DestroyBuffer, Inv, TypeOK
  <1>6. GivenIsOwn'
    BY <1>1, <1>2, <1>5 DEF Inv, TypeOK, GivenIsOwn
  <1>7. ASSUME NEW i \in DOMAIN g_surfaces PROVE SlotIsOwn(i)'
    <2>1. SlotIsOwn(i) /\ g_surfaces[i].resource \in Addresses
      BY SlotTypes DEF Inv, SlotType
    <2> QED
      BY <1>1, <1>2, <1>3, <2>1 DEF SlotIsOwn, First
  <1> QED
    BY <1>1, <1>4, <1>6, <1>7 DEF Inv

\* paint: a buffer goes back to its client with the slot that showed it.
LEMMA PaintKeeps == Inv /\ paint => Inv'
  <1> SUFFICES ASSUME Inv, paint PROVE Inv'
    OBVIOUS
  <1>1. /\ UNCHANGED <<g_running, child, surfaces, buffers, attached, astray>>
        /\ g_acquired' \in BOOLEAN /\ phase' = "reap"
    BY DEF paint, wayland, Inv, TypeOK
  <1>2. PICK drawn \in SUBSET ToPaint :
          /\ g_surfaces' = [i \in DOMAIN g_surfaces |->
                              IF i \in drawn THEN [g_surfaces[i] EXCEPT !.buffer = None]
                              ELSE g_surfaces[i]]
          /\ given' = [r \in Addresses |->
                         given[r] \ {b \in Buffers : \E i \in drawn : Releases(g_surfaces[i], r, b)}]
    BY DEF paint
  <1>3. \A i \in DOMAIN g_surfaces :
          /\ g_surfaces'[i] \in SlotType /\ g_surfaces'[i].resource = g_surfaces[i].resource
          /\ g_surfaces'[i].mapped = g_surfaces[i].mapped
          /\ g_surfaces'[i].pending_buffer = g_surfaces[i].pending_buffer
          /\ g_surfaces'[i].buffer = IF i \in drawn THEN None ELSE g_surfaces[i].buffer
    <2> SUFFICES ASSUME NEW i \in DOMAIN g_surfaces
                 PROVE  /\ g_surfaces'[i] \in SlotType
                        /\ g_surfaces'[i].resource = g_surfaces[i].resource
                        /\ g_surfaces'[i].mapped = g_surfaces[i].mapped
                        /\ g_surfaces'[i].pending_buffer = g_surfaces[i].pending_buffer
                        /\ g_surfaces'[i].buffer = IF i \in drawn THEN None ELSE g_surfaces[i].buffer
      OBVIOUS
    <2>1. g_surfaces[i] \in SlotType
      BY SlotTypes DEF Inv
    <2>2. g_surfaces'[i] = IF i \in drawn THEN [g_surfaces[i] EXCEPT !.buffer = None]
                           ELSE g_surfaces[i]
      BY <1>2
    <2> QED
      BY <2>1, <2>2 DEF SlotType
  <1>4. g_surfaces' \in [DOMAIN g_surfaces -> SlotType]
    BY <1>2, <1>3
  <1>5. /\ g_surfaces' \in Seq(SlotType) /\ Len(g_surfaces') <= MAX_SURFACES
        /\ DOMAIN g_surfaces' = DOMAIN g_surfaces
        /\ \A j, q : First(j, q)' <=> First(j, q)
    BY <1>3, <1>4, Reslotted DEF Inv
  <1>6. \A q \in Addresses :
          given'[q] = given[q] \ {b \in Buffers : \E i \in drawn : Releases(g_surfaces[i], q, b)}
    BY <1>2
  <1>7. given' \in [Addresses -> SUBSET Buffers]
    BY <1>2 DEF Inv, TypeOK
  <1>8. TypeOK'
    BY <1>1, <1>5, <1>7 DEF Inv, TypeOK
  <1>9. GivenIsOwn'
    BY <1>1, <1>6 DEF Inv, GivenIsOwn
  <1>10. ASSUME NEW i \in DOMAIN g_surfaces, NEW b,
                First(i, g_surfaces[i].resource), b \in given[g_surfaces[i].resource],
                b = g_surfaces[i].pending_buffer \/ (g_surfaces[i].mapped /\ i \notin drawn)
         PROVE  b \in given'[g_surfaces[i].resource]
    <2> DEFINE r == g_surfaces[i].resource
    <2>1. r \in Addresses
      BY SlotTypes DEF Inv, SlotType
    <2>2. ASSUME NEW j \in drawn, Releases(g_surfaces[j], r, b) PROVE j = i
      <3>1. First(j, r)
        BY <2>2 DEF Releases, ToPaint, Shown, Inv, SlotIsOwn
      <3> QED
        BY <1>10, <3>1, SurfaceOf DEF Inv
    <2> QED
      BY <1>6, <1>10, <2>1, <2>2 DEF Releases
  <1>11. ASSUME NEW i \in DOMAIN g_surfaces PROVE SlotIsOwn(i)'
    <2>1. SlotIsOwn(i)
      BY DEF Inv
    <2>2. g_surfaces'[i].mapped /\ g_surfaces'[i].buffer # None =>
            g_surfaces[i].mapped /\ i \notin drawn /\ g_surfaces[i].buffer # None
            /\ g_surfaces'[i].buffer = g_surfaces[i].buffer
      BY <1>3
    <2>3. g_surfaces'[i].mapped /\ g_surfaces'[i].buffer # None =>
            \/ g_surfaces[i].resource \in astray
            \/ g_surfaces'[i].buffer \in given'[g_surfaces[i].resource]
      BY <2>1, <2>2, <1>10 DEF SlotIsOwn
    <2> QED
      BY <1>1, <1>3, <1>5, <1>10, <2>1, <2>3 DEF SlotIsOwn
  <1> QED
    BY <1>5, <1>8, <1>9, <1>11 DEF Inv

\* The rest touches no slot, surface or buffer.
LEMMA RestKeeps ==
  ASSUME Inv, UNCHANGED <<g_surfaces, wayland, clients>>,
         g_acquired' \in BOOLEAN, g_running' \in BOOLEAN,
         phase' \in {"start", "loop", "dispatch", "reap", "exit", "gone"},
         child' \in {"none", "runs", "ended", "killed"}
  PROVE  Inv'
  BY DEF Inv, TypeOK, GivenIsOwn, SlotIsOwn, First, wayland, clients
-----------------------------------------------------------------------------
LEMMA InvInit == Init => Inv
  <1> SUFFICES ASSUME Init PROVE Inv
    OBVIOUS
  <1>1. g_surfaces \in Seq(SlotType) /\ Len(g_surfaces) <= MAX_SURFACES
    BY WlCompAssumption DEF Init
  <1>2. TypeOK
    BY <1>1 DEF Init, TypeOK
  <1> QED
    BY <1>2 DEF Init, Inv, GivenIsOwn

LEMMA RequestsKeep ==
  ASSUME Inv, NEW c \in Clients, Requests(c)
  PROVE  Inv'
  <1>1. ASSUME NEW r \in Addresses, surfaces[r] = c, NEW b \in Buffers \union {None},
               b # None => buffers[b] = c, surface_attach(r, b)
        PROVE  Inv'
    BY <1>1, AttachKeeps, WlCompAssumption
  <1>2. ASSUME NEW r \in Addresses, surfaces[r] = c, surface_commit(r)
        PROVE  Inv'
    BY <1>2, CommitKeeps, WlCompAssumption
  <1> QED
    BY <1>1, <1>2, CreateKeeps, BufferKeeps, DestroyBufferKeeps, DestroyKeeps, DisconnectKeeps
       DEF Requests

LEMMA InvStep == Inv /\ [Next]_vars => Inv'
  <1> SUFFICES ASSUME Inv, [Next]_vars PROVE Inv'
    OBVIOUS
  <1>1. CASE UNCHANGED vars
    BY <1>1, RestKeeps DEF vars, server, Inv, TypeOK
  <1>2. CASE StartUp \/ on_sigint \/ ChildEnds
    BY <1>2, RestKeeps DEF StartUp, on_sigint, ChildEnds, Inv, TypeOK
  <1>3. CASE Loop \/ Fault \/ Reap \/ Exit
    BY <1>3, RestKeeps DEF Loop, Fault, Reap, Exit, Inv, TypeOK
  <1> QED
    BY <1>1, <1>2, <1>3, RequestsKeep, PaintKeeps DEF Next, MainLoop

\* What is painted exists and is its client's own, who gave it for that surface:
\* for any number of clients, slots, addresses and buffers, whatever is reused and
\* whatever clients ask for.  Excepted are the surfaces whose own client destroyed
\* a buffer it had given to them, or committed what an earlier surface left.
THEOREM ShownIsAlwaysOwn == Spec => []ShownIsOwn
  <1>1. Inv => ShownIsOwn
    <2> SUFFICES ASSUME Inv, NEW i \in DOMAIN g_surfaces, Shown(g_surfaces[i])
                 PROVE  /\ surfaces[g_surfaces[i].resource] # None
                        /\ g_surfaces[i].resource \in astray
                             \/ /\ buffers[g_surfaces[i].buffer] = surfaces[g_surfaces[i].resource]
                                /\ g_surfaces[i].buffer \in given[g_surfaces[i].resource]
      BY DEF ShownIsOwn
    <2>1. g_surfaces[i].resource \in Addresses
      BY SlotTypes DEF Inv, SlotType
    <2> QED
      BY <2>1 DEF Inv, SlotIsOwn, GivenIsOwn, Shown
  <1> QED
    BY <1>1, InvInit, InvStep, PTL DEF Spec
-----------------------------------------------------------------------------
\* wldemo: its one surface is asked for once.

NoneOwn == \A r \in Addresses : surfaces[r] # wldemo

InOrder(q, own) ==
  /\ \A i, j \in DOMAIN q : q[i] = "create_surface" /\ q[j] = "create_surface" => i = j
  /\ (\E i \in DOMAIN q : q[i] = "create_surface") => own

Asked == {"create_surface", "attach", "commit"}

Ask == Asked \union {"get_registry", "create_buffer", "sync"}

DemoInv ==
  /\ requests \in Seq(Ask)
  /\ InOrder(requests, NoneOwn)
  /\ \A r, q \in Addresses : surfaces[r] = wldemo /\ surfaces[q] = wldemo => r = q
  /\ pc \in {"user", "none", "start", "bind"} =>
       NoneOwn /\ \A i \in DOMAIN requests : requests[i] \notin Asked
  /\ pc \in {"user", "none", "start"} => requests = <<>>
  /\ pc = "user" => phase = "start"

LEMMA AskedTwo ==
  ASSUME NEW S, NEW q \in Seq(S), NEW a \in S, NEW b \in S
  PROVE  LET s == q \o <<a, b>> n == Len(q) IN
         /\ s \in Seq(S) /\ n \in Nat /\ DOMAIN q = 1..n /\ DOMAIN s = 1..n + 2
         /\ \A i \in 1..n : s[i] = q[i]
         /\ s[n + 1] = a /\ s[n + 2] = b
  <1> DEFINE t == <<a, b>>
  <1>1. t \in Seq(S) /\ Len(t) = 2 /\ t[1] = a /\ t[2] = b
    OBVIOUS
  <1> HIDE DEF t
  <1> QED
    BY <1>1, ConcatProperties DEF t

LEMMA AskedThree ==
  ASSUME NEW S, NEW q \in Seq(S), NEW a \in S, NEW b \in S, NEW c \in S
  PROVE  LET s == q \o <<a, b, c>> n == Len(q) IN
         /\ s \in Seq(S) /\ n \in Nat /\ DOMAIN q = 1..n /\ DOMAIN s = 1..n + 3
         /\ \A i \in 1..n : s[i] = q[i]
         /\ s[n + 1] = a /\ s[n + 2] = b /\ s[n + 3] = c
  <1> DEFINE t == <<a, b, c>>
  <1>1. t \in Seq(S) /\ Len(t) = 3 /\ t[1] = a /\ t[2] = b /\ t[3] = c
    OBVIOUS
  <1> HIDE DEF t
  <1> QED
    BY <1>1, ConcatProperties DEF t

LEMMA Answered ==
  ASSUME NEW S, NEW q \in Seq(S), q # <<>>
  PROVE  LET s == Tail(q) n == Len(q) IN
         /\ s \in Seq(S) /\ n \in Nat \ {0} /\ DOMAIN q = 1..n /\ DOMAIN s = 1..n - 1
         /\ \A i \in 1..n - 1 : s[i] = q[i + 1]
         /\ Head(q) = q[1]
  OBVIOUS

LEMMA DemoInvInit == DemoInit => DemoInv
  <1> SUFFICES ASSUME DemoInit PROVE DemoInv
    OBVIOUS
  <1>1. \A r \in Addresses : surfaces[r] # wldemo
    BY WlCompAssumption, WlDemoAssumption DEF DemoInit, Init
  <1>2. requests = <<>> /\ phase = "start"
    BY DEF DemoInit, Init
  <1> QED
    BY <1>1, <1>2 DEF DemoInv, InOrder, NoneOwn

\* Surfaces of wldemo's that stay as they are, and a queue that does.
LEMMA SameQueue ==
  ASSUME DemoInv, requests' = requests,
         \A r \in Addresses : surfaces'[r] = wldemo <=> surfaces[r] = wldemo,
         pc' \in {"user", "none", "start", "bind"} =>
           pc \in {"user", "none", "start", "bind"},
         pc' \in {"user", "none", "start"} => pc \in {"user", "none", "start"},
         pc' = "user" => pc = "user" /\ phase' = "start"
  PROVE  DemoInv'
  <1>1. NoneOwn' <=> NoneOwn
    BY DEF NoneOwn
  <1>2. InOrder(requests, NoneOwn)'
    BY <1>1 DEF DemoInv, InOrder
  <1> QED
    BY <1>1, <1>2 DEF DemoInv

\* What the client does before and between its requests.
LEMMA QuietKeeps ==
  ASSUME DemoInv, Launch \/ draw \/ Roundtrip \/ Quit \/ Killed
  PROVE  [Next]_vars /\ DemoInv'
  <1>1. UNCHANGED <<requests, surfaces>>
    BY DEF Launch, draw, Roundtrip, Quit, Killed, socket, vars, wayland
  <1>2. CASE Launch
    <2>1. StartUp \/ UNCHANGED vars
      BY <1>2 DEF Launch, StartUp, DemoInv, vars, server
    <2>2. pc' \in {"none", "quit"} /\ pc = "user"
      BY <1>2 DEF Launch
    <2> QED
      BY <1>1, <2>1, <2>2, SameQueue DEF Next
  <1>3. CASE draw \/ Roundtrip \/ Killed
    <2>1. UNCHANGED vars /\ pc' \in {"drawing", "draw", "quit"}
      BY <1>3 DEF draw, Roundtrip, Killed
    <2> QED
      BY <1>1, <2>1, SameQueue
  <1>4. CASE Quit
    <2>1. ChildEnds \/ UNCHANGED vars
      BY <1>4 DEF Quit, ChildEnds, vars, server
    <2>2. pc' = "quit"
      BY <1>4 DEF Quit
    <2> QED
      BY <1>1, <2>1, <2>2, SameQueue DEF Next
  <1> QED
    BY <1>2, <1>3, <1>4

LEMMA ConnectKeeps ==
  ASSUME DemoInv, Connect
  PROVE  [Next]_vars /\ DemoInv'
  <1>1. UNCHANGED vars /\ UNCHANGED <<surfaces, phase>> /\ pc' = "bind"
    BY DEF Connect, vars, server, wayland
  <1>2. requests' = <<"get_registry", "sync">> /\ NoneOwn
    BY DEF Connect, DemoInv
  <1>3. requests' \in Seq(Ask) /\ DOMAIN requests' = 1..2
        /\ \A i \in 1..2 : requests'[i] \notin Asked
    BY <1>2 DEF Ask, Asked
  <1>4. NoneOwn'
    BY <1>1, <1>2 DEF NoneOwn
  <1> QED
    BY <1>1, <1>3, <1>4 DEF DemoInv, InOrder, NoneOwn, Asked

\* The surface is asked for.
LEMMA PrepareKeeps ==
  ASSUME DemoInv, Prepare
  PROVE  [Next]_vars /\ DemoInv'
  <1> DEFINE n == Len(requests)
  <1>1. UNCHANGED vars /\ UNCHANGED <<surfaces, phase>> /\ pc' = "draw"
    BY DEF Prepare, vars, server, wayland
  <1>2. /\ requests' \in Seq(Ask) /\ n \in Nat
        /\ DOMAIN requests = 1..n /\ DOMAIN requests' = 1..n + 2
        /\ \A i \in 1..n : requests'[i] = requests[i]
        /\ requests'[n + 1] = "create_buffer" /\ requests'[n + 2] = "create_surface"
    BY AskedTwo DEF Prepare, DemoInv, Ask, Asked
  <1>3. NoneOwn /\ \A i \in 1..n : requests[i] \notin Asked
    BY <1>2 DEF Prepare, DemoInv
  <1>4. NoneOwn'
    BY <1>1, <1>3 DEF NoneOwn
  <1>5. \A i \in 1..n + 2 : requests'[i] \in Asked => i = n + 2 /\ requests'[i] = "create_surface"
    BY <1>2, <1>3 DEF Asked
  <1>6. InOrder(requests, NoneOwn)'
    BY <1>2, <1>4, <1>5 DEF InOrder, Asked
  <1> QED
    BY <1>1, <1>2, <1>6 DEF DemoInv

LEMMA ShowKeeps ==
  ASSUME DemoInv, Show
  PROVE  [Next]_vars /\ DemoInv'
  <1> DEFINE n == Len(requests)
  <1>1. UNCHANGED vars /\ UNCHANGED <<surfaces, phase>> /\ pc' = "wait"
    BY DEF Show, vars, server, wayland
  <1>2. /\ requests' \in Seq(Ask) /\ n \in Nat
        /\ DOMAIN requests = 1..n /\ DOMAIN requests' = 1..n + 3
        /\ \A i \in 1..n : requests'[i] = requests[i]
        /\ requests'[n + 1] = "attach" /\ requests'[n + 2] = "commit"
        /\ requests'[n + 3] = "sync"
    BY AskedThree DEF Show, DemoInv, Ask, Asked
  <1>3. NoneOwn' = NoneOwn
    BY <1>1 DEF NoneOwn
  <1>4. InOrder(requests, NoneOwn)
    BY DEF DemoInv
  <1>5. \A i \in 1..n + 3 : i \in 1..n \/ i = n + 1 \/ i = n + 2 \/ i = n + 3
    BY <1>2
  <1>6. InOrder(requests, NoneOwn)'
    <2> DEFINE q == requests'
    <2>1. \A i, j \in DOMAIN q : q[i] = "create_surface" /\ q[j] = "create_surface" => i = j
      BY <1>2, <1>4, <1>5 DEF InOrder
    <2>2. (\E i \in DOMAIN q : q[i] = "create_surface") => NoneOwn
      BY <1>2, <1>4, <1>5 DEF InOrder
    <2> QED
      BY <1>3, <2>1, <2>2 DEF InOrder
  <1> QED
    BY <1>1, <1>2, <1>6 DEF DemoInv

\* The compositor answers what was asked first, which a client may ask.
LEMMA HandleKeeps ==
  ASSUME Inv, DemoInv, Handle
  PROVE  [Next]_vars /\ DemoInv'
  <1> DEFINE n == Len(requests)
             ask == Head(requests)
  <1>1. /\ requests' = Tail(requests) /\ requests # <<>> /\ UNCHANGED pc
        /\ ask \in {"get_registry", "create_buffer", "create_surface", "attach", "commit", "sync"}
    BY DEF Handle, Request, client
  <1>2. /\ requests' \in Seq(Ask) /\ n \in Nat \ {0}
        /\ DOMAIN requests = 1..n /\ DOMAIN requests' = 1..n - 1
        /\ \A i \in 1..n - 1 : requests'[i] = requests[i + 1]
        /\ ask = requests[1]
    BY <1>1, Answered DEF DemoInv
  <1>3. InOrder(requests, NoneOwn)
    BY DEF DemoInv
  <1>4. \A i, j \in DOMAIN requests' :
          requests'[i] = "create_surface" /\ requests'[j] = "create_surface" => i = j
    <2> SUFFICES ASSUME NEW i \in 1..n - 1, NEW j \in 1..n - 1,
                        requests[i + 1] = "create_surface", requests[j + 1] = "create_surface"
                 PROVE  i = j
      BY <1>2
    <2>1. i + 1 \in 1..n /\ j + 1 \in 1..n
      BY <1>2
    <2>2. i + 1 = j + 1
      BY <1>2, <1>3, <2>1 DEF InOrder
    <2> QED
      BY <2>2
  <1>5. ask = "create_surface" => \A i \in DOMAIN requests' : requests'[i] # "create_surface"
    <2> SUFFICES ASSUME requests[1] = "create_surface", NEW i \in 1..n - 1,
                        requests[i + 1] = "create_surface"
                 PROVE  FALSE
      BY <1>2
    <2>1. i + 1 \in 1..n /\ 1 \in 1..n
      BY <1>2
    <2>2. i + 1 = 1
      BY <1>2, <1>3, <2>1 DEF InOrder
    <2> QED
      BY <2>2
  <1>6. pc \in {"user", "none", "start", "bind"} =>
          /\ NoneOwn /\ ask \notin Asked
          /\ \A i \in DOMAIN requests' : requests'[i] \notin Asked
    BY <1>2 DEF DemoInv
  <1>7. pc \notin {"user", "none", "start"}
    BY <1>1 DEF DemoInv
  <1>8. CASE ask = "create_surface"
    <2>1. /\ [Next]_vars
          /\ \/ UNCHANGED surfaces
             \/ \E r \in Addresses : surfaces' = [surfaces EXCEPT ![r] = wldemo]
      BY <1>8, WlDemoAssumption
      DEF Handle, Request, Next, Requests, compositor_create_surface, vars, wayland
    <2>2. NoneOwn
      BY <1>2, <1>3, <1>8 DEF InOrder
    <2>3. \A r, q \in Addresses : surfaces'[r] = wldemo /\ surfaces'[q] = wldemo => r = q
      BY <2>1, <2>2 DEF NoneOwn, Inv, TypeOK
    <2>4. InOrder(requests, NoneOwn)'
      BY <1>5, <1>8 DEF InOrder
    <2> QED
      BY <1>1, <1>2, <1>6, <1>7, <1>8, <2>1, <2>3, <2>4 DEF DemoInv, Asked
  <1>9. CASE ask # "create_surface"
    <2>1. [Next]_vars /\ UNCHANGED surfaces
      <3>1. CASE ask \in {"get_registry", "sync"}
        BY <3>1 DEF Handle, Request, vars, wayland
      <3>2. CASE ask = "create_buffer"
        BY <3>2, WlDemoAssumption DEF Handle, Request, CreateBuffer, Next, Requests
      <3>3. CASE ask = "attach"
        <4>1. PICK r \in Addresses, b \in Buffers :
                surfaces[r] = wldemo /\ buffers[b] = wldemo /\ surface_attach(r, b)
          BY <3>3 DEF Handle, Request, Own
        <4>2. Requests(wldemo)
          BY <4>1 DEF Requests
        <4> QED
          BY <4>1, <4>2, WlDemoAssumption DEF surface_attach, wayland, Next
      <3>4. CASE ask = "commit"
        <4>1. PICK r \in Addresses : surfaces[r] = wldemo /\ surface_commit(r)
          BY <3>4 DEF Handle, Request, Own
        <4>2. Requests(wldemo)
          BY <4>1 DEF Requests
        <4> QED
          BY <4>1, <4>2, WlDemoAssumption DEF surface_commit, wayland, Next
      <3> QED
        BY <1>1, <1>9, <3>1, <3>2, <3>3, <3>4
    <2>2. NoneOwn' = NoneOwn
      BY <2>1 DEF NoneOwn
    <2>3. (\E i \in DOMAIN requests' : requests'[i] = "create_surface") => NoneOwn'
      BY <1>2, <1>3, <2>2 DEF InOrder
    <2>4. InOrder(requests, NoneOwn)'
      BY <1>4, <2>3 DEF InOrder
    <2> QED
      BY <1>1, <1>2, <1>6, <1>7, <2>1, <2>2, <2>4 DEF DemoInv
  <1> QED
    BY <1>8, <1>9

\* Its connection ends, and with it all that is its own.
LEMMA HangUpKeeps ==
  ASSUME DemoInv, HangUp
  PROVE  [Next]_vars /\ DemoInv'
  <1>1. Disconnect(wldemo) /\ requests' = <<>> /\ UNCHANGED <<pc, phase>>
    BY DEF HangUp, Closed, Disconnect, client
  <1>2. [Next]_vars
    BY <1>1, WlDemoAssumption DEF Next, Requests
  <1>3. NoneOwn'
    BY <1>1, WlCompAssumption, WlDemoAssumption DEF Disconnect, NoneOwn
  <1> QED
    BY <1>1, <1>2, <1>3 DEF DemoInv, InOrder, NoneOwn

\* Another client's surfaces are not wldemo's.
LEMMA OthersKeep ==
  ASSUME Inv, DemoInv, Others
  PROVE  [Next]_vars /\ DemoInv'
  <1>1. PICK c \in Clients \ {wldemo} : Requests(c)
    BY DEF Others
  <1>2. UNCHANGED <<requests, pc>>
    BY DEF Others, client, socket
  <1> DEFINE Kept ==
        /\ \A r \in Addresses : surfaces'[r] = wldemo <=> surfaces[r] = wldemo
        /\ UNCHANGED phase
  <1>3. Kept
    <2> USE WlCompAssumption, WlDemoAssumption DEF Inv, TypeOK, wayland, server
    <2>1. ASSUME NEW r \in Addresses, compositor_create_surface(c, r) PROVE Kept
      BY <2>1 DEF compositor_create_surface
    <2>2. ASSUME NEW b \in Buffers, CreateBuffer(c, b) \/ DestroyBuffer(b) PROVE Kept
      BY <2>2 DEF CreateBuffer, DestroyBuffer
    <2>3. ASSUME NEW r \in Addresses, NEW b, surface_attach(r, b) PROVE Kept
      BY <2>3 DEF surface_attach
    <2>4. ASSUME NEW r \in Addresses, surface_commit(r) PROVE Kept
      BY <2>4 DEF surface_commit
    <2>5. ASSUME NEW r \in Addresses, surfaces[r] = c, surface_destroy(r) PROVE Kept
      BY <2>5 DEF surface_destroy
    <2>6. ASSUME Disconnect(c) PROVE Kept
      BY <2>6 DEF Disconnect
    <2> QED
      BY <1>1, <2>1, <2>2, <2>3, <2>4, <2>5, <2>6 DEF Requests
  <1> QED
    BY <1>1, <1>2, <1>3, SameQueue DEF Next, DemoInv

LEMMA ServerKeeps ==
  ASSUME DemoInv, Started \/ Turn \/ Interrupt
  PROVE  [Next]_vars /\ DemoInv'
  <1>1. UNCHANGED <<requests, surfaces>>
    BY DEF Started, Turn, Interrupt, MainLoop, StartUp, on_sigint, Loop, paint, Fault, Reap, Exit,
           socket, wayland
  <1>2. CASE Started
    <2>1. pc = "none" /\ pc' \in {"start", "quit"} /\ StartUp
      BY <1>2 DEF Started
    <2> QED
      BY <1>1, <2>1, SameQueue DEF Next
  <1>3. CASE Turn
    <2>1. UNCHANGED pc /\ MainLoop /\ phase # "start"
      BY <1>3 DEF Turn, MainLoop, Loop, paint, Fault, Reap, Exit, client
    <2> QED
      BY <1>1, <2>1, SameQueue DEF Next, DemoInv
  <1>4. CASE Interrupt
    <2>1. UNCHANGED pc /\ on_sigint /\ phase # "start"
      BY <1>4 DEF Interrupt, on_sigint, client
    <2> QED
      BY <1>1, <2>1, SameQueue DEF Next, DemoInv
  <1> QED
    BY <1>2, <1>3, <1>4

LEMMA DemoStep == Inv /\ DemoInv /\ [DemoNext]_dvars => [Next]_vars /\ Inv' /\ DemoInv'
  <1> SUFFICES ASSUME Inv, DemoInv, [DemoNext]_dvars PROVE [Next]_vars /\ DemoInv'
    BY InvStep
  <1>1. CASE UNCHANGED dvars
    BY <1>1 DEF dvars, vars, wayland, clients, server, socket, client, DemoInv, InOrder,
                NoneOwn
  <1> QED
    BY <1>1, QuietKeeps, ConnectKeeps, PrepareKeeps, ShowKeeps, HandleKeeps, HangUpKeeps,
       OthersKeep, ServerKeeps DEF DemoNext, Client

LEMMA DemoStart == DemoInit => Init /\ Inv /\ DemoInv
  BY DemoInvInit, InvInit DEF DemoInit

\* wldemo asks for nothing that a client of WlComp may not ask for, and wlcomp does
\* with it what it does there: what is proved of WlComp holds with the demo.
THEOREM DemoIsClient == DemoSpec => Spec
  BY DemoStart, DemoStep, PTL DEF DemoSpec, Spec

\* The types of the compositor with the demo.
THEOREM TypeCorrect == DemoSpec => []TypeOK
  <1>1. Inv => TypeOK
    BY DEF Inv
  <1>2. Spec => []TypeOK
    BY <1>1, InvInit, InvStep, PTL DEF Spec
  <1> QED
    BY <1>2, DemoIsClient, PTL

\* So what is painted is its client's own while wldemo is among the clients, with the
\* same exceptions.
THEOREM ShownIsOwnInDemo == DemoSpec => []ShownIsOwn
  BY DemoIsClient, ShownIsAlwaysOwn, PTL
-----------------------------------------------------------------------------
\* The frame of wldemo on its way: in its requests, in the slot of its surface, on
\* the screen, and back as the answer to its roundtrip.

\* Events, of which done is the one that wldemo waits for.
Event == {"done", "release"}

OwnSlot(i) ==
  /\ i \in DOMAIN g_surfaces /\ Own(g_surfaces[i].resource)
  /\ First(i, g_surfaces[i].resource)

OneOwn == \A r, q \in Addresses : Own(r) /\ Own(q) => r = q

\* A surface that was created has a slot.
SlotFound ==
  \A r \in Addresses : surfaces[r] # None => \E i \in DOMAIN g_surfaces : g_surfaces[i].resource = r

\* The slot of wldemo's surface: with nothing of a frame in it, with wldemo's buffer
\* waiting for the commit, and with it waiting for the paint, which comes before the
\* loop goes on, if it does.
Idle ==
  \A i \in DOMAIN g_surfaces : OwnSlot(i) =>
    /\ ~Shown(g_surfaces[i])
    /\ g_surfaces[i].resource \in attached => g_surfaces[i].pending_buffer = None
Handed ==
  \A i \in DOMAIN g_surfaces : OwnSlot(i) =>
    /\ ~Shown(g_surfaces[i])
    /\ g_surfaces[i].pending_buffer \in Buffers /\ buffers[g_surfaces[i].pending_buffer] = wldemo
Showing ==
  /\ ~NoneOwn /\ phase \in {"dispatch", "gone"}
  /\ \A i \in DOMAIN g_surfaces : OwnSlot(i) =>
       /\ Shown(g_surfaces[i]) /\ g_surfaces[i].pending_buffer = None
       /\ g_surfaces[i].buffer \in Buffers /\ buffers[g_surfaces[i].buffer] = wldemo

Silent == ~Contains(events, "done") /\ ~Contains(inbox, "done")
Before == painted = frame /\ Silent
Copied == (Showing /\ painted = frame) \/ (Idle /\ painted = frame + 1)

Setup == {<<>>, <<"create_surface">>, <<"create_buffer", "create_surface">>}
Frame == <<"attach", "commit", "sync">>
FirstFrame ==
  {<<"create_surface", "attach", "commit", "sync">>,
   <<"create_buffer", "create_surface", "attach", "commit", "sync">>}

\* Where the frame is while wldemo waits for the answer.
Asking == requests \in FirstFrame \union {Frame} /\ Before /\ Idle
          /\ (requests # Frame => NoneOwn)
Attaching == requests = <<"commit", "sync">> /\ Handed /\ Before
Committing == requests = <<"sync">> /\ Copied /\ Silent
Answering == requests = <<>> /\ Copied /\ ~Contains(inbox, "done")
Answer == requests = <<>> /\ Idle /\ painted = frame + 1 /\ ~Contains(events, "done")
Refused == requests = <<>> /\ ~up /\ NoneOwn /\ Silent
Waiting == Asking \/ Attaching \/ Committing \/ Answering \/ Answer \/ Refused

Starting == requests = <<>> /\ NoneOwn /\ Before
Binding ==
  /\ NoneOwn /\ painted = frame
  /\ \/ Silent /\ requests \in {<<"get_registry", "sync">>, <<"sync">>}
     \/ requests = <<>> /\ (Contains(inbox, "done") => ~Contains(events, "done"))
Drawing == Idle /\ Before /\ requests \in Setup /\ (requests # <<>> => NoneOwn)

FrameInv ==
  /\ SlotFound
  /\ frame \in Nat /\ painted \in Nat
  /\ events \in Seq(Event) /\ inbox \in Seq(Event)
  /\ pc \in {"user", "none", "start"} => Starting
  /\ pc = "bind" => Binding
  /\ pc \in {"draw", "drawing"} => Drawing
  /\ pc = "wait" => Waiting
-----------------------------------------------------------------------------
\* What the slot of wldemo's surface is the same for before and after.
Kept ==
  /\ \A r \in Addresses : Own(r)' <=> Own(r)
  /\ \A r \in Addresses : Own(r) => (r \in attached' <=> r \in attached)
  /\ \A i \in DOMAIN g_surfaces' : OwnSlot(i)' => OwnSlot(i) /\ g_surfaces'[i] = g_surfaces[i]
  /\ \A b \in Buffers : buffers[b] = wldemo => buffers'[b] = wldemo
  /\ phase \in {"dispatch", "gone"} => phase' \in {"dispatch", "gone"}

LEMMA KeptView ==
  ASSUME Inv, Kept
  PROVE  /\ NoneOwn' <=> NoneOwn
         /\ (Idle => Idle') /\ (Handed => Handed') /\ (Showing => Showing')
  <1>1. NoneOwn' <=> NoneOwn
    BY DEF Kept, NoneOwn, Own
  <1>3. \A i \in DOMAIN g_surfaces' : OwnSlot(i)' =>
          /\ i \in DOMAIN g_surfaces /\ OwnSlot(i) /\ g_surfaces'[i] = g_surfaces[i]
          /\ g_surfaces[i].resource \in attached' <=> g_surfaces[i].resource \in attached
    <2> SUFFICES ASSUME NEW i \in DOMAIN g_surfaces', OwnSlot(i)'
                 PROVE  /\ i \in DOMAIN g_surfaces /\ OwnSlot(i) /\ g_surfaces'[i] = g_surfaces[i]
                        /\ g_surfaces[i].resource \in attached'
                             <=> g_surfaces[i].resource \in attached
      OBVIOUS
    <2>1. OwnSlot(i) /\ g_surfaces'[i] = g_surfaces[i]
      BY DEF Kept
    <2>2. i \in DOMAIN g_surfaces /\ Own(g_surfaces[i].resource)
      BY <2>1 DEF OwnSlot
    <2>3. g_surfaces[i].resource \in Addresses
      BY <2>2, SlotTypes DEF Inv, SlotType
    <2> QED
      BY <2>1, <2>2, <2>3 DEF Kept
  <1>4. \A i : Shown(g_surfaces[i])' <=> Shown(g_surfaces'[i])
    BY DEF Shown
  <1>5. Idle => Idle'
    BY <1>3, <1>4 DEF Idle
  <1>6. Handed => Handed'
    BY <1>3, <1>4 DEF Handed, Kept
  <1>7. Showing => Showing'
    BY <1>1, <1>3, <1>4 DEF Showing, Kept
  <1> QED
    BY <1>1, <1>5, <1>6, <1>7

\* A surface has one slot.
LEMMA OwnHasSlot ==
  ASSUME Inv, SlotFound, NEW r \in Addresses, surfaces[r] # None
  PROVE  \E i \in DOMAIN g_surfaces : First(i, r)
  <1> DEFINE S == {i \in DOMAIN g_surfaces : g_surfaces[i].resource = r}
  <1>1. S \subseteq Nat /\ S # {}
    BY DEF SlotFound, Inv, TypeOK
  <1>2. PICK i \in S : \A j \in S : i <= j
    BY <1>1, LeastExists
  <1> QED
    BY <1>2 DEF First

\* Nothing is to be painted in wldemo's place while its slot is idle, nor while it
\* only has a buffer that waits for the commit.
LEMMA NothingShown ==
  ASSUME Inv, Idle \/ Handed, NEW i \in ToPaint
  PROVE  ~Own(g_surfaces[i].resource)
  <1>1. i \in DOMAIN g_surfaces /\ Shown(g_surfaces[i])
    BY DEF ToPaint
  <1>2. First(i, g_surfaces[i].resource)
    BY <1>1 DEF Inv, SlotIsOwn, Shown
  <1> QED
    BY <1>1, <1>2 DEF OwnSlot, Idle, Handed

\* What is to be painted of wldemo's is there.
LEMMA SomethingShown ==
  ASSUME Inv, SlotFound, Showing
  PROVE  OwnCopies # {}
  <1>1. PICK r \in Addresses : surfaces[r] = wldemo
    BY DEF Showing, NoneOwn
  <1>2. PICK i \in DOMAIN g_surfaces : First(i, r)
    BY <1>1, OwnHasSlot, WlCompAssumption, WlDemoAssumption
  <1>3. g_surfaces[i].resource = r /\ OwnSlot(i)
    BY <1>1, <1>2 DEF OwnSlot, Own, First
  <1>4. Shown(g_surfaces[i]) /\ buffers[g_surfaces[i].buffer] = wldemo
    BY <1>3 DEF Showing
  <1>5. i \in OwnCopies
    BY <1>1, <1>3, <1>4 DEF OwnCopies, Copies, ToPaint, Own
  <1> QED
    BY <1>5

\* Slots that keep their addresses stay with their surfaces.
LEMMA SameSlots ==
  ASSUME Inv, DOMAIN g_surfaces' = DOMAIN g_surfaces,
         \A i \in DOMAIN g_surfaces : g_surfaces'[i].resource = g_surfaces[i].resource,
         \A q \in Addresses : surfaces'[q] \in {surfaces[q], None}
  PROVE  /\ \A i, r : First(i, r)' <=> First(i, r)
         /\ (\A q \in Addresses : surfaces'[q] = wldemo <=> surfaces[q] = wldemo) =>
              \A i : OwnSlot(i)' <=> OwnSlot(i)
  <1>1. \A i, r : First(i, r)' <=> First(i, r)
    BY DEF First
  <1>2. ASSUME \A q \in Addresses : surfaces'[q] = wldemo <=> surfaces[q] = wldemo, NEW i
        PROVE  OwnSlot(i)' <=> OwnSlot(i)
    <2>1. i \in DOMAIN g_surfaces => g_surfaces[i].resource \in Addresses
      BY SlotTypes DEF Inv, SlotType
    <2>2. OwnSlot(i)' <=> i \in DOMAIN g_surfaces /\ surfaces'[g_surfaces[i].resource] = wldemo
                           /\ First(i, g_surfaces[i].resource)'
      BY DEF OwnSlot, Own
    <2>3. First(i, g_surfaces[i].resource)' <=> First(i, g_surfaces[i].resource)
      BY DEF First
    <2> QED
      BY <1>2, <2>1, <2>2, <2>3 DEF OwnSlot, Own
  <1> QED
    BY <1>1, <1>2

LEMMA SlotsView ==
  ASSUME Inv, DOMAIN g_surfaces' = DOMAIN g_surfaces,
         \A i \in DOMAIN g_surfaces : g_surfaces'[i].resource = g_surfaces[i].resource,
         \A q \in Addresses : surfaces'[q] \in {surfaces[q], None},
         \A q \in Addresses : surfaces[q] = wldemo =>
           surfaces'[q] = wldemo /\ (q \in attached' <=> q \in attached),
         \A i \in DOMAIN g_surfaces : OwnSlot(i) => g_surfaces'[i] = g_surfaces[i],
         \A b \in Buffers : buffers[b] = wldemo => buffers'[b] = wldemo,
         UNCHANGED phase
  PROVE  Kept
  <1>1. \A q \in Addresses : surfaces'[q] = wldemo <=> surfaces[q] = wldemo
    BY WlCompAssumption, WlDemoAssumption
  <1>2. \A i : OwnSlot(i)' <=> OwnSlot(i)
    BY <1>1, SameSlots
  <1> QED
    BY <1>1, <1>2 DEF Kept, Own

\* Other clients leave wldemo's slot as it is.
LEMMA OthersView ==
  ASSUME Inv, NEW c \in Clients \ {wldemo}, Requests(c)
  PROVE  Kept
  <1> DEFINE Goal == Kept
  <1> USE WlCompAssumption, WlDemoAssumption
  <1>0. DOMAIN g_surfaces = 1..Len(g_surfaces) /\ Len(g_surfaces) \in Nat
    BY DEF Inv, TypeOK
  <1>a. /\ \A b \in Buffers : buffers[b] = wldemo => buffers'[b] = wldemo
        /\ UNCHANGED phase
    <2> DEFINE Same == (\A b \in Buffers : buffers[b] = wldemo => buffers'[b] = wldemo) /\ UNCHANGED phase
    <2>1. ASSUME NEW r \in Addresses,
                 \/ compositor_create_surface(c, r) \/ (\E b : surface_attach(r, b))
                 \/ surface_commit(r) \/ surface_destroy(r)
          PROVE  Same
      BY <2>1 DEF compositor_create_surface, surface_attach, surface_commit, surface_destroy, wayland
    <2>2. ASSUME NEW b \in Buffers, CreateBuffer(c, b) \/ (buffers[b] = c /\ DestroyBuffer(b))
          PROVE  Same
      BY <2>2 DEF CreateBuffer, DestroyBuffer, Inv, TypeOK, server
    <2>3. ASSUME Disconnect(c) PROVE Same
      BY <2>3 DEF Disconnect
    <2> HIDE DEF Same
    <2>4. Same
      BY <2>1, <2>2, <2>3 DEF Requests
    <2> QED
      BY <2>4 DEF Same
  <1>1. ASSUME NEW r \in Addresses, compositor_create_surface(c, r) PROVE Goal
    <2> DEFINE n == Len(g_surfaces)
    <2>1. /\ surfaces[r] = None /\ attached' = attached
          /\ g_surfaces' = Append(g_surfaces, Slot(r))
          /\ \A q \in Addresses : surfaces'[q] = IF q = r THEN c ELSE surfaces[q]
      BY <1>1 DEF compositor_create_surface, clients, Inv, TypeOK
    <2>2. /\ DOMAIN g_surfaces' = 1..n + 1 /\ g_surfaces'[n + 1] = Slot(r)
          /\ \A i \in 1..n : g_surfaces'[i] = g_surfaces[i]
      BY <2>1, <1>0
    <2>3. g_surfaces'[n + 1].resource = r
      BY <2>2 DEF Slot
    <2>5. \A q \in Addresses : surfaces'[q] = wldemo <=> surfaces[q] = wldemo
      BY <2>1
    <2>6. ASSUME NEW i \in DOMAIN g_surfaces', OwnSlot(i)'
          PROVE  OwnSlot(i) /\ g_surfaces'[i] = g_surfaces[i]
      <3>1. surfaces'[g_surfaces'[i].resource] = wldemo /\ First(i, g_surfaces[i].resource)'
        BY <2>6 DEF OwnSlot, Own
      <3>2. i # n + 1
        <4> SUFFICES ASSUME i = n + 1 PROVE FALSE
          OBVIOUS
        <4>1. g_surfaces'[i].resource = r
          BY <2>3
        <4> QED
          BY <2>1, <3>1, <4>1
      <3>3. i \in 1..n /\ g_surfaces'[i] = g_surfaces[i]
        BY <1>0, <2>2, <3>2
      <3>4. g_surfaces[i].resource \in Addresses
        BY <1>0, <3>3, SlotTypes DEF Inv, SlotType
      <3>5. First(i, g_surfaces[i].resource)
        BY <1>0, <2>2, <3>1, <3>3 DEF First
      <3> QED
        BY <1>0, <2>5, <3>1, <3>3, <3>4, <3>5 DEF OwnSlot, Own
    <2> QED
      BY <1>a, <2>1, <2>5, <2>6 DEF Kept, Own
  <1>2. ASSUME UNCHANGED <<g_surfaces, surfaces, attached>> PROVE Goal
    BY <1>a, <1>2 DEF Kept, Own, OwnSlot, First
  <1>3. ASSUME DOMAIN g_surfaces' = DOMAIN g_surfaces,
               \A i \in DOMAIN g_surfaces : g_surfaces'[i].resource = g_surfaces[i].resource,
               \A q \in Addresses : surfaces'[q] = surfaces[q] \/ surfaces[q] = c,
               \A q \in Addresses : surfaces'[q] \in {surfaces[q], None},
               \A q \in Addresses : q \in attached' /\ q \notin attached => surfaces[q] = c,
               \A q \in Addresses : q \in attached /\ q \notin attached' => surfaces[q] = c,
               \A i \in DOMAIN g_surfaces : g_surfaces'[i] # g_surfaces[i] =>
                  \E q \in Addresses : surfaces[q] = c /\ i = surface_of(q)
        PROVE  Goal
    <2>1. \A i \in DOMAIN g_surfaces : OwnSlot(i) => g_surfaces'[i] = g_surfaces[i]
      <3> SUFFICES ASSUME NEW i \in DOMAIN g_surfaces, OwnSlot(i), NEW q \in Addresses,
                          surfaces[q] = c, i = surface_of(q)
                   PROVE  FALSE
        BY <1>3
      <3>1. g_surfaces[i].resource = q
        BY <1>0, SurfaceOf DEF Inv, First
      <3> QED
        BY <3>1 DEF OwnSlot, Own
    <2> QED
      BY <1>a, <1>3, <2>1, SlotsView
  <1>4. ASSUME NEW r \in Addresses, surfaces[r] = c, NEW b, surface_attach(r, b) PROVE Goal
    <2>1. /\ UNCHANGED surfaces /\ attached' = attached \union {r}
          /\ g_surfaces' = IF surface_of(r) = 0 THEN g_surfaces
                           ELSE [g_surfaces EXCEPT ![surface_of(r)].pending_buffer = b]
      BY <1>4 DEF surface_attach, wayland
    <2>2. /\ DOMAIN g_surfaces' = DOMAIN g_surfaces
          /\ \A i \in DOMAIN g_surfaces : g_surfaces'[i] # g_surfaces[i] => i = surface_of(r)
          /\ \A i \in DOMAIN g_surfaces : g_surfaces'[i].resource = g_surfaces[i].resource
      BY <2>1
    <2> QED
      BY <1>3, <1>4, <2>1, <2>2
  <1>5. ASSUME NEW r \in Addresses, surfaces[r] = c, surface_commit(r) PROVE Goal
    <2>1. /\ UNCHANGED <<surfaces, attached>>
          /\ g_surfaces' = IF surface_of(r) = 0 THEN g_surfaces
                           ELSE [g_surfaces EXCEPT ![surface_of(r)] = Committed(@)]
      BY <1>5 DEF surface_commit, wayland
    <2>2. /\ DOMAIN g_surfaces' = DOMAIN g_surfaces
          /\ \A i \in DOMAIN g_surfaces : g_surfaces'[i] # g_surfaces[i] => i = surface_of(r)
          /\ \A i \in DOMAIN g_surfaces :
                g_surfaces'[i] = g_surfaces[i] \/ g_surfaces'[i] = Committed(g_surfaces[i])
      BY <2>1
    <2>3. \A i \in DOMAIN g_surfaces : Committed(g_surfaces[i]).resource = g_surfaces[i].resource
      BY DEF Committed
    <2> QED
      BY <1>3, <1>5, <2>1, <2>2, <2>3
  <1>6. ASSUME NEW R \in SUBSET Addresses, \A q \in R : surfaces[q] = c, g_surfaces' = Destroyed(R),
               Forget(R), surfaces' = [q \in Addresses |-> IF q \in R THEN None ELSE surfaces[q]]
        PROVE  Goal
    <2>1. /\ DOMAIN g_surfaces' = DOMAIN g_surfaces
          /\ \A i \in DOMAIN g_surfaces : g_surfaces'[i] # g_surfaces[i] =>
               \E q \in R : i = surface_of(q)
          /\ \A i \in DOMAIN g_surfaces :
               \/ g_surfaces'[i] = g_surfaces[i]
               \/ g_surfaces'[i] = [g_surfaces[i] EXCEPT !.mapped = FALSE]
      BY <1>6 DEF Destroyed
    <2>2. \A i \in DOMAIN g_surfaces : g_surfaces'[i].resource = g_surfaces[i].resource
      <3> SUFFICES ASSUME NEW i \in DOMAIN g_surfaces
                   PROVE  g_surfaces'[i].resource = g_surfaces[i].resource
        OBVIOUS
      <3>1. g_surfaces[i] \in SlotType
        BY SlotTypes DEF Inv
      <3>2. [g_surfaces[i] EXCEPT !.mapped = FALSE].resource = g_surfaces[i].resource
        BY <3>1, Unmapped
      <3> QED
        BY <2>1, <3>2
    <2>3. attached' = attached \ R
      BY <1>6 DEF Forget
    <2> QED
      BY <1>3, <1>6, <2>1, <2>2, <2>3
  <1>7. ASSUME NEW r \in Addresses, surfaces[r] = c, surface_destroy(r) PROVE Goal
    <2>1. surfaces' = [q \in Addresses |-> IF q \in {r} THEN None ELSE surfaces[q]]
      BY <1>7 DEF surface_destroy, Inv, TypeOK
    <2> QED
      BY <1>6, <1>7, <2>1 DEF surface_destroy
  <1>8. ASSUME Disconnect(c) PROVE Goal
    BY <1>6, <1>8 DEF Disconnect
  <1>9. ASSUME NEW b \in Buffers, CreateBuffer(c, b) \/ DestroyBuffer(b) PROVE Goal
    BY <1>2, <1>9 DEF CreateBuffer, DestroyBuffer, server, clients
  <1>10. Goal
    <2> HIDE DEF Goal
    <2> QED
      BY <1>1, <1>4, <1>5, <1>7, <1>8, <1>9 DEF Requests
  <1> QED
    BY <1>10
-----------------------------------------------------------------------------
\* What the compositor does with wldemo's requests to the slot of its surface.
LEMMA CreateView ==
  ASSUME Inv, NoneOwn, NEW r \in Addresses, compositor_create_surface(wldemo, r)
  PROVE  Idle'
  <1> DEFINE n == Len(g_surfaces)
  <1>1. DOMAIN g_surfaces = 1..n /\ n \in Nat /\ g_surfaces \in Seq(SlotType)
    BY DEF Inv, TypeOK
  <1>2. /\ surfaces[r] = None /\ attached' = attached
        /\ g_surfaces' = Append(g_surfaces, Slot(r))
        /\ \A q \in Addresses : surfaces'[q] = IF q = r THEN wldemo ELSE surfaces[q]
    BY DEF compositor_create_surface, clients, Inv, TypeOK
  <1>3. /\ DOMAIN g_surfaces' = 1..n + 1 /\ g_surfaces'[n + 1] = Slot(r)
        /\ \A i \in 1..n : g_surfaces'[i] = g_surfaces[i]
    BY <1>1, <1>2
  <1>4. ~Slot(r).mapped /\ Slot(r).resource = r /\ Slot(r).pending_buffer = None
    BY DEF Slot
  <1>7. r \notin attached
    BY <1>2 DEF Inv, GivenIsOwn
  <1>8. ASSUME NEW i \in DOMAIN g_surfaces', OwnSlot(i)'
        PROVE  g_surfaces'[i].resource = r /\ ~Shown(g_surfaces'[i])
    <2>1. surfaces'[g_surfaces'[i].resource] = wldemo
      BY <1>8 DEF OwnSlot, Own
    <2>2. CASE i = n + 1
      BY <1>3, <1>4, <2>2 DEF Shown
    <2>3. CASE i \in 1..n
      <3>1. g_surfaces'[i] = g_surfaces[i] /\ g_surfaces[i].resource \in Addresses /\ SlotIsOwn(i)
        BY <1>1, <1>3, <2>3, SlotTypes DEF Inv, SlotType
      <3>2. g_surfaces[i].resource = r
        BY <1>2, <2>1, <3>1 DEF NoneOwn
      <3> QED
        BY <1>2, <3>1, <3>2 DEF SlotIsOwn, Shown
    <2> QED
      BY <1>1, <1>3, <2>2, <2>3
  <1> QED
    BY <1>2, <1>7, <1>8 DEF Idle, Shown

LEMMA AttachView ==
  ASSUME Inv, OneOwn, Idle, NEW r \in Addresses, Own(r), NEW b \in Buffers,
         buffers[b] = wldemo, surface_attach(r, b)
  PROVE  Handed'
  <1> DEFINE k == surface_of(r)
  <1>1. /\ UNCHANGED <<surfaces, buffers>> /\ attached' = attached \union {r}
        /\ g_surfaces' = IF k = 0 THEN g_surfaces
                         ELSE [g_surfaces EXCEPT ![k].pending_buffer = b]
    BY DEF surface_attach, wayland
  <1>2. /\ DOMAIN g_surfaces' = DOMAIN g_surfaces
        /\ \A i \in DOMAIN g_surfaces : g_surfaces'[i].resource = g_surfaces[i].resource
    BY <1>1
  <1>3. \A i : OwnSlot(i)' <=> OwnSlot(i)
    BY <1>1, <1>2, SameSlots
  <1>4. ASSUME NEW i \in DOMAIN g_surfaces, OwnSlot(i)
        PROVE  ~Shown(g_surfaces'[i]) /\ g_surfaces'[i].pending_buffer = b
    <2>1. g_surfaces[i] \in SlotType
      BY SlotTypes DEF Inv
    <2>2. First(i, r) /\ ~Shown(g_surfaces[i])
      BY <1>4, <2>1 DEF OwnSlot, OneOwn, Idle, SlotType
    <2>3. i = k
      BY <2>2, SurfaceOf DEF Inv
    <2>4. k # 0
      BY <2>3 DEF Inv, TypeOK
    <2>5. g_surfaces'[i] = [g_surfaces[i] EXCEPT !.pending_buffer = b]
      BY <1>1, <2>3, <2>4
    <2> QED
      BY <2>1, <2>2, <2>5 DEF Shown, SlotType
  <1> QED
    BY <1>1, <1>2, <1>3, <1>4 DEF Handed, Shown

LEMMA CommitView ==
  ASSUME Inv, OneOwn, Handed, NEW r \in Addresses, Own(r), surface_commit(r)
  PROVE  Showing'
  <1> DEFINE k == surface_of(r)
  <1>1. /\ UNCHANGED <<surfaces, buffers, attached>> /\ phase' = "dispatch"
        /\ g_surfaces' = IF k = 0 THEN g_surfaces ELSE [g_surfaces EXCEPT ![k] = Committed(@)]
    BY DEF surface_commit, Dispatching, wayland
  <1>2. \A i \in DOMAIN g_surfaces : Committed(g_surfaces[i]).resource = g_surfaces[i].resource
    BY DEF Committed
  <1>3. /\ DOMAIN g_surfaces' = DOMAIN g_surfaces
        /\ \A i \in DOMAIN g_surfaces : g_surfaces'[i].resource = g_surfaces[i].resource
    BY <1>1, <1>2
  <1>4. \A i : OwnSlot(i)' <=> OwnSlot(i)
    BY <1>1, <1>3, SameSlots
  <1>5. ASSUME NEW i \in DOMAIN g_surfaces, OwnSlot(i)
        PROVE  /\ Shown(g_surfaces'[i]) /\ g_surfaces'[i].pending_buffer = None
               /\ g_surfaces'[i].buffer \in Buffers /\ buffers[g_surfaces'[i].buffer] = wldemo
    <2>1. g_surfaces[i] \in SlotType
      BY SlotTypes DEF Inv
    <2>2. /\ First(i, r) /\ g_surfaces[i].pending_buffer \in Buffers
          /\ buffers[g_surfaces[i].pending_buffer] = wldemo
      BY <1>5, <2>1 DEF OwnSlot, OneOwn, Handed, SlotType
    <2>3. i = k
      BY <2>2, SurfaceOf DEF Inv
    <2>4. k # 0
      BY <2>3 DEF Inv, TypeOK
    <2>5. g_surfaces'[i] = Committed(g_surfaces[i])
      BY <1>1, <2>3, <2>4
    <2> QED
      BY <2>1, <2>2, <2>5, WlCompAssumption DEF Committed, Shown, SlotType
  <1>6. ~NoneOwn'
    BY <1>1 DEF NoneOwn, Own
  <1> QED
    BY <1>1, <1>3, <1>4, <1>5, <1>6 DEF Showing, Shown

\* The paint leaves nothing of wldemo's to show, and a buffer that waits for the
\* commit.
LEMMA PaintView ==
  ASSUME Inv, paint
  PROVE  /\ NoneOwn' = NoneOwn
         /\ Idle \/ Showing => Idle'
         /\ Handed => Handed'
  <1>1. UNCHANGED <<surfaces, buffers, attached>>
    BY DEF paint, wayland
  <1>2. PICK drawn \in SUBSET ToPaint :
          /\ ToPaint \ Freed \subseteq drawn
          /\ g_surfaces' = [i \in DOMAIN g_surfaces |->
                              IF i \in drawn THEN [g_surfaces[i] EXCEPT !.buffer = None]
                              ELSE g_surfaces[i]]
    BY DEF paint
  <1>3. DOMAIN g_surfaces' = DOMAIN g_surfaces
    BY <1>2
  <1>4. \A i \in DOMAIN g_surfaces :
          /\ g_surfaces'[i].resource = g_surfaces[i].resource
          /\ g_surfaces'[i].pending_buffer = g_surfaces[i].pending_buffer
          /\ i \in drawn \/ ~Shown(g_surfaces[i]) => ~Shown(g_surfaces'[i])
    <2> SUFFICES ASSUME NEW i \in DOMAIN g_surfaces
                 PROVE  /\ g_surfaces'[i].resource = g_surfaces[i].resource
                        /\ g_surfaces'[i].pending_buffer = g_surfaces[i].pending_buffer
                        /\ i \in drawn \/ ~Shown(g_surfaces[i]) => ~Shown(g_surfaces'[i])
      OBVIOUS
    <2>1. g_surfaces[i] \in SlotType
      BY SlotTypes DEF Inv
    <2>2. CASE i \in drawn
      <3>1. g_surfaces'[i] = [g_surfaces[i] EXCEPT !.buffer = None]
        BY <1>2, <2>2
      <3> QED
        BY <2>1, <3>1 DEF Shown, SlotType
    <2>3. CASE i \notin drawn
      <3>1. g_surfaces'[i] = g_surfaces[i]
        BY <1>2, <2>3
      <3> QED
        BY <2>3, <3>1
    <2> QED
      BY <2>2, <2>3
  <1>5. \A i : OwnSlot(i)' <=> OwnSlot(i)
    BY <1>1, <1>3, <1>4, SameSlots
  <1>6. NoneOwn' = NoneOwn
    BY <1>1 DEF NoneOwn
  <1>7. ASSUME NEW i \in DOMAIN g_surfaces, OwnSlot(i), Showing PROVE i \in drawn
    <2>1. i \in ToPaint /\ buffers[g_surfaces[i].buffer] = wldemo
      BY <1>7 DEF Showing, ToPaint
    <2>2. i \notin Freed
      BY <2>1, WlCompAssumption, WlDemoAssumption DEF Freed
    <2> QED
      BY <1>2, <2>1, <2>2
  <1>8. Idle \/ Showing => Idle'
    BY <1>1, <1>3, <1>4, <1>5, <1>7 DEF Idle, Showing, Shown
  <1>9. Handed => Handed'
    BY <1>1, <1>3, <1>4, <1>5 DEF Handed, Shown
  <1> QED
    BY <1>6, <1>8, <1>9

\* A surface that is created gets a slot, and slots keep their addresses.
LEMMA SlotStep ==
  ASSUME Inv, SlotFound, [Next]_vars
  PROVE  SlotFound'
  <1> DEFINE n == Len(g_surfaces)
  <1>1. DOMAIN g_surfaces = 1..n /\ n \in Nat /\ g_surfaces \in Seq(SlotType)
    BY DEF Inv, TypeOK
  <1>2. ASSUME \A i \in DOMAIN g_surfaces :
                 i \in DOMAIN g_surfaces' /\ g_surfaces'[i].resource = g_surfaces[i].resource,
               \A q \in Addresses : surfaces'[q] # None /\ surfaces[q] = None =>
                 \E i \in DOMAIN g_surfaces' : g_surfaces'[i].resource = q
        PROVE  SlotFound'
    <2> SUFFICES ASSUME NEW q \in Addresses, surfaces'[q] # None
                 PROVE  \E i \in DOMAIN g_surfaces' : g_surfaces'[i].resource = q
      BY DEF SlotFound
    <2>1. CASE surfaces[q] # None
      BY <1>2, <2>1 DEF SlotFound
    <2> QED
      BY <1>2, <2>1
  <1>3. ASSUME UNCHANGED <<g_surfaces, surfaces>> PROVE SlotFound'
    BY <1>3 DEF SlotFound
  <1>4. ASSUME NEW c, NEW r \in Addresses, compositor_create_surface(c, r) PROVE SlotFound'
    <2>1. /\ g_surfaces' = Append(g_surfaces, Slot(r))
          /\ \A q \in Addresses : q # r => surfaces'[q] = surfaces[q]
      BY <1>4 DEF compositor_create_surface, Inv, TypeOK
    <2>2. /\ DOMAIN g_surfaces' = 1..n + 1 /\ g_surfaces'[n + 1] = Slot(r)
          /\ \A i \in 1..n : g_surfaces'[i] = g_surfaces[i]
      BY <1>1, <2>1
    <2>3. g_surfaces'[n + 1].resource = r
      BY <2>2 DEF Slot
    <2>4. \A i \in DOMAIN g_surfaces :
            i \in DOMAIN g_surfaces' /\ g_surfaces'[i].resource = g_surfaces[i].resource
      BY <1>1, <2>2
    <2>5. \A q \in Addresses : surfaces'[q] # None /\ surfaces[q] = None =>
                 \E i \in DOMAIN g_surfaces' : g_surfaces'[i].resource = q
      BY <1>1, <2>1, <2>2, <2>3
    <2> QED
      BY <1>2, <2>4, <2>5
  <1>5. ASSUME NEW r \in Addresses, NEW b, surface_attach(r, b) PROVE SlotFound'
    <2>1. /\ UNCHANGED surfaces
          /\ \A i \in DOMAIN g_surfaces :
               i \in DOMAIN g_surfaces' /\ g_surfaces'[i].resource = g_surfaces[i].resource
      BY <1>5 DEF surface_attach, wayland
    <2> QED
      BY <1>2, <2>1
  <1>6. ASSUME NEW r \in Addresses, surface_commit(r) PROVE SlotFound'
    <2>1. \A i \in DOMAIN g_surfaces : Committed(g_surfaces[i]).resource = g_surfaces[i].resource
      BY DEF Committed
    <2>2. /\ UNCHANGED surfaces
          /\ \A i \in DOMAIN g_surfaces : i \in DOMAIN g_surfaces' /\
               (g_surfaces'[i] = g_surfaces[i] \/ g_surfaces'[i] = Committed(g_surfaces[i]))
      BY <1>6 DEF surface_commit, wayland
    <2> QED
      BY <1>2, <2>1, <2>2
  <1>7. ASSUME NEW R, g_surfaces' = Destroyed(R),
               \A q \in Addresses : surfaces'[q] \in {surfaces[q], None}
        PROVE  SlotFound'
    <2>1. ASSUME NEW i \in DOMAIN g_surfaces
          PROVE  i \in DOMAIN g_surfaces' /\ g_surfaces'[i].resource = g_surfaces[i].resource
      <3>1. g_surfaces[i] \in SlotType
        BY SlotTypes DEF Inv
      <3>2. [g_surfaces[i] EXCEPT !.mapped = FALSE].resource = g_surfaces[i].resource
        BY <3>1, Unmapped
      <3> QED
        BY <1>7, <3>2 DEF Destroyed
    <2> QED
      BY <1>2, <1>7, <2>1
  <1>8. ASSUME NEW c \in Clients, Requests(c) PROVE SlotFound'
    <2>1. ASSUME NEW b, CreateBuffer(c, b) \/ DestroyBuffer(b) PROVE SlotFound'
      BY <1>3, <2>1 DEF CreateBuffer, DestroyBuffer, server
    <2>2. ASSUME NEW r \in Addresses, surface_destroy(r) PROVE SlotFound'
      BY <1>7, <2>2 DEF surface_destroy, Inv, TypeOK
    <2>3. ASSUME Disconnect(c) PROVE SlotFound'
      BY <1>7, <2>3 DEF Disconnect
    <2> QED
      BY <1>4, <1>5, <1>6, <1>8, <2>1, <2>2, <2>3 DEF Requests
  <1>9. ASSUME paint PROVE SlotFound'
    <2>1. UNCHANGED surfaces
      BY <1>9 DEF paint, wayland
    <2>2. PICK drawn \in SUBSET ToPaint :
            g_surfaces' = [i \in DOMAIN g_surfaces |->
                             IF i \in drawn THEN [g_surfaces[i] EXCEPT !.buffer = None]
                             ELSE g_surfaces[i]]
      BY <1>9 DEF paint
    <2>3. ASSUME NEW i \in DOMAIN g_surfaces
          PROVE  i \in DOMAIN g_surfaces' /\ g_surfaces'[i].resource = g_surfaces[i].resource
      <3>1. g_surfaces[i] \in SlotType
        BY SlotTypes DEF Inv
      <3> QED
        BY <2>2, <3>1 DEF SlotType
    <2> QED
      BY <1>2, <2>1, <2>3
  <1>10. ASSUME StartUp \/ Loop \/ Fault \/ Reap \/ Exit \/ on_sigint \/ ChildEnds \/ UNCHANGED vars
         PROVE  SlotFound'
    BY <1>3, <1>10
    DEF StartUp, Loop, Fault, Reap, Exit, on_sigint, ChildEnds, vars, server, wayland
  <1> QED
    BY <1>8, <1>9, <1>10 DEF Next, MainLoop
-----------------------------------------------------------------------------
LEMMA Done ==
  ASSUME NEW q \in Seq(Event)
  PROVE  /\ Contains(q, "done") <=> \E i \in DOMAIN q : q[i] = "done"
         /\ Contains(Append(q, "done"), "done") /\ Append(q, "done") \in Seq(Event)
         /\ Contains(Append(q, "release"), "done") <=> Contains(q, "done")
         /\ Append(q, "release") \in Seq(Event)
         /\ ~Contains(<<>>, "done") /\ <<>> \in Seq(Event)
  <1>1. Contains(q, "done") <=> \E i \in DOMAIN q : q[i] = "done"
    BY DEF Contains
  <1>2. ASSUME NEW e \in Event
        PROVE  /\ Append(q, e) \in Seq(Event) /\ Len(Append(q, e)) = Len(q) + 1
               /\ Append(q, e)[Len(q) + 1] = e
               /\ \A i \in 1..Len(q) : Append(q, e)[i] = q[i]
    OBVIOUS
  <1>3. ASSUME NEW e \in Event
        PROVE  Contains(Append(q, e), "done") <=> Contains(q, "done") \/ e = "done"
    <2> DEFINE a == Append(q, e)
    <2>1. Contains(a, "done") <=> \E i \in 1..Len(a) : a[i] = "done"
      BY DEF Contains
    <2>2. Contains(q, "done") <=> \E i \in 1..Len(q) : q[i] = "done"
      BY DEF Contains
    <2>3. Len(q) \in Nat
      OBVIOUS
    <2> HIDE DEF a
    <2>4. /\ Len(a) = Len(q) + 1 /\ a[Len(q) + 1] = e
          /\ \A i \in 1..Len(q) : a[i] = q[i]
      BY <1>2 DEF a
    <2>5. \A i \in 1..Len(a) : i \in 1..Len(q) \/ i = Len(q) + 1
      BY <2>3, <2>4
    <2>6. \A i \in 1..Len(q) : i \in 1..Len(a)
      BY <2>3, <2>4
    <2>7. Len(q) + 1 \in 1..Len(a)
      BY <2>3, <2>4
    <2>8. Contains(a, "done") <=> Contains(q, "done") \/ e = "done"
      BY <2>1, <2>2, <2>4, <2>5, <2>6, <2>7
    <2> QED
      BY <2>8 DEF a
  <1>4. "done" \in Event /\ "release" \in Event /\ "release" # "done"
    BY DEF Event
  <1>5. ~Contains(<<>>, "done") /\ <<>> \in Seq(Event)
    BY DEF Contains
  <1> QED
    BY <1>1, <1>2, <1>3, <1>4, <1>5

LEMMA Placed ==
  ASSUME NEW D, NEW p \in Seq(D), NEW q \in Seq(D)
  PROVE  LET s == p \o q IN
         /\ s \in Seq(D) /\ Len(s) = Len(p) + Len(q)
         /\ \A i \in 1..Len(s) : s[i] = IF i <= Len(p) THEN p[i] ELSE q[i - Len(p)]
  BY ConcatProperties

LEMMA Joined ==
  ASSUME NEW p \in Seq(Event), NEW q \in Seq(Event)
  PROVE  /\ p \o q \in Seq(Event)
         /\ Contains(p \o q, "done") <=> Contains(p, "done") \/ Contains(q, "done")
  <1> DEFINE s == p \o q
  <1>1. /\ s \in Seq(Event) /\ Len(s) = Len(p) + Len(q)
        /\ \A i \in 1..Len(s) : s[i] = IF i <= Len(p) THEN p[i] ELSE q[i - Len(p)]
        /\ Len(p) \in Nat /\ Len(q) \in Nat
    BY ConcatProperties
  <1>2. /\ Contains(s, "done") <=> \E i \in 1..Len(s) : s[i] = "done"
        /\ Contains(p, "done") <=> \E i \in 1..Len(p) : p[i] = "done"
        /\ Contains(q, "done") <=> \E i \in 1..Len(q) : q[i] = "done"
    BY DEF Contains
  <1> HIDE DEF s
  <1>3. ASSUME NEW i \in 1..Len(s), s[i] = "done"
        PROVE  (\E j \in 1..Len(p) : p[j] = "done") \/ (\E j \in 1..Len(q) : q[j] = "done")
    <2>1. CASE i <= Len(p)
      BY <1>1, <1>3, <2>1
    <2>2. CASE ~(i <= Len(p))
      <3>1. i - Len(p) \in 1..Len(q)
        BY <1>1, <2>2
      <3> QED
        BY <1>1, <1>3, <2>2, <3>1
    <2> QED
      BY <2>1, <2>2
  <1>4. ASSUME NEW j \in 1..Len(p), p[j] = "done" PROVE \E i \in 1..Len(s) : s[i] = "done"
    <2>1. j \in 1..Len(s) /\ j <= Len(p)
      BY <1>1
    <2> QED
      BY <1>1, <1>4, <2>1
  <1>5. ASSUME NEW j \in 1..Len(q), q[j] = "done" PROVE \E i \in 1..Len(s) : s[i] = "done"
    <2>1. Len(p) + j \in 1..Len(s) /\ ~(Len(p) + j <= Len(p)) /\ (Len(p) + j) - Len(p) = j
      BY <1>1
    <2>2. s[Len(p) + j] = q[(Len(p) + j) - Len(p)]
      BY <1>1, <2>1
    <2> QED
      BY <1>5, <2>1, <2>2
  <1>6. s \in Seq(Event) /\ (Contains(s, "done") <=> Contains(p, "done") \/ Contains(q, "done"))
    BY <1>1, <1>2, <1>3, <1>4, <1>5
  <1> QED
    BY <1>6 DEF s

\* The requests of a frame, before it those of the surface.
LEMMA Asks ==
  /\ <<>> \o Frame = Frame
  /\ <<"create_surface">> \o Frame = <<"create_surface", "attach", "commit", "sync">>
  /\ <<"create_buffer", "create_surface">> \o Frame
       = <<"create_buffer", "create_surface", "attach", "commit", "sync">>
  <1> DEFINE D == {"create_buffer", "create_surface", "attach", "commit", "sync"}
             p == <<"create_surface">>
             q == <<"create_buffer", "create_surface">>
             one == p \o Frame
             two == q \o Frame
  <1>1. /\ Frame \in Seq(D) /\ Len(Frame) = 3
        /\ Frame[1] = "attach" /\ Frame[2] = "commit" /\ Frame[3] = "sync"
    BY DEF Frame
  <1>2. /\ p \in Seq(D) /\ Len(p) = 1 /\ p[1] = "create_surface"
        /\ q \in Seq(D) /\ Len(q) = 2 /\ q[1] = "create_buffer" /\ q[2] = "create_surface"
    OBVIOUS
  <1>3. <<>> \o Frame = Frame
    BY DEF Frame
  <1> HIDE DEF p, q, D
  <1>4. /\ one \in Seq(D) /\ Len(one) = Len(p) + Len(Frame)
        /\ \A i \in 1..Len(one) : one[i] = IF i <= Len(p) THEN p[i] ELSE Frame[i - Len(p)]
    BY <1>1, <1>2, Placed
  <1>5. /\ two \in Seq(D) /\ Len(two) = Len(q) + Len(Frame)
        /\ \A i \in 1..Len(two) : two[i] = IF i <= Len(q) THEN q[i] ELSE Frame[i - Len(q)]
    BY <1>1, <1>2, Placed
  <1> HIDE DEF one, two
  <1>6. one[1] = "create_surface" /\ one[2] = "attach" /\ one[3] = "commit" /\ one[4] = "sync"
    BY <1>1, <1>2, <1>4
  <1>7. /\ two[1] = "create_buffer" /\ two[2] = "create_surface"
        /\ two[3] = "attach" /\ two[4] = "commit" /\ two[5] = "sync"
    BY <1>1, <1>2, <1>5
  <1>8. one = <<"create_surface", "attach", "commit", "sync">>
    BY <1>1, <1>2, <1>4, <1>6
  <1>9. two = <<"create_buffer", "create_surface", "attach", "commit", "sync">>
    BY <1>1, <1>2, <1>5, <1>7
  <1> QED
    BY <1>3, <1>8, <1>9 DEF one, two, p, q
-----------------------------------------------------------------------------
LEMMA SameView ==
  ASSUME UNCHANGED <<g_surfaces, surfaces, attached>>,
         \A b \in Buffers : buffers[b] = wldemo => buffers'[b] = wldemo,
         phase \in {"dispatch", "gone"} => phase' \in {"dispatch", "gone"}
  PROVE  Kept
  BY DEF Kept, Own, OwnSlot, First

LEMMA NoneIdle == Inv /\ NoneOwn => Idle
  <1> SUFFICES ASSUME Inv, NoneOwn, NEW i \in DOMAIN g_surfaces, OwnSlot(i) PROVE FALSE
    BY DEF Idle
  <1>1. g_surfaces[i].resource \in Addresses
    BY SlotTypes DEF Inv, SlotType
  <1> QED
    BY <1>1 DEF OwnSlot, Own, NoneOwn

\* A frame is where it was while its slot and the socket are left alone.
LEMMA StagesKept ==
  ASSUME Inv, Kept, UNCHANGED <<frame, painted, requests, events, inbox>>, ~up => ~up'
  PROVE  /\ Starting => Starting'
         /\ Binding => Binding'
         /\ Drawing => Drawing'
         /\ Waiting => Waiting'
  <1>1. /\ NoneOwn' <=> NoneOwn
        /\ (Idle => Idle') /\ (Handed => Handed') /\ (Showing => Showing')
    BY KeptView
  <1>2. Silent' <=> Silent
    BY DEF Silent
  <1>3. Before' <=> Before
    BY <1>2 DEF Before
  <1>4. Starting => Starting'
    BY <1>1, <1>3 DEF Starting
  <1>5. Binding => Binding'
    BY <1>1, <1>2 DEF Binding
  <1>6. Drawing => Drawing'
    BY <1>1, <1>3 DEF Drawing
  <1>7. Copied => Copied'
    BY <1>1 DEF Copied
  <1>8. (Asking => Asking') /\ (Attaching => Attaching') /\ (Committing => Committing')
    BY <1>1, <1>2, <1>3, <1>7 DEF Asking, Attaching, Committing
  <1>9. (Answering => Answering') /\ (Answer => Answer') /\ (Refused => Refused')
    BY <1>1, <1>2, <1>7 DEF Answering, Answer, Refused
  <1> QED
    BY <1>4, <1>5, <1>6, <1>8, <1>9 DEF Waiting

LEMMA FrameKept ==
  ASSUME Inv, FrameInv, Kept, SlotFound',
         UNCHANGED <<frame, painted, requests, events, inbox>>, ~up => ~up',
         \/ pc' \in {pc, "quit"}
         \/ pc = "user" /\ pc' = "none"
         \/ pc = "none" /\ pc' = "start"
         \/ pc = "draw" /\ pc' = "drawing"
  PROVE  FrameInv'
  BY StagesKept DEF FrameInv

\* wldemo goes on: only with an answer is the next frame drawn, and then the last
\* one was painted.
LEMMA ClientFrames ==
  ASSUME Inv, FrameInv, SlotFound', Client
  PROVE  FrameInv'
  <1>1. /\ UNCHANGED <<g_surfaces, surfaces, buffers, attached>>
        /\ phase' = phase \/ phase' = "gone"
    BY DEF Client, Launch, Connect, Prepare, draw, Show, Roundtrip, Quit, Killed,
           vars, server, wayland, clients
  <1>2. Kept /\ (NoneOwn' <=> NoneOwn) /\ (Idle => Idle')
    BY <1>1, SameView, KeptView
  <1>3. CASE Launch \/ draw \/ Quit \/ Killed
    BY <1>2, <1>3, FrameKept DEF Launch, draw, Quit, Killed, socket
  <1>4. CASE Connect
    <2>1. /\ Starting /\ frame \in Nat /\ painted \in Nat
          /\ events \in Seq(Event) /\ inbox \in Seq(Event)
      BY <1>4 DEF Connect, FrameInv
    <2>2. pc' = "bind" /\ requests' = <<"get_registry", "sync">>
          /\ UNCHANGED <<frame, events, inbox, painted>>
      BY <1>4 DEF Connect
    <2>3. Silent' /\ painted' = frame'
      BY <2>1, <2>2 DEF Starting, Before, Silent
    <2>4. Binding'
      BY <1>2, <2>1, <2>2, <2>3 DEF Binding, Starting
    <2> QED
      BY <2>1, <2>2, <2>4 DEF FrameInv
  <1>5. CASE Prepare
    <2> DEFINE q == <<"create_buffer", "create_surface">>
    <2>1. /\ Binding /\ frame \in Nat /\ painted \in Nat /\ events \in Seq(Event)
          /\ Contains(inbox, "done")
      BY <1>5 DEF Prepare, FrameInv, Waited
    <2>2. /\ pc' = "draw" /\ requests' = requests \o q /\ inbox' = <<>>
          /\ UNCHANGED <<frame, events, painted>>
      BY <1>5 DEF Prepare
    <2>3. requests = <<>> /\ ~Contains(events, "done") /\ NoneOwn /\ painted = frame
      BY <2>1 DEF Binding, Silent
    <2>4. requests' = q
      BY <2>2, <2>3
    <2>5. Idle'
      BY <1>2, <2>3, NoneIdle
    <2>6. inbox' \in Seq(Event) /\ ~Contains(inbox', "done")
      BY <2>1, <2>2, Done
    <2>7. Before'
      BY <2>2, <2>3, <2>6 DEF Before, Silent
    <2>8. Drawing'
      BY <1>2, <2>3, <2>4, <2>5, <2>7 DEF Drawing, Setup
    <2> QED
      BY <2>1, <2>2, <2>6, <2>8 DEF FrameInv
  <1>6. CASE Show
    <2>1. /\ Drawing /\ frame \in Nat /\ painted \in Nat
          /\ events \in Seq(Event) /\ inbox \in Seq(Event)
      BY <1>6 DEF Show, FrameInv
    <2>2. /\ pc' = "wait" /\ requests' = requests \o Frame
          /\ UNCHANGED <<frame, events, inbox, painted>>
      BY <1>6 DEF Show, Frame
    <2>3. requests' \in FirstFrame \union {Frame} /\ (requests' # Frame => requests # <<>>)
      BY <2>1, <2>2, Asks DEF Drawing, Setup, FirstFrame
    <2>4. Before'
      BY <2>1, <2>2 DEF Drawing, Before, Silent
    <2>5. Asking'
      BY <1>2, <2>1, <2>3, <2>4 DEF Drawing, Asking
    <2> QED
      BY <2>1, <2>2, <2>5 DEF FrameInv, Waiting
  <1>7. CASE Roundtrip
    <2>1. /\ Waiting /\ frame \in Nat /\ painted \in Nat /\ events \in Seq(Event)
          /\ Contains(inbox, "done")
      BY <1>7 DEF Roundtrip, FrameInv, Waited
    <2>2. /\ pc' = "draw" /\ frame' = frame + 1 /\ inbox' = <<>>
          /\ UNCHANGED <<requests, events, painted>>
      BY <1>7 DEF Roundtrip
    <2>3. Answer
      BY <2>1 DEF Waiting, Asking, Attaching, Committing, Answering, Refused, Before, Silent
    <2>4. inbox' \in Seq(Event) /\ ~Contains(inbox', "done")
      BY <2>1, <2>2, Done
    <2>5. Before'
      BY <2>2, <2>3, <2>4 DEF Before, Silent, Answer
    <2>6. Drawing'
      BY <1>2, <2>2, <2>3, <2>5 DEF Drawing, Setup, Answer
    <2>7. frame' \in Nat
      BY <2>1, <2>2
    <2> QED
      BY <2>1, <2>2, <2>4, <2>6, <2>7 DEF FrameInv
  <1> QED
    BY <1>3, <1>4, <1>5, <1>6, <1>7 DEF Client

\* The loop turns: the answer is sent when a turn begins, and what wldemo committed
\* before was painted at the end of the turn before.
LEMMA TurnFrames ==
  ASSUME Inv, FrameInv, SlotFound', Turn
  PROVE  FrameInv'
  <1>1. /\ MainLoop /\ UNCHANGED <<pc, frame, requests>> /\ (~up => ~up')
        /\ frame \in Nat /\ painted \in Nat
        /\ events \in Seq(Event) /\ inbox \in Seq(Event)
    BY DEF Turn, FrameInv, client
  <1>2. CASE phase = "dispatch" /\ phase' = "reap"
    <2>1. paint /\ inbox' = inbox
      BY <1>1, <1>2 DEF MainLoop, Loop, Fault, Reap, Exit, Turn, Flushes
    <2>2. /\ events' = (IF Copies # {} THEN Append(events, "release") ELSE events)
          /\ painted' = IF OwnCopies # {} THEN painted + 1 ELSE painted
      BY <1>2 DEF Turn, Flushes
    <2>3. /\ Idle \/ Handed => OwnCopies = {}
          /\ Showing => OwnCopies # {}
      BY NothingShown, SomethingShown DEF FrameInv, OwnCopies, Copies
    <2>4. (NoneOwn' <=> NoneOwn) /\ (Idle \/ Showing => Idle') /\ (Handed => Handed')
      BY <2>1, PaintView
    <2>5. /\ events' \in Seq(Event)
          /\ Contains(events', "done") <=> Contains(events, "done")
          /\ painted' \in Nat
      <3>1. events' = events \/ events' = Append(events, "release")
        BY <2>2
      <3>2. painted' = painted \/ painted' = painted + 1
        BY <2>2
      <3>3. /\ Append(events, "release") \in Seq(Event)
            /\ Contains(Append(events, "release"), "done") <=> Contains(events, "done")
        BY <1>1, Done
      <3>4. painted' \in Nat
        BY <1>1, <3>2
      <3> QED
        BY <1>1, <3>1, <3>3, <3>4
    <2>6. Silent' <=> Silent
      BY <2>1, <2>5 DEF Silent
    <2>7. Idle \/ Handed => painted' = painted
      BY <2>2, <2>3
    <2>8. (Idle \/ Handed) /\ Before => Before'
      BY <1>1, <2>6, <2>7 DEF Before
    <2>9. Copied => Copied'
      BY <1>1, <2>2, <2>3, <2>4, <2>7 DEF Copied
    <2>10. NoneOwn => Idle
      BY NoneIdle
    <2>11. Starting => Starting'
      BY <1>1, <2>4, <2>8, <2>10 DEF Starting
    <2>12. Binding => Binding'
      BY <1>1, <2>1, <2>4, <2>5, <2>6, <2>7, <2>10 DEF Binding
    <2>13. Drawing => Drawing'
      BY <1>1, <2>4, <2>8 DEF Drawing
    <2>14. (Asking => Asking') /\ (Attaching => Attaching') /\ (Committing => Committing')
      BY <1>1, <2>4, <2>6, <2>8, <2>9 DEF Asking, Attaching, Committing
    <2>15. (Answering => Answering') /\ (Answer => Answer') /\ (Refused => Refused')
      BY <1>1, <2>1, <2>4, <2>5, <2>6, <2>7, <2>9 DEF Answering, Answer, Refused
    <2>16. Waiting => Waiting'
      BY <2>14, <2>15 DEF Waiting
    <2> QED
      BY <1>1, <2>1, <2>5, <2>11, <2>12, <2>13, <2>16 DEF FrameInv
  <1>3. CASE phase = "dispatch" /\ phase' # "reap"
    <2>1. /\ UNCHANGED <<g_surfaces, surfaces, buffers, attached>> /\ phase' = "gone"
          /\ UNCHANGED <<painted, events, inbox>>
      BY <1>1, <1>3 DEF MainLoop, Loop, Reap, Exit, paint, Fault, Turn, Flushes, wayland, clients
    <2>2. Kept
      BY <2>1, SameView
    <2> QED
      BY <1>1, <2>1, <2>2, FrameKept
  <1>4. CASE phase # "dispatch"
    <2>1. UNCHANGED <<g_surfaces, surfaces, buffers, attached>> /\ painted' = painted
      BY <1>1, <1>4 DEF MainLoop, Loop, Reap, Exit, paint, Fault, Turn, wayland, clients
    <2>a. phase # "gone"
      BY <1>1, <1>4 DEF MainLoop, Loop, Reap, Exit, paint, Fault
    <2>2. Kept /\ (NoneOwn' <=> NoneOwn) /\ (Idle => Idle') /\ (Handed => Handed')
      <3>1. Kept
        BY <1>4, <2>a, <2>1, SameView
      <3> QED
        BY <3>1, KeptView
    <2>3. CASE ~Flushes
      <3>1. events' = events /\ inbox' = inbox
        BY <1>4, <2>3 DEF Turn
      <3> QED
        BY <1>1, <2>1, <2>2, <3>1, FrameKept
    <2>4. CASE Flushes
      <3>1. events' = <<>> /\ inbox' = inbox \o events
        BY <1>4, <2>4 DEF Turn
      <3>2. /\ events' \in Seq(Event) /\ ~Contains(events', "done")
            /\ inbox' \in Seq(Event)
            /\ Contains(inbox', "done") <=> Contains(inbox, "done") \/ Contains(events, "done")
        BY <1>1, <3>1, Done, Joined
      <3>3. ~Showing
        BY <1>4, <2>a DEF Showing
      <3>4. Silent => Silent'
        BY <3>2 DEF Silent
      <3>5. Before => Before'
        BY <1>1, <2>1, <3>4 DEF Before
      <3>6. Copied => Idle /\ painted = frame + 1 /\ Copied'
        BY <1>1, <2>1, <2>2, <3>3 DEF Copied
      <3>7. Starting => Starting'
        BY <1>1, <2>2, <3>5 DEF Starting
      <3>8. Binding => Binding'
        BY <1>1, <2>1, <2>2, <3>2, <3>4 DEF Binding
      <3>9. Drawing => Drawing'
        BY <1>1, <2>2, <3>5 DEF Drawing
      <3>10. (Asking => Asking') /\ (Attaching => Attaching') /\ (Committing => Committing')
        BY <1>1, <2>2, <3>4, <3>5, <3>6 DEF Asking, Attaching, Committing
      <3>11. (Answering \/ Answer => Answer') /\ (Refused => Refused')
        BY <1>1, <2>1, <2>2, <3>2, <3>4, <3>6 DEF Answering, Answer, Refused
      <3>12. Waiting => Waiting'
        BY <3>10, <3>11 DEF Waiting
      <3> QED
        BY <1>1, <2>1, <3>2, <3>7, <3>8, <3>9, <3>12 DEF FrameInv
    <2> QED
      BY <2>3, <2>4
  <1> QED
    BY <1>2, <1>3, <1>4
-----------------------------------------------------------------------------
\* The compositor handles one request.
LEMMA HandleFrames ==
  ASSUME Inv, DemoInv, FrameInv, SlotFound', Handle
  PROVE  FrameInv'
  <1> DEFINE ask == Head(requests)
  <1>1. /\ requests # <<>> /\ requests' = Tail(requests) /\ up
        /\ UNCHANGED <<pc, frame, up, inbox, painted>>
        /\ frame \in Nat /\ painted \in Nat
        /\ events \in Seq(Event) /\ inbox \in Seq(Event)
    BY DEF Handle, Request, FrameInv, client
  <1>2. /\ ask # "sync" => events' = events
        /\ ask = "sync" => events' = Append(events, "done")
    BY DEF Handle, Request
  <1>3. events' \in Seq(Event)
    <2>1. events' = events \/ events' = Append(events, "done")
      BY <1>2
    <2>2. events \in Seq(Event)
      BY <1>1
    <2>3. Append(events, "done") \in Seq(Event)
      BY <2>2, Done
    <2> QED
      BY <2>1, <2>2, <2>3
  <1>4. ask # "sync" => (Silent' <=> Silent) /\ (Before' <=> Before)
    BY <1>1, <1>2 DEF Silent, Before
  <1>5. ask = "get_registry" => UNCHANGED vars
    BY DEF Handle, Request
  <1>6. ask = "sync" => UNCHANGED vars
    BY DEF Handle, Request
  <1>7. OneOwn
    BY DEF DemoInv, OneOwn, Own
  <1>8. NoneOwn => Idle
    BY NoneIdle
  <1>9. UNCHANGED vars => (NoneOwn' <=> NoneOwn) /\ (Idle => Idle') /\ (Copied => Copied')
    <2> SUFFICES ASSUME UNCHANGED vars
                 PROVE  (NoneOwn' <=> NoneOwn) /\ (Idle => Idle') /\ (Copied => Copied')
      OBVIOUS
    <2>1. Kept
      BY SameView DEF vars, server, wayland, clients
    <2> QED
      BY <1>1, <2>1, KeptView DEF Copied
  <1>10. ask = "create_buffer" => (NoneOwn' <=> NoneOwn) /\ (Idle => Idle')
    <2> SUFFICES ASSUME ask = "create_buffer" PROVE (NoneOwn' <=> NoneOwn) /\ (Idle => Idle')
      OBVIOUS
    <2>1. /\ UNCHANGED <<g_surfaces, surfaces, attached, phase>>
          /\ \A b \in Buffers : buffers[b] = wldemo => buffers'[b] = wldemo
      BY DEF Handle, Request, CreateBuffer, server, clients, Inv, TypeOK
    <2> QED
      BY <2>1, SameView, KeptView
  <1>11. ask = "create_surface" /\ NoneOwn => Idle'
    <2> SUFFICES ASSUME ask = "create_surface", NoneOwn PROVE Idle'
      OBVIOUS
    <2>1. UNCHANGED vars \/ \E r \in Addresses : compositor_create_surface(wldemo, r)
      BY DEF Handle, Request
    <2> QED
      BY <1>8, <1>9, <2>1, CreateView
  <1>12. ask = "attach" /\ Idle => Handed'
    <2> SUFFICES ASSUME ask = "attach", Idle PROVE Handed'
      OBVIOUS
    <2>1. \E r \in Addresses, b \in Buffers : Own(r) /\ buffers[b] = wldemo /\ surface_attach(r, b)
      BY DEF Handle, Request
    <2> QED
      BY <1>7, <2>1, AttachView
  <1>13. ask = "commit" /\ Handed => Showing'
    <2> SUFFICES ASSUME ask = "commit", Handed PROVE Showing'
      OBVIOUS
    <2>1. \E r \in Addresses : Own(r) /\ surface_commit(r)
      BY DEF Handle, Request
    <2> QED
      BY <1>7, <2>1, CommitView
  <1>14. Starting => FALSE
    BY <1>1 DEF Starting
  <1>15. Binding => Binding'
    <2> SUFFICES ASSUME Binding PROVE Binding'
      OBVIOUS
    <2>1. CASE requests = <<"get_registry", "sync">>
      <3>1. ask = "get_registry" /\ Tail(requests) = <<"sync">>
        BY <2>1
      <3>2. Silent
        BY <1>1, <2>1 DEF Binding
      <3> QED
        BY <1>1, <1>4, <1>5, <1>9, <3>1, <3>2 DEF Binding
    <2>2. CASE requests = <<"sync">>
      <3>1. ask = "sync" /\ Tail(requests) = <<>>
        BY <2>2
      <3>2. Silent
        BY <1>1, <2>2 DEF Binding
      <3> QED
        BY <1>1, <1>6, <1>9, <3>1, <3>2 DEF Binding, Silent
    <2> QED
      BY <1>1, <2>1, <2>2 DEF Binding
  <1>16. ASSUME NoneOwn, Before,
                \/ requests = <<"create_buffer", "create_surface">>
                \/ requests = <<"create_buffer", "create_surface", "attach", "commit", "sync">>
         PROVE  /\ NoneOwn' /\ Idle' /\ Before'
                /\ \/ /\ requests = <<"create_buffer", "create_surface">>
                      /\ requests' = <<"create_surface">>
                   \/ /\ requests # <<"create_buffer", "create_surface">>
                      /\ requests' = <<"create_surface", "attach", "commit", "sync">>
    <2>1. ask = "create_buffer"
      BY <1>16
    <2>2. NoneOwn' /\ Idle' /\ Before'
      BY <1>4, <1>8, <1>10, <1>16, <2>1
    <2>3. CASE requests = <<"create_buffer", "create_surface">>
      <3>1. Tail(requests) = <<"create_surface">>
        BY <2>3
      <3> QED
        BY <1>1, <2>2, <2>3, <3>1
    <2>4. CASE requests = <<"create_buffer", "create_surface", "attach", "commit", "sync">>
      <3>1. /\ Tail(requests) = <<"create_surface", "attach", "commit", "sync">>
            /\ requests # <<"create_buffer", "create_surface">>
        BY <2>4
      <3> QED
        BY <1>1, <2>2, <3>1
    <2> QED
      BY <1>16, <2>3, <2>4
  <1>17. ASSUME NoneOwn, Before,
                \/ requests = <<"create_surface">>
                \/ requests = <<"create_surface", "attach", "commit", "sync">>
         PROVE  /\ Idle' /\ Before'
                /\ \/ requests = <<"create_surface">> /\ requests' = <<>>
                   \/ requests # <<"create_surface">> /\ requests' = Frame
    <2>1. ask = "create_surface"
      BY <1>17
    <2>2. Idle' /\ Before'
      BY <1>4, <1>11, <1>17, <2>1
    <2>3. CASE requests = <<"create_surface">>
      <3>1. Tail(requests) = <<>>
        BY <2>3
      <3> QED
        BY <1>1, <2>2, <2>3, <3>1
    <2>4. CASE requests = <<"create_surface", "attach", "commit", "sync">>
      <3>1. Tail(requests) = Frame /\ requests # <<"create_surface">>
        BY <2>4 DEF Frame
      <3> QED
        BY <1>1, <2>2, <3>1
    <2> QED
      BY <1>17, <2>3, <2>4
  <1>18. Drawing => Drawing'
    <2> SUFFICES ASSUME Drawing PROVE Drawing'
      OBVIOUS
    <2>1. NoneOwn /\ Before
      BY <1>1 DEF Drawing
    <2>2. CASE requests = <<"create_buffer", "create_surface">>
      BY <1>16, <2>1, <2>2 DEF Drawing, Setup
    <2>3. CASE requests = <<"create_surface">>
      BY <1>17, <2>1, <2>3 DEF Drawing, Setup
    <2> QED
      BY <1>1, <2>2, <2>3 DEF Drawing, Setup
  <1>19. Asking => Asking' \/ Attaching'
    <2> SUFFICES ASSUME Asking PROVE Asking' \/ Attaching'
      OBVIOUS
    <2>1. Before /\ Idle /\ (requests # Frame => NoneOwn)
      BY DEF Asking
    <2>2. CASE requests = <<"create_buffer", "create_surface", "attach", "commit", "sync">>
      <3>1. requests # Frame /\ requests # <<"create_buffer", "create_surface">>
        BY <2>2 DEF Frame
      <3> QED
        BY <1>16, <2>1, <2>2, <3>1 DEF Asking, FirstFrame
    <2>3. CASE requests = <<"create_surface", "attach", "commit", "sync">>
      <3>1. requests # Frame /\ requests # <<"create_surface">>
        BY <2>3 DEF Frame
      <3> QED
        BY <1>17, <2>1, <2>3, <3>1 DEF Asking
    <2>4. CASE requests = Frame
      <3>1. ask = "attach" /\ Tail(requests) = <<"commit", "sync">>
        BY <2>4 DEF Frame
      <3> QED
        BY <1>1, <1>4, <1>12, <2>1, <3>1 DEF Attaching
    <2> QED
      BY <2>2, <2>3, <2>4 DEF Asking, FirstFrame
  <1>20. Attaching => Committing'
    <2> SUFFICES ASSUME Attaching PROVE Committing'
      OBVIOUS
    <2>1. ask = "commit" /\ Tail(requests) = <<"sync">>
      BY DEF Attaching
    <2>2. Showing' /\ Before'
      BY <1>4, <1>13, <2>1 DEF Attaching
    <2> QED
      BY <1>1, <2>1, <2>2 DEF Committing, Copied, Before
  <1>21. Committing => Answering'
    <2> SUFFICES ASSUME Committing PROVE Answering'
      OBVIOUS
    <2>1. ask = "sync" /\ Tail(requests) = <<>>
      BY DEF Committing
    <2>2. Copied'
      BY <1>6, <1>9, <2>1 DEF Committing
    <2> QED
      BY <1>1, <2>1, <2>2 DEF Committing, Answering, Silent
  <1>22. ~Answering /\ ~Answer /\ ~Refused
    BY <1>1 DEF Answering, Answer, Refused
  <1>23. Waiting => Waiting'
    BY <1>19, <1>20, <1>21, <1>22 DEF Waiting
  <1> QED
    BY <1>1, <1>3, <1>14, <1>15, <1>18, <1>23 DEF FrameInv

\* The connection ends when the frame is wldemo's last, or has no surface.
LEMMA HangUpFrames ==
  ASSUME Inv, FrameInv, SlotFound', HangUp
  PROVE  FrameInv'
  <1>1. /\ UNCHANGED <<pc, frame, inbox, painted>> /\ ~up' /\ requests' = <<>> /\ events' = <<>>
        /\ frame \in Nat /\ painted \in Nat /\ events \in Seq(Event) /\ inbox \in Seq(Event)
    BY DEF HangUp, Closed, client, FrameInv
  <1>2. events' \in Seq(Event) /\ ~Contains(events', "done")
    BY <1>1, Done
  <1>3. CASE pc = "quit"
    BY <1>1, <1>2, <1>3 DEF FrameInv
  <1>4. CASE pc # "quit"
    <2>1. Head(requests) = "attach" /\ requests # <<>>
      BY <1>4 DEF HangUp, Request
    <2>2. NoneOwn'
      BY WlCompAssumption, WlDemoAssumption DEF HangUp, Disconnect, NoneOwn
    <2>3. pc \notin {"user", "none", "start"}
      BY <2>1 DEF FrameInv, Starting
    <2>4. pc # "bind"
      BY <2>1 DEF FrameInv, Binding
    <2>5. pc \notin {"draw", "drawing"}
      BY <2>1 DEF FrameInv, Drawing, Setup
    <2>6. pc = "wait" => Silent
      BY <2>1 DEF FrameInv, Waiting, Asking, Attaching, Committing, Answering, Answer, Refused,
                  Before
    <2>7. Silent => Refused'
      BY <1>1, <1>2, <2>2 DEF Silent, Refused
    <2> QED
      BY <1>1, <1>2, <2>3, <2>4, <2>5, <2>6, <2>7 DEF FrameInv, Waiting
  <1> QED
    BY <1>3, <1>4

LEMMA FrameStep ==
  ASSUME Inv, DemoInv, FrameInv, [DemoNext]_dvars
  PROVE  FrameInv'
  <1>1. SlotFound'
    BY DemoStep, SlotStep DEF FrameInv
  <1>2. CASE Others
    <2>1. PICK c \in Clients \ {wldemo} : Requests(c)
      BY <1>2 DEF Others
    <2> QED
      BY <1>1, <1>2, <2>1, OthersView, FrameKept DEF Others, client, socket
  <1>3. CASE Started
    <2>1. /\ UNCHANGED <<g_surfaces, surfaces, buffers, attached>> /\ phase = "start"
          /\ pc = "none" /\ pc' \in {"start", "quit"}
      BY <1>3 DEF Started, StartUp, wayland, clients
    <2> QED
      BY <1>1, <1>3, <2>1, SameView, FrameKept DEF Started, socket
  <1>4. CASE Interrupt
    <2>1. UNCHANGED <<g_surfaces, surfaces, buffers, attached, phase>>
      BY <1>4 DEF Interrupt, on_sigint, wayland, clients
    <2> QED
      BY <1>1, <1>4, <2>1, SameView, FrameKept DEF Interrupt, client, socket
  <1>5. CASE UNCHANGED dvars
    <2>1. UNCHANGED <<g_surfaces, surfaces, buffers, attached, phase>>
      BY <1>5 DEF dvars, vars, server, wayland, clients
    <2> QED
      BY <1>1, <1>5, <2>1, SameView, FrameKept DEF dvars, client, socket
  <1> QED
    BY <1>1, <1>2, <1>3, <1>4, <1>5, ClientFrames, HandleFrames, HangUpFrames, TurnFrames
    DEF DemoNext

LEMMA FrameStart == DemoInit => FrameInv
  <1> SUFFICES ASSUME DemoInit PROVE FrameInv
    OBVIOUS
  <1>1. SlotFound
    BY DEF DemoInit, Init, SlotFound
  <1>2. NoneOwn
    BY WlCompAssumption, WlDemoAssumption DEF DemoInit, Init, NoneOwn
  <1>3. ~Contains(<<>>, "done") /\ <<>> \in Seq(Event)
    BY DEF Contains
  <1>4. Starting
    BY <1>2, <1>3 DEF DemoInit, Starting, Before, Silent
  <1> QED
    BY <1>1, <1>3, <1>4 DEF DemoInit, FrameInv

LEMMA FramesAlways == DemoSpec => [](Inv /\ FrameInv)
  BY DemoStart, DemoStep, FrameStart, FrameStep, PTL DEF DemoSpec

\* While wldemo changes the pixels of its one buffer, the compositor has nothing
\* left to copy to where wldemo's surface is, for any number of other clients,
\* whatever they ask for, and of slots and frames: the answer it waited for was sent
\* when the loop began a turn, after the paint.
THEOREM NeverTornInDemo == DemoSpec => []NeverTorn
  <1>1. Inv /\ FrameInv => NeverTorn
    BY NothingShown DEF FrameInv, Drawing, NeverTorn
  <1> QED
    BY <1>1, FramesAlways, PTL

\* Whatever slot its surface is shown through, each frame that wldemo draws was
\* copied to the screen once before the next is drawn: none is dropped by the
\* compositor, and none is painted again.
THEOREM FramesAreShown == DemoSpec => []EachFrameOnce
  <1>1. FrameInv => EachFrameOnce
    BY DEF FrameInv, Drawing, Before, EachFrameOnce
  <1> QED
    BY <1>1, FramesAlways, PTL
=============================================================================
