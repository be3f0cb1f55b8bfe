----------------------------- MODULE DoomProofs -----------------------------
(***************************************************************************)
(* Doom: its ring is the queue of KeyFifo, by itself and with everything    *)
(* else that goes on; it gives back what it took; its picture fits what it  *)
(* is drawn on; its channels stay within their sounds; and what is heard    *)
(* is what Mixer promises.                                                  *)
(***************************************************************************)
EXTENDS Doom, SequenceTheorems, TLAPS
-----------------------------------------------------------------------------
\* The index after one in the array is in it too.
LEMMA AfterIs ==
  ASSUME NEW i \in Slots
  PROVE  /\ After(i) = IF i + 1 = KQ_SIZE THEN 0 ELSE i + 1
         /\ After(i) \in Slots
  <1>1. i \in Nat /\ i < KQ_SIZE /\ KQ_SIZE \in Nat /\ KQ_SIZE >= 2
    BY SizeAssumption DEF Slots
  <1>2. CASE i + 1 = KQ_SIZE
    <2>1. KQ_SIZE % KQ_SIZE = 0
      BY <1>1
    <2> QED
      BY <1>1, <1>2, <2>1 DEF After, Slots
  <1>3. CASE i + 1 # KQ_SIZE
    <2>1. i + 1 \in Nat /\ i + 1 < KQ_SIZE
      BY <1>1, <1>3
    <2>2. (i + 1) % KQ_SIZE = i + 1
      BY <1>1, <2>1
    <2> QED
      BY <1>1, <1>3, <2>1, <2>2 DEF After, Slots
  <1> QED
    BY <1>2, <1>3

\* The type invariant holds at the start.
LEMMA TypeInit == Init => TypeOK
BY SizeAssumption, ZeroAssumption DEF Init, TypeOK, Slots

\* Every step keeps the type invariant.
LEMMA TypeStep == TypeOK /\ [Next]_vars => TypeOK'
  <1> SUFFICES ASSUME TypeOK, [Next]_vars PROVE TypeOK'
    OBVIOUS
  <1> USE DEF TypeOK
  <1>1. ASSUME NEW e \in Event, queue_key(e) PROVE TypeOK'
    BY <1>1, AfterIs DEF queue_key
  <1>2. CASE DG_GetKey
    BY <1>2, AfterIs DEF DG_GetKey
  <1>3. CASE UNCHANGED vars
    BY <1>3 DEF vars
  <1> QED
    BY <1>1, <1>2, <1>3 DEF Next

\* Both indexes of the ring stay in the array, for every size (lines 132-135, 406-407).
THEOREM TypeCorrect == Spec => []TypeOK
  BY TypeInit, TypeStep, PTL DEF Spec
-----------------------------------------------------------------------------
\* What waits is a sequence of at most KQ_SIZE - 1 events, read at slots of the array.
LEMMA WaitingType ==
  ASSUME TypeOK
  PROVE  /\ Count \in 0..KQ_SIZE - 1
         /\ \A i \in 1..Count : At(i - 1) \in Slots
         /\ Waiting \in Seq(Event) /\ Len(Waiting) = Count
         /\ \A i \in 1..Count : Waiting[i] = g_queue[At(i - 1)]
  <1> USE SizeAssumption DEF TypeOK, Slots
  <1>1. Count \in 0..KQ_SIZE - 1
    BY DEF Count
  <1>2. \A i \in 1..Count : At(i - 1) \in Slots
    BY DEF At, Count
  <1>3. \A i \in 1..Count : g_queue[At(i - 1)] \in Event
    BY <1>2
  <1> QED
    BY <1>1, <1>2, <1>3 DEF Waiting

\* The ring is empty when the indexes meet, and full one slot before they do.
LEMMA EmptyAndFull ==
  ASSUME TypeOK
  PROVE  /\ g_qtail = g_qhead <=> Count = 0
         /\ After(g_qhead) = g_qtail <=> Count = KQ_SIZE - 1
  <1>1. After(g_qhead) = IF g_qhead + 1 = KQ_SIZE THEN 0 ELSE g_qhead + 1
    BY AfterIs DEF TypeOK
  <1> QED
    BY <1>1, SizeAssumption DEF TypeOK, Slots, Count

\* A sequence is the function of its elements.
LEMMA Elements ==
  ASSUME NEW S, NEW s \in Seq(S)
  PROVE  s = [i \in 1..Len(s) |-> s[i]]
  <1>1. s \in [1..Len(s) -> S]
    BY LenProperties
  <1> QED
    BY <1>1

\* An event that finds room becomes the last of those that wait.
LEMMA OfferRefines ==
  ASSUME TypeOK, NEW e \in Event, queue_key(e)
  PROVE  Fifo!Offer(e)
  <1>1. CASE After(g_qhead) = g_qtail
    <2>1. Waiting' = Waiting
      BY <1>1 DEF queue_key, Waiting, Count, At
    <2>2. ~(Len(Waiting) < KQ_SIZE - 1)
      BY <1>1, WaitingType, EmptyAndFull, SizeAssumption
    <2> QED
      BY <1>1, <2>1, <2>2 DEF Fifo!Offer, Fifo!Offered, queue_key
  <1>2. CASE After(g_qhead) # g_qtail
    <2>1. Len(Waiting) < KQ_SIZE - 1
      BY <1>2, WaitingType, EmptyAndFull, SizeAssumption
    <2>2. TypeOK'
      BY TypeStep DEF Next
    <2>3. /\ g_qtail' = g_qtail /\ got' = got
          /\ g_qhead' = IF g_qhead + 1 = KQ_SIZE THEN 0 ELSE g_qhead + 1
      BY <1>2, AfterIs DEF queue_key, TypeOK
    <2>4. Count' = Count + 1
      BY <2>3, <1>2, EmptyAndFull, SizeAssumption DEF Count, TypeOK, Slots
    <2>5. At(Count) = g_qhead
      BY SizeAssumption DEF Count, At, TypeOK, Slots
    <2>6. \A i \in 1..Count : At(i - 1)' = At(i - 1) /\ At(i - 1) # g_qhead
      BY <2>3, SizeAssumption DEF Count, At, TypeOK, Slots
    <2>7. \A i \in 1..Count + 1 : Waiting'[i] = Append(Waiting, e)[i]
      <3>1. SUFFICES ASSUME NEW i \in 1..Count + 1 PROVE Waiting'[i] = Append(Waiting, e)[i]
        OBVIOUS
      <3>2. Waiting'[i] = g_queue'[At(i - 1)'] /\ Count \in Nat /\ Len(Waiting) = Count
        BY <2>2, <2>4, WaitingType DEF Waiting
      <3>3. g_queue' = [g_queue EXCEPT ![g_qhead] = e] /\ g_qhead \in DOMAIN g_queue
        BY <1>2 DEF queue_key, TypeOK
      <3>4. CASE i = Count + 1
        <4>1. At(i - 1)' = g_qhead
          BY <3>2, <3>4, <2>3, <2>5 DEF At
        <4> QED
          BY <3>2, <3>3, <3>4, <4>1, WaitingType
      <3>5. CASE i \in 1..Count
        BY <3>2, <3>3, <3>5, <2>6, WaitingType DEF TypeOK
      <3> QED
        BY <3>2, <3>4, <3>5
    <2>8. Waiting' = Append(Waiting, e)
      <3>1. Append(Waiting, e) \in Seq(Event) /\ Len(Append(Waiting, e)) = Count + 1
        BY WaitingType
      <3>2. Waiting' = [i \in 1..Count + 1 |-> Append(Waiting, e)[i]]
        BY <2>4, <2>7 DEF Waiting
      <3> QED
        BY <3>1, <3>2, Elements
    <2> QED
      BY <2>1, <2>3, <2>8 DEF Fifo!Offer, Fifo!Offered
  <1> QED
    BY <1>1, <1>2

\* What is taken is the first of those that wait.
LEMMA TakeRefines ==
  ASSUME TypeOK, DG_GetKey
  PROVE  Fifo!Take
  <1>1. CASE g_qtail = g_qhead
    <2>1. Waiting' = Waiting
      BY <1>1 DEF DG_GetKey, Waiting, Count, At
    <2>2. Waiting = <<>>
      BY <1>1, WaitingType, EmptyAndFull
    <2> QED
      BY <1>1, <2>1, <2>2 DEF DG_GetKey, Fifo!Take
  <1>2. CASE g_qtail # g_qhead
    <2>1. TypeOK'
      BY TypeStep DEF Next
    <2>2. /\ got' = g_queue[g_qtail] /\ g_queue' = g_queue /\ g_qhead' = g_qhead
          /\ g_qtail' = IF g_qtail + 1 = KQ_SIZE THEN 0 ELSE g_qtail + 1
      BY <1>2, AfterIs DEF DG_GetKey, TypeOK
    <2>3. Count \in Nat \ {0} /\ Count' = Count - 1
      BY <1>2, <2>2, SizeAssumption DEF Count, TypeOK, Slots
    <2>4. Waiting # <<>> /\ Head(Waiting) = g_queue[g_qtail]
      <3>1. At(0) = g_qtail
        BY SizeAssumption DEF At, TypeOK, Slots
      <3>2. Waiting[1] = g_queue[At(1 - 1)]
        BY <2>3, WaitingType
      <3> QED
        BY <2>3, <3>1, <3>2, WaitingType
    <2>5. \A i \in 1..Count - 1 : At(i - 1)' = At(i)
      BY <2>2, <2>3, SizeAssumption DEF At, Count, TypeOK, Slots
    <2>6. Waiting' = Tail(Waiting)
      <3>1. Tail(Waiting) \in Seq(Event) /\ Len(Tail(Waiting)) = Count - 1
        BY <2>3, <2>4, WaitingType
      <3>2. ASSUME NEW i \in 1..Count - 1 PROVE Waiting'[i] = Tail(Waiting)[i]
        <4>1. Waiting'[i] = g_queue[At(i)]
          BY <2>1, <2>2, <2>3, <2>5, WaitingType DEF Waiting
        <4>2. Tail(Waiting)[i] = Waiting[i + 1] /\ i + 1 \in 1..Count /\ (i + 1) - 1 = i
          BY <2>3, <2>4, WaitingType
        <4> QED
          BY <4>1, <4>2, WaitingType
      <3>3. Waiting' = [i \in 1..Count - 1 |-> Tail(Waiting)[i]]
        BY <2>3, <3>2 DEF Waiting
      <3> QED
        BY <3>1, <3>3, Elements
    <2> QED
      BY <2>2, <2>4, <2>6 DEF Fifo!Take
  <1> QED
    BY <1>1, <1>2

\* For every size of the ring, what the game takes from it is what a first-in
\* first-out queue of KQ_SIZE - 1 events would give it (lines 130-136, 401-411).
THEOREM RingIsFifo == Spec => ImplementsFifo
  <1>1. Init => Fifo!Init
    <2> SUFFICES ASSUME Init PROVE Fifo!Init
      OBVIOUS
    <2>1. Waiting = <<>>
      BY TypeInit, WaitingType DEF Init, Count
    <2> QED
      BY <2>1 DEF Init, Fifo!Init
  <1>2. TypeOK /\ [Next]_vars => [Fifo!Next]_(Fifo!vars)
    <2> SUFFICES ASSUME TypeOK, [Next]_vars PROVE Fifo!Next \/ UNCHANGED Fifo!vars
      OBVIOUS
    <2>1. ASSUME NEW e \in Event, queue_key(e) PROVE Fifo!Next
      BY <2>1, OfferRefines DEF Fifo!Next
    <2>2. CASE DG_GetKey
      BY <2>2, TakeRefines DEF Fifo!Next
    <2>3. CASE UNCHANGED vars
      BY <2>3 DEF vars, Fifo!vars, Waiting, Count, At
    <2> QED
      BY <2>1, <2>2, <2>3 DEF Next
  <1> QED
    BY <1>1, <1>2, TypeCorrect, PTL DEF Spec, ImplementsFifo, Fifo!Spec
-----------------------------------------------------------------------------
\* The steps of Doom that are not Keys leave the ring alone.
LEMMA RingStep == [DoomNext]_doom => [Next]_vars
  <1> SUFFICES ASSUME [DoomNext]_doom PROVE [Next]_vars
    OBVIOUS
  <1> USE DEF ring, vars, doom
  <1>1. CASE Keys
    BY <1>1 DEF Keys, Next
  <1>2. CASE NoWad \/ DG_Init \/ Create \/ SoundCall \/ Mix \/ DG_DrawFrame \/ Leave \/ restore
           \/ Killed
    BY <1>2 DEF NoWad, DG_Init, Create, SoundCall, Mix, DG_DrawFrame, Leave, restore, Killed
  <1> QED
    BY <1>1, <1>2 DEF DoomNext

\* In Doom the ring is a first-in first-out queue, for every number of slots.
THEOREM RingInDoom == DoomSpec => ImplementsFifo
  <1>1. DoomInit => Init
    BY DEF DoomInit
  <1>2. DoomSpec => Spec
    BY <1>1, RingStep, PTL DEF DoomSpec, Spec
  <1> QED
    BY <1>2, RingIsFifo, PTL
-----------------------------------------------------------------------------
\* What Doom has taken at each phase.
HasTaken ==
  /\ machine \in Machines
  /\ phase \in {"main", "create", "play", "exit", "ended", "killed"}
  /\ g_acquired \in BOOLEAN /\ g_have_tio \in BOOLEAN
  /\ phase = "main" => ~g_acquired /\ ~g_have_tio /\ ~g_kbd
  /\ phase \notin {"ended", "killed"} =>
       /\ tty = (IF g_have_tio THEN "raw" ELSE "cooked")
       /\ screen = (IF g_acquired THEN "doom" ELSE machine.screen)
       /\ g_acquired => machine.screen = "free"
  /\ GivenBack

LEMMA TakenStep == HasTaken /\ [DoomNext]_doom => HasTaken'
  <1> SUFFICES ASSUME HasTaken, [DoomNext]_doom PROVE HasTaken'
    OBVIOUS
  <1> USE DEF HasTaken, GivenBack, world
  <1>1. CASE UNCHANGED doom
    BY <1>1 DEF doom
  <1>2. CASE Keys \/ SoundCall \/ Mix \/ DG_DrawFrame
    BY <1>2 DEF Keys, SoundCall, Mix, DG_DrawFrame, Playing
  <1>3. CASE Create \/ Leave \/ NoWad \/ Killed
    BY <1>3 DEF Create, Leave, NoWad, Killed
  <1>4. CASE DG_Init
    <2>1. {machine.windowed, machine.tty, machine.keyboard} \subseteq BOOLEAN
          /\ machine.screen \in {"free", "session"} /\ (machine.windowed => machine.screen = "free")
      BY MachineAssumption
    <2>2. CASE phase' = "exit"
      BY <1>4, <2>2 DEF DG_Init
    <2>3. CASE phase' = "create"
      BY <1>4, <2>1, <2>3 DEF DG_Init, CannotAcquire
    <2> QED
      BY <1>4, <2>2, <2>3 DEF DG_Init
  <1>5. CASE restore
    BY <1>5 DEF restore
  <1> QED
    BY <1>1, <1>2, <1>3, <1>4, <1>5 DEF DoomNext

\* Wherever Doom exits, it leaves the screen, the terminal and the keyboard as it
\* found them, on every machine.
THEOREM AllGivenBack == DoomSpec => []GivenBack
  <1>1. DoomInit => HasTaken
    BY DEF DoomInit, HasTaken, GivenBack
  <1>2. HasTaken => GivenBack
    BY DEF HasTaken
  <1> QED
    BY <1>1, <1>2, TakenStep, PTL DEF DoomSpec
-----------------------------------------------------------------------------
\* The least and the greatest of two integers.
LEMMA LeastOfTwo ==
  ASSUME NEW a \in Int, NEW b \in Int
  PROVE  Min({a, b}) = (IF a <= b THEN a ELSE b) /\ Max({a, b}) = (IF a >= b THEN a ELSE b)
  <1> DEFINE least == IF a <= b THEN a ELSE b
             most == IF a >= b THEN a ELSE b
  <1>1. /\ least \in {a, b} /\ \A y \in {a, b} : least <= y
        /\ most \in {a, b} /\ \A y \in {a, b} : most >= y
    OBVIOUS
  <1>2. /\ \A x \in {a, b} : (\A y \in {a, b} : x <= y) => x = least
        /\ \A x \in {a, b} : (\A y \in {a, b} : x >= y) => x = most
    OBVIOUS
  <1>3. Min({a, b}) = CHOOSE x \in {a, b} : \A y \in {a, b} : x <= y
    BY DEF Min
  <1>4. Max({a, b}) = CHOOSE x \in {a, b} : \A y \in {a, b} : x >= y
    BY DEF Max
  <1> HIDE DEF least, most
  <1>5. Min({a, b}) = least /\ Max({a, b}) = most
    BY <1>1, <1>2, <1>3, <1>4
  <1> QED
    BY <1>5 DEF least, most

\* The quotient of two numbers, and what is left.
LEMMA TurnedAround ==
  ASSUME NEW q \in Nat, NEW d \in Nat, NEW r, NEW n, n = q * d + r
  PROVE  n = d * q + r
  <1>1. q * d = d * q
    OBVIOUS
  <1> QED
    BY <1>1, Zenon

LEMMA Quotient ==
  ASSUME NEW n \in Nat, NEW d \in Nat \ {0}
  PROVE  /\ n \div d \in Nat /\ n % d \in 0..d - 1
         /\ n = d * (n \div d) + (n % d)
         /\ d * (n \div d) <= n /\ n < d * ((n \div d) + 1)
  <1>1. n \div d \in Nat
    OBVIOUS
  <1>2. n % d \in 0..d - 1
    OBVIOUS
  <1>3. d * (n \div d) <= n
    OBVIOUS
  <1>4. n < d * (n \div d) + d
    OBVIOUS
  <1>5. n = (n \div d) * d + (n % d)
    BY Z3
  <1>6. \A q \in Nat : q * d = d * q /\ d * (q + 1) = d * q + d
    OBVIOUS
  <1>7. d * ((n \div d) + 1) = d * (n \div d) + d
    BY <1>1, <1>6
  <1>8. n = d * (n \div d) + (n % d)
    BY <1>1, <1>5, TurnedAround, Zenon
  <1>9. n < d * ((n \div d) + 1)
    BY <1>4, <1>7
  <1> QED
    BY <1>1, <1>2, <1>3, <1>8, <1>9

LEMMA Times ==
  ASSUME NEW d \in Nat, NEW a \in Nat, NEW b \in Nat, a <= b
  PROVE  d * a \in Nat /\ d * b \in Nat /\ d * a <= d * b
  OBVIOUS

\* The picture has lines for a whole number of its own.
LEMMA LineOf ==
  ASSUME NEW h \in Nat \ {0}, NEW s \in Nat \ {0}, NEW i \in 0..h * s - 1
  PROVE  \E y \in 0..h - 1, t \in 0..s - 1 : i = y * s + t
  <1> DEFINE y == i \div s
  <1>1. i \in Nat /\ h * s \in Nat /\ i < h * s
    OBVIOUS
  <1>2. y \in Nat /\ i % s \in 0..s - 1 /\ i = s * y + (i % s) /\ s * y <= i
    BY <1>1, Quotient
  <1>3. y < h
    <2> HIDE DEF y
    <2> SUFFICES ASSUME ~(y < h) PROVE FALSE
      OBVIOUS
    <2>1. h <= y /\ s * h <= s * y
      BY <1>2, Times
    <2> QED
      BY <1>1, <1>2, <2>1
  <1> HIDE DEF y
  <1>4. i = y * s + (i % s)
    BY <1>2, TurnedAround, Zenon
  <1>5. y \in 0..h - 1
    BY <1>2, <1>3
  <1> QED
    BY <1>2, <1>4, <1>5

LEMMA LineIs ==
  ASSUME NEW h \in Nat \ {0}, NEW s \in Nat \ {0}, NEW y \in 0..h - 1, NEW t \in 0..s - 1
  PROVE  y * s + t \in 0..h * s - 1
  <1>1. s * y <= s * (h - 1) /\ s * y \in Nat
    BY Times
  <1>2. s * (h - 1) = h * s - s /\ s * y = y * s
    OBVIOUS
  <1>3. h * s \in Nat
    OBVIOUS
  <1> DEFINE a == y * s
             b == h * s
  <1>4. a \in Nat /\ b \in Nat /\ a <= b - s
    BY <1>1, <1>2, <1>3
  <1> HIDE DEF a, b
  <1>5. a + t \in 0..b - 1
    BY <1>4
  <1> QED
    BY <1>5 DEF a, b

LEMMA FramebufferType ==
  ASSUME NEW m \in Machines
  PROVE  Framebuffer(m) \in Size
  <1>1. RESX * 1 \in 0..UNSIGNED - 1 /\ RESX * 2 \in 0..UNSIGNED - 1
        /\ RESY * 1 \in 0..UNSIGNED - 1 /\ RESY * 2 \in 0..UNSIGNED - 1
    BY PictureAssumption
  <1> QED
    BY <1>1, MachineAssumption DEF Framebuffer, Size

\* The scale is the largest at which the picture fits.
LEMMA LargestScale ==
  ASSUME NEW fb \in Size, Fits(1, fb)
  PROVE  /\ Scale(fb) \in Nat \ {0}
         /\ RESX * Scale(fb) \in Nat /\ RESX * Scale(fb) <= fb.width
         /\ RESY * Scale(fb) \in Nat /\ RESY * Scale(fb) <= fb.height
         /\ ~Fits(Scale(fb) + 1, fb)
  <1>1. fb.width \in Nat /\ fb.height \in Nat /\ RESX \in Nat \ {0} /\ RESY \in Nat \ {0}
    BY PictureAssumption DEF Size
  <1> DEFINE p == fb.width \div RESX
             q == fb.height \div RESY
  <1>2. p \in Nat /\ RESX * p <= fb.width /\ fb.width < RESX * (p + 1)
    BY <1>1, Quotient
  <1>3. q \in Nat /\ RESY * q <= fb.height /\ fb.height < RESY * (q + 1)
    BY <1>1, Quotient
  <1> DEFINE least == IF p <= q THEN p ELSE q
  <1>4. Scale(fb) = Max({1, Min({p, q})})
    BY DEF Scale
  <1> HIDE DEF p, q
  <1>5. Min({p, q}) = least /\ least \in Nat
    BY <1>2, <1>3, LeastOfTwo
  <1> HIDE DEF least
  <1>6. Max({1, least}) = IF 1 >= least THEN 1 ELSE least
    BY <1>5, LeastOfTwo
  <1>7. RESX <= fb.width /\ RESY <= fb.height
    BY <1>1 DEF Fits
  <1>8. p # 0
    <2>1. p = 0 => RESX * (p + 1) = RESX
      BY <1>1
    <2> QED
      BY <1>1, <1>2, <1>7, <2>1
  <1>9. q # 0
    <2>1. q = 0 => RESY * (q + 1) = RESY
      BY <1>1
    <2> QED
      BY <1>1, <1>3, <1>7, <2>1
  <1>10. Scale(fb) = least /\ least \in Nat \ {0} /\ least <= p /\ least <= q
         /\ least \in {p, q}
    BY <1>2, <1>3, <1>4, <1>5, <1>6, <1>8, <1>9 DEF least
  <1>11. RESX * least \in Nat /\ RESX * least <= fb.width
    <2>1. RESX * p \in Nat /\ RESX * least \in Nat /\ RESX * least <= RESX * p
      BY <1>1, <1>2, <1>10, Times
    <2> QED
      BY <1>1, <1>2, <2>1
  <1>12. RESY * least \in Nat /\ RESY * least <= fb.height
    <2>1. RESY * q \in Nat /\ RESY * least \in Nat /\ RESY * least <= RESY * q
      BY <1>1, <1>3, <1>10, Times
    <2> QED
      BY <1>1, <1>3, <2>1
  <1>13. ~(RESX * (least + 1) <= fb.width /\ RESY * (least + 1) <= fb.height)
    <2>1. CASE least = p
      <3>1. RESX * (p + 1) \in Nat
        BY <1>1, <1>2
      <3> QED
        BY <1>1, <1>2, <2>1, <3>1
    <2>2. CASE least = q
      <3>1. RESY * (q + 1) \in Nat
        BY <1>1, <1>3
      <3> QED
        BY <1>1, <1>3, <2>2, <3>1
    <2> QED
      BY <1>10, <2>1, <2>2
  <1> QED
    BY <1>10, <1>11, <1>12, <1>13 DEF Fits

\* A size is an unsigned number already, and what is left of a line, or of the
\* lines, is halved: the two halves differ by a pixel at most.
LEMMA Halves ==
  ASSUME NEW a \in 0..UNSIGNED - 1, NEW b \in Nat, b <= a
  PROVE  /\ ((a - b) % UNSIGNED) \div 2 \in Nat
         /\ ((a - b) % UNSIGNED) \div 2 + b <= a
         /\ (a - b - ((a - b) % UNSIGNED) \div 2) - ((a - b) % UNSIGNED) \div 2 \in {0, 1}
  <1>1. UNSIGNED \in Nat /\ a \in Nat
    BY PictureAssumption
  <1> DEFINE d == a - b
  <1>2. d \in Nat /\ d < UNSIGNED
    BY <1>1
  <1>3. d % UNSIGNED = d
    BY <1>1, <1>2
  <1>4. d \div 2 \in Nat /\ d - 2 * (d \div 2) \in {0, 1}
    BY <1>2
  <1> QED
    BY <1>1, <1>2, <1>3, <1>4

\* What the picture on the screen is: the lines that belong to the framebuffer.
PictureInv ==
  /\ machine \in Machines
  /\ phase = "main" => shown = {}
  /\ phase \in {"create", "play"} => geometry = Geometry(Framebuffer(machine))
  /\ shown # {} => geometry = Geometry(Framebuffer(machine)) /\ shown = Blits

LEMMA PictureInit == DoomInit => PictureInv
  BY DEF DoomInit, PictureInv

LEMMA PictureStep == PictureInv /\ [DoomNext]_doom => PictureInv'
  <1> SUFFICES ASSUME PictureInv, [DoomNext]_doom
               PROVE  PictureInv'
    OBVIOUS
  <1>1. CASE DG_Init
    BY <1>1 DEF PictureInv, DG_Init
  <1>2. CASE DG_DrawFrame
    BY <1>2 DEF PictureInv, DG_DrawFrame, Playing, Blits
  <1>3. CASE NoWad \/ Create \/ Leave \/ Killed
    BY <1>3 DEF PictureInv, NoWad, Create, Leave, Killed, Blits
  <1>4. CASE Keys \/ SoundCall \/ Mix
    BY <1>4 DEF PictureInv, Keys, SoundCall, Mix, Playing, Blits
  <1>5. CASE restore
    BY <1>5 DEF PictureInv, restore, Blits
  <1>6. CASE UNCHANGED doom
    BY <1>6 DEF PictureInv, doom, Blits
  <1> QED
    BY <1>1, <1>2, <1>3, <1>4, <1>5, <1>6 DEF DoomNext

\* The geometry of a framebuffer that the picture fits.
LEMMA InTheMiddle ==
  ASSUME NEW fb \in Size, Fits(1, fb), NEW g, g = Geometry(fb)
  PROVE  /\ g.scale \in Nat \ {0} /\ g.ox \in Nat /\ g.oy \in Nat
         /\ RESX * g.scale \in Nat /\ RESY * g.scale \in Nat
         /\ g.ox + RESX * g.scale <= fb.width /\ g.oy + RESY * g.scale <= fb.height
         /\ (fb.width - RESX * g.scale - g.ox) - g.ox \in {0, 1}
         /\ (fb.height - RESY * g.scale - g.oy) - g.oy \in {0, 1}
         /\ ~Fits(g.scale + 1, fb)
  <1>1. /\ Scale(fb) \in Nat \ {0}
        /\ RESX * Scale(fb) \in Nat /\ RESX * Scale(fb) <= fb.width
        /\ RESY * Scale(fb) \in Nat /\ RESY * Scale(fb) <= fb.height
        /\ ~Fits(Scale(fb) + 1, fb)
    BY LargestScale
  <1>2. fb.width \in 0..UNSIGNED - 1 /\ fb.height \in 0..UNSIGNED - 1
    BY DEF Size
  <1>3. g.scale = Scale(fb)
    BY DEF Geometry
  <1>4. g.ox = ((fb.width - RESX * g.scale) % UNSIGNED) \div 2
    BY <1>3 DEF Geometry
  <1>5. g.oy = ((fb.height - RESY * g.scale) % UNSIGNED) \div 2
    BY <1>3 DEF Geometry
  <1> DEFINE w == RESX * g.scale
             h == RESY * g.scale
  <1>6. w \in Nat /\ w <= fb.width /\ h \in Nat /\ h <= fb.height
    BY <1>1, <1>3
  <1> HIDE DEF w, h
  <1>7. g.ox \in Nat /\ g.ox + w <= fb.width /\ (fb.width - w - g.ox) - g.ox \in {0, 1}
    BY <1>2, <1>4, <1>6, Halves DEF w
  <1>8. g.oy \in Nat /\ g.oy + h <= fb.height /\ (fb.height - h - g.oy) - g.oy \in {0, 1}
    BY <1>2, <1>5, <1>6, Halves DEF h
  <1> QED
    BY <1>1, <1>3, <1>6, <1>7, <1>8 DEF w, h

LEMMA PictureIs == PictureInv => PictureFits
  <1> DEFINE fb == Framebuffer(machine)
             last == geometry.oy + RESY * geometry.scale
  <1> SUFFICES ASSUME PictureInv, shown # {}, Fits(1, fb)
               PROVE  /\ {b.y : b \in shown} = geometry.oy..last - 1
                      /\ \A b \in shown :
                           /\ b.x + b.width <= fb.width
                           /\ (fb.width - b.x - b.width) - b.x \in {0, 1}
                      /\ (fb.height - last) - geometry.oy \in {0, 1}
                      /\ ~Fits(geometry.scale + 1, fb)
    BY DEF PictureFits
  <1>1. machine \in Machines /\ geometry = Geometry(fb) /\ shown = Blits
    BY DEF PictureInv
  <1>2. fb \in Size
    BY <1>1, FramebufferType
  <1> HIDE DEF fb
  <1> DEFINE k == geometry.scale
             ox == geometry.ox
             oy == geometry.oy
             w == RESX * geometry.scale
             h == RESY * geometry.scale
  <1>3. /\ k \in Nat \ {0} /\ ox \in Nat /\ oy \in Nat /\ w \in Nat /\ h \in Nat
        /\ ox + w <= fb.width /\ oy + h <= fb.height
        /\ (fb.width - w - ox) - ox \in {0, 1} /\ (fb.height - h - oy) - oy \in {0, 1}
        /\ ~Fits(k + 1, fb)
    BY <1>1, <1>2, InTheMiddle
  <1>4. fb.width \in Nat /\ fb.height \in Nat /\ fb.height < UNSIGNED /\ UNSIGNED \in Nat
        /\ RESY \in Nat \ {0}
    BY <1>2, PictureAssumption DEF Size
  <1>5. shown = {[x |-> ox, y |-> (oy + y * k + s) % UNSIGNED, width |-> w] :
                   y \in 0..RESY - 1, s \in 0..k - 1}
    BY <1>1 DEF Blits
  <1> HIDE DEF k, ox, oy, w
  \* No line wraps around: it is on the screen.
  <1>6. ASSUME NEW y \in 0..RESY - 1, NEW s \in 0..k - 1
        PROVE  y * k + s \in 0..h - 1 /\ (oy + y * k + s) % UNSIGNED = oy + (y * k + s)
    <2>1. y * k + s \in 0..RESY * k - 1
      BY <1>3, <1>4, LineIs
    <2>2. y * k + s \in 0..h - 1
      BY <2>1 DEF k
    <2>3. y * k \in Nat
      BY <1>3
    <2> DEFINE a == y * k
    <2> HIDE DEF a
    <2> HIDE DEF h
    <2>4. oy + a + s = oy + (a + s) /\ oy + (a + s) \in Nat /\ oy + (a + s) < UNSIGNED
      BY <1>3, <1>4, <2>2, <2>3 DEF a
    <2>5. (oy + a + s) % UNSIGNED = oy + (a + s)
      BY <1>4, <2>4
    <2> QED
      BY <2>2, <2>5 DEF a
  <1>7. ASSUME NEW i
        PROVE  i \in {b.y : b \in shown}
               <=> \E y \in 0..RESY - 1, s \in 0..k - 1 : i = (oy + y * k + s) % UNSIGNED
    <2> DEFINE line(y, s) == [x |-> ox, y |-> (oy + y * k + s) % UNSIGNED, width |-> w]
    <2>1. \A y, s : line(y, s).y = (oy + y * k + s) % UNSIGNED
      OBVIOUS
    <2>2. \A b : b \in shown <=> \E y \in 0..RESY - 1, s \in 0..k - 1 : b = line(y, s)
      BY <1>5
    <2> HIDE DEF line
    <2>3. i \in {b.y : b \in shown} <=> \E b \in shown : i = b.y
      OBVIOUS
    <2> QED
      BY <2>1, <2>2, <2>3
  <1>8. ASSUME NEW i \in oy..oy + h - 1
        PROVE  \E y \in 0..RESY - 1, s \in 0..k - 1 : i = (oy + y * k + s) % UNSIGNED
    <2> DEFINE j == i - oy
    <2>1. j \in 0..h - 1 /\ i = oy + j
      <3> HIDE DEF h
      <3> QED
        BY <1>3
    <2> HIDE DEF j
    <2>2. j \in 0..RESY * k - 1
      BY <2>1 DEF k
    <2>3. PICK y \in 0..RESY - 1, s \in 0..k - 1 : j = y * k + s
      BY <1>3, <1>4, <2>2, LineOf
    <2>4. (oy + y * k + s) % UNSIGNED = oy + (y * k + s)
      BY <1>6
    <2>5. i = (oy + y * k + s) % UNSIGNED
      BY <2>1, <2>3, <2>4, Zenon
    <2> QED
      BY <2>5
  <1> HIDE DEF h
  <1>9. last = oy + h
    BY DEF h, oy
  <1>10. {b.y : b \in shown} = oy..oy + h - 1
    <2>1. ASSUME NEW y \in 0..RESY - 1, NEW s \in 0..k - 1
          PROVE  (oy + y * k + s) % UNSIGNED \in oy..oy + h - 1
      <3> DEFINE j == y * k + s
      <3>1. j \in 0..h - 1 /\ (oy + y * k + s) % UNSIGNED = oy + j
        BY <1>6
      <3> HIDE DEF j
      <3>2. oy + j \in oy..oy + h - 1
        BY <1>3, <3>1
      <3> QED
        BY <3>1, <3>2
    <2>2. ASSUME NEW i \in {b.y : b \in shown} PROVE i \in oy..oy + h - 1
      BY <1>7, <2>1
    <2>3. ASSUME NEW i \in oy..oy + h - 1 PROVE i \in {b.y : b \in shown}
      BY <1>7, <1>8
    <2> QED
      BY <2>2, <2>3
  <1>11. ASSUME NEW b \in shown
         PROVE  b.x + b.width <= fb.width /\ (fb.width - b.x - b.width) - b.x \in {0, 1}
    <2>1. b.x = ox /\ b.width = w
      BY <1>5
    <2>2. fb.width - ox - w = fb.width - w - ox
      BY <1>3, <1>4
    <2> QED
      BY <1>3, <2>1, <2>2
  <1>12. fb.height - (oy + h) = fb.height - h - oy
    BY <1>3, <1>4
  <1> QED
    BY <1>3, <1>9, <1>10, <1>11, <1>12 DEF k, oy

\* PictureFits for every machine, display and framebuffer: DG_DrawFrame's lines are
\* all on the screen, in its middle, and as large as fits, whatever DG_Init found
\* (lines 315-326, 371-386).
THEOREM PictureIsWhole == DoomSpec => []PictureFits
  <1>1. DoomSpec => []PictureInv
    BY PictureInit, PictureStep, PTL DEF DoomSpec
  <1> QED
    BY <1>1, PictureIs, PTL
-----------------------------------------------------------------------------
\* A lump that can be played makes some frames.
LEMMA SomeFrames ==
  ASSUME NEW e \in DOMAIN Pcm
  PROVE e \in Effects /\ OutFrames(e) \in Nat \ {0}
  <1>1. e \in Effects /\ Playable(e)
    BY DEF Pcm
  <1>2. Lump[e].size \in Nat /\ Lump[e].count \in Nat /\ Lump[e].rate \in Nat \ {0}
    BY <1>1, LumpAssumption DEF Playable
  <1>3. SrcFrames(e) \in Nat
    BY <1>1, <1>2, LeastOfTwo DEF Playable, SrcFrames
  <1> DEFINE n == SrcFrames(e) * CERVUS_RATE + Lump[e].rate - 1
  <1>4. n \in Nat
    <2>1. SrcFrames(e) * CERVUS_RATE \in Nat
      BY <1>3, SoundAssumption
    <2> QED
      BY <2>1, <1>2
  <1>5. \A a \in Nat, b \in Nat \ {0} : a \div b \in Nat
    OBVIOUS
  <1>6. n \div Lump[e].rate \in Nat
    BY <1>2, <1>4, <1>5
  <1> QED
    BY <1>1, <1>6 DEF Playable, OutFrames

\* A channel as its parts are typed, and its place within its sound.
Typed == [pcm : Effects \union {None}, frames : Nat, pos : Nat, left : 0..127, right : 0..127]
Within(ch) == ch.pcm # None => ch.pos < ch.frames
Balanced(ch) == ch.left + ch.right <= 127

\* One side's part of the volume.
Part(v, s) == (v * s) \div 254

LEMMA Parts ==
  ASSUME NEW v \in 0..127, NEW s \in 0..254
  PROVE /\ Part(v, 254 - s) \in 0..127 /\ Part(v, s) \in 0..127
        /\ Part(v, 254 - s) + Part(v, s) <= 127
  <1> DEFINE a == v * (254 - s)
             b == v * s
  <1>1. a \in Nat /\ b \in Nat
    OBVIOUS
  <1>2. a + b = 254 * v
    OBVIOUS
  <1>3. \A x \in Nat, y \in Nat : x + y <= 254 * 127 =>
          /\ x \div 254 \in 0..127 /\ y \div 254 \in 0..127
          /\ x \div 254 + y \div 254 <= 127
    OBVIOUS
  <1>4. 254 * v <= 254 * 127
    OBVIOUS
  <1> QED
    BY <1>1, <1>2, <1>3, <1>4 DEF Part

\* The volume is shared by the two sides, and rounding makes none.
LEMMA Shared ==
  ASSUME NEW ch \in Typed, NEW vol \in Int, NEW sep \in Int
  PROVE LET new == WithParams(ch, vol, sep)
        IN new \in Typed /\ Balanced(new)
           /\ new.pcm = ch.pcm /\ new.pos = ch.pos /\ new.frames = ch.frames
  <1> DEFINE v == Clamp(vol, 0, 127)
             s == Clamp(sep, 0, 254)
             l == Part(v, 254 - s)
             r == Part(v, s)
  <1>1. v \in 0..127 /\ s \in 0..254
    BY DEF Clamp
  <1>2. l \in 0..127 /\ r \in 0..127 /\ l + r <= 127
    <2> HIDE DEF v, s
    <2> QED
      BY <1>1, Parts
  <1>3. WithParams(ch, vol, sep) = [ch EXCEPT !.left = l, !.right = r]
    BY DEF WithParams, Part
  <1> HIDE DEF l, r
  <1> QED
    BY <1>2, <1>3 DEF Typed, Balanced

LEMMA IdleIsTyped == Idle \in Typed /\ Within(Idle) /\ Balanced(Idle)
  BY DEF Idle, Typed, Within, Balanced

LEMMA Restarted ==
  ASSUME NEW ch \in Typed, NEW e \in Effects, NEW n \in Nat \ {0}
  PROVE LET new == [ch EXCEPT !.pcm = e, !.frames = n, !.pos = 0]
        IN new \in Typed /\ Within(new)
  <1> DEFINE new == [ch EXCEPT !.pcm = e, !.frames = n, !.pos = 0]
  <1>1. new \in Typed
    BY DEF Typed
  <1>2. new.pos = 0 /\ new.frames = n
    BY DEF Typed
  <1>3. Within(new)
    BY <1>2 DEF Within
  <1> QED
    BY <1>1, <1>3

\* SoundTypeOK, and the types of what it compares.
SoundInv ==
  /\ g_open \in BOOLEAN
  /\ driver_data \subseteq DOMAIN Pcm
  /\ g_chan \in [Channels -> Typed]
  /\ \A c \in Channels : Within(g_chan[c]) /\ Balanced(g_chan[c])

LEMMA SoundStep == SoundInv /\ [DoomNext]_doom => SoundInv'
  <1> SUFFICES ASSUME SoundInv, [DoomNext]_doom PROVE SoundInv'
    OBVIOUS
  <1> USE DEF SoundInv
  <1>1. ASSUME NEW e \in Effects, NEW c \in Channels, NEW p \in Settings,
               I_Cervus_StartSound(e, c, p[1], p[2])
        PROVE SoundInv'
    <2> DEFINE ch == [g_chan[c] EXCEPT !.pcm = e, !.frames = OutFrames(e), !.pos = 0]
               new == WithParams(ch, p[1], p[2])
    <2>1. e \in DOMAIN Pcm /\ OutFrames(e) \in Nat \ {0}
      BY <1>1, SomeFrames DEF I_Cervus_StartSound
    <2>2. ch \in Typed /\ Within(ch)
      <3>1. g_chan[c] \in Typed
        OBVIOUS
      <3> QED
        BY <1>1, <2>1, <3>1, Restarted
    <2>3. p[1] \in Int /\ p[2] \in Int
      BY SoundAssumption
    <2>4. g_chan' = [g_chan EXCEPT ![c] = new]
      BY <1>1 DEF I_Cervus_StartSound
    <2> HIDE DEF ch
    <2>5. new \in Typed /\ Balanced(new) /\ Within(new)
      BY <2>2, <2>3, Shared DEF Within
    <2> HIDE DEF new
    <2> QED
      BY <1>1, <2>1, <2>4, <2>5 DEF I_Cervus_StartSound
  <1>2. ASSUME NEW c \in Channels, NEW p \in Settings,
               I_Cervus_UpdateSoundParams(c, p[1], p[2])
        PROVE SoundInv'
    <2> DEFINE new == WithParams(g_chan[c], p[1], p[2])
    <2>1. p[1] \in Int /\ p[2] \in Int
      BY SoundAssumption
    <2>2. g_chan' = [g_chan EXCEPT ![c] = new]
      BY <1>2 DEF I_Cervus_UpdateSoundParams
    <2>3. new \in Typed /\ Balanced(new) /\ Within(new)
      BY <2>1, Shared DEF Within
    <2> HIDE DEF new
    <2> QED
      BY <1>2, <2>2, <2>3 DEF I_Cervus_UpdateSoundParams
  <1>3. ASSUME NEW c \in Channels, I_Cervus_StopSound(c) PROVE SoundInv'
    BY <1>3 DEF I_Cervus_StopSound, Typed, Within, Balanced
  <1>4. CASE I_Cervus_PrecacheSounds
    BY <1>4 DEF I_Cervus_PrecacheSounds
  <1>5. CASE I_Cervus_Update
    <2>1. ASSUME NEW c \in Channels
          PROVE g_chan'[c] \in Typed /\ Within(g_chan'[c]) /\ Balanced(g_chan'[c])
      <3>1. CASE I_Cervus_SoundIsPlaying(c)
        <4>1. g_chan'[c] = Played(g_chan[c])
          BY <1>5, <2>1, <3>1 DEF I_Cervus_Update
        <4>2. Mixed(g_chan[c]) \in Nat
          BY <2>1, <3>1, SoundAssumption DEF Mixed, Typed, Within, I_Cervus_SoundIsPlaying
        <4>3. g_chan[c] \in Typed /\ Balanced(g_chan[c])
          BY <2>1
        <4>4. Played(g_chan[c]) \in Typed
          <5> DEFINE pos == g_chan[c].pos + Mixed(g_chan[c])
                     pcm == IF pos >= g_chan[c].frames THEN None ELSE g_chan[c].pcm
          <5>1. pos \in Nat /\ pcm \in Effects \union {None}
            BY <4>2, <4>3 DEF Typed
          <5>2. Played(g_chan[c]) = [g_chan[c] EXCEPT !.pos = pos, !.pcm = pcm]
            BY DEF Played
          <5> HIDE DEF pos, pcm
          <5> QED
            BY <4>3, <5>1, <5>2 DEF Typed
        <4>5. Within(Played(g_chan[c])) /\ Balanced(Played(g_chan[c]))
          BY <4>2, <4>3 DEF Played, Typed, Within, Balanced
        <4> QED
          BY <4>1, <4>4, <4>5
      <3>2. CASE ~I_Cervus_SoundIsPlaying(c)
        BY <1>5, <2>1, <3>2 DEF I_Cervus_Update
      <3> QED
        BY <3>1, <3>2
    <2>2. DOMAIN g_chan' = Channels /\ g_chan' = [c \in Channels |-> g_chan'[c]]
      BY <1>5 DEF I_Cervus_Update
    <2> QED
      BY <1>5, <2>1, <2>2 DEF I_Cervus_Update
  <1>6. CASE I_Cervus_InitSound
    BY <1>6, IdleIsTyped DEF I_Cervus_InitSound
  <1>7. CASE I_Cervus_ShutdownSound
    BY <1>7 DEF I_Cervus_ShutdownSound
  <1>8. CASE UNCHANGED sound
    BY <1>8 DEF sound
  <1>9. CASE SoundCalls
    BY <1>1, <1>2, <1>3, <1>4, <1>9 DEF SoundCalls
  <1> QED
    BY <1>5, <1>6, <1>7, <1>8, <1>9
       DEF DoomNext, NoWad, DG_Init, Create, Keys, SoundCall, Mix, DG_DrawFrame, Leave, restore,
           Killed, doom

\* The channels of Doom stay within the sounds they play, and no louder than the
\* loudest volume, for all lumps and whatever the game asks for.
THEOREM ChannelsTyped == DoomSpec => []SoundTypeOK
  <1>1. DoomInit => SoundInv
    BY IdleIsTyped DEF DoomInit, SoundInit, SoundInv
  <1>2. SoundInv => SoundTypeOK
    BY DEF SoundInv, SoundTypeOK, Typed, Within, Balanced, I_Cervus_SoundIsPlaying
  <1> QED
    BY <1>1, <1>2, SoundStep, PTL DEF DoomSpec
-----------------------------------------------------------------------------
\* A product grows with its factor.
LEMMA TimesMore ==
  ASSUME NEW d \in Nat \ {0}, NEW a \in Int, NEW b \in Int
  PROVE  /\ a <= b => a * d <= b * d
         /\ a < b => a * d + d <= b * d
         /\ a * d \in Int
  <1>1. a * d \in Int /\ b * d \in Int /\ (b - a) * d = b * d - a * d /\ b - a \in Int
    OBVIOUS
  <1>2. \A k \in Nat : k * d >= 0 /\ (k # 0 => k * d >= d)
    OBVIOUS
  <1>3. a <= b => (b - a) * d >= 0
    BY <1>1, <1>2
  <1>4. a < b => (b - a) * d >= d
    BY <1>1, <1>2
  <1> QED
    BY <1>1, <1>3, <1>4

\* The frames that are made of a lump are the fewest in which all of it is played.
LEMMA Fewest ==
  ASSUME NEW N \in Nat, NEW r \in Nat \ {0}
  PROVE  LET q == (N + r - 1) \div r
         IN /\ q \in 0..N /\ q * r >= N
            /\ \A m \in 0..q - 1 : m * r < N
            /\ \A n \in 0..N : n * r >= N /\ (\A m \in 0..n - 1 : ~(m * r >= N)) => n = q
  <1> DEFINE q == (N + r - 1) \div r
  <1>1. N + r - 1 \in Nat
    OBVIOUS
  <1>2. q \in Nat /\ r * q <= N + r - 1 /\ N + r - 1 < r * (q + 1)
    BY <1>1, Quotient
  <1> HIDE DEF q
  <1>3. r * q = q * r /\ r * (q + 1) = q * r + r /\ q * r \in Int
    BY <1>2
  <1>4. q * r >= N
    BY <1>2, <1>3
  <1>5. ASSUME NEW m \in Int, m < q PROVE m * r < N
    <2>1. m * r + r <= q * r /\ m * r \in Int
      BY <1>2, <1>5, TimesMore
    <2> QED
      BY <1>2, <1>3, <2>1
  <1>6. q <= N
    <2> SUFFICES ASSUME N < q PROVE FALSE
      BY <1>2
    <2>1. N * r < N /\ N * r \in Int
      BY <1>5, TimesMore
    <2>2. N * r >= N
      OBVIOUS
    <2> QED
      BY <2>1, <2>2
  <1>7. \A m \in 0..q - 1 : m * r < N
    BY <1>2, <1>5
  <1>8. ASSUME NEW n \in 0..N, n * r >= N, \A m \in 0..n - 1 : ~(m * r >= N)
        PROVE  n = q
    <2>1. ~(n < q)
      <3> SUFFICES ASSUME n < q PROVE FALSE
        OBVIOUS
      <3>1. n * r < N /\ n * r \in Int
        BY <1>5, TimesMore
      <3> QED
        BY <1>8, <3>1
    <2>2. ~(q < n)
      BY <1>2, <1>4, <1>8
    <2> QED
      BY <1>2, <2>1, <2>2
  <1> QED
    BY <1>2, <1>4, <1>6, <1>7, <1>8 DEF q

\* One byte only is played at a time.
LEMMA OneByte ==
  ASSUME NEW x \in Nat, NEW R \in Nat \ {0}, NEW S \in Nat, x < S * R
  PROVE  LET p == x \div R
         IN /\ p \in 0..S - 1 /\ (p + 1 - 1) * R <= x /\ x < (p + 1) * R
            /\ \A j \in 1..S : (j - 1) * R <= x /\ x < j * R => j = p + 1
  <1> DEFINE p == x \div R
  <1>1. p \in Nat /\ R * p <= x /\ x < R * (p + 1)
    BY Quotient
  <1> HIDE DEF p
  <1>2. R * p = p * R /\ R * (p + 1) = p * R + R /\ p * R \in Int /\ (p + 1) * R = p * R + R
    BY <1>1
  <1>3. p < S
    <2> SUFFICES ASSUME ~(p < S) PROVE FALSE
      OBVIOUS
    <2>1. S * R <= p * R /\ S * R \in Int
      BY <1>1, TimesMore
    <2> QED
      BY <1>1, <1>2, <2>1
  <1>4. ASSUME NEW j \in 1..S, (j - 1) * R <= x, x < j * R
        PROVE  j = p + 1
    <2>1. ~(j < p + 1)
      <3> SUFFICES ASSUME j <= p PROVE FALSE
        BY <1>1
      <3>1. j * R <= p * R /\ j * R \in Int
        BY <1>1, TimesMore
      <3> QED
        BY <1>1, <1>2, <1>4, <3>1
    <2>2. ~(p + 1 < j)
      <3> SUFFICES ASSUME p < j - 1 PROVE FALSE
        BY <1>1
      <3>1. p * R + R <= (j - 1) * R /\ (j - 1) * R \in Int
        BY <1>1, TimesMore
      <3> QED
        BY <1>1, <1>2, <1>4, <3>1
    <2> QED
      BY <1>1, <2>1, <2>2
  <1>5. p + 1 - 1 = p
    BY <1>1
  <1>6. (p + 1 - 1) * R <= x /\ x < (p + 1) * R
    BY <1>1, <1>2, <1>5
  <1> QED
    BY <1>1, <1>3, <1>4, <1>6 DEF p
-----------------------------------------------------------------------------
\* A lump that can be played is converted to its sound.
LEMMA SoundMade ==
  ASSUME NEW e \in DOMAIN Pcm
  PROVE  /\ Length(e) = OutFrames(e)
         /\ \A i \in 1..OutFrames(e) :
              Pcm[e][i - 1] = (Lump[e].bytes[ByteAt(e, i - 1)] - 128) * 128
  <1> DEFINE n == OutFrames(e)
             s == SrcFrames(e)
             r == Lump[e].rate
             N == s * CERVUS_RATE
  <1>1. e \in Effects /\ Playable(e)
    BY DEF Pcm
  <1>2. r \in Nat \ {0} /\ Lump[e].size \in Nat /\ Lump[e].count \in Nat
    BY <1>1, LumpAssumption DEF Playable
  <1>3. s \in Nat
    BY <1>1, <1>2, LeastOfTwo DEF Playable, SrcFrames
  <1>4. N \in Nat
    BY <1>3, SoundAssumption
  <1>5. n = (N + r - 1) \div r
    BY DEF OutFrames
  <1>6. \A m : Lasts(e, m) <=> m * r >= N
    BY DEF Lasts
  <1>7. Length(e) = CHOOSE k \in 0..N : Lasts(e, k) /\ \A m \in 0..k - 1 : ~Lasts(e, m)
    BY DEF Length
  <1> HIDE DEF n, s, r, N
  <1>8. /\ n \in 0..N /\ n * r >= N
        /\ \A m \in 0..n - 1 : m * r < N
        /\ \A k \in 0..N : k * r >= N /\ (\A m \in 0..k - 1 : ~(m * r >= N)) => k = n
    BY <1>2, <1>4, <1>5, Fewest
  <1>9. \A m \in 0..n - 1 : m * r \in Nat
    BY <1>2, <1>8
  <1>10. Lasts(e, n) /\ \A m \in 0..n - 1 : ~Lasts(e, m)
    BY <1>4, <1>6, <1>8, <1>9
  <1>11. \A k \in 0..N : Lasts(e, k) /\ (\A m \in 0..k - 1 : ~Lasts(e, m)) => k = n
    BY <1>6, <1>8
  <1>12. Length(e) = n
    BY <1>7, <1>8, <1>10, <1>11
  <1>13. ASSUME NEW i \in 1..n
         PROVE  Pcm[e][i - 1] = (Lump[e].bytes[ByteAt(e, i - 1)] - 128) * 128
    <2> DEFINE x == (i - 1) * r
               p == x \div CERVUS_RATE
               si == Min({p, s - 1})
    <2>1. i - 1 \in 0..n - 1
      BY <1>8
    <2>2. x \in Nat /\ x < s * CERVUS_RATE
      BY <1>8, <1>9, <2>1 DEF N
    <2>3. Pcm[e][i - 1] = (Lump[e].bytes[si + 1] - 128) * 128
      <3>1. Pcm[e] = [k \in 0..OutFrames(e) - 1 |->
                        LET j == Min({(k * Lump[e].rate) \div CERVUS_RATE, SrcFrames(e) - 1})
                        IN (Lump[e].bytes[j + 1] - 128) * 128]
        BY <1>1 DEF Pcm
      <3>2. i - 1 \in 0..OutFrames(e) - 1
        BY <2>1 DEF n
      <3> QED
        BY <3>1, <3>2 DEF r, s
    <2>4. ByteAt(e, i - 1) = CHOOSE j \in 1..s : (j - 1) * CERVUS_RATE <= x /\ x < j * CERVUS_RATE
      BY DEF ByteAt, s, r
    <2> HIDE DEF x
    <2>5. /\ p \in 0..s - 1 /\ (p + 1 - 1) * CERVUS_RATE <= x /\ x < (p + 1) * CERVUS_RATE
          /\ \A j \in 1..s : (j - 1) * CERVUS_RATE <= x /\ x < j * CERVUS_RATE => j = p + 1
      BY <1>3, <2>2, SoundAssumption, OneByte
    <2> HIDE DEF p
    <2>6. si = p
      BY <1>3, <2>5, LeastOfTwo
    <2>7. p + 1 \in 1..s
      BY <1>3, <2>5
    <2>8. ByteAt(e, i - 1) = p + 1
      BY <2>4, <2>5, <2>7
    <2> QED
      BY <2>3, <2>6, <2>8
  <1> QED
    BY <1>12, <1>13 DEF n

\* The sound is a sequence, of some samples.
LEMMA SoundIs ==
  ASSUME NEW e \in DOMAIN Pcm
  PROVE  \E X : /\ Sound[e] \in Seq(X) /\ Len(Sound[e]) = OutFrames(e)
                /\ \A i \in 1..OutFrames(e) : Sound[e][i] = Pcm[e][i - 1]
  <1> DEFINE n == OutFrames(e)
             X == {Sound[e][i] : i \in 1..n}
  <1>1. n \in Nat
    BY SomeFrames
  <1>2. Sound[e] = [i \in 1..n |-> (Lump[e].bytes[ByteAt(e, i - 1)] - 128) * 128]
    BY SoundMade DEF Sound
  <1>3. \A i \in 1..n : Sound[e][i] = Pcm[e][i - 1]
    BY <1>2, SoundMade
  <1> HIDE DEF n
  <1>4. Sound[e] \in [1..n -> X]
    BY <1>2
  <1> HIDE DEF X
  <1>5. Sound[e] \in Seq(X) /\ Len(Sound[e]) = n
    BY <1>1, <1>4
  <1> QED
    BY <1>3, <1>5 DEF n

\* What is left of a sound when some of it has been played.
LEMMA RestIs ==
  ASSUME NEW X, NEW s \in Seq(X), NEW p \in Nat
  PROVE  LET rest == SubSeq(s, p + 1, Len(s))
         IN /\ rest \in Seq(X)
            /\ Len(rest) = IF p < Len(s) THEN Len(s) - p ELSE 0
            /\ \A i \in 1..Len(rest) : rest[i] = s[p + i]
  <1>1. Len(s) \in Nat /\ \A i \in p + 1..Len(s) : s[i] \in X
    OBVIOUS
  <1> DEFINE m == p + 1
             n == Len(s)
             rest == SubSeq(s, p + 1, Len(s))
  <1>2. m \in Int /\ n \in Int /\ \A i \in m..n : s[i] \in X
    BY <1>1
  <1>3. /\ rest \in Seq(X)
        /\ Len(rest) = IF m <= n THEN n - m + 1 ELSE 0
        /\ \A i \in 1..n - m + 1 : rest[i] = s[m + i - 1]
    BY <1>2, SubSeqProperties
  <1>4. \A i \in Int : m + i - 1 = p + i
    OBVIOUS
  <1>5. Len(rest) = IF p < n THEN n - p ELSE 0
    BY <1>1, <1>3
  <1> HIDE DEF rest
  <1>6. \A i \in 1..Len(rest) : i \in 1..n - m + 1
    BY <1>1, <1>3
  <1>7. \A i \in 1..Len(rest) : rest[i] = s[p + i]
    BY <1>3, <1>4, <1>6
  <1> HIDE DEF n
  <1> QED
    BY <1>3, <1>5, <1>7 DEF n, rest

LEMMA RestOfRest ==
  ASSUME NEW X, NEW s \in Seq(X), NEW p \in Nat, NEW c \in Nat
  PROVE  LET rest == SubSeq(s, p + 1, Len(s))
         IN SubSeq(rest, c + 1, Len(rest)) = SubSeq(s, p + c + 1, Len(s))
  <1> DEFINE rest == SubSeq(s, p + 1, Len(s))
             more == SubSeq(rest, c + 1, Len(rest))
             then == SubSeq(s, (p + c) + 1, Len(s))
  <1>1. /\ rest \in Seq(X)
        /\ Len(rest) = IF p < Len(s) THEN Len(s) - p ELSE 0
        /\ \A i \in 1..Len(rest) : rest[i] = s[p + i]
    BY RestIs
  <1>2. p + c \in Nat
    OBVIOUS
  <1>3. /\ then \in Seq(X)
        /\ Len(then) = IF p + c < Len(s) THEN Len(s) - (p + c) ELSE 0
        /\ \A i \in 1..Len(then) : then[i] = s[(p + c) + i]
    BY <1>2, RestIs
  <1> HIDE DEF rest
  <1>4. /\ more \in Seq(X)
        /\ Len(more) = IF c < Len(rest) THEN Len(rest) - c ELSE 0
        /\ \A i \in 1..Len(more) : more[i] = rest[c + i]
    BY <1>1, RestIs
  <1> HIDE DEF more, then
  <1>5. Len(s) \in Nat
    OBVIOUS
  <1>6. Len(more) = Len(then)
    BY <1>1, <1>3, <1>4, <1>5
  <1>7. \A i \in 1..Len(more) : more[i] = then[i]
    <2> SUFFICES ASSUME NEW i \in 1..Len(more) PROVE more[i] = then[i]
      OBVIOUS
    <2>1. c + i \in 1..Len(rest) /\ p + (c + i) = (p + c) + i
      BY <1>1, <1>4, <1>5
    <2> QED
      BY <1>1, <1>3, <1>4, <1>6, <2>1
  <1>8. more = then
    BY <1>3, <1>4, <1>6, <1>7, SeqEqual
  <1> QED
    BY <1>8 DEF more, then, rest

\* What a channel plays was made of the lump of its effect.
FromLump(ch) == ch.pcm # None => ch.pcm \in DOMAIN Pcm /\ ch.frames = OutFrames(ch.pcm)

LEMMA RestOfChannel ==
  ASSUME NEW ch \in Typed, Within(ch), FromLump(ch), ch.pcm # None
  PROVE  /\ \E X : Rest(ch) \in Seq(X)
         /\ Len(Rest(ch)) = ch.frames - ch.pos
         /\ ch.frames - ch.pos \in Nat \ {0}
         /\ \A i \in 1..ch.frames - ch.pos : Rest(ch)[i] = Pcm[ch.pcm][ch.pos + i - 1]
  <1> DEFINE e == ch.pcm
             s == Sound[e]
             p == ch.pos
             n == ch.frames
  <1>1. e \in DOMAIN Pcm /\ n = OutFrames(e) /\ p \in Nat /\ n \in Nat /\ p < n
    BY DEF FromLump, Within, Typed
  <1>2. PICK X : s \in Seq(X) /\ Len(s) = n /\ \A i \in 1..n : s[i] = Pcm[e][i - 1]
    BY <1>1, SoundIs
  <1>3. Rest(ch) = SubSeq(s, p + 1, Len(s))
    BY DEF Rest
  <1> HIDE DEF e, s, p, n
  <1> DEFINE rest == SubSeq(s, p + 1, Len(s))
  <1>4. /\ rest \in Seq(X) /\ Len(rest) = IF p < Len(s) THEN Len(s) - p ELSE 0
        /\ \A i \in 1..Len(rest) : rest[i] = s[p + i]
    BY <1>1, <1>2, RestIs
  <1> HIDE DEF rest
  <1>5. Len(rest) = n - p /\ n - p \in Nat \ {0}
    BY <1>1, <1>2, <1>4
  <1>6. ASSUME NEW i \in 1..n - p
        PROVE  rest[i] = Pcm[e][p + i - 1]
    <2> DEFINE j == p + i
    <2>1. j \in 1..n /\ p + i - 1 = j - 1
      BY <1>1
    <2>2. i \in 1..Len(rest)
      BY <1>5
    <2>3. rest[i] = s[j]
      BY <1>4, <2>2
    <2> HIDE DEF j
    <2>4. s[j] = Pcm[e][j - 1]
      BY <1>2, <2>1
    <2> QED
      BY <2>1, <2>3, <2>4
  <1>7. Rest(ch) = rest
    BY <1>3 DEF rest
  <1> QED
    BY <1>4, <1>5, <1>6, <1>7 DEF e, p, n

\* Playing a chunk of it.
AfterChunk(ch) == IF ch.pcm # None THEN Played(ch) ELSE ch
LEMMA RestAfterChunk ==
  ASSUME NEW ch \in Typed, Within(ch), FromLump(ch)
  PROVE  Rest(AfterChunk(ch)) = SubSeq(Rest(ch), CERVUS_CHUNK + 1, Len(Rest(ch)))
  <1> DEFINE C == CERVUS_CHUNK
  <1>1. C \in Nat \ {0}
    BY SoundAssumption
  <1>2. CASE ch.pcm = None
    <2>1. Rest(ch) = <<>> /\ AfterChunk(ch) = ch
      BY <1>2 DEF Rest, AfterChunk
    <2>2. SubSeq(<<>>, C + 1, 0) = <<>>
      BY <1>1, SubSeqEmpty
    <2> QED
      BY <2>1, <2>2
  <1>3. CASE ch.pcm # None
    <2> DEFINE e == ch.pcm
               s == Sound[e]
               p == ch.pos
               n == ch.frames
               after == Played(ch)
    <2>1. e \in DOMAIN Pcm /\ n = OutFrames(e) /\ p \in Nat /\ n \in Nat /\ p < n
      BY <1>3 DEF FromLump, Within, Typed
    <2>2. PICK X : s \in Seq(X) /\ Len(s) = n
      BY <2>1, SoundIs
    <2>3. Rest(ch) = SubSeq(s, p + 1, n)
      BY <1>3, <2>2 DEF Rest
    <2>4. SubSeq(Rest(ch), C + 1, Len(Rest(ch))) = SubSeq(s, p + C + 1, n)
      <3> HIDE DEF s, p, n, C
      <3> DEFINE r == SubSeq(s, p + 1, Len(s))
      <3>1. SubSeq(r, C + 1, Len(r)) = SubSeq(s, p + C + 1, Len(s))
        BY <1>1, <2>1, <2>2, RestOfRest
      <3>2. Rest(ch) = r
        BY <2>2, <2>3
      <3> HIDE DEF r
      <3> QED
        BY <2>2, <3>1, <3>2
    <2>5. AfterChunk(ch) = after
      BY <1>3 DEF AfterChunk
    <2>6. CASE n - p > C
      <3>1. Mixed(ch) = C
        BY <2>6 DEF Mixed
      <3>2. p + C < n
        BY <1>1, <2>1, <2>6
      <3>3. after.pcm = e /\ after.pos = p + C
        BY <1>1, <2>1, <3>1, <3>2 DEF Played, Typed
      <3>4. Rest(after) = SubSeq(s, p + C + 1, n)
        BY <1>3, <2>2, <3>3 DEF Rest
      <3> QED
        BY <2>4, <2>5, <3>4
    <2>7. CASE ~(n - p > C)
      <3>1. Mixed(ch) = n - p
        BY <2>7 DEF Mixed
      <3>2. p + (n - p) = n /\ n < p + C + 1 /\ p + C + 1 \in Int
        BY <1>1, <2>1, <2>7
      <3>3. after.pcm = None
        BY <2>1, <3>1, <3>2 DEF Played, Typed
      <3>4. Rest(after) = <<>>
        BY <3>3 DEF Rest
      <3>5. SubSeq(s, p + C + 1, n) = <<>>
        BY <2>1, <3>2, SubSeqEmpty
      <3> QED
        BY <2>4, <2>5, <3>4, <3>5
    <2> QED
      BY <2>6, <2>7
  <1> QED
    BY <1>2, <1>3

LEMMA OneVolume ==
  ASSUME NEW ch \in Typed, NEW p \in Settings
  PROVE  Volume(WithParams(ch, p[1], p[2])) \in Volumes
  <1>1. Idle \in Typed
    BY IdleIsTyped
  <1> DEFINE l == (Clamp(p[1], 0, 127) * (254 - Clamp(p[2], 0, 254))) \div 254
             r == (Clamp(p[1], 0, 127) * Clamp(p[2], 0, 254)) \div 254
  <1>2. \A x \in Typed : WithParams(x, p[1], p[2]) = [x EXCEPT !.left = l, !.right = r]
    BY DEF WithParams
  <1> HIDE DEF l, r
  <1>3. \A x \in Typed : Volume([x EXCEPT !.left = l, !.right = r]) = <<l, r>>
    BY DEF Volume, Typed
  <1>4. \A x \in Typed : Volume(WithParams(x, p[1], p[2])) = <<l, r>>
    BY <1>2, <1>3
  <1> QED
    BY <1>1, <1>4 DEF Volumes

\* SoundInv, and that each channel plays what was made of a lump.
MixInv == SoundInv /\ \A c \in Channels : FromLump(g_chan[c])

LEMMA MixInit == DoomInit => MixInv
  <1> SUFFICES ASSUME DoomInit PROVE MixInv
    OBVIOUS
  <1>1. SoundInv
    BY IdleIsTyped DEF DoomInit, SoundInit, SoundInv
  <1>2. FromLump(Idle)
    BY DEF FromLump, Idle
  <1>3. \A c \in Channels : g_chan[c] = Idle
    BY DEF DoomInit, SoundInit
  <1> QED
    BY <1>1, <1>2, <1>3 DEF MixInv

LEMMA MixStep == MixInv /\ [DoomNext]_doom => MixInv'
  <1> SUFFICES ASSUME MixInv, [DoomNext]_doom PROVE MixInv'
    OBVIOUS
  <1>1. SoundInv /\ \A c \in Channels : FromLump(g_chan[c])
    BY DEF MixInv
  <1>2. SoundInv'
    BY <1>1, SoundStep
  <1>3. g_chan \in [Channels -> Typed]
    BY <1>1 DEF SoundInv
  <1> SUFFICES \A c \in Channels : FromLump(g_chan'[c])
    BY <1>2 DEF MixInv
  <1>4. ASSUME NEW e \in Effects, NEW c \in Channels, NEW p \in Settings,
               I_Cervus_StartSound(e, c, p[1], p[2])
        PROVE  \A d \in Channels : FromLump(g_chan'[d])
    <2> DEFINE ch == [g_chan[c] EXCEPT !.pcm = e, !.frames = OutFrames(e), !.pos = 0]
               new == WithParams(ch, p[1], p[2])
    <2>1. e \in DOMAIN Pcm /\ OutFrames(e) \in Nat \ {0}
      BY <1>4, SomeFrames DEF I_Cervus_StartSound
    <2>2. ch \in Typed
      BY <1>3, <2>1, Restarted
    <2>3. ch.pcm = e /\ ch.frames = OutFrames(e)
      BY <1>3 DEF Typed
    <2>4. p[1] \in Int /\ p[2] \in Int
      BY SoundAssumption
    <2>5. g_chan' = [g_chan EXCEPT ![c] = new]
      BY <1>4 DEF I_Cervus_StartSound
    <2> HIDE DEF ch
    <2>6. new.pcm = e /\ new.frames = OutFrames(e)
      BY <2>2, <2>3, <2>4, Shared
    <2> HIDE DEF new
    <2> QED
      BY <1>1, <1>3, <2>1, <2>5, <2>6 DEF FromLump
  <1>5. ASSUME NEW c \in Channels, NEW p \in Settings,
               I_Cervus_UpdateSoundParams(c, p[1], p[2])
        PROVE  \A d \in Channels : FromLump(g_chan'[d])
    <2> DEFINE new == WithParams(g_chan[c], p[1], p[2])
    <2>1. p[1] \in Int /\ p[2] \in Int
      BY SoundAssumption
    <2>2. g_chan' = [g_chan EXCEPT ![c] = new]
      BY <1>5 DEF I_Cervus_UpdateSoundParams
    <2>3. new.pcm = g_chan[c].pcm /\ new.frames = g_chan[c].frames
      BY <1>3, <2>1, Shared
    <2> HIDE DEF new
    <2> QED
      BY <1>1, <1>3, <2>2, <2>3 DEF FromLump
  <1>6. ASSUME NEW c \in Channels, I_Cervus_StopSound(c)
        PROVE  \A d \in Channels : FromLump(g_chan'[d])
    BY <1>1, <1>3, <1>6 DEF I_Cervus_StopSound, FromLump, Typed
  <1>7. CASE I_Cervus_Update
    <2> SUFFICES ASSUME NEW c \in Channels PROVE FromLump(g_chan'[c])
      OBVIOUS
    <2>1. g_chan'[c] = IF I_Cervus_SoundIsPlaying(c) THEN Played(g_chan[c]) ELSE g_chan[c]
      BY <1>7 DEF I_Cervus_Update
    <2>2. /\ Played(g_chan[c]).pcm \in {None, g_chan[c].pcm}
          /\ Played(g_chan[c]).frames = g_chan[c].frames
      BY <1>3 DEF Played, Typed
    <2> QED
      BY <1>1, <2>1, <2>2 DEF FromLump
  <1>8. CASE I_Cervus_InitSound
    BY <1>1, <1>8 DEF I_Cervus_InitSound, FromLump, Idle
  <1>9. CASE UNCHANGED g_chan
    BY <1>1, <1>9
  <1>10. CASE SoundCalls
    BY <1>4, <1>5, <1>6, <1>9, <1>10 DEF SoundCalls, I_Cervus_PrecacheSounds
  <1> QED
    BY <1>7, <1>8, <1>9, <1>10
       DEF DoomNext, NoWad, DG_Init, Create, Keys, SoundCall, Mix, DG_DrawFrame, Leave, restore,
           Killed, doom, sound, I_Cervus_ShutdownSound

-----------------------------------------------------------------------------
\* The channels as the promise sees them.
rest == [c \in Channels |-> Rest(g_chan[c])]
volume == [c \in Channels |-> Volume(g_chan[c])]

\* One channel is changed.
LEMMA OneChannel ==
  ASSUME NEW c \in Channels, NEW new, g_chan \in [Channels -> Typed],
         g_chan' = [g_chan EXCEPT ![c] = new]
  PROVE  /\ rest' = [rest EXCEPT ![c] = Rest(new)]
         /\ volume' = [volume EXCEPT ![c] = Volume(new)]
  <1>1. \A d \in Channels : g_chan'[d] = IF d = c THEN new ELSE g_chan[d]
    OBVIOUS
  <1>2. \A d \in Channels : Rest(g_chan'[d]) = IF d = c THEN Rest(new) ELSE Rest(g_chan[d])
    BY <1>1
  <1>3. \A d \in Channels : Volume(g_chan'[d]) = IF d = c THEN Volume(new) ELSE Volume(g_chan[d])
    BY <1>1
  <1>4. rest' = [d \in Channels |-> Rest(g_chan'[d])] /\ volume' = [d \in Channels |-> Volume(g_chan'[d])]
    BY DEF rest, volume
  <1> QED
    BY <1>2, <1>3, <1>4 DEF rest, volume

\* The two sums are one.
LEMMA SumIs == ASSUME NEW f PROVE Promise!SumFunction(f) = SumFunction(f)
  BY Zenon DEF Promise!SumFunction, Promise!SumFunctionOnSet, Promise!FoldFunctionOnSet,
               Promise!MapThenFoldSet, SumFunction, SumFunctionOnSet, FoldFunctionOnSet,
               MapThenFoldSet

LEMMA Heard ==
  ASSUME MixInv, NEW i \in 1..CERVUS_CHUNK
  PROVE  /\ Acc(i - 1, "left") = Promise!Sum(i, 1)
         /\ Acc(i - 1, "right") = Promise!Sum(i, 2)
  <1> DEFINE mixed == {c \in Channels : I_Cervus_SoundIsPlaying(c) /\ i - 1 < Mixed(g_chan[c])}
             heard == {c \in Channels : i <= Len(rest[c])}
  <1>1. \A c \in Channels : g_chan[c] \in Typed /\ Within(g_chan[c]) /\ FromLump(g_chan[c])
    BY DEF MixInv, SoundInv
  <1>2. i \in Nat /\ i >= 1 /\ i <= CERVUS_CHUNK /\ CERVUS_CHUNK \in Nat
    BY SoundAssumption
  <1>3. ASSUME NEW c \in Channels, g_chan[c].pcm # None
        PROVE  /\ i - 1 < Mixed(g_chan[c]) <=> i <= Len(rest[c])
               /\ i <= Len(rest[c]) =>
                    rest[c][i] = Pcm[g_chan[c].pcm][g_chan[c].pos + (i - 1)]
    <2> DEFINE ch == g_chan[c]
               n == ch.frames - ch.pos
    <2>1. ch.pos \in Nat
      BY <1>1 DEF Typed
    <2>2. rest[c] = Rest(ch)
      BY DEF rest
    <2>3. /\ Len(Rest(ch)) = n /\ n \in Nat \ {0}
          /\ \A j \in 1..n : Rest(ch)[j] = Pcm[ch.pcm][ch.pos + j - 1]
      BY <1>1, <1>3, RestOfChannel
    <2>4. Mixed(ch) = IF n > CERVUS_CHUNK THEN CERVUS_CHUNK ELSE n
      BY DEF Mixed
    <2> HIDE DEF ch, n
    <2>5. i - 1 < Mixed(ch) <=> i <= n
      BY <1>2, <2>3, <2>4
    <2>6. i <= n => i \in 1..n
      BY <1>2, <2>3
    <2>7. ch.pos + i - 1 = ch.pos + (i - 1)
      BY <1>2, <2>1
    <2> QED
      BY <2>2, <2>3, <2>5, <2>6, <2>7 DEF ch
  <1>4. ASSUME NEW c \in Channels, g_chan[c].pcm = None
        PROVE  ~(i <= Len(rest[c]))
    BY <1>2, <1>4 DEF rest, Rest
  <1>5. mixed = heard
    BY <1>3, <1>4 DEF I_Cervus_SoundIsPlaying
  <1>6. ASSUME NEW c \in heard
        PROVE  rest[c][i] = Pcm[g_chan[c].pcm][g_chan[c].pos + (i - 1)]
    BY <1>3, <1>4
  <1>7. ASSUME NEW c \in Channels
        PROVE  volume[c][1] = g_chan[c]["left"] /\ volume[c][2] = g_chan[c]["right"]
    BY <1>1 DEF volume, Volume, Typed
  <1>8. \A x, v : Scaled(x, v) = Promise!Scaled(x, v)
    BY DEF Scaled, Promise!Scaled
  <1>9. ASSUME NEW side, NEW k, \A c \in Channels : volume[c][k] = g_chan[c][side]
        PROVE  Acc(i - 1, side) = Promise!Sum(i, k)
    <2> DEFINE f == [c \in mixed |->
                      Scaled(Pcm[g_chan[c].pcm][g_chan[c].pos + (i - 1)], g_chan[c][side])]
               g == [c \in heard |-> Promise!Scaled(rest[c][i], volume[c][k])]
    <2>1. f = g
      BY <1>5, <1>6, <1>8, <1>9
    <2>2. Acc(i - 1, side) = SumFunction(f)
      BY DEF Acc
    <2>3. Promise!Sum(i, k) = Promise!SumFunction(g)
      BY DEF Promise!Sum, rest, volume
    <2> HIDE DEF f, g
    <2> QED
      BY <2>1, <2>2, <2>3, SumIs
  <1> QED
    BY <1>7, <1>9

\* A step of Doom is a step of the promise, or one that it does not see.
LEMMA MixRefines == MixInv /\ [DoomNext]_doom => [Promise!Next]_Promise!vars
  <1> SUFFICES ASSUME MixInv, [DoomNext]_doom PROVE [Promise!Next]_Promise!vars
    OBVIOUS
  <1>1. g_chan \in [Channels -> Typed]
    BY DEF MixInv, SoundInv
  <1>2. \A c \in Channels : g_chan[c] \in Typed /\ Within(g_chan[c]) /\ FromLump(g_chan[c])
    BY DEF MixInv, SoundInv
  <1>3. ASSUME NEW e \in Effects, NEW c \in Channels, NEW p \in Settings,
               I_Cervus_StartSound(e, c, p[1], p[2])
        PROVE  Promise!Start(c)
    <2> DEFINE ch == [g_chan[c] EXCEPT !.pcm = e, !.frames = OutFrames(e), !.pos = 0]
               new == WithParams(ch, p[1], p[2])
    <2>1. e \in DOMAIN Pcm /\ OutFrames(e) \in Nat \ {0}
      BY <1>3, SomeFrames DEF I_Cervus_StartSound
    <2>2. ch \in Typed
      BY <1>1, <2>1, Restarted
    <2>3. ch.pcm = e /\ ch.pos = 0
      BY <1>1 DEF Typed
    <2>4. p[1] \in Int /\ p[2] \in Int
      BY SoundAssumption
    <2>5. g_chan' = [g_chan EXCEPT ![c] = new]
      BY <1>3 DEF I_Cervus_StartSound
    <2> HIDE DEF ch
    <2>6. new.pcm = e /\ new.pos = 0
      BY <2>2, <2>3, <2>4, Shared
    <2>7. Volume(new) \in Volumes
      BY <2>2, OneVolume
    <2> HIDE DEF new
    <2>8. Rest(new) = Sound[e] /\ Sound[e] \in Sounds
      <3>1. e # None
        BY SoundAssumption
      <3>2. PICK X : Sound[e] \in Seq(X)
        BY <2>1, SoundIs
      <3>3. Rest(new) = SubSeq(Sound[e], 1, Len(Sound[e]))
        BY <2>6, <3>1 DEF Rest
      <3>4. e \in DOMAIN Sound
        BY <2>1 DEF Sound
      <3> QED
        BY <3>2, <3>3, <3>4, SubSeqFull DEF Sounds
    <2>9. rest' = [rest EXCEPT ![c] = Rest(new)] /\ volume' = [volume EXCEPT ![c] = Volume(new)]
      BY <1>1, <2>5, OneChannel
    <2>10. g_open /\ UNCHANGED <<g_open, g_out>>
      BY <1>3 DEF I_Cervus_StartSound
    <2> QED
      BY <2>7, <2>8, <2>9, <2>10 DEF Promise!Start, rest, volume
  <1>4. ASSUME NEW c \in Channels, NEW p \in Settings,
               I_Cervus_UpdateSoundParams(c, p[1], p[2])
        PROVE  Promise!Turn(c)
    <2> DEFINE new == WithParams(g_chan[c], p[1], p[2])
    <2>1. p[1] \in Int /\ p[2] \in Int
      BY SoundAssumption
    <2>2. g_chan' = [g_chan EXCEPT ![c] = new]
      BY <1>4 DEF I_Cervus_UpdateSoundParams
    <2>3. new.pcm = g_chan[c].pcm /\ new.pos = g_chan[c].pos
      BY <1>1, <2>1, Shared
    <2>4. Volume(new) \in Volumes
      BY <1>1, OneVolume
    <2> HIDE DEF new
    <2>5. Rest(new) = Rest(g_chan[c])
      BY <2>3 DEF Rest
    <2>6. rest' = [rest EXCEPT ![c] = Rest(new)] /\ volume' = [volume EXCEPT ![c] = Volume(new)]
      BY <1>1, <2>2, OneChannel
    <2>7. rest' = rest
      BY <2>5, <2>6 DEF rest
    <2>8. UNCHANGED <<g_open, g_out>>
      BY <1>4 DEF I_Cervus_UpdateSoundParams
    <2> QED
      BY <2>4, <2>6, <2>7, <2>8 DEF Promise!Turn, rest, volume
  <1>5. ASSUME NEW c \in Channels, I_Cervus_StopSound(c)
        PROVE  Promise!Stop(c)
    <2> DEFINE new == [g_chan[c] EXCEPT !.pcm = None]
    <2>1. g_chan' = [g_chan EXCEPT ![c] = new]
      BY <1>1, <1>5 DEF I_Cervus_StopSound
    <2>2. new.pcm = None /\ Volume(new) = Volume(g_chan[c])
      BY <1>1 DEF Volume, Typed
    <2> HIDE DEF new
    <2>3. Rest(new) = <<>>
      BY <2>2 DEF Rest
    <2>4. rest' = [rest EXCEPT ![c] = Rest(new)] /\ volume' = [volume EXCEPT ![c] = Volume(new)]
      BY <1>1, <2>1, OneChannel
    <2>5. volume' = volume
      BY <2>2, <2>4 DEF volume
    <2>6. UNCHANGED <<g_open, g_out>>
      BY <1>5 DEF I_Cervus_StopSound
    <2> QED
      BY <2>3, <2>4, <2>5, <2>6 DEF Promise!Stop, rest, volume
  <1>6. CASE I_Cervus_Update
    <2>1. \A c \in Channels : g_chan'[c] = AfterChunk(g_chan[c])
      BY <1>6 DEF I_Cervus_Update, AfterChunk, I_Cervus_SoundIsPlaying
    <2>2. rest' = [c \in Channels |-> SubSeq(rest[c], CERVUS_CHUNK + 1, Len(rest[c]))]
      <3>1. \A c \in Channels :
              Rest(g_chan'[c]) = SubSeq(Rest(g_chan[c]), CERVUS_CHUNK + 1, Len(Rest(g_chan[c])))
        BY <1>2, <2>1, RestAfterChunk
      <3> QED
        BY <3>1 DEF rest
    <2>3. volume' = volume
      <3>1. \A c \in Channels : Volume(g_chan'[c]) = Volume(g_chan[c])
        BY <1>2, <2>1 DEF AfterChunk, Played, Volume, Typed
      <3> QED
        BY <3>1 DEF volume
    <2>4. rest # Promise!Quiet
      <3>1. PICK c \in Channels : g_chan[c].pcm # None
        BY <1>6 DEF I_Cervus_Update, I_Cervus_SoundIsPlaying
      <3>2. Len(rest[c]) # 0
        BY <1>2, <3>1, RestOfChannel DEF rest
      <3> QED
        BY <3>2 DEF Promise!Quiet
    <2>5. g_out' = [i \in 1..CERVUS_CHUNK |->
                      <<Promise!Nearest(Promise!Sum(i, 1)), Promise!Nearest(Promise!Sum(i, 2))>>]
      <3>1. \A x : Clamp(x, -OUT_MAX - 1, OUT_MAX) = Promise!Nearest(x)
        BY DEF Clamp, Promise!Nearest
      <3>2. g_out' = [i \in 1..CERVUS_CHUNK |->
                        <<Clamp(Acc(i - 1, "left"), -OUT_MAX - 1, OUT_MAX),
                          Clamp(Acc(i - 1, "right"), -OUT_MAX - 1, OUT_MAX)>>]
        BY <1>6 DEF I_Cervus_Update
      <3>3. \A i \in 1..CERVUS_CHUNK :
              Acc(i - 1, "left") = Promise!Sum(i, 1) /\ Acc(i - 1, "right") = Promise!Sum(i, 2)
        BY Heard
      <3> QED
        BY <3>1, <3>2, <3>3
    <2>6. g_open /\ g_open' = g_open
      BY <1>6 DEF I_Cervus_Update
    <2> QED
      BY <2>2, <2>3, <2>4, <2>5, <2>6 DEF Promise!Next, Promise!Play, rest, volume
  <1>7. CASE UNCHANGED <<g_open, g_chan, g_out>>
    BY <1>7 DEF Promise!vars
  <1>8. CASE I_Cervus_InitSound
    <2>1. CASE g_open' = TRUE /\ g_chan' = [c \in Channels |-> Idle]
      <3>1. Rest(Idle) = <<>> /\ Volume(Idle) = <<0, 0>>
        BY DEF Rest, Volume, Idle
      <3>2. \A c \in Channels : Rest(g_chan'[c]) = <<>> /\ Volume(g_chan'[c]) = <<0, 0>>
        BY <2>1, <3>1
      <3>3. rest' = Promise!Quiet /\ volume' = [c \in Channels |-> <<0, 0>>]
        BY <3>2 DEF rest, volume, Promise!Quiet
      <3>4. g_out' = g_out
        BY <1>8 DEF I_Cervus_InitSound
      <3> QED
        BY <2>1, <3>3, <3>4 DEF Promise!Next, Promise!Open, rest, volume
    <2> QED
      BY <1>7, <1>8, <2>1 DEF I_Cervus_InitSound
  <1>9. CASE I_Cervus_ShutdownSound
    <2>1. g_open' = FALSE /\ g_chan' = g_chan /\ g_out' = g_out
      BY <1>9 DEF I_Cervus_ShutdownSound
    <2> QED
      BY <2>1 DEF Promise!Next, Promise!Close
  <1>10. CASE SoundCalls
    <2>1. CASE I_Cervus_PrecacheSounds
      BY <1>7, <2>1 DEF I_Cervus_PrecacheSounds
    <2>2. CASE \E c \in Channels : Promise!Start(c) \/ Promise!Turn(c) \/ Promise!Stop(c)
      BY <2>2 DEF Promise!Next
    <2> QED
      BY <1>3, <1>4, <1>5, <1>10, <2>1, <2>2 DEF SoundCalls
  <1> QED
    BY <1>6, <1>7, <1>8, <1>9, <1>10
       DEF DoomNext, NoWad, DG_Init, Create, Keys, SoundCall, Mix, DG_DrawFrame, Leave, restore,
           Killed, doom, sound

\* ImplementsMixer for every lump, rate, chunk and number of channels: the samples that
\* I_Cervus_Update adds up are those of the rest of each sound, at the time at which
\* its lump holds them (i_cervussound.c:41-90, 118-180).
THEOREM MixerIsPromised == DoomSpec => ImplementsMixer
  <1>1. DoomInit => Promise!Init
    <2> SUFFICES ASSUME DoomInit PROVE Promise!Init
      OBVIOUS
    <2>1. Rest(Idle) = <<>> /\ Volume(Idle) = <<0, 0>>
      BY DEF Rest, Volume, Idle
    <2>2. \A c \in Channels : g_chan[c] = Idle
      BY DEF DoomInit, SoundInit
    <2>3. g_open = FALSE /\ g_out = [i \in 1..CERVUS_CHUNK |-> <<0, 0>>]
      BY DEF DoomInit, SoundInit
    <2> QED
      BY <2>1, <2>2, <2>3 DEF Promise!Init, Promise!Quiet, Promise!Silence
  <1> QED
    BY <1>1, MixInit, MixStep, MixRefines, PTL DEF DoomSpec, ImplementsMixer, Promise!Spec
=============================================================================
