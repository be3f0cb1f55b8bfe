-------------------------- MODULE DoomInputProofs --------------------------
(***************************************************************************)
(* Doom's input keeps its types, never leaves a key stuck, and holds down  *)
(* what the user holds only, for every keyboard, mapping of keys and size   *)
(* of the queue, and wherever the focus of a window comes and goes.         *)
(***************************************************************************)
EXTENDS DoomInput, SequenceTheorems, TLAPS

\* The fields of a report.
LEMMA ReportFields ==
  ASSUME NEW e \in Report
  PROVE  /\ e.type = "key" => e.code \in Codes /\ e.value \in 0..2
         /\ e.type = "button" => e.code \in Buttons
         /\ e.type = "wheel" => e.code \in WheelBits
         /\ e.type = "char" => e.code \in Chars
BY DEF Report

\* A queued event leaves the queue within its bound.
LEMMA QueuedType ==
  ASSUME NEW q \in Seq(KeyEvent), Len(q) <= KQ_SIZE - 1, NEW b \in BOOLEAN, NEW k \in Keys
  PROVE  Queued(q, b, k) \in Seq(KeyEvent) /\ Len(Queued(q, b, k)) <= KQ_SIZE - 1
  <1>1. [pressed |-> b, key |-> k] \in KeyEvent
    BY DEF KeyEvent
  <1>2. Len(q) \in Nat
    BY LenProperties
  <1> QED
    BY <1>1, <1>2, SizeAssumption, AppendProperties DEF Queued, HasRoom

\* What a code or a character means is a key, or nothing.
LEMMA MeaningType ==
  ASSUME NEW c \in Codes \cup Chars
  PROVE  Meaning(c) \in Keys \cup {None}
BY KeyAssumption DEF Meaning

\* The three ways of queueing a key keep the types of what they change.
KeyTypes ==
  /\ queue \in Seq(KeyEvent) /\ Len(queue) <= KQ_SIZE - 1
  /\ g_sent \in [Codes -> Keys \cup {None}] /\ lost \subseteq Keys

\* A release keeps them ...
LEMMA KeyUpType ==
  ASSUME KeyTypes, NEW c \in Codes, KeyUp(c)
  PROVE  KeyTypes'
  <1>1. CASE g_sent[c] = None
    BY <1>1 DEF KeyUp, KeyTypes
  <1>2. CASE g_sent[c] # None
    <2>1. SentAs(c) \in Keys
      BY <1>2 DEF SentAs, KeyTypes
    <2> QED
      BY <1>2, <2>1, QueuedType DEF KeyUp, KeyTypes
  <1> QED
    BY <1>1, <1>2

\* ... so does a press ...
LEMMA KeyDownType ==
  ASSUME KeyTypes, NEW c \in Codes, KeyDown(c)
  PROVE  KeyTypes'
  <1>1. CASE g_sent[c] # None \/ Meaning(c) = None
    BY <1>1 DEF KeyDown, KeyTypes
  <1>2. CASE ~(g_sent[c] # None \/ Meaning(c) = None)
    <2>1. Meaning(c) \in Keys
      BY <1>2, MeaningType
    <2> QED
      BY <1>2, <2>1, QueuedType DEF KeyDown, KeyTypes
  <1> QED
    BY <1>1, <1>2

\* ... and a character from a terminal.
LEMMA TypedType ==
  ASSUME KeyTypes, NEW c \in Chars, Typed(c)
  PROVE  KeyTypes'
  <1>1. CASE Meaning(c) = None
    BY <1>1 DEF Typed, KeyTypes
  <1>2. CASE Meaning(c) # None
    <2>1. Meaning(c) \in Keys
      BY <1>2, MeaningType
    <2>2. PICK q : q = Queued(queue, TRUE, Meaning(c))
      OBVIOUS
    <2>3. q \in Seq(KeyEvent) /\ Len(q) <= KQ_SIZE - 1
      BY <2>1, <2>2, QueuedType DEF KeyTypes
    <2> QED
      BY <1>2, <2>1, <2>2, <2>3, QueuedType DEF Typed, KeyTypes
  <1> QED
    BY <1>1, <1>2
-----------------------------------------------------------------------------
\* The initial state is well typed.
LEMMA TypeInit == Init => TypeOK
  <1> SUFFICES ASSUME Init PROVE TypeOK
    OBVIOUS
  <1>1. queue \in Seq(KeyEvent) /\ Len(queue) = 0 /\ dev \in Seq(Report)
    BY EmptySeq DEF Init
  <1>2. Len(queue) <= KQ_SIZE - 1
    BY <1>1, SizeAssumption
  <1>3. g_sent \in [Codes -> Keys \cup {None}]
    BY DEF Init
  <1> QED
    BY <1>1, <1>2, <1>3 DEF Init, TypeOK

\* Dealing with a report keeps the types.
LEMMA HandleType == TypeOK /\ Handle => TypeOK'
  <1> SUFFICES ASSUME TypeOK, Handle PROVE TypeOK'
    OBVIOUS
  <1>1. PICK e \in Report : e = Head(dev)
    BY HeadTailProperties DEF Handle, TypeOK
  <1>2. dev' \in Seq(Report)
    BY HeadTailProperties DEF Handle, TypeOK
  <1>3. KeyTypes
    BY DEF TypeOK, KeyTypes
  <1>4. KeyTypes'
    <2>1. CASE e.type = "key"
      <3>1. CASE KeyUp(e.code)
        BY <2>1, <3>1, <1>3, KeyUpType, ReportFields
      <3>2. CASE KeyDown(e.code)
        BY <2>1, <3>2, <1>3, KeyDownType, ReportFields
      <3>3. CASE UNCHANGED keys
        BY <3>3, <1>3 DEF keys, KeyTypes
      <3> QED
        BY <1>1, <2>1, <3>1, <3>2, <3>3 DEF Handle
    <2>2. CASE e.type = "char"
      <3>1. Typed(e.code)
        BY <1>1, <2>2 DEF Handle
      <3> QED
        BY <2>2, <3>1, <1>3, TypedType, ReportFields
    <2>3. CASE e.type \notin {"key", "char"}
      <3>1. UNCHANGED keys
        BY <1>1, <2>3 DEF Handle
      <3> QED
        BY <3>1, <1>3 DEF keys, KeyTypes
    <2> QED
      BY <2>1, <2>2, <2>3
  <1>5. /\ phase' \in {"game", "drain", "release", "quit"}
        /\ g_focused' \in BOOLEAN /\ moved' \in BOOLEAN
    BY <1>1 DEF Handle, TypeOK
  <1>6. g_buttons' \subseteq Buttons /\ told' \subseteq Buttons \cup WheelBits
    <2>1. CASE e.type = "button"
      BY <1>1, <2>1, ReportFields DEF Handle, button_event, TypeOK
    <2>2. CASE e.type = "wheel"
      BY <1>1, <2>2 DEF Handle, TypeOK, WheelTurned
    <2>3. CASE e.type \notin {"button", "wheel"}
      BY <1>1, <2>3 DEF Handle, TypeOK
    <2> QED
      BY <2>1, <2>2, <2>3
  <1>7. UNCHANGED <<source, g_grabbed, in_game, down, held, focus, events>>
    BY DEF Handle
  <1> QED
    BY <1>2, <1>4, <1>5, <1>6, <1>7 DEF TypeOK, KeyTypes

\* What happens to the window is reported as such.
LEMMA WindowReports ==
  /\ \A v \in 0..1 : [type |-> "focus", value |-> v] \in Report
  /\ [type |-> "close"] \in Report
BY DEF Report

\* What the user does keeps the types: a report joins those that wait.
LEMMA ActType == TypeOK /\ Act => TypeOK'
  <1> SUFFICES ASSUME TypeOK, Act PROVE TypeOK'
    OBVIOUS
  <1>1. /\ UNCHANGED <<mine, source, in_game, down, told, lost>>
        /\ \E e \in Report : Reports(e)
        /\ held' \subseteq Codes \cup Buttons /\ focus' \in BOOLEAN
    <2>1. CASE Press /\ UNCHANGED focus
      <3>1. CASE \E c \in Codes : /\ held' = held \cup {c}
                                 /\ Reports([type |-> "key", code |-> c, value |-> 1])
        <4>1. PICK c \in Codes : /\ held' = held \cup {c}
                               /\ Reports([type |-> "key", code |-> c, value |-> 1])
          BY <3>1
        <4>2. PICK e : e = [type |-> "key", code |-> c, value |-> 1]
          OBVIOUS
        <4>3. e \in Report /\ Reports(e)
          <5>1. e \in Report
            BY <4>2 DEF Report
          <5>2. Reports(e)
            BY <4>1, <4>2
          <5> QED
            BY <5>1, <5>2
        <4> QED
          BY <2>1, <4>1, <4>3 DEF Reports, TypeOK
      <3>2. CASE \E b \in Buttons : /\ held' = held \cup {b}
                                   /\ Reports([type |-> "button", code |-> b, value |-> 1])
        <4>1. PICK b \in Buttons : /\ held' = held \cup {b}
                               /\ Reports([type |-> "button", code |-> b, value |-> 1])
          BY <3>2
        <4>2. PICK e : e = [type |-> "button", code |-> b, value |-> 1]
          OBVIOUS
        <4>3. e \in Report /\ Reports(e)
          <5>1. e \in Report
            BY <4>2 DEF Report
          <5>2. Reports(e)
            BY <4>1, <4>2
          <5> QED
            BY <5>1, <5>2
        <4> QED
          BY <2>1, <4>1, <4>3 DEF Reports, TypeOK
      <3> QED
        BY <2>1, <3>1, <3>2 DEF Press
    <2>2. CASE Release /\ UNCHANGED focus
      <3>1. CASE \E c \in Codes : /\ held' = held \ {c}
                                 /\ Reports([type |-> "key", code |-> c, value |-> 0])
        <4>1. PICK c \in Codes : /\ held' = held \ {c}
                               /\ Reports([type |-> "key", code |-> c, value |-> 0])
          BY <3>1
        <4>2. PICK e : e = [type |-> "key", code |-> c, value |-> 0]
          OBVIOUS
        <4>3. e \in Report /\ Reports(e)
          <5>1. e \in Report
            BY <4>2 DEF Report
          <5>2. Reports(e)
            BY <4>1, <4>2
          <5> QED
            BY <5>1, <5>2
        <4> QED
          BY <2>2, <4>1, <4>3 DEF Reports, TypeOK
      <3>2. CASE \E b \in Buttons : /\ held' = held \ {b}
                                   /\ Reports([type |-> "button", code |-> b, value |-> 0])
        <4>1. PICK b \in Buttons : /\ held' = held \ {b}
                               /\ Reports([type |-> "button", code |-> b, value |-> 0])
          BY <3>2
        <4>2. PICK e : e = [type |-> "button", code |-> b, value |-> 0]
          OBVIOUS
        <4>3. e \in Report /\ Reports(e)
          <5>1. e \in Report
            BY <4>2 DEF Report
          <5>2. Reports(e)
            BY <4>1, <4>2
          <5> QED
            BY <5>1, <5>2
        <4> QED
          BY <2>2, <4>1, <4>3 DEF Reports, TypeOK
      <3> QED
        BY <2>2, <3>1, <3>2 DEF Release
    <2>3. CASE Repeat /\ UNCHANGED focus
      BY <2>3 DEF Repeat, Reports, Report, TypeOK
    <2>4. CASE Point /\ UNCHANGED focus
      BY <2>4 DEF Point, Reports, Report, TypeOK
    <2>5. CASE Type /\ UNCHANGED focus
      BY <2>5 DEF Type, Reports, Report, TypeOK
    <2>6. CASE Window
      <3>1. CASE focus' = ~focus /\ Reports([type |-> "focus", value |-> IF focus THEN 0 ELSE 1])
        <4>1. [type |-> "focus", value |-> IF focus THEN 0 ELSE 1] \in Report
          BY WindowReports
        <4>2. focus' \in BOOLEAN
          BY <3>1 DEF TypeOK
        <4>3. \E e \in Report : Reports(e)
          BY <3>1, <4>1
        <4>4. held' = held /\ UNCHANGED <<mine, source, in_game, down, told, lost>>
          BY <2>6, <3>1 DEF Window, Reports
        <4> QED
          BY <4>2, <4>3, <4>4 DEF TypeOK
      <3>2. CASE UNCHANGED focus /\ Reports([type |-> "close"])
        BY <2>6, <3>2, WindowReports DEF Window, Reports, TypeOK
      <3> QED
        BY <2>6, <3>1, <3>2 DEF Window
    <2> QED
      BY <2>1, <2>2, <2>3, <2>4, <2>5, <2>6 DEF Act
  <1>2. PICK e \in Report : Reports(e)
    BY <1>1
  <1>3. dev' \in Seq(Report) /\ events' \in Nat
    BY <1>2, AppendProperties DEF Reports, TypeOK
  <1> QED
    BY <1>1, <1>3 DEF TypeOK, mine

\* Every step keeps the types.
LEMMA TypeStep == TypeOK /\ [Next]_vars => TypeOK'
  <1> SUFFICES ASSUME TypeOK, [Next]_vars PROVE TypeOK'
    OBVIOUS
  <1>1. CASE Handle
    BY <1>1, HandleType
  <1>2. CASE ReleaseNext
    <2>1. PICK c \in Codes : KeyUp(c)
      BY <1>2 DEF ReleaseNext
    <2>2. KeyTypes'
      BY <2>1, KeyUpType DEF TypeOK, KeyTypes
    <2> QED
      BY <1>2, <2>2 DEF ReleaseNext, TypeOK, KeyTypes, user
  <1>3. CASE ReleaseButtons
    BY <1>3 DEF ReleaseButtons, TypeOK, keys, user
  <1>4. CASE EndDrain
    BY <1>4 DEF EndDrain, motion_event, WantsPointer, TypeOK, keys, user
  <1>5. CASE StartDrain
    BY <1>5 DEF StartDrain, TypeOK, keys, user
  <1>6. CASE DG_GetKey
    <2>1. /\ queue' \in Seq(KeyEvent) /\ Head(queue) \in KeyEvent
          /\ Len(queue') = Len(queue) - 1 /\ Len(queue) \in Nat
      BY <1>6, HeadTailProperties, LenProperties DEF DG_GetKey, TypeOK
    <2>2. Len(queue') <= KQ_SIZE - 1
      BY <2>1, SizeAssumption DEF TypeOK
    <2>3. down' \subseteq Keys
      BY <1>6, <2>1 DEF DG_GetKey, TypeOK, KeyEvent
    <2> QED
      BY <1>6, <2>1, <2>2, <2>3 DEF DG_GetKey, TypeOK, user
  <1>7. CASE Turn
    BY <1>7 DEF Turn, TypeOK, mine, user
  <1>8. CASE Act
    BY <1>8, ActType
  <1>9. CASE UNCHANGED vars
    BY <1>9 DEF vars, mine, user, TypeOK
  <1> QED
    BY <1>1, <1>2, <1>3, <1>4, <1>5, <1>6, <1>7, <1>8, <1>9 DEF Next, Work

\* Every variable keeps its type, and the queue its bound, for every keyboard,
\* mapping of keys and size of the queue (lines 130-163).
THEOREM TypeCorrect == Spec => []TypeOK
  BY TypeInit, TypeStep, PTL DEF Spec
-----------------------------------------------------------------------------
\* The last event of a key decides whether it is down in the end.
LEMMA AppendDown ==
  ASSUME NEW d, NEW q \in Seq(KeyEvent), NEW e \in KeyEvent, NEW k
  PROVE  DownAfter(d, Append(q, e), k) <=> IF e.key = k THEN e.pressed ELSE DownAfter(d, q, k)
  <1>1. PICK n \in Nat : n = Len(q)
    BY LenProperties
  <1>2. PICK r : r = Append(q, e)
    OBVIOUS
  <1>3. Len(r) = n + 1 /\ r[n + 1] = e /\ \A i \in 1..n : r[i] = q[i]
    BY <1>1, <1>2, AppendProperties
  <1>4. CASE e.key = k
    <2>1. ~(\A i \in 1..Len(r) : r[i].key # k)
      BY <1>3, <1>4
    <2>2. \A i \in 1..n : ~(\A j \in i + 1..Len(r) : r[j].key # k)
      BY <1>3, <1>4
    <2>3. \A j \in (n + 1) + 1..Len(r) : r[j].key # k
      BY <1>3
    <2>4. (\E i \in 1..Len(r) : /\ r[i].pressed /\ r[i].key = k
                                /\ \A j \in i + 1..Len(r) : r[j].key # k)
          <=> e.pressed
      <3>1. \A i \in 1..Len(r) : i = n + 1 \/ i \in 1..n
        BY <1>3
      <3>2. n + 1 \in 1..Len(r)
        BY <1>3
      <3> QED
        BY <1>3, <1>4, <2>2, <2>3, <3>1, <3>2
    <2> QED
      BY <1>2, <1>4, <2>1, <2>4 DEF DownAfter
  <1>5. CASE e.key # k
    <2>1. (\A i \in 1..Len(r) : r[i].key # k) <=> (\A i \in 1..n : q[i].key # k)
      BY <1>3, <1>5
    <2>2. \A i \in 1..n : (\A j \in i + 1..Len(r) : r[j].key # k)
                            <=> (\A j \in i + 1..n : q[j].key # k)
      <3>1. \A i \in 1..n : \A j \in i + 1..n + 1 : j = n + 1 \/ (j \in 1..n /\ j \in i + 1..n)
        OBVIOUS
      <3>2. \A i \in 1..n : \A j \in i + 1..n : j \in 1..n /\ j \in i + 1..n + 1
        OBVIOUS
      <3> QED
        BY <1>3, <1>5, <3>1, <3>2
    <2>3. (\E i \in 1..Len(r) : /\ r[i].pressed /\ r[i].key = k
                                /\ \A j \in i + 1..Len(r) : r[j].key # k)
          <=> (\E i \in 1..n : /\ q[i].pressed /\ q[i].key = k
                               /\ \A j \in i + 1..n : q[j].key # k)
      <3>1. \A i \in 1..Len(r) : i = n + 1 \/ i \in 1..n
        BY <1>3
      <3>2. \A i \in 1..n : i \in 1..Len(r)
        BY <1>3
      <3> QED
        BY <1>3, <1>5, <2>2, <3>1, <3>2
    <2> QED
      BY <1>1, <1>2, <1>5, <2>1, <2>3 DEF DownAfter
  <1> QED
    BY <1>4, <1>5

\* Taking the first event changes what is down, not what will be.
LEMMA TakeDown ==
  ASSUME NEW d, NEW q \in Seq(KeyEvent), q # <<>>, NEW k,
         NEW t, t = IF Head(q).pressed THEN d \cup {Head(q).key} ELSE d \ {Head(q).key}
  PROVE  DownAfter(t, Tail(q), k) => DownAfter(d, q, k)
  <1>1. PICK n \in Nat : n = Len(q) /\ n > 0
    BY EmptySeq, LenProperties
  <1>2. PICK r : r = Tail(q)
    OBVIOUS
  <1>3. /\ Len(r) = n - 1 /\ Head(q) = q[1]
        /\ \A i \in 1..n - 1 : r[i] = q[i + 1]
    BY <1>1, <1>2, HeadTailProperties
  <1>4. ASSUME \A i \in 1..Len(r) : r[i].key # k
        PROVE  \A j \in 2..n : q[j].key # k
    <2>1. SUFFICES ASSUME NEW j \in 2..n PROVE q[j].key # k
      OBVIOUS
    <2>2. PICK i \in 1..n - 1 : j = i + 1
      OBVIOUS
    <2> QED
      BY <1>3, <1>4, <2>2
  <1>5. CASE k \in t /\ \A i \in 1..Len(r) : r[i].key # k
    <2>1. \A j \in 2..n : q[j].key # k
      BY <1>4, <1>5
    <2>2. CASE q[1].key = k
      <3>1. q[1].pressed
        BY <1>3, <1>5, <2>2
      <3>2. \A j \in 1 + 1..n : q[j].key # k
        BY <2>1
      <3> QED
        BY <1>1, <2>2, <3>1, <3>2 DEF DownAfter
    <2>3. CASE q[1].key # k
      <3>1. k \in d
        BY <1>3, <1>5, <2>3
      <3>2. \A i \in 1..n : i = 1 \/ i \in 2..n
        OBVIOUS
      <3> QED
        BY <1>1, <2>1, <2>3, <3>1, <3>2 DEF DownAfter
    <2> QED
      BY <2>2, <2>3
  <1>6. ASSUME NEW i \in 1..Len(r), r[i].pressed, r[i].key = k,
               \A j \in i + 1..Len(r) : r[j].key # k
        PROVE  DownAfter(d, q, k)
    <2>1. i + 1 \in 1..n /\ q[i + 1] = r[i]
      BY <1>3, <1>6
    <2>3. ASSUME NEW j \in (i + 1) + 1..n PROVE q[j].key # k
      <3>1. PICK m \in i + 1..n - 1 : j = m + 1
        BY <1>3
      <3>2. m \in 1..n - 1 /\ m \in i + 1..Len(r)
        BY <1>3
      <3> QED
        BY <1>3, <1>6, <3>1, <3>2
    <2> QED
      BY <1>1, <1>6, <2>1, <2>3 DEF DownAfter
  <1> QED
    BY <1>2, <1>5, <1>6 DEF DownAfter

\* What is queued decides for its key, when there is room for it.
LEMMA QueuedDown ==
  ASSUME NEW d, NEW q \in Seq(KeyEvent), NEW b \in BOOLEAN, NEW j \in Keys, NEW k
  PROVE  DownAfter(d, Queued(q, b, j), k) <=>
           IF HasRoom(q) /\ j = k THEN b ELSE DownAfter(d, q, k)
  <1>1. PICK e \in KeyEvent : e = [pressed |-> b, key |-> j]
    BY DEF KeyEvent
  <1>2. e.key = j /\ (e.pressed <=> b)
    BY <1>1
  <1>3. CASE HasRoom(q)
    <2>1. Queued(q, b, j) = Append(q, e)
      BY <1>1, <1>3 DEF Queued
    <2> QED
      BY <1>2, <1>3, <2>1, AppendDown
  <1>4. CASE ~HasRoom(q)
    BY <1>4 DEF Queued
  <1> QED
    BY <1>3, <1>4

\* A release takes its key up, or the key is lost.
LEMMA KeyUpUnsticks ==
  ASSUME TypeOK, NoStuckKey, NEW c \in Codes, KeyUp(c), UNCHANGED down
  PROVE  NoStuckKey'
  <1>1. CASE g_sent[c] = None
    BY <1>1 DEF KeyUp, NoStuckKey
  <1>2. CASE g_sent[c] # None
    <2>1. PICK j \in Keys : j = g_sent[c]
      BY <1>2 DEF TypeOK
    <2>2. /\ queue' = Queued(queue, FALSE, j)
          /\ g_sent' = [g_sent EXCEPT ![c] = None]
          /\ lost' = IF HasRoom(queue) THEN lost \ {j} ELSE lost \cup {j}
      BY <1>2, <2>1 DEF KeyUp, SentAs
    <2>3. SUFFICES ASSUME NEW k \in Keys, DownAfter(down, queue, k)'
                   PROVE  k \in lost' \/ \E b \in Codes : g_sent'[b] = k
      BY DEF NoStuckKey
    <2>4. IF HasRoom(queue) /\ j = k THEN FALSE ELSE DownAfter(down, queue, k)
      <3>1. DownAfter(down, Queued(queue, FALSE, j), k)
        BY <2>2, <2>3 DEF DownAfter
      <3> QED
        BY <3>1, QueuedDown DEF TypeOK
    <2>5. CASE j = k
      BY <2>2, <2>4, <2>5
    <2>6. CASE j # k
      <3>1. k \in lost \/ \E b \in Codes : g_sent[b] = k
        BY <2>4, <2>6 DEF NoStuckKey
      <3>2. \A b \in Codes : g_sent[b] = k => g_sent'[b] = k
        BY <2>1, <2>2, <2>6 DEF TypeOK
      <3> QED
        BY <2>2, <2>6, <3>1, <3>2
    <2> QED
      BY <2>5, <2>6
  <1> QED
    BY <1>1, <1>2

\* A press is remembered as what it was sent as.
LEMMA KeyDownRemembered ==
  ASSUME TypeOK, NoStuckKey, NEW c \in Codes, KeyDown(c), UNCHANGED down
  PROVE  NoStuckKey'
  <1>1. CASE g_sent[c] # None \/ Meaning(c) = None
    BY <1>1 DEF KeyDown, NoStuckKey
  <1>2. CASE ~(g_sent[c] # None \/ Meaning(c) = None)
    <2>1. PICK j \in Keys : j = Meaning(c)
      BY <1>2, MeaningType
    <2>2. /\ queue' = Queued(queue, TRUE, j) /\ lost' = lost
          /\ g_sent' = [g_sent EXCEPT ![c] = j]
      BY <1>2, <2>1 DEF KeyDown
    <2>3. SUFFICES ASSUME NEW k \in Keys, DownAfter(down, queue, k)'
                   PROVE  k \in lost' \/ \E b \in Codes : g_sent'[b] = k
      BY DEF NoStuckKey
    <2>4. IF HasRoom(queue) /\ j = k THEN TRUE ELSE DownAfter(down, queue, k)
      <3>1. DownAfter(down, Queued(queue, TRUE, j), k)
        BY <2>2, <2>3 DEF DownAfter
      <3> QED
        BY <3>1, QueuedDown DEF TypeOK
    <2>5. CASE j = k
      BY <2>2, <2>5 DEF TypeOK
    <2>6. CASE j # k
      <3>1. k \in lost \/ \E b \in Codes : g_sent[b] = k
        BY <2>4, <2>6 DEF NoStuckKey
      <3>2. \A b \in Codes : g_sent[b] = k => g_sent'[b] = k
        BY <1>2, <2>2, KeyAssumption DEF TypeOK
      <3> QED
        BY <2>2, <3>1, <3>2
    <2> QED
      BY <2>5, <2>6
  <1> QED
    BY <1>1, <1>2

\* A typed character is up again, or its key is lost.
LEMMA TypedUnsticks ==
  ASSUME TypeOK, NoStuckKey, NEW c \in Chars, Typed(c), UNCHANGED down
  PROVE  NoStuckKey'
  <1>1. CASE Meaning(c) = None
    BY <1>1 DEF Typed, NoStuckKey
  <1>2. CASE Meaning(c) # None
    <2>1. PICK j \in Keys : j = Meaning(c)
      BY <1>2, MeaningType
    <2>2. PICK q : q = Queued(queue, TRUE, j)
      OBVIOUS
    <2>3. /\ queue' = Queued(q, FALSE, j) /\ g_sent' = g_sent
          /\ lost' = IF HasRoom(q) THEN lost \ {j} ELSE lost \cup {j}
      BY <1>2, <2>1, <2>2 DEF Typed
    <2>4. q \in Seq(KeyEvent)
      BY <2>2, QueuedType DEF TypeOK
    <2>5. SUFFICES ASSUME NEW k \in Keys, DownAfter(down, queue, k)'
                   PROVE  k \in lost' \/ \E b \in Codes : g_sent'[b] = k
      BY DEF NoStuckKey
    <2>6. IF HasRoom(q) /\ j = k THEN FALSE ELSE DownAfter(down, q, k)
      <3>1. DownAfter(down, Queued(q, FALSE, j), k)
        BY <2>3, <2>5 DEF DownAfter
      <3> QED
        BY <3>1, <2>4, QueuedDown
    <2>7. CASE j = k
      BY <2>3, <2>6, <2>7
    <2>8. CASE j # k
      <3>1. DownAfter(down, queue, k)
        BY <2>2, <2>6, <2>8, QueuedDown DEF TypeOK
      <3>2. k \in lost \/ \E b \in Codes : g_sent[b] = k
        BY <3>1 DEF NoStuckKey
      <3> QED
        BY <2>3, <2>8, <3>2
    <2> QED
      BY <2>7, <2>8
  <1> QED
    BY <1>1, <1>2

\* No step of the program, or of the user, leaves a key stuck.
LEMMA StuckStep == TypeOK /\ NoStuckKey /\ [Next]_vars => NoStuckKey'
  <1> SUFFICES ASSUME TypeOK, NoStuckKey, [Next]_vars PROVE NoStuckKey'
    OBVIOUS
  <1>0. ASSUME UNCHANGED <<down, queue, g_sent, lost>> PROVE NoStuckKey'
    BY <1>0 DEF NoStuckKey, DownAfter
  <1>1. CASE Handle
    <2>1. PICK e \in Report : e = Head(dev)
      BY <1>1, HeadTailProperties DEF Handle, TypeOK
    <2>2. UNCHANGED down
      BY <1>1 DEF Handle
    <2>3. \/ e.type = "key" /\ KeyUp(e.code)
          \/ e.type = "key" /\ KeyDown(e.code)
          \/ e.type = "char" /\ Typed(e.code)
          \/ UNCHANGED keys
      BY <1>1, <2>1 DEF Handle
    <2>4. CASE e.type = "key" /\ KeyUp(e.code)
      BY <2>2, <2>4, KeyUpUnsticks, ReportFields
    <2>5. CASE e.type = "key" /\ KeyDown(e.code)
      BY <2>2, <2>5, KeyDownRemembered, ReportFields
    <2>6. CASE e.type = "char" /\ Typed(e.code)
      BY <2>2, <2>6, TypedUnsticks, ReportFields
    <2>7. CASE UNCHANGED keys
      BY <1>0, <2>2, <2>7 DEF keys
    <2> QED
      BY <2>3, <2>4, <2>5, <2>6, <2>7
  <1>2. CASE ReleaseNext
    BY <1>2, KeyUpUnsticks DEF ReleaseNext
  <1>3. CASE ReleaseButtons \/ EndDrain \/ StartDrain
    BY <1>0, <1>3 DEF ReleaseButtons, EndDrain, StartDrain, keys
  <1>4. CASE DG_GetKey
    <2>1. PICK t : t = IF Head(queue).pressed THEN down \cup {Head(queue).key}
                       ELSE down \ {Head(queue).key}
      OBVIOUS
    <2>2. down' = t /\ queue' = Tail(queue) /\ queue # <<>> /\ UNCHANGED <<g_sent, lost>>
      BY <1>4, <2>1 DEF DG_GetKey
    <2>3. SUFFICES ASSUME NEW k \in Keys, DownAfter(down, queue, k)' PROVE DownAfter(down, queue, k)
      BY <2>2 DEF NoStuckKey
    <2>4. DownAfter(t, Tail(queue), k)
      BY <2>2, <2>3 DEF DownAfter
    <2> QED
      BY <2>1, <2>2, <2>4, TakeDown DEF TypeOK
  <1>5. CASE Turn
    BY <1>0, <1>5 DEF Turn, mine
  <1>6. CASE Act
    <2>1. UNCHANGED mine /\ UNCHANGED <<down, lost>>
      BY <1>6 DEF Act, Press, Release, Repeat, Point, Type, Window, Reports
    <2> QED
      BY <1>0, <2>1 DEF mine
  <1>7. CASE UNCHANGED vars
    BY <1>0, <1>7 DEF vars, mine
  <1> QED
    BY <1>1, <1>2, <1>3, <1>4, <1>5, <1>6, <1>7 DEF Next, Work

\* For every keyboard, mapping, order of reports and size of the queue: once the
\* game has taken what waits, a key is down only if a code was sent as it and
\* not yet let go, or its release found the queue full (lines 130-163, 199-203).
THEOREM NoKeySticks == Spec => []NoStuckKey
  <1>1. Init => NoStuckKey
    <2> SUFFICES ASSUME Init, NEW k \in Keys PROVE ~DownAfter(down, queue, k)
      BY DEF NoStuckKey
    <2>1. Len(queue) = 0 /\ down = {}
      BY EmptySeq DEF Init
    <2> QED
      BY <2>1 DEF DownAfter
  <1> QED
    BY <1>1, StuckStep, TypeCorrect, PTL DEF Spec
-----------------------------------------------------------------------------
\* What a report does to the focus of a window.
Loses(e) == e.type = "focus" /\ e.value = 0
Gains(e) == e.type = "focus" /\ e.value = 1

\* A window, in focus or not by f, is out of focus where report i of q is.
OutAt(f, q, i) ==
  \/ ~f /\ \A j \in 1..i - 1 : ~Gains(q[j])
  \/ \E j \in 1..i - 1 : Loses(q[j]) /\ \A k \in j + 1..i - 1 : ~Gains(q[k])

\* Where the reports that wait end, the focus is where it really is, and a window
\* that is out of focus is reported nothing but the focus.
FocusReported ==
  /\ source # "window" => focus
  /\ focus <=> ~OutAt(g_focused, dev, Len(dev) + 1)
  /\ \A i \in 1..Len(dev) : OutAt(g_focused, dev, i) => dev[i].type = "focus"

\* Nothing is down by what was reported.
Idle == g_buttons = {} /\ \A c \in Codes : g_sent[c] = None

FocusInv == FocusReported /\ (~g_focused /\ phase # "release" => Idle)

\* A report of a key or a button, by its code.
Of(e, x) == e.type \in {"key", "button"} /\ e.code = x
Sets(e, x) == Of(e, x) /\ e.value # 0
Clears(e, x) == Loses(e) \/ (Of(e, x) /\ e.value = 0)
SomeClears(q, x) == \E i \in 1..Len(q) : Clears(q[i], x)
ClearsLast(q, x) ==
  \A i \in 1..Len(q) : Sets(q[i], x) => \E j \in i + 1..Len(q) : Clears(q[j], x)

\* The code or the button x is down by what was reported.
Sent(x) == x \in g_buttons \/ (x \in Codes /\ g_sent[x] # None)

\* What the user does not hold is up, or comes up by the reports that wait.
ComesUp(x) ==
  /\ Sent(x) => phase = "release" \/ SomeClears(dev, x)
  /\ ClearsLast(dev, x)

HeldInv ==
  /\ told = g_buttons
  /\ \A x \in Codes \cup Buttons : x \notin held => ComesUp(x)

\* The values of a report.
LEMMA ReportValues ==
  ASSUME NEW e \in Report
  PROVE  /\ e.type = "key" => e.code \in Codes /\ e.value \in 0..2
         /\ e.type = "button" => e.code \in Buttons /\ e.value \in 0..1
         /\ e.type = "focus" => e.value \in 0..1
BY DEF Report

\* A report joins those that wait.
LEMMA JoinedOut ==
  ASSUME NEW f \in BOOLEAN, NEW q \in Seq(Report), NEW e \in Report
  PROVE  LET n == Len(q)  r == Append(q, e) IN
         /\ \A i \in 1..n + 1 : OutAt(f, r, i) <=> OutAt(f, q, i)
         /\ e.type # "focus" => (OutAt(f, r, n + 2) <=> OutAt(f, q, n + 1))
         /\ e.type = "focus" => (OutAt(f, r, n + 2) <=> Loses(e))
  <1>1. PICK n \in Nat : n = Len(q)
    BY LenProperties
  <1>2. PICK r : r = Append(q, e)
    OBVIOUS
  <1>3. Len(r) = n + 1 /\ r[n + 1] = e /\ \A i \in 1..n : r[i] = q[i]
    BY <1>1, <1>2, AppendProperties
  <1>4. ASSUME NEW i \in 1..n + 1
        PROVE  OutAt(f, r, i) <=> OutAt(f, q, i)
    <2>1. \A j \in 1..i - 1 : r[j] = q[j]
      BY <1>3
    <2>2. \A j \in 1..i - 1 : \A k \in j + 1..i - 1 : k \in 1..i - 1
      OBVIOUS
    <2> QED
      BY <2>1, <2>2 DEF OutAt
  <1>5. OutAt(f, r, n + 2) <=> \/ ~f /\ \A j \in 1..n + 1 : ~Gains(r[j])
                               \/ \E j \in 1..n + 1 : /\ Loses(r[j])
                                                      /\ \A k \in j + 1..n + 1 : ~Gains(r[k])
    <2>1. (n + 2) - 1 = n + 1
      OBVIOUS
    <2> QED
      BY <2>1 DEF OutAt
  <1>6. OutAt(f, q, n + 1) <=> \/ ~f /\ \A j \in 1..n : ~Gains(r[j])
                               \/ \E j \in 1..n : /\ Loses(r[j])
                                                  /\ \A k \in j + 1..n : ~Gains(r[k])
    <2>1. (n + 1) - 1 = n
      OBVIOUS
    <2>2. \A j \in 1..n : \A k \in j + 1..n : k \in 1..n
      OBVIOUS
    <2> QED
      BY <1>3, <2>1, <2>2 DEF OutAt
  <1>7. \A j \in 1..n + 1 : j = n + 1 \/ j \in 1..n
    OBVIOUS
  <1>8. /\ \A j \in 1..n : n + 1 \in j + 1..n + 1
        /\ \A j \in 1..n + 1 : \A k \in j + 1..n + 1 : k = n + 1 \/ (j \in 1..n /\ k \in j + 1..n)
        /\ \A j \in 1..n : j \in 1..n + 1 /\ \A k \in j + 1..n : k \in j + 1..n + 1
        /\ n + 1 \in 1..n + 1 /\ \A k \in (n + 1) + 1..n + 1 : FALSE
    OBVIOUS
  <1>9. CASE e.type # "focus"
    <2>1. ~Loses(r[n + 1]) /\ ~Gains(r[n + 1])
      BY <1>3, <1>9 DEF Loses, Gains
    <2>2. OutAt(f, r, n + 2) <=> OutAt(f, q, n + 1)
      BY <1>5, <1>6, <1>7, <1>8, <2>1
    <2> QED
      BY <1>1, <1>2, <1>4, <1>9, <2>2
  <1>10. CASE e.type = "focus"
    <2>1. CASE Loses(e)
      <3>1. OutAt(f, r, n + 2)
        BY <1>3, <1>5, <1>8, <2>1
      <3> QED
        BY <1>1, <1>2, <1>4, <1>10, <2>1, <3>1
    <2>2. CASE ~Loses(e)
      <3>1. Gains(r[n + 1]) /\ ~Loses(r[n + 1])
        BY <1>3, <1>10, <2>2, ReportValues DEF Loses, Gains
      <3>2. ~OutAt(f, r, n + 2)
        BY <1>5, <1>7, <1>8, <3>1
      <3> QED
        BY <1>1, <1>2, <1>4, <1>10, <2>2, <3>2
    <2> QED
      BY <2>1, <2>2
  <1> QED
    BY <1>9, <1>10

\* The first report is dealt with.
LEMMA TakenOut ==
  ASSUME NEW f \in BOOLEAN, NEW q \in Seq(Report), q # <<>>, NEW g \in BOOLEAN,
         g <=> IF Head(q).type = "focus" THEN Head(q).value = 1 ELSE f
  PROVE  \A i \in 1..Len(q) : OutAt(g, Tail(q), i) <=> OutAt(f, q, i + 1)
  <1>1. PICK n \in Nat : n = Len(q) /\ n > 0
    BY EmptySeq, LenProperties
  <1>2. PICK r : r = Tail(q)
    OBVIOUS
  <1>3. /\ Len(r) = n - 1 /\ Head(q) = q[1] /\ q[1] \in Report
        /\ \A i \in 1..n - 1 : r[i] = q[i + 1]
    BY <1>1, <1>2, HeadTailProperties
  <1>4. /\ Gains(q[1]) => g
        /\ Loses(q[1]) => ~g
        /\ ~Gains(q[1]) /\ ~Loses(q[1]) => (g <=> f)
    BY <1>3, ReportValues DEF Gains, Loses
  <1> SUFFICES ASSUME NEW i \in 1..n PROVE OutAt(g, r, i) <=> OutAt(f, q, i + 1)
    BY <1>1, <1>2
  <1>5. OutAt(f, q, i + 1) <=> \/ ~f /\ \A j \in 1..i : ~Gains(q[j])
                               \/ \E j \in 1..i : /\ Loses(q[j])
                                                  /\ \A k \in j + 1..i : ~Gains(q[k])
    <2>1. (i + 1) - 1 = i
      OBVIOUS
    <2> QED
      BY <2>1 DEF OutAt
  <1>6. \A j \in 1..i - 1 : r[j] = q[j + 1]
    BY <1>3
  <1>7. (\A j \in 1..i - 1 : ~Gains(r[j])) <=> \A j \in 2..i : ~Gains(q[j])
    <2>1. \A j \in 1..i - 1 : j + 1 \in 2..i
      OBVIOUS
    <2>2. \A j \in 2..i : j - 1 \in 1..i - 1 /\ (j - 1) + 1 = j
      OBVIOUS
    <2>3. \A j \in 2..i : r[j - 1] = q[j]
      BY <1>6, <2>2
    <2> QED
      BY <1>6, <2>1, <2>2, <2>3
  <1>8. ASSUME NEW j \in 1..i - 1
        PROVE  (\A k \in j + 1..i - 1 : ~Gains(r[k])) <=> \A k \in (j + 1) + 1..i : ~Gains(q[k])
    <2>1. \A k \in j + 1..i - 1 : k + 1 \in (j + 1) + 1..i /\ k \in 1..i - 1
      OBVIOUS
    <2>2. \A k \in (j + 1) + 1..i : k - 1 \in j + 1..i - 1 /\ (k - 1) + 1 = k /\ k - 1 \in 1..i - 1
      OBVIOUS
    <2>3. \A k \in (j + 1) + 1..i : r[k - 1] = q[k]
      BY <1>6, <2>2
    <2> QED
      BY <1>6, <2>1, <2>2, <2>3
  <1>9. (\E j \in 1..i - 1 : Loses(r[j]) /\ \A k \in j + 1..i - 1 : ~Gains(r[k]))
        <=> \E j \in 2..i : Loses(q[j]) /\ \A k \in j + 1..i : ~Gains(q[k])
    <2>1. \A j \in 1..i - 1 : j + 1 \in 2..i
      OBVIOUS
    <2>2. ASSUME NEW j \in 2..i, Loses(q[j]), \A k \in j + 1..i : ~Gains(q[k])
          PROVE  \E h \in 1..i - 1 : Loses(r[h]) /\ \A k \in h + 1..i - 1 : ~Gains(r[k])
      <3>1. PICK h \in 1..i - 1 : j = h + 1
        OBVIOUS
      <3> QED
        BY <1>6, <1>8, <2>2, <3>1
    <2> QED
      BY <1>6, <1>8, <2>1, <2>2
  <1>10. \A j \in 1..i : j = 1 \/ j \in 2..i
    OBVIOUS
  <1>11. 1 \in 1..i /\ (\A j \in 2..i : j \in 1..i) /\ 1 + 1 = 2
    OBVIOUS
  <1>12. OutAt(g, r, i) <=> \/ ~g /\ \A j \in 2..i : ~Gains(q[j])
                            \/ \E j \in 2..i : Loses(q[j]) /\ \A k \in j + 1..i : ~Gains(q[k])
    BY <1>7, <1>9 DEF OutAt
  <1>13. ~(Gains(q[1]) /\ Loses(q[1]))
    BY DEF Gains, Loses
  <1> QED
    BY <1>4, <1>5, <1>10, <1>11, <1>12, <1>13


\* Whether a report that waits clears x, when another joins them.
LEMMA JoinedClears ==
  ASSUME NEW q \in Seq(Report), NEW e \in Report, NEW x
  PROVE  /\ SomeClears(Append(q, e), x) <=> SomeClears(q, x) \/ Clears(e, x)
         /\ ClearsLast(q, x) /\ ~Sets(e, x) => ClearsLast(Append(q, e), x)
         /\ Clears(e, x) => ClearsLast(Append(q, e), x)
  <1>1. PICK n \in Nat : n = Len(q)
    BY LenProperties
  <1>2. PICK r : r = Append(q, e)
    OBVIOUS
  <1>3. Len(r) = n + 1 /\ r[n + 1] = e /\ \A i \in 1..n : r[i] = q[i]
    BY <1>1, <1>2, AppendProperties
  <1>4. \A j \in 1..n + 1 : j = n + 1 \/ j \in 1..n
    OBVIOUS
  <1>5. n + 1 \in 1..n + 1 /\ \A j \in 1..n : j \in 1..n + 1 /\ n + 1 \in j + 1..n + 1
    OBVIOUS
  <1>6. SomeClears(r, x) <=> SomeClears(q, x) \/ Clears(e, x)
    BY <1>1, <1>3, <1>4, <1>5 DEF SomeClears
  <1>7. ASSUME ClearsLast(q, x), ~Sets(e, x) PROVE ClearsLast(r, x)
    <2>1. \A j \in 1..n : \A k \in j + 1..n : k \in 1..n /\ k \in j + 1..n + 1
      OBVIOUS
    <2> QED
      BY <1>1, <1>3, <1>4, <1>7, <2>1 DEF ClearsLast
  <1>8. ASSUME Clears(e, x) PROVE ClearsLast(r, x)
    <2>1. ~Sets(e, x)
      BY <1>8 DEF Clears, Sets, Loses, Of
    <2> QED
      BY <1>3, <1>4, <1>5, <1>8, <2>1 DEF ClearsLast
  <1> QED
    BY <1>2, <1>6, <1>7, <1>8

LEMMA TakenClears ==
  ASSUME NEW q \in Seq(Report), q # <<>>, NEW x
  PROVE  /\ SomeClears(q, x) => Clears(Head(q), x) \/ SomeClears(Tail(q), x)
         /\ ClearsLast(q, x) => ClearsLast(Tail(q), x)
         /\ ClearsLast(q, x) /\ Sets(Head(q), x) => SomeClears(Tail(q), x)
  <1>1. PICK n \in Nat : n = Len(q) /\ n > 0
    BY EmptySeq, LenProperties
  <1>2. PICK r : r = Tail(q)
    OBVIOUS
  <1>3. /\ Len(r) = n - 1 /\ Head(q) = q[1]
        /\ \A i \in 1..n - 1 : r[i] = q[i + 1]
    BY <1>1, <1>2, HeadTailProperties
  <1>4. \A j \in 2..n : j - 1 \in 1..n - 1 /\ r[j - 1] = q[j]
    <2>1. \A j \in 2..n : j - 1 \in 1..n - 1 /\ (j - 1) + 1 = j
      OBVIOUS
    <2> QED
      BY <1>3, <2>1
  <1>5. \A j \in 1..n : j = 1 \/ j \in 2..n
    OBVIOUS
  <1>6. SomeClears(q, x) => Clears(q[1], x) \/ SomeClears(r, x)
    BY <1>1, <1>3, <1>4, <1>5 DEF SomeClears
  <1>7. ASSUME ClearsLast(q, x) PROVE ClearsLast(r, x)
    <2> SUFFICES ASSUME NEW i \in 1..n - 1, Sets(r[i], x)
                 PROVE  \E j \in i + 1..n - 1 : Clears(r[j], x)
      BY <1>3 DEF ClearsLast
    <2>1. i + 1 \in 1..n /\ Sets(q[i + 1], x)
      BY <1>3
    <2>2. PICK j \in (i + 1) + 1..n : Clears(q[j], x)
      BY <1>1, <1>7, <2>1 DEF ClearsLast
    <2>3. j \in 2..n /\ j - 1 \in i + 1..n - 1
      OBVIOUS
    <2> QED
      BY <1>4, <2>2, <2>3
  <1>8. ASSUME ClearsLast(q, x), Sets(q[1], x) PROVE SomeClears(r, x)
    <2>1. 1 \in 1..n /\ 1 + 1 = 2
      BY <1>1
    <2>2. PICK j \in 2..n : Clears(q[j], x)
      BY <1>1, <1>8, <2>1 DEF ClearsLast
    <2> QED
      BY <1>3, <1>4, <2>2 DEF SomeClears
  <1> QED
    BY <1>2, <1>3, <1>6, <1>7, <1>8

\* Where the window is out of focus in the end, nothing that is down stays down.
LEMMA OutClears ==
  ASSUME NEW f \in BOOLEAN, NEW q \in Seq(Report), NEW x,
         \A i \in 1..Len(q) : OutAt(f, q, i) => q[i].type = "focus",
         OutAt(f, q, Len(q) + 1)
  PROVE  ClearsLast(q, x) /\ (~f \/ SomeClears(q, x))
  <1>1. PICK n \in Nat : n = Len(q)
    BY LenProperties
  <1>2. (n + 1) - 1 = n
    OBVIOUS
  <1>3. \/ ~f /\ \A j \in 1..n : ~Gains(q[j])
        \/ \E j \in 1..n : Loses(q[j]) /\ \A k \in j + 1..n : ~Gains(q[k])
    BY <1>1, <1>2 DEF OutAt
  <1>4. \A i \in 1..n : q[i].type = "focus" => ~Sets(q[i], x)
    BY DEF Sets, Of
  <1>5. CASE ~f /\ \A j \in 1..n : ~Gains(q[j])
    <2>1. \A i \in 1..n : OutAt(f, q, i)
      <3>1. \A i \in 1..n : \A j \in 1..i - 1 : j \in 1..n
        OBVIOUS
      <3> QED
        BY <1>5, <3>1 DEF OutAt
    <2> QED
      BY <1>1, <1>4, <1>5, <2>1 DEF ClearsLast
  <1>6. ASSUME NEW j \in 1..n, Loses(q[j]), \A k \in j + 1..n : ~Gains(q[k])
        PROVE  ClearsLast(q, x) /\ SomeClears(q, x)
    <2>1. Clears(q[j], x)
      BY <1>6 DEF Clears
    <2>2. ASSUME NEW i \in 1..n, Sets(q[i], x) PROVE i < j
      <3>1. ~(j < i)
        <4> SUFFICES ASSUME j < i PROVE FALSE
          OBVIOUS
        <4>1. j \in 1..i - 1 /\ \A k \in j + 1..i - 1 : k \in j + 1..n
          OBVIOUS
        <4>2. OutAt(f, q, i)
          BY <1>6, <4>1 DEF OutAt
        <4> QED
          BY <1>1, <1>4, <2>2, <4>2
      <3>2. i # j
        BY <1>6, <2>2 DEF Loses, Sets, Of
      <3> QED
        BY <3>1, <3>2
    <2>3. \A i \in 1..n : i < j => j \in i + 1..n
      OBVIOUS
    <2> QED
      BY <1>1, <2>1, <2>2, <2>3 DEF ClearsLast, SomeClears
  <1> QED
    BY <1>3, <1>5, <1>6
-----------------------------------------------------------------------------
\* What the user does is reported: nothing goes down that he does not hold.
LEMMA ActIs ==
  ASSUME TypeOK, Act
  PROVE  \E e \in Report :
           /\ Reports(e)
           /\ \A x : x \notin held' => ~Sets(e, x) /\ (x \in held => Clears(e, x))
           /\ e.type = "focus" => focus' = ~focus /\ (Loses(e) <=> focus) /\ source = "window"
           /\ e.type # "focus" => focus' = focus
  <1>1. CASE Press /\ UNCHANGED focus
    <2>1. CASE \E c \in Codes : /\ held' = held \cup {c}
                               /\ Reports([type |-> "key", code |-> c, value |-> 1])
      <3>1. PICK c \in Codes : /\ held' = held \cup {c}
                            /\ Reports([type |-> "key", code |-> c, value |-> 1])
        BY <2>1
      <3> DEFINE e == [type |-> "key", code |-> c, value |-> 1]
      <3>2. e \in Report
        BY DEF Report
      <3>3. e.type # "focus" /\ \A x : Sets(e, x) => x = c
        BY DEF Sets, Of
      <3> HIDE DEF e
      <3>5. Reports(e) /\ held' = held \cup {c}
        BY <3>1 DEF e
      <3> QED
        BY <1>1, <3>2, <3>3, <3>5
    <2>2. CASE \E b \in Buttons : /\ held' = held \cup {b}
                               /\ Reports([type |-> "button", code |-> b, value |-> 1])
      <3>1. PICK b \in Buttons : /\ held' = held \cup {b}
                            /\ Reports([type |-> "button", code |-> b, value |-> 1])
        BY <2>2
      <3> DEFINE e == [type |-> "button", code |-> b, value |-> 1]
      <3>2. e \in Report
        BY DEF Report
      <3>3. e.type # "focus" /\ \A x : Sets(e, x) => x = b
        BY DEF Sets, Of
      <3> HIDE DEF e
      <3>5. Reports(e) /\ held' = held \cup {b}
        BY <3>1 DEF e
      <3> QED
        BY <1>1, <3>2, <3>3, <3>5
    <2> QED
      BY <1>1, <2>1, <2>2 DEF Press
  <1>2. CASE Release /\ UNCHANGED focus
    <2>1. CASE \E c \in Codes : /\ held' = held \ {c}
                               /\ Reports([type |-> "key", code |-> c, value |-> 0])
      <3>1. PICK c \in Codes : /\ held' = held \ {c}
                            /\ Reports([type |-> "key", code |-> c, value |-> 0])
        BY <2>1
      <3> DEFINE e == [type |-> "key", code |-> c, value |-> 0]
      <3>2. e \in Report
        BY DEF Report
      <3>3. e.type # "focus" /\ \A x : ~Sets(e, x)
        BY DEF Sets, Of
      <3>4. Clears(e, c)
        BY DEF Clears, Of
      <3> HIDE DEF e
      <3>5. Reports(e) /\ held' = held \ {c}
        BY <3>1 DEF e
      <3> QED
        BY <1>2, <3>2, <3>3, <3>4, <3>5
    <2>2. CASE \E b \in Buttons : /\ held' = held \ {b}
                               /\ Reports([type |-> "button", code |-> b, value |-> 0])
      <3>1. PICK b \in Buttons : /\ held' = held \ {b}
                            /\ Reports([type |-> "button", code |-> b, value |-> 0])
        BY <2>2
      <3> DEFINE e == [type |-> "button", code |-> b, value |-> 0]
      <3>2. e \in Report
        BY DEF Report
      <3>3. e.type # "focus" /\ \A x : ~Sets(e, x)
        BY DEF Sets, Of
      <3>4. Clears(e, b)
        BY DEF Clears, Of
      <3> HIDE DEF e
      <3>5. Reports(e) /\ held' = held \ {b}
        BY <3>1 DEF e
      <3> QED
        BY <1>2, <3>2, <3>3, <3>4, <3>5
    <2> QED
      BY <1>2, <2>1, <2>2 DEF Release
  <1>3. CASE Repeat /\ UNCHANGED focus
    <2>1. PICK c \in Codes : /\ c \in held /\ held' = held
                             /\ Reports([type |-> "key", code |-> c, value |-> 2])
      BY <1>3 DEF Repeat
    <2> DEFINE e == [type |-> "key", code |-> c, value |-> 2]
    <2>2. e \in Report
      BY DEF Report
    <2>3. e.type # "focus" /\ \A x : Sets(e, x) => x = c
      BY DEF Sets, Of
    <2> HIDE DEF e
    <2>4. Reports(e) /\ c \in held /\ held' = held
      BY <2>1 DEF e
    <2> QED
      BY <1>3, <2>2, <2>3, <2>4
  <1>4. ASSUME NEW e \in Report, e.type \notin {"focus", "key", "button"}, Reports(e),
               held' = held, focus' = focus
        PROVE  /\ \A x : x \notin held' => ~Sets(e, x) /\ (x \in held => Clears(e, x))
               /\ e.type # "focus"
    BY <1>4 DEF Sets, Of
  <1>5. CASE (Point \/ Type) /\ UNCHANGED focus
    <2>1. PICK e \in Report : /\ e.type \notin {"focus", "key", "button"} /\ Reports(e)
                              /\ held' = held /\ focus' = focus
      <3>1. CASE Type
        BY <1>5, <3>1 DEF Type, Report
      <3>2. CASE Point
        BY <1>5, <3>2 DEF Point, Report
      <3> QED
        BY <1>5, <3>1, <3>2
    <2> QED
      BY <1>4, <2>1
  <1>6. CASE Window
    <2>1. CASE focus' = ~focus /\ Reports([type |-> "focus", value |-> IF focus THEN 0 ELSE 1])
      <3> DEFINE e == [type |-> "focus", value |-> IF focus THEN 0 ELSE 1]
      <3>1. e \in Report /\ Reports(e) /\ e.type = "focus"
        BY <2>1, WindowReports
      <3>2. Loses(e) <=> focus
        BY DEF Loses, TypeOK
      <3>3. \A x : ~Sets(e, x)
        BY DEF Sets, Of
      <3>4. source = "window" /\ held' = held
        BY <1>6 DEF Window
      <3> HIDE DEF e
      <3> QED
        BY <2>1, <3>1, <3>2, <3>3, <3>4
    <2>2. CASE UNCHANGED focus /\ Reports([type |-> "close"])
      <3> DEFINE e == [type |-> "close"]
      <3>1. e \in Report /\ Reports(e) /\ e.type \notin {"focus", "key", "button"}
        BY <2>2, WindowReports
      <3>2. held' = held
        BY <1>6 DEF Window
      <3> HIDE DEF e
      <3> QED
        BY <1>4, <2>2, <3>1, <3>2
    <2> QED
      BY <1>6, <2>1, <2>2 DEF Window
  <1> QED
    BY <1>1, <1>2, <1>3, <1>5, <1>6 DEF Act


\* What dealing with the first report does to what was reported.
LEMMA HandleIs ==
  ASSUME TypeOK, Handle
  PROVE  LET e == Head(dev) IN
         /\ e \in Report /\ dev # <<>> /\ dev' = Tail(dev) /\ phase = "drain"
         /\ UNCHANGED <<held, focus, source>>
         /\ g_focused' = IF e.type = "focus" THEN e.value = 1 ELSE g_focused
         /\ Loses(e) => phase' = "release"
         /\ e.type = "focus" => UNCHANGED <<g_sent, g_buttons>>
         /\ \A x : Sent(x)' => Sets(e, x) \/ (Sent(x) /\ ~(Of(e, x) /\ e.value = 0))
         /\ told = g_buttons => told' = g_buttons'
  <1> DEFINE e == Head(dev)
  <1>1. e \in Report /\ dev # <<>> /\ dev' = Tail(dev) /\ phase = "drain"
    BY HeadTailProperties DEF Handle, TypeOK
  <1>2. UNCHANGED <<held, focus, source>>
    BY DEF Handle
  <1>3. g_focused' = IF e.type = "focus" THEN e.value = 1 ELSE g_focused
    BY DEF Handle
  <1>4. Loses(e) => phase' = "release"
    BY DEF Handle, Loses
  <1>5. e.type = "focus" => UNCHANGED <<g_sent, g_buttons>>
    BY DEF Handle, keys
  <1>6. told = g_buttons => told' = g_buttons'
    BY DEF Handle, button_event, WheelTurned
  <1>7. e.type \notin {"key", "button"} => g_sent' = g_sent /\ g_buttons' = g_buttons
    BY DEF Handle, keys, Typed
  <1>8. e.type = "key" => /\ g_buttons' = g_buttons
                          /\ \/ e.value = 0 /\ KeyUp(e.code)
                             \/ e.value # 0 /\ (KeyDown(e.code) \/ g_sent' = g_sent)
    BY DEF Handle, keys
  <1>9. e.type = "button" => g_sent' = g_sent /\ button_event(e.code, e.value = 1)
    BY DEF Handle, keys
  <1> HIDE DEF e
  <1>10. ASSUME NEW x, Sent(x)'
         PROVE  Sets(e, x) \/ (Sent(x) /\ ~(Of(e, x) /\ e.value = 0))
    <2>1. x \in g_buttons' \/ (x \in Codes /\ g_sent'[x] # None)
      BY <1>10 DEF Sent
    <2>2. CASE e.type \notin {"key", "button"}
      BY <1>7, <2>1, <2>2 DEF Sent, Of
    <2>3. CASE e.type = "button"
      <3>1. e.code \in Buttons /\ e.value \in 0..1 /\ g_sent' = g_sent
        BY <1>1, <1>9, <2>3, ReportValues
      <3>2. g_buttons' = IF e.value = 1 THEN g_buttons \cup {e.code} ELSE g_buttons \ {e.code}
        BY <1>9, <2>3 DEF button_event
      <3>3. CASE x = e.code
        <4>1. x \notin Codes
          BY <3>1, <3>3, BitAssumption
        <4> QED
          BY <2>1, <2>3, <3>1, <3>2, <3>3, <4>1 DEF Sets, Of
      <3>4. CASE x # e.code
        BY <2>1, <3>1, <3>2, <3>4 DEF Sent, Of
      <3> QED
        BY <3>3, <3>4
    <2>4. CASE e.type = "key"
      <3>1. e.code \in Codes /\ e.value \in 0..2 /\ g_buttons' = g_buttons
        BY <1>1, <1>8, <2>4, ReportValues
      <3>2. CASE x = e.code
        <4>1. x \notin g_buttons
          BY <3>1, <3>2, BitAssumption DEF TypeOK
        <4>2. CASE e.value # 0
          BY <2>4, <3>2, <4>2 DEF Sets, Of
        <4>3. CASE e.value = 0
          <5>1. KeyUp(x)
            BY <1>8, <2>4, <3>2, <4>3
          <5>2. g_sent'[x] = None
            BY <3>1, <3>2, <5>1 DEF KeyUp, TypeOK
          <5> QED
            BY <2>1, <3>1, <4>1, <5>2
        <4> QED
          BY <4>2, <4>3
      <3>3. CASE x # e.code
        <4>1. x \in Codes => g_sent'[x] = g_sent[x]
          BY <1>8, <2>4, <3>1, <3>3 DEF KeyUp, KeyDown, TypeOK
        <4> QED
          BY <2>1, <3>1, <3>3, <4>1 DEF Sent, Of
      <3> QED
        BY <3>2, <3>3
    <2> QED
      BY <2>2, <2>3, <2>4
  <1> QED
    BY <1>1, <1>2, <1>3, <1>4, <1>5, <1>6, <1>10 DEF e

\* What release_all does: what was sent is taken back, and then nothing is down.
LEMMA ReleaseIs ==
  ASSUME TypeOK, ReleaseNext
  PROVE  /\ phase = "release" /\ phase' = "release"
         /\ UNCHANGED <<dev, held, focus, source, g_focused, g_buttons, told>>
  BY DEF ReleaseNext, user

LEMMA ReleasedIs ==
  ASSUME TypeOK, ReleaseButtons
  PROVE  /\ Idle' /\ UNCHANGED <<dev, held, focus, source, g_focused>>
         /\ told = g_buttons => told' = g_buttons'
  BY DEF ReleaseButtons, user, keys, Idle

\* The other steps of the program leave what was reported and what waits alone.
LEMMA OthersIs ==
  ASSUME EndDrain \/ StartDrain \/ DG_GetKey \/ Turn \/ UNCHANGED vars
  PROVE  /\ UNCHANGED <<dev, held, focus, source, g_focused, g_sent, g_buttons>>
         /\ phase' = "release" <=> phase = "release"
         /\ told = g_buttons => told' = g_buttons'
  BY DEF EndDrain, StartDrain, DG_GetKey, Turn, vars, mine, user, keys, motion_event

LEMMA FocusStep == TypeOK /\ FocusInv /\ [Next]_vars => FocusInv'
  <1> SUFFICES ASSUME TypeOK, FocusInv, [Next]_vars PROVE FocusInv'
    OBVIOUS
  <1>1. /\ dev \in Seq(Report) /\ g_focused \in BOOLEAN /\ focus \in BOOLEAN
        /\ source # "window" => focus
        /\ focus <=> ~OutAt(g_focused, dev, Len(dev) + 1)
        /\ \A i \in 1..Len(dev) : OutAt(g_focused, dev, i) => dev[i].type = "focus"
        /\ ~g_focused /\ phase # "release" => Idle
    BY DEF TypeOK, FocusInv, FocusReported
  <1>2. CASE Act
    <2>1. PICK e \in Report :
            /\ Reports(e)
            /\ e.type = "focus" => focus' = ~focus /\ (Loses(e) <=> focus) /\ source = "window"
            /\ e.type # "focus" => focus' = focus
      BY <1>2, ActIs
    <2>2. /\ UNCHANGED <<mine, source>>
          /\ dev' = IF source = "window" /\ e.type # "focus" /\ ~focus THEN dev ELSE Append(dev, e)
      BY <2>1 DEF Reports
    <2>3. UNCHANGED <<g_focused, phase, g_buttons, g_sent>>
      BY <2>2 DEF mine
    <2>4. ~g_focused' /\ phase' # "release" => Idle'
      BY <1>1, <2>3 DEF Idle
    <2>5. CASE dev' = dev /\ e.type # "focus"
      BY <1>1, <2>1, <2>2, <2>3, <2>4, <2>5 DEF FocusInv, FocusReported
    <2>6. CASE dev' = Append(dev, e) /\ (e.type = "focus" \/ focus)
      <3> DEFINE n == Len(dev)
                 r == Append(dev, e)
                 f == g_focused
      <3>1. n \in Nat /\ Len(r) = n + 1 /\ r[n + 1] = e /\ \A i \in 1..n : r[i] = dev[i]
        BY <1>1, AppendProperties, LenProperties
      <3>2. /\ \A i \in 1..n + 1 : OutAt(f, r, i) <=> OutAt(f, dev, i)
            /\ e.type # "focus" => (OutAt(f, r, n + 2) <=> OutAt(f, dev, n + 1))
            /\ e.type = "focus" => (OutAt(f, r, n + 2) <=> Loses(e))
        BY <1>1, JoinedOut
      <3> HIDE DEF n, r, f
      <3>3. Len(r) + 1 = n + 2
        BY <3>1
      <3>4. focus <=> ~OutAt(f, dev, n + 1)
        BY <1>1 DEF n, f
      <3>5. focus' <=> ~OutAt(f, r, Len(r) + 1)
        <4>1. CASE e.type = "focus"
          BY <1>1, <2>1, <3>2, <3>3, <4>1
        <4>2. CASE e.type # "focus"
          BY <2>1, <3>2, <3>3, <3>4, <4>2
        <4> QED
          BY <4>1, <4>2
      <3>6. \A i \in 1..n : OutAt(f, dev, i) => dev[i].type = "focus"
        BY <1>1 DEF n, f
      <3>7. OutAt(f, r, n + 1) => e.type = "focus"
        <4>1. n + 1 \in 1..n + 1
          BY <3>1
        <4> QED
          BY <2>6, <3>2, <3>4, <4>1
      <3>8. \A i \in 1..Len(r) : OutAt(f, r, i) => r[i].type = "focus"
        <4>1. \A i \in 1..n + 1 : i \in 1..n \/ i = n + 1
          BY <3>1
        <4> QED
          BY <3>1, <3>2, <3>6, <3>7, <4>1
      <3>9. source' # "window" => focus'
        <4>1. CASE e.type = "focus"
          BY <2>1, <2>2, <4>1
        <4>2. CASE e.type # "focus"
          <5>1. focus' = focus /\ source' = source
            BY <2>1, <2>2, <4>2
          <5> QED
            BY <1>1, <5>1, Zenon
        <4> QED
          BY <4>1, <4>2
      <3>10. dev' = r /\ g_focused' = f
        BY <2>3, <2>6 DEF r, f
      <3> QED
        BY <2>4, <3>5, <3>8, <3>9, <3>10 DEF FocusInv, FocusReported
    <2> QED
      BY <1>1, <2>2, <2>5, <2>6
  <1>3. CASE Handle
    <2> DEFINE e == Head(dev)
               r == Tail(dev)
    <2>1. /\ e \in Report /\ dev # <<>> /\ dev' = r /\ phase = "drain"
          /\ UNCHANGED <<focus, source>>
          /\ g_focused' = IF e.type = "focus" THEN e.value = 1 ELSE g_focused
          /\ Loses(e) => phase' = "release"
          /\ \A x : Sent(x)' => Sets(e, x) \/ (Sent(x) /\ ~(Of(e, x) /\ e.value = 0))
      BY <1>3, HandleIs
    <2>2. PICK n \in Nat : n = Len(dev) /\ n > 0
      BY <1>1, <2>1, EmptySeq, LenProperties
    <2>3. /\ Len(r) = n - 1 /\ e = dev[1] /\ \A i \in 1..n - 1 : r[i] = dev[i + 1]
      BY <1>1, <2>1, <2>2, HeadTailProperties
    <2> DEFINE g == g_focused'
    <2>4. g \in BOOLEAN
      BY <1>1, <2>1
    <2>5. \A i \in 1..n : OutAt(g, r, i) <=> OutAt(g_focused, dev, i + 1)
      <3>1. g <=> IF Head(dev).type = "focus" THEN Head(dev).value = 1 ELSE g_focused
        BY <2>1
      <3> HIDE DEF g
      <3> QED
        BY <1>1, <2>1, <2>2, <2>4, <3>1, TakenOut
    <2> HIDE DEF e, r, g
    <2>6. focus <=> ~OutAt(g, r, Len(r) + 1)
      <3>1. n \in 1..n /\ Len(r) + 1 = n
        BY <2>2, <2>3
      <3> QED
        BY <1>1, <2>2, <2>5, <3>1
    <2>7. ASSUME NEW i \in 1..Len(r), OutAt(g, r, i)
          PROVE  r[i].type = "focus"
      <3>1. i \in 1..n - 1 /\ i \in 1..n /\ i + 1 \in 1..n
        BY <2>2, <2>3
      <3> QED
        BY <1>1, <2>2, <2>3, <2>5, <2>7, <3>1
    <2>8. ~g => phase' = "release"
      <3> SUFFICES ASSUME ~g PROVE phase' = "release"
        OBVIOUS
      <3>1. CASE e.type = "focus"
        <4>1. e.value \in 0..1 /\ e.value # 1
          BY <2>1, <3>1, ReportValues DEF g
        <4>2. Loses(e)
          BY <3>1, <4>1 DEF Loses
        <4> QED
          BY <2>1, <4>2
      <3>2. CASE e.type # "focus"
        <4>1. ~g_focused /\ 1 \in 1..n
          BY <2>1, <2>2, <3>2 DEF g
        <4>2. OutAt(g_focused, dev, 1)
          BY <4>1 DEF OutAt
        <4> QED
          BY <1>1, <2>2, <2>3, <3>2, <4>1, <4>2
      <3> QED
        BY <3>1, <3>2
    <2> QED
      BY <1>1, <2>1, <2>6, <2>7, <2>8 DEF FocusInv, FocusReported, g
  <1>4. CASE ReleaseNext
    BY <1>1, <1>4, ReleaseIs DEF FocusInv, FocusReported
  <1>5. CASE ReleaseButtons
    BY <1>1, <1>5, ReleasedIs DEF FocusInv, FocusReported
  <1>6. CASE EndDrain \/ StartDrain \/ DG_GetKey \/ Turn \/ UNCHANGED vars
    BY <1>1, <1>6, OthersIs DEF FocusInv, FocusReported, Idle
  <1> QED
    BY <1>2, <1>3, <1>4, <1>5, <1>6 DEF Next, Work

LEMMA HeldStep == TypeOK /\ FocusInv /\ HeldInv /\ [Next]_vars => HeldInv'
  <1> SUFFICES ASSUME TypeOK, FocusInv, HeldInv, [Next]_vars PROVE HeldInv'
    OBVIOUS
  <1>1. /\ dev \in Seq(Report) /\ g_focused \in BOOLEAN /\ told = g_buttons
        /\ \A x \in Codes \cup Buttons : x \notin held => ComesUp(x)
    BY DEF TypeOK, HeldInv
  <1>2. CASE Act
    <2>1. PICK e \in Report :
            /\ Reports(e)
            /\ \A x : x \notin held' => ~Sets(e, x) /\ (x \in held => Clears(e, x))
      BY <1>2, ActIs
    <2>2. /\ UNCHANGED <<mine, told>>
          /\ dev' = IF source = "window" /\ e.type # "focus" /\ ~focus THEN dev ELSE Append(dev, e)
      BY <2>1 DEF Reports
    <2>3. UNCHANGED <<g_focused, phase, g_buttons, g_sent>>
      BY <2>2 DEF mine
    <2>4. ASSUME NEW x \in Codes \cup Buttons, x \notin held'
          PROVE  /\ Sent(x) => phase = "release" \/ SomeClears(dev', x)
                 /\ ClearsLast(dev', x)
      <3>1. ~Sets(e, x) /\ (x \in held => Clears(e, x))
        BY <2>1, <2>4
      <3>2. CASE dev' = Append(dev, e)
        <4> DEFINE r == Append(dev, e)
        <4>1. /\ SomeClears(r, x) <=> SomeClears(dev, x) \/ Clears(e, x)
              /\ ClearsLast(dev, x) /\ ~Sets(e, x) => ClearsLast(r, x)
              /\ Clears(e, x) => ClearsLast(r, x)
          BY <1>1, JoinedClears
        <4> HIDE DEF r
        <4>2. /\ Sent(x) => phase = "release" \/ SomeClears(r, x)
              /\ ClearsLast(r, x)
          BY <1>1, <3>1, <4>1 DEF ComesUp
        <4> QED
          BY <3>2, <4>2 DEF r
      <3>3. CASE dev' = dev /\ ~focus
        <4>1. ClearsLast(dev, x) /\ (~g_focused \/ SomeClears(dev, x))
          BY <1>1, <3>3, OutClears DEF FocusInv, FocusReported
        <4>2. ~g_focused /\ phase # "release" => ~Sent(x)
          BY DEF FocusInv, Idle, Sent
        <4> QED
          BY <3>3, <4>1, <4>2
      <3> QED
        BY <2>2, <3>2, <3>3
    <2>5. \A x : Sent(x)' <=> Sent(x)
      BY <2>3 DEF Sent
    <2>6. ASSUME NEW x \in Codes \cup Buttons, x \notin held' PROVE ComesUp(x)'
      BY <2>3, <2>4, <2>5, <2>6 DEF ComesUp, SomeClears, ClearsLast
    <2> QED
      BY <1>1, <2>2, <2>3, <2>6 DEF HeldInv
  <1>3. CASE Handle
    <2> DEFINE e == Head(dev)
               r == Tail(dev)
    <2>1. /\ e \in Report /\ dev # <<>> /\ dev' = r /\ phase = "drain" /\ held' = held
          /\ Loses(e) => phase' = "release"
          /\ \A x : Sent(x)' => Sets(e, x) \/ (Sent(x) /\ ~(Of(e, x) /\ e.value = 0))
          /\ told' = g_buttons'
      BY <1>1, <1>3, HandleIs
    <2>2. \A x : /\ SomeClears(dev, x) => Clears(e, x) \/ SomeClears(r, x)
                 /\ ClearsLast(dev, x) => ClearsLast(r, x)
                 /\ ClearsLast(dev, x) /\ Sets(e, x) => SomeClears(r, x)
      BY <1>1, <2>1, TakenClears
    <2> HIDE DEF e, r
    <2>3. ASSUME NEW x \in Codes \cup Buttons, x \notin held
          PROVE  (Sent(x)' => phase' = "release" \/ SomeClears(r, x)) /\ ClearsLast(r, x)
      <3>1. /\ Sent(x) => SomeClears(dev, x)
            /\ ClearsLast(dev, x)
        BY <1>1, <2>1, <2>3 DEF ComesUp
      <3>2. ClearsLast(r, x)
        BY <2>2, <3>1
      <3>3. ASSUME Sent(x)' PROVE phase' = "release" \/ SomeClears(r, x)
        <4>1. CASE Sets(e, x)
          BY <2>2, <3>1, <4>1
        <4>2. CASE Sent(x) /\ ~(Of(e, x) /\ e.value = 0)
          BY <2>1, <2>2, <3>1, <4>2 DEF Clears
        <4> QED
          BY <2>1, <3>3, <4>1, <4>2
      <3> QED
        BY <3>2, <3>3
    <2>4. ASSUME NEW x \in Codes \cup Buttons, x \notin held PROVE ComesUp(x)'
      BY <2>1, <2>3, <2>4 DEF ComesUp, SomeClears, ClearsLast
    <2> QED
      BY <2>1, <2>4 DEF HeldInv
  <1>4. CASE ReleaseNext
    BY <1>1, <1>4, ReleaseIs DEF HeldInv, ComesUp, SomeClears, ClearsLast
  <1>5. CASE ReleaseButtons
    <2>1. \A x : ~Sent(x)'
      BY <1>5, ReleasedIs DEF Sent, Idle
    <2> QED
      BY <1>1, <1>5, <2>1, ReleasedIs DEF HeldInv, ComesUp, SomeClears, ClearsLast
  <1>6. CASE EndDrain \/ StartDrain \/ DG_GetKey \/ Turn \/ UNCHANGED vars
    <2>1. \A x : Sent(x)' <=> Sent(x)
      BY <1>6, OthersIs DEF Sent
    <2> QED
      BY <1>1, <1>6, <2>1, OthersIs DEF HeldInv, ComesUp, SomeClears, ClearsLast
  <1> QED
    BY <1>2, <1>3, <1>4, <1>5, <1>6 DEF Next, Work

LEMMA InputInit == Init => FocusInv /\ HeldInv
  <1> SUFFICES ASSUME Init PROVE FocusInv /\ HeldInv
    OBVIOUS
  <1>1. Len(dev) = 0
    BY EmptySeq DEF Init
  <1>2. ~OutAt(g_focused, dev, Len(dev) + 1)
    BY <1>1 DEF Init, OutAt
  <1>3. \A x : ~Sent(x)
    BY DEF Init, Sent
  <1>4. FocusInv
    <2>1. focus = TRUE /\ g_focused = TRUE
      BY DEF Init
    <2>2. \A i \in 1..Len(dev) : FALSE
      BY <1>1
    <2>3. FocusReported
      BY <1>2, <2>1, <2>2, Zenon DEF FocusReported
    <2> QED
      BY <2>1, <2>3 DEF FocusInv
  <1>5. \A x : ComesUp(x)
    BY <1>1, <1>3 DEF ComesUp, ClearsLast
  <1>6. HeldInv
    BY <1>5 DEF Init, HeldInv
  <1> QED
    BY <1>4, <1>6

\* For every keyboard, mapping, order of reports, changes of focus in the middle of
\* them too: a window that is out of focus has nothing down when it has drained
\* (lines 199-203, 277-280).
THEOREM OutOfFocusCorrect == Spec => []OutOfFocusIsIdle
  <1>1. FocusInv => OutOfFocusIsIdle
    BY DEF FocusInv, OutOfFocusIsIdle, Idle
  <1> QED
    BY <1>1, InputInit, FocusStep, TypeCorrect, PTL DEF Spec

\* What the game holds down, or is told is down, when all reports have been drained
\* and taken is held by the user, or its release found the queue full
\* (lines 138-203, 277-280).
THEOREM HeldCorrect == Spec => []DownIsHeld
  <1>1. TypeOK /\ NoStuckKey /\ HeldInv => DownIsHeld
    <2> SUFFICES ASSUME TypeOK, NoStuckKey, HeldInv, phase = "game", dev = <<>>, queue = <<>>
                 PROVE  /\ \A k \in down \ lost : \E c \in held \cap Codes : g_sent[c] = k
                        /\ told \subseteq held
      BY DEF DownIsHeld, Settled
    <2>1. Len(dev) = 0 /\ Len(queue) = 0
      BY EmptySeq
    <2>2. \A x \in Codes \cup Buttons : Sent(x) => x \in held
      BY <2>1 DEF HeldInv, ComesUp, SomeClears
    <2>3. ASSUME NEW k \in down \ lost PROVE \E c \in held \cap Codes : g_sent[c] = k
      <3>1. k \in Keys /\ k # None
        BY KeyAssumption DEF TypeOK
      <3>2. DownAfter(down, queue, k)
        BY <2>1 DEF DownAfter
      <3>3. PICK c \in Codes : g_sent[c] = k
        BY <3>1, <3>2 DEF NoStuckKey
      <3> QED
        BY <2>2, <3>1, <3>3 DEF Sent
    <2>4. told \subseteq held
      BY <2>2 DEF HeldInv, Sent, TypeOK
    <2> QED
      BY <2>3, <2>4
  <1> QED
    BY <1>1, InputInit, FocusStep, HeldStep, NoKeySticks, TypeCorrect, PTL DEF Spec
=============================================================================
