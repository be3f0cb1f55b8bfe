-------------------------- MODULE AltScreenProofs --------------------------
(***************************************************************************)
(* The alternate screen leaves no trace and the main screen comes back,     *)
(* for windows of any size.                                                *)
(***************************************************************************)
EXTENDS AltScreen, TLAPS

\* The smaller and the larger of two numbers.
LEMMA MinOf ==
  ASSUME NEW a \in Nat, NEW b \in Nat
  PROVE  Min({a, b}) = IF a <= b THEN a ELSE b
  <1> DEFINE m == IF a <= b THEN a ELSE b
  <1>1. m \in {a, b} /\ \A y \in {a, b} : m <= y
    OBVIOUS
  <1>2. \A x \in {a, b} : (\A y \in {a, b} : x <= y) => x = m
    OBVIOUS
  <1> QED
    BY <1>1, <1>2 DEF Min

LEMMA MaxOf ==
  ASSUME NEW a \in Nat, NEW b \in Nat
  PROVE  Max({a, b}) = IF a >= b THEN a ELSE b
  <1> DEFINE m == IF a >= b THEN a ELSE b
  <1>1. m \in {a, b} /\ \A y \in {a, b} : m >= y
    OBVIOUS
  <1>2. \A x \in {a, b} : (\A y \in {a, b} : x >= y) => x = m
    OBVIOUS
  <1> QED
    BY <1>1, <1>2 DEF Max

\* The invariant that is inductive.
Inv == TypeOK /\ NoTrace /\ Saved

LEMMA InvInit == Init => Inv
  <1> SUFFICES ASSUME Init PROVE Inv
    OBVIOUS
  <1>1. height \in Nat \ {0} /\ width \in Nat \ {0}
    BY ScreenAssumption DEF Init
  <1>2. height \in 1..MaxHeight /\ width \in 1..MaxWidth /\ pitch \in width..MaxWidth
    BY <1>1, ScreenAssumption DEF Init
  <1>3. row \in 0..height - 1 /\ column \in 0..width
    BY <1>1 DEF Init
  <1>4. rows \in [0..height - 1 -> Texts \union {Drawn, Blank}]
        /\ beyond \subseteq Texts \union {Drawn, Blank} /\ uncovered \in BOOLEAN
    BY DEF Init
  <1>5. NoTrace
    BY ScreenAssumption DEF Init, NoTrace
  <1> QED
    BY <1>2, <1>3, <1>4, <1>5 DEF Init, Inv, TypeOK, Saved

LEMMA EnterKeeps == Inv /\ terminal_enter_alt => Inv'
  <1> SUFFICES ASSUME Inv, terminal_enter_alt PROVE Inv'
    OBVIOUS
  <1> USE ScreenAssumption DEF Inv
  <1>1. CASE UNCHANGED vars
    BY <1>1 DEF vars, screen, TypeOK, NoTrace, Saved
  <1>2. CASE /\ alt = None
             /\ alt' = Now /\ rows' = Cleared
             /\ before' = Now
             /\ UNCHANGED <<height, width, pitch, row, column, beyond, uncovered>>
    <2>1. TypeOK'
      BY <1>2 DEF TypeOK, Cleared
    <2>2. NoTrace'
      BY <1>2 DEF NoTrace, Cleared
    <2>3. /\ rows \in [0..height - 1 -> Texts \union {Drawn, Blank}]
          /\ uncovered \/ \A i \in 0..height - 1 : rows[i] # Drawn
      BY <1>2 DEF TypeOK, NoTrace
    <2>4. Saved'
      BY <1>2, <2>3 DEF TypeOK, Saved, Now
    <2> QED
      BY <2>1, <2>2, <2>4
  <1> QED
    BY <1>1, <1>2 DEF terminal_enter_alt

\* A terminal that has another size shows nothing of what was saved.
LEMMA LeaveKeeps == Inv /\ terminal_leave_alt => Inv'
  <1> SUFFICES ASSUME Inv, terminal_leave_alt PROVE Inv'
    OBVIOUS
  <1> USE ScreenAssumption DEF Inv, terminal_leave_alt
  <1>1. /\ Restored \in [0..height - 1 -> Texts \union {Drawn, Blank}]
        /\ uncovered \/ \A i \in 0..height - 1 : Restored[i] # Drawn
    BY DEF Restored, Same, Saved, Cleared
  <1>2. row' \in 0..height - 1
    <2> DEFINE r == IF Same THEN alt.row ELSE row
    <2>1. r \in Nat /\ height \in Nat \ {0}
      BY DEF TypeOK, Saved
    <2>2. row' = IF r <= height - 1 THEN r ELSE height - 1
      BY <2>1, MinOf
    <2> HIDE DEF r
    <2>3. row' \in Nat /\ row' <= height - 1
      BY <2>1, <2>2
    <2> QED
      BY <2>1, <2>3
  <1>3. column' \in 0..width
    <2> DEFINE c == IF Same THEN alt.column ELSE column
    <2>1. c \in Nat /\ width \in Nat \ {0}
      BY DEF TypeOK, Saved
    <2>2. column' = IF c <= width - 1 THEN c ELSE width - 1
      BY <2>1, MinOf
    <2> HIDE DEF c
    <2>3. column' \in Nat /\ column' <= width
      BY <2>1, <2>2
    <2> QED
      BY <2>1, <2>3
  <1>4. TypeOK'
    BY <1>1, <1>2, <1>3 DEF TypeOK
  <1>5. NoTrace'
    BY <1>1 DEF NoTrace
  <1> QED
    BY <1>4, <1>5 DEF Saved

\* What is in the window.
LEMMA InWindow == TypeOK => Range(rows) = {rows[i] : i \in 0..height - 1}
  BY DEF Range, TypeOK

LEMMA WriteKeeps == Inv /\ Write => Inv'
  <1> SUFFICES ASSUME Inv, Write PROVE Inv'
    OBVIOUS
  <1> USE ScreenAssumption DEF Inv, Write
  <1>1. height \in Nat
    BY DEF TypeOK
  <1>2. rows' \in [0..height - 1 -> Texts \union {Drawn, Blank}]
    BY <1>1 DEF TypeOK
  <1>3. ASSUME alt = None, ~uncovered, NEW i \in 0..height - 1
        PROVE  rows'[i] # Drawn
    BY <1>1, <1>3 DEF TypeOK, NoTrace
  <1>4. TypeOK'
    BY <1>2, InWindow DEF TypeOK
  <1>5. NoTrace'
    BY <1>3 DEF NoTrace
  <1> QED
    BY <1>4, <1>5 DEF Saved

LEMMA ResizeKeeps == Inv /\ Resize => Inv'
  <1> SUFFICES ASSUME Inv, Resize PROVE Inv'
    OBVIOUS
  <1> USE ScreenAssumption DEF Inv, Resize
  <1>1. pitch' \in width'..MaxWidth
    <2>1. pitch \in Nat /\ width' \in Nat
      BY DEF TypeOK
    <2> QED
      BY <2>1, MaxOf DEF TypeOK
  <1>2. \A i \in 0..height' - 1 :
          \/ rows'[i] \in beyond \union {Blank}
          \/ \E j \in 0..height - 1 : rows'[i] = rows[j]
    BY InWindow
  <1>3. TypeOK'
    BY <1>1, InWindow DEF TypeOK
  <1>4. NoTrace'
    BY <1>2 DEF NoTrace
  <1>5. Saved'
    BY DEF Saved
  <1> QED
    BY <1>3, <1>4, <1>5

LEMMA ReuseKeeps == Inv /\ Reuse => Inv'
  BY DEF Inv, Reuse, screen, TypeOK, NoTrace, Saved

LEMMA InvStep == Inv /\ [Next]_vars => Inv'
  <1> SUFFICES ASSUME Inv, [Next]_vars PROVE Inv'
    OBVIOUS
  <1>1. CASE UNCHANGED vars
    BY <1>1 DEF Inv, vars, screen, TypeOK, NoTrace, Saved
  <1> QED
    BY <1>1, EnterKeeps, LeaveKeeps, WriteKeeps, ResizeKeeps, ReuseKeeps DEF Next

\* Back on the main screen nothing that was drawn on the alternate one is in the
\* window, for windows of any size, until rows that had left it are brought back
\* (lines 40-48, 58-74).
THEOREM NoTraceStays == Spec => []NoTrace
  <1>1. Inv => NoTrace
    BY DEF Inv
  <1> QED
    BY <1>1, InvInit, InvStep, PTL DEF Spec

\* What the step that leaves the alternate screen must bring.
Back ==
  IF height = before.height /\ pitch = before.pitch
  THEN /\ rows' = before.rows /\ row' = before.row
       /\ column' = Min({before.column, width - 1})
  ELSE /\ \A i \in 0..height - 1 : rows'[i] = Blank
       /\ row' = row /\ column' = Min({column, width - 1})

LEMMA LeaveBringsBack == Inv /\ terminal_leave_alt => Back
  <1> SUFFICES ASSUME Inv, terminal_leave_alt PROVE Back
    OBVIOUS
  <1>1. alt = before /\ (Same <=> height = before.height /\ pitch = before.pitch)
    BY DEF terminal_leave_alt, Inv, Saved, Same
  <1>2. height - 1 \in Nat /\ row \in Nat /\ row <= height - 1
    BY DEF Inv, TypeOK
  <1>3. CASE Same
    <2>1. alt.row \in Nat /\ alt.row <= height - 1
      BY <1>3 DEF terminal_leave_alt, Inv, TypeOK, Saved, Same
    <2> QED
      BY <1>1, <1>2, <1>3, <2>1, MinOf DEF terminal_leave_alt, Restored, Back
  <1>4. CASE ~Same
    <2>1. \A i \in 0..height - 1 : rows'[i] = Blank
      BY <1>4 DEF terminal_leave_alt, Restored, Cleared
    <2>2. row' = row
      BY <1>2, <1>4, MinOf DEF terminal_leave_alt
    <2> QED
      BY <1>1, <1>4, <2>1, <2>2 DEF terminal_leave_alt, Back
  <1> QED
    BY <1>3, <1>4

\* A program that leaves finds the main screen as it was before it entered,
\* whatever it did and however its window changed, if that has its size again
\* and rows no longer than then, and otherwise an empty one (lines 24-37, 58-82).
THEOREM MainIsBack == Spec => MainComesBack
  <1>1. Inv /\ [Next]_vars => [(alt # None /\ alt' = None) => Back]_vars
    <2> SUFFICES ASSUME Inv, Next, alt # None, alt' = None
                 PROVE  Back
      BY DEF vars
    <2>1. CASE terminal_leave_alt
      BY <2>1, LeaveBringsBack
    <2>2. CASE terminal_enter_alt \/ Write \/ Resize \/ Reuse
      BY <2>2 DEF terminal_enter_alt, Write, Resize, Reuse, vars
    <2> QED
      BY <2>1, <2>2 DEF Next
  <1> QED
    BY <1>1, InvInit, InvStep, PTL DEF Spec, MainComesBack, Back
=============================================================================
