----------------------------- MODULE AltScreen -----------------------------
(***************************************************************************)
(* The alternate screen of Weston's terminal (the repository's patch 0002   *)
(* of weston): a program enters it with mode 47, 1047 or 1049, draws, and   *)
(* leaves, and finds the main screen as it was, unless the window changed   *)
(* its size in between.                                                    *)
(*                                                                         *)
(* A row of characters and their attributes is one value.  Weston keeps the *)
(* rows in a ring that is larger than the window: what scrolls out of the   *)
(* window stays in it, and comes back when the window grows or the user     *)
(* scrolls it.  Which rows that are is Weston's: any of them may.           *)
(***************************************************************************)
EXTENDS Integers, FiniteSetsExt, Functions

CONSTANTS
  Texts,       \* what a program writes on the main screen
  Drawn,       \* what it draws on the alternate one
  Blank,       \* a row of zeros
  None,
  MaxHeight, MaxWidth   \* bounds

ASSUME ScreenAssumption ==
  /\ Texts \cap {Drawn, Blank} = {} /\ Drawn # Blank
  /\ MaxHeight \in Nat \ {0} /\ MaxWidth \in Nat \ {0}

VARIABLES
  height, width,
  pitch,        \* data_pitch and attr_pitch: a row is as long as the widest so far
  rows,         \* what is in the window
  beyond,       \* what is in the ring outside of it
  row, column,  \* the cursor; the column is beyond the last before a line wraps
  alt,          \* alt_data and the fields with it, None when alt_data is NULL
  before,       \* history: the terminal when the program went to the alternate screen
  uncovered     \* history: on the main screen the window was moved over a ring
                \* that had rows of the alternate one

screen == <<height, width, pitch, rows, row, column>>
vars == <<screen, beyond, alt, before, uncovered>>

Now == [rows |-> rows, height |-> height, pitch |-> pitch, row |-> row, column |-> column]

Init ==
  /\ height \in 1..MaxHeight /\ width \in 1..MaxWidth /\ pitch = width
  /\ rows = [i \in 0..height - 1 |-> Blank]
  /\ row = 0 /\ column = 0 /\ beyond = {Blank}
  /\ alt = None /\ before = None /\ uncovered = FALSE

Cleared == [i \in 0..height - 1 |-> Blank]

\* Mutant: entering again saves the alternate screen over the main one.
terminal_enter_alt_again ==
  \/ /\ alt' = Now /\ rows' = Cleared
     /\ before' = IF alt = None THEN Now ELSE before
     /\ UNCHANGED <<height, width, pitch, row, column, beyond, uncovered>>
  \/ UNCHANGED vars

\* There may be no memory, and the program goes on on the main screen.
terminal_enter_alt ==
  \/ /\ alt = None
     /\ alt' = Now /\ rows' = Cleared
     /\ before' = Now
     /\ UNCHANGED <<height, width, pitch, row, column, beyond, uncovered>>
  \/ UNCHANGED vars

Same == alt.height = height /\ alt.pitch = pitch

\* Mutant: a terminal of another size keeps what it shows.
RestoredIfSame == IF Same THEN alt.rows ELSE rows

Restored == IF Same THEN alt.rows ELSE Cleared

terminal_leave_alt ==
  /\ alt # None
  /\ rows' = Restored
  /\ row' = Min({IF Same THEN alt.row ELSE row, height - 1})
  /\ column' = Min({IF Same THEN alt.column ELSE column, width - 1})
  /\ alt' = None
  /\ UNCHANGED <<height, width, pitch, beyond, before, uncovered>>

-----------------------------------------------------------------------------
\* The rest of the terminal.

\* A program writes a row or moves the cursor, or a line more than there is room
\* for, or one above the first, moves all rows and leaves a blank one.
Write ==
  /\ \/ /\ \E i \in 0..height - 1 :
             \E t \in IF alt = None THEN Texts ELSE {Drawn} : rows' = [rows EXCEPT ![i] = t]
        /\ UNCHANGED beyond
     \/ /\ \E d \in {-1, 1} :
             rows' = [i \in 0..height - 1 |-> IF i + d \in 0..height - 1 THEN rows[i + d] ELSE Blank]
        /\ beyond' = beyond \union Range(rows)
  /\ row' \in 0..height - 1 /\ column' \in 0..width
  /\ UNCHANGED <<height, width, pitch, alt, before, uncovered>>

\* The window changes its size, or the user scrolls it.
Resize ==
  /\ height' \in 1..MaxHeight /\ width' \in 1..MaxWidth
  /\ pitch' = Max({pitch, width'})
  /\ rows' \in [0..height' - 1 -> Range(rows) \union beyond \union {Blank}]
  /\ beyond' = beyond \union Range(rows)
  /\ row' \in 0..height' - 1 /\ column' \in 0..width'
  /\ uncovered' = (uncovered \/ (alt = None /\ Drawn \in beyond))
  /\ UNCHANGED <<alt, before>>

\* Rows of the ring are used for others.
Reuse == beyond' \in SUBSET beyond /\ UNCHANGED <<screen, alt, before, uncovered>>

Next == terminal_enter_alt \/ terminal_leave_alt \/ Write \/ Resize \/ Reuse

Spec == Init /\ [][Next]_vars
-----------------------------------------------------------------------------
\* Back on the main screen, nothing that was drawn on the alternate one is in the
\* window, whatever sizes the window had meanwhile and however it was scrolled.
\* The ring outside the window is not cleared, and what left the window while it
\* was drawn on may come back when the window is made larger or scrolled on the
\* main screen: that is where this ends (lines 40-48, 58-74).
NoTrace == (alt = None /\ ~uncovered) => \A i \in 0..height - 1 : rows[i] # Drawn

\* A program that leaves finds the rows and the cursor that were there before it
\* entered, however often it entered, whatever it drew, and whatever sizes the
\* window had, if it has the size of then and was never wider than it ever was;
\* and otherwise an empty window, with the cursor where it is (lines 24-37, 58-82).
MainComesBack ==
  [][(alt # None /\ alt' = None) =>
       IF height = before.height /\ pitch = before.pitch
       THEN /\ rows' = before.rows /\ row' = before.row
            /\ column' = Min({before.column, width - 1})
       ELSE /\ \A i \in 0..height - 1 : rows'[i] = Blank
            /\ row' = row /\ column' = Min({column, width - 1})]_vars

\* The cursor is on the screen.
TypeOK ==
  /\ height \in 1..MaxHeight /\ width \in 1..MaxWidth /\ pitch \in width..MaxWidth
  /\ rows \in [0..height - 1 -> Texts \union {Drawn, Blank}]
  /\ beyond \subseteq Texts \union {Drawn, Blank} /\ uncovered \in BOOLEAN
  /\ row \in 0..height - 1 /\ column \in 0..width

\* Why both hold: what is saved is what was there before, and of the main screen
\* unless rows of the alternate one came back to it.
Saved ==
  alt # None =>
    /\ alt = before
    /\ alt.height \in 1..MaxHeight /\ alt.row \in 0..alt.height - 1 /\ alt.column \in Nat
    /\ alt.rows \in [0..alt.height - 1 -> Texts \union {Drawn, Blank}]
    /\ uncovered \/ \A i \in 0..alt.height - 1 : alt.rows[i] # Drawn
=============================================================================
