----------------------------- MODULE PickerProofs -----------------------------
(***************************************************************************)
(* Proofs about Picker for every menu length, entry limit and console size *)
(* the assumption allows.                                                  *)
(***************************************************************************)
EXTENDS Picker, TLAPS

\* The window holds at least one entry and no more than there are.
LEMMA VisibleBounds ==
    ASSUME NEW rows \in Nat, NEW n \in Nat, n > 0
    PROVE  /\ VisibleCount(rows, n) \in Nat
           /\ VisibleCount(rows, n) >= 1
           /\ VisibleCount(rows, n) <= n
           /\ rows >= 11 => VisibleCount(rows, n) <= rows - 10
           /\ rows < 11 => VisibleCount(rows, n) = 1
  BY DEF VisibleCount

\* The selection is inside the window whatever its length.
LEMMA SelectionInWindow ==
    ASSUME NEW rows \in Nat, NEW n \in Nat, NEW sel \in Nat, n > 0, sel < n
    PROVE  /\ FirstShown(rows, n, sel) \in Nat
           /\ FirstShown(rows, n, sel) <= sel
           /\ sel < FirstShown(rows, n, sel) + VisibleCount(rows, n)
<1> DEFINE v == VisibleCount(rows, n)
           h == v \div 2
           c == IF sel > h THEN sel - h ELSE 0
<1>1. v \in Nat /\ v >= 1 /\ v <= n
  BY VisibleBounds
<1>2. h \in Nat /\ h < v
  <2> HIDE DEF v
  <2> QED BY <1>1
<1>3. FirstShown(rows, n, sel) = IF c < n - v THEN c ELSE n - v
  BY DEF FirstShown
<1> HIDE DEF v, h
<1>4. c \in Nat /\ c <= sel /\ sel < c + v
  BY <1>1, <1>2
<1> HIDE DEF c
<1>5. n - v \in Nat
  BY <1>1
<1>6. CASE c < n - v
  BY <1>3, <1>4, <1>6 DEF v
<1>7. CASE ~(c < n - v)
  <2>1. FirstShown(rows, n, sel) = n - v
    BY <1>3, <1>7
  <2>2. n - v <= sel /\ sel < (n - v) + v
    BY <1>1, <1>4, <1>5, <1>7
  <2> QED
    BY <2>1, <2>2, <1>5 DEF v
<1> QED
  BY <1>6, <1>7

\* A whole text menu leaves the selected entry on the display, also when the
\* layout had to assume DefaultRows.
LEMMA SelectionOnScreen ==
    ASSUME NEW rows \in Rows, NEW layout \in {rows, DefaultRows},
           NEW n \in Nat, NEW sel \in Nat, n > 0, sel < n
    PROVE  OnScreen(layout, rows, n, sel)
<1>1. rows \in Nat /\ layout \in Nat /\ rows >= layout /\ layout >= 7
  BY PickerAssumption
<1> DEFINE v == VisibleCount(layout, n)
           f == FirstShown(layout, n, sel)
<1>2. v \in Nat /\ (layout >= 11 => v <= layout - 10) /\ (layout < 11 => v = 1)
  BY <1>1, VisibleBounds
<1>3. f \in Nat /\ f <= sel /\ sel < f + v
  BY <1>1, SelectionInWindow
<1>4. OnScreen(layout, rows, n, sel) <=>
        f <= sel /\ sel < f + v /\ 10 + v - rows <= 4 + (sel - f)
  BY DEF OnScreen
<1> HIDE DEF v, f
<1>5. 10 + v - rows <= 4 + (sel - f)
  BY <1>1, <1>2, <1>3
<1> QED
  BY <1>3, <1>4, <1>5

\* A text menu written without GOP marks the selection.
LEMMA WrittenMarksSelection ==
    ASSUME NEW shown, Written(shown), gop = "none", entries \in Nat, selected \in Nat,
           selected < entries
    PROVE  shown = selected
<1>0. PICK rows \in Rows : \E layout \in {rows, DefaultRows} :
        shown = IF gop = "none" /\ OnScreen(layout, rows, entries, selected)
                THEN selected ELSE -1
  BY DEF Written
<1>1. PICK layout \in {rows, DefaultRows} :
        shown = IF gop = "none" /\ OnScreen(layout, rows, entries, selected)
                THEN selected ELSE -1
  BY <1>0
<1>2. OnScreen(layout, rows, entries, selected)
  BY SelectionOnScreen
<1> QED
  BY <1>1, <1>2

\* Every step of choose keeps the display, the GOP guard and the accepted
\* entry in agreement.
LEMMA PickerStep ==
    ASSUME PickerInv, [Next]_vars
    PROVE  PickerInv'
<1> USE PickerAssumption DEF PickerInv, TypeOK, Labels, KeyOnVisibleMenu, ConsoleRestored
<1>0. entries \in Nat
  OBVIOUS
<1>1. CASE RefuseMenu
  BY <1>1 DEF RefuseMenu, Errors, LoaderErrors
<1>2. CASE HideCursor
  BY <1>2 DEF HideCursor
<1>3. CASE OpenGop
  BY <1>3 DEF OpenGop
<1>4. CASE Render
  BY <1>4 DEF Render
<1>5. CASE RenderFailed
  BY <1>5, <1>0 DEF RenderFailed
<1>6. CASE DrawText
  <2>1. marked' = selected
    BY <1>6, <1>0, WrittenMarksSelection DEF DrawText
  <2> QED
    BY <1>6, <2>1 DEF DrawText
<1>7. CASE DrawTextFailed
  BY <1>7, <1>0 DEF DrawTextFailed, Return, Errors, LoaderErrors
<1>8. CASE ReadMove
  BY <1>8, <1>0 DEF ReadMove, Navigate
<1>9. CASE ReadEnter
  BY <1>9 DEF ReadEnter
<1>10. CASE ReadEscape
  BY <1>10 DEF ReadEscape
<1>11. CASE ReadFailed
  BY <1>11 DEF ReadFailed, Return, Errors
<1>12. CASE Confirm
  <2>1. marked' = selected
    BY <1>12, <1>0, WrittenMarksSelection DEF Confirm
  <2> QED
    BY <1>12, <2>1 DEF Confirm, Return
<1>13. CASE ConfirmFailed
  BY <1>13, <1>0 DEF ConfirmFailed, Return
<1>14. CASE ClearText
  BY <1>14, <1>0 DEF ClearText, Return
<1>15. CASE DropGop
  BY <1>15 DEF DropGop
<1>16. CASE DropCursor
  BY <1>16 DEF DropCursor
<1>17. CASE DropCursorRefused
  BY <1>17 DEF DropCursorRefused
<1>18. CASE UNCHANGED vars
  BY <1>18 DEF vars
<1> QED
  BY <1>1, <1>2, <1>3, <1>4, <1>5, <1>6, <1>7, <1>8, <1>9, <1>10, <1>11, <1>12, <1>13,
     <1>14, <1>15, <1>16, <1>17, <1>18 DEF Next, Returned

\* PickerInv holds of every behaviour of choose.
THEOREM PickerInvariant == Spec => []PickerInv
<1>1. Init => PickerInv
  BY PickerAssumption DEF Init, PickerInv, TypeOK, Labels, KeyOnVisibleMenu, ConsoleRestored
<1>2. PickerInv /\ [Next]_vars => PickerInv'
  BY PickerStep
<1> QED
  BY <1>1, <1>2, PTL DEF Spec

\* No key is ever awaited without a visible menu that marks the selection.
THEOREM NoBlindBoot == Spec => []KeyOnVisibleMenu
<1>1. PickerInv => KeyOnVisibleMenu
  BY DEF PickerInv
<1> QED
  BY <1>1, PickerInvariant, PTL

\* The entry returned is the one marked when Enter was read.
THEOREM ShownIsBooted == Spec => []BootsWhatWasShown
<1>1. PickerInv => BootsWhatWasShown
  BY DEF PickerInv, BootsWhatWasShown
<1> QED
  BY <1>1, PickerInvariant, PTL

\* Every way out releases GOP and restores the cursor.
THEOREM ConsoleIsRestored == Spec => []ConsoleRestored
<1>1. PickerInv => ConsoleRestored
  BY DEF PickerInv
<1> QED
  BY <1>1, PickerInvariant, PTL

\* What is known of the answer at each control point.
AnswerInv ==
    /\ pc \notin {"enter", "done"} => entries \in 1..MaxEntries
    /\ pc = "confirm" => index < entries
    /\ pc \in {"drop_gop", "drop_cursor"} =>
          \/ answer = "boot" /\ index < entries
          \/ answer \in {"cancel", "DEVICE_ERROR"} \cup FirmwareErrors
    /\ AnswersAsAgreed

\* Every step of choose keeps it.
LEMMA AnswerStep ==
    ASSUME PickerInv, AnswerInv, [Next]_vars
    PROVE  AnswerInv'
<1>0. /\ entries \in Nat /\ selected \in Nat /\ MaxEntries \in Nat /\ pc \in Labels
      /\ pc = "key" => selected < entries
      /\ pc = "enter" => saved = "unset"
  BY PickerAssumption DEF PickerInv, TypeOK
<1> USE <1>0 DEF AnswerInv, AnswersAsAgreed, Labels
<1>1. CASE RefuseMenu
  BY <1>1 DEF RefuseMenu
<1>2. CASE HideCursor
  BY <1>2 DEF HideCursor
<1>3. CASE OpenGop
  BY <1>3 DEF OpenGop
<1>4. CASE Render
  BY <1>4 DEF Render
<1>5. CASE RenderFailed
  BY <1>5 DEF RenderFailed
<1>6. CASE DrawText
  BY <1>6 DEF DrawText
<1>7. CASE DrawTextFailed
  BY <1>7 DEF DrawTextFailed, Return
<1>8. CASE ReadMove
  BY <1>8 DEF ReadMove
<1>9. CASE ReadEnter
  BY <1>9 DEF ReadEnter
<1>10. CASE ReadEscape
  BY <1>10 DEF ReadEscape
<1>11. CASE ReadFailed
  BY <1>11 DEF ReadFailed, Return
<1>12. CASE Confirm
  BY <1>12 DEF Confirm, Return
<1>13. CASE ConfirmFailed
  BY <1>13 DEF ConfirmFailed, Return
<1>14. CASE ClearText
  BY <1>14 DEF ClearText, Return
<1>15. CASE DropGop
  BY <1>15 DEF DropGop
<1>16. CASE DropCursor
  BY <1>16 DEF DropCursor
<1>17. CASE DropCursorRefused
  BY <1>17 DEF DropCursorRefused
<1>18. CASE UNCHANGED vars
  BY <1>18 DEF vars
<1> QED
  BY <1>1, <1>2, <1>3, <1>4, <1>5, <1>6, <1>7, <1>8, <1>9, <1>10, <1>11, <1>12, <1>13,
     <1>14, <1>15, <1>16, <1>17, <1>18 DEF Next, Returned

\* For every menu choose returns one of the answers main's three picker steps
\* take, with an entry of the menu and no other (picker::choose).
THEOREM AnswersAgreed == Spec => []AnswersAsAgreed
<1>1. Init => AnswerInv
  BY DEF Init, AnswerInv, AnswersAsAgreed
<1>2. PickerInv /\ AnswerInv /\ [Next]_vars => AnswerInv'
  BY AnswerStep
<1>3. AnswerInv => AnswersAsAgreed
  BY DEF AnswerInv
<1> QED
  BY <1>1, <1>2, <1>3, PickerInvariant, PTL DEF Spec
=============================================================================
