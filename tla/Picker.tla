-------------------------------- MODULE Picker --------------------------------
(***************************************************************************)
(* picker.rs: choose, its GOP and text renderers and read_action.          *)
(*                                                                         *)
(* The display is state: what the person at the keyboard sees.  While the  *)
(* GOP guard is held the firmware's text console is detached from the      *)
(* display, so text output and cursor requests have no effect.             *)
(***************************************************************************)
EXTENDS EfiStatus, Integers

CONSTANTS
    MaxEntries,    \* the 64 entries choose accepts, scaled down
    MenuSizes,     \* lengths of the entry list passed to choose
    Rows,          \* text rows the firmware's current mode may have
    DefaultRows    \* the 25 rows assumed when the mode cannot be queried

\* Four header lines, one entry and six lines below it fit in 11 rows; with 7
\* the header scrolls off and the entry does not.  UEFI consoles have 25.
ASSUME PickerAssumption ==
    /\ MaxEntries \in Nat \ {0}
    /\ MenuSizes \subseteq Nat
    /\ DefaultRows \in Nat /\ DefaultRows >= 7
    /\ Rows \subseteq {r \in Nat : r >= DefaultRows}
    /\ FirmwareErrors \cap {"none", "boot", "cancel"} = {}

VARIABLES
    pc,         \* the next step of choose
    entries,    \* entries.len()
    gop,        \* the exclusive GOP guard: "none" or "held"
    cursor,     \* the console's cursor: "shown" or "hidden"
    saved,      \* Cursor.0, the state to restore; "unset" before it is read
    selected,   \* the current selection
    marked,     \* display: the marked entry, -1 when no whole menu is visible
    accepted,   \* history: the entry marked when Enter was read, else -1
    refused,    \* history: the firmware refused to restore the cursor ("yes")
    answer,     \* "none", then "boot", "cancel" or the error returned
    index       \* the index returned with "boot"

vars == <<pc, entries, gop, cursor, saved, selected, marked, accepted, refused, answer,
          index>>

Labels == {"enter", "open", "render", "text", "key", "confirm", "clear", "drop_gop",
           "drop_cursor", "done"}

TypeOK ==
    /\ pc \in Labels
    /\ entries \in MenuSizes
    /\ gop \in {"none", "held"}
    /\ cursor \in {"shown", "hidden"}
    /\ saved \in {"unset", "shown", "hidden"}
    /\ selected \in Nat /\ (selected = 0 \/ selected < entries)
    /\ marked \in Int /\ marked < entries
    /\ accepted \in Int /\ accepted < entries
    /\ refused \in {"no", "yes"}
    /\ answer \in {"none", "boot", "cancel"} \cup Errors
    /\ index \in Nat

Init ==
    /\ pc = "enter"
    /\ entries \in MenuSizes
    /\ gop = "none"
    /\ cursor \in {"shown", "hidden"}
    /\ saved = "unset"
    /\ selected = 0
    /\ marked = -1
    /\ accepted = -1
    /\ refused = "no"
    /\ answer = "none"
    /\ index = 0

-----------------------------------------------------------------------------
(* The text layout                                                         *)

\* visible: rows.saturating_sub(10).max(1).min(names.len())
VisibleCount(rows, n) ==
    LET room == IF rows > 11 THEN rows - 10 ELSE 1
    IN  IF room < n THEN room ELSE n

\* first: the selection is centred unless that runs past either end.
FirstShown(rows, n, sel) ==
    LET visible == VisibleCount(rows, n)
        centred == IF sel > visible \div 2 THEN sel - visible \div 2 ELSE 0
    IN  IF centred < n - visible THEN centred ELSE n - visible

\* The entry is one of those written, and its line is still there after the
\* last newline scrolled a console of `rows` rows.
OnScreen(layout, rows, n, sel) ==
    LET visible == VisibleCount(layout, n)
        first == FirstShown(layout, n, sel)
    IN  /\ first <= sel /\ sel < first + visible
        /\ 10 + visible - rows <= 4 + (sel - first)

-----------------------------------------------------------------------------
(* choose                                                                  *)

\* Locals drop in reverse order of declaration: the GOP guard, then Cursor.
Return(a) ==
    /\ pc' = "drop_gop"
    /\ answer' = a

\* An empty or oversized menu is refused before anything is touched.
RefuseMenu ==
    /\ pc = "enter"
    /\ entries = 0 \/ entries > MaxEntries
    /\ pc' = "done"
    /\ answer' = "INVALID_PARAMETER"
    /\ UNCHANGED <<entries, gop, cursor, saved, selected, marked, accepted, refused, index>>

\* The cursor state is saved and the cursor hidden; a refusal is ignored.
HideCursor ==
    /\ pc = "enter"
    /\ entries > 0 /\ entries <= MaxEntries
    /\ pc' = "open"
    /\ saved' = cursor
    /\ cursor' \in {cursor, "hidden"}
    /\ UNCHANGED <<entries, gop, selected, marked, accepted, refused, answer, index>>

\* GOP is located and opened exclusively, or the menu is text from the start.
OpenGop ==
    /\ pc = "open"
    /\ gop' \in {"none", "held"}
    /\ pc' = IF gop' = "held" THEN "render" ELSE "text"
    /\ UNCHANGED <<entries, cursor, saved, selected, marked, accepted, refused, answer, index>>

\* draw(..., false) submits a whole frame.
Render ==
    /\ pc = "render"
    /\ gop = "held"
    /\ pc' = "key"
    /\ marked' = selected
    /\ UNCHANGED <<entries, gop, cursor, saved, selected, accepted, refused, answer, index>>

\* The resolution cannot be rendered or Blt fails: GOP is released for good.
RenderFailed ==
    /\ pc = "render"
    /\ gop = "held"
    /\ pc' = "text"
    /\ gop' = "none"
    /\ marked' = -1
    /\ UNCHANGED <<entries, cursor, saved, selected, accepted, refused, answer, index>>

\* What the display shows after a whole text menu was written.  The mode is
\* queried on every draw and DefaultRows is assumed when the query fails.
Written(shown) ==
    \E rows \in Rows : \E layout \in {rows, DefaultRows} :
        shown = IF gop = "none" /\ OnScreen(layout, rows, entries, selected)
                THEN selected
                ELSE -1

\* draw_text(..., false): color and clear may fail, the menu lines may not.
DrawText ==
    /\ pc = "text"
    /\ pc' = "key"
    /\ Written(marked')
    /\ UNCHANGED <<entries, gop, cursor, saved, selected, accepted, refused, answer, index>>

\* Mutant: a failed menu write is treated as visible.
DrawTextFailedIgnored ==
    /\ pc = "text"
    /\ pc' = "key"
    /\ marked' = -1
    /\ UNCHANGED <<entries, gop, cursor, saved, selected, accepted, refused, answer, index>>

DrawTextFailed ==
    /\ pc = "text"
    /\ Return("DEVICE_ERROR")
    /\ marked' = -1
    /\ UNCHANGED <<entries, gop, cursor, saved, selected, accepted, refused, index>>

-----------------------------------------------------------------------------
(* read_action and navigate.  A wake-up without a key changes nothing.     *)

\* view::navigate (nextcore_core): a movement key may move the selection
\* anywhere in range and answers Redraw; Unchanged leaves it alone.
Navigate == 0..(entries - 1)

ReadMove ==
    /\ pc = "key"
    /\ selected' \in Navigate
    /\ pc' = IF gop = "held" THEN "render" ELSE "text"
    /\ UNCHANGED <<entries, gop, cursor, saved, marked, accepted, refused, answer, index>>

ReadEnter ==
    /\ pc = "key"
    /\ pc' = "confirm"
    /\ accepted' = marked
    /\ index' = selected
    /\ UNCHANGED <<entries, gop, cursor, saved, selected, marked, refused, answer>>

\* Escape: the guard is dropped before the text console is cleared.
ReadEscape ==
    /\ pc = "key"
    /\ pc' = "clear"
    /\ gop' = "none"
    /\ UNCHANGED <<entries, cursor, saved, selected, marked, accepted, refused, answer, index>>

\* The key event, the wait or ReadKeyStroke fails.
ReadFailed ==
    /\ pc = "key"
    /\ \E e \in FirmwareErrors : Return(e)
    /\ UNCHANGED <<entries, gop, cursor, saved, selected, marked, accepted, refused, index>>

\* The starting message in whichever renderer is active.
Confirm ==
    /\ pc = "confirm"
    /\ Return("boot")
    /\ \/ gop = "held" /\ marked' = selected
       \/ gop = "none" /\ Written(marked')
    /\ UNCHANGED <<entries, gop, cursor, saved, selected, accepted, refused, index>>

\* Mutant: `?` on the confirmation discards the accepted selection.
ConfirmFailedReturns ==
    /\ pc = "confirm"
    /\ Return("DEVICE_ERROR")
    /\ marked' = -1
    /\ UNCHANGED <<entries, gop, cursor, saved, selected, accepted, refused, index>>

\* Its failure is only reported.
ConfirmFailed ==
    /\ pc = "confirm"
    /\ Return("boot")
    /\ marked' = -1
    /\ UNCHANGED <<entries, gop, cursor, saved, selected, accepted, refused, index>>

\* The console is cleared, or refuses.
ClearText ==
    /\ pc = "clear"
    /\ Return("cancel")
    /\ marked' \in {marked, -1}
    /\ UNCHANGED <<entries, gop, cursor, saved, selected, accepted, refused, index>>

-----------------------------------------------------------------------------
(* The drops                                                               *)

\* Mutant: Cursor is declared after the guard and so restored before it.
DropGopLast ==
    /\ pc = "drop_gop"
    /\ pc' = "drop_cursor"
    /\ UNCHANGED <<entries, gop, cursor, saved, selected, marked, accepted, refused, answer,
                   index>>

DropGop ==
    /\ pc = "drop_gop"
    /\ pc' = "drop_cursor"
    /\ gop' = "none"
    /\ UNCHANGED <<entries, cursor, saved, selected, marked, accepted, refused, answer, index>>

\* enable_cursor(previous): without effect while GOP is owned.
DropCursor ==
    /\ pc = "drop_cursor"
    /\ pc' = "done"
    /\ cursor' = IF gop = "none" THEN saved ELSE cursor
    /\ UNCHANGED <<entries, gop, saved, selected, marked, accepted, refused, answer, index>>

DropCursorRefused ==
    /\ pc = "drop_cursor"
    /\ pc' = "done"
    /\ refused' = "yes"
    /\ UNCHANGED <<entries, gop, cursor, saved, selected, marked, accepted, answer, index>>

\* choose has returned.
Returned ==
    /\ pc = "done"
    /\ UNCHANGED vars

Next ==
    \/ RefuseMenu \/ HideCursor \/ OpenGop \/ Render \/ RenderFailed
    \/ DrawText \/ DrawTextFailed
    \/ ReadMove \/ ReadEnter \/ ReadEscape \/ ReadFailed
    \/ Confirm \/ ConfirmFailed \/ ClearText
    \/ DropGop \/ DropCursor \/ DropCursorRefused \/ Returned

Spec == Init /\ [][Next]_vars

-----------------------------------------------------------------------------
(* Properties                                                              *)

\* "a failed menu is not silently treated as visible, and there is no
\* automatic blind boot": whenever a key is awaited the display shows a menu
\* in which exactly the current selection is marked, whichever renderer drew
\* it, however many entries and rows there are and whatever failed before.
KeyOnVisibleMenu == pc = "key" => marked = selected

\* choose returns the entry that was marked when Enter was read, also when
\* the confirmation could not be drawn, and no entry without an Enter.
BootsWhatWasShown ==
    pc = "done" =>
        IF answer = "boot"
        THEN accepted = index /\ accepted >= 0
        ELSE accepted = -1

\* Every way out of choose leaves the GOP released and the cursor as it was,
\* unless the firmware refused to restore it: the guard is dropped before the
\* console it detaches is used.
ConsoleRestored ==
    pc = "done" /\ saved # "unset" =>
        /\ gop = "none"
        /\ cursor = saved \/ refused = "yes"

\* What choose returns is what main counts on: an entry of this menu, Escape,
\* or an error of the display or the input; a menu that is empty or too long
\* is refused as such and before the console is touched.
AnswersAsAgreed ==
    pc = "done" =>
        IF entries \in 1..MaxEntries
        THEN \/ answer = "boot" /\ index < entries
             \/ answer \in {"cancel", "DEVICE_ERROR"} \cup FirmwareErrors
        ELSE answer = "INVALID_PARAMETER" /\ saved = "unset"

\* The inductive strengthening: what is on the display, who owns GOP and what
\* was accepted at each control point.
PickerInv ==
    /\ TypeOK
    /\ pc = "enter" => saved = "unset"
    /\ pc \notin {"enter", "done"} => entries > 0 /\ saved # "unset"
    /\ pc \in {"render", "text", "key", "confirm"} => selected < entries
    /\ pc = "render" => gop = "held"
    /\ pc \in {"text", "clear", "drop_cursor"} => gop = "none"
    /\ KeyOnVisibleMenu
    /\ pc \in {"enter", "open", "render", "text", "key", "clear"} => accepted = -1
    /\ pc = "confirm" => accepted = index /\ accepted >= 0
    /\ pc \in {"drop_gop", "drop_cursor", "done"} =>
           IF answer = "boot" THEN accepted = index /\ accepted >= 0 ELSE accepted = -1
    /\ ConsoleRestored
=============================================================================
