--------------------------------- MODULE Status ---------------------------------
(***************************************************************************)
(* The instrument of warnings and cautions (modules/instruments/status.{h,   *)
(* cc}): messages that wait to be raised, those that are shown, and a cursor *)
(* with which the crew deletes, recalls and clears them.                    *)
(*                                                                         *)
(* process() is one step of the processing loop's thread.  Painting happens  *)
(* in another: of it only the cursor matters, which is put back into the     *)
(* list as it was when the painting was asked for.  Messages are added while *)
(* the machine is constructed.  Scrolling, severities and blinking are left  *)
(* out, and a cursor input that becomes nil.                                *)
(***************************************************************************)
EXTENDS Integers, SequencesExt

CONSTANT Messages

ASSUME StatusAssumption == IsFiniteSet(Messages) /\ Messages # {}

VARIABLES
    status,         \* the messages and the cursor
    resized         \* sizes of the lists that painting tasks have been given

statusVars == <<status, resized>>

\* Operators named Mut... are the defects the properties are tested with; nothing
\* uses them.

Count == Cardinality(Messages)

-----------------------------------------------------------------------------
\* Cache::solve_scroll_and_cursor() with a list of n messages
Solved(s, n) ==
    IF n = 0 THEN [s EXCEPT !.cursorVisible = FALSE, !.cursor = 0]
    ELSE IF s.cursor >= n THEN [s EXCEPT !.cursor = n - 1] ELSE s

\* cursor_up(), cursor_down()
CursorMoved(s, delta) ==
    LET n == Len(s.visible) IN
    IF delta = 0 THEN s
    ELSE IF ~s.cursorVisible /\ n > 0 THEN [s EXCEPT !.cursorVisible = TRUE]
    ELSE IF (delta > 0 /\ s.cursor > 0) \/ (delta < 0 /\ s.cursor < n - 1)
         THEN Solved([s EXCEPT !.cursor = @ - delta], n)
         ELSE s

\* Message::process() of all: a message that is outdated is not shown either,
\* the time being the one at which it got so.
Raise(s, raised) ==
    [s EXCEPT !.deleted = [m \in Messages |-> m \in raised /\ @[m]],
              !.shouldBeShown = {m \in raised : ~s.deleted[m]}]

\* cursor_del().  Past the end of the list it reads what memory holds there, a
\* message that was there before, and erases the last one.
CursorDel(s, stale) ==
    LET n == Len(s.visible)
        at == s.cursor + 1
    IN IF n = 0 \/ ~s.cursorVisible THEN s
       ELSE Solved([s EXCEPT !.hidden = Append(@, IF at <= n THEN s.visible[at] ELSE stale),
                             !.visible = RemoveAt(@, IF at <= n THEN at ELSE n)], n - 1)
\* recall(), and clear() when the last message has been shown long enough
Recall(s) ==
    LET all == s.visible \o s.hidden
    IN Solved([s EXCEPT !.visible = all, !.hidden = <<>>], Len(all))
Clear(s) == Solved([s EXCEPT !.visible = <<>>, !.hidden = @ \o s.visible], 0)

\* std::remove_if(): what it keeps goes to the front, one after another; behind,
\* the places keep what they had.
Kept(list, removed) ==
    LET front[n \in 0 .. Len(list)] ==
            IF n = 0 THEN <<>>
            ELSE IF list[n] \in removed THEN front[n - 1]
            ELSE Append(front[n - 1], list[n])
    IN front[Len(list)]
Behind(list, removed) == SubSeq(list, Len(Kept(list, removed)) + 1, Len(list))

\* The second part of process(): the messages change their lists.
ToShow(s) ==
    LET shown == s.shouldBeShown
    IN [s EXCEPT !.hidden = Kept(@, shown), !.visible = @ \o Behind(s.hidden, shown)]
ToHide(s) ==
    LET hidden == Messages \ s.shouldBeShown
    IN [s EXCEPT !.visible = Kept(@, hidden), !.hidden = @ \o Behind(s.visible, hidden)]
MutMoved(s) == ToShow(ToHide(s))
Moved(s) == ToHide(ToShow(s))

\* process(), the conditions of some messages being true, and some buttons pressed.
ProcessStatus(delta, raised, pressed, stale) ==
    LET If(button, then, s) == IF button \in pressed THEN then ELSE s
        moved == Raise(CursorMoved(status, delta), raised)
        deleted == If("cursor_del", CursorDel(moved, stale), moved)
        recalled == If("recall", Recall(deleted), deleted)
    IN /\ status' = Moved(If("clear", Clear(recalled), recalled))
       /\ UNCHANGED resized

\* _cursor_hide_timer
HideCursor ==
    /\ status.cursorVisible
    /\ status' = [status EXCEPT !.cursorVisible = FALSE]
    /\ UNCHANGED resized

\* paint() for a new size, and async_paint(), in a thread of the work performer
Paint ==
    /\ resized = {}
    /\ resized' = {Len(status.visible)}
    /\ UNCHANGED status
AsyncPaint ==
    /\ \E n \in resized : status' = Solved(status, n)
    /\ resized' = {}

-----------------------------------------------------------------------------
\* Message() does not initialize _deleted.
StatusInit ==
    /\ \E list \in SetToSeqs(Messages), deleted \in [Messages -> BOOLEAN] :
            status = [visible |-> <<>>, hidden |-> list, deleted |-> deleted,
                      shouldBeShown |-> {}, cursor |-> 0, cursorVisible |-> FALSE]
    /\ resized = {}

\* The cursor moves by one place at most between two calls of process() (bound).
StatusNext ==
    \/ \E delta \in {-1, 0, 1}, raised \in SUBSET Messages,
          pressed \in SUBSET {"cursor_del", "recall", "clear"}, stale \in Messages :
            ProcessStatus(delta, raised, pressed, stale)
    \/ HideCursor
    \/ Paint
    \/ AsyncPaint

StatusSpec == StatusInit /\ [][StatusNext]_statusVars

-----------------------------------------------------------------------------
(***************************************************************************)
(* Properties.                                                             *)
(***************************************************************************)

StatusTypeOK ==
    /\ status \in
        [visible : Seq(Messages), hidden : Seq(Messages),
         deleted : [Messages -> BOOLEAN],
         shouldBeShown : SUBSET Messages,
         cursor : 0 .. Count - 1, cursorVisible : BOOLEAN]
    /\ Len(status.visible) + Len(status.hidden) = Count
    /\ resized \subseteq 0 .. Count

\* Whatever the crew deletes, recalls and clears: what is shown are messages
\* whose condition is true.
OnlyRaisedAreShown ==
    \A n \in DOMAIN status.visible : status.visible[n] \in status.shouldBeShown

\* "Move messages that need to be shown to _visible_messages": each of them is
\* there.
RaisedMessagesAreShown ==
    \A m \in status.shouldBeShown : \E n \in DOMAIN status.visible : status.visible[n] = m
===============================================================================
