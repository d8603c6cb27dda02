---------------------------- MODULE StringRegister ----------------------------
(***************************************************************************)
(* What the transfer of a string socket promises to the modules at its two  *)
(* ends: the reader's socket shows a value that the writer's socket held,    *)
(* whole; over a link that keeps the order it never goes back to an earlier  *)
(* one; and if it is to keep the last string it shows that instead of nil.   *)
(* What was lost on the way is made up for by later reads, or never.         *)
(***************************************************************************)
EXTENDS Integers, Sequences

CONSTANTS
    Values,     \* what can be written, besides
    Nothing,    \* nil
    InOrder,    \* the link keeps the order
    KeepsLast   \* the reader shows the last string when it reads nothing

VARIABLES
    written,    \* every value the writer had, in order
    place,      \* the place in written of what the reader read last
    shown,      \* the reader's socket
    again       \* the writer was started again

\* The writer's socket gets another value.
Write(v) ==
    /\ written' = Append(written, v)
    /\ UNCHANGED <<place, shown, again>>

\* The reader gets to know the value at place i, the one it has or another one.
Read(i) ==
    /\ InOrder => place <= i
    /\ place' = i
    /\ shown' = IF written[i] = Nothing /\ KeepsLast THEN shown ELSE written[i]
    /\ UNCHANGED <<written, again>>

\* The reader is started again, or told that the link has failed.
Forget ==
    /\ shown' = Nothing
    /\ UNCHANGED <<written, place, again>>

\* A writer that is started again numbers its values as before, and nothing is
\* promised any more.
StartAgain == again'

Init == written = <<Nothing>> /\ place = 1 /\ shown = Nothing /\ again = FALSE

Next ==
    \/ \E v \in Values \union {Nothing} : Write(v)
    \/ \E i \in DOMAIN written : Read(i)
    \/ Forget
    \/ StartAgain

Spec == Init /\ [][Next]_<<written, place, shown, again>>
===============================================================================
