--------------------------------- MODULE Screen ---------------------------------
(***************************************************************************)
(* A screen and its instruments (xefis/core/screen.{h,cc}, instrument.h,     *)
(* paint_request.h).  The GUI thread processes the instruments, asks dirty   *)
(* ones to paint, and composes the last finished images; the threads of a    *)
(* work performer paint, each instrument on one of its two images, while the *)
(* GUI thread goes on.  refresh() is one step: it looks at each instrument   *)
(* once, and what the painters do meanwhile it finds at the next refresh.    *)
(*                                                                         *)
(* Qt and nu::WorkPerformer, which performs tasks in the order it gets them, *)
(* are external.  An instrument's picture is the version of the data that it *)
(* is painted from; a painter that throws leaves what it has painted.        *)
(***************************************************************************)
EXTENDS Integers, SequencesExt

CONSTANTS
    Instruments,
    Sizes,          \* the sizes an instrument may get
    Threads,        \* threads of the work performer
    MaxChanges,     \* bound: changes of data, positions and sizes
    None

Versions == 0 .. MaxChanges

ASSUME ScreenAssumption ==
    /\ IsFiniteSet(Instruments)
    /\ Instruments \intersect {"free", "closing", "closed"} = {}
    /\ Threads \in Nat \ {0} /\ MaxChanges \in Nat
    /\ None \notin Sizes \union Versions
    /\ None \notin [size : Sizes, version : Versions \union {None}]

VARIABLES
    details,        \* InstrumentDetails of each instrument, and its dirty flag
    images,         \* the two images of each instrument, None before their first use
    version,        \* the version of each instrument's data
    canvas,         \* the size that the screen gives its instruments
    jobs,           \* the tasks that no thread has begun, in order
    painting,       \* the tasks that threads are performing
    gui,            \* what the GUI thread does
    changes         \* the changes so far

screenVars == <<details, images, version, canvas, jobs, painting, gui,
                changes>>

\* Operators named Mut... are the defects the properties are tested with; nothing
\* uses them.

Details ==
    [registered : BOOLEAN,
     position : Sizes \union {None},    \* its size by computed_position
     dirty : BOOLEAN,
     result : {"none", "pending", "ready"},
     canvas : {1, 2}]                   \* the image that canvas has; canvas_to_use
                                        \* has the other
\* A painting task knows the image to paint on, and the data to paint.
Tasks == [instrument : Instruments, image : {1, 2}, version : Versions]
\* An image that is being painted has no version yet.
Image == [size : Sizes, version : Versions \union {None}]
ToUse(d) == 3 - d.canvas

-----------------------------------------------------------------------------
(***************************************************************************)
(* The GUI thread.                                                         *)
(***************************************************************************)

MayChange == gui = "free" /\ changes < MaxChanges /\ changes' = changes + 1

\* An instrument's process() with new data, which marks it dirty.
ProcessInstrument(i) ==
    /\ MayChange
    /\ version' = [version EXCEPT ![i] = @ + 1]
    /\ details' = [details EXCEPT ![i].dirty = TRUE]
    /\ UNCHANGED <<images, canvas, jobs, painting, gui>>

\* set(): the position is computed at the next refresh.
SetPosition(i) ==
    /\ MayChange /\ details[i].registered
    /\ details' = [details EXCEPT ![i].position = None]
    /\ UNCHANGED <<images, version, canvas, jobs, painting, gui>>

\* update_canvas() after a resize event
ResizeScreen(size) ==
    /\ MayChange /\ canvas # size
    /\ canvas' = size
    /\ details' = [i \in Instruments |-> [details[i] EXCEPT !.position = None]]
    /\ UNCHANGED <<images, version, jobs, painting, gui>>

\* update_instruments(), first part: compute_position(), which also marks the
\* instrument dirty, and the buffers are swapped when a result has come.
Positioned(d) ==
    IF d.position = None THEN [d EXCEPT !.position = canvas, !.dirty = TRUE] ELSE d
MutSwapsEarly(d) ==
    IF d.result # "none"
    THEN [d EXCEPT !.result = IF @ = "ready" THEN "none" ELSE @, !.canvas = 3 - @]
    ELSE d
MutSwapsAnyhow(d) ==
    IF d.result # "pending" THEN [d EXCEPT !.result = "none", !.canvas = 3 - @] ELSE d
Swapped(d) ==
    IF d.result = "ready" THEN [d EXCEPT !.result = "none", !.canvas = 3 - @] ELSE d

\* Second part: does a new painting job start?  Only then the flag is taken.
Starts(d) == d.result = "none" /\ d.dirty
MutStarted(d) == [d EXCEPT !.dirty = FALSE, !.result = IF Starts(d) THEN "pending" ELSE @]
Started(d) == IF Starts(d) THEN [d EXCEPT !.dirty = FALSE, !.result = "pending"] ELSE d

\* refresh()
Registered == {i \in Instruments : details[i].registered}
Refresh ==
    /\ gui = "free"
    /\ LET before == [i \in Registered |-> Swapped(Positioned(details[i]))]
           starting == {i \in Registered : Starts(before[i])}
           task(i) == [instrument |-> i, image |-> before[i].canvas, version |-> version[i]]
       IN /\ details' = [i \in Instruments |->
                            IF i \in Registered THEN Started(before[i]) ELSE details[i]]
          /\ images' = [i \in Instruments |->
                            IF i \in starting
                            THEN [images[i] EXCEPT ![before[i].canvas] =
                                    [size |-> before[i].position, version |-> None]]
                            ELSE images[i]]
          /\ LET order == SetToSeq(starting)
             IN jobs' = jobs \o [n \in DOMAIN order |-> task(order[n])]
    /\ UNCHANGED <<version, canvas, painting, gui, changes>>

\* compose_instruments(), right after: it discards an image of another size.
Composed(i) ==
    LET image == images[i][ToUse(details[i])]
    IN IF image # None /\ image.size = details[i].position THEN image ELSE None

\* deregister_instrument(): the GUI thread waits for the painting to end, and
\* erases the details with the images.
Deregister(i) ==
    /\ gui = "free" /\ details[i].registered
    /\ gui' = i
    /\ UNCHANGED <<details, images, version, canvas, jobs, painting, changes>>
MutPainted(i) == \A task \in painting : task.instrument # i
Painted(i) == details[i].result # "pending"
Erase(i) ==
    /\ gui = i /\ Painted(i)
    /\ details' = [details EXCEPT ![i].registered = FALSE, ![i].position = None,
                                  ![i].result = "none", ![i].canvas = 1]
    /\ images' = [images EXCEPT ![i] = [b \in {1, 2} |-> None]]
    /\ gui' = "free"
    /\ UNCHANGED <<version, canvas, jobs, painting, changes>>

\* The screen is destroyed: first its work performer, which finishes what its
\* threads have begun and may drop the rest, then the instruments, then the
\* Screen itself.
CloseScreen ==
    /\ gui = "free"
    /\ gui' = "closing"
    /\ UNCHANGED <<details, images, version, canvas, jobs, painting, changes>>
DropJobs ==
    /\ gui = "closing" /\ jobs # <<>>
    /\ jobs' = <<>>
    /\ details' = [i \in Instruments |->
                    IF \E n \in DOMAIN jobs : jobs[n].instrument = i
                    THEN [details[i] EXCEPT !.result = "ready"] ELSE details[i]]
    /\ UNCHANGED <<images, version, canvas, painting, gui, changes>>
DestroyScreen ==
    /\ gui = "closing" /\ jobs = <<>> /\ painting = {}
    /\ gui' = "closed"
    /\ details' = [i \in Instruments |-> [details[i] EXCEPT !.registered = FALSE]]
    /\ images' = [i \in Instruments |-> [b \in {1, 2} |-> None]]
    /\ UNCHANGED <<version, canvas, jobs, painting, changes>>

-----------------------------------------------------------------------------
(***************************************************************************)
(* The threads of the work performer.                                      *)
(***************************************************************************)
StartPainting ==
    /\ jobs # <<>> /\ Cardinality(painting) < Threads
    /\ painting' = painting \union {Head(jobs)}
    /\ jobs' = Tail(jobs)
    /\ UNCHANGED <<details, images, version, canvas, gui, changes>>
FinishPainting(i) ==
    /\ \E task \in painting :
            /\ task.instrument = i
            /\ painting' = painting \ {task}
            /\ images' = [images EXCEPT ![i][task.image] =
                            IF @ = None THEN None ELSE [@ EXCEPT !.version = task.version]]
    /\ details' = [details EXCEPT ![i].result = "ready"]
    /\ UNCHANGED <<version, canvas, jobs, gui, changes>>

-----------------------------------------------------------------------------
ScreenInit ==
    /\ details = [i \in Instruments |->
                [registered |-> TRUE, position |-> None, dirty |-> TRUE,
                 result |-> "none", canvas |-> 1]]
    /\ images = [i \in Instruments |-> [b \in {1, 2} |-> None]]
    /\ version = [i \in Instruments |-> 0]
    /\ canvas \in Sizes
    /\ jobs = <<>> /\ painting = {}
    /\ gui = "free" /\ changes = 0

ScreenNext ==
    \/ \E i \in Instruments :
            \/ ProcessInstrument(i) \/ SetPosition(i) \/ FinishPainting(i)
            \/ Deregister(i) \/ Erase(i)
    \/ \E size \in Sizes : ResizeScreen(size)
    \/ Refresh
    \/ StartPainting
    \/ CloseScreen
    \/ DropJobs
    \/ DestroyScreen

ScreenSpec == ScreenInit /\ [][ScreenNext]_screenVars

-----------------------------------------------------------------------------
(***************************************************************************)
(* Properties.                                                             *)
(***************************************************************************)

ScreenTypeOK ==
    /\ details \in [Instruments -> Details]
    /\ images \in [Instruments -> [{1, 2} -> Image \union {None}]]
    /\ version \in [Instruments -> Versions]
    /\ jobs \in Seq(Tasks)
    /\ painting \subseteq Tasks
    /\ canvas \in Sizes
    /\ gui \in Instruments \union {"free", "closing", "closed"}
    /\ changes \in 0 .. MaxChanges

TasksUnderWay == painting \union {jobs[n] : n \in DOMAIN jobs}

\* However often the screen is refreshed or resized while the threads paint:
\* the image that is composed is one that nobody paints on, and complete.
OnlyFinishedIsShown ==
    /\ \A task \in TasksUnderWay : task.image # ToUse(details[task.instrument])
    /\ \A i \in Instruments : Composed(i) # None => Composed(i).version # None

\* No thread paints an instrument that is no longer registered, or will: it would
\* use images that are gone, and perhaps an instrument that is gone.
TasksAreRegistered ==
    \A task \in TasksUnderWay : details[task.instrument].registered

\* Whatever painters and refreshes overtake: an image that is put in the place of
\* the one shown is finished and of data that are no older, so that an instrument
\* that the pilot has seen never goes blank or back.
NeverShowsOlder ==
    [][\A i \in Instruments :
        LET old == images[i][ToUse(details[i])]
            new == images'[i][ToUse(details'[i])]
        IN details'[i].registered /\ old # None =>
                new # None /\ old.version <= new.version]_screenVars

\* An instrument is painted again whenever it is dirty, also when it becomes so,
\* or is resized, while it is painted: in the end the screen shows its last data
\* in its last size.
ScreenIsCurrent ==
    \A i \in Instruments, size \in Sizes :
        <>[](details[i].registered /\ canvas = size /\ gui \notin {"closing", "closed"})
            => <>[](details[i].position # None =>
                        Composed(i) = [size |-> size, version |-> version[i]])
=============================================================================
