------------------------------ MODULE ScreenProofs ------------------------------
(***************************************************************************)
(* Proofs about module Screen, for any number of instruments, sizes, threads *)
(* and changes, and about module Status, for any number of messages.         *)
(***************************************************************************)
EXTENDS Screen, Status, FiniteSetTheorems, SequenceTheorems, WellFoundedInduction, TLAPS

\* An instrument has one task at most, be it queued or being performed.
OneTask ==
    /\ \A a, b \in painting : a.instrument = b.instrument => a = b
    /\ \A m, n \in DOMAIN jobs : jobs[m].instrument = jobs[n].instrument => m = n
    /\ \A a \in painting, n \in DOMAIN jobs : a.instrument # jobs[n].instrument

\* It is what the result of the instrument is waiting for.
TaskOK(t) ==
    LET d == details[t.instrument]
    IN d.registered /\ d.result = "pending" /\ t.image = d.canvas
TasksOK ==
    /\ \A t \in painting : TaskOK(t)
    /\ \A n \in DOMAIN jobs : TaskOK(jobs[n])

\* Images that are not complete are being painted, unless their task was dropped
\* when the screen was closed.
Incomplete(i, b) == images[i][b] # None /\ images[i][b].version = None
ImagesOK ==
    \A i \in Instruments, b \in {1, 2} :
        Incomplete(i, b) =>
            /\ b = details[i].canvas
            /\ gui \notin {"closing", "closed"} => details[i].result = "pending"

VersionsOK == \A i \in Instruments : version[i] <= changes

ScreenInv == ScreenTypeOK /\ OneTask /\ TasksOK /\ ImagesOK /\ VersionsOK

-----------------------------------------------------------------------------
LEMMA ScreenInitInv == ASSUME ScreenAssumption, ScreenInit PROVE ScreenInv
  <1>1. 0 \in Versions /\ 0 \in 0 .. MaxChanges
    BY DEF ScreenAssumption, Versions
  <1>2. details \in [Instruments -> Details]
    BY DEF ScreenInit, Details
  <1>3. ScreenTypeOK
    <2>1. images \in [Instruments -> [{1, 2} -> Image \union {None}]]
      BY DEF ScreenInit
    <2>2. version \in [Instruments -> Versions]
      BY <1>1 DEF ScreenInit
    <2>3. jobs \in Seq(Tasks) /\ painting \subseteq Tasks
      BY DEF ScreenInit
    <2>4. canvas \in Sizes /\ gui = "free" /\ changes \in 0 .. MaxChanges
      BY <1>1 DEF ScreenInit
    <2> QED
      BY <1>2, <2>1, <2>2, <2>3, <2>4 DEF ScreenTypeOK
  <1>4. OneTask /\ TasksOK
    BY DEF ScreenInit, OneTask, TasksOK
  <1>5. ImagesOK
    BY DEF ScreenInit, ImagesOK, Incomplete
  <1>6. VersionsOK
    BY DEF ScreenInit, VersionsOK
  <1> QED
    BY <1>3, <1>4, <1>5, <1>6 DEF ScreenInv

\* What is left alone stays true; the tasks need to look only at some fields.
LEMMA TasksKept ==
    ASSUME OneTask, TasksOK, UNCHANGED <<jobs, painting>>,
           jobs \in Seq(Tasks), painting \subseteq Tasks,
           \A i \in Instruments : /\ details'[i].registered = details[i].registered
                                  /\ details'[i].result = details[i].result
                                  /\ details'[i].canvas = details[i].canvas
    PROVE  OneTask' /\ TasksOK'
  <1>1. OneTask'
    BY DEF OneTask
  <1>2. \A n \in DOMAIN jobs : jobs[n] \in Tasks
    OBVIOUS
  <1>3. \A t \in Tasks : TaskOK(t) => TaskOK(t)'
    BY DEF TaskOK, Tasks
  <1>4. TasksOK'
    BY <1>2, <1>3 DEF TasksOK
  <1> QED
    BY <1>1, <1>4

LEMMA ImagesKept ==
    ASSUME ImagesOK, UNCHANGED <<images, gui>>,
           \A i \in Instruments : /\ details'[i].result = details[i].result
                                  /\ details'[i].canvas = details[i].canvas
    PROVE  ImagesOK'
  BY DEF ImagesOK, Incomplete

-----------------------------------------------------------------------------
(***************************************************************************)
(* Changes of data, positions and sizes.                                   *)
(***************************************************************************)

LEMMA ProcessInstrumentInv ==
    ASSUME ScreenAssumption, ScreenInv, NEW i \in Instruments, ProcessInstrument(i)
    PROVE  ScreenInv'
  <1> USE DEF ScreenInv
  <1>1. /\ details \in [Instruments -> Details] /\ version \in [Instruments -> Versions]
        /\ changes \in 0 .. MaxChanges /\ changes < MaxChanges /\ changes' = changes + 1
        /\ version' = [version EXCEPT ![i] = @ + 1]
        /\ details' = [details EXCEPT ![i].dirty = TRUE]
        /\ UNCHANGED <<images, canvas, jobs, painting, gui>>
    BY DEF ScreenTypeOK, ProcessInstrument, MayChange
  <1>2. changes' \in 0 .. MaxChanges /\ version[i] + 1 \in Versions
    BY <1>1 DEF VersionsOK, Versions, ScreenAssumption
  <1>3. version' \in [Instruments -> Versions]
    BY <1>1, <1>2
  <1>4. [details[i] EXCEPT !.dirty = TRUE] \in Details
    <2>1. details[i] \in Details
      BY <1>1
    <2> QED
      BY <2>1 DEF Details
  <1>5. details' \in [Instruments -> Details]
    BY <1>1, <1>4
  <1>6. \A j \in Instruments : /\ details'[j].registered = details[j].registered
                               /\ details'[j].result = details[j].result
                               /\ details'[j].canvas = details[j].canvas
    BY <1>1 DEF Details
  <1>7. ScreenTypeOK'
    BY <1>1, <1>2, <1>3, <1>5 DEF ScreenTypeOK
  <1>8. OneTask' /\ TasksOK'
    BY <1>1, <1>6, TasksKept DEF ScreenTypeOK
  <1>9. ImagesOK'
    BY <1>1, <1>6, ImagesKept
  <1>10. VersionsOK'
    BY <1>1, <1>2 DEF VersionsOK, Versions, ScreenAssumption
  <1> QED
    BY <1>7, <1>8, <1>9, <1>10

LEMMA SetPositionInv ==
    ASSUME ScreenAssumption, ScreenInv, NEW i \in Instruments, SetPosition(i)
    PROVE  ScreenInv'
  <1> USE DEF ScreenInv
  <1>1. /\ details \in [Instruments -> Details] /\ version \in [Instruments -> Versions]
        /\ changes \in 0 .. MaxChanges /\ changes < MaxChanges /\ changes' = changes + 1
        /\ details' = [details EXCEPT ![i].position = None]
        /\ UNCHANGED <<images, version, canvas, jobs, painting, gui>>
    BY DEF ScreenTypeOK, SetPosition, MayChange
  <1>2. changes' \in 0 .. MaxChanges
    BY <1>1 DEF ScreenAssumption
  <1>3. [details[i] EXCEPT !.position = None] \in Details
    <2>1. details[i] \in Details
      BY <1>1
    <2> QED
      BY <2>1 DEF Details
  <1>4. details' \in [Instruments -> Details]
    BY <1>1, <1>3
  <1>5. \A j \in Instruments : /\ details'[j].registered = details[j].registered
                               /\ details'[j].result = details[j].result
                               /\ details'[j].canvas = details[j].canvas
    BY <1>1 DEF Details
  <1>6. ScreenTypeOK'
    BY <1>1, <1>2, <1>4 DEF ScreenTypeOK
  <1>7. OneTask' /\ TasksOK'
    BY <1>1, <1>5, TasksKept DEF ScreenTypeOK
  <1>8. ImagesOK'
    BY <1>1, <1>5, ImagesKept
  <1>9. VersionsOK'
    BY <1>1 DEF VersionsOK, Versions, ScreenAssumption
  <1> QED
    BY <1>6, <1>7, <1>8, <1>9

LEMMA ResizeScreenInv ==
    ASSUME ScreenAssumption, ScreenInv, NEW size \in Sizes, ResizeScreen(size)
    PROVE  ScreenInv'
  <1> USE DEF ScreenInv
  <1>1. /\ details \in [Instruments -> Details] /\ version \in [Instruments -> Versions]
        /\ changes \in 0 .. MaxChanges /\ changes < MaxChanges /\ changes' = changes + 1
        /\ canvas' = size
        /\ details' = [i \in Instruments |-> [details[i] EXCEPT !.position = None]]
        /\ UNCHANGED <<images, version, jobs, painting, gui>>
    BY DEF ScreenTypeOK, ResizeScreen, MayChange
  <1>2. changes' \in 0 .. MaxChanges
    BY <1>1 DEF ScreenAssumption
  <1>3. ASSUME NEW i \in Instruments
        PROVE  [details[i] EXCEPT !.position = None] \in Details
    <2>1. details[i] \in Details
      BY <1>1
    <2> QED
      BY <2>1 DEF Details
  <1>4. details' \in [Instruments -> Details]
    BY <1>1, <1>3
  <1>5. \A j \in Instruments : /\ details'[j].registered = details[j].registered
                               /\ details'[j].result = details[j].result
                               /\ details'[j].canvas = details[j].canvas
    BY <1>1 DEF Details
  <1>6. ScreenTypeOK'
    BY <1>1, <1>2, <1>4 DEF ScreenTypeOK
  <1>7. OneTask' /\ TasksOK'
    BY <1>1, <1>5, TasksKept DEF ScreenTypeOK
  <1>8. ImagesOK'
    BY <1>1, <1>5, ImagesKept
  <1>9. VersionsOK'
    BY <1>1 DEF VersionsOK, Versions, ScreenAssumption
  <1> QED
    BY <1>6, <1>7, <1>8, <1>9

-----------------------------------------------------------------------------
(***************************************************************************)
(* The refresh.                                                            *)
(***************************************************************************)

\* The parts of update_instruments() keep the type, and change what they say.
LEMMA PositionedFacts ==
    ASSUME NEW d \in Details, canvas \in Sizes
    PROVE  /\ Positioned(d) \in Details
           /\ Positioned(d).position \in Sizes
           /\ Positioned(d).registered = d.registered
           /\ Positioned(d).result = d.result
           /\ Positioned(d).canvas = d.canvas
  <1>1. CASE d.position = None
    <2>1. Positioned(d) = [d EXCEPT !.position = canvas, !.dirty = TRUE]
      BY <1>1 DEF Positioned
    <2> QED
      BY <2>1 DEF Details
  <1>2. CASE d.position # None
    <2>1. Positioned(d) = d
      BY <1>2 DEF Positioned
    <2> QED
      BY <1>2, <2>1 DEF Details
  <1> QED
    BY <1>1, <1>2

LEMMA SwappedFacts ==
    ASSUME NEW d \in Details
    PROVE  /\ Swapped(d) \in Details
           /\ Swapped(d).position = d.position
           /\ Swapped(d).registered = d.registered
           /\ Swapped(d).result = IF d.result = "ready" THEN "none" ELSE d.result
           /\ Swapped(d).canvas = IF d.result = "ready" THEN 3 - d.canvas ELSE d.canvas
  <1>1. CASE d.result = "ready"
    <2>1. Swapped(d) = [d EXCEPT !.result = "none", !.canvas = 3 - d.canvas]
      BY <1>1 DEF Swapped
    <2>2. 3 - d.canvas \in {1, 2}
      BY DEF Details
    <2> QED
      BY <1>1, <2>1, <2>2 DEF Details
  <1>2. CASE d.result # "ready"
    <2>1. Swapped(d) = d
      BY <1>2 DEF Swapped
    <2> QED
      BY <1>2, <2>1
  <1> QED
    BY <1>1, <1>2

LEMMA StartedFacts ==
    ASSUME NEW d \in Details
    PROVE  /\ Started(d) \in Details
           /\ Started(d).registered = d.registered
           /\ Started(d).canvas = d.canvas
           /\ Started(d).result = IF Starts(d) THEN "pending" ELSE d.result
  <1>1. CASE Starts(d)
    <2>1. Started(d) = [d EXCEPT !.dirty = FALSE, !.result = "pending"]
      BY <1>1 DEF Started
    <2> QED
      BY <1>1, <2>1 DEF Details
  <1>2. CASE ~Starts(d)
    <2>1. Started(d) = d
      BY <1>2 DEF Started
    <2> QED
      BY <1>2, <2>1
  <1> QED
    BY <1>1, <1>2

\* A finite set as a sequence has each of its elements once.
LEMMA SetToSeqFacts ==
    ASSUME NEW S, IsFiniteSet(S)
    PROVE  /\ Cardinality(S) \in Nat
           /\ SetToSeq(S) \in [1 .. Cardinality(S) -> S]
           /\ \A m, n \in 1 .. Cardinality(S) : SetToSeq(S)[m] = SetToSeq(S)[n] => m = n
  <1>1. Cardinality(S) \in Nat /\ ExistsBijection(1 .. Cardinality(S), S)
    BY FS_CardinalityType
  <1>2. \E f \in [1 .. Cardinality(S) -> S] : IsInjective(f)
    BY <1>1 DEF ExistsBijection, Bijection, Injection
  <1>3. SetToSeq(S) \in [1 .. Cardinality(S) -> S] /\ IsInjective(SetToSeq(S))
    BY <1>2 DEF SetToSeq
  <1>4. DOMAIN SetToSeq(S) = 1 .. Cardinality(S)
    BY <1>3
  <1> QED
    BY <1>1, <1>3, <1>4 DEF IsInjective

\* What is in a concatenation, and from which of the two sequences.
LEMMA ConcatFacts ==
    ASSUME NEW T, NEW s \in Seq(T), NEW k \in Nat, NEW f \in [1 .. k -> T]
    PROVE  /\ s \o f \in Seq(T)
           /\ \A n \in DOMAIN (s \o f) :
                \/ n \in DOMAIN s /\ (s \o f)[n] = s[n]
                \/ /\ n - Len(s) \in 1 .. k /\ n \notin DOMAIN s
                   /\ (s \o f)[n] = f[n - Len(s)]
  <1>1. f \in Seq(T) /\ Len(f) = k
    OBVIOUS
  <1> QED
    BY <1>1

LEMMA RefreshInv ==
    ASSUME ScreenAssumption, ScreenInv, Refresh
    PROVE  ScreenInv'
  <1> USE DEF ScreenInv
  <1> DEFINE before == [i \in Registered |-> Swapped(Positioned(details[i]))]
             starting == {i \in Registered : Starts(before[i])}
             task(i) == [instrument |-> i, image |-> before[i].canvas, version |-> version[i]]
             order == SetToSeq(starting)
             new == [n \in 1 .. Cardinality(starting) |-> task(order[n])]
  <1>1. /\ details \in [Instruments -> Details] /\ version \in [Instruments -> Versions]
        /\ images \in [Instruments -> [{1, 2} -> Image \union {None}]]
        /\ canvas \in Sizes /\ jobs \in Seq(Tasks) /\ painting \subseteq Tasks
        /\ gui = "free" /\ UNCHANGED <<version, canvas, painting, gui, changes>>
        /\ changes \in 0 .. MaxChanges
    BY ZenonT(60) DEF ScreenTypeOK, Refresh
  <1>2. /\ details' = [i \in Instruments |->
                            IF i \in Registered THEN Started(before[i]) ELSE details[i]]
        /\ images' = [i \in Instruments |->
                            IF i \in starting
                            THEN [images[i] EXCEPT ![before[i].canvas] =
                                    [size |-> before[i].position, version |-> None]]
                            ELSE images[i]]
        /\ jobs' = jobs \o [n \in DOMAIN order |-> task(order[n])]
    BY DEF Refresh
  <1>3. Registered \subseteq Instruments /\ starting \subseteq Instruments
        /\ IsFiniteSet(starting)
    BY FS_Subset DEF Registered, ScreenAssumption
  <1>4. /\ Cardinality(starting) \in Nat
        /\ order \in [1 .. Cardinality(starting) -> starting]
        /\ \A m, n \in 1 .. Cardinality(starting) : order[m] = order[n] => m = n
    BY <1>3, SetToSeqFacts
  \* What becomes of one instrument.
  <1>5. ASSUME NEW i \in Registered
        PROVE  /\ before[i] \in Details /\ before[i].position \in Sizes
               /\ before[i].registered
               /\ before[i].result = IF details[i].result = "ready" THEN "none"
                                     ELSE details[i].result
               /\ details[i].result # "ready" => before[i].canvas = details[i].canvas
    <2>1. details[i] \in Details /\ details[i].registered
      BY <1>1 DEF Registered
    <2>2. before[i] = Swapped(Positioned(details[i]))
      OBVIOUS
    <2> HIDE DEF before
    <2> QED
      BY <1>1, <2>1, <2>2, PositionedFacts, SwappedFacts
  <1>6. ASSUME NEW i \in Registered
        PROVE  /\ details'[i] \in Details /\ details'[i].registered
               /\ details'[i].canvas = before[i].canvas
               /\ details'[i].result = IF i \in starting THEN "pending" ELSE before[i].result
    <2>1. details'[i] = Started(before[i])
      BY <1>2, <1>3
    <2>2. i \in starting <=> Starts(before[i])
      OBVIOUS
    <2> HIDE DEF before, starting
    <2> QED
      BY <1>5, <2>1, <2>2, StartedFacts
  <1>7. ASSUME NEW i \in Instruments, i \notin Registered
        PROVE  details'[i] = details[i] /\ images'[i] = images[i]
    BY <1>2, <1>7
  <1>8. ASSUME NEW i \in starting
        PROVE  /\ i \in Registered /\ details[i].result # "pending" /\ before[i].result = "none"
               /\ task(i) \in Tasks
               /\ images'[i] = [images[i] EXCEPT ![before[i].canvas] =
                                    [size |-> before[i].position, version |-> None]]
               /\ images'[i] \in [{1, 2} -> Image \union {None}]
    <2>1. i \in Registered /\ before[i].result = "none" /\ i \in Instruments
      BY <1>3 DEF Starts
    <2>2. details[i].result # "pending" /\ before[i].canvas \in {1, 2}
      <3> HIDE DEF before
      <3> QED
        BY <1>5, <2>1 DEF Details
    <2>3. task(i) \in Tasks
      <3> HIDE DEF before
      <3> QED
        BY <1>1, <2>1, <2>2 DEF Tasks
    <2>4. images'[i] = [images[i] EXCEPT ![before[i].canvas] =
                                    [size |-> before[i].position, version |-> None]]
      BY <1>2, <2>1
    <2>5. [size |-> before[i].position, version |-> None] \in Image
      <3> HIDE DEF before
      <3> QED
        BY <1>5, <2>1 DEF Image
    <2>6. images'[i] \in [{1, 2} -> Image \union {None}]
      <3> HIDE DEF before
      <3> QED
        BY <1>1, <2>1, <2>2, <2>4, <2>5
    <2> QED
      BY <2>1, <2>2, <2>3, <2>4, <2>6
  <1>9. ASSUME NEW i \in Instruments, i \notin starting
        PROVE  images'[i] = images[i]
    <2> HIDE DEF before, starting
    <2> QED
      BY <1>2, <1>9
  <1>10. /\ new \in [1 .. Cardinality(starting) -> Tasks]
         /\ jobs' = jobs \o new
         /\ \A n \in 1 .. Cardinality(starting) :
                /\ order[n] \in starting
                /\ new[n].instrument = order[n] /\ new[n].image = before[order[n]].canvas
    <2>1. DOMAIN order = 1 .. Cardinality(starting)
      <3> HIDE DEF order, starting
      <3> QED
        BY <1>4
    <2>2. \A n \in 1 .. Cardinality(starting) : order[n] \in starting
      <3> HIDE DEF order, starting
      <3> QED
        BY <1>4
    <2>3. new \in [1 .. Cardinality(starting) -> Tasks]
      <3> HIDE DEF order, starting, task
      <3> QED
        BY <1>8, <2>2
    <2>4. jobs' = jobs \o new
      <3> HIDE DEF order, starting, task
      <3> QED
        BY <1>2, <2>1
    <2>5. \A n \in 1 .. Cardinality(starting) :
                new[n].instrument = order[n] /\ new[n].image = before[order[n]].canvas
      <3> HIDE DEF order, starting, before
      <3> QED
        OBVIOUS
    <2> QED
      BY <2>2, <2>3, <2>4, <2>5
  <1> HIDE DEF before, starting, task, order, new
  <1>11. /\ jobs' \in Seq(Tasks)
         /\ \A n \in DOMAIN jobs' :
                \/ n \in DOMAIN jobs /\ jobs'[n] = jobs[n]
                \/ /\ n - Len(jobs) \in 1 .. Cardinality(starting)
                   /\ n \notin DOMAIN jobs /\ jobs'[n] = new[n - Len(jobs)]
    <2>1. jobs \in Seq(Tasks) /\ Cardinality(starting) \in Nat
          /\ new \in [1 .. Cardinality(starting) -> Tasks]
      BY <1>1, <1>4, <1>10
    <2>2. /\ jobs \o new \in Seq(Tasks)
          /\ \A n \in DOMAIN (jobs \o new) :
                \/ n \in DOMAIN jobs /\ (jobs \o new)[n] = jobs[n]
                \/ /\ n - Len(jobs) \in 1 .. Cardinality(starting) /\ n \notin DOMAIN jobs
                   /\ (jobs \o new)[n] = new[n - Len(jobs)]
      BY <2>1, ConcatFacts
    <2> QED
      BY <1>10, <2>2
  \* A task that there was stays as it should be: its instrument does not start.
  <1>12. ASSUME NEW t \in Tasks, TaskOK(t)
         PROVE  TaskOK(t)' /\ t.instrument \notin starting
    <2>1. t.instrument \in Registered /\ details[t.instrument].result = "pending"
          /\ t.image = details[t.instrument].canvas
      BY <1>12 DEF TaskOK, Tasks, Registered
    <2>2. t.instrument \notin starting
      BY <1>8, <2>1
    <2> QED
      BY <1>5, <1>6, <2>1, <2>2 DEF TaskOK
  <1>13. ASSUME NEW t, NEW n \in 1 .. Cardinality(starting), t = new[n]
         PROVE  TaskOK(t)' /\ t.instrument \in starting
    <2>1. order[n] \in starting /\ order[n] \in Registered
          /\ t.instrument = order[n] /\ t.image = before[order[n]].canvas
      BY <1>8, <1>10, <1>13
    <2> QED
      BY <1>6, <2>1 DEF TaskOK
  <1>14. \A n \in DOMAIN jobs : jobs[n] \in Tasks
    BY <1>1
  <1>15. TasksOK'
    <2>1. ASSUME NEW t \in painting' PROVE TaskOK(t)'
      BY <1>1, <1>12, <2>1 DEF TasksOK
    <2>2. ASSUME NEW n \in DOMAIN jobs', NEW t, t = jobs'[n] PROVE TaskOK(t)'
      <3>1. CASE n \in DOMAIN jobs /\ t = jobs[n]
        BY <1>12, <1>14, <3>1 DEF TasksOK
      <3>2. CASE n - Len(jobs) \in 1 .. Cardinality(starting) /\ t = new[n - Len(jobs)]
        BY <1>13, <3>2
      <3> QED
        BY <1>11, <2>2, <3>1, <3>2
    <2> QED
      BY <2>1, <2>2 DEF TasksOK
  <1>16. OneTask'
    <2>1. \A a \in painting : a.instrument \notin starting
      BY <1>1, <1>12 DEF TasksOK
    <2>2. \A n \in DOMAIN jobs : jobs[n].instrument \notin starting
      BY <1>12, <1>14 DEF TasksOK
    <2>3. ASSUME NEW m \in DOMAIN jobs', NEW n \in DOMAIN jobs',
                 jobs'[m].instrument = jobs'[n].instrument
          PROVE  m = n
      <3>1. CASE m \in DOMAIN jobs /\ n \in DOMAIN jobs
        BY <1>11, <2>3, <3>1 DEF OneTask
      <3>2. CASE m \notin DOMAIN jobs /\ n \notin DOMAIN jobs
        <4>1. /\ m - Len(jobs) \in 1 .. Cardinality(starting)
              /\ n - Len(jobs) \in 1 .. Cardinality(starting)
              /\ order[m - Len(jobs)] = order[n - Len(jobs)]
          BY <1>10, <1>11, <2>3, <3>2
        <4>2. m - Len(jobs) = n - Len(jobs)
          BY <1>4, <4>1
        <4> QED
          BY <1>1, <1>11, <4>2
      <3>3. CASE m \in DOMAIN jobs /\ n \notin DOMAIN jobs
        BY <1>11, <1>13, <2>2, <2>3, <3>3
      <3>4. CASE m \notin DOMAIN jobs /\ n \in DOMAIN jobs
        BY <1>11, <1>13, <2>2, <2>3, <3>4
      <3> QED
        BY <3>1, <3>2, <3>3, <3>4
    <2>4. ASSUME NEW a \in painting', NEW n \in DOMAIN jobs'
          PROVE  a.instrument # jobs'[n].instrument
      <3>1. a \in painting
        BY <1>1
      <3>2. CASE n \in DOMAIN jobs
        BY <1>11, <3>1, <3>2 DEF OneTask
      <3>3. CASE n \notin DOMAIN jobs
        BY <1>11, <1>13, <2>1, <3>1, <3>3
      <3> QED
        BY <3>2, <3>3
    <2> QED
      BY <1>1, <2>3, <2>4 DEF OneTask
  <1>17. ImagesOK'
    <2> SUFFICES ASSUME NEW i \in Instruments, NEW b \in {1, 2}, Incomplete(i, b)'
                 PROVE  b = details'[i].canvas /\ details'[i].result = "pending"
      BY <1>1 DEF ImagesOK
    <2>1. CASE i \in starting
      <3>1. images'[i][b] # None /\ images'[i][b].version = None
        BY DEF Incomplete
      <3>2. CASE b = before[i].canvas
        BY <1>6, <1>8, <2>1, <3>2
      <3>3. CASE b # before[i].canvas
        <4>1. images'[i][b] = images[i][b]
          BY <1>1, <1>8, <2>1, <3>3
        <4>2. details[i].result = "pending"
          BY <1>1, <3>1, <4>1 DEF ImagesOK, Incomplete
        <4> QED
          BY <1>8, <2>1, <4>2
      <3> QED
        BY <3>2, <3>3
    <2>2. CASE i \notin starting
      <3>1. images'[i] = images[i]
        BY <1>9, <2>2
      <3>2. b = details[i].canvas /\ details[i].result = "pending"
        BY <1>1, <3>1 DEF ImagesOK, Incomplete
      <3>3. CASE i \in Registered
        BY <1>5, <1>6, <2>2, <3>2, <3>3
      <3>4. CASE i \notin Registered
        BY <1>7, <3>2, <3>4
      <3> QED
        BY <3>3, <3>4
    <2> QED
      BY <2>1, <2>2
  <1>18. ScreenTypeOK'
    <2>1. details' \in [Instruments -> Details]
      <3>1. \A i \in Instruments : details'[i] \in Details
        BY <1>1, <1>6, <1>7
      <3> QED
        BY <1>2, <3>1
    <2>2. images' \in [Instruments -> [{1, 2} -> Image \union {None}]]
      <3>1. \A i \in Instruments : images'[i] \in [{1, 2} -> Image \union {None}]
        BY <1>1, <1>8, <1>9
      <3> QED
        BY <1>2, <3>1
    <2> QED
      BY <1>1, <1>11, <2>1, <2>2 DEF ScreenTypeOK
  <1>19. VersionsOK'
    BY <1>1 DEF VersionsOK
  <1> QED
    BY <1>15, <1>16, <1>17, <1>18, <1>19

-----------------------------------------------------------------------------
(***************************************************************************)
(* Deregistering, closing, and the painters.                               *)
(***************************************************************************)

LEMMA DeregisterInv ==
    ASSUME ScreenAssumption, ScreenInv, NEW i \in Instruments, Deregister(i)
    PROVE  ScreenInv'
  <1> USE DEF ScreenInv
  <1>1. gui = "free" /\ gui' = i
        /\ UNCHANGED <<details, images, version, canvas, jobs, painting, changes>>
    BY DEF Deregister
  <1>2. ScreenTypeOK'
    BY <1>1 DEF ScreenTypeOK
  <1>3. OneTask' /\ TasksOK'
    BY <1>1, TasksKept DEF ScreenTypeOK
  <1>4. ImagesOK'
    BY <1>1 DEF ImagesOK, Incomplete
  <1>5. VersionsOK'
    BY <1>1 DEF VersionsOK
  <1> QED
    BY <1>2, <1>3, <1>4, <1>5

\* No task is of the instrument that is erased, as its result is not pending.
LEMMA EraseInv ==
    ASSUME ScreenAssumption, ScreenInv, NEW i \in Instruments, Erase(i)
    PROVE  ScreenInv'
  <1> USE DEF ScreenInv
  <1>1. /\ details \in [Instruments -> Details] /\ jobs \in Seq(Tasks)
        /\ images \in [Instruments -> [{1, 2} -> Image \union {None}]]
        /\ painting \subseteq Tasks /\ gui = i /\ gui' = "free"
        /\ details[i].result # "pending"
        /\ details' = [details EXCEPT ![i] = [details[i] EXCEPT
                            !.registered = FALSE, !.position = None,
                            !.result = "none", !.canvas = 1]]
        /\ images' = [images EXCEPT ![i] = [b \in {1, 2} |-> None]]
        /\ UNCHANGED <<version, canvas, jobs, painting, changes>>
    BY DEF ScreenTypeOK, Erase, Painted
  <1>2. details' \in [Instruments -> Details]
    <2>1. details[i] \in Details
      BY <1>1
    <2>2. [details[i] EXCEPT !.registered = FALSE, !.position = None,
                             !.result = "none", !.canvas = 1] \in Details
      BY <2>1 DEF Details
    <2> QED
      BY <1>1, <2>2
  <1>3. images' \in [Instruments -> [{1, 2} -> Image \union {None}]]
    BY <1>1
  <1>4. ScreenTypeOK'
    BY <1>1, <1>2, <1>3 DEF ScreenTypeOK
  <1>5. OneTask'
    BY <1>1 DEF OneTask
  <1>6. ASSUME NEW t \in Tasks, TaskOK(t) PROVE TaskOK(t)'
    <2>1. t.instrument # i
      BY <1>1, <1>6 DEF TaskOK
    <2>2. details'[t.instrument] = details[t.instrument]
      BY <1>1, <2>1 DEF Tasks
    <2> QED
      BY <1>6, <2>2 DEF TaskOK
  <1>7. \A n \in DOMAIN jobs : jobs[n] \in Tasks
    BY <1>1
  <1>8. TasksOK'
    BY <1>1, <1>6, <1>7 DEF TasksOK
  <1>9. ImagesOK'
    <2> SUFFICES ASSUME NEW j \in Instruments, NEW b \in {1, 2}, Incomplete(j, b)'
                 PROVE  b = details'[j].canvas /\ details'[j].result = "pending"
      BY DEF ImagesOK
    <2>1. CASE j = i
      BY <1>1, <2>1 DEF Incomplete
    <2>2. CASE j # i
      <3>1. images'[j] = images[j] /\ details'[j] = details[j]
        BY <1>1, <2>2
      <3>2. gui \notin {"closing", "closed"}
        BY <1>1 DEF ScreenAssumption
      <3> QED
        BY <3>1, <3>2 DEF ImagesOK, Incomplete
    <2> QED
      BY <2>1, <2>2
  <1>10. VersionsOK'
    BY <1>1 DEF VersionsOK
  <1> QED
    BY <1>4, <1>5, <1>8, <1>9, <1>10

LEMMA CloseScreenInv ==
    ASSUME ScreenAssumption, ScreenInv, CloseScreen
    PROVE  ScreenInv'
  <1> USE DEF ScreenInv
  <1>1. gui = "free" /\ gui' = "closing"
        /\ UNCHANGED <<details, images, version, canvas, jobs, painting, changes>>
    BY DEF CloseScreen
  <1>2. ScreenTypeOK'
    BY <1>1 DEF ScreenTypeOK
  <1>3. OneTask' /\ TasksOK'
    BY <1>1, TasksKept DEF ScreenTypeOK
  <1>4. ImagesOK'
    BY <1>1 DEF ImagesOK, Incomplete
  <1>5. VersionsOK'
    BY <1>1 DEF VersionsOK
  <1> QED
    BY <1>2, <1>3, <1>4, <1>5

\* The tasks that are dropped leave incomplete images; those that threads have
\* begun are of other instruments.
LEMMA DropJobsInv ==
    ASSUME ScreenAssumption, ScreenInv, DropJobs
    PROVE  ScreenInv'
  <1> USE DEF ScreenInv
  <1> DEFINE dropped(i) == \E n \in DOMAIN jobs : jobs[n].instrument = i
  <1>1. /\ details \in [Instruments -> Details] /\ painting \subseteq Tasks
        /\ gui = "closing" /\ jobs' = <<>>
        /\ details' = [i \in Instruments |->
                IF dropped(i) THEN [details[i] EXCEPT !.result = "ready"] ELSE details[i]]
        /\ UNCHANGED <<images, version, canvas, painting, gui, changes>>
    BY DEF ScreenTypeOK, DropJobs
  <1>2. ASSUME NEW i \in Instruments
        PROVE  /\ details'[i] \in Details /\ details'[i].canvas = details[i].canvas
               /\ ~dropped(i) => details'[i] = details[i]
    <2>1. details[i] \in Details
          /\ details'[i] = IF dropped(i) THEN [details[i] EXCEPT !.result = "ready"]
                                         ELSE details[i]
      BY <1>1
    <2> HIDE DEF dropped
    <2> QED
      BY <2>1 DEF Details
  <1>3. details' \in [Instruments -> Details]
    BY <1>1, <1>2
  <1>4. jobs' \in Seq(Tasks) /\ DOMAIN jobs' = {}
    BY <1>1
  <1>5. ScreenTypeOK'
    BY <1>1, <1>3, <1>4 DEF ScreenTypeOK
  <1>6. OneTask'
    BY <1>1, <1>4 DEF OneTask
  <1>7. TasksOK'
    <2>1. ASSUME NEW t \in painting PROVE TaskOK(t)'
      <3>1. TaskOK(t) /\ t.instrument \in Instruments /\ ~dropped(t.instrument)
        BY <1>1 DEF TasksOK, OneTask, Tasks
      <3>2. details'[t.instrument] = details[t.instrument]
        BY <1>2, <3>1
      <3> QED
        BY <3>1, <3>2 DEF TaskOK
    <2> QED
      BY <1>1, <1>4, <2>1 DEF TasksOK
  <1>8. ImagesOK'
    BY <1>1, <1>2 DEF ImagesOK, Incomplete
  <1>9. VersionsOK'
    BY <1>1 DEF VersionsOK
  <1> QED
    BY <1>5, <1>6, <1>7, <1>8, <1>9

LEMMA DestroyScreenInv ==
    ASSUME ScreenAssumption, ScreenInv, DestroyScreen
    PROVE  ScreenInv'
  <1> USE DEF ScreenInv
  <1>1. /\ details \in [Instruments -> Details] /\ gui' = "closed"
        /\ jobs = <<>> /\ painting = {}
        /\ details' = [i \in Instruments |-> [details[i] EXCEPT !.registered = FALSE]]
        /\ images' = [i \in Instruments |-> [b \in {1, 2} |-> None]]
        /\ UNCHANGED <<version, canvas, jobs, painting, changes>>
    BY DEF ScreenTypeOK, DestroyScreen
  <1>2. ASSUME NEW i \in Instruments
        PROVE  [details[i] EXCEPT !.registered = FALSE] \in Details
    <2>1. details[i] \in Details
      BY <1>1
    <2> QED
      BY <2>1 DEF Details
  <1>3. details' \in [Instruments -> Details]
    BY <1>1, <1>2
  <1>4. images' \in [Instruments -> [{1, 2} -> Image \union {None}]]
    BY <1>1
  <1>5. ScreenTypeOK'
    BY <1>1, <1>3, <1>4 DEF ScreenTypeOK
  <1>6. OneTask' /\ TasksOK'
    BY <1>1 DEF OneTask, TasksOK
  <1>7. ImagesOK'
    BY <1>1 DEF ImagesOK, Incomplete
  <1>8. VersionsOK'
    BY <1>1 DEF VersionsOK
  <1> QED
    BY <1>5, <1>6, <1>7, <1>8

LEMMA StartPaintingInv ==
    ASSUME ScreenAssumption, ScreenInv, StartPainting
    PROVE  ScreenInv'
  <1> USE DEF ScreenInv
  <1>1. /\ jobs \in Seq(Tasks) /\ painting \subseteq Tasks /\ jobs # <<>>
        /\ painting' = painting \union {Head(jobs)} /\ jobs' = Tail(jobs)
        /\ UNCHANGED <<details, images, version, canvas, gui, changes>>
    BY DEF ScreenTypeOK, StartPainting
  <1>2. /\ 1 \in DOMAIN jobs /\ Head(jobs) = jobs[1] /\ jobs[1] \in Tasks
        /\ jobs' \in Seq(Tasks)
        /\ \A n \in DOMAIN jobs' : n + 1 \in DOMAIN jobs /\ n + 1 # 1
                                   /\ jobs'[n] = jobs[n + 1]
        /\ DOMAIN jobs' \subseteq Nat
    BY <1>1
  <1>3. ScreenTypeOK'
    BY <1>1, <1>2 DEF ScreenTypeOK
  <1>4. OneTask'
    <2>1. \A a, b \in painting' : a.instrument = b.instrument => a = b
      BY <1>1, <1>2 DEF OneTask
    <2>2. \A m, n \in DOMAIN jobs' : jobs'[m].instrument = jobs'[n].instrument => m = n
      BY <1>2 DEF OneTask
    <2>3. \A a \in painting', n \in DOMAIN jobs' : a.instrument # jobs'[n].instrument
      BY <1>1, <1>2 DEF OneTask
    <2> QED
      BY <2>1, <2>2, <2>3 DEF OneTask
  <1>5. TasksOK'
    <2>1. ASSUME NEW t, TaskOK(t) PROVE TaskOK(t)'
      BY <1>1, <2>1 DEF TaskOK
    <2>2. \A t \in painting' : TaskOK(t)
      BY <1>1, <1>2 DEF TasksOK
    <2>3. \A n \in DOMAIN jobs' : \E t : t = jobs'[n] /\ TaskOK(t)
      BY <1>2 DEF TasksOK
    <2> QED
      BY <2>1, <2>2, <2>3 DEF TasksOK
  <1>6. ImagesOK'
    BY <1>1 DEF ImagesOK, Incomplete
  <1>7. VersionsOK'
    BY <1>1 DEF VersionsOK
  <1> QED
    BY <1>3, <1>4, <1>5, <1>6, <1>7

LEMMA FinishPaintingInv ==
    ASSUME ScreenAssumption, ScreenInv, NEW i \in Instruments, FinishPainting(i)
    PROVE  ScreenInv'
  <1> USE DEF ScreenInv
  <1>1. PICK task \in painting :
            /\ task.instrument = i
            /\ painting' = painting \ {task}
            /\ images' = [images EXCEPT ![i][task.image] =
                            IF @ = None THEN None ELSE [@ EXCEPT !.version = task.version]]
    BY DEF FinishPainting
  <1>2. /\ details \in [Instruments -> Details] /\ jobs \in Seq(Tasks)
        /\ images \in [Instruments -> [{1, 2} -> Image \union {None}]]
        /\ painting \subseteq Tasks
        /\ details' = [details EXCEPT ![i] = [details[i] EXCEPT !.result = "ready"]]
        /\ UNCHANGED <<version, canvas, jobs, gui, changes>>
    BY DEF ScreenTypeOK, FinishPainting
  <1>3. task \in Tasks /\ task.image \in {1, 2} /\ task.version \in Versions
        /\ task.image = details[i].canvas
    BY <1>1, <1>2 DEF Tasks, TasksOK, TaskOK
  <1>4. /\ details'[i] \in Details /\ details'[i].canvas = details[i].canvas
        /\ details'[i].result = "ready"
        /\ \A j \in Instruments : j # i => details'[j] = details[j]
    <2>1. details[i] \in Details /\ details'[i] = [details[i] EXCEPT !.result = "ready"]
      BY <1>2
    <2>2. details'[i] \in Details /\ details'[i].canvas = details[i].canvas
          /\ details'[i].result = "ready"
      BY <2>1 DEF Details
    <2> QED
      BY <1>2, <2>2
  <1>5. details' \in [Instruments -> Details]
    BY <1>2, <1>4
  <1> DEFINE old == images[i][task.image]
             painted == IF old = None THEN None ELSE [old EXCEPT !.version = task.version]
  <1>6. painted \in Image \union {None} /\ (painted # None => painted.version # None)
    <2>1. old \in Image \union {None}
      BY <1>2, <1>3
    <2>2. task.version # None
      BY <1>3 DEF ScreenAssumption
    <2> HIDE DEF old
    <2> QED
      BY <1>3, <2>1, <2>2 DEF Image
  <1>7. images' = [images EXCEPT ![i] = [images[i] EXCEPT ![task.image] = painted]]
    BY <1>1, <1>2
  <1> HIDE DEF painted, old
  <1>8. images' \in [Instruments -> [{1, 2} -> Image \union {None}]]
    BY <1>2, <1>3, <1>6, <1>7
  <1>9. ScreenTypeOK'
    BY <1>1, <1>2, <1>5, <1>8 DEF ScreenTypeOK
  <1>10. OneTask'
    BY <1>1, <1>2 DEF OneTask
  <1>11. TasksOK'
    <2>1. ASSUME NEW t \in Tasks, t.instrument # i, TaskOK(t) PROVE TaskOK(t)'
      <3>1. details'[t.instrument] = details[t.instrument]
        BY <1>4, <2>1 DEF Tasks
      <3> QED
        BY <2>1, <3>1 DEF TaskOK
    <2>2. \A t \in painting' : t \in Tasks /\ t.instrument # i /\ TaskOK(t)
      BY <1>1, <1>2 DEF OneTask, TasksOK
    <2>3. \A n \in DOMAIN jobs : jobs[n] \in Tasks /\ jobs[n].instrument # i
                                 /\ TaskOK(jobs[n])
      BY <1>1, <1>2 DEF OneTask, TasksOK
    <2> QED
      BY <1>2, <2>1, <2>2, <2>3 DEF TasksOK
  <1>12. ImagesOK'
    <2> SUFFICES ASSUME NEW j \in Instruments, NEW b \in {1, 2}, Incomplete(j, b)'
                 PROVE  /\ b = details'[j].canvas
                        /\ gui \notin {"closing", "closed"} => details'[j].result = "pending"
      BY <1>2 DEF ImagesOK
    <2>1. CASE j = i
      <3>1. CASE b = task.image
        BY <1>2, <1>3, <1>6, <1>7, <2>1, <3>1 DEF Incomplete
      <3>2. CASE b # task.image
        <4>1. images'[i][b] = images[i][b]
          BY <1>2, <1>3, <1>7, <3>2
        <4>2. b = details[i].canvas
          BY <2>1, <4>1 DEF ImagesOK, Incomplete
        <4> QED
          BY <1>3, <3>2, <4>2
      <3> QED
        BY <3>1, <3>2
    <2>2. CASE j # i
      <3>1. images'[j] = images[j] /\ details'[j] = details[j]
        BY <1>2, <1>4, <1>7, <2>2
      <3> QED
        BY <3>1 DEF ImagesOK, Incomplete
    <2> QED
      BY <2>1, <2>2
  <1>13. VersionsOK'
    BY <1>2 DEF VersionsOK
  <1> QED
    BY <1>9, <1>10, <1>11, <1>12, <1>13

-----------------------------------------------------------------------------
(***************************************************************************)
(* The invariant and what it says.                                         *)
(***************************************************************************)

LEMMA ScreenNextInv ==
    ASSUME ScreenAssumption, ScreenInv, [ScreenNext]_screenVars
    PROVE  ScreenInv'
  <1>1. CASE ScreenNext
    <2>1. CASE \E i \in Instruments :
                    \/ ProcessInstrument(i) \/ SetPosition(i) \/ FinishPainting(i)
                    \/ Deregister(i) \/ Erase(i)
      BY <2>1, ProcessInstrumentInv, SetPositionInv, FinishPaintingInv, DeregisterInv,
         EraseInv
    <2>2. CASE \E size \in Sizes : ResizeScreen(size)
      BY <2>2, ResizeScreenInv
    <2>3. CASE Refresh \/ StartPainting \/ CloseScreen \/ DropJobs \/ DestroyScreen
      BY <2>3, RefreshInv, StartPaintingInv, CloseScreenInv, DropJobsInv,
         DestroyScreenInv
    <2> QED
      BY <1>1, <2>1, <2>2, <2>3 DEF ScreenNext
  <1>2. CASE UNCHANGED screenVars
    <2>1. UNCHANGED <<details, images, version, canvas, jobs, painting, gui, changes>>
      BY <1>2 DEF screenVars
    <2>2. ScreenTypeOK'
      BY <2>1 DEF ScreenInv, ScreenTypeOK
    <2>3. OneTask' /\ TasksOK'
      BY <2>1, TasksKept DEF ScreenInv, ScreenTypeOK
    <2>4. ImagesOK'
      BY <2>1, ImagesKept DEF ScreenInv
    <2>5. VersionsOK'
      BY <2>1 DEF ScreenInv, VersionsOK
    <2> QED
      BY <2>2, <2>3, <2>4, <2>5 DEF ScreenInv
  <1> QED
    BY <1>1, <1>2

LEMMA ScreenInvariance == ASSUME ScreenAssumption PROVE ScreenSpec => []ScreenInv
  <1>1. ScreenInit => ScreenInv
    BY ScreenInitInv
  <1>2. ScreenInv /\ [ScreenNext]_screenVars => ScreenInv'
    BY ScreenNextInv
  <1> QED
    BY <1>1, <1>2, PTL DEF ScreenSpec

\* The variables of a screen stay in their sets.
THEOREM ScreenTypeCorrect == ASSUME ScreenAssumption PROVE ScreenSpec => []ScreenTypeOK
  <1>1. ScreenInv => ScreenTypeOK
    BY DEF ScreenInv
  <1> QED
    BY <1>1, ScreenInvariance, PTL

\* What the screen composes is complete, and no thread paints on it.
THEOREM AlwaysFinishedShown ==
    ASSUME ScreenAssumption PROVE ScreenSpec => []OnlyFinishedIsShown
  <1>1. ASSUME ScreenInv PROVE OnlyFinishedIsShown
    <2> USE <1>1 DEF ScreenInv
    <2>1. \A i \in Instruments : details[i].canvas \in {1, 2}
      BY DEF ScreenTypeOK, Details
    <2>2. ASSUME NEW task \in TasksUnderWay
          PROVE  task.image # ToUse(details[task.instrument])
      <3>1. task \in Tasks /\ TaskOK(task)
        BY DEF TasksUnderWay, TasksOK, ScreenTypeOK
      <3>2. task.image = details[task.instrument].canvas
            /\ details[task.instrument].canvas \in {1, 2}
        BY <2>1, <3>1 DEF TaskOK, Tasks
      <3> QED
        BY <3>2 DEF ToUse
    <2>3. ASSUME NEW i \in Instruments, Composed(i) # None
          PROVE  Composed(i).version # None
      <3>1. /\ ToUse(details[i]) \in {1, 2} /\ ToUse(details[i]) # details[i].canvas
            /\ Composed(i) = images[i][ToUse(details[i])]
        BY <2>1, <2>3 DEF Composed, ToUse
      <3> QED
        BY <2>3, <3>1 DEF ImagesOK, Incomplete
    <2> QED
      BY <2>2, <2>3 DEF OnlyFinishedIsShown
  <1> QED
    BY <1>1, ScreenInvariance, PTL

\* No thread paints, or will, an instrument that is no longer registered.
THEOREM AlwaysRegistered ==
    ASSUME ScreenAssumption PROVE ScreenSpec => []TasksAreRegistered
  <1>1. ASSUME ScreenInv PROVE TasksAreRegistered
    BY <1>1 DEF ScreenInv, TasksAreRegistered, TasksUnderWay, TasksOK, TaskOK
  <1> QED
    BY <1>1, ScreenInvariance, PTL

-----------------------------------------------------------------------------
(***************************************************************************)
(* The images that an instrument shows one after the other.                *)
(***************************************************************************)
Shown(i) == images[i][ToUse(details[i])]
Own(i) == images[i][details[i].canvas]

\* The image shown is no newer than the data, and an image that waits to be shown
\* is between the two, unless its task was dropped when the screen was closed.
WaitsInOrder(i) ==
    /\ Own(i) # None /\ Own(i).version \in Versions /\ Own(i).version <= version[i]
    /\ Shown(i) # None => Shown(i).version <= Own(i).version
ImagesInOrder(i) ==
    /\ Shown(i) # None => Shown(i).version <= version[i]
    /\ gui # "closed" /\ details[i].result = "pending" => Own(i) # None
    /\ gui \notin {"closing", "closed"} /\ details[i].result = "ready" => WaitsInOrder(i)

\* A task paints data between the two as well.
TaskInOrder(t) ==
    /\ t.version <= version[t.instrument]
    /\ Shown(t.instrument) # None => Shown(t.instrument).version <= t.version

PaintsInOrder ==
    /\ \A i \in Instruments : ImagesInOrder(i)
    /\ \A t \in painting : TaskInOrder(t)
    /\ \A n \in DOMAIN jobs : TaskInOrder(jobs[n])

\* What a step may do to what is shown of instrument i.
GoesOn(i) ==
    details'[i].registered /\ Shown(i) # None
        => Shown(i)' # None /\ Shown(i).version <= Shown(i)'.version

LEMMA ShownFacts ==
    ASSUME ScreenAssumption, ScreenInv, NEW i \in Instruments
    PROVE  /\ details[i] \in Details
           /\ details[i].canvas \in {1, 2} /\ ToUse(details[i]) \in {1, 2}
           /\ ToUse(details[i]) # details[i].canvas
           /\ images[i] \in [{1, 2} -> Image \union {None}]
           /\ version[i] \in Nat
           /\ Shown(i) # None => Shown(i).version \in Nat
           /\ Versions \subseteq Nat
  <1>1. /\ details[i] \in Details /\ version[i] \in Versions
        /\ images[i] \in [{1, 2} -> Image \union {None}]
    BY DEF ScreenInv, ScreenTypeOK
  <1>2. /\ details[i].canvas \in {1, 2} /\ ToUse(details[i]) \in {1, 2}
        /\ ToUse(details[i]) # details[i].canvas
    BY <1>1 DEF Details, ToUse
  <1>3. Versions \subseteq Nat
    BY DEF Versions, ScreenAssumption
  <1>4. Shown(i) # None => Shown(i).version \in Versions
    <2> SUFFICES ASSUME Shown(i) # None PROVE Shown(i).version \in Versions
      OBVIOUS
    <2>1. Shown(i) \in Image
      BY <1>1, <1>2 DEF Shown
    <2>2. Shown(i).version # None
      BY <1>2 DEF ScreenInv, ImagesOK, Incomplete, Shown
    <2> QED
      BY <2>1, <2>2 DEF Image
  <1> QED
    BY <1>1, <1>2, <1>3, <1>4

\* A step that leaves images, tasks and results as they are.
LEMMA OrderKept ==
    ASSUME ScreenAssumption, ScreenInv, PaintsInOrder,
           UNCHANGED <<images, jobs, painting>>,
           gui = "free" \/ gui' = gui,
           \A i \in Instruments : /\ details'[i].result = details[i].result
                                  /\ details'[i].canvas = details[i].canvas
                                  /\ version'[i] \in Nat /\ version[i] <= version'[i]
    PROVE  PaintsInOrder' /\ \A i \in Instruments : GoesOn(i)
  <1>1. ASSUME NEW i \in Instruments
        PROVE  /\ Shown(i)' = Shown(i) /\ Own(i)' = Own(i)
               /\ version[i] \in Nat /\ version'[i] \in Nat /\ version[i] <= version'[i]
               /\ Shown(i) # None => Shown(i).version \in Nat
    BY ShownFacts DEF Shown, Own, ToUse
  <1>2. ASSUME NEW i \in Instruments PROVE ImagesInOrder(i)'
    <2>1. ImagesInOrder(i) /\ Versions \subseteq Nat
      BY ShownFacts DEF PaintsInOrder
    <2>2. Shown(i)' # None => Shown(i)'.version <= version'[i]
      BY <1>1, <2>1 DEF ImagesInOrder
    <2>3. gui' # "closed" /\ details'[i].result = "pending" => Own(i)' # None
      BY <1>1, <2>1 DEF ImagesInOrder
    <2>4. WaitsInOrder(i) => WaitsInOrder(i)'
      <3> SUFFICES ASSUME WaitsInOrder(i) PROVE WaitsInOrder(i)'
        OBVIOUS
      <3>1. /\ Own(i) # None /\ Own(i).version \in Versions /\ Own(i).version <= version[i]
            /\ Shown(i) # None => Shown(i).version <= Own(i).version
        BY DEF WaitsInOrder
      <3>2. Own(i).version \in Nat
        BY <2>1, <3>1
      <3>3. Own(i).version <= version'[i]
        BY <1>1, <3>1, <3>2
      <3> QED
        BY <1>1, <3>1, <3>3 DEF WaitsInOrder
    <2> QED
      BY <2>1, <2>2, <2>3, <2>4 DEF ImagesInOrder
  <1>3. ASSUME NEW t \in Tasks, TaskInOrder(t) PROVE TaskInOrder(t)'
    <2>1. t.instrument \in Instruments /\ t.version \in Nat
      BY ShownFacts DEF Tasks
    <2> QED
      BY <1>1, <1>3, <2>1 DEF TaskInOrder
  <1>4. painting \subseteq Tasks /\ \A n \in DOMAIN jobs : jobs[n] \in Tasks
    BY DEF ScreenInv, ScreenTypeOK
  <1>5. ASSUME NEW i \in Instruments PROVE GoesOn(i)
    BY <1>1 DEF GoesOn
  <1> QED
    BY <1>2, <1>3, <1>4, <1>5 DEF PaintsInOrder

\* Data that change are newer.
LEMMA ChangeInOrder ==
    ASSUME ScreenAssumption, ScreenInv, PaintsInOrder,
           \/ \E i \in Instruments : ProcessInstrument(i) \/ SetPosition(i) \/ Deregister(i)
           \/ \E size \in Sizes : ResizeScreen(size)
           \/ CloseScreen
           \/ UNCHANGED screenVars
    PROVE  PaintsInOrder' /\ \A i \in Instruments : GoesOn(i)
  <1>1. details \in [Instruments -> Details] /\ version \in [Instruments -> Versions]
    BY DEF ScreenInv, ScreenTypeOK
  <1>2. ASSUME NEW i \in Instruments
        PROVE  version[i] \in Nat /\ version[i] + 1 \in Nat /\ version[i] <= version[i] + 1
               /\ version[i] <= version[i]
    BY ShownFacts
  <1>3. ASSUME NEW i \in Instruments, ProcessInstrument(i)
        PROVE  PaintsInOrder' /\ \A j \in Instruments : GoesOn(j)
    <2>1. /\ UNCHANGED <<images, jobs, painting, gui>>
          /\ version' = [version EXCEPT ![i] = @ + 1]
          /\ details' = [details EXCEPT ![i].dirty = TRUE]
      BY <1>3 DEF ProcessInstrument
    <2>2. \A j \in Instruments : /\ details'[j].result = details[j].result
                                 /\ details'[j].canvas = details[j].canvas
      BY <1>1, <2>1 DEF Details
    <2>3. \A j \in Instruments : version'[j] \in Nat /\ version[j] <= version'[j]
      BY <1>1, <1>2, <2>1
    <2> QED
      BY <2>1, <2>2, <2>3, OrderKept
  <1>4. ASSUME NEW i \in Instruments, SetPosition(i)
        PROVE  PaintsInOrder' /\ \A j \in Instruments : GoesOn(j)
    <2>1. /\ UNCHANGED <<images, version, jobs, painting, gui>>
          /\ details' = [details EXCEPT ![i].position = None]
      BY <1>4 DEF SetPosition
    <2>2. \A j \in Instruments : /\ details'[j].result = details[j].result
                                 /\ details'[j].canvas = details[j].canvas
      BY <1>1, <2>1 DEF Details
    <2> QED
      BY <1>2, <2>1, <2>2, OrderKept
  <1>5. ASSUME NEW size \in Sizes, ResizeScreen(size)
        PROVE  PaintsInOrder' /\ \A j \in Instruments : GoesOn(j)
    <2>1. /\ UNCHANGED <<images, version, jobs, painting, gui>>
          /\ details' = [i \in Instruments |-> [details[i] EXCEPT !.position = None]]
      BY <1>5 DEF ResizeScreen
    <2>2. \A j \in Instruments : /\ details'[j].result = details[j].result
                                 /\ details'[j].canvas = details[j].canvas
      BY <1>1, <2>1 DEF Details
    <2> QED
      BY <1>2, <2>1, <2>2, OrderKept
  <1>6. ASSUME (\E i \in Instruments : Deregister(i)) \/ CloseScreen \/ UNCHANGED screenVars
        PROVE  PaintsInOrder' /\ \A j \in Instruments : GoesOn(j)
    <2>1. /\ UNCHANGED <<details, images, version, jobs, painting>>
          /\ gui = "free" \/ gui' = gui
      BY <1>6 DEF Deregister, CloseScreen, screenVars
    <2> QED
      BY <1>2, <2>1, OrderKept
  <1> QED
    BY <1>3, <1>4, <1>5, <1>6

\* What a refresh does to one instrument, and what the tasks are that it starts.
LEMMA RefreshDoes ==
    ASSUME ScreenAssumption, ScreenInv, Refresh
    PROVE  /\ \A i \in Instruments :
                /\ images'[i][ToUse(details'[i])] = images[i][ToUse(details'[i])]
                /\ \/ /\ details'[i].canvas = details[i].canvas
                      /\ details'[i].result = details[i].result
                      /\ details'[i].registered => details[i].result # "ready"
                      /\ images'[i] = images[i]
                   \/ /\ details[i].result # "pending"
                      /\ details'[i].result \in {"none", "pending"}
                      /\ details'[i].canvas = IF details[i].result = "ready"
                                              THEN 3 - details[i].canvas
                                              ELSE details[i].canvas
                      /\ details'[i].result = "pending"
                            => images'[i][details'[i].canvas] # None
           /\ \A n \in DOMAIN jobs' :
                \/ n \in DOMAIN jobs /\ jobs'[n] = jobs[n]
                \/ /\ jobs'[n].instrument \in Instruments
                   /\ jobs'[n].version = version[jobs'[n].instrument]
  <1> DEFINE before == [i \in Registered |-> Swapped(Positioned(details[i]))]
             starting == {i \in Registered : Starts(before[i])}
             order == SetToSeq(starting)
             task(i) == [instrument |-> i, image |-> before[i].canvas, version |-> version[i]]
  <1>1. /\ details' = [i \in Instruments |->
                            IF i \in Registered THEN Started(before[i]) ELSE details[i]]
        /\ images' = [i \in Instruments |->
                            IF i \in starting
                            THEN [images[i] EXCEPT ![before[i].canvas] =
                                    [size |-> before[i].position, version |-> None]]
                            ELSE images[i]]
        /\ jobs' = jobs \o [n \in DOMAIN order |-> task(order[n])]
    BY DEF Refresh
  <1>2. Registered \subseteq Instruments /\ starting \subseteq Instruments
    BY DEF Registered
  <1>3. canvas \in Sizes /\ jobs \in Seq(Tasks)
    BY DEF ScreenInv, ScreenTypeOK
  <1>4. ASSUME NEW i \in Registered
        PROVE  /\ before[i] \in Details /\ before[i].position \in Sizes
               /\ before[i].result = IF details[i].result = "ready" THEN "none"
                                     ELSE details[i].result
               /\ before[i].canvas = IF details[i].result = "ready"
                                     THEN 3 - details[i].canvas ELSE details[i].canvas
    <2>1. details[i] \in Details /\ before[i] = Swapped(Positioned(details[i]))
      BY <1>2, ShownFacts
    <2> HIDE DEF before
    <2> QED
      BY <1>3, <2>1, PositionedFacts, SwappedFacts
  <1>5. ASSUME NEW i \in Registered
        PROVE  /\ details'[i] \in Details /\ details'[i].canvas = before[i].canvas
               /\ details'[i].result = IF i \in starting THEN "pending" ELSE before[i].result
    <2>1. details'[i] = Started(before[i])
      BY <1>1, <1>2
    <2>2. i \in starting <=> Starts(before[i])
      OBVIOUS
    <2> HIDE DEF before, starting
    <2> QED
      BY <1>4, <2>1, <2>2, StartedFacts
  <1>6. ASSUME NEW i \in starting
        PROVE  /\ i \in Registered /\ before[i].result = "none"
               /\ images'[i] = [images[i] EXCEPT ![before[i].canvas] =
                                    [size |-> before[i].position, version |-> None]]
    <2>1. i \in Instruments
      BY <1>2
    <2> QED
      BY <1>1, <2>1 DEF Starts
  <1>7. ASSUME NEW i \in Instruments, i \notin starting PROVE images'[i] = images[i]
    <2> HIDE DEF before, starting
    <2> QED
      BY <1>1, <1>7
  <1>8. ASSUME NEW i \in Instruments, i \notin Registered
        PROVE  details'[i] = details[i] /\ ~details[i].registered
    BY <1>1, <1>8 DEF Registered
  <1>9. \A n \in DOMAIN jobs' :
                \/ n \in DOMAIN jobs /\ jobs'[n] = jobs[n]
                \/ /\ jobs'[n].instrument \in Instruments
                   /\ jobs'[n].version = version[jobs'[n].instrument]
    <2> DEFINE k == Cardinality(starting)
               new == [n \in DOMAIN order |-> task(order[n])]
               T == {task(i) : i \in Instruments}
    <2>1. k \in Nat /\ order \in [1 .. k -> starting]
      <3>1. IsFiniteSet(starting)
        BY <1>2, FS_Subset DEF ScreenAssumption
      <3> HIDE DEF starting
      <3> QED
        BY <3>1, SetToSeqFacts
    <2>2. new \in [1 .. k -> T]
      <3> HIDE DEF k, order, starting, before
      <3> QED
        BY <1>2, <2>1
    <2>3. jobs \in Seq(Tasks \union T) /\ new \in [1 .. k -> Tasks \union T]
      <3> HIDE DEF new, T, k
      <3>1. Tasks \subseteq Tasks \union T
        OBVIOUS
      <3> QED
        BY <1>3, <2>2, <3>1, SeqMonotonic
    <2> HIDE DEF new, k
    <2>4. \A n \in DOMAIN (jobs \o new) :
            \/ n \in DOMAIN jobs /\ (jobs \o new)[n] = jobs[n]
            \/ n - Len(jobs) \in 1 .. k /\ (jobs \o new)[n] = new[n - Len(jobs)]
      <3> HIDE DEF T
      <3> QED
        BY <2>1, <2>3, ConcatFacts
    <2>5. \A x \in T : x.instrument \in Instruments /\ x.version = version[x.instrument]
      <3> HIDE DEF before
      <3> QED
        OBVIOUS
    <2>6. jobs' = jobs \o new
      BY <1>1 DEF new
    <2> HIDE DEF T, starting, order
    <2>7. \A m \in 1 .. k : new[m] \in T
      BY <2>2
    <2> QED
      BY <2>4, <2>5, <2>6, <2>7
  <1> HIDE DEF before, starting, order, task
  <1>10. ASSUME NEW i \in Instruments
         PROVE  /\ images'[i][ToUse(details'[i])] = images[i][ToUse(details'[i])]
                /\ \/ /\ details'[i].canvas = details[i].canvas
                      /\ details'[i].result = details[i].result
                      /\ details'[i].registered => details[i].result # "ready"
                      /\ images'[i] = images[i]
                   \/ /\ details[i].result # "pending"
                      /\ details'[i].result \in {"none", "pending"}
                      /\ details'[i].canvas = IF details[i].result = "ready"
                                              THEN 3 - details[i].canvas
                                              ELSE details[i].canvas
                      /\ details'[i].result = "pending"
                            => images'[i][details'[i].canvas] # None
    <2>1. CASE i \in starting
      <3>1. /\ i \in Registered /\ details'[i].canvas = before[i].canvas
            /\ before[i].canvas \in {1, 2} /\ details[i].result # "pending"
            /\ details'[i].result = "pending"
        BY <1>4, <1>5, <1>6, <2>1 DEF Details
      <3>2. DOMAIN images[i] = {1, 2}
        BY ShownFacts
      <3>3. images'[i][before[i].canvas] = [size |-> before[i].position, version |-> None]
        BY <1>6, <2>1, <3>1, <3>2
      <3>4. [size |-> before[i].position, version |-> None] # None
        <4>1. before[i].position \in Sizes
          BY <1>4, <3>1
        <4> QED
          BY <4>1 DEF ScreenAssumption
      <3>5. images'[i][3 - before[i].canvas] = images[i][3 - before[i].canvas]
        <4>1. 3 - before[i].canvas \in {1, 2} /\ 3 - before[i].canvas # before[i].canvas
          BY <3>1
        <4> QED
          BY <1>6, <2>1, <3>2, <4>1
      <3> QED
        BY <1>4, <3>1, <3>3, <3>4, <3>5 DEF ToUse
    <2>2. CASE i \in Registered /\ i \notin starting
      <3>1. images'[i] = images[i] /\ details'[i].canvas = before[i].canvas
            /\ details'[i].result = before[i].result
        BY <1>5, <1>7, <2>2
      <3>2. details[i].result \in {"none", "pending", "ready"}
        BY ShownFacts DEF Details
      <3> QED
        BY <1>4, <2>2, <3>1, <3>2
    <2>3. CASE i \notin Registered /\ i \notin starting
      BY <1>7, <1>8, <2>3
    <2> QED
      BY <2>1, <2>2, <2>3
  <1> QED
    BY <1>9, <1>10

\* A refresh shows an image that waited, whose data are between those of the image
\* shown before and the present ones, or leaves what is shown; the tasks that it
\* starts paint the present data.
LEMMA RefreshInOrder ==
    ASSUME ScreenAssumption, ScreenInv, ScreenInv', PaintsInOrder, Refresh
    PROVE  PaintsInOrder' /\ \A i \in Instruments : GoesOn(i)
  <1>1. gui = "free" /\ UNCHANGED <<version, painting, gui>>
    BY DEF Refresh
  <1>2. ASSUME NEW i \in Instruments
        PROVE  /\ ImagesInOrder(i)' /\ GoesOn(i)
               /\ Shown(i)' # None => Shown(i)'.version <= version[i]
               /\ details[i].result = "pending" => Shown(i)' = Shown(i)
    <2>1. /\ ImagesInOrder(i) /\ version[i] \in Nat /\ Versions \subseteq Nat
          /\ details[i].canvas \in {1, 2} /\ ToUse(details[i]) = 3 - details[i].canvas
          /\ Shown(i) # None => Shown(i).version \in Nat
          /\ ToUse(details'[i]) = 3 - details'[i].canvas
      BY ShownFacts DEF PaintsInOrder, ToUse
    <2>2. images'[i][ToUse(details'[i])] = images[i][ToUse(details'[i])]
      BY RefreshDoes
    <2>3. CASE /\ details'[i].canvas = details[i].canvas
               /\ details'[i].result = details[i].result
               /\ images'[i] = images[i]
      <3>1. Shown(i)' = Shown(i) /\ Own(i)' = Own(i)
        BY <2>3 DEF Shown, Own, ToUse
      <3> QED
        BY <1>1, <2>1, <2>3, <3>1 DEF ImagesInOrder, WaitsInOrder, GoesOn
    <2>4. CASE /\ details[i].result # "pending"
               /\ details'[i].result \in {"none", "pending"}
               /\ details'[i].canvas = IF details[i].result = "ready"
                                       THEN 3 - details[i].canvas ELSE details[i].canvas
               /\ details'[i].result = "pending" => images'[i][details'[i].canvas] # None
      <3>1. CASE details[i].result = "ready"
        <4>1. ToUse(details'[i]) = details[i].canvas
          BY <2>1, <2>4, <3>1
        <4>2. Shown(i)' = Own(i)
          BY <2>2, <4>1 DEF Shown, Own
        <4>3. WaitsInOrder(i)
          BY <1>1, <2>1, <3>1 DEF ImagesInOrder
        <4> QED
          BY <1>1, <2>1, <2>4, <3>1, <4>2, <4>3
          DEF WaitsInOrder, ImagesInOrder, GoesOn, Own
      <3>2. CASE details[i].result # "ready"
        <4>1. Shown(i)' = Shown(i)
          BY <2>1, <2>2, <2>4, <3>2 DEF Shown
        <4> QED
          BY <1>1, <2>1, <2>4, <3>2, <4>1 DEF ImagesInOrder, GoesOn, Own
      <3> QED
        BY <3>1, <3>2
    <2> QED
      BY <2>3, <2>4, RefreshDoes
  \* Tasks that there were, whose instruments show what they did, and new ones.
  <1>3. ASSUME NEW t \in Tasks, TaskOK(t), TaskInOrder(t) PROVE TaskInOrder(t)'
    <2>1. t.instrument \in Instruments /\ details[t.instrument].result = "pending"
      BY <1>3 DEF TaskOK, Tasks
    <2>2. Shown(t.instrument)' = Shown(t.instrument)
      BY <1>2, <2>1
    <2> QED
      BY <1>1, <1>3, <2>2 DEF TaskInOrder
  <1>4. ASSUME NEW t, t.instrument \in Instruments, t.version = version[t.instrument]
        PROVE  TaskInOrder(t)'
    <2>1. version[t.instrument] \in Nat
      BY <1>4, ShownFacts
    <2> QED
      BY <1>1, <1>2, <1>4, <2>1 DEF TaskInOrder
  <1>5. /\ painting \subseteq Tasks /\ \A n \in DOMAIN jobs : jobs[n] \in Tasks
        /\ \A t \in painting : TaskOK(t)
        /\ \A n \in DOMAIN jobs : TaskOK(jobs[n])
    BY DEF ScreenInv, ScreenTypeOK, TasksOK
  <1>6. ASSUME NEW t \in painting' PROVE TaskInOrder(t)'
    BY <1>1, <1>3, <1>5, <1>6 DEF PaintsInOrder
  <1>7. ASSUME NEW n \in DOMAIN jobs', NEW t, t = jobs'[n] PROVE TaskInOrder(t)'
    <2>1. CASE n \in DOMAIN jobs /\ t = jobs[n]
      BY <1>3, <1>5, <2>1 DEF PaintsInOrder
    <2>2. CASE t.instrument \in Instruments /\ t.version = version[t.instrument]
      BY <1>4, <2>2
    <2> QED
      BY <1>7, <2>1, <2>2, RefreshDoes
  <1> QED
    BY <1>2, <1>6, <1>7 DEF PaintsInOrder

\* The images of an instrument that is erased are gone, and no task is of it.
LEMMA EraseInOrder ==
    ASSUME ScreenAssumption, ScreenInv, ScreenInv', PaintsInOrder,
           NEW i \in Instruments, Erase(i)
    PROVE  PaintsInOrder' /\ \A j \in Instruments : GoesOn(j)
  <1>1. /\ details \in [Instruments -> Details]
        /\ images \in [Instruments -> [{1, 2} -> Image \union {None}]]
        /\ painting \subseteq Tasks /\ \A n \in DOMAIN jobs : jobs[n] \in Tasks
    BY DEF ScreenInv, ScreenTypeOK
  <1>2. /\ gui = i /\ UNCHANGED <<version, jobs, painting>>
        /\ details' = [details EXCEPT ![i] = [details[i] EXCEPT
                            !.registered = FALSE, !.position = None,
                            !.result = "none", !.canvas = 1]]
        /\ images' = [images EXCEPT ![i] = [b \in {1, 2} |-> None]]
    BY <1>1 DEF Erase
  <1>3. /\ details[i] \in Details /\ gui \notin {"closing", "closed"}
    BY <1>1, <1>2 DEF ScreenAssumption
  <1>4. /\ ~details'[i].registered /\ details'[i].result = "none"
        /\ Shown(i)' = None
    <2>1. details'[i] = [details[i] EXCEPT !.registered = FALSE, !.position = None,
                                           !.result = "none", !.canvas = 1]
          /\ images'[i] = [b \in {1, 2} |-> None]
      BY <1>1, <1>2
    <2>2. /\ ~details'[i].registered /\ details'[i].result = "none"
          /\ details'[i].canvas = 1
      BY <1>3, <2>1 DEF Details
    <2> QED
      BY <2>1, <2>2 DEF Shown, ToUse
  <1>5. ASSUME NEW j \in Instruments, j # i
        PROVE  /\ details'[j] = details[j] /\ Shown(j)' = Shown(j) /\ Own(j)' = Own(j)
               /\ Shown(j) # None => Shown(j).version \in Nat
    BY <1>2, <1>5, ShownFacts DEF Shown, Own
  <1>6. ASSUME NEW j \in Instruments PROVE ImagesInOrder(j)' /\ GoesOn(j)
    <2>1. CASE j = i
      BY <1>4, <2>1 DEF ImagesInOrder, GoesOn
    <2>2. CASE j # i
      <3>1. ImagesInOrder(j)
        BY DEF PaintsInOrder
      <3> QED
        BY <1>2, <1>3, <1>5, <2>2, <3>1 DEF ImagesInOrder, WaitsInOrder, GoesOn
    <2> QED
      BY <2>1, <2>2
  <1>7. ASSUME NEW t \in Tasks, TaskInOrder(t) PROVE TaskInOrder(t)'
    BY <1>2, <1>4, <1>5, <1>7 DEF TaskInOrder, Tasks
  <1> QED
    BY <1>1, <1>2, <1>6, <1>7 DEF PaintsInOrder

\* When the screen is closed, images that were to be painted are not, but none of
\* them is shown any more.
LEMMA CloseInOrder ==
    ASSUME ScreenAssumption, ScreenInv, ScreenInv', PaintsInOrder,
           DropJobs \/ DestroyScreen
    PROVE  PaintsInOrder' /\ \A i \in Instruments : GoesOn(i)
  <1>1. details \in [Instruments -> Details] /\ painting \subseteq Tasks
    BY DEF ScreenInv, ScreenTypeOK
  <1>2. CASE DropJobs
    <2>1. /\ UNCHANGED <<images, version, painting, gui>> /\ gui = "closing" /\ jobs' = <<>>
          /\ details' = [i \in Instruments |->
                IF \E n \in DOMAIN jobs : jobs[n].instrument = i
                THEN [details[i] EXCEPT !.result = "ready"] ELSE details[i]]
      BY <1>2 DEF DropJobs
    <2>2. ASSUME NEW i \in Instruments
          PROVE  /\ details'[i].canvas = details[i].canvas
                 /\ details'[i].result = "pending" => details[i].result = "pending"
      <3>1. details[i] \in Details
        BY <1>1
      <3>2. details'[i] \in {[details[i] EXCEPT !.result = "ready"], details[i]}
        BY <2>1
      <3> QED
        BY <3>1, <3>2 DEF Details
    <2>3. ASSUME NEW i \in Instruments
          PROVE  /\ Shown(i)' = Shown(i) /\ Own(i)' = Own(i)
                 /\ Shown(i) # None => Shown(i).version \in Nat
      BY <2>1, <2>2, ShownFacts DEF Shown, Own, ToUse
    <2>4. ASSUME NEW i \in Instruments PROVE ImagesInOrder(i)' /\ GoesOn(i)
      <3>1. ImagesInOrder(i)
        BY DEF PaintsInOrder
      <3> QED
        BY <2>1, <2>2, <2>3, <3>1 DEF ImagesInOrder, GoesOn
    <2>5. ASSUME NEW t \in Tasks, TaskInOrder(t) PROVE TaskInOrder(t)'
      BY <2>1, <2>3, <2>5 DEF TaskInOrder, Tasks
    <2>6. DOMAIN jobs' = {}
      BY <2>1
    <2> QED
      BY <1>1, <2>1, <2>4, <2>5, <2>6 DEF PaintsInOrder
  <1>3. CASE DestroyScreen
    <2>1. /\ gui' = "closed" /\ painting' = {} /\ jobs' = <<>>
          /\ details' = [i \in Instruments |-> [details[i] EXCEPT !.registered = FALSE]]
          /\ images' = [i \in Instruments |-> [b \in {1, 2} |-> None]]
      BY <1>3 DEF DestroyScreen
    <2>2. ASSUME NEW i \in Instruments
          PROVE  ~details'[i].registered /\ details'[i].result = details[i].result
                 /\ details'[i].canvas \in {1, 2} /\ ToUse(details'[i]) \in {1, 2}
      <3>1. details[i] \in Details /\ details'[i] = [details[i] EXCEPT !.registered = FALSE]
        BY <1>1, <2>1
      <3> QED
        BY <3>1 DEF Details, ToUse
    <2>3. DOMAIN jobs' = {}
      BY <2>1
    <2>4. ASSUME NEW i \in Instruments PROVE Shown(i)' = None
      BY <2>1, <2>2 DEF Shown
    <2> QED
      BY <2>1, <2>2, <2>3, <2>4 DEF PaintsInOrder, ImagesInOrder, GoesOn
  <1> QED
    BY <1>2, <1>3

\* The tasks of a screen go from the queue to a thread.
LEMMA StartPaintingInOrder ==
    ASSUME ScreenAssumption, ScreenInv, PaintsInOrder, StartPainting
    PROVE  PaintsInOrder' /\ \A i \in Instruments : GoesOn(i)
  <1>1. /\ jobs \in Seq(Tasks) /\ jobs # <<>>
        /\ painting' = painting \union {Head(jobs)} /\ jobs' = Tail(jobs)
        /\ UNCHANGED <<details, images, version, gui>>
    BY DEF ScreenInv, ScreenTypeOK, StartPainting
  <1>2. /\ 1 \in DOMAIN jobs /\ Head(jobs) = jobs[1]
        /\ \A n \in DOMAIN jobs' : n + 1 \in DOMAIN jobs /\ jobs'[n] = jobs[n + 1]
    BY <1>1
  <1>3. ASSUME NEW i \in Instruments
        PROVE  /\ Shown(i)' = Shown(i) /\ Own(i)' = Own(i) /\ ImagesInOrder(i)
               /\ Shown(i) # None => Shown(i).version \in Nat
    BY <1>1, ShownFacts DEF Shown, Own, PaintsInOrder
  <1>4. ASSUME NEW i \in Instruments PROVE ImagesInOrder(i)' /\ GoesOn(i)
    BY <1>1, <1>3 DEF ImagesInOrder, WaitsInOrder, GoesOn
  <1>5. ASSUME NEW t, TaskInOrder(t) PROVE TaskInOrder(t)'
    BY <1>1, <1>5 DEF TaskInOrder, Shown
  <1>6. \A t \in painting' : TaskInOrder(t)
    BY <1>1, <1>2 DEF PaintsInOrder
  <1>7. \A n \in DOMAIN jobs' : \E t : t = jobs'[n] /\ TaskInOrder(t)
    BY <1>2 DEF PaintsInOrder
  <1> QED
    BY <1>4, <1>5, <1>6, <1>7 DEF PaintsInOrder

\* A painter finishes the image that waits, not the one that is shown.
LEMMA FinishPaintingInOrder ==
    ASSUME ScreenAssumption, ScreenInv, PaintsInOrder,
           NEW i \in Instruments, FinishPainting(i)
    PROVE  PaintsInOrder' /\ \A j \in Instruments : GoesOn(j)
  <1>1. PICK task \in painting :
            /\ task.instrument = i
            /\ painting' = painting \ {task}
            /\ images' = [images EXCEPT ![i][task.image] =
                            IF @ = None THEN None ELSE [@ EXCEPT !.version = task.version]]
    BY DEF FinishPainting
  <1>2. /\ details \in [Instruments -> Details]
        /\ images \in [Instruments -> [{1, 2} -> Image \union {None}]]
        /\ task \in Tasks /\ TaskOK(task) /\ TaskInOrder(task)
        /\ painting \subseteq Tasks /\ \A n \in DOMAIN jobs : jobs[n] \in Tasks
        /\ UNCHANGED <<version, jobs, gui>>
    BY DEF ScreenInv, ScreenTypeOK, TasksOK, PaintsInOrder, FinishPainting
  <1>3. details' = [details EXCEPT ![i] = [details[i] EXCEPT !.result = "ready"]]
    BY <1>2 DEF FinishPainting
  <1>4. /\ details[i].result = "pending" /\ task.image = details[i].canvas
        /\ details[i].canvas \in {1, 2} /\ ToUse(details[i]) \in {1, 2}
        /\ ToUse(details[i]) # details[i].canvas
        /\ version[i] \in Nat /\ task.version \in Versions /\ Versions \subseteq Nat
    BY <1>1, <1>2, ShownFacts DEF TaskOK, Tasks
  <1>5. ASSUME NEW j \in Instruments
        PROVE  /\ details'[j].canvas = details[j].canvas
               /\ details'[j].result = IF j = i THEN "ready" ELSE details[j].result
    BY <1>2, <1>3 DEF Details
  <1>6. ASSUME NEW j \in Instruments
        PROVE  /\ Shown(j)' = Shown(j)
               /\ Shown(j) # None => Shown(j).version \in Nat
               /\ j # i => Own(j)' = Own(j)
    <2>1. j # i => images'[j] = images[j]
      BY <1>1, <1>2
    <2>2. images'[i][ToUse(details[i])] = images[i][ToUse(details[i])]
      BY <1>1, <1>2, <1>4
    <2> QED
      BY <1>5, <2>1, <2>2, ShownFacts DEF Shown, Own, ToUse
  <1>7. Own(i) # None => Own(i)' # None /\ Own(i)'.version = task.version
    <2> SUFFICES ASSUME Own(i) # None
                 PROVE  Own(i)' # None /\ Own(i)'.version = task.version
      OBVIOUS
    <2>1. Own(i) \in Image
      BY <1>2, <1>4 DEF Own
    <2>2. Own(i)' = [Own(i) EXCEPT !.version = task.version]
      BY <1>1, <1>2, <1>4, <1>5 DEF Own
    <2>3. Own(i)' \in Image /\ Own(i)'.version = task.version
      BY <1>4, <2>1, <2>2 DEF Image
    <2>4. Own(i)' # None
      BY <2>3 DEF ScreenAssumption, Image
    <2> QED
      BY <2>3, <2>4
  <1>8. ASSUME NEW j \in Instruments PROVE ImagesInOrder(j)' /\ GoesOn(j)
    <2>1. ImagesInOrder(j)
      BY DEF PaintsInOrder
    <2>2. CASE j # i
      BY <1>2, <1>5, <1>6, <2>1, <2>2 DEF ImagesInOrder, WaitsInOrder, GoesOn
    <2>3. CASE j = i
      <3>1. Shown(i)' # None => Shown(i)'.version <= version'[i]
        BY <1>2, <1>6, <2>1, <2>3 DEF ImagesInOrder
      <3>2. gui' \notin {"closing", "closed"} => WaitsInOrder(i)'
        <4>1. gui \notin {"closing", "closed"} => Own(i) # None
          BY <1>4, <2>1, <2>3 DEF ImagesInOrder
        <4> QED
          BY <1>1, <1>2, <1>4, <1>6, <1>7, <4>1 DEF WaitsInOrder, TaskInOrder
      <3> QED
        BY <1>5, <1>6, <2>3, <3>1, <3>2 DEF ImagesInOrder, GoesOn
    <2> QED
      BY <2>2, <2>3
  <1>9. ASSUME NEW t \in Tasks, TaskInOrder(t) PROVE TaskInOrder(t)'
    BY <1>2, <1>6, <1>9 DEF TaskInOrder, Tasks
  <1> QED
    BY <1>1, <1>2, <1>8, <1>9 DEF PaintsInOrder

LEMMA StepInOrder ==
    ASSUME ScreenAssumption, ScreenInv, ScreenInv', PaintsInOrder,
           [ScreenNext]_screenVars
    PROVE  PaintsInOrder' /\ \A i \in Instruments : GoesOn(i)
  <1>1. CASE \/ \E i \in Instruments :
                    ProcessInstrument(i) \/ SetPosition(i) \/ Deregister(i)
             \/ \E size \in Sizes : ResizeScreen(size)
             \/ CloseScreen
             \/ UNCHANGED screenVars
    BY <1>1, ChangeInOrder
  <1>2. CASE \E i \in Instruments : FinishPainting(i) \/ Erase(i)
    BY <1>2, FinishPaintingInOrder, EraseInOrder
  <1>3. CASE Refresh \/ StartPainting
    BY <1>3, RefreshInOrder, StartPaintingInOrder
  <1>4. CASE DropJobs \/ DestroyScreen
    BY <1>4, CloseInOrder
  <1> QED
    BY <1>1, <1>2, <1>3, <1>4 DEF ScreenNext

LEMMA InitInOrder == ASSUME ScreenAssumption, ScreenInit PROVE PaintsInOrder
  <1>1. \A i \in Instruments : Shown(i) = None /\ details[i].result = "none"
    BY DEF ScreenInit, Shown, ToUse
  <1>2. painting = {} /\ DOMAIN jobs = {}
    BY DEF ScreenInit
  <1> QED
    BY <1>1, <1>2 DEF PaintsInOrder, ImagesInOrder

\* An instrument's image on the screen is only ever followed by a finished one of
\* the same or newer data, for any number of instruments, sizes and threads.
THEOREM NeverBackInTime ==
    ASSUME ScreenAssumption PROVE ScreenSpec => NeverShowsOlder
  <1>1. ScreenInit => PaintsInOrder
    BY InitInOrder
  <1>2. ScreenInv /\ ScreenInv' /\ PaintsInOrder /\ [ScreenNext]_screenVars => PaintsInOrder'
    BY StepInOrder
  <1>3. ScreenInv /\ ScreenInv' /\ PaintsInOrder /\ [ScreenNext]_screenVars
          => [\A i \in Instruments :
                LET old == images[i][ToUse(details[i])]
                    new == images'[i][ToUse(details'[i])]
                IN details'[i].registered /\ old # None =>
                        new # None /\ old.version <= new.version]_screenVars
    <2> SUFFICES ASSUME ScreenInv, ScreenInv', PaintsInOrder, [ScreenNext]_screenVars,
                        NEW i \in Instruments
                 PROVE  LET old == images[i][ToUse(details[i])]
                            new == images'[i][ToUse(details'[i])]
                        IN details'[i].registered /\ old # None =>
                                new # None /\ old.version <= new.version
      BY Zenon
    <2>1. GoesOn(i)
      BY StepInOrder
    <2> QED
      BY <2>1 DEF GoesOn, Shown, ToUse
  <1> QED
    BY <1>1, <1>2, <1>3, ScreenInvariance, PTL DEF ScreenSpec, NeverShowsOlder

-----------------------------------------------------------------------------
(***************************************************************************)
(* The instrument of messages.                                             *)
(***************************************************************************)

\* Induction, as a fact about a set: the natural numbers are well-founded.
LEMMA NaturalsByInduction ==
    ASSUME NEW T, 0 \in T, \A n \in Nat : n \in T => n + 1 \in T
    PROVE  Nat \subseteq T
  <1> SUFFICES ASSUME Nat \ T # {} PROVE FALSE
    OBVIOUS
  <1>1. PICK n \in Nat \ T : \A m \in Nat \ T : <<m, n>> \notin OpToRel(<, Nat)
    BY NatLessThanWellFounded, WFMin
  <1>2. n - 1 \in Nat /\ n - 1 < n
    BY SMT
  <1>3. <<n - 1, n>> \in OpToRel(<, Nat)
    BY <1>2 DEF OpToRel
  <1>4. n - 1 \in T
    BY <1>1, <1>2, <1>3
  <1> QED
    BY <1>2, <1>4

\* The front of a list, as std::remove_if() fills it.
Filled(front, list, removed, n) ==
    IF n = 0 THEN <<>>
    ELSE IF list[n] \in removed THEN front[n - 1]
    ELSE Append(front[n - 1], list[n])
IsFront(front, list, removed, k) ==
    front = [n \in 0 .. k |-> Filled(front, list, removed, n)]

LEMMA FrontExists ==
    ASSUME NEW list, NEW removed
    PROVE  \A k \in Nat : \E front : IsFront(front, list, removed, k)
  <1> DEFINE T == {k \in Nat : \E front : IsFront(front, list, removed, k)}
  <1>1. 0 \in T
    <2>1. IsFront([n \in 0 .. 0 |-> <<>>], list, removed, 0)
      BY DEF IsFront, Filled
    <2> QED
      BY <2>1
  <1>2. ASSUME NEW k \in Nat, k \in T
        PROVE  k + 1 \in T
    <2>1. PICK front : IsFront(front, list, removed, k)
      BY <1>2
    <2> DEFINE more == [n \in 0 .. k + 1 |->
                          IF n <= k THEN front[n] ELSE Filled(front, list, removed, n)]
    <2>2. \A n \in 0 .. k : more[n] = front[n]
      OBVIOUS
    <2>3. ASSUME NEW n \in 0 .. k + 1
          PROVE  more[n] = Filled(more, list, removed, n)
      <3>1. n # 0 => n - 1 \in 0 .. k
        OBVIOUS
      <3>2. Filled(more, list, removed, n) = Filled(front, list, removed, n)
        <4> HIDE DEF more
        <4> QED BY <2>2, <3>1 DEF Filled
      <3>3. CASE n <= k
        <4>1. front[n] = Filled(front, list, removed, n)
          BY <2>1, <3>3 DEF IsFront
        <4> QED
          BY <3>2, <3>3, <4>1
      <3>4. CASE ~(n <= k)
        BY <3>2, <3>4
      <3> QED
        BY <3>3, <3>4
    <2>4. IsFront(more, list, removed, k + 1)
      <3>1. more = [n \in 0 .. k + 1 |-> more[n]]
        OBVIOUS
      <3> HIDE DEF more
      <3> QED BY <2>3, <3>1 DEF IsFront
    <2> QED
      BY <2>4
  <1>3. Nat \subseteq T
    <2> HIDE DEF T
    <2> QED BY <1>1, <1>2, NaturalsByInduction
  <1> QED
    BY <1>3

\* What is kept is of the list, is not removed, and is no longer than the list.
LEMMA KeptIs ==
    ASSUME NEW S, NEW list \in Seq(S), NEW removed
    PROVE  /\ Kept(list, removed) \in Seq(S \ removed)
           /\ Len(Kept(list, removed)) \in 0 .. Len(list)
  <1> DEFINE L == Len(list)
             front == CHOOSE f : IsFront(f, list, removed, L)
  <1>1. L \in Nat /\ \A n \in 1 .. L : list[n] \in S
    OBVIOUS
  <1>2. IsFront(front, list, removed, L)
    BY <1>1, FrontExists
  <1>3. Kept(list, removed) = front[L]
    BY Zenon DEF Kept, IsFront, Filled
  <1> HIDE DEF L, front
  <1> DEFINE T == {n \in Nat : n <= L =>
                     front[n] \in Seq(S \ removed) /\ Len(front[n]) \in 0 .. n}
  <1>4. 0 \in T
    <2>1. front[0] = <<>>
      BY <1>1, <1>2 DEF IsFront, Filled
    <2>2. <<>> \in Seq(S \ removed) /\ Len(<<>>) \in 0 .. 0
      OBVIOUS
    <2>3. front[0] \in Seq(S \ removed) /\ Len(front[0]) \in 0 .. 0
      BY <2>1, <2>2
    <2> QED
      BY <2>3
  <1>5. ASSUME NEW n \in Nat, n \in T
        PROVE  n + 1 \in T
    <2> SUFFICES ASSUME n + 1 <= L
                 PROVE  front[n + 1] \in Seq(S \ removed)
                        /\ Len(front[n + 1]) \in 0 .. n + 1
      OBVIOUS
    <2>1. front[n] \in Seq(S \ removed) /\ Len(front[n]) \in 0 .. n
      BY <1>1, <1>5
    <2>2. front[n + 1] = IF list[n + 1] \in removed THEN front[n]
                         ELSE Append(front[n], list[n + 1])
      <3>1. n + 1 \in 0 .. L /\ n + 1 # 0 /\ (n + 1) - 1 = n
        BY <1>1
      <3>2. front[n + 1] = Filled(front, list, removed, n + 1)
        BY <1>2, <3>1 DEF IsFront
      <3> QED
        BY <3>1, <3>2 DEF Filled
    <2>3. list[n + 1] \in S
      BY <1>1
    <2>4. CASE list[n + 1] \in removed
      BY <2>1, <2>2, <2>4
    <2>5. CASE list[n + 1] \notin removed
      <3>1. list[n + 1] \in S \ removed
        BY <2>3, <2>5
      <3> QED
        BY <2>1, <2>2, <2>5, <3>1
    <2> QED
      BY <2>4, <2>5
  <1>6. Nat \subseteq T
    <2> HIDE DEF T
    <2> QED BY <1>4, <1>5, NaturalsByInduction
  <1> QED
    BY <1>1, <1>3, <1>6 DEF L

\* What moves to the other list are as many as are not kept.
LEMMA BehindIs ==
    ASSUME NEW S, NEW list \in Seq(S), NEW removed
    PROVE  /\ Behind(list, removed) \in Seq(S)
           /\ Len(Behind(list, removed)) = Len(list) - Len(Kept(list, removed))
           /\ Len(list) \in Nat /\ Len(Kept(list, removed)) \in Nat
  <1> DEFINE k == Len(Kept(list, removed))
  <1>1. k \in 0 .. Len(list) /\ Len(list) \in Nat
    <2>1. Len(list) \in Nat
      OBVIOUS
    <2>2. k \in 0 .. Len(list)
      BY KeptIs
    <2> QED
      BY <2>1, <2>2
  <1>2. Behind(list, removed) = SubSeq(list, k + 1, Len(list))
    BY DEF Behind
  <1> HIDE DEF k
  <1>3. \A n \in k + 1 .. Len(list) : list[n] \in S
    BY <1>1
  <1>4. /\ SubSeq(list, k + 1, Len(list)) \in Seq(S)
        /\ Len(SubSeq(list, k + 1, Len(list)))
             = IF k + 1 <= Len(list) THEN Len(list) - (k + 1) + 1 ELSE 0
    BY <1>1, <1>3, SubSeqProperties
  <1> QED
    BY <1>1, <1>2, <1>4 DEF k

Statuses ==
    [visible : Seq(Messages), hidden : Seq(Messages), deleted : [Messages -> BOOLEAN],
     shouldBeShown : SUBSET Messages, cursor : 0 .. Count - 1, cursorVisible : BOOLEAN]
Complete(s) == s \in Statuses /\ Len(s.visible) + Len(s.hidden) = Count

LEMMA CountIs == ASSUME StatusAssumption PROVE Count \in Nat \ {0}
  BY FS_CardinalityType, FS_EmptySet DEF StatusAssumption, Count

\* The functions of process() keep the number of entries of the two lists
\* together, and the cursor below it.
LEMMA SolvedIsComplete ==
    ASSUME StatusAssumption, NEW s, Complete(s), NEW n \in 0 .. Count
    PROVE  Complete(Solved(s, n)) /\ Solved(s, n).visible = s.visible
           /\ Solved(s, n).shouldBeShown = s.shouldBeShown
  <1>1. Count \in Nat \ {0} /\ s \in Statuses
    BY CountIs DEF Complete
  <1>2. CASE n = 0
    <2>1. 0 \in 0 .. Count - 1
      BY <1>1
    <2> QED
      BY <1>1, <1>2, <2>1 DEF Solved, Complete, Statuses
  <1>3. CASE n # 0 /\ s.cursor >= n
    <2>1. n - 1 \in 0 .. Count - 1
      BY <1>1, <1>3
    <2> QED
      BY <1>1, <1>3, <2>1 DEF Solved, Complete, Statuses
  <1>4. CASE n # 0 /\ ~(s.cursor >= n)
    BY <1>1, <1>4 DEF Solved
  <1> QED
    BY <1>2, <1>3, <1>4

LEMMA ListLengths ==
    ASSUME StatusAssumption, NEW s, Complete(s)
    PROVE  Len(s.visible) \in 0 .. Count /\ Len(s.hidden) \in 0 .. Count
  <1> DEFINE v == Len(s.visible)
             h == Len(s.hidden)
  <1>1. v \in Nat /\ h \in Nat /\ v + h = Count
    BY DEF Complete, Statuses
  <1>2. Count \in Nat
    BY CountIs
  <1> HIDE DEF v, h
  <1>3. v \in 0 .. Count /\ h \in 0 .. Count
    BY <1>1, <1>2
  <1> QED
    BY <1>3 DEF v, h

LEMMA CursorMovedIsComplete ==
    ASSUME StatusAssumption, NEW s, Complete(s), NEW delta \in {-1, 0, 1}
    PROVE  Complete(CursorMoved(s, delta))
  <1> DEFINE n == Len(s.visible)
  <1>1. n \in 0 .. Count /\ Count \in Nat \ {0} /\ s \in Statuses
    BY ListLengths, CountIs DEF Complete
  <1>2. Complete([s EXCEPT !.cursorVisible = TRUE])
    BY <1>1 DEF Complete, Statuses
  <1>3. ASSUME (delta > 0 /\ s.cursor > 0) \/ (delta < 0 /\ s.cursor < n - 1)
        PROVE  Complete(Solved([s EXCEPT !.cursor = @ - delta], n))
    <2>1. s.cursor - delta \in 0 .. Count - 1
      BY <1>1, <1>3 DEF Statuses
    <2>2. Complete([s EXCEPT !.cursor = @ - delta])
      BY <1>1, <2>1 DEF Complete, Statuses
    <2> QED
      BY <1>1, <2>2, SolvedIsComplete
  <1> HIDE DEF n
  <1> QED
    BY <1>2, <1>3 DEF CursorMoved, n

LEMMA RaiseIsComplete ==
    ASSUME NEW s, Complete(s), NEW raised \in SUBSET Messages
    PROVE  Complete(Raise(s, raised))
  <1>1. [m \in Messages |-> m \in raised /\ s.deleted[m]] \in [Messages -> BOOLEAN]
    BY DEF Complete, Statuses
  <1>2. {m \in raised : ~s.deleted[m]} \in SUBSET Messages
    OBVIOUS
  <1> QED
    BY <1>1, <1>2 DEF Raise, Complete, Statuses

LEMMA RemovedIs ==
    ASSUME NEW S, NEW list \in Seq(S), NEW n \in 1 .. Len(list)
    PROVE  RemoveAt(list, n) \in Seq(S) /\ Len(RemoveAt(list, n)) = Len(list) - 1
  <1>1. Len(list) \in Nat /\ \A i \in 1 .. Len(list) : list[i] \in S
    OBVIOUS
  <1>2. /\ SubSeq(list, 1, n - 1) \in Seq(S)
        /\ Len(SubSeq(list, 1, n - 1)) = IF 1 <= n - 1 THEN (n - 1) - 1 + 1 ELSE 0
    BY <1>1, SubSeqProperties
  <1>3. /\ SubSeq(list, n + 1, Len(list)) \in Seq(S)
        /\ Len(SubSeq(list, n + 1, Len(list)))
             = IF n + 1 <= Len(list) THEN Len(list) - (n + 1) + 1 ELSE 0
    BY <1>1, SubSeqProperties
  <1>4. /\ RemoveAt(list, n) \in Seq(S)
        /\ Len(RemoveAt(list, n))
             = Len(SubSeq(list, 1, n - 1)) + Len(SubSeq(list, n + 1, Len(list)))
    BY <1>2, <1>3, ConcatProperties DEF RemoveAt
  <1>5. Len(SubSeq(list, 1, n - 1)) = n - 1
    BY <1>1, <1>2
  <1>6. Len(SubSeq(list, n + 1, Len(list))) = Len(list) - n
    BY <1>1, <1>3
  <1>7. (n - 1) + (Len(list) - n) = Len(list) - 1
    BY <1>1
  <1> QED
    BY <1>4, <1>5, <1>6, <1>7

LEMMA CursorDelIsComplete ==
    ASSUME StatusAssumption, NEW s, Complete(s), NEW stale \in Messages
    PROVE  Complete(CursorDel(s, stale))
  <1> DEFINE n == Len(s.visible)
             at == s.cursor + 1
             gone == IF at <= n THEN s.visible[at] ELSE stale
             place == IF at <= n THEN at ELSE n
             left == [s EXCEPT !.hidden = Append(@, gone), !.visible = RemoveAt(@, place)]
  <1>1. n \in 0 .. Count /\ Count \in Nat \ {0} /\ s \in Statuses /\ at \in 1 .. Count
    BY ListLengths, CountIs DEF Complete, Statuses
  <1>2. CASE n = 0 \/ ~s.cursorVisible
    BY <1>2 DEF CursorDel
  <1>3. CASE ~(n = 0 \/ ~s.cursorVisible)
    <2>1. CursorDel(s, stale) = Solved(left, n - 1)
      BY <1>3, Zenon DEF CursorDel
    <2>2. gone \in Messages
      BY <1>1 DEF Statuses
    <2>3. place \in 1 .. n
      BY <1>1, <1>3
    <2> HIDE DEF gone, place
    <2>4. s.visible \in Seq(Messages) /\ s.hidden \in Seq(Messages)
      BY <1>1 DEF Statuses
    <2>5. RemoveAt(s.visible, place) \in Seq(Messages)
          /\ Len(RemoveAt(s.visible, place)) = n - 1
      BY <2>3, <2>4, RemovedIs
    <2>6. Append(s.hidden, gone) \in Seq(Messages)
          /\ Len(Append(s.hidden, gone)) = Len(s.hidden) + 1 /\ Len(s.hidden) \in Nat
      BY <2>2, <2>4
    <2>7. left \in Statuses
      BY <1>1, <2>5, <2>6 DEF Statuses
    <2>8. left.visible = RemoveAt(s.visible, place) /\ left.hidden = Append(s.hidden, gone)
      BY <1>1 DEF Statuses
    <2>9. Complete(left)
      <3>1. n + Len(s.hidden) = Count
        BY DEF Complete
      <3>2. Len(left.visible) = n - 1 /\ Len(left.hidden) = Len(s.hidden) + 1
        BY <2>5, <2>6, <2>8
      <3>3. (n - 1) + (Len(s.hidden) + 1) = n + Len(s.hidden)
        <4>1. \A a, b \in Int : (a - 1) + (b + 1) = a + b
          OBVIOUS
        <4>2. n \in Int /\ Len(s.hidden) \in Int
          BY <1>1, <2>6
        <4> HIDE DEF n
        <4> QED BY <4>1, <4>2
      <3> QED
        BY <2>7, <3>1, <3>2, <3>3 DEF Complete
    <2>10. n - 1 \in 0 .. Count
      BY <1>1, <1>3
    <2> HIDE DEF left, n
    <2> QED
      BY <2>1, <2>9, <2>10, SolvedIsComplete
  <1> QED
    BY <1>2, <1>3

LEMMA SumsCommute ==
    \A a, b \in Int : a + b = b + a /\ 0 + a = a
  OBVIOUS

LEMMA ListsChange ==
    ASSUME NEW s, Complete(s),
           NEW visible \in Seq(Messages), NEW hidden \in Seq(Messages),
           Len(visible) + Len(hidden) = Count
    PROVE  Complete([s EXCEPT !.visible = visible, !.hidden = hidden])
  BY DEF Complete, Statuses

LEMMA RecallIsComplete ==
    ASSUME StatusAssumption, NEW s, Complete(s)
    PROVE  Complete(Recall(s))
  <1> DEFINE all == s.visible \o s.hidden
  <1>1. s.visible \in Seq(Messages) /\ s.hidden \in Seq(Messages)
        /\ Len(s.visible) + Len(s.hidden) = Count
    BY DEF Complete, Statuses
  <1>2. all \in Seq(Messages) /\ Len(all) = Count
    BY <1>1, ConcatProperties
  <1>3. Len(all) + Len(<<>>) = Count /\ <<>> \in Seq(Messages)
    BY <1>2, CountIs
  <1>4. Count \in 0 .. Count
    BY CountIs
  <1> HIDE DEF all
  <1>5. Complete([s EXCEPT !.visible = all, !.hidden = <<>>])
    BY <1>2, <1>3, ListsChange
  <1> QED
    BY <1>2, <1>4, <1>5, SolvedIsComplete DEF Recall, all

LEMMA ClearIsComplete ==
    ASSUME StatusAssumption, NEW s, Complete(s)
    PROVE  Complete(Clear(s))
  <1> DEFINE all == s.hidden \o s.visible
  <1>1. /\ s.visible \in Seq(Messages) /\ s.hidden \in Seq(Messages)
        /\ Len(s.visible) + Len(s.hidden) = Count /\ s \in Statuses
    BY DEF Complete, Statuses
  <1>2. all \in Seq(Messages) /\ Len(all) = Len(s.hidden) + Len(s.visible)
    BY <1>1, ConcatProperties
  <1>3. Len(<<>>) + Len(all) = Count /\ <<>> \in Seq(Messages)
    <2>1. Len(s.hidden) \in Int /\ Len(s.visible) \in Int
      BY <1>1
    <2>2. Len(all) = Count /\ Count \in Int
      <3>1. Len(s.hidden) + Len(s.visible) = Len(s.visible) + Len(s.hidden)
        BY <2>1, SumsCommute
      <3>2. Count \in Int
        BY CountIs
      <3> HIDE DEF all
      <3> QED BY <1>1, <1>2, <3>1, <3>2
    <2>3. Len(<<>>) = 0 /\ <<>> \in Seq(Messages)
      OBVIOUS
    <2> HIDE DEF all
    <2> QED
      BY <2>2, <2>3, SumsCommute
  <1>4. 0 \in 0 .. Count
    BY CountIs
  <1>5. Clear(s) = Solved([s EXCEPT !.visible = <<>>, !.hidden = all], 0)
    BY DEF Clear
  <1> HIDE DEF all
  <1>6. Complete([s EXCEPT !.visible = <<>>, !.hidden = all])
    BY <1>2, <1>3, ListsChange
  <1> QED
    BY <1>4, <1>5, <1>6, SolvedIsComplete

\* One list keeps some of its messages, the other gets the rest.
LEMMA MovedBetween ==
    ASSUME NEW from \in Seq(Messages), NEW to \in Seq(Messages), NEW removed
    PROVE  /\ Kept(from, removed) \in Seq(Messages)
           /\ to \o Behind(from, removed) \in Seq(Messages)
           /\ Len(Kept(from, removed)) + Len(to \o Behind(from, removed))
                = Len(from) + Len(to)
  <1>1. Kept(from, removed) \in Seq(Messages)
    BY KeptIs, SeqMonotonic, Messages \ removed \subseteq Messages
  <1>2. /\ Behind(from, removed) \in Seq(Messages)
        /\ Len(Behind(from, removed)) = Len(from) - Len(Kept(from, removed))
        /\ Len(from) \in Nat /\ Len(Kept(from, removed)) \in Nat
    BY BehindIs
  <1>3. /\ to \o Behind(from, removed) \in Seq(Messages)
        /\ Len(to \o Behind(from, removed)) = Len(to) + Len(Behind(from, removed))
        /\ Len(to) \in Nat
    <2> DEFINE b == Behind(from, removed)
    <2>1. b \in Seq(Messages)
      BY <1>2
    <2> HIDE DEF b
    <2>2. to \o b \in Seq(Messages) /\ Len(to \o b) = Len(to) + Len(b) /\ Len(to) \in Nat
      BY <2>1, ConcatProperties, LenProperties
    <2> QED
      BY <2>2 DEF b
  <1>4. \A k, f, t \in Int : k + (t + (f - k)) = f + t
    OBVIOUS
  <1> QED
    BY <1>1, <1>2, <1>3, <1>4

\* After process() has moved the messages, only raised ones are visible.
OnlyRaised(s) == \A n \in DOMAIN s.visible : s.visible[n] \in s.shouldBeShown

LEMMA MovedIsComplete ==
    ASSUME StatusAssumption, NEW s, Complete(s)
    PROVE  Complete(Moved(s)) /\ OnlyRaised(Moved(s))
  <1> DEFINE shown == s.shouldBeShown
             u == [s EXCEPT !.hidden = Kept(s.hidden, shown),
                            !.visible = s.visible \o Behind(s.hidden, shown)]
             hidden == Messages \ u.shouldBeShown
             w == [u EXCEPT !.visible = Kept(u.visible, hidden),
                            !.hidden = u.hidden \o Behind(u.visible, hidden)]
  <1>1. ToShow(s) = u
    BY DEF ToShow
  <1>2. Complete(u)
    <2>1. s.visible \in Seq(Messages) /\ s.hidden \in Seq(Messages)
          /\ Len(s.visible) + Len(s.hidden) = Count /\ s \in Statuses
      BY DEF Complete, Statuses
    <2>2. Len(s.visible) \in Int /\ Len(s.hidden) \in Int
      BY <2>1
    <2> DEFINE k == Kept(s.hidden, shown)
               v == s.visible \o Behind(s.hidden, shown)
    <2>3. k \in Seq(Messages) /\ v \in Seq(Messages)
          /\ Len(k) + Len(v) = Len(s.hidden) + Len(s.visible)
      BY <2>1, MovedBetween
    <2>4. Len(v) \in Int /\ Len(k) \in Int
      BY <2>3
    <2>5. u = [s EXCEPT !.visible = v, !.hidden = k]
      BY <2>1 DEF Statuses
    <2> HIDE DEF k, v, u
    <2>6. Len(v) + Len(k) = Count
      <3>1. Len(v) + Len(k) = Len(k) + Len(v)
        BY <2>4, SumsCommute
      <3>2. Len(s.hidden) + Len(s.visible) = Len(s.visible) + Len(s.hidden)
        BY <2>2, SumsCommute
      <3> QED
        BY <2>1, <2>3, <3>1, <3>2
    <2> QED
      BY <2>3, <2>5, <2>6, ListsChange
  <1>3. ToHide(u) = w
    BY Zenon DEF ToHide
  <1> HIDE DEF u
  <1>4. /\ u.visible \in Seq(Messages) /\ u.hidden \in Seq(Messages)
        /\ Len(u.visible) + Len(u.hidden) = Count /\ u \in Statuses
        /\ u.shouldBeShown \subseteq Messages
    BY <1>2 DEF Complete, Statuses
  <1> HIDE DEF hidden
  <1>5. Complete(w)
    <2> DEFINE k == Kept(u.visible, hidden)
               h == u.hidden \o Behind(u.visible, hidden)
    <2>1. k \in Seq(Messages) /\ h \in Seq(Messages)
          /\ Len(k) + Len(h) = Len(u.visible) + Len(u.hidden)
      BY <1>4, MovedBetween
    <2>2. w = [u EXCEPT !.visible = k, !.hidden = h]
      BY DEF w
    <2> HIDE DEF k, h, w
    <2> QED
      BY <1>2, <1>4, <2>1, <2>2, ListsChange
  <1>6. OnlyRaised(w)
    <2>1. Kept(u.visible, hidden) \in Seq(Messages \ hidden)
      BY <1>4, KeptIs
    <2>2. Messages \ hidden \subseteq u.shouldBeShown
      BY DEF hidden
    <2>3. w.visible = Kept(u.visible, hidden) /\ w.shouldBeShown = u.shouldBeShown
      BY <1>4 DEF Statuses
    <2>4. \A n \in DOMAIN Kept(u.visible, hidden) :
              Kept(u.visible, hidden)[n] \in Messages \ hidden
      BY <2>1
    <2> HIDE DEF w
    <2> QED
      BY <2>2, <2>3, <2>4 DEF OnlyRaised
  <1> QED
    BY <1>1, <1>3, <1>5, <1>6 DEF Moved

StatusInv == Complete(status) /\ resized \subseteq 0 .. Count /\ OnlyRaisedAreShown

LEMMA ProcessStatusInv ==
    ASSUME StatusAssumption, StatusInv, NEW delta \in {-1, 0, 1},
           NEW raised \in SUBSET Messages, NEW pressed, NEW stale \in Messages,
           ProcessStatus(delta, raised, pressed, stale)
    PROVE  StatusInv'
  <1> DEFINE moved == Raise(CursorMoved(status, delta), raised)
             deleted == IF "cursor_del" \in pressed THEN CursorDel(moved, stale) ELSE moved
             recalled == IF "recall" \in pressed THEN Recall(deleted) ELSE deleted
             cleared == IF "clear" \in pressed THEN Clear(recalled) ELSE recalled
  <1>1. status' = Moved(cleared) /\ UNCHANGED resized
    BY Zenon DEF ProcessStatus
  <1>2. Complete(moved)
    BY CursorMovedIsComplete, RaiseIsComplete DEF StatusInv
  <1> HIDE DEF moved
  <1>3. Complete(deleted)
    BY <1>2, CursorDelIsComplete
  <1> HIDE DEF deleted
  <1>4. Complete(recalled)
    BY <1>3, RecallIsComplete
  <1> HIDE DEF recalled
  <1>5. Complete(cleared)
    BY <1>4, ClearIsComplete
  <1> HIDE DEF cleared
  <1>6. Complete(Moved(cleared)) /\ OnlyRaised(Moved(cleared))
    BY <1>5, MovedIsComplete
  <1> QED
    BY <1>1, <1>6 DEF StatusInv, OnlyRaised, OnlyRaisedAreShown

LEMMA StatusStep ==
    ASSUME StatusAssumption, StatusInv, [StatusNext]_statusVars
    PROVE  StatusInv'
  <1>1. CASE UNCHANGED statusVars
    BY <1>1 DEF statusVars, StatusInv, OnlyRaisedAreShown
  <1>2. ASSUME NEW delta \in {-1, 0, 1}, NEW raised \in SUBSET Messages,
               NEW pressed \in SUBSET {"cursor_del", "recall", "clear"},
               NEW stale \in Messages, ProcessStatus(delta, raised, pressed, stale)
        PROVE  StatusInv'
    BY <1>2, ProcessStatusInv
  <1>3. CASE HideCursor
    <2>1. status' = [status EXCEPT !.cursorVisible = FALSE] /\ UNCHANGED resized
      BY <1>3 DEF HideCursor
    <2>2. Complete(status') /\ OnlyRaised(status')
      BY <2>1 DEF StatusInv, Complete, Statuses, OnlyRaised, OnlyRaisedAreShown
    <2> QED
      BY <2>1, <2>2 DEF StatusInv, OnlyRaised, OnlyRaisedAreShown
  <1>4. CASE Paint
    <2>1. Len(status.visible) \in 0 .. Count
      BY ListLengths DEF StatusInv
    <2> QED
      BY <1>4, <2>1 DEF Paint, StatusInv, OnlyRaisedAreShown
  <1>5. CASE AsyncPaint
    <2>1. PICK n \in resized : status' = Solved(status, n)
      BY <1>5 DEF AsyncPaint
    <2>2. /\ Complete(Solved(status, n)) /\ Solved(status, n).visible = status.visible
          /\ Solved(status, n).shouldBeShown = status.shouldBeShown
      BY SolvedIsComplete DEF StatusInv
    <2>3. resized' = {}
      BY <1>5 DEF AsyncPaint
    <2> QED
      BY <2>1, <2>2, <2>3 DEF StatusInv, OnlyRaisedAreShown
  <1> QED
    BY <1>1, <1>2, <1>3, <1>4, <1>5 DEF StatusNext

LEMMA StatusInitInv == ASSUME StatusAssumption, StatusInit PROVE StatusInv
  <1>1. PICK list \in SetToSeqs(Messages), deleted \in [Messages -> BOOLEAN] :
            status = [visible |-> <<>>, hidden |-> list, deleted |-> deleted,
                      shouldBeShown |-> {}, cursor |-> 0, cursorVisible |-> FALSE]
    BY DEF StatusInit
  <1>2. Count \in Nat \ {0} /\ 0 \in 0 .. Count - 1
    BY CountIs
  <1>3. list \in [1 .. Count -> Messages]
    BY DEF SetToSeqs, Count
  <1>4. list \in Seq(Messages) /\ Len(list) = Count
    BY <1>2, <1>3
  <1>5. <<>> \in Seq(Messages) /\ Len(<<>>) = 0 /\ DOMAIN <<>> = {}
    OBVIOUS
  <1>6. status \in Statuses
    BY <1>1, <1>2, <1>4, <1>5 DEF Statuses
  <1>7. Len(status.visible) + Len(status.hidden) = Count
    <2>1. 0 + Count = Count
      BY <1>2
    <2> QED
      BY <1>1, <1>4, <1>5, <2>1
  <1>8. OnlyRaisedAreShown
    BY <1>1, <1>5 DEF OnlyRaisedAreShown
  <1> QED
    BY <1>6, <1>7, <1>8 DEF StatusInit, StatusInv, Complete

LEMMA StatusInvariance == ASSUME StatusAssumption PROVE StatusSpec => []StatusInv
  <1>1. StatusInit => StatusInv
    BY StatusInitInv
  <1>2. StatusInv /\ [StatusNext]_statusVars => StatusInv'
    BY StatusStep
  <1> QED
    BY <1>1, <1>2, PTL DEF StatusSpec

\* Whatever buttons are pressed, and in whatever order it is painted and
\* processed: the two lists hold as many messages together as there are, and the
\* cursor stays among them (Status, status.cc).
THEOREM StatusTypeCorrect == ASSUME StatusAssumption PROVE StatusSpec => []StatusTypeOK
  <1>1. StatusInv => StatusTypeOK
    BY DEF StatusInv, Complete, Statuses, StatusTypeOK
  <1> QED
    BY <1>1, StatusInvariance, PTL

\* Whatever the crew deletes, recalls and clears, and though cursor_del() may take
\* a message that is not there: process() leaves only messages in view whose
\* condition is true.
THEOREM StatusShowsOnlyRaised ==
    ASSUME StatusAssumption PROVE StatusSpec => []OnlyRaisedAreShown
  <1>1. StatusInv => OnlyRaisedAreShown
    BY DEF StatusInv
  <1> QED
    BY <1>1, StatusInvariance, PTL
================================================================================
