-------------------------- MODULE ProcessingLoopProofs --------------------------
(***************************************************************************)
(* Proofs about ProcessingLoop, for any number of modules and inputs, in     *)
(* every order and wiring.                                                  *)
(*                                                                         *)
(* The argument: a module that is cached is either on the stack or has been  *)
(* processed in this cycle (Processed), and its output and count tell which  *)
(* (Stamped).  What a frame has fetched so far stays true while the frame is *)
(* on the stack (TakenOK): its sources have been processed, or wait further  *)
(* down on the stack, and neither changes its output.  Without feedback      *)
(* ranks fall along the stack (RanksFall), so no source waits further down.  *)
(* A cycle ends because nothing of what remains of it ever comes back: a      *)
(* module is called only while it is not cached, when all of it remains.      *)
(***************************************************************************)
EXTENDS ProcessingLoop, SequenceTheorems, FiniteSetTheorems, TLAPS

Processed(m) == phase = "idle" \/ (cached[m] /\ m \notin OnStack)
Source(m, k) == source[InputsOf[m][k]]
Value(m, k) == in[InputsOf[m][k]]
Threw(m, k) == threw[InputsOf[m][k]]

PhaseOK ==
    /\ phase # "process" => stack = <<>>
    /\ phase = "communicate" => \A m \in Modules : ~cached[m]
    /\ phase # "idle" => cycle > 0
    /\ phase = "process" => \A k \in DOMAIN Order : k < position => cached[Order[k]]

StackCached == \A k \in DOMAIN stack : cached[stack[k].module]

AskedOK ==
    \A d \in DOMAIN stack, m \in Modules, k \in Nat :
        stack[d].module = m /\ stack[d].next = k /\ stack[d].asked =>
            /\ k <= Len(InputsOf[m])
            /\ Source(m, k) # Nil
            /\ cached[Source(m, k)]

FetchedOK == phase # "idle" => \A m \in Modules : fetched[m] = cycle => cached[m]

Stamp(m) == IF Processed(m) THEN cycle ELSE cycle - 1
Stamped == \A m \in Modules : runs[m] = Stamp(m) /\ out[m] \in {Nil, Stamp(m)}

Taken(m, k, depth) ==
    IF Source(m, k) = Nil THEN Value(m, k) = Nil
    ELSE ~Threw(m, k) =>
            /\ Value(m, k) = out[Source(m, k)]
            /\ Processed(Source(m, k))
                 \/ (\E l \in 1..depth : stack[l].module = Source(m, k))
TakenOK ==
    \A d \in DOMAIN stack, m \in Modules : stack[d].module = m =>
        \A k \in 1..(stack[d].next - 1) : Taken(m, k, d)

RanksFall ==
    \A rank \in [Modules -> 1..Len(Order)] : Ranks(rank) =>
        \A j, k \in DOMAIN stack :
            j < k => rank[stack[k].module] < rank[stack[j].module]

Settled(m) ==
    \A k \in DOMAIN InputsOf[m] : Source(m, k) # Nil /\ ~Threw(m, k) =>
        Value(m, k) = out[Source(m, k)] /\ Processed(Source(m, k))
SettledOK ==
    phase = "process" /\ NoFeedback => \A m \in Modules : Processed(m) => Settled(m)

Inv ==
    /\ TypeOK
    /\ NoReentry
    /\ PhaseOK
    /\ StackCached
    /\ AskedOK
    /\ FetchedOK
    /\ Stamped
    /\ TakenOK
    /\ RanksFall
    /\ SettledOK
    /\ FailedIsNil

-----------------------------------------------------------------------------
\* The stack with another top, and without its top.
LEMMA TopFacts ==
    ASSUME NEW F, stack \in Seq(F), stack # <<>>
    PROVE  Len(stack) \in Nat \ {0} /\ DOMAIN stack = 1..Len(stack) /\ Top \in F
  BY DEF Top

LEMMA CallersFacts ==
    ASSUME NEW F, stack \in Seq(F), stack # <<>>
    PROVE  /\ Callers \in Seq(F)
           /\ Len(Callers) = Len(stack) - 1
           /\ \A k \in 1..(Len(stack) - 1) : Callers[k] = stack[k]
  <1>1. Len(stack) \in Nat \ {0}
    BY TopFacts
  <1>2. \A k \in 1..(Len(stack) - 1) : stack[k] \in F
    BY <1>1
  <1>3. /\ Callers \in Seq(F)
        /\ Len(Callers) = IF 1 <= Len(stack) - 1 THEN (Len(stack) - 1) - 1 + 1 ELSE 0
        /\ \A k \in 1..((Len(stack) - 1) - 1 + 1) : Callers[k] = stack[1 + k - 1]
    BY <1>1, <1>2, SubSeqProperties DEF Callers
  <1>4. Len(Callers) = Len(stack) - 1
    <2>1. \A n \in Nat \ {0} : (IF 1 <= n - 1 THEN (n - 1) - 1 + 1 ELSE 0) = n - 1
      OBVIOUS
    <2> QED
      BY <1>1, <1>3, <2>1, Zenon
  <1>5. ASSUME NEW k \in 1..(Len(stack) - 1) PROVE Callers[k] = stack[k]
    <2>1. k \in 1..((Len(stack) - 1) - 1 + 1) /\ 1 + k - 1 = k
      BY <1>1
    <2> QED
      BY <1>3, <2>1
  <1> QED
    BY <1>3, <1>4, <1>5

LEMMA WithTopFacts ==
    ASSUME NEW F, stack \in Seq(F), stack # <<>>, NEW f \in F
    PROVE  /\ WithTop(f) \in Seq(F)
           /\ Len(WithTop(f)) = Len(stack)
           /\ WithTop(f)[Len(stack)] = f
           /\ \A k \in 1..(Len(stack) - 1) : WithTop(f)[k] = stack[k]
  <1>1. /\ Callers \in Seq(F)
        /\ Len(Callers) = Len(stack) - 1 /\ Len(stack) \in Nat \ {0}
        /\ \A k \in 1..(Len(stack) - 1) : Callers[k] = stack[k]
    BY TopFacts, CallersFacts
  <1> QED
    BY <1>1 DEF WithTop

LEMMA FrameFacts ==
    ASSUME Top \in Frames
    PROVE  /\ Advanced \in Frames /\ Advanced.module = Top.module
           /\ Advanced.next = Top.next + 1 /\ Advanced.asked = FALSE
           /\ Asking \in Frames /\ Asking.module = Top.module
           /\ Asking.next = Top.next /\ Asking.asked = TRUE
  BY DEF Frames, Advanced, Asking, Frame

LEMMA PushFacts ==
    ASSUME NEW F, NEW s \in Seq(F), NEW f \in F
    PROVE  /\ Append(s, f) \in Seq(F)
           /\ Len(Append(s, f)) = Len(s) + 1
           /\ Append(s, f)[Len(s) + 1] = f
           /\ \A k \in 1..Len(s) : Append(s, f)[k] = s[k]
  OBVIOUS

LEMMA InitInv == ASSUME ConstantsAssumption, Init PROVE Inv
  <1>1. stack = <<>> /\ stack \in Seq(Frames) /\ DOMAIN stack = {}
    BY DEF Init
  <1>2. TypeOK
    <2>1. Len(Order) \in Nat /\ 1 \in 1..(Len(Order) + 1)
      BY DEF ConstantsAssumption
    <2>2. fetched \in [Modules -> 0..0]
      BY DEF Init
    <2> QED
      BY <1>1, <2>1, <2>2 DEF Init, TypeOK
  <1>3. NoReentry /\ StackCached /\ AskedOK /\ TakenOK /\ RanksFall
    BY <1>1 DEF NoReentry, StackCached, AskedOK, TakenOK, RanksFall
  <1>4. PhaseOK /\ FetchedOK /\ SettledOK /\ FailedIsNil
    BY <1>1 DEF Init, PhaseOK, FetchedOK, SettledOK, FailedIsNil
  <1>5. Stamped
    BY DEF Init, Stamped, Stamp, Processed
  <1> QED
    BY <1>2, <1>3, <1>4, <1>5 DEF Inv

-----------------------------------------------------------------------------
\* Steps with no call in progress, before and after.
LEMMA EmptyStack ==
    ASSUME stack' = <<>>
    PROVE  /\ NoReentry' /\ StackCached' /\ AskedOK' /\ TakenOK' /\ RanksFall'
           /\ stack' \in Seq(Frames)
           /\ \A k \in DOMAIN stack' : stack'[k].next <= Len(InputsOf[stack'[k].module]) + 1
           /\ OnStack' = {}
  <1>1. DOMAIN stack' = {}
    OBVIOUS
  <1>2. stack' \in Seq(Frames)
    OBVIOUS
  <1>3. OnStack' = {}
    BY <1>1 DEF OnStack
  <1> QED
    BY <1>1, <1>2, <1>3 DEF NoReentry, StackCached, AskedOK, TakenOK, RanksFall

LEMMA BeginCycleInv ==
    ASSUME ConstantsAssumption, Inv, BeginCycle PROVE Inv'
  <1> USE DEF Inv
  <1>1. stack' = <<>> /\ stack = <<>>
    BY DEF BeginCycle, PhaseOK
  <1>2. cycle \in Nat /\ cycle' = cycle + 1 /\ cycle' \in Nat
    BY DEF BeginCycle, TypeOK
  <1>3. TypeOK'
    <2>1. 1 \in 1..(Len(Order) + 1)
      BY DEF ConstantsAssumption
    <2>2. fetched' \in [Modules -> 0..cycle']
      BY <1>2 DEF BeginCycle, TypeOK
    <2>3. cached' \in [Modules -> BOOLEAN]
      BY DEF BeginCycle
    <2> QED
      BY <1>1, <1>2, <2>1, <2>2, <2>3, EmptyStack DEF BeginCycle, TypeOK, inputVars
  <1>4. PhaseOK' /\ SettledOK' /\ FailedIsNil'
    BY <1>1, <1>2 DEF BeginCycle, PhaseOK, SettledOK, FailedIsNil, inputVars
  <1>5. FetchedOK'
    BY <1>2 DEF BeginCycle, FetchedOK, TypeOK
  <1>6. Stamped'
    <2>1. \A m \in Modules : Stamp(m) = cycle /\ Stamp(m)' = cycle
      BY <1>2 DEF BeginCycle, Stamp, Processed
    <2> QED
      BY <2>1 DEF BeginCycle, Stamped
  <1> QED
    BY <1>1, <1>3, <1>4, <1>5, <1>6, EmptyStack

LEMMA CommunicateInv ==
    ASSUME ConstantsAssumption, Inv, NEW throws \in BOOLEAN, Communicate(throws)
    PROVE  Inv'
  <1> USE DEF Inv
  <1>1. stack' = <<>> /\ stack = <<>>
    BY DEF Communicate, PhaseOK
  <1>2. UNCHANGED <<phase, cycle, paused, stack, cached, source, fetched, inputVars, runs>>
    BY DEF Communicate
  <1>3. \A m \in Modules : out'[m] \in {Nil, out[m]}
    BY DEF Communicate, TypeOK
  <1>4. out' \in [Modules -> Nat \union {Nil}]
    BY DEF Communicate, TypeOK
  <1>5. position' \in 1..(Len(Order) + 1)
    BY DEF Communicate, TypeOK, ConstantsAssumption
  <1>6. TypeOK'
    BY <1>1, <1>2, <1>4, <1>5, EmptyStack DEF TypeOK, inputVars
  <1>7. PhaseOK' /\ SettledOK' /\ FetchedOK' /\ FailedIsNil'
    BY <1>1, <1>2 DEF Communicate, PhaseOK, SettledOK, FetchedOK, FailedIsNil, inputVars
  <1>8. Stamped'
    <2>1. \A m \in Modules : Stamp(m)' = Stamp(m)
      BY <1>1, <1>2 DEF Stamp, Processed, OnStack
    <2> QED
      BY <1>2, <1>3, <2>1 DEF Stamped
  <1> QED
    BY <1>1, <1>6, <1>7, <1>8, EmptyStack

LEMMA BeginProcessingInv ==
    ASSUME ConstantsAssumption, Inv, BeginProcessing PROVE Inv'
  <1> USE DEF Inv
  <1>1. stack' = <<>> /\ stack = <<>>
    BY DEF BeginProcessing, PhaseOK
  <1>2. UNCHANGED <<cycle, paused, stack, cached, source, fetched, inputVars, out, runs>>
    BY DEF BeginProcessing
  <1>3. phase = "communicate" /\ phase' = "process" /\ position' = 1
    BY DEF BeginProcessing
  <1>4. TypeOK'
    <2>1. 1 \in 1..(Len(Order) + 1)
      BY DEF ConstantsAssumption
    <2> QED
      BY <1>1, <1>2, <1>3, <2>1, EmptyStack DEF TypeOK, inputVars
  <1>5. PhaseOK' /\ FetchedOK' /\ FailedIsNil'
    BY <1>1, <1>2, <1>3 DEF PhaseOK, FetchedOK, ConstantsAssumption, FailedIsNil, inputVars
  <1>6. Stamped' /\ SettledOK'
    <2>1. \A m \in Modules : ~Processed(m) /\ ~Processed(m)'
      BY <1>1, <1>2, <1>3 DEF Processed, PhaseOK
    <2>2. \A m \in Modules : Stamp(m)' = Stamp(m)
      BY <1>2, <2>1 DEF Stamp
    <2> QED
      BY <1>2, <2>1, <2>2 DEF Stamped, SettledOK
  <1> QED
    BY <1>1, <1>4, <1>5, <1>6, EmptyStack

\* When the cycle is over, every module has been processed.
LEMMA OverMeansProcessed ==
    ASSUME ConstantsAssumption, Inv, CycleOver
    PROVE  \A m \in Modules : Processed(m)
  <1>1. \A k \in DOMAIN Order : k < position
    BY DEF CycleOver, Inv, TypeOK, ConstantsAssumption
  <1>2. \A m \in Modules : cached[m]
    <2>1. \A k \in DOMAIN Order : cached[Order[k]]
      BY <1>1 DEF CycleOver, Inv, PhaseOK
    <2>2. \A m \in Modules : \E k \in DOMAIN Order : Order[k] = m
      BY DEF ConstantsAssumption
    <2>3. ASSUME NEW m \in Modules PROVE cached[m]
      <3>1. PICK k \in DOMAIN Order : Order[k] = m
        BY <2>2
      <3>2. cached[Order[k]]
        BY <2>1
      <3> QED
        BY <3>1, <3>2
    <2> QED
      BY <2>3
  <1>3. OnStack = {}
    <2>1. stack = <<>> /\ DOMAIN stack = {}
      BY DEF CycleOver
    <2> QED
      BY <2>1 DEF OnStack
  <1> QED
    BY <1>2, <1>3 DEF Processed

LEMMA EndCycleInv ==
    ASSUME ConstantsAssumption, Inv, EndCycle PROVE Inv'
  <1> USE DEF Inv
  <1>1. stack' = <<>> /\ stack = <<>>
    BY DEF EndCycle
  <1>2. UNCHANGED <<position, cycle, paused, stack, cached, source, fetched, inputVars,
                    out, runs>>
    BY DEF EndCycle
  <1>3. TypeOK'
    BY <1>1, <1>2, EmptyStack DEF EndCycle, TypeOK, inputVars
  <1>4. PhaseOK' /\ SettledOK' /\ FetchedOK' /\ FailedIsNil'
    BY <1>1, <1>2 DEF EndCycle, PhaseOK, SettledOK, FetchedOK, FailedIsNil, inputVars
  <1>5. Stamped'
    <2>1. \A m \in Modules : Processed(m) /\ Processed(m)'
      BY OverMeansProcessed DEF EndCycle, CycleOver, Processed
    <2> QED
      BY <1>2, <2>1 DEF Stamped, Stamp
  <1> QED
    BY <1>1, <1>3, <1>4, <1>5, EmptyStack

\* Between cycles, or no step at all of what a cycle works on.
LEMMA BetweenInv ==
    ASSUME ConstantsAssumption, Inv, phase = "idle",
           paused' \in BOOLEAN, source' \in [Inputs -> Modules \union {Nil}],
           filtered' \in [Transformed -> Nat \union {Nil}],
           UNCHANGED <<phase, position, cycle, stack, cached, fetched, in, failed, threw,
                       out, runs>>
    PROVE  Inv'
  <1> USE DEF Inv
  <1>1. stack' = <<>> /\ stack = <<>>
    BY DEF PhaseOK
  <1>2. TypeOK'
    BY <1>1, EmptyStack DEF TypeOK
  <1>3. PhaseOK' /\ SettledOK' /\ FetchedOK' /\ FailedIsNil'
    BY DEF PhaseOK, SettledOK, FetchedOK, FailedIsNil
  <1>4. Stamped'
    BY DEF Stamped, Stamp, Processed
  <1> QED
    BY <1>1, <1>2, <1>3, <1>4, EmptyStack

-----------------------------------------------------------------------------
\* Steps that change only what the call in progress has fetched.
LEMMA SameModules ==
    ASSUME TypeOK, NoReentry, StackCached, RanksFall,
           stack' \in Seq(Frames), Len(stack') = Len(stack),
           \A k \in 1..Len(stack) : stack'[k].module = stack[k].module,
           UNCHANGED <<phase, cycle, cached, source>>
    PROVE  /\ OnStack' = OnStack
           /\ \A m : Processed(m)' <=> Processed(m)
           /\ \A m : Stamp(m)' = Stamp(m)
           /\ NoReentry' /\ StackCached' /\ RanksFall'
  <1>1. DOMAIN stack = 1..Len(stack) /\ DOMAIN stack' = 1..Len(stack)
    BY DEF TypeOK
  <1>2. OnStack' = OnStack
    BY <1>1 DEF OnStack
  <1>3. \A m : Processed(m)' <=> Processed(m)
    BY <1>2 DEF Processed
  <1>4. \A m : Stamp(m)' = Stamp(m)
    BY <1>3 DEF Stamp
  <1>5. NoReentry' /\ StackCached'
    BY <1>1 DEF NoReentry, StackCached
  <1>6. RanksFall'
    <2>1. ASSUME NEW rank \in [Modules -> 1..Len(Order)], Ranks(rank)',
                 NEW j \in DOMAIN stack', NEW k \in DOMAIN stack', j < k
          PROVE  rank[stack'[k].module] < rank[stack'[j].module]
      <3>1. Ranks(rank)
        BY <2>1 DEF Ranks
      <3> QED
        BY <1>1, <2>1, <3>1 DEF RanksFall
    <2> QED
      BY <2>1 DEF RanksFall
  <1> QED
    BY <1>2, <1>3, <1>4, <1>5, <1>6

\* The top of a stack with a call in progress.
LEMMA TheTop ==
    ASSUME ConstantsAssumption, Inv, Fetching
    PROVE  /\ Len(stack) \in DOMAIN stack /\ Len(stack) \in Nat \ {0}
           /\ Top = stack[Len(stack)]
           /\ Top.module \in Modules /\ Top.next \in Nat \ {0}
           /\ Top.next \in DOMAIN InputsOf[Top.module]
           /\ Input \in Inputs /\ source[Input] \in Modules \union {Nil}
           /\ phase = "process"
           /\ Top \in Frames /\ stack # <<>> /\ stack \in Seq(Frames)
           /\ DOMAIN stack = 1..Len(stack)
  <1>0. stack # <<>> /\ stack \in Seq(Frames)
    BY DEF Inv, TypeOK, Fetching
  <1>1. /\ Len(stack) \in DOMAIN stack /\ Len(stack) \in Nat \ {0}
        /\ Top = stack[Len(stack)] /\ Top \in Frames
        /\ DOMAIN stack = 1..Len(stack)
    BY <1>0 DEF Top
  <1>2. Top.module \in Modules /\ Top.next \in Nat \ {0}
    BY <1>1 DEF Frames
  <1>3. InputsOf[Top.module] \in Seq(Inputs)
    BY <1>2 DEF ConstantsAssumption
  <1>4. Top.next \in DOMAIN InputsOf[Top.module] /\ Input \in Inputs
    BY <1>2, <1>3 DEF Fetching, Input
  <1>5. source[Input] \in Modules \union {Nil}
    BY <1>4 DEF Inv, TypeOK
  <1>6. phase = "process"
    BY DEF Inv, PhaseOK, Fetching
  <1> QED
    BY <1>0, <1>1, <1>2, <1>4, <1>5, <1>6

\* Other inputs are not the one being fetched.
LEMMA OtherInputs ==
    ASSUME ConstantsAssumption, Inv, Fetching,
           NEW m \in Modules, NEW k \in DOMAIN InputsOf[m],
           m # Top.module \/ k # Top.next
    PROVE  InputsOf[m][k] # Input /\ InputsOf[m][k] \in Inputs
  <1>1. Top.module \in Modules /\ Top.next \in DOMAIN InputsOf[Top.module]
    BY TheTop
  <1>2. InputsOf[m] \in Seq(Inputs)
    BY DEF ConstantsAssumption
  <1> QED
    BY <1>1, <1>2 DEF ConstantsAssumption, Input

\* An input has been given value v, or has failed.
LEMMA GivenInv ==
    ASSUME ConstantsAssumption, Inv, Fetching,
           NEW v \in Nat \union {Nil}, NEW g \in BOOLEAN, NEW t \in BOOLEAN,
           in' = [in EXCEPT ![Input] = v], SetFailed(Input, g, t),
           filtered' \in [Transformed -> Nat \union {Nil}], g => v = Nil /\ t,
           stack' = WithTop(Advanced),
           UNCHANGED <<loopVars, cached, source, fetched, out, runs>>,
           source[Input] = Nil => v = Nil,
           source[Input] # Nil => cached[source[Input]] /\ (~t => v = out[source[Input]])
    PROVE  Inv'
  <1> USE DEF Inv
  <1> DEFINE f == Advanced
             n == Len(stack)
  <1>1. /\ n \in DOMAIN stack /\ n \in Nat \ {0}
        /\ Top = stack[n] /\ Top \in Frames
        /\ Top.module \in Modules /\ Top.next \in Nat \ {0}
        /\ Top.next \in DOMAIN InputsOf[Top.module]
        /\ Input \in Inputs /\ phase = "process"
        /\ stack # <<>> /\ stack \in Seq(Frames) /\ DOMAIN stack = 1..n
    BY TheTop
  <1>2. /\ f \in Frames /\ f.module = Top.module /\ f.next = Top.next + 1
        /\ f.asked = FALSE
    BY <1>1, FrameFacts
  <1>3. /\ stack' \in Seq(Frames) /\ Len(stack') = n /\ stack'[n] = f
        /\ \A k \in 1..(n - 1) : stack'[k] = stack[k]
    <2>1. /\ WithTop(f) \in Seq(Frames)
          /\ Len(WithTop(f)) = Len(stack)
          /\ WithTop(f)[Len(stack)] = f
          /\ \A k \in 1..(Len(stack) - 1) : WithTop(f)[k] = stack[k]
      BY <1>1, <1>2, WithTopFacts
    <2> QED
      BY <2>1
  <1> HIDE DEF f, n
  <1>4. DOMAIN stack' = 1..n
    BY <1>3
  <1>5. \A k \in 1..n : k = n \/ k \in 1..(n - 1)
    BY <1>1
  <1>6. \A k \in 1..n : stack'[k].module = stack[k].module
    BY <1>1, <1>2, <1>3, <1>5
  <1>7. UNCHANGED <<phase, position, cycle, paused>>
    BY DEF loopVars
  <1>8. /\ OnStack' = OnStack
        /\ \A m : Processed(m)' <=> Processed(m)
        /\ \A m : Stamp(m)' = Stamp(m)
        /\ NoReentry' /\ StackCached' /\ RanksFall'
    BY <1>3, <1>6, <1>7, SameModules DEF n
  <1>9. \A m \in Modules : \A k \in DOMAIN InputsOf[m] :
          m # Top.module \/ k # Top.next =>
            /\ Value(m, k)' = Value(m, k)
            /\ Threw(m, k)' = Threw(m, k)
            /\ Source(m, k)' = Source(m, k)
    <2>1. \A i \in Inputs : i # Input =>
              in'[i] = in[i] /\ threw'[i] = threw[i] /\ source'[i] = source[i]
      BY DEF TypeOK, SetFailed
    <2> QED
      BY <2>1, OtherInputs DEF Value, Threw, Source
  <1>a. TypeOK'
    <2>1. /\ in' \in [Inputs -> Nat \union {Nil}] /\ failed' \in [Inputs -> BOOLEAN]
          /\ threw' \in [Inputs -> BOOLEAN]
      BY DEF TypeOK, SetFailed
    <2>2. \A k \in DOMAIN stack' : stack'[k].next <= Len(InputsOf[stack'[k].module]) + 1
      <3>1. f.next <= Len(InputsOf[f.module]) + 1
        BY <1>1, <1>2 DEF ConstantsAssumption
      <3>2. \A k \in 1..n : stack[k].next <= Len(InputsOf[stack[k].module]) + 1
        BY <1>1 DEF TypeOK
      <3> QED
        <4> TAKE k \in DOMAIN stack'
        <4>1. k \in 1..n
          BY <1>4
        <4>2. CASE k = n
          BY <1>3, <3>1, <4>2
        <4>3. CASE k \in 1..(n - 1)
          <5>1. stack'[k] = stack[k]
            BY <1>3, <4>3
          <5> QED
            BY <3>2, <4>1, <5>1
        <4> QED
          BY <1>5, <4>1, <4>2, <4>3
    <2> QED
      BY <1>3, <1>7, <2>1, <2>2 DEF TypeOK
  <1>b. PhaseOK' /\ FetchedOK'
    BY <1>1, <1>7 DEF PhaseOK, FetchedOK
  <1>c. AskedOK'
    <2> SUFFICES ASSUME NEW d \in DOMAIN stack', NEW m \in Modules, NEW k \in Nat,
                        stack'[d].module = m, stack'[d].next = k, stack'[d].asked
                 PROVE  /\ k <= Len(InputsOf[m])
                        /\ Source(m, k)' # Nil
                        /\ (cached[Source(m, k)])'
      BY DEF AskedOK
    <2>1. d \in 1..(n - 1) /\ stack'[d] = stack[d]
      BY <1>2, <1>3, <1>4, <1>5
    <2>2. d \in DOMAIN stack
      BY <1>1, <1>4
    <2>3. k <= Len(InputsOf[m]) /\ Source(m, k) # Nil /\ cached[Source(m, k)]
      BY <2>1, <2>2 DEF AskedOK
    <2> QED
      BY <2>3 DEF Source
  <1>d. Stamped'
    BY <1>8 DEF Stamped
  <1>e. TakenOK'
    <2> SUFFICES ASSUME NEW d \in DOMAIN stack', NEW m \in Modules,
                        stack'[d].module = m, NEW k \in 1..(stack'[d].next - 1)
                 PROVE  Taken(m, k, d)'
      BY DEF TakenOK
    <2>0. d \in 1..n /\ d \in DOMAIN stack /\ stack[d].module = m
      BY <1>1, <1>4, <1>6
    <2>1. \A l \in 1..d : stack'[l].module = stack[l].module
      BY <1>1, <1>6, <2>0
    <2>2. CASE d # n \/ k # Top.next
      <3>1. k \in 1..(stack[d].next - 1)
        <4>1. CASE d # n
          BY <1>3, <1>5, <2>0, <4>1
        <4>2. CASE d = n
          BY <1>1, <1>2, <1>3, <2>2, <4>2
        <4> QED
          BY <4>1, <4>2
      <3>2. Taken(m, k, d)
        BY <2>0, <3>1 DEF TakenOK
      <3>3. k \in DOMAIN InputsOf[m]
        <4>1. stack[d].next <= Len(InputsOf[m]) + 1
          BY <2>0 DEF TypeOK
        <4>2. InputsOf[m] \in Seq(Inputs) /\ stack[d] \in Frames
          BY <1>1, <2>0 DEF ConstantsAssumption
        <4>3. stack[d].next \in Nat
          BY <4>2 DEF Frames
        <4> QED
          BY <3>1, <4>1, <4>2, <4>3
      <3>4. m # Top.module \/ k # Top.next
        BY <1>1, <2>0, <2>2 DEF NoReentry
      <3>5. /\ Value(m, k)' = Value(m, k)
            /\ Threw(m, k)' = Threw(m, k)
            /\ Source(m, k)' = Source(m, k)
        BY <1>9, <3>3, <3>4
      <3>6. (\E l \in 1..d : stack[l].module = Source(m, k))
              => (\E l \in 1..d : stack'[l].module = Source(m, k))
        BY <2>1
      <3> QED
        BY <1>8, <3>2, <3>5, <3>6 DEF Taken
    <2>3. CASE d = n /\ k = Top.next
      <3>1. m = Top.module
        BY <1>1, <2>0, <2>3
      <3>2. InputsOf[m][k] = Input /\ Source(m, k)' = source[Input]
        BY <2>3, <3>1 DEF Input, Source
      <3>3. Value(m, k)' = v /\ Threw(m, k)' = t
        BY <1>1, <3>2 DEF Value, Threw, TypeOK, SetFailed
      <3>4. CASE source[Input] = Nil
        BY <3>2, <3>3, <3>4 DEF Taken
      <3>5. CASE source[Input] # Nil
        <4> PICK s \in Modules : s = source[Input]
          BY <3>5, TheTop
        <4>1. ~t => v = out'[s]
          BY <3>5
        <4>2. cached'[s]
          BY <3>5
        <4>3. s \in OnStack => \E l \in 1..d : stack[l].module = s
          <5> HAVE s \in OnStack
          <5> PICK l \in DOMAIN stack : stack[l].module = s
            BY DEF OnStack
          <5>1. l \in 1..d
            BY <1>1, <2>3
          <5> QED
            BY <5>1
        <4>4. s \in OnStack => \E l \in 1..d : stack'[l].module = s
          BY <2>1, <4>3
        <4>5. Processed(s)' \/ (\E l \in 1..d : stack'[l].module = s)
          <5>1. s \notin OnStack => Processed(s)'
            BY <1>8, <4>2 DEF Processed
          <5> QED
            BY <4>4, <5>1
        <4>6. Processed(Source(m, k))' <=> Processed(s)'
          BY <3>2 DEF Processed
        <4> QED
          BY <3>2, <3>3, <3>5, <4>1, <4>5, <4>6 DEF Taken
      <3> QED
        BY <3>4, <3>5
    <2> QED
      BY <2>2, <2>3
  <1>f. SettledOK'
    <2> SUFFICES ASSUME NoFeedback', NEW m \in Modules, Processed(m)'
                 PROVE  Settled(m)'
      BY DEF SettledOK
    <2>1. NoFeedback
      BY DEF NoFeedback, Ranks
    <2>2. Processed(m)
      BY <1>8
    <2>3. Settled(m)
      BY <1>1, <2>1, <2>2 DEF SettledOK
    <2>4. m # Top.module
      BY <1>1, <2>2 DEF Processed, OnStack
    <2>5. ASSUME NEW k \in DOMAIN InputsOf[m], Source(m, k)' # Nil, ~Threw(m, k)'
          PROVE  Value(m, k)' = out'[Source(m, k)'] /\ Processed(Source(m, k))'
      <3>1. /\ Value(m, k)' = Value(m, k)
            /\ Threw(m, k)' = Threw(m, k)
            /\ Source(m, k)' = Source(m, k)
        BY <1>9, <2>4
      <3>2. Value(m, k) = out[Source(m, k)] /\ Processed(Source(m, k))
        BY <2>3, <2>5, <3>1 DEF Settled
      <3>3. Processed(Source(m, k))' <=> Processed(Source(m, k))
        BY <1>8, <3>1 DEF Processed
      <3> QED
        BY <3>1, <3>2, <3>3
    <2> QED
      BY <2>5 DEF Settled
  <1>g. FailedIsNil'
    BY <1>1 DEF FailedIsNil, SetFailed, TypeOK
  <1> QED
    BY <1>8, <1>a, <1>b, <1>c, <1>d, <1>e, <1>f, <1>g

\* An input that has no source, and one whose source has returned.
LEMMA FetchNothingInv ==
    ASSUME ConstantsAssumption, Inv, FetchNothing PROVE Inv'
  <1>1. Fetching /\ source[Input] = Nil
    BY DEF FetchNothing
  <1>2. /\ in' = [in EXCEPT ![Input] = Nil] /\ SetFailed(Input, FALSE, FALSE)
        /\ stack' = WithTop(Advanced)
        /\ UNCHANGED <<loopVars, cached, source, fetched, out, runs>>
    BY DEF FetchNothing
  <1>3. filtered' \in [Transformed -> Nat \union {Nil}]
    BY DEF FetchNothing, Inv, TypeOK
  <1> QED
    BY <1>1, <1>2, <1>3, GivenInv

LEMMA TakeInv ==
    ASSUME ConstantsAssumption, Inv, NEW throws \in BOOLEAN, Take(throws) PROVE Inv'
  <1> DEFINE v == TakenValue(throws)
             g == throws /\ v = Nil
  <1>1. /\ Fetching /\ Top.asked /\ (throws => Input \in Transformed)
        /\ in' = [in EXCEPT ![Input] = v] /\ SetFailed(Input, g, throws)
        /\ filtered' = [i \in Transformed |-> IF i = Input THEN in'[i] ELSE filtered[i]]
        /\ stack' = WithTop(Advanced)
        /\ UNCHANGED <<loopVars, cached, source, fetched, out, runs>>
    BY DEF Take, SetInput
  <1>2. source[Input] \in Modules /\ source[Input] # Nil /\ cached[source[Input]]
    <2>1. /\ Len(stack) \in DOMAIN stack /\ Top = stack[Len(stack)]
          /\ Top.module \in Modules /\ Top.next \in Nat
          /\ source[Input] \in Modules \union {Nil}
      BY <1>1, TheTop
    <2>2. Source(Top.module, Top.next) = source[Input]
      BY DEF Source, Input
    <2>3. /\ Source(Top.module, Top.next) # Nil
          /\ cached[Source(Top.module, Top.next)]
      BY <1>1, <2>1 DEF Inv, AskedOK
    <2> QED
      BY <2>1, <2>2, <2>3
  <1>3. v \in Nat \union {Nil} /\ g \in BOOLEAN
    BY <1>1, <1>2 DEF TakenValue, Inv, TypeOK
  <1>4. ~throws => v = out[source[Input]]
    BY DEF TakenValue
  <1>5. filtered' \in [Transformed -> Nat \union {Nil}]
    <2>1. in' \in [Inputs -> Nat \union {Nil}]
      BY <1>1, <1>3 DEF Inv, TypeOK
    <2> QED
      BY <1>1, <2>1 DEF Inv, TypeOK, ConstantsAssumption
  <1>6. g => v = Nil /\ throws
    OBVIOUS
  <1> HIDE DEF v, g
  <1>7. /\ source[Input] = Nil => v = Nil
        /\ source[Input] # Nil =>
              cached[source[Input]] /\ (~throws => v = out[source[Input]])
    BY <1>2, <1>4, Zenon
  <1>8. /\ Fetching
        /\ in' = [in EXCEPT ![Input] = v] /\ SetFailed(Input, g, throws)
        /\ stack' = WithTop(Advanced)
        /\ UNCHANGED <<loopVars, cached, source, fetched, out, runs>>
    BY <1>1, Zenon
  <1> QED
    BY <1>3, <1>5, <1>6, <1>7, <1>8, GivenInv, ZenonT(60)

-----------------------------------------------------------------------------
\* The stack from which s is called, by the call in progress or by the loop.
CalledFrom(calls, s) ==
    /\ calls \in Seq(Frames)
    /\ Len(calls) = Len(stack)
    /\ \A k \in 1..Len(stack) :
          /\ calls[k].module = stack[k].module
          /\ calls[k].next = stack[k].next
          /\ calls[k].asked =>
                \/ stack[k].asked
                \/ /\ calls[k].next <= Len(InputsOf[calls[k].module])
                   /\ Source(calls[k].module, calls[k].next) = s
    /\ \A rank \in [Modules -> 1..Len(Order)] : Ranks(rank) =>
          \A k \in 1..Len(stack) : rank[s] < rank[stack[k].module]

\* What else a call of s changes.
ChangedByCall(s) ==
    /\ UNCHANGED <<phase, cycle, paused, source, in, filtered, out, runs>>
    /\ position' \in 1..(Len(Order) + 1)
    /\ \A k \in DOMAIN Order : k < position' => k < position \/ Order[k] = s
    /\ fetched' = fetched \/ fetched' = [fetched EXCEPT ![s] = cycle]
    /\ failed' \in [Inputs -> BOOLEAN] /\ threw' \in [Inputs -> BOOLEAN]
    /\ \A i \in Inputs : failed'[i] => failed[i] /\ threw'[i] = threw[i]
    /\ \A m \in Modules : \A k \in DOMAIN InputsOf[m] :
          \/ Threw(m, k)' = Threw(m, k)
          \/ stack # <<>> /\ m = Top.module /\ k = Top.next

LEMMA CallInv ==
    ASSUME ConstantsAssumption, Inv, phase = "process",
           NEW s \in Modules, NEW calls, Call(s, calls),
           CalledFrom(calls, s), ChangedByCall(s)
    PROVE  Inv'
  <1> USE DEF Inv
  <1> DEFINE f == Frame(s, 1, FALSE)
  <1>0. stack \in Seq(Frames) /\ calls \in Seq(Frames) /\ Len(calls) = Len(stack)
    BY DEF TypeOK, CalledFrom
  <1> PICK n \in Nat : n = Len(stack)
    BY <1>0
  <1>1. /\ DOMAIN stack = 1..n /\ DOMAIN calls = 1..n
        /\ \A k \in 1..n : stack[k] \in Frames
    BY <1>0
  <1>2. f \in Frames /\ f.module = s /\ f.next = 1 /\ f.asked = FALSE
    BY DEF Frame, Frames
  <1>3. s \notin OnStack \/ cached[s]
    BY DEF OnStack, StackCached
  <1> HIDE DEF f
  <1>4. /\ stack' \in Seq(Frames)
        /\ 1..n \subseteq DOMAIN stack'
        /\ \A k \in 1..n : stack'[k] = calls[k]
        /\ \A k \in DOMAIN stack' :
              \/ k \in 1..n
              \/ k = n + 1 /\ stack'[k] = f /\ ~cached[s]
        /\ ~cached[s] => n + 1 \in DOMAIN stack'
    <2>1. CASE cached[s]
      <3>1. stack' = calls
        BY <2>1 DEF Call
      <3> QED
        BY <1>0, <1>1, <2>1, <3>1
    <2>2. CASE ~cached[s]
      <3>1. stack' = Append(calls, f)
        BY <2>2 DEF Call, f
      <3>2. /\ stack' \in Seq(Frames) /\ Len(stack') = n + 1 /\ stack'[n + 1] = f
            /\ \A k \in 1..n : stack'[k] = calls[k]
        BY <1>0, <1>2, <3>1, PushFacts
      <3>3. DOMAIN stack' = 1..(n + 1)
        BY <1>1, <3>2
      <3> QED
        BY <1>1, <2>2, <3>2, <3>3
    <2> QED
      BY <2>1, <2>2
  <1>5. /\ cached' \in [Modules -> BOOLEAN] /\ cached'[s]
        /\ \A m \in Modules : m # s => cached'[m] = cached[m]
        /\ \A m \in Modules : cached[m] => cached'[m]
    <2>1. CASE cached[s]
      BY <2>1 DEF Call, TypeOK
    <2>2. CASE ~cached[s]
      <3>1. cached' = [cached EXCEPT ![s] = TRUE] /\ cached \in [Modules -> BOOLEAN]
        BY <2>2 DEF Call, TypeOK
      <3> QED
        BY <3>1, Zenon
    <2> QED
      BY <2>1, <2>2
  <1>6. \A k \in 1..n : /\ stack'[k].module = stack[k].module
                        /\ stack'[k].next = stack[k].next
                        /\ k \in DOMAIN stack'
    BY <1>4 DEF CalledFrom
  <1>v. \A k \in DOMAIN stack' : k \in 1..n \/ k = n + 1
    BY <1>4
  <1>u. UNCHANGED <<phase, cycle, paused, source, in, filtered, out, runs>>
    BY DEF ChangedByCall
  <1>7. OnStack' = IF cached[s] THEN OnStack ELSE OnStack \union {s}
    <2>1. \A x \in OnStack : x \in OnStack'
      <3> TAKE x \in OnStack
      <3>1. PICK k \in DOMAIN stack : x = stack[k].module
        BY DEF OnStack
      <3>2. k \in DOMAIN stack' /\ stack'[k].module = x
        BY <1>1, <1>6, <3>1
      <3> QED
        BY <3>2 DEF OnStack
    <2>2. \A x \in OnStack' : x \in OnStack \/ (x = s /\ ~cached[s])
      <3> TAKE x \in OnStack'
      <3>1. PICK k \in DOMAIN stack' : x = stack'[k].module
        BY DEF OnStack
      <3>2. CASE k \in 1..n
        <4>1. x = stack[k].module /\ k \in DOMAIN stack
          BY <1>1, <1>6, <3>1, <3>2
        <4> QED
          BY <4>1 DEF OnStack
      <3>3. CASE stack'[k] = f /\ ~cached[s]
        BY <1>2, <3>1, <3>3
      <3>4. k \in 1..n \/ (stack'[k] = f /\ ~cached[s])
        BY <1>4, Zenon
      <3> QED
        BY <3>2, <3>3, <3>4, Zenon
    <2>3. ~cached[s] => s \in OnStack'
      <3> SUFFICES ASSUME ~cached[s] PROVE s \in OnStack'
        OBVIOUS
      <3>1. n + 1 \in DOMAIN stack' /\ n + 1 \notin 1..n
        BY <1>4
      <3>2. stack'[n + 1] = f
        BY <1>4, <3>1
      <3>3. s = stack'[n + 1].module
        BY <1>2, <3>2
      <3> QED
        BY <3>1, <3>3 DEF OnStack
    <2>4. CASE cached[s]
      <3>1. \A x : x \in OnStack' <=> x \in OnStack
        BY <2>1, <2>2, <2>4
      <3>2. OnStack' = OnStack
        BY <3>1, Zenon
      <3> QED
        BY <2>4, <3>2, Zenon
    <2>5. CASE ~cached[s]
      <3>1. \A x : x \in OnStack' <=> x \in OnStack \union {s}
        BY <2>1, <2>2, <2>3, <2>5
      <3>2. OnStack' = OnStack \union {s}
        BY <3>1, Zenon
      <3> QED
        BY <2>5, <3>2, Zenon
    <2> QED
      BY <2>4, <2>5
  <1>8. \A m \in Modules : Processed(m)' <=> Processed(m)
    BY <1>3, <1>5, <1>7, <1>u DEF Processed
  <1>9. Stamped'
    BY <1>8, <1>u DEF Stamped, Stamp
  <1>a. TypeOK'
    <2>1. fetched' \in [Modules -> 0..cycle]
      <3>1. cycle \in 0..cycle /\ fetched \in [Modules -> 0..cycle]
        BY DEF TypeOK
      <3>2. [fetched EXCEPT ![s] = cycle] \in [Modules -> 0..cycle]
        BY <3>1, Zenon
      <3>3. fetched' = fetched \/ fetched' = [fetched EXCEPT ![s] = cycle]
        BY DEF ChangedByCall
      <3> QED
        BY <3>1, <3>2, <3>3, Zenon
    <2>2. \A k \in DOMAIN stack' : stack'[k].next <= Len(InputsOf[stack'[k].module]) + 1
      <3>1. 1 <= Len(InputsOf[s]) + 1
        BY DEF ConstantsAssumption
      <3> QED
        BY <1>1, <1>2, <1>4, <1>6, <3>1 DEF TypeOK
    <2>3. /\ position' \in 1..(Len(Order) + 1)
          /\ failed' \in [Inputs -> BOOLEAN] /\ threw' \in [Inputs -> BOOLEAN]
      BY DEF ChangedByCall
    <2>4. /\ phase' \in {"idle", "communicate", "process"}
          /\ cycle' \in Nat /\ paused' \in BOOLEAN
      BY <1>u DEF TypeOK
    <2>5. /\ source' \in [Inputs -> Modules \union {Nil}]
          /\ in' \in [Inputs -> Nat \union {Nil}]
          /\ out' \in [Modules -> Nat \union {Nil}]
          /\ filtered' \in [Transformed -> Nat \union {Nil}]
          /\ runs' \in [Modules -> Nat]
      BY <1>u DEF TypeOK
    <2>6. fetched' \in [Modules -> 0..cycle']
      BY <1>u, <2>1
    <2>7. stack' \in Seq(Frames) /\ cached' \in [Modules -> BOOLEAN]
      BY <1>4, <1>5
    <2> QED
      BY <2>2, <2>3, <2>4, <2>5, <2>6, <2>7 DEF TypeOK
  <1>b. NoReentry'
    <2>1. \A k \in 1..n : ~cached[s] => stack[k].module # s
      BY <1>1 DEF StackCached
    <2> SUFFICES ASSUME NEW j \in DOMAIN stack', NEW k \in DOMAIN stack',
                        stack'[j].module = stack'[k].module
                 PROVE  j = k
      BY DEF NoReentry
    <2>2. CASE j \in 1..n /\ k \in 1..n
      BY <1>1, <1>6, <2>2 DEF NoReentry
    <2>3. ASSUME NEW l \in 1..n, NEW e \in DOMAIN stack', e = n + 1
          PROVE  stack'[l].module # stack'[e].module
      <3>1. stack'[e].module = s /\ ~cached[s]
        BY <1>2, <1>4, <2>3
      <3> QED
        BY <1>6, <2>1, <3>1
    <2> QED
      BY <1>v, <2>2, <2>3
  <1>c. PhaseOK'
    BY <1>5, <1>u DEF PhaseOK, ConstantsAssumption, ChangedByCall
  <1>d. StackCached'
    <2>1. \A k \in 1..n : stack[k].module \in Modules
      BY <1>1 DEF Frames
    <2> QED
      BY <1>1, <1>2, <1>4, <1>5, <1>6, <2>1 DEF StackCached
  <1>e. AskedOK'
    <2> SUFFICES ASSUME NEW d \in DOMAIN stack', NEW m \in Modules, NEW k \in Nat,
                        stack'[d].module = m, stack'[d].next = k, stack'[d].asked
                 PROVE  /\ k <= Len(InputsOf[m])
                        /\ Source(m, k)' # Nil
                        /\ (cached[Source(m, k)])'
      BY DEF AskedOK
    <2>1. d \in 1..n /\ stack'[d] = calls[d]
      BY <1>2, <1>4
    <2>2. Source(m, k)' = Source(m, k)
      BY <1>u DEF Source
    <2>3. CASE stack[d].asked
      <3>1. k <= Len(InputsOf[m]) /\ Source(m, k) # Nil /\ cached[Source(m, k)]
        <4>1. d \in DOMAIN stack /\ stack[d].module = m /\ stack[d].next = k
          BY <1>1, <1>6, <2>1
        <4> QED
          BY <2>3, <4>1 DEF AskedOK
      <3>2. CASE Source(m, k) = s
        BY <1>5, <2>2, <3>1, <3>2
      <3>3. CASE Source(m, k) # s
        <4>1. Source(m, k) \in Modules
          <5>1. InputsOf[m] \in Seq(Inputs) /\ k \in 1..Len(InputsOf[m])
            <6>1. stack'[d] \in Frames
              BY <1>4
            <6> QED
              BY <3>1, <6>1 DEF ConstantsAssumption, Frames
          <5>2. InputsOf[m][k] \in Inputs
            BY <5>1
          <5>3. source \in [Inputs -> Modules \union {Nil}]
            BY DEF TypeOK
          <5> QED
            BY <3>1, <5>2, <5>3 DEF Source
        <4> QED
          BY <1>5, <2>2, <3>1, <4>1
      <3> QED
        BY <3>2, <3>3
    <2>4. CASE ~stack[d].asked
      <3>1. k <= Len(InputsOf[m]) /\ Source(m, k) = s
        BY <1>4, <2>1, <2>4 DEF CalledFrom
      <3> QED
        BY <1>5, <2>2, <3>1 DEF ConstantsAssumption
    <2> QED
      BY <2>3, <2>4
  <1>f. FetchedOK'
    <2>1. ASSUME NEW m \in Modules, fetched'[m] = cycle PROVE cached'[m]
      <3>1. m = s \/ fetched[m] = cycle
        BY <2>1 DEF TypeOK, ChangedByCall
      <3> QED
        BY <1>5, <3>1 DEF FetchedOK
    <2> QED
      BY <1>u, <2>1 DEF FetchedOK
  <1>g. TakenOK'
    <2> SUFFICES ASSUME NEW d \in DOMAIN stack', NEW m \in Modules,
                        stack'[d].module = m, NEW k \in 1..(stack'[d].next - 1)
                 PROVE  Taken(m, k, d)'
      BY DEF TakenOK
    <2>1. d \in 1..n
      BY <1>2, <1>4
    <2>2. d \in DOMAIN stack /\ stack[d].module = m /\ k \in 1..(stack[d].next - 1)
      BY <1>1, <1>6, <2>1
    <2>3. Taken(m, k, d)
      BY <2>2 DEF TakenOK
    <2>4. k \in DOMAIN InputsOf[m] /\ InputsOf[m][k] \in Inputs
      <3>1. stack[d].next <= Len(InputsOf[m]) + 1
        BY <2>2 DEF TypeOK
      <3>2. InputsOf[m] \in Seq(Inputs) /\ stack[d] \in Frames
        BY <1>1, <2>2 DEF ConstantsAssumption
      <3>3. stack[d].next \in Nat
        BY <3>2 DEF Frames
      <3>4. k \in DOMAIN InputsOf[m]
        BY <2>2, <3>1, <3>2, <3>3
      <3> QED
        BY <3>2, <3>4
    <2>5. Threw(m, k)' = Threw(m, k)
      <3>1. CASE m = Top.module /\ stack # <<>>
        <4>1. n \in DOMAIN stack /\ Top = stack[n]
          BY <1>0, <1>1, <3>1 DEF Top
        <4>2. d = n
          BY <2>2, <3>1, <4>1 DEF NoReentry
        <4>3. k # Top.next
          BY <1>1, <2>2, <4>1, <4>2 DEF Frames
        <4> QED
          BY <2>4, <4>3 DEF ChangedByCall
      <3> QED
        BY <2>4, <3>1 DEF ChangedByCall
    <2>6. Value(m, k)' = Value(m, k) /\ Source(m, k)' = Source(m, k)
      BY <1>u DEF Value, Source
    <2>7. \A l \in 1..d : stack'[l].module = stack[l].module
      BY <1>1, <1>6, <2>1
    <2>8. CASE Source(m, k) = Nil
      BY <2>3, <2>6, <2>8 DEF Taken
    <2>9. CASE Source(m, k) # Nil
      <3>1. Source(m, k) \in Modules
        BY <2>4, <2>9 DEF TypeOK, Source
      <3>2. Processed(Source(m, k))' <=> Processed(Source(m, k))
        <4> PICK x \in Modules : x = Source(m, k)
          BY <3>1
        <4>1. (Processed(x)' <=> Processed(x))
          BY <1>8
        <4> QED
          BY <1>u, <2>6, <4>1 DEF Processed
      <3>3. (\E l \in 1..d : stack[l].module = Source(m, k))
              => (\E l \in 1..d : stack'[l].module = Source(m, k))
        BY <2>7
      <3> QED
        BY <1>u, <2>3, <2>5, <2>6, <2>9, <3>2, <3>3 DEF Taken
    <2> QED
      BY <2>8, <2>9
  <1>h. RanksFall'
    <2> SUFFICES ASSUME NEW rank \in [Modules -> 1..Len(Order)], Ranks(rank)',
                        NEW j \in DOMAIN stack', NEW k \in DOMAIN stack', j < k
                 PROVE  rank[stack'[k].module] < rank[stack'[j].module]
      BY DEF RanksFall
    <2>1. Ranks(rank)
      BY <1>u DEF Ranks
    <2>2. CASE k \in 1..n
      <3>1. j \in 1..n
        <4>1. k <= n /\ (j \in 1..n \/ j = n + 1)
          BY <1>v, <2>2
        <4> QED
          BY <2>2, <4>1
      <3> QED
        BY <1>1, <1>6, <2>1, <2>2, <3>1 DEF RanksFall
    <2>3. CASE k = n + 1 /\ stack'[k] = f
      <3>1. j \in 1..n
        <4>1. j \in 1..n \/ j = n + 1
          BY <1>v
        <4> QED
          BY <2>3, <4>1
      <3>2. rank[s] < rank[stack[j].module]
        BY <2>1, <3>1 DEF CalledFrom
      <3> QED
        BY <1>2, <1>6, <2>3, <3>1, <3>2
    <2> QED
      BY <1>4, <2>2, <2>3
  <1>i. SettledOK'
    <2> SUFFICES ASSUME NoFeedback', NEW m \in Modules, Processed(m)',
                        NEW k \in DOMAIN InputsOf[m], Source(m, k)' # Nil, ~Threw(m, k)'
                 PROVE  Value(m, k)' = out'[Source(m, k)'] /\ Processed(Source(m, k))'
      BY DEF SettledOK, Settled
    <2>1. NoFeedback
      BY <1>u DEF NoFeedback, Ranks
    <2>2. Processed(m) /\ Settled(m)
      BY <1>8, <2>1 DEF SettledOK
    <2>3. stack # <<>> => m # Top.module
      <3>1. m \notin OnStack
        BY <2>2 DEF Processed
      <3>2. stack # <<>> => n \in DOMAIN stack /\ Top = stack[n]
        BY <1>0, <1>1 DEF Top
      <3> QED
        BY <3>1, <3>2 DEF OnStack
    <2>4. /\ Threw(m, k)' = Threw(m, k)
          /\ Value(m, k)' = Value(m, k) /\ Source(m, k)' = Source(m, k)
      BY <1>u, <2>3 DEF Value, Source, ChangedByCall
    <2>5. Value(m, k) = out[Source(m, k)] /\ Processed(Source(m, k))
      BY <2>2, <2>4 DEF Settled
    <2>6. Source(m, k) \in Modules
      <3>1. InputsOf[m] \in Seq(Inputs)
        BY DEF ConstantsAssumption
      <3>2. InputsOf[m][k] \in Inputs
        BY <3>1
      <3> QED
        BY <2>4, <3>2 DEF TypeOK, Source
    <2> PICK x \in Modules : x = Source(m, k)
      BY <2>6
    <2>7. Processed(x)
      BY <2>5 DEF Processed
    <2>8. Processed(x)'
      BY <1>8, <2>7
    <2> QED
      BY <1>u, <2>4, <2>5, <2>8 DEF Processed
  <1>j. FailedIsNil'
    BY <1>u DEF FailedIsNil, ChangedByCall
  <1> QED
    BY <1>9, <1>a, <1>b, <1>c, <1>d, <1>e, <1>f, <1>g, <1>h, <1>i, <1>j

LEMMA NextModuleInv ==
    ASSUME ConstantsAssumption, Inv, NextModule PROVE Inv'
  <1> DEFINE s == Order[position]
  <1>1. /\ phase = "process" /\ stack = <<>> /\ position <= Len(Order)
        /\ position' = position + 1 /\ Call(s, <<>>)
        /\ UNCHANGED <<phase, cycle, paused, source, fetched, inputVars, out, runs>>
    BY DEF NextModule
  <1>2. position \in 1..Len(Order) /\ s \in Modules
    BY <1>1 DEF Inv, TypeOK, ConstantsAssumption
  <1> HIDE DEF s
  <1>3. CalledFrom(<<>>, s)
    <2>1. Len(stack) = 0 /\ <<>> \in Seq(Frames)
      BY <1>1
    <2> QED
      BY <2>1 DEF CalledFrom
  <1>4. ChangedByCall(s)
    <2>1. /\ position' \in 1..(Len(Order) + 1)
          /\ \A k \in DOMAIN Order : k < position' => k < position \/ Order[k] = s
      BY <1>1, <1>2 DEF ConstantsAssumption, s
    <2>2. UNCHANGED <<in, filtered, failed, threw>>
      BY <1>1 DEF inputVars
    <2>3. failed' \in [Inputs -> BOOLEAN] /\ threw' \in [Inputs -> BOOLEAN]
      BY <2>2 DEF Inv, TypeOK
    <2>4. \A m \in Modules : \A k \in DOMAIN InputsOf[m] : Threw(m, k)' = Threw(m, k)
      BY <2>2 DEF Threw
    <2> QED
      BY <1>1, <2>1, <2>2, <2>3, <2>4 DEF ChangedByCall
  <1> QED
    BY <1>1, <1>2, <1>3, <1>4, CallInv

LEMMA RankType ==
    ASSUME NEW rank \in [Modules -> 1..Len(Order)], NEW m \in Modules
    PROVE  rank[m] \in Nat
  <1>1. rank[m] \in 1..Len(Order)
    OBVIOUS
  <1>2. \A x \in 1..Len(Order) : x \in Nat
    OBVIOUS
  <1> QED
    BY <1>1, <1>2

LEMMA AskInv ==
    ASSUME ConstantsAssumption, Inv, Ask PROVE Inv'
  <1> DEFINE calls == WithTop(Asking)
             n == Len(stack)
  <1>1. /\ Fetching /\ ~Top.asked /\ source[Input] # Nil
        /\ SetFailed(Input, FALSE, FALSE)
        /\ UNCHANGED <<loopVars, source, in, filtered, out, runs>>
    BY DEF Ask
  <1>2. /\ n \in DOMAIN stack /\ n \in Nat \ {0}
        /\ Top = stack[n] /\ Top \in Frames
        /\ Top.module \in Modules /\ Top.next \in Nat \ {0}
        /\ Top.next \in DOMAIN InputsOf[Top.module]
        /\ Input \in Inputs /\ source[Input] \in Modules \union {Nil}
        /\ phase = "process"
        /\ stack # <<>> /\ stack \in Seq(Frames) /\ DOMAIN stack = 1..n
    BY <1>1, TheTop
  <1> PICK s \in Modules : s = source[Input]
    BY <1>1, <1>2
  <1>3. Source(Top.module, Top.next) = s
    BY DEF Source, Input
  <1>4. /\ calls \in Seq(Frames) /\ Len(calls) = n
        /\ calls[n] = Asking
        /\ \A k \in 1..(n - 1) : calls[k] = stack[k]
    <2>1. Asking \in Frames
      BY <1>2, FrameFacts
    <2>2. /\ WithTop(Asking) \in Seq(Frames)
          /\ Len(WithTop(Asking)) = Len(stack)
          /\ WithTop(Asking)[Len(stack)] = Asking
          /\ \A k \in 1..(Len(stack) - 1) : WithTop(Asking)[k] = stack[k]
      BY <1>2, <2>1, WithTopFacts
    <2> QED
      BY <2>2
  <1>5. /\ fetched' = fetched \/ fetched' = [fetched EXCEPT ![s] = cycle]
        /\ Call(s, calls)
    <2>1. CASE fetched[s] < cycle
      BY <2>1 DEF Ask
    <2>2. CASE ~(fetched[s] < cycle)
      <3>1. fetched[s] = cycle
        BY <2>2 DEF Inv, TypeOK
      <3>2. cached[s]
        BY <1>2, <3>1 DEF Inv, FetchedOK
      <3>3. fetched' = fetched /\ cached' = cached /\ stack' = calls
        BY <2>2 DEF Ask
      <3> QED
        BY <3>2, <3>3 DEF Call
    <2> QED
      BY <2>1, <2>2
  <1> HIDE DEF calls, n
  <1>6. CalledFrom(calls, s)
    <2>1. \A k \in 1..n : k = n \/ k \in 1..(n - 1)
      BY <1>2
    <2>2. calls[n].module = Top.module /\ calls[n].next = Top.next
      BY <1>2, <1>4, FrameFacts
    <2>3. \A k \in 1..n : /\ calls[k].module = stack[k].module
                          /\ calls[k].next = stack[k].next
      BY <1>2, <1>4, <2>1, <2>2
    <2>4. ASSUME NEW k \in 1..n, calls[k].asked
          PROVE  \/ stack[k].asked
                 \/ /\ calls[k].next <= Len(InputsOf[calls[k].module])
                    /\ Source(calls[k].module, calls[k].next) = s
      <3>1. CASE k = n
        BY <1>1, <1>3, <2>2, <3>1 DEF Fetching
      <3>2. CASE k \in 1..(n - 1)
        BY <1>4, <2>4, <3>2
      <3> QED
        BY <2>1, <3>1, <3>2
    <2>5. ASSUME NEW rank \in [Modules -> 1..Len(Order)], Ranks(rank), NEW k \in 1..n
          PROVE  rank[s] < rank[stack[k].module]
      <3>1. rank[s] < rank[Top.module]
        BY <1>1, <1>2, <1>3, <2>5 DEF Ranks, Source
      <3>2. CASE k = n
        BY <1>2, <3>1, <3>2
      <3>3. CASE k \in 1..(n - 1)
        <4>1. k \in DOMAIN stack /\ k < n /\ stack[k].module \in Modules
          <5>1. stack[k] \in Frames
            BY <1>2
          <5> QED
            BY <1>2, <3>3, <5>1 DEF Frames
        <4>2. rank[Top.module] < rank[stack[k].module]
          BY <1>2, <2>5, <4>1 DEF Inv, RanksFall
        <4>3. /\ rank[s] \in Nat /\ rank[Top.module] \in Nat
              /\ rank[stack[k].module] \in Nat
          BY <1>2, <4>1, RankType
        <4>4. \A x, y, z \in Nat : x < y /\ y < z => x < z
          OBVIOUS
        <4> QED
          BY <3>1, <4>2, <4>3, <4>4
      <3> QED
        BY <2>1, <3>2, <3>3
    <2> QED
      BY <1>4, <2>3, <2>4, <2>5 DEF CalledFrom, n
  <1>7. ChangedByCall(s)
    <2>1. UNCHANGED <<phase, cycle, paused, source, in, filtered, out, runs, position>>
      BY <1>1 DEF loopVars
    <2>2. /\ position' \in 1..(Len(Order) + 1)
          /\ failed' \in [Inputs -> BOOLEAN] /\ threw' \in [Inputs -> BOOLEAN]
          /\ \A i \in Inputs : failed'[i] => failed[i] /\ threw'[i] = threw[i]
      BY <1>1, <2>1 DEF Inv, TypeOK, SetFailed
    <2>3. ASSUME NEW m \in Modules, NEW k \in DOMAIN InputsOf[m],
                 m # Top.module \/ k # Top.next
          PROVE  Threw(m, k)' = Threw(m, k)
      BY <1>1, <2>3, OtherInputs DEF Threw, Inv, TypeOK, SetFailed
    <2> QED
      BY <1>2, <1>5, <2>1, <2>2, <2>3 DEF ChangedByCall
  <1> QED
    BY <1>2, <1>5, <1>6, <1>7, CallInv

LEMMA SourceType ==
    ASSUME ConstantsAssumption, TypeOK, NEW m \in Modules, NEW k \in DOMAIN InputsOf[m]
    PROVE  InputsOf[m][k] \in Inputs /\ Source(m, k) \in Modules \union {Nil}
  <1>1. InputsOf[m] \in Seq(Inputs)
    BY DEF ConstantsAssumption
  <1>2. InputsOf[m][k] \in Inputs
    BY <1>1
  <1> QED
    BY <1>2 DEF TypeOK, Source

\* A module's inputs have all been fetched and its process() is called.
LEMMA ProcessInv ==
    ASSUME ConstantsAssumption, Inv, NEW throws \in BOOLEAN, Process(throws)
    PROVE  Inv'
  <1> USE DEF Inv
  <1>1. /\ AllFetched
        /\ out' = [out EXCEPT ![Top.module] = Output(Top.module, throws)]
        /\ runs' = [runs EXCEPT ![Top.module] = runs[Top.module] + 1]
        /\ stack' = Callers
        /\ UNCHANGED <<loopVars, cached, source, fetched, inputVars>>
    BY DEF Process
  <1>2. stack \in Seq(Frames) /\ stack # <<>>
    BY <1>1 DEF TypeOK, AllFetched
  <1> PICK n \in Nat \ {0} : n = Len(stack)
    BY <1>2
  <1>3. /\ DOMAIN stack = 1..n /\ n \in 1..n /\ Top = stack[n]
        /\ \A k \in 1..n : stack[k] \in Frames /\ stack[k].module \in Modules
    <2>1. DOMAIN stack = 1..n /\ n \in 1..n
      BY <1>2
    <2>2. Top = stack[n]
      BY DEF Top
    <2>3. \A k \in 1..n : stack[k] \in Frames
      BY <1>2, <2>1
    <2> QED
      BY <2>1, <2>2, <2>3 DEF Frames
  <1> PICK m \in Modules : m = Top.module
    BY <1>3
  <1>4. /\ stack' \in Seq(Frames) /\ DOMAIN stack' = 1..(n - 1)
        /\ \A k \in 1..(n - 1) : stack'[k] = stack[k] /\ k \in 1..n /\ k < n
    <2>1. /\ Callers \in Seq(Frames) /\ Len(Callers) = n - 1
          /\ \A k \in 1..(n - 1) : Callers[k] = stack[k]
      BY <1>2, CallersFacts
    <2>2. \A k \in 1..(n - 1) : k \in 1..n /\ k < n
      OBVIOUS
    <2> QED
      BY <1>1, <2>1, <2>2
  <1>5. \A k \in 1..(n - 1) : stack[k].module # m
    <2> TAKE k \in 1..(n - 1)
    <2>1. k \in DOMAIN stack /\ n \in DOMAIN stack /\ k # n
      BY <1>3, <1>4
    <2> QED
      BY <1>3, <2>1 DEF NoReentry
  <1>6. UNCHANGED <<phase, position, cycle, paused, cached, source, fetched, in,
                    filtered, failed, threw>>
    BY <1>1 DEF loopVars, inputVars
  <1>7. phase = "process" /\ m \in OnStack /\ cached[m] /\ ~Processed(m)
    <2>1. phase = "process"
      BY <1>2 DEF PhaseOK
    <2>2. m \in OnStack /\ cached[m]
      BY <1>3 DEF OnStack, StackCached
    <2> QED
      BY <2>1, <2>2 DEF Processed
  <1>8. \A x : x \in OnStack' <=> x \in OnStack /\ x # m
    <2>1. ASSUME NEW x \in OnStack' PROVE x \in OnStack /\ x # m
      <3>1. PICK k \in DOMAIN stack' : x = stack'[k].module
        BY <2>1 DEF OnStack
      <3>2. k \in DOMAIN stack /\ x = stack[k].module /\ k \in 1..(n - 1)
        BY <1>3, <1>4, <3>1
      <3> QED
        BY <1>5, <3>2 DEF OnStack
    <2>2. ASSUME NEW x \in OnStack, x # m PROVE x \in OnStack'
      <3>1. PICK k \in DOMAIN stack : x = stack[k].module
        BY <2>2 DEF OnStack
      <3>2. k # n /\ k \in 1..n
        BY <1>3, <2>2, <3>1
      <3>3. k \in 1..(n - 1)
        BY <3>2
      <3>4. k \in DOMAIN stack' /\ x = stack'[k].module
        BY <1>4, <3>1, <3>3
      <3> QED
        BY <3>4 DEF OnStack
    <2> QED
      BY <2>1, <2>2
  <1>9. \A x \in Modules : Processed(x)' <=> Processed(x) \/ x = m
    BY <1>6, <1>7, <1>8 DEF Processed
  <1>a. /\ out' \in [Modules -> Nat \union {Nil}] /\ runs' \in [Modules -> Nat]
        /\ out'[m] \in {Nil, cycle} /\ runs'[m] = runs[m] + 1
        /\ \A x \in Modules : x # m => out'[x] = out[x] /\ runs'[x] = runs[x]
    <2>1. Output(m, throws) \in {Nil, cycle} /\ cycle \in Nat
      BY DEF Output, TypeOK
    <2>2. /\ out' = [out EXCEPT ![m] = Output(m, throws)]
          /\ runs' = [runs EXCEPT ![m] = runs[m] + 1]
      BY <1>1
    <2>3. out \in [Modules -> Nat \union {Nil}] /\ runs \in [Modules -> Nat]
      BY DEF TypeOK
    <2>4. out' \in [Modules -> Nat \union {Nil}] /\ runs' \in [Modules -> Nat]
      <3>1. Output(m, throws) \in Nat \union {Nil} /\ runs[m] + 1 \in Nat
        BY <2>1, <2>3
      <3>2. [out EXCEPT ![m] = Output(m, throws)] \in [Modules -> Nat \union {Nil}]
        BY <2>3, <3>1, Zenon
      <3>3. [runs EXCEPT ![m] = runs[m] + 1] \in [Modules -> Nat]
        BY <2>3, <3>1, Zenon
      <3> QED
        BY <2>2, <3>2, <3>3, Zenon
    <2>5. out'[m] = Output(m, throws) /\ runs'[m] = runs[m] + 1
      BY <2>2, <2>3
    <2>6. \A x \in Modules : x # m => out'[x] = out[x] /\ runs'[x] = runs[x]
      BY <2>2, <2>3
    <2> QED
      BY <2>1, <2>4, <2>5, <2>6
  <1>b. TypeOK'
    <2>1. \A k \in DOMAIN stack' : stack'[k].next <= Len(InputsOf[stack'[k].module]) + 1
      BY <1>3, <1>4 DEF TypeOK
    <2> QED
      BY <1>4, <1>6, <1>a, <2>1 DEF TypeOK
  <1>s. \A d \in DOMAIN stack' :
          d \in DOMAIN stack /\ d \in 1..(n - 1) /\ stack'[d] = stack[d]
    BY <1>3, <1>4
  <1>c. NoReentry' /\ StackCached'
    BY <1>6, <1>s DEF NoReentry, StackCached
  <1>d. PhaseOK' /\ FetchedOK'
    BY <1>6, <1>7 DEF PhaseOK, FetchedOK
  <1>e. AskedOK'
    <2> SUFFICES ASSUME NEW d \in DOMAIN stack', NEW x \in Modules, NEW k \in Nat,
                        stack'[d].module = x, stack'[d].next = k, stack'[d].asked
                 PROVE  /\ k <= Len(InputsOf[x])
                        /\ Source(x, k)' # Nil
                        /\ (cached[Source(x, k)])'
      BY DEF AskedOK
    <2>1. k <= Len(InputsOf[x]) /\ Source(x, k) # Nil /\ cached[Source(x, k)]
      <3>1. d \in DOMAIN stack /\ stack'[d] = stack[d]
        BY <1>s
      <3>2. stack[d].module = x /\ stack[d].next = k /\ stack[d].asked
        BY <3>1
      <3> QED
        BY <3>1, <3>2, x \in Modules, k \in Nat DEF AskedOK
    <2> QED
      BY <1>6, <2>1 DEF Source
  <1>f. Stamped'
    <2> SUFFICES ASSUME NEW x \in Modules
                 PROVE  runs'[x] = Stamp(x)' /\ out'[x] \in {Nil, Stamp(x)'}
      BY DEF Stamped
    <2>1. runs[x] = Stamp(x) /\ out[x] \in {Nil, Stamp(x)}
      BY DEF Stamped
    <2>2. CASE x = m
      <3>1. Stamp(x) = cycle - 1 /\ Stamp(x)' = cycle
        BY <1>6, <1>7, <1>9, <2>2 DEF Stamp
      <3> QED
        BY <1>a, <2>1, <2>2, <3>1 DEF TypeOK
    <2>3. CASE x # m
      <3>1. Stamp(x)' = Stamp(x)
        BY <1>6, <1>9, <2>3 DEF Stamp
      <3> QED
        BY <1>a, <2>1, <2>3, <3>1
    <2> QED
      BY <2>2, <2>3
  <1>g. RanksFall'
    <2> SUFFICES ASSUME NEW rank \in [Modules -> 1..Len(Order)], Ranks(rank)',
                        NEW j \in DOMAIN stack', NEW k \in DOMAIN stack', j < k
                 PROVE  rank[stack'[k].module] < rank[stack'[j].module]
      BY DEF RanksFall
    <2>1. Ranks(rank)
      BY <1>6 DEF Ranks
    <2> QED
      BY <1>3, <1>4, <2>1 DEF RanksFall
  <1>h. TakenOK'
    <2> SUFFICES ASSUME NEW d \in DOMAIN stack', NEW x \in Modules,
                        stack'[d].module = x, NEW k \in 1..(stack'[d].next - 1)
                 PROVE  Taken(x, k, d)'
      BY DEF TakenOK
    <2>1. /\ d \in 1..(n - 1) /\ d \in DOMAIN stack /\ stack[d].module = x
          /\ k \in 1..(stack[d].next - 1)
      BY <1>3, <1>4
    <2>2. Taken(x, k, d)
      BY <2>1 DEF TakenOK
    <2>3. k \in DOMAIN InputsOf[x]
      <3>1. stack[d].next <= Len(InputsOf[x]) + 1
        BY <2>1 DEF TypeOK
      <3>2. InputsOf[x] \in Seq(Inputs) /\ stack[d].next \in Nat
        BY <1>3, <2>1 DEF ConstantsAssumption, Frames
      <3> QED
        BY <2>1, <3>1, <3>2
    <2>4. /\ Source(x, k)' = Source(x, k) /\ Value(x, k)' = Value(x, k)
          /\ Threw(x, k)' = Threw(x, k)
      BY <1>6 DEF Source, Value, Threw
    <2>5. \A l \in 1..d : stack'[l].module = stack[l].module /\ stack[l].module # m
      <3>1. \A l \in 1..d : l \in 1..(n - 1)
        BY <2>1
      <3> QED
        BY <1>4, <1>5, <3>1
    <2>6. CASE Source(x, k) = Nil
      BY <2>2, <2>4, <2>6 DEF Taken
    <2>7. CASE Source(x, k) # Nil /\ Threw(x, k)
      BY <2>4, <2>7 DEF Taken
    <2>8. CASE Source(x, k) # Nil /\ ~Threw(x, k)
      <3> PICK s \in Modules : s = Source(x, k)
        BY <2>3, <2>8, SourceType
      <3>1. /\ Value(x, k) = out[s]
            /\ Processed(s) \/ (\E l \in 1..d : stack[l].module = s)
        BY <2>2, <2>8 DEF Taken, Processed
      <3>2. s # m
        BY <1>7, <2>5, <3>1
      <3>3. out'[s] = out[s]
        BY <1>a, <3>2
      <3>4. Processed(s)' \/ (\E l \in 1..d : stack'[l].module = s)
        BY <1>9, <2>5, <3>1
      <3>5. Processed(Source(x, k))' <=> Processed(s)'
        BY <2>4 DEF Processed
      <3> QED
        BY <2>4, <3>1, <3>3, <3>4, <3>5 DEF Taken
    <2> QED
      BY <2>6, <2>7, <2>8
  <1>i. SettledOK'
    <2> SUFFICES ASSUME NoFeedback', NEW x \in Modules, Processed(x)',
                        NEW k \in DOMAIN InputsOf[x], Source(x, k)' # Nil, ~Threw(x, k)'
                 PROVE  Value(x, k)' = out'[Source(x, k)'] /\ Processed(Source(x, k))'
      BY DEF SettledOK, Settled
    <2>1. NoFeedback
      BY <1>6 DEF NoFeedback, Ranks
    <2>2. /\ Source(x, k)' = Source(x, k) /\ Value(x, k)' = Value(x, k)
          /\ Threw(x, k)' = Threw(x, k)
      BY <1>6 DEF Source, Value, Threw
    <2> PICK s \in Modules : s = Source(x, k)
      BY <2>2, SourceType
    <2>3. s # Nil
      BY DEF ConstantsAssumption
    <2>4. Value(x, k) = out[s] /\ Processed(s)
      <3>1. CASE x = m
        <4>1. k \in 1..(stack[n].next - 1)
          <5>1. stack[n].next \in Nat /\ stack[n].next > Len(InputsOf[m])
            BY <1>1, <1>3 DEF AllFetched, Frames
          <5>2. InputsOf[m] \in Seq(Inputs)
            BY DEF ConstantsAssumption
          <5> QED
            BY <3>1, <5>1, <5>2, SMTT(40)
        <4>2. Taken(x, k, n)
          BY <1>3, <3>1, <4>1 DEF TakenOK
        <4>3. /\ Value(x, k) = out[s]
              /\ Processed(s) \/ (\E l \in 1..n : stack[l].module = s)
          BY <2>2, <2>3, <4>2 DEF Taken, Processed
        <4>4. ASSUME NEW l \in 1..n, stack[l].module = s PROVE FALSE
          <5> PICK rank \in [Modules -> 1..Len(Order)] : Ranks(rank)
            BY <2>1 DEF NoFeedback
          <5>1. rank[s] < rank[m]
            BY <2>3, <3>1 DEF Ranks, Source
          <5>2. rank[s] \in Nat /\ rank[m] \in Nat
            BY RankType
          <5>3. CASE l = n
            <6>1. s = m
              BY <1>3, <4>4, <5>3
            <6>2. \A y \in Nat : ~(y < y)
              OBVIOUS
            <6> QED
              BY <5>1, <5>2, <6>1, <6>2
          <5>4. CASE l # n
            <6>1. l < n
              BY <5>4
            <6>2. rank[m] < rank[s]
              BY <1>3, <4>4, <6>1 DEF RanksFall
            <6>3. \A y, z \in Nat : ~(y < z /\ z < y)
              OBVIOUS
            <6> QED
              BY <5>1, <5>2, <6>2, <6>3
          <5> QED
            BY <5>3, <5>4
        <4> QED
          BY <4>3, <4>4
      <3>2. CASE x # m
        <4>1. Settled(x)
          BY <1>7, <1>9, <2>1, <3>2 DEF SettledOK
        <4>2. Value(x, k) = out[Source(x, k)] /\ Processed(Source(x, k))
          BY <2>2, <4>1 DEF Settled
        <4> QED
          BY <4>2 DEF Processed
      <3> QED
        BY <3>1, <3>2
    <2>5. s # m
      BY <1>7, <2>4
    <2>6. out'[s] = out[s] /\ Processed(s)'
      BY <1>9, <1>a, <2>4, <2>5
    <2>7. Processed(Source(x, k))' <=> Processed(s)'
      BY <2>2 DEF Processed
    <2> QED
      BY <2>2, <2>4, <2>6, <2>7
  <1>j. FailedIsNil'
    BY <1>6 DEF FailedIsNil
  <1> QED
    BY <1>b, <1>c, <1>d, <1>e, <1>f, <1>g, <1>h, <1>i, <1>j

-----------------------------------------------------------------------------
LEMMA NextInv == ASSUME ConstantsAssumption, Inv, [Next]_vars PROVE Inv'
  <1>1. CASE BeginCycle
    BY <1>1, BeginCycleInv
  <1>2. CASE InCycle
    <2>1. ASSUME NEW throws \in BOOLEAN, Communicate(throws) PROVE Inv'
      BY <2>1, CommunicateInv
    <2>2. ASSUME NEW throws \in BOOLEAN, Take(throws) PROVE Inv'
      BY <2>2, TakeInv
    <2>3. ASSUME NEW throws \in BOOLEAN, Process(throws) PROVE Inv'
      BY <2>3, ProcessInv
    <2> QED
      BY <1>2, <2>1, <2>2, <2>3, BeginProcessingInv, NextModuleInv, FetchNothingInv,
         AskInv, EndCycleInv DEF InCycle
  <1>3. CASE SetPaused
    <2>1. phase = "idle"
      BY <1>3 DEF SetPaused
    <2>2. /\ paused' \in BOOLEAN /\ source' \in [Inputs -> Modules \union {Nil}]
          /\ filtered' \in [Transformed -> Nat \union {Nil}]
      BY <1>3 DEF SetPaused, inputVars, Inv, TypeOK
    <2>3. UNCHANGED <<phase, position, cycle, stack, cached, fetched, in, failed, threw,
                      out, runs>>
      BY <1>3 DEF SetPaused, inputVars
    <2> QED
      BY <2>1, <2>2, <2>3, BetweenInv
  <1>4. ASSUME NEW i \in Reconnected, NEW s \in Modules \union {Nil}, Connect(i, s)
        PROVE  Inv'
    <2>1. phase = "idle"
      BY <1>4 DEF Connect
    <2>2. /\ paused' \in BOOLEAN /\ source' \in [Inputs -> Modules \union {Nil}]
          /\ filtered' \in [Transformed -> Nat \union {Nil}]
      BY <1>4 DEF Connect, loopVars, Inv, TypeOK
    <2>3. UNCHANGED <<phase, position, cycle, stack, cached, fetched, in, failed, threw,
                      out, runs>>
      BY <1>4 DEF Connect, loopVars
    <2> QED
      BY <2>1, <2>2, <2>3, BetweenInv
  <1>5. CASE UNCHANGED vars
    <2>1. UNCHANGED <<phase, position, cycle, stack, cached, fetched, in, filtered, failed,
                      threw, out, runs, paused, source>>
      BY <1>5 DEF vars, loopVars, inputVars
    <2>2. /\ TypeOK' /\ NoReentry' /\ PhaseOK' /\ StackCached' /\ FetchedOK'
          /\ FailedIsNil'
      BY <2>1 DEF Inv, TypeOK, NoReentry, PhaseOK, StackCached, FetchedOK, FailedIsNil
    <2>4. \A m : Processed(m)' <=> Processed(m)
      BY <2>1 DEF Processed, OnStack
    <2>5. Stamped'
      BY <2>1, <2>4 DEF Inv, Stamped, Stamp
    <2>6. AskedOK'
      <3> SUFFICES ASSUME NEW d \in DOMAIN stack', NEW m \in Modules, NEW k \in Nat,
                          stack'[d].module = m, stack'[d].next = k, stack'[d].asked
                   PROVE  /\ k <= Len(InputsOf[m])
                          /\ Source(m, k)' # Nil
                          /\ (cached[Source(m, k)])'
        BY DEF AskedOK
      <3>1. k <= Len(InputsOf[m]) /\ Source(m, k) # Nil /\ cached[Source(m, k)]
        BY <2>1 DEF Inv, AskedOK
      <3> QED
        BY <2>1, <3>1 DEF Source
    <2>7. TakenOK'
      <3> SUFFICES ASSUME NEW d \in DOMAIN stack', NEW m \in Modules,
                          stack'[d].module = m, NEW k \in 1..(stack'[d].next - 1)
                   PROVE  Taken(m, k, d)'
        BY DEF TakenOK
      <3>1. Taken(m, k, d)
        BY <2>1 DEF Inv, TakenOK
      <3> QED
        BY <2>1, <3>1 DEF Taken, Source, Value, Threw, Processed, OnStack
    <2>8. \A rank : Ranks(rank)' <=> Ranks(rank)
      BY <2>1, Zenon DEF Ranks
    <2>9. RanksFall'
      BY <2>1, <2>8, Zenon DEF Inv, RanksFall
    <2>a. SettledOK'
      <3>1. NoFeedback' <=> NoFeedback
        BY <2>8, Zenon DEF NoFeedback
      <3>2. \A m : Settled(m)' <=> Settled(m)
        BY <2>1 DEF Settled, Source, Value, Threw, Processed, OnStack
      <3> QED
        BY <2>1, <2>4, <3>1, <3>2 DEF Inv, SettledOK
    <2> QED
      BY <2>2, <2>5, <2>6, <2>7, <2>9, <2>a DEF Inv
  <1> QED
    BY <1>1, <1>2, <1>3, <1>4, <1>5 DEF Next

LEMMA Invariance == ASSUME ConstantsAssumption PROVE Spec => []Inv
  <1>1. Init => Inv
    BY InitInv
  <1>2. Inv /\ [Next]_vars => Inv'
    BY NextInv
  <1> QED
    BY <1>1, <1>2, PTL DEF Spec

-----------------------------------------------------------------------------
\* The types, and that the calls in progress stay within the modules' inputs.
THEOREM TypeCorrect == ASSUME ConstantsAssumption PROVE Spec => []TypeOK
  <1>1. Inv => TypeOK
    BY DEF Inv
  <1> QED
    BY <1>1, Invariance, PTL

\* The recursion of fetch_and_process() never comes back to a module that is waiting
\* for its inputs (NoReentry), whatever the modules and the wiring are.
THEOREM NeverReentered == ASSUME ConstantsAssumption PROVE Spec => []NoReentry
  <1>1. Inv => NoReentry
    BY DEF Inv
  <1> QED
    BY <1>1, Invariance, PTL

\* Each module is processed exactly once in each cycle (OncePerCycle).
THEOREM ProcessedOncePerCycle == ASSUME ConstantsAssumption PROVE Spec => []OncePerCycle
  <1>1. Inv => OncePerCycle
    <2> SUFFICES ASSUME Inv PROVE OncePerCycle
      OBVIOUS
    <2>1. \A m \in Modules : runs[m] <= cycle
      <3>1. cycle \in Nat /\ cycle - 1 <= cycle
        BY DEF Inv, TypeOK
      <3>2. \A m \in Modules : Stamp(m) <= cycle
        <4> TAKE m \in Modules
        <4>1. Stamp(m) = cycle \/ Stamp(m) = cycle - 1
          BY Zenon DEF Stamp
        <4>2. cycle <= cycle
          BY <3>1
        <4> QED
          BY <3>1, <4>1, <4>2
      <3>3. \A m \in Modules : runs[m] = Stamp(m)
        BY DEF Inv, Stamped
      <3> QED
        BY <3>2, <3>3
    <2>2. CycleOver => \A m \in Modules : runs[m] = cycle
      BY OverMeansProcessed DEF Inv, Stamped, Stamp
    <2> QED
      BY <2>1, <2>2 DEF OncePerCycle
  <1> QED
    BY <1>1, Invariance, PTL

\* process() sees what its sources computed in this cycle (InputsAreCurrent).
THEOREM InputsAlwaysCurrent ==
    ASSUME ConstantsAssumption PROVE Spec => []InputsAreCurrent
  <1>1. Inv => InputsAreCurrent
    <2> SUFFICES ASSUME Inv, AllFetched, NEW k \in DOMAIN InputsOf[Top.module]
                 PROVE  LET i == InputsOf[Top.module][k]
                            s == source[i]
                        IN  IF s = Nil THEN in[i] = Nil
                            ELSE ~threw[i] =>
                                /\ in[i] = out[s]
                                /\ in[i] \in {Nil, IF s \in OnStack THEN cycle - 1
                                                  ELSE cycle}
      BY DEF InputsAreCurrent
    <2> DEFINE m == Top.module
               n == Len(stack)
    <2>1. n \in DOMAIN stack /\ Top = stack[n] /\ Top \in Frames /\ phase = "process"
          /\ DOMAIN stack = 1..n
      BY DEF Inv, TypeOK, PhaseOK, AllFetched, Top
    <2>2. m \in Modules /\ k \in 1..(stack[n].next - 1)
      <3>1. Top.next \in Nat /\ Top.next > Len(InputsOf[m]) /\ m \in Modules
        BY <2>1 DEF AllFetched, Frames
      <3>2. InputsOf[m] \in Seq(Inputs)
        BY <3>1 DEF ConstantsAssumption
      <3> QED
        BY <2>1, <3>1, <3>2
    <2>3. Taken(m, k, n)
      BY <2>1, <2>2 DEF Inv, TakenOK
    <2>4. Source(m, k) \in Modules \union {Nil}
      BY <2>2, SourceType DEF Inv
    <2> HIDE DEF n
    <2>5. ASSUME Source(m, k) # Nil, ~Threw(m, k)
          PROVE  /\ Value(m, k) = out[Source(m, k)]
                 /\ Value(m, k) \in {Nil, IF Source(m, k) \in OnStack THEN cycle - 1
                                          ELSE cycle}
      <3> PICK s \in Modules : s = Source(m, k)
        BY <2>4, <2>5
      <3>1. /\ Value(m, k) = out[s]
            /\ Processed(s) \/ (\E l \in 1..n : stack[l].module = s)
        BY <2>3, <2>5 DEF Taken, Processed
      <3>2. Processed(s) <=> s \notin OnStack
        <4>1. (\E l \in 1..n : stack[l].module = s) => s \in OnStack
          <5> HAVE \E l \in 1..n : stack[l].module = s
          <5> PICK l \in 1..n : stack[l].module = s
            OBVIOUS
          <5>1. l \in DOMAIN stack
            BY <2>1
          <5> QED
            BY <5>1 DEF OnStack
        <4>2. Processed(s) => s \notin OnStack
          BY <2>1 DEF Processed
        <4> QED
          BY <3>1, <4>1, <4>2
      <3>3. out[s] \in {Nil, Stamp(s)}
        BY DEF Inv, Stamped
      <3> QED
        BY <3>1, <3>2, <3>3 DEF Stamp
    <2>6. Source(m, k) = Nil => Value(m, k) = Nil
      BY <2>3 DEF Taken
    <2> QED
      BY <2>5, <2>6 DEF Source, Value, Threw
  <1> QED
    BY <1>1, Invariance, PTL

\* Without feedback, all inputs agree with their sources at the end of a cycle
\* (OrderDoesNotMatter), in whatever order modules were registered.
THEOREM OrderNeverMatters ==
    ASSUME ConstantsAssumption PROVE Spec => []OrderDoesNotMatter
  <1>1. Inv => OrderDoesNotMatter
    <2> SUFFICES ASSUME Inv, CycleOver, NoFeedback,
                        NEW m \in Modules, NEW k \in DOMAIN InputsOf[m],
                        Source(m, k) # Nil, ~Threw(m, k)
                 PROVE  /\ Value(m, k) = out[Source(m, k)]
                        /\ Value(m, k) \in {Nil, cycle}
      BY DEF OrderDoesNotMatter, Source, Value, Threw
    <2>1. \A x \in Modules : Processed(x)
      BY OverMeansProcessed
    <2>2. Settled(m)
      BY <2>1 DEF Inv, SettledOK, CycleOver
    <2> PICK s \in Modules : s = Source(m, k)
      BY SourceType DEF Inv
    <2>3. Value(m, k) = out[s]
      BY <2>2 DEF Settled
    <2>4. out[s] \in {Nil, cycle}
      BY <2>1 DEF Inv, Stamped, Stamp
    <2> QED
      BY <2>3, <2>4
  <1> QED
    BY <1>1, Invariance, PTL

\* nil_by_fetch_exception() is only ever true of a nil input, after an exception
\* (FailedIsNil).
THEOREM FailedAlwaysNil == ASSUME ConstantsAssumption PROVE Spec => []FailedIsNil
  <1>1. Inv => FailedIsNil
    BY DEF Inv
  <1> QED
    BY <1>1, Invariance, PTL
-----------------------------------------------------------------------------
(***************************************************************************)
(* A cycle ends.  Its steps are finitely many (StepsAreFinite), and each     *)
(* step takes some off what remains and puts none back: what is left of a    *)
(* module that has not been called is all of it, so a call adds nothing.     *)
(***************************************************************************)
LEMMA LengthType ==
    ASSUME ConstantsAssumption, NEW who \in Modules \union {Nil}
    PROVE  Length(who) \in Nat
  <1>1. CASE who = Nil
    BY <1>1 DEF Length, ConstantsAssumption
  <1>2. CASE who \in Modules /\ who # Nil
    <2>1. InputsOf[who] \in Seq(Inputs)
      BY <1>2 DEF ConstantsAssumption
    <2> QED
      BY <1>2, <2>1 DEF Length
  <1> QED
    BY <1>1, <1>2

\* A finite set's image under a function, and the union of one finite set for each
\* member.
LEMMA ImageIsFinite ==
    ASSUME NEW S, IsFiniteSet(S), NEW f, DOMAIN f = S
    PROVE  IsFiniteSet({f[x] : x \in S})
  <1> DEFINE T == {f[x] : x \in S}
             g == [x \in S |-> f[x]]
  <1>1. g \in Surjection(S, T)
    <2>1. g \in [S -> T]
      OBVIOUS
    <2>2. \A t \in T : \E x \in S : g[x] = t
      OBVIOUS
    <2> QED
      BY <2>1, <2>2 DEF Surjection
  <1> QED
    BY <1>1, FS_Surjection

\* A set of triples is finite when its three sets are.
LEMMA TriplesAreFinite ==
    ASSUME NEW A, NEW B, NEW C, IsFiniteSet(A), IsFiniteSet(B), IsFiniteSet(C)
    PROVE  IsFiniteSet(A \X B \X C)
  <1> DEFINE P == (A \X B) \X C
             T == A \X B \X C
             f == [p \in P |-> <<p[1][1], p[1][2], p[2]>>]
  <1>1. IsFiniteSet(A \X B)
    BY FS_Product
  <1>2. IsFiniteSet(P)
    BY <1>1, FS_Product
  <1>3. f \in Surjection(P, T)
    <2>1. ASSUME NEW p \in P PROVE f[p] \in T
      OBVIOUS
    <2>2. ASSUME NEW t \in T PROVE \E p \in P : f[p] = t
      <3>1. PICK x \in A, y \in B, z \in C : t = <<x, y, z>>
        OBVIOUS
      <3>2. <<<<x, y>>, z>> \in P /\ f[<<<<x, y>>, z>>] = t
        BY <3>1
      <3> QED
        BY <3>2
    <2> QED
      BY <2>1, <2>2 DEF Surjection
  <1> QED
    BY <1>2, <1>3, FS_Surjection

LEMMA ModulesAreFinite == ASSUME ConstantsAssumption PROVE IsFiniteSet(Modules)
  <1>1. Len(Order) \in Nat /\ DOMAIN Order = 1..Len(Order)
    BY DEF ConstantsAssumption
  <1>2. IsFiniteSet(DOMAIN Order)
    BY <1>1, FS_Interval
  <1>3. IsFiniteSet({Order[k] : k \in DOMAIN Order})
    BY <1>2, ImageIsFinite
  <1>4. Modules \subseteq {Order[k] : k \in DOMAIN Order}
    BY DEF ConstantsAssumption
  <1> QED
    BY <1>3, <1>4, FS_Subset

LEMMA StepsAreFinite == ASSUME ConstantsAssumption PROVE IsFiniteSet(Steps)
  <1> DEFINE Who == Modules \union {Nil}
             f == [who \in Who |-> {who} \X (1..(Length(who) + 1)) \X BOOLEAN]
  <1>1. IsFiniteSet(Who)
    <2>1. IsFiniteSet(Modules) /\ IsFiniteSet({Nil})
      BY ModulesAreFinite, FS_Singleton
    <2> QED
      BY <2>1, FS_Union
  <1>2. ASSUME NEW who \in Who PROVE IsFiniteSet(f[who])
    <2>1. Length(who) + 1 \in Int /\ 1 \in Int
      BY LengthType
    <2>2. IsFiniteSet(1..(Length(who) + 1))
      BY <2>1, FS_Interval
    <2>3. IsFiniteSet({who}) /\ IsFiniteSet({TRUE}) /\ IsFiniteSet({FALSE})
      BY FS_Singleton
    <2>4. IsFiniteSet({TRUE} \union {FALSE})
      BY <2>3, FS_Union
    <2>5. IsFiniteSet(BOOLEAN)
      <3>1. BOOLEAN = {TRUE} \union {FALSE}
        OBVIOUS
      <3> QED
        BY <2>4, <3>1
    <2>6. IsFiniteSet({who} \X (1..(Length(who) + 1)) \X BOOLEAN)
      BY <2>2, <2>3, <2>5, TriplesAreFinite
    <2> QED
      BY <2>6
  <1>3. DOMAIN f = Who
    OBVIOUS
  <1>4. Steps = UNION {f[who] : who \in Who}
    <2>1. \A who \in Who : f[who] = {who} \X (1..(Length(who) + 1)) \X BOOLEAN
      OBVIOUS
    <2>2. Steps = UNION {{who} \X (1..(Length(who) + 1)) \X BOOLEAN : who \in Who}
      BY DEF Steps
    <2> HIDE DEF f, Who
    <2>3. \A s : s \in Steps <=> \E who \in Who : s \in f[who]
      BY <2>1, <2>2
    <2>4. \A s : s \in UNION {f[who] : who \in Who} <=> \E who \in Who : s \in f[who]
      OBVIOUS
    <2> QED
      BY <2>3, <2>4, Zenon
  <1> HIDE DEF f, Who
  <1>5. IsFiniteSet({f[who] : who \in Who})
    BY <1>1, <1>3, ImageIsFinite
  <1>6. \A T \in {f[who] : who \in Who} : IsFiniteSet(T)
    BY <1>2
  <1> QED
    BY <1>4, <1>5, <1>6, FS_UNION

\* What remains gets less when no step comes back and some step does not remain.
StepType(who, k, second) ==
    who \in Modules \union {Nil} /\ k \in 1..(Length(who) + 1) /\ second \in BOOLEAN

LEMMA LessRemains ==
    ASSUME \A who, k, second : StepType(who, k, second) /\ HasLeft(who, k, second)'
               => HasLeft(who, k, second),
           NEW who, NEW k, NEW second, StepType(who, k, second),
           HasLeft(who, k, second), ~HasLeft(who, k, second)'
    PROVE  Remaining' \subseteq Remaining /\ Remaining' # Remaining
  <1>1. \A s \in Steps : StepType(s[1], s[2], s[3])
    BY DEF Steps, StepType
  <1>2. Remaining' \subseteq Remaining
    BY <1>1 DEF Remaining
  <1>3. <<who, k, second>> \in Steps
    BY DEF Steps, StepType
  <1>4. <<who, k, second>> \in Remaining /\ <<who, k, second>> \notin Remaining'
    BY <1>3 DEF Remaining
  <1> QED
    BY <1>2, <1>4

\* The loop goes to its next module, or to the next round.
LEMMA LoopAdvances ==
    ASSUME ConstantsAssumption, Inv,
           \A m \in Modules, k \in Nat, second \in BOOLEAN :
               ModuleHasLeft(m, k, second)' => ModuleHasLeft(m, k, second),
           \/ /\ phase \in {"communicate", "process"} /\ phase' = phase
              /\ position \in 1..Len(Order) /\ position' = position + 1
           \/ /\ phase = "communicate" /\ position = Len(Order) + 1
              /\ phase' = "process" /\ position' = 1
           \/ /\ phase = "process" /\ position = Len(Order) + 1
              /\ phase' = "idle" /\ position' = position
    PROVE  Remaining' \subseteq Remaining /\ Remaining' # Remaining
  <1>1. Len(Order) \in Nat /\ position \in 1..(Len(Order) + 1) /\ Nil \notin Modules
    BY DEF ConstantsAssumption, Inv, TypeOK
  <1>2. ASSUME NEW k \in Nat, NEW second \in BOOLEAN, LoopHasLeft(k, second)'
        PROVE  LoopHasLeft(k, second)
    BY <1>1, <1>2 DEF LoopHasLeft
  <1>3. ASSUME NEW who, NEW k, NEW second, StepType(who, k, second),
               HasLeft(who, k, second)'
        PROVE  HasLeft(who, k, second)
    <2>1. k \in Nat /\ second \in BOOLEAN
      BY <1>3, LengthType DEF StepType
    <2>2. CASE who = Nil
      BY <1>2, <1>3, <2>1, <2>2 DEF HasLeft
    <2>3. CASE who \in Modules
      BY <1>1, <1>3, <2>1, <2>3 DEF HasLeft
    <2> QED
      BY <1>3, <2>2, <2>3 DEF StepType
  <1> PICK n \in 1..(Len(Order) + 1), second \in BOOLEAN :
           n = position /\ (second <=> phase = "process")
    BY <1>1
  <1>4. StepType(Nil, n, second)
    BY DEF StepType, Length
  <1>5. LoopHasLeft(n, second) /\ ~LoopHasLeft(n, second)'
    BY <1>1 DEF LoopHasLeft
  <1>6. HasLeft(Nil, n, second) /\ ~HasLeft(Nil, n, second)'
    BY <1>5 DEF HasLeft
  <1> QED
    BY <1>3, <1>4, <1>6, LessRemains

\* Only the call on top changes, and has less left.
LEMMA TopAdvances ==
    ASSUME ConstantsAssumption, Inv, Fetching,
           NEW f \in Frames, f.module = Top.module, stack' = WithTop(f),
           UNCHANGED <<phase, position, cached>>,
           \A k \in Nat, second \in BOOLEAN :
               CallHasLeft(f, k, second) => CallHasLeft(Top, k, second),
           ~CallHasLeft(f, Top.next, TRUE)
    PROVE  Remaining' \subseteq Remaining /\ Remaining' # Remaining
  <1> PICK n \in Nat \ {0} : n = Len(stack)
    BY TheTop
  <1>1. /\ n \in DOMAIN stack /\ Top = stack[n] /\ Top.module \in Modules
        /\ Top.next \in DOMAIN InputsOf[Top.module] /\ Top.next \in Nat
        /\ stack # <<>> /\ stack \in Seq(Frames) /\ DOMAIN stack = 1..n
    BY TheTop
  <1>2. /\ DOMAIN stack' = 1..n /\ stack'[n] = f
        /\ \A d \in 1..n : d = n \/ stack'[d] = stack[d]
    <2>1. /\ WithTop(f) \in Seq(Frames) /\ Len(WithTop(f)) = n /\ WithTop(f)[n] = f
          /\ \A d \in 1..(n - 1) : WithTop(f)[d] = stack[d]
      BY <1>1, WithTopFacts
    <2>2. \A d \in 1..n : d = n \/ d \in 1..(n - 1)
      OBVIOUS
    <2> QED
      BY <2>1, <2>2
  <1>3. ASSUME NEW m \in Modules, NEW k \in Nat, NEW second \in BOOLEAN,
               ModuleHasLeft(m, k, second)'
        PROVE  ModuleHasLeft(m, k, second)
    <2>1. CASE ~cached[m]
      BY <2>1 DEF ModuleHasLeft
    <2>2. CASE cached[m]
      <3> PICK d \in DOMAIN stack' :
              stack'[d].module = m /\ CallHasLeft(stack'[d], k, second)
        BY <1>3, <2>2 DEF ModuleHasLeft
      <3>1. d \in DOMAIN stack /\ stack[d].module = m
        BY <1>1, <1>2
      <3>2. CASE d = n
        <4>1. CallHasLeft(f, k, second)
          BY <1>2, <3>2
        <4>2. CallHasLeft(Top, k, second)
          BY <4>1
        <4> QED
          BY <1>1, <3>1, <3>2, <4>2 DEF ModuleHasLeft
      <3>3. CASE d # n
        BY <1>1, <1>2, <3>1, <3>3 DEF ModuleHasLeft
      <3> QED
        BY <3>2, <3>3
    <2> QED
      BY <2>1, <2>2
  <1>4. ASSUME NEW who, NEW k, NEW second, StepType(who, k, second),
               HasLeft(who, k, second)'
        PROVE  HasLeft(who, k, second)
    <2>1. k \in Nat /\ second \in BOOLEAN
      BY <1>4, LengthType DEF StepType
    <2>2. CASE who = Nil
      BY <1>4, <2>2 DEF HasLeft, LoopHasLeft
    <2>3. CASE who \in Modules
      BY <1>3, <1>4, <2>1, <2>3 DEF HasLeft, ConstantsAssumption
    <2> QED
      BY <1>4, <2>2, <2>3 DEF StepType
  <1> PICK m \in Modules, k \in Nat : m = Top.module /\ k = Top.next
    BY <1>1
  <1>5. StepType(m, k, TRUE)
    <2>1. InputsOf[m] \in Seq(Inputs) /\ m # Nil
      BY DEF ConstantsAssumption
    <2>2. Length(m) = Len(InputsOf[m])
      BY <2>1 DEF Length
    <2> QED
      BY <1>1, <2>1, <2>2 DEF StepType
  <1>6. ModuleHasLeft(m, k, TRUE)
    BY <1>1 DEF ModuleHasLeft, CallHasLeft
  <1>7. ~ModuleHasLeft(m, k, TRUE)'
    <2>1. cached'[m]
      BY <1>1 DEF Inv, StackCached
    <2>2. ASSUME NEW d \in DOMAIN stack', stack'[d].module = m PROVE d = n
      BY <1>1, <1>2, <2>2 DEF Inv, NoReentry
    <2>3. ASSUME NEW d \in DOMAIN stack', stack'[d].module = m
          PROVE  ~CallHasLeft(stack'[d], k, TRUE)
      <3>1. stack'[d] = f
        BY <1>2, <2>2, <2>3
      <3> QED
        BY <3>1
    <2> QED
      BY <2>1, <2>3 DEF ModuleHasLeft
  <1>8. HasLeft(m, k, TRUE) /\ ~HasLeft(m, k, TRUE)'
    BY <1>6, <1>7 DEF HasLeft, ConstantsAssumption
  <1> QED
    BY <1>4, <1>5, <1>8, LessRemains

\* A call adds nothing to what is left of the modules.
LEMMA CallAddsNothing ==
    ASSUME ConstantsAssumption, Inv, NEW s \in Modules, NEW calls \in Seq(Frames),
           Call(s, calls), Len(calls) = Len(stack),
           \A d \in DOMAIN stack : calls[d].module = stack[d].module,
           NEW m \in Modules, NEW k \in Nat, NEW second \in BOOLEAN,
           \A d \in DOMAIN stack : CallHasLeft(calls[d], k, second)
               => CallHasLeft(stack[d], k, second),
           ModuleHasLeft(m, k, second)'
    PROVE  ModuleHasLeft(m, k, second)
  <1>1. DOMAIN stack = 1..Len(stack) /\ DOMAIN calls = DOMAIN stack /\ Len(stack) \in Nat
    BY DEF Inv, TypeOK
  <1>2. CASE ~cached[m]
    BY <1>2 DEF ModuleHasLeft
  <1>3. CASE cached[m]
    <2>1. cached'[m]
      <3>1. cached' = cached \/ cached' = [cached EXCEPT ![s] = TRUE]
        BY DEF Call
      <3>2. cached \in [Modules -> BOOLEAN]
        BY DEF Inv, TypeOK
      <3>3. [cached EXCEPT ![s] = TRUE][m]
        <4>1. CASE m = s
          BY <3>2, <4>1, Zenon
        <4>2. CASE m # s
          BY <1>3, <3>2, <4>2, Zenon
        <4> QED
          BY <4>1, <4>2
      <3> QED
        BY <1>3, <3>1, <3>3, Zenon
    <2> PICK d \in DOMAIN stack' :
            stack'[d].module = m /\ CallHasLeft(stack'[d], k, second)
      BY <2>1 DEF ModuleHasLeft
    <2>2. d \in DOMAIN stack /\ stack'[d] = calls[d]
      <3>1. CASE cached[s]
        BY <1>1, <3>1 DEF Call
      <3>2. CASE ~cached[s]
        <4> DEFINE f == Frame(s, 1, FALSE)
        <4>1. f \in Frames /\ f.module = s
          BY DEF Frame, Frames
        <4>2. stack' = Append(calls, f)
          BY <3>2 DEF Call
        <4> HIDE DEF f
        <4>3. /\ Append(calls, f) \in Seq(Frames) /\ Len(Append(calls, f)) = Len(calls) + 1
              /\ Append(calls, f)[Len(calls) + 1] = f
              /\ \A j \in 1..Len(calls) : Append(calls, f)[j] = calls[j]
          BY <4>1, PushFacts
        <4>4. d \in 1..(Len(calls) + 1)
          BY <4>2, <4>3
        <4>5. d # Len(calls) + 1
          BY <1>3, <3>2, <4>1, <4>2, <4>3
        <4> QED
          BY <1>1, <4>2, <4>3, <4>4, <4>5
      <3> QED
        BY <3>1, <3>2
    <2>3. stack[d].module = m /\ CallHasLeft(stack[d], k, second)
      BY <2>2
    <2> QED
      BY <2>2, <2>3 DEF ModuleHasLeft
  <1> QED
    BY <1>2, <1>3

LEMMA NextModuleAdvances ==
    ASSUME ConstantsAssumption, Inv, NextModule
    PROVE  Remaining' \subseteq Remaining /\ Remaining' # Remaining
  <1>1. /\ phase = "process" /\ phase' = phase /\ stack = <<>>
        /\ position \in 1..Len(Order) /\ position' = position + 1
    BY DEF NextModule, Inv, TypeOK, ConstantsAssumption
  <1> PICK s \in Modules : s = Order[position]
    BY <1>1 DEF ConstantsAssumption
  <1>2. <<>> \in Seq(Frames) /\ Len(<<>>) = Len(stack)
    BY <1>1
  <1>3. Call(s, <<>>)
    BY DEF NextModule
  <1> PICK calls \in Seq(Frames) : Call(s, calls) /\ Len(calls) = Len(stack)
    BY <1>2, <1>3, Zenon
  <1>4. DOMAIN stack = {}
    BY <1>1
  <1>5. ASSUME NEW m \in Modules, NEW k \in Nat, NEW second \in BOOLEAN,
               ModuleHasLeft(m, k, second)'
        PROVE  ModuleHasLeft(m, k, second)
    <2>1. \A d \in DOMAIN stack : calls[d].module = stack[d].module
      BY <1>4
    <2>2. \A d \in DOMAIN stack : CallHasLeft(calls[d], k, second)
              => CallHasLeft(stack[d], k, second)
      BY <1>4
    <2> QED
      BY <1>5, <2>1, <2>2, CallAddsNothing
  <1> QED
    BY <1>1, <1>5, LoopAdvances

LEMMA AskAdvances ==
    ASSUME ConstantsAssumption, Inv, Ask
    PROVE  Remaining' \subseteq Remaining /\ Remaining' # Remaining
  <1> DEFINE calls == WithTop(Asking)
  <1>1. Fetching /\ ~Top.asked /\ source[Input] # Nil /\ UNCHANGED <<phase, position>>
    BY DEF Ask, loopVars
  <1> PICK n \in Nat \ {0} : n = Len(stack)
    BY <1>1, TheTop
  <1>2. /\ n \in DOMAIN stack /\ Top = stack[n] /\ Top \in Frames
        /\ Top.module \in Modules /\ Top.next \in Nat
        /\ Top.next \in DOMAIN InputsOf[Top.module]
        /\ source[Input] \in Modules \union {Nil}
        /\ stack # <<>> /\ stack \in Seq(Frames) /\ DOMAIN stack = 1..n
    BY <1>1, TheTop
  <1> PICK s \in Modules : s = source[Input]
    BY <1>1, <1>2
  <1>3. /\ Asking \in Frames /\ Asking.module = Top.module /\ Asking.next = Top.next
        /\ Asking.asked = TRUE
    BY <1>2, FrameFacts
  <1>4. /\ calls \in Seq(Frames) /\ Len(calls) = n /\ calls[n] = Asking
        /\ \A d \in 1..n : d = n \/ calls[d] = stack[d]
    <2>1. /\ WithTop(Asking) \in Seq(Frames) /\ Len(WithTop(Asking)) = n
          /\ WithTop(Asking)[n] = Asking
          /\ \A d \in 1..(n - 1) : WithTop(Asking)[d] = stack[d]
      BY <1>2, <1>3, WithTopFacts
    <2>2. \A d \in 1..n : d = n \/ d \in 1..(n - 1)
      OBVIOUS
    <2> QED
      BY <2>1, <2>2
  <1>5. Call(s, calls)
    <2>1. CASE fetched[s] < cycle
      BY <2>1 DEF Ask
    <2>2. CASE ~(fetched[s] < cycle)
      <3>1. fetched[s] = cycle
        BY <2>2 DEF Inv, TypeOK
      <3>2. phase = "process"
        BY <1>1, TheTop
      <3>3. cached[s]
        BY <3>1, <3>2 DEF Inv, FetchedOK
      <3> QED
        BY <2>2, <3>3 DEF Ask, Call
    <2> QED
      BY <2>1, <2>2
  <1> HIDE DEF calls
  <1>6. ASSUME NEW m \in Modules, NEW k \in Nat, NEW second \in BOOLEAN,
               ModuleHasLeft(m, k, second)'
        PROVE  ModuleHasLeft(m, k, second)
    <2>1. \A d \in DOMAIN stack : calls[d].module = stack[d].module
      BY <1>2, <1>3, <1>4
    <2>2. \A d \in DOMAIN stack : CallHasLeft(calls[d], k, second)
              => CallHasLeft(stack[d], k, second)
      BY <1>1, <1>2, <1>3, <1>4 DEF CallHasLeft
    <2> QED
      BY <1>4, <1>5, <1>6, <2>1, <2>2, CallAddsNothing
  <1>7. ASSUME NEW who, NEW k, NEW second, StepType(who, k, second),
               HasLeft(who, k, second)'
        PROVE  HasLeft(who, k, second)
    <2>1. k \in Nat /\ second \in BOOLEAN
      BY <1>7, LengthType DEF StepType
    <2>2. CASE who = Nil
      BY <1>1, <1>7, <2>2 DEF HasLeft, LoopHasLeft
    <2>3. CASE who \in Modules
      BY <1>6, <1>7, <2>1, <2>3 DEF HasLeft, ConstantsAssumption
    <2> QED
      BY <1>7, <2>2, <2>3 DEF StepType
  <1> PICK m \in Modules, k \in Nat : m = Top.module /\ k = Top.next
    BY <1>2
  <1>8. StepType(m, k, FALSE)
    <2>1. InputsOf[m] \in Seq(Inputs) /\ m # Nil
      BY DEF ConstantsAssumption
    <2>2. Length(m) = Len(InputsOf[m])
      BY <2>1 DEF Length
    <2> QED
      BY <1>2, <2>1, <2>2 DEF StepType
  <1>9. ModuleHasLeft(m, k, FALSE)
    BY <1>1, <1>2 DEF ModuleHasLeft, CallHasLeft
  <1>a. cached[m]
    BY <1>2 DEF Inv, StackCached
  <1>b. ASSUME NEW d \in 1..n, calls[d].module = m PROVE d = n
    <2>1. calls[d].module = stack[d].module
      BY <1>2, <1>3, <1>4
    <2>2. stack[d].module = stack[n].module /\ d \in DOMAIN stack
      BY <1>2, <1>b, <2>1
    <2> QED
      BY <1>2, <2>2 DEF Inv, NoReentry
  <1>d. ~ModuleHasLeft(m, k, FALSE)'
    <2>1. CASE cached[s]
      <3>1. stack' = calls /\ cached' = cached
        BY <1>5, <2>1 DEF Call
      <3>2. ~CallHasLeft(Asking, k, FALSE)
        BY <1>3 DEF CallHasLeft
      <3>3. DOMAIN stack' = 1..n
        BY <1>4, <3>1
      <3> QED
        BY <1>4, <1>a, <1>b, <3>1, <3>2, <3>3 DEF ModuleHasLeft
    <2>2. CASE ~cached[s]
      <3> DEFINE f == Frame(s, 1, FALSE)
      <3>1. f \in Frames /\ f.module = s /\ s # m
        BY <1>a, <2>2 DEF Frame, Frames
      <3>2. stack' = Append(calls, f) /\ cached' = [cached EXCEPT ![s] = TRUE]
        BY <1>5, <2>2 DEF Call
      <3> HIDE DEF f
      <3>3. /\ Append(calls, f) \in Seq(Frames) /\ Len(Append(calls, f)) = n + 1
            /\ Append(calls, f)[n + 1] = f
            /\ \A j \in 1..n : Append(calls, f)[j] = calls[j]
        BY <1>4, <3>1, PushFacts
      <3>4. cached'[m]
        <4>1. cached \in [Modules -> BOOLEAN]
          BY DEF Inv, TypeOK
        <4> QED
          BY <1>a, <3>1, <3>2, <4>1, Zenon
      <3>5. ASSUME NEW d \in DOMAIN stack', stack'[d].module = m
            PROVE  stack'[d] = Asking
        <4>1. d \in 1..(n + 1) /\ d # n + 1
          BY <3>1, <3>2, <3>3, <3>5
        <4>2. d \in 1..n
          <5>1. \A x \in 1..(n + 1) : x # n + 1 => x \in 1..n
            OBVIOUS
          <5> QED
            BY <4>1, <5>1, Zenon
        <4>3. stack'[d] = calls[d]
          BY <3>2, <3>3, <4>2
        <4>4. d = n
          BY <1>b, <3>5, <4>2, <4>3
        <4> QED
          BY <1>4, <4>3, <4>4
      <3>6. ~CallHasLeft(Asking, k, FALSE)
        BY <1>3 DEF CallHasLeft
      <3> QED
        BY <3>4, <3>5, <3>6 DEF ModuleHasLeft
    <2> QED
      BY <2>1, <2>2
  <1>e. HasLeft(m, k, FALSE) /\ ~HasLeft(m, k, FALSE)'
    BY <1>9, <1>d DEF HasLeft, ConstantsAssumption
  <1> QED
    BY <1>7, <1>8, <1>e, LessRemains

LEMMA ProcessAdvances ==
    ASSUME ConstantsAssumption, Inv, NEW throws \in BOOLEAN, Process(throws)
    PROVE  Remaining' \subseteq Remaining /\ Remaining' # Remaining
  <1>1. AllFetched /\ stack' = Callers /\ UNCHANGED <<phase, position, cached>>
    BY DEF Process, loopVars
  <1>2. stack \in Seq(Frames) /\ stack # <<>>
    BY <1>1 DEF Inv, TypeOK, AllFetched
  <1> PICK n \in Nat \ {0} : n = Len(stack)
    BY <1>2
  <1>3. DOMAIN stack = 1..n /\ n \in DOMAIN stack /\ Top = stack[n] /\ Top \in Frames
    BY <1>2 DEF Top
  <1> PICK m \in Modules, k \in Nat : m = Top.module /\ k = Top.next
    BY <1>3 DEF Frames
  <1>4. \A d \in DOMAIN stack' : d \in DOMAIN stack /\ stack'[d] = stack[d] /\ d # n
    <2>1. /\ Callers \in Seq(Frames) /\ Len(Callers) = n - 1
          /\ \A d \in 1..(n - 1) : Callers[d] = stack[d]
      BY <1>2, CallersFacts
    <2>2. DOMAIN stack' = 1..(n - 1)
      BY <1>1, <2>1
    <2> QED
      BY <1>1, <1>3, <2>1, <2>2
  <1>5. ASSUME NEW who, NEW j, NEW second, StepType(who, j, second),
               HasLeft(who, j, second)'
        PROVE  HasLeft(who, j, second)
    <2>1. CASE who = Nil
      BY <1>1, <1>5, <2>1 DEF HasLeft, LoopHasLeft
    <2>2. CASE who \in Modules
      <3>1. who # Nil
        BY <2>2 DEF ConstantsAssumption
      <3>2. ModuleHasLeft(who, j, second)'
        BY <1>5, <3>1 DEF HasLeft
      <3>3. ModuleHasLeft(who, j, second)
        BY <1>1, <1>4, <3>2 DEF ModuleHasLeft
      <3> QED
        BY <3>1, <3>3 DEF HasLeft
    <2> QED
      BY <1>5, <2>1, <2>2 DEF StepType
  <1>6. StepType(m, k, TRUE)
    <2>1. InputsOf[m] \in Seq(Inputs) /\ m # Nil
      BY DEF ConstantsAssumption
    <2>2. Length(m) = Len(InputsOf[m]) /\ Length(m) \in Nat
      BY <2>1 DEF Length
    <2>3. k <= Length(m) + 1
      BY <1>3, <2>2 DEF Inv, TypeOK
    <2>4. k > Length(m)
      BY <1>1, <2>2 DEF AllFetched
    <2> QED
      BY <2>2, <2>3, <2>4 DEF StepType
  <1>7. ModuleHasLeft(m, k, TRUE)
    BY <1>3 DEF ModuleHasLeft, CallHasLeft
  <1>8. ~ModuleHasLeft(m, k, TRUE)'
    <2>1. cached[m]
      BY <1>3 DEF Inv, StackCached
    <2>2. ASSUME NEW d \in DOMAIN stack' PROVE stack'[d].module # m
      <3>1. d \in DOMAIN stack /\ stack'[d] = stack[d] /\ d # n
        BY <1>4
      <3> QED
        BY <1>3, <3>1 DEF Inv, NoReentry
    <2> QED
      BY <1>1, <2>1, <2>2 DEF ModuleHasLeft
  <1>9. HasLeft(m, k, TRUE) /\ ~HasLeft(m, k, TRUE)'
    BY <1>7, <1>8 DEF HasLeft, ConstantsAssumption
  <1> QED
    BY <1>5, <1>6, <1>9, LessRemains

LEMMA FetchAdvances ==
    ASSUME ConstantsAssumption, Inv, Fetching, stack' = WithTop(Advanced),
           UNCHANGED <<phase, position, cached>>
    PROVE  Remaining' \subseteq Remaining /\ Remaining' # Remaining
  <1>1. Top \in Frames /\ Top.next \in Nat
    BY TheTop
  <1>2. /\ Advanced \in Frames /\ Advanced.module = Top.module
        /\ Advanced.next = Top.next + 1 /\ Advanced.asked = FALSE
    BY <1>1, FrameFacts
  <1>3. \A k \in Nat, second \in BOOLEAN :
            CallHasLeft(Advanced, k, second) => CallHasLeft(Top, k, second)
    BY <1>1, <1>2 DEF CallHasLeft
  <1>4. ~CallHasLeft(Advanced, Top.next, TRUE)
    BY <1>1, <1>2 DEF CallHasLeft
  <1> QED
    BY <1>2, <1>3, <1>4, TopAdvances

LEMMA CycleStepAdvances ==
    ASSUME ConstantsAssumption, Inv, InCycle
    PROVE  Remaining' \subseteq Remaining /\ Remaining' # Remaining
  <1> DEFINE Less == Remaining' \subseteq Remaining /\ Remaining' # Remaining
  <1>1. ASSUME UNCHANGED <<stack, cached>>
        PROVE  \A m \in Modules, k \in Nat, second \in BOOLEAN :
                   ModuleHasLeft(m, k, second)' => ModuleHasLeft(m, k, second)
    BY <1>1 DEF ModuleHasLeft
  <1>2. position \in 1..(Len(Order) + 1) /\ Len(Order) \in Nat
    BY DEF Inv, TypeOK, ConstantsAssumption
  <1>3. ASSUME NEW throws \in BOOLEAN, Communicate(throws) PROVE Less
    <2>1. /\ phase = "communicate" /\ phase' = phase /\ position \in 1..Len(Order)
          /\ position' = position + 1 /\ UNCHANGED <<stack, cached>>
      BY <1>2, <1>3 DEF Communicate
    <2> QED
      BY <1>1, <2>1, LoopAdvances
  <1>4. CASE BeginProcessing
    <2>1. /\ phase = "communicate" /\ phase' = "process" /\ position = Len(Order) + 1
          /\ position' = 1 /\ UNCHANGED <<stack, cached>>
      BY <1>2, <1>4 DEF BeginProcessing
    <2> QED
      BY <1>1, <2>1, LoopAdvances
  <1>5. CASE EndCycle
    <2>1. /\ phase = "process" /\ phase' = "idle" /\ position = Len(Order) + 1
          /\ position' = position /\ UNCHANGED <<stack, cached>>
      BY <1>2, <1>5 DEF EndCycle
    <2> QED
      BY <1>1, <2>1, LoopAdvances
  <1>6. CASE FetchNothing
    BY <1>6, FetchAdvances DEF FetchNothing, loopVars
  <1>7. ASSUME NEW throws \in BOOLEAN, Take(throws) PROVE Less
    BY <1>7, FetchAdvances DEF Take, loopVars
  <1>8. ASSUME NEW throws \in BOOLEAN, Process(throws) PROVE Less
    BY <1>8, ProcessAdvances
  <1> QED
    BY <1>3, <1>4, <1>5, <1>6, <1>7, <1>8, NextModuleAdvances, AskAdvances DEF InCycle

\* Every cycle moves forward (CycleAdvances), from finitely many steps: so the
\* recursion of fetch_and_process() ends, in every wiring and whatever throws.
THEOREM CycleTerminates ==
    ASSUME ConstantsAssumption PROVE IsFiniteSet(Steps) /\ (Spec => CycleAdvances)
  <1>1. ASSUME Inv, [Next]_vars
        PROVE  [phase # "idle" => Remaining' \subseteq Remaining
                                      /\ Remaining' # Remaining]_vars
    <2>1. CASE InCycle
      BY <1>1, <2>1, CycleStepAdvances
    <2>2. CASE phase = "idle" \/ UNCHANGED vars
      BY <2>2
    <2> QED
      BY <1>1, <2>1, <2>2 DEF Next, BeginCycle, SetPaused, Connect
  <1>2. Spec => CycleAdvances
    BY <1>1, Invariance, PTL DEF Spec, CycleAdvances
  <1> QED
    BY <1>2, StepsAreFinite
=============================================================================
