----------------------------- MODULE ProcessingLoop -----------------------------
(***************************************************************************)
(* A processing loop and the modules and sockets it drives                  *)
(* (xefis/core/processing_loop.cc, module.cc, sockets/).                     *)
(*                                                                         *)
(* Once per cycle every module's process() is to compute its output from its *)
(* inputs.  Inputs are fetched from the sockets they are connected to, and   *)
(* fetching from a module's output first makes that module process: the      *)
(* loop goes through the modules in the order they were registered, and      *)
(* dependencies are processed by recursion.  The recursion is the variable   *)
(* stack here, one frame for each fetch_and_process() that has not returned. *)
(*                                                                         *)
(* A module has one output socket.  An input socket is connected to an       *)
(* output directly or through a filter, a socket of its own that applies a   *)
(* transform function, which may throw.  A value stands for the cycle in     *)
(* which process() computed it.                                              *)
(***************************************************************************)
EXTENDS Integers, Sequences

CONSTANTS
    Modules,        \* the modules registered with the loop
    Order,          \* ... in the order of registration, ProcessingLoop::_modules
    Inputs,         \* the modules' input sockets
    InputsOf,       \* those of each module, Module::_registered_input_sockets
    Transformed,    \* the inputs with a filter
    Reconnected,    \* the inputs that are connected anew between cycles
    Throwing,       \* the modules whose communicate() and process() may throw
    Nil,            \* xf::nil, or no data source
    MaxCycles       \* bound: the cycles considered

ASSUME ConstantsAssumption ==
    /\ Order \in Seq(Modules)
    /\ \A m \in Modules : \E k \in DOMAIN Order : Order[k] = m
    /\ InputsOf \in [Modules -> Seq(Inputs)]
    /\ \A m, n \in Modules : \A j \in DOMAIN InputsOf[m], k \in DOMAIN InputsOf[n] :
          InputsOf[m][j] = InputsOf[n][k] => m = n /\ j = k
    /\ Transformed \subseteq Inputs /\ Reconnected \subseteq Inputs
    /\ Throwing \subseteq Modules
    /\ Nil \notin Modules /\ Nil \notin Nat
    /\ MaxCycles \in Nat

VARIABLES
    phase,      \* what execute_cycle() is doing
    position,   \* the next module in Order
    stack,      \* the calls of fetch_and_process() in progress
    cycle,      \* number of the current or last cycle
    paused,     \* ProcessingLoop::_paused
    cached,     \* Module::_cached
    source,     \* what each input is connected to
    fetched,    \* _fetched_cycle_number of each module's output socket
    in, out,    \* the sockets' values
    filtered,   \* the value of each filter
    failed,     \* nil_by_fetch_exception() of each input
    threw,      \* history: the transform threw when the input was fetched last
    runs        \* history: how often each module has been processed

loopVars == <<phase, position, cycle, paused>>
inputVars == <<in, filtered, failed, threw>>
vars == <<loopVars, stack, cached, source, fetched, inputVars, out, runs>>

\* Operators named Mut... are the defects the properties are tested with; nothing
\* uses them.

-----------------------------------------------------------------------------
\* The call in progress: the input it fetches next, and whether it has asked the
\* input's source for its value.
Frame(m, next, asked) == [module |-> m, next |-> next, asked |-> asked]
Top == stack[Len(stack)]
Callers == SubSeq(stack, 1, Len(stack) - 1)
WithTop(frame) == Append(Callers, frame)
Asking == Frame(Top.module, Top.next, TRUE)
Advanced == Frame(Top.module, Top.next + 1, FALSE)
Input == InputsOf[Top.module][Top.next]
OnStack == {stack[k].module : k \in DOMAIN stack}

Fetching == stack # <<>> /\ Top.next <= Len(InputsOf[Top.module])
AllFetched == stack # <<>> /\ Top.next > Len(InputsOf[Top.module])

\* Module::ProcessingLoopAPI::fetch_and_process(), called by the last of calls.
MutCallAgain(m, calls) ==
    cached' = [cached EXCEPT ![m] = TRUE] /\ stack' = Append(calls, Frame(m, 1, FALSE))
Call(m, calls) ==
    IF cached[m] THEN stack' = calls /\ UNCHANGED cached
    ELSE cached' = [cached EXCEPT ![m] = TRUE] /\ stack' = Append(calls, Frame(m, 1, FALSE))

\* execute_cycle() up to reset_cache(); called by a timer or by advance().
MutBeginWithoutReset ==
    /\ phase = "idle" /\ ~paused /\ cycle < MaxCycles
    /\ cycle' = cycle + 1
    /\ phase' = "communicate" /\ position' = 1
    /\ UNCHANGED <<stack, cached, paused, source, fetched, inputVars, out, runs>>
BeginCycle ==
    /\ phase = "idle" /\ ~paused /\ cycle < MaxCycles
    /\ cycle' = cycle + 1
    /\ cached' = [m \in Modules |-> FALSE]
    /\ phase' = "communicate" /\ position' = 1
    /\ UNCHANGED <<stack, paused, source, fetched, inputVars, out, runs>>

\* The next module's communicate(); handle_exception() sets its outputs to nil.
Communicate(throws) ==
    /\ phase = "communicate" /\ position <= Len(Order)
    /\ throws => Order[position] \in Throwing
    /\ out' = IF throws THEN [out EXCEPT ![Order[position]] = Nil] ELSE out
    /\ position' = position + 1
    /\ UNCHANGED <<phase, cycle, paused, stack, cached, source, fetched, inputVars, runs>>

BeginProcessing ==
    /\ phase = "communicate" /\ position > Len(Order)
    /\ phase' = "process" /\ position' = 1
    /\ UNCHANGED <<cycle, paused, stack, cached, source, fetched, inputVars, out, runs>>

\* The loop calls fetch_and_process() of the next module.
NextModule ==
    /\ phase = "process" /\ stack = <<>> /\ position <= Len(Order)
    /\ position' = position + 1
    /\ Call(Order[position], <<>>)
    /\ UNCHANGED <<phase, cycle, paused, source, fetched, inputVars, out, runs>>

\* Whether input i is nil because of an exception, and whether there was one.
SetFailed(i, isFailed, hasThrown) ==
    /\ failed' = [failed EXCEPT ![i] = isFailed]
    /\ threw' = [threw EXCEPT ![i] = hasThrown]

\* An input without data source becomes nil.
FetchNothing ==
    /\ Fetching /\ source[Input] = Nil
    /\ in' = [in EXCEPT ![Input] = Nil]
    /\ SetFailed(Input, FALSE, FALSE)
    /\ stack' = WithTop(Advanced)
    /\ UNCHANGED <<loopVars, cached, source, fetched, filtered, out, runs>>

\* An input asks its source, an output socket, to be up to date: BasicSocket::fetch()
\* and ModuleOut::do_fetch().
MutAskNobody ==
    /\ Fetching /\ ~Top.asked /\ source[Input] # Nil
    /\ SetFailed(Input, FALSE, FALSE)
    /\ stack' = WithTop(Asking)
    /\ UNCHANGED <<loopVars, cached, source, fetched, in, filtered, out, runs>>
Ask ==
    /\ Fetching /\ ~Top.asked /\ source[Input] # Nil
    /\ SetFailed(Input, FALSE, FALSE)
    /\ LET s == source[Input]
           calls == WithTop(Asking)
       IN  IF fetched[s] < cycle
           THEN fetched' = [fetched EXCEPT ![s] = cycle] /\ Call(s, calls)
           ELSE stack' = calls /\ UNCHANGED <<fetched, cached>>
    /\ UNCHANGED <<loopVars, source, in, filtered, out, runs>>

\* The source has returned and the input takes its value.  When the transform
\* throws, the filter stays as it is and the input takes what it holds; it learns
\* of the exception only if that is nil.
TakenValue(throws) == IF throws THEN filtered[Input] ELSE out[source[Input]]
SetInput(throws) ==
    /\ in' = [in EXCEPT ![Input] = TakenValue(throws)]
    /\ filtered' = [i \in Transformed |-> IF i = Input THEN in'[i] ELSE filtered[i]]
    /\ SetFailed(Input, throws /\ TakenValue(throws) = Nil, throws)
MutTakeAgain(throws) ==
    /\ Fetching /\ Top.asked /\ (throws => Input \in Transformed)
    /\ SetInput(throws)
    /\ stack' = WithTop(IF throws THEN Frame(Top.module, Top.next, FALSE) ELSE Advanced)
    /\ UNCHANGED <<loopVars, cached, source, fetched, out, runs>>
Take(throws) ==
    /\ Fetching /\ Top.asked /\ (throws => Input \in Transformed)
    /\ SetInput(throws)
    /\ stack' = WithTop(Advanced)
    /\ UNCHANGED <<loopVars, cached, source, fetched, out, runs>>

\* process(), and handle_exception() when it throws.
MutOutputStays(m, throws) == IF throws THEN out[m] ELSE cycle
Output(m, throws) == IF throws THEN Nil ELSE cycle
Process(throws) ==
    LET m == Top.module IN
    /\ AllFetched /\ (throws => m \in Throwing)
    /\ out' = [out EXCEPT ![m] = Output(m, throws)]
    /\ runs' = [runs EXCEPT ![m] = runs[m] + 1]
    /\ stack' = Callers
    /\ UNCHANGED <<loopVars, cached, source, fetched, inputVars>>

EndCycle ==
    /\ phase = "process" /\ stack = <<>> /\ position > Len(Order)
    /\ phase' = "idle"
    /\ UNCHANGED <<position, cycle, paused, stack, cached, source, fetched, inputVars,
                   out, runs>>

\* Between cycles: the loop is paused or goes on, an input is connected, with a new
\* filter.
SetPaused ==
    /\ phase = "idle"
    /\ paused' = ~paused
    /\ UNCHANGED <<phase, position, cycle, stack, cached, source, fetched, inputVars,
                   out, runs>>
Connect(i, s) ==
    /\ phase = "idle"
    /\ source' = [source EXCEPT ![i] = s]
    /\ filtered' = [x \in Transformed |-> IF x = i THEN Nil ELSE filtered[x]]
    /\ UNCHANGED <<loopVars, stack, cached, fetched, in, failed, threw, out, runs>>

Init ==
    /\ phase = "idle" /\ position = 1 /\ stack = <<>>
    /\ cycle = 0 /\ paused = FALSE
    /\ cached = [m \in Modules |-> FALSE]
    /\ source \in [Inputs -> Modules \union {Nil}]
    /\ fetched = [m \in Modules |-> 0]
    /\ in = [i \in Inputs |-> Nil] /\ out = [m \in Modules |-> Nil]
    /\ filtered = [i \in Transformed |-> Nil]
    /\ failed = [i \in Inputs |-> FALSE] /\ threw = [i \in Inputs |-> FALSE]
    /\ runs = [m \in Modules |-> 0]

\* What a cycle consists of once it has begun.
InCycle ==
    \/ \E throws \in BOOLEAN : Communicate(throws)
    \/ BeginProcessing
    \/ NextModule
    \/ FetchNothing
    \/ Ask
    \/ \E throws \in BOOLEAN : Take(throws)
    \/ \E throws \in BOOLEAN : Process(throws)
    \/ EndCycle

Next ==
    \/ BeginCycle
    \/ InCycle
    \/ SetPaused
    \/ \E i \in Reconnected, s \in Modules \union {Nil} : Connect(i, s)

Spec == Init /\ [][Next]_vars

-----------------------------------------------------------------------------
(***************************************************************************)
(* Properties.                                                             *)
(***************************************************************************)

Frames == [module : Modules, next : Nat \ {0}, asked : BOOLEAN]

TypeOK ==
    /\ phase \in {"idle", "communicate", "process"}
    /\ position \in 1..(Len(Order) + 1)
    /\ stack \in Seq(Frames)
    /\ \A k \in DOMAIN stack : stack[k].next <= Len(InputsOf[stack[k].module]) + 1
    /\ cycle \in Nat /\ paused \in BOOLEAN
    /\ cached \in [Modules -> BOOLEAN]
    /\ source \in [Inputs -> Modules \union {Nil}]
    /\ fetched \in [Modules -> 0..cycle]
    /\ in \in [Inputs -> Nat \union {Nil}]
    /\ out \in [Modules -> Nat \union {Nil}]
    /\ filtered \in [Transformed -> Nat \union {Nil}]
    /\ failed \in [Inputs -> BOOLEAN] /\ threw \in [Inputs -> BOOLEAN]
    /\ runs \in [Modules -> Nat]

\* However the modules are connected, to themselves and in loops too, process()
\* is not entered for a module that is already fetching its inputs: the recursion
\* is no deeper than there are modules.
NoReentry ==
    \A j, k \in DOMAIN stack : stack[j].module = stack[k].module => j = k

\* All modules have been gone through in this cycle.
CycleOver == phase = "process" /\ stack = <<>> /\ position > Len(Order)

\* Each module is processed once in each cycle, whoever needs its output, and
\* whatever throws.
OncePerCycle ==
    /\ \A m \in Modules : runs[m] <= cycle
    /\ CycleOver => \A m \in Modules : runs[m] = cycle

\* The steps a cycle can consist of: the k-th of the loop's (the place after the last
\* module ends the round), and the k-th of module's (its inputs, then process());
\* each in two halves, communicate() and fetch_and_process(), or asking and taking.
Length(who) == IF who = Nil THEN Len(Order) ELSE Len(InputsOf[who])
Steps == UNION {{who} \X (1..(Length(who) + 1)) \X BOOLEAN : who \in Modules \union {Nil}}

\* Those that are still to come in this cycle.
LoopHasLeft(k, second) ==
    \/ phase = "communicate" /\ (second \/ position <= k)
    \/ phase = "process" /\ second /\ position <= k
CallHasLeft(call, k, second) ==
    \/ call.next < k
    \/ call.next = k /\ (call.asked => second)
ModuleHasLeft(m, k, second) ==
    \/ ~cached[m]
    \/ \E d \in DOMAIN stack : stack[d].module = m /\ CallHasLeft(stack[d], k, second)
HasLeft(who, k, second) ==
    IF who = Nil THEN LoopHasLeft(k, second) ELSE ModuleHasLeft(who, k, second)
Remaining == {s \in Steps : HasLeft(s[1], s[2], s[3])}

\* Once begun, a cycle only moves forward: each step of execute_cycle() and of the
\* recursion it starts takes something off what remains and nothing is put back,
\* whatever the wiring and whatever throws.  So a cycle has at most as many steps as
\* there are Steps, and the recursion ends.
CycleAdvances ==
    [][phase # "idle" => Remaining' \subseteq Remaining /\ Remaining' # Remaining]_vars

\* When a module is processed, each input holds what its source computed in this
\* very cycle, nil if that threw, unless a transform has thrown on the way.  Only in
\* a feedback loop, when the source is itself waiting for this module, it is the
\* value of the cycle before.
InputsAreCurrent ==
    AllFetched =>
        \A k \in DOMAIN InputsOf[Top.module] :
            LET i == InputsOf[Top.module][k]
                s == source[i]
            IN  IF s = Nil THEN in[i] = Nil
                ELSE ~threw[i] =>
                        /\ in[i] = out[s]
                        /\ in[i] \in {Nil, IF s \in OnStack THEN cycle - 1 ELSE cycle}

\* Without feedback loops, all inputs agree with their sources when the cycle is
\* over, and nothing is left from the cycle before: the order in which modules
\* were registered makes no difference.
Ranks(rank) ==
    \A m \in Modules : \A k \in DOMAIN InputsOf[m] :
        source[InputsOf[m][k]] # Nil => rank[source[InputsOf[m][k]]] < rank[m]
NoFeedback == \E rank \in [Modules -> 1..Len(Order)] : Ranks(rank)
OrderDoesNotMatter ==
    CycleOver /\ NoFeedback =>
        \A m \in Modules : \A k \in DOMAIN InputsOf[m] :
            LET i == InputsOf[m][k] IN
            source[i] # Nil /\ ~threw[i] =>
                in[i] = out[source[i]] /\ in[i] \in {Nil, cycle}

\* "True if currently held nil value was caused by exception thrown by source
\* socket when fetching data from it": and never of a value, or without exception.
FailedIsNil == \A i \in Inputs : failed[i] => in[i] = Nil /\ threw[i]

\* "fetch() signals nil_by_fetch_exception flag when a transform function throws"
ThrowIsSignalled == \A i \in Inputs : threw[i] => failed[i]
=============================================================================
