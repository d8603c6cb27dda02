------------------------------ MODULE LinkDecoder ------------------------------
(***************************************************************************)
(* The supervision of a link by LinkDecoder                                 *)
(* (xefis/modules/comm/link/link_decoder.cc): is the link valid, when is it  *)
(* declared failed, when is it trusted again, and what do the sockets fed    *)
(* from it hold (link_protocol.{h,cc}).                                      *)
(*                                                                         *)
(* How envelopes are found in the bytes that arrive is module LinkProtocol's *)
(* subject; here one process() finds at most one envelope of each kind, and  *)
(* perhaps bytes that belong to none.  Both timers belong to the Qt event    *)
(* loop that runs process(): they fire between its calls, not late, and in   *)
(* any order when they are due together.                                     *)
(***************************************************************************)
EXTENDS Integers

CONSTANTS
    Envelopes,      \* the protocol's envelopes, each with one socket in it
    Secured,        \* those with a secure channel
    Bitfields,      \* those whose socket is in a Bitfield
    Retained,       \* those whose socket is retained
    Values,         \* what the sockets may be given
    Zero,           \* a bitfield's first value
    Nil,            \* xf::nil, or an inactive timer
    FailsafeAfter,  \* Parameters::failsafe_after, in ticks, or Nil
    ReacquireAfter  \* Parameters::reacquire_after, in ticks, or Nil

ASSUME LinkAssumption ==
    /\ Secured \subseteq Envelopes /\ Bitfields \subseteq Envelopes
    /\ Retained \subseteq Envelopes
    /\ Zero \in Values
    /\ Nil \notin Values /\ Nil \notin Nat /\ Nil \notin BOOLEAN
    /\ FailsafeAfter \in (Nat \ {0}) \union {Nil}
    /\ ReacquireAfter \in (Nat \ {0}) \union {Nil}

VARIABLES
    linkValid,      \* the output socket link_valid
    failsafeTimer,  \* ticks until _failsafe_timer fires, or Nil
    reacquireTimer, \* ticks until _reacquire_timer fires, or Nil
    channelReady,   \* SecureChannel::ready() at this end
    held,           \* the packets' last value: Socket::_value, BitSource::value
    out,            \* the sockets
    last,           \* what the last process() found of each envelope
    silence,        \* ticks since the last valid envelope
    clean           \* ticks since the last byte in error

linkVars == <<linkValid, failsafeTimer, reacquireTimer, channelReady, held, out,
          last, silence, clean>>

\* Operators named Mut... are the defects the properties are tested with; nothing
\* uses them.

\* Counting silence and clean beyond the timers makes no difference.
Longest ==
    1 + (IF FailsafeAfter = Nil THEN 0 ELSE FailsafeAfter)
      + (IF ReacquireAfter = Nil THEN 0 ELSE ReacquireAfter)
Later(n) == IF n < Longest THEN n + 1 ELSE n

-----------------------------------------------------------------------------
\* What process() may find of envelope e.  An envelope that is not secured is
\* good, or its bytes are in error; a secured one is skipped as a whole, and
\* not looked into when the channel is not ready.
Outcomes == {"absent", "good", "rejected", "ignored"}
Possible(e, o) ==
    \/ o = "absent"
    \/ o = "good"     /\ (e \in Secured => channelReady)
    \/ o = "rejected" /\ e \in Secured /\ channelReady
    \/ o = "ignored"  /\ e \in Secured /\ ~channelReady

\* Packet::failsafe()
MutBitfieldsStay(e) == IF e \in Retained \/ e \in Bitfields THEN out[e] ELSE Nil
Cleared(e) == IF e \in Retained THEN out[e] ELSE Nil

\* Packet::apply(), the socket having value v before.
Applied(e, h, v) == IF h # Nil THEN h ELSE IF e \in Retained THEN v ELSE Nil

\* Envelope::consume() fails by calling failsafe(); LinkProtocol::consume()
\* then calls apply() all the same.
SocketAfter(e, o, h) ==
    CASE o = "absent"   -> out[e]
      [] o = "rejected" -> Applied(e, h, Cleared(e))
      [] OTHER          -> Applied(e, h, out[e])

\* The reacquire timer after process(): errors stop it, a valid envelope on a
\* link that is not valid starts it.
MutReacquireRestarts(valid, error, lv) ==
    IF ReacquireAfter # Nil /\ valid /\ lv # TRUE THEN ReacquireAfter
    ELSE IF error THEN Nil ELSE reacquireTimer
MutReacquireIgnoresErrors(valid, error, lv) ==
    IF ReacquireAfter # Nil /\ valid /\ lv # TRUE /\ reacquireTimer = Nil
    THEN ReacquireAfter
    ELSE reacquireTimer
ReacquireTimerAfter(valid, error, lv) ==
    LET stopped == IF error THEN Nil ELSE reacquireTimer IN
    IF ReacquireAfter # Nil /\ valid /\ lv # TRUE /\ stopped = Nil
    THEN ReacquireAfter
    ELSE stopped

MutFailsafeTimerOnAnyInput(valid) == FailsafeAfter
FailsafeTimerAfter(valid) == IF valid THEN FailsafeAfter ELSE failsafeTimer

\* LinkDecoder::process() with new input, in which it finds o of each envelope
\* (with the values given) and perhaps bytes in error.
ProcessInput(o, given, error) ==
    LET valid == \E e \in Envelopes : o[e] # "absent" IN
    /\ \A e \in Envelopes : Possible(e, o[e])
    /\ \A e \in Bitfields : given[e] # Nil
    /\ held' = [e \in Envelopes |-> IF o[e] = "good" THEN given[e] ELSE held[e]]
    /\ out' = [e \in Envelopes |-> SocketAfter(e, o[e], held'[e])]
    /\ linkValid' = IF linkValid = Nil /\ valid THEN TRUE ELSE linkValid
    /\ reacquireTimer' = ReacquireTimerAfter(valid, error, linkValid')
    /\ failsafeTimer' = FailsafeTimerAfter(valid)
    /\ last' = o
    /\ silence' = IF valid THEN 0 ELSE silence
    /\ clean' = IF error THEN 0 ELSE clean
    /\ UNCHANGED channelReady

\* LinkDecoder::failsafe(), called by its timer.
Failsafe ==
    /\ failsafeTimer = 0
    /\ failsafeTimer' = Nil
    /\ linkValid' = FALSE
    /\ out' = [e \in Envelopes |-> Cleared(e)]
    /\ UNCHANGED <<reacquireTimer, channelReady, held, last, silence, clean>>

\* LinkDecoder::reacquire(), called by its timer.
Reacquire ==
    /\ reacquireTimer = 0
    /\ reacquireTimer' = Nil
    /\ linkValid' = TRUE
    /\ UNCHANGED <<failsafeTimer, channelReady, held, out, last, silence, clean>>

\* A handshake completes, or the channel is disconnected.
ChannelChanges ==
    /\ channelReady' = ~channelReady
    /\ UNCHANGED <<linkValid, failsafeTimer, reacquireTimer, held, out, last,
                   silence, clean>>

\* Time passes; no timer is overdue.
Tick ==
    LET Remaining(t) == IF t = Nil THEN Nil ELSE t - 1 IN
    /\ failsafeTimer # 0 /\ reacquireTimer # 0
    /\ failsafeTimer' = Remaining(failsafeTimer)
    /\ reacquireTimer' = Remaining(reacquireTimer)
    /\ silence' = Later(silence)
    /\ clean' = Later(clean)
    /\ UNCHANGED <<linkValid, channelReady, held, out, last>>

LinkInit ==
    /\ linkValid = Nil
    /\ failsafeTimer = Nil /\ reacquireTimer = Nil
    /\ channelReady = FALSE
    /\ held = [e \in Envelopes |-> IF e \in Bitfields THEN Zero ELSE Nil]
    /\ out = [e \in Envelopes |-> Nil]
    /\ last = [e \in Envelopes |-> "absent"]
    /\ silence = Longest /\ clean = Longest

LinkNext ==
    \/ \E o \in [Envelopes -> Outcomes], given \in [Envelopes -> Values \union {Nil}],
          error \in BOOLEAN : ProcessInput(o, given, error)
    \/ Failsafe
    \/ Reacquire
    \/ ChannelChanges
    \/ Tick

LinkSpec == LinkInit /\ [][LinkNext]_linkVars

-----------------------------------------------------------------------------
(***************************************************************************)
(* Properties.                                                             *)
(***************************************************************************)

LinkTypeOK ==
    /\ linkValid \in BOOLEAN \union {Nil}
    /\ failsafeTimer \in Nat \union {Nil}
    /\ reacquireTimer \in Nat \union {Nil}
    /\ channelReady \in BOOLEAN
    /\ held \in [Envelopes -> Values \union {Nil}]
    /\ out \in [Envelopes -> Values \union {Nil}]
    /\ last \in [Envelopes -> Outcomes]
    /\ silence \in Nat /\ clean \in Nat

\* "Max idle time without valid envelopes before the decoder declares a failsafe
\* condition [...] and marks the link invalid": a link that is marked valid has
\* had a valid envelope within that time: the reacquire timer does not mark it
\* valid again after the failsafe timer has marked it failed.  That
\* depends on the parameters, since failsafe() leaves the reacquire timer running,
\* and no code checks them: ReacquireSooner is a hypothesis.
ReacquireSooner ==
    FailsafeAfter # Nil /\ ReacquireAfter # Nil => ReacquireAfter < FailsafeAfter
SilenceIsNoticed ==
    ReacquireSooner /\ FailsafeAfter # Nil /\ linkValid = TRUE =>
        silence <= FailsafeAfter

\* While the link is failed and nothing valid has arrived since, sockets that do
\* not retain their value are nil.
FailedMeansCleared ==
    linkValid = FALSE /\ failsafeTimer = Nil =>
        \A e \in Envelopes \ Retained : out[e] = Nil

\* reacquire_after "gives the protocol time to stabilize": a failed link is
\* trusted again only after that time without any byte in error.
Reacquired == linkValid = FALSE /\ linkValid' = TRUE
TrustedOnlyWhenStable ==
    [][Reacquired => clean >= ReacquireAfter]_linkVars

\* When valid envelopes keep coming in time and no more bytes are in error, the
\* link is marked valid in the end, and stays so.
LinkComesBack ==
    <>[](clean = Longest) /\ <>[](silence < FailsafeAfter)
        => <>[](linkValid = TRUE)

\* "True if module input should retain its last value when link is down or
\* corrupted": after an envelope that could not be decrypted, the socket of one
\* that is not retained is nil.
CorruptedMeansNil ==
    \A e \in Envelopes \ Retained : last[e] = "rejected" => out[e] = Nil
=============================================================================
