---------------------------- MODULE MCLinkProtocol ----------------------------
(***************************************************************************)
(* SegmentedString and LinkProtocol for TLC, and what the transfer of strings *)
(* must eventually do.  The two share nothing, neither state nor calls: a    *)
(* behaviour is one of either, and the other rests.                         *)
(***************************************************************************)
EXTENDS SegmentedString, LinkProtocol

CONSTANT Parts      \* what a run is about

VARIABLE part       \* what this behaviour is about

allVars == <<part, vars, protocolVars>>

OfStrings == part = "strings"
OfBytes == part = "bytes"

\* With blocks of two: no block, two blocks of which one is short, and two whole
\* ones; two strings of one size differ in each block.
AStrings == {<<>>, <<"a", "a", "b">>, <<"b", "b", "a">>, <<"a", "b", "a", "b">>}

\* Strings of one size.
TwoStrings == {<<"a", "a", "a">>, <<"b", "b", "b">>}

CodecInit == part \in Parts /\ Init /\ ProtocolInit

CodecNext ==
    /\ UNCHANGED part
    /\ OfStrings \/ UNCHANGED vars
    /\ OfBytes \/ UNCHANGED protocolVars
    /\ \/ OfStrings /\ Next
       \/ OfBytes /\ ProtocolNext

CodecSpec == CodecInit /\ [][CodecNext]_allVars

-----------------------------------------------------------------------------
(***************************************************************************)
(* Fairness.  The encoder sends in every period.  The link may lose any     *)
(* envelope, but of the envelopes with one block number not all: a block     *)
(* that is sent again and again arrives again and again.                    *)
(***************************************************************************)
BlockNumbers == UNION {Blocks(Len(s)) : s \in Strings} \union {0}
ReceiveBlock(k) == \E m \in wire : m.block = k /\ Receive(m)

FairSpec ==
    /\ CodecSpec
    /\ WF_vars(OfStrings /\ Send)
    /\ \A k \in BlockNumbers : SF_vars(OfStrings /\ ReceiveBlock(k))

\* Once the sender's socket keeps its value, the receiver shows it in the end,
\* from whatever state lost blocks, restarts of either end and failsafes have
\* left behind; nil too, unless the receiver's socket retains its value.
StringArrives ==
    \A v \in Strings \union (IF Retained THEN {} ELSE {Nil}) :
        <>[](sValue = v) => <>[](rOut = v)
===============================================================================
