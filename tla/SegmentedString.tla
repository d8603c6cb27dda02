---------------------------- MODULE SegmentedString ----------------------------
(***************************************************************************)
(* A string socket sent with StringTransfer::Segmented over one way of a    *)
(* link (xefis/modules/comm/link/link_protocol.h).  Every envelope carries   *)
(* one block of the string with the socket's serial number, the string's     *)
(* size and the block's number; the receiver puts the string together and   *)
(* applies it to its own socket.  The link loses, repeats and, if Reorder    *)
(* holds, reorders envelopes; damaged ones are stopped by their signature.   *)
(*                                                                         *)
(* The link is one-way, so a delay that keeps the order cannot be observed: *)
(* without Reorder an envelope arrives before the next one is made, once,    *)
(* several times, or not at all.                                            *)
(***************************************************************************)
EXTENDS Integers, Sequences

CONSTANTS
    Chars,           \* the bytes a string is made of
    Strings,         \* the values the sender's socket may be given
    Nil,             \* xf::nil
    BlockSize,       \* kBytes, the size of a block
    SerialModulus,   \* 0xffff
    CycleModulus,    \* 2^64, where _cycle_number wraps
    Retained,        \* StringParams::retained
    Reorder,         \* the link delivers old envelopes after new ones
    MaxChanges, MaxRestarts, MaxFailsafes   \* bounds

ASSUME ConstantsAssumption ==
    /\ Strings \subseteq Seq(Chars)
    /\ Nil \notin Seq(Chars) /\ Nil \notin Nat
    /\ BlockSize \in Nat \ {0}
    /\ SerialModulus \in Nat \ {0} /\ CycleModulus \in Nat \ {0}
    /\ Retained \in BOOLEAN /\ Reorder \in BOOLEAN
    /\ MaxChanges \in Nat /\ MaxRestarts \in Nat /\ MaxFailsafes \in Nat

\* Serial numbers repeat after SerialModulus changes of the value; what the
\* protocol promises, it promises for fewer.
ASSUME SerialsDoNotWrap == MaxChanges < SerialModulus

\* Operators named Mut... are the defects the properties are tested with, each
\* before the definition it is a defective version of; nothing uses them.

VARIABLES
    sValue,     \* the sender's socket: a string or nil
    sSerial,    \* its serial(), which counts the changes
    sCycle,     \* the sender's _cycle_number
    wire,       \* the envelopes the link may still deliver
    rSerial,    \* the receiver's _current_serial
    rSize,      \* the size of _recovered_string
    rBlocks,    \* the blocks marked in _received_blocks
    rText,      \* the part of _recovered_string that was received
    rRecovered, \* _recovered
    rValue,     \* _value
    rOut,       \* the receiver's socket
    history,    \* every value the sender's socket had, in order
    rFrom,      \* the serial number of the string in rValue
    restarts,   \* how often the sender was restarted
    failsafes   \* how often the receiver was restarted or went to failsafe

senderVars   == <<sValue, sSerial, sCycle, history, restarts>>
recoveryVars == <<rSerial, rSize, rBlocks, rText, rRecovered, rValue, rFrom>>
vars == <<senderVars, wire, recoveryVars, rOut, failsafes>>

\* The receiver's first _current_serial, 0xffff: no sender uses it.
NoSerial == SerialModulus

-----------------------------------------------------------------------------
\* Blocks are numbered from 0; a string's characters from 1.

BlockOf(i)        == (i - 1) \div BlockSize
Blocks(size)      == {BlockOf(i) : i \in 1..size}
Positions(size, k) == {i \in 1..size : BlockOf(i) = k}
NumBlocks(size)   == (size - 1) \div BlockSize + 1

\* The envelope made from string s with block k in it: kNilStringSize for nil.
NilEnvelope(serial) ==
    [serial |-> serial, size |-> Nil, block |-> 0, data |-> <<>>]
Envelope(serial, s, k) ==
    [serial |-> serial, size |-> Len(s), block |-> k,
     data |-> [i \in Positions(Len(s), k) |-> s[i]]]

-----------------------------------------------------------------------------
\* The sender.

\* The module behind the sender's socket changes its value; a socket counts
\* only real changes.
Set(v) ==
    /\ v # sValue
    /\ sSerial < MaxChanges
    /\ sValue' = v
    /\ sSerial' = sSerial + 1
    /\ history' = Append(history, v)
    /\ UNCHANGED <<sCycle, restarts, wire, recoveryVars, rOut, failsafes>>

\* serialize_append(): the next block of the value as it is now.
NextEnvelope ==
    LET serial == sSerial % SerialModulus IN
    IF sValue = Nil THEN NilEnvelope(serial)
    ELSE Envelope(serial, sValue,
                  IF sValue = <<>> THEN 0 ELSE sCycle % NumBlocks(Len(sValue)))

Send ==
    /\ wire' = (IF Reorder THEN wire ELSE {}) \union {NextEnvelope}
    /\ sCycle' = IF sValue = Nil THEN sCycle ELSE (sCycle + 1) % CycleModulus
    /\ UNCHANGED <<sValue, sSerial, history, restarts, recoveryVars, rOut,
                   failsafes>>

\* The sender's program is started again: its socket begins with nil.
SenderRestart ==
    /\ restarts < MaxRestarts
    /\ restarts' = restarts + 1
    /\ sValue' = Nil /\ sSerial' = 0 /\ sCycle' = 0
    /\ history' = Append(history, Nil)
    /\ UNCHANGED <<wire, recoveryVars, rOut, failsafes>>

-----------------------------------------------------------------------------
\* The receiver.

\* unserialize() when size is kNilStringSize.
ConsumeNil(m) ==
    /\ m.size = Nil
    /\ IF m.serial # rSerial \/ ~rRecovered \/ rValue # Nil
       THEN /\ rSerial' = m.serial
            /\ rSize' = 0 /\ rBlocks' = {} /\ rText' = <<>>
            /\ rRecovered' = TRUE
            /\ rValue' = Nil
            /\ rFrom' = m.serial
       ELSE UNCHANGED recoveryVars

\* ... when the string is empty, which needs no block.
ConsumeEmpty(m) ==
    /\ m.size = 0
    /\ IF m.serial # rSerial \/ ~rRecovered \/ rValue # <<>>
       THEN /\ rSerial' = m.serial
            /\ rSize' = 0 /\ rBlocks' = {} /\ rText' = <<>>
            /\ rRecovered' = TRUE
            /\ rValue' = <<>>
            /\ rFrom' = m.serial
       ELSE UNCHANGED recoveryVars

\* fragment_differs_from(), asked only of blocks that were received: rText has
\* no other characters.
Differs(m) == \E i \in DOMAIN m.data \intersect DOMAIN rText : m.data[i] # rText[i]

\* Whether reset_recovery() is called before block m is taken.
MutSizeOnly(m) == m.size # rSize
MutSerialOnly(m) == m.serial # rSerial
StartsOver(m) ==
    \/ m.serial # rSerial
    \/ m.size # rSize
    \/ Differs(m)

\* The characters received so far, with those of block m.
WithBlock(text, m) ==
    [i \in DOMAIN text \union DOMAIN m.data |->
        IF i \in DOMAIN m.data THEN m.data[i] ELSE text[i]]

\* ... when the string has blocks.  A block that is there already, or of a
\* string that is complete, changes nothing; the last one missing completes it.
ConsumeBlock(m) ==
    LET fresh  == StartsOver(m)
        blocks == IF fresh THEN {} ELSE rBlocks
        text   == IF fresh THEN <<>> ELSE rText
    IN
    /\ m.size \notin {Nil, 0}
    /\ m.block \in Blocks(m.size)
    /\ \/ /\ ~fresh
          /\ rRecovered \/ m.block \in rBlocks
          /\ UNCHANGED recoveryVars
       \/ /\ fresh \/ ~(rRecovered \/ m.block \in rBlocks)
          /\ rSerial' = m.serial
          /\ rSize' = m.size
          /\ rBlocks' = blocks \union {m.block}
          /\ rText' = WithBlock(text, m)
          /\ rRecovered' = (rBlocks' = Blocks(m.size))
          /\ IF rRecovered' THEN rValue' = rText' /\ rFrom' = m.serial
             ELSE UNCHANGED <<rValue, rFrom>>

\* LinkProtocol::consume() for an envelope with this socket in it: the block
\* is unserialized, then apply() sets the socket.
MutKeepsLast == rOut' = IF rValue' # Nil THEN rValue' ELSE rOut
Apply == rOut' = IF rValue' # Nil THEN rValue' ELSE IF Retained THEN rOut ELSE Nil

Receive(m) ==
    /\ ConsumeNil(m) \/ ConsumeEmpty(m) \/ ConsumeBlock(m)
    /\ Apply
    /\ UNCHANGED <<senderVars, wire, failsafes>>

\* Socket::failsafe(), called when the link is declared failed.
Failsafe ==
    /\ failsafes < MaxFailsafes
    /\ failsafes' = failsafes + 1
    /\ rOut' = IF Retained THEN rOut ELSE Nil
    /\ UNCHANGED <<senderVars, wire, recoveryVars>>

\* The receiver's program is started again.
ReceiverRestart ==
    /\ failsafes < MaxFailsafes
    /\ failsafes' = failsafes + 1
    /\ rSerial' = NoSerial /\ rSize' = 0 /\ rBlocks' = {} /\ rText' = <<>>
    /\ rRecovered' = FALSE /\ rValue' = Nil
    /\ rOut' = Nil
    /\ UNCHANGED <<senderVars, wire, rFrom>>

-----------------------------------------------------------------------------
Init ==
    /\ sValue = Nil /\ sSerial = 0 /\ sCycle = 0
    /\ wire = {}
    /\ rSerial = NoSerial /\ rSize = 0 /\ rBlocks = {} /\ rText = <<>>
    /\ rRecovered = FALSE /\ rValue = Nil
    /\ rOut = Nil
    /\ history = <<Nil>> /\ rFrom = 0
    /\ restarts = 0 /\ failsafes = 0

Next ==
    \/ \E v \in Strings \union {Nil} : Set(v)
    \/ Send
    \/ SenderRestart
    \/ \E m \in wire : Receive(m)
    \/ Failsafe
    \/ ReceiverRestart

Spec == Init /\ [][Next]_vars

-----------------------------------------------------------------------------
(***************************************************************************)
(* Properties.                                                             *)
(***************************************************************************)

TypeOK ==
    /\ sValue \in Seq(Chars) \union {Nil}
    /\ sSerial \in 0..MaxChanges
    /\ sCycle \in Nat
    /\ \A m \in wire :
          /\ m.serial \in 0..(SerialModulus - 1)
          /\ m.size \in Nat \union {Nil}
          /\ m.block \in Nat
          /\ m.size # Nil => m.data \in [Positions(m.size, m.block) -> Chars]
    /\ rSerial \in 0..SerialModulus
    /\ rSize \in Nat
    /\ rBlocks \subseteq Nat
    /\ rText \in [{i \in 1..rSize : BlockOf(i) \in rBlocks} -> Chars]
    /\ rRecovered \in BOOLEAN
    /\ rValue \in Seq(Chars) \union {Nil}
    /\ rOut \in Seq(Chars) \union {Nil}
    /\ history \in Seq(Seq(Chars) \union {Nil})
    /\ rFrom \in Nat /\ restarts \in Nat /\ failsafes \in Nat

\* "Only needed to see if the value changed, so modulo 16-bit is good enough"
\* (of _current_serial): the receiver tells the blocks of two values apart, so
\* what it shows was at some time the sender's value, never put together from
\* two of them.
NeverMixed == rOut # Nil => \E i \in DOMAIN history : history[i] = rOut

\* Until the sender is restarted that is so: what the receiver has recovered
\* is the very value that had the serial number it came with.
RecoversWhatWasSent ==
    restarts = 0 =>
        /\ rFrom < Len(history)
        /\ rValue # Nil => rValue = history[rFrom + 1]
        /\ rOut # Nil => \E i \in DOMAIN history : history[i] = rOut

\* To the modules at its ends the transfer is a register: until the sender is
\* restarted, the receiver's socket shows strings that the sender's socket held,
\* or nil when it is nil, and unless the link reorders it never goes back to an
\* earlier one; that holds through lost blocks, restarts of the receiver, and
\* failsafes, after which apply() shows again what was recovered.
Register == INSTANCE StringRegister WITH
    Values <- Strings, Nothing <- Nil, InOrder <- ~Reorder, KeepsLast <- Retained,
    written <- history, place <- rFrom + 1, shown <- rOut, again <- restarts > 0

ImplementsRegister == Register!Spec
=============================================================================
