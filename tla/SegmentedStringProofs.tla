------------------------ MODULE SegmentedStringProofs ------------------------
(***************************************************************************)
(* Proofs about SegmentedString, for all strings and block sizes and for    *)
(* links that lose, repeat and reorder envelopes: until the sender is        *)
(* restarted, the receiver shows only what the sender's socket held.        *)
(*                                                                         *)
(* The argument: every envelope on the link carries part of the value that  *)
(* had its serial number (WireFollowsHistory); so do the blocks the          *)
(* receiver holds, because it starts over when the serial number differs     *)
(* (TextFollowsHistory); and when no block is missing, the parts are the     *)
(* whole.                                                                  *)
(***************************************************************************)
EXTENDS SegmentedString, TLAPS

\* The serial number is the position in the history of values.
HistoryFollowsSender ==
    restarts = 0 =>
        /\ Len(history) = sSerial + 1
        /\ history[Len(history)] = sValue

\* Envelope m is part of value h.
PartOf(m, h) ==
    IF m.size = Nil THEN h = Nil
    ELSE /\ h \in Seq(Chars)
         /\ Len(h) = m.size
         /\ \A i \in Positions(m.size, m.block) : m.data[i] = h[i]

WireFollowsHistory ==
    restarts = 0 => \A m \in wire :
        /\ m.serial < Len(history)
        /\ PartOf(m, history[m.serial + 1])

TextFollowsHistory ==
    restarts = 0 /\ rSize # 0 =>
        /\ rSerial < Len(history)
        /\ history[rSerial + 1] \in Seq(Chars)
        /\ Len(history[rSerial + 1]) = rSize
        /\ \A i \in DOMAIN rText : rText[i] = history[rSerial + 1][i]

Inv ==
    /\ TypeOK
    /\ HistoryFollowsSender
    /\ WireFollowsHistory
    /\ TextFollowsHistory
    /\ RecoversWhatWasSent

-----------------------------------------------------------------------------
\* Arithmetic of serial and block numbers.

LEMMA DivMod ==
    ASSUME NEW a \in Nat, NEW b \in Nat \ {0}
    PROVE  /\ a \div b \in Nat
           /\ a % b \in 0..(b - 1)
           /\ a < b => a % b = a
  OBVIOUS

\* The block an envelope of a string that is not empty carries has a number.
LEMMA BlockNumber ==
    ASSUME ConstantsAssumption, NEW n \in Nat \ {0}, NEW c \in Nat
    PROVE  c % NumBlocks(n) \in Nat
  <1>1. n - 1 \in Nat /\ BlockSize \in Nat \ {0}
    BY DEF ConstantsAssumption
  <1>2. (n - 1) \div BlockSize \in Nat
    BY <1>1, DivMod
  <1>3. NumBlocks(n) \in Nat \ {0}
    BY <1>2 DEF NumBlocks
  <1>4. \A k \in Nat \ {0} : c % k \in Nat
    BY DivMod
  <1> QED
    BY <1>3, <1>4, Zenon

-----------------------------------------------------------------------------
\* A new envelope carries a part of the sender's value, under its serial number.
LEMMA NextEnvelopeOK ==
    ASSUME ConstantsAssumption, SerialsDoNotWrap, TypeOK
    PROVE  LET m == NextEnvelope IN
           /\ m.serial = sSerial
           /\ m.serial \in 0..(SerialModulus - 1)
           /\ m.size \in Nat \union {Nil}
           /\ m.block \in Nat
           /\ m.size # Nil => m.data \in [Positions(m.size, m.block) -> Chars]
           /\ PartOf(m, sValue)
  <1> DEFINE m == NextEnvelope
  <1>1. /\ sSerial % SerialModulus = sSerial
        /\ sSerial \in 0..(SerialModulus - 1)
    <2>1. sSerial \in Nat /\ SerialModulus \in Nat \ {0} /\ sSerial < SerialModulus
      BY DEF ConstantsAssumption, SerialsDoNotWrap, TypeOK
    <2> QED
      BY <2>1, DivMod
  <1>2. CASE sValue = Nil
    <2>1. m = [serial |-> sSerial, size |-> Nil, block |-> 0, data |-> <<>>]
      BY <1>1, <1>2 DEF NextEnvelope, NilEnvelope
    <2> QED
      BY <1>1, <1>2, <2>1 DEF PartOf
  <1>3. CASE sValue # Nil
    <2> DEFINE k == IF sValue = <<>> THEN 0 ELSE sCycle % NumBlocks(Len(sValue))
    <2>1. sValue \in Seq(Chars) /\ Len(sValue) \in Nat
      BY <1>3 DEF TypeOK
    <2>2. k \in Nat
      <3>1. CASE sValue = <<>>
        BY <3>1
      <3>2. CASE sValue # <<>>
        <4>1. Len(sValue) \in Nat \ {0} /\ sCycle \in Nat
          BY <2>1, <3>2 DEF TypeOK
        <4> QED
          BY <4>1, <3>2, BlockNumber
      <3> QED
        BY <3>1, <3>2
    <2>3. m = [serial |-> sSerial, size |-> Len(sValue), block |-> k,
               data |-> [i \in Positions(Len(sValue), k) |-> sValue[i]]]
      BY <1>1, <1>3 DEF NextEnvelope, Envelope
    <2> HIDE DEF k, m
    <2>4. /\ m.serial = sSerial /\ m.size = Len(sValue) /\ m.block = k
          /\ m.data = [i \in Positions(Len(sValue), k) |-> sValue[i]]
      BY <2>3
    <2>5. Positions(Len(sValue), k) \subseteq 1..Len(sValue)
      BY DEF Positions
    <2>6. m.data \in [Positions(m.size, m.block) -> Chars]
      BY <2>1, <2>4, <2>5
    <2>7. m.size # Nil
      BY <2>1, <2>4 DEF ConstantsAssumption
    <2>8. PartOf(m, sValue)
      BY <2>1, <2>4, <2>7 DEF PartOf
    <2> QED
      BY <1>1, <2>1, <2>2, <2>4, <2>6, <2>8 DEF m
  <1> QED
    BY <1>2, <1>3

-----------------------------------------------------------------------------
\* Init and every action keep Inv.

\* No character received: what reset_recovery() leaves of an empty string.
LEMMA EmptyText ==
    /\ <<>> \in [{i \in 1..0 : BlockOf(i) \in {}} -> Chars]
    /\ \A n \in Nat : <<>> \in [{i \in 1..n : BlockOf(i) \in {}} -> Chars]
    /\ DOMAIN <<>> = {}
  OBVIOUS

LEMMA InitInv == ASSUME ConstantsAssumption, Init PROVE Inv
  <1>1. TypeOK
    <2>1. history \in Seq(Seq(Chars) \union {Nil})
      BY DEF Init
    <2>2. rText \in [{i \in 1..rSize : BlockOf(i) \in rBlocks} -> Chars]
      BY EmptyText DEF Init
    <2>3. sSerial \in 0..MaxChanges /\ rSerial \in 0..SerialModulus
      BY DEF Init, NoSerial, ConstantsAssumption
    <2> QED
      BY <2>1, <2>2, <2>3 DEF Init, TypeOK
  <1>2. HistoryFollowsSender
    BY DEF Init, HistoryFollowsSender
  <1>3. WireFollowsHistory
    BY DEF Init, WireFollowsHistory
  <1>4. TextFollowsHistory
    BY DEF Init, TextFollowsHistory
  <1>5. RecoversWhatWasSent
    BY DEF Init, RecoversWhatWasSent
  <1> QED
    BY <1>1, <1>2, <1>3, <1>4, <1>5 DEF Inv

\* Appending to the history keeps what it says of earlier serial numbers.
LEMMA HistoryGrows ==
    ASSUME TypeOK, NEW v \in Strings \union {Nil}, ConstantsAssumption,
           history' = Append(history, v)
    PROVE  /\ history' \in Seq(Seq(Chars) \union {Nil})
           /\ Len(history') = Len(history) + 1
           /\ history'[Len(history')] = v
           /\ DOMAIN history \subseteq DOMAIN history'
           /\ \A i \in DOMAIN history : history'[i] = history[i]
           /\ \A n \in Nat : n < Len(history) =>
                /\ n < Len(history')
                /\ history'[n + 1] = history[n + 1]
  <1>1. v \in Seq(Chars) \union {Nil}
    BY DEF ConstantsAssumption
  <1> QED
    BY <1>1 DEF TypeOK

\* A step that leaves everything but the sender's socket and the history alone.
LEMMA SetInv ==
    ASSUME ConstantsAssumption, SerialsDoNotWrap, Inv,
           NEW v \in Strings \union {Nil}, Set(v)
    PROVE  Inv'
  <1> USE DEF Inv
  <1>0. /\ history' = Append(history, v)
        /\ UNCHANGED <<sCycle, restarts, wire, recoveryVars, rOut, failsafes>>
    BY DEF Set
  <1>h. /\ history' \in Seq(Seq(Chars) \union {Nil})
        /\ Len(history') = Len(history) + 1
        /\ history'[Len(history')] = v
        /\ DOMAIN history \subseteq DOMAIN history'
        /\ \A i \in DOMAIN history : history'[i] = history[i]
        /\ \A n \in Nat : n < Len(history) =>
             /\ n < Len(history')
             /\ history'[n + 1] = history[n + 1]
    BY <1>0, HistoryGrows
  <1>1. TypeOK'
    <2>1. v \in Seq(Chars) \union {Nil}
      BY DEF ConstantsAssumption
    <2>2. sSerial' \in 0..MaxChanges /\ sValue' = v
      BY DEF Set, TypeOK, ConstantsAssumption
    <2> QED
      BY <1>0, <1>h, <2>1, <2>2 DEF TypeOK, recoveryVars
  <1>2. HistoryFollowsSender'
    BY <1>0, <1>h DEF HistoryFollowsSender, Set, TypeOK
  <1>3. WireFollowsHistory'
    <2> SUFFICES ASSUME restarts' = 0, NEW m \in wire'
                 PROVE  m.serial < Len(history') /\ PartOf(m, history'[m.serial + 1])
      BY DEF WireFollowsHistory, PartOf, Positions, BlockOf
    <2>1. m \in wire /\ restarts = 0 /\ m.serial \in Nat
      BY <1>0 DEF TypeOK
    <2>2. m.serial < Len(history) /\ PartOf(m, history[m.serial + 1])
      BY <2>1 DEF WireFollowsHistory
    <2> QED
      BY <1>h, <2>1, <2>2
  <1>4. TextFollowsHistory'
    <2> SUFFICES ASSUME restarts' = 0, rSize' # 0
                 PROVE  /\ rSerial' < Len(history')
                        /\ history'[rSerial' + 1] \in Seq(Chars)
                        /\ Len(history'[rSerial' + 1]) = rSize'
                        /\ \A i \in DOMAIN rText' : rText'[i] = history'[rSerial' + 1][i]
      BY DEF TextFollowsHistory
    <2>1. restarts = 0 /\ rSize # 0 /\ rSerial \in Nat
      BY <1>0 DEF TypeOK, recoveryVars, ConstantsAssumption
    <2>2. history'[rSerial + 1] = history[rSerial + 1] /\ rSerial < Len(history')
      BY <1>h, <2>1 DEF TextFollowsHistory
    <2> QED
      BY <1>0, <2>1, <2>2 DEF TextFollowsHistory, recoveryVars
  <1>5. RecoversWhatWasSent'
    <2>1. rFrom \in Nat
      BY DEF TypeOK
    <2> QED
      BY <1>0, <1>h, <2>1 DEF RecoversWhatWasSent, recoveryVars
  <1> QED
    BY <1>1, <1>2, <1>3, <1>4, <1>5 DEF Inv

LEMMA SendInv ==
    ASSUME ConstantsAssumption, SerialsDoNotWrap, Inv, Send
    PROVE  Inv'
  <1> USE DEF Inv
  <1> DEFINE e == NextEnvelope
  <1>0. /\ wire' \subseteq wire \union {e}
        /\ UNCHANGED <<sValue, sSerial, history, restarts, recoveryVars, rOut,
                       failsafes>>
    BY DEF Send
  <1>e. /\ e.serial = sSerial
        /\ e.serial \in 0..(SerialModulus - 1)
        /\ e.size \in Nat \union {Nil}
        /\ e.block \in Nat
        /\ e.size # Nil => e.data \in [Positions(e.size, e.block) -> Chars]
        /\ PartOf(e, sValue)
    BY NextEnvelopeOK
  <1> HIDE DEF e
  <1>1. TypeOK'
    <2>1. sCycle' \in Nat
      <3>1. sCycle + 1 \in Nat /\ CycleModulus \in Nat \ {0}
        BY DEF TypeOK, ConstantsAssumption
      <3>2. (sCycle + 1) % CycleModulus \in Nat
        BY <3>1, DivMod
      <3> QED
        BY <3>2 DEF Send, TypeOK
    <2>2. \A m \in wire' :
            /\ m.serial \in 0..(SerialModulus - 1)
            /\ m.size \in Nat \union {Nil}
            /\ m.block \in Nat
            /\ m.size # Nil => m.data \in [Positions(m.size, m.block) -> Chars]
      BY <1>0, <1>e DEF TypeOK
    <2> QED
      BY <1>0, <2>1, <2>2 DEF TypeOK, recoveryVars
  <1>2. HistoryFollowsSender'
    BY <1>0 DEF HistoryFollowsSender
  <1>3. WireFollowsHistory'
    <2> SUFFICES ASSUME restarts' = 0, NEW m \in wire'
                 PROVE  m.serial < Len(history') /\ PartOf(m, history'[m.serial + 1])
      BY DEF WireFollowsHistory, PartOf, Positions, BlockOf
    <2>1. restarts = 0 /\ history' = history
      BY <1>0
    <2>2. CASE m \in wire
      BY <2>1, <2>2 DEF WireFollowsHistory
    <2>3. CASE m = e
      <3>1. Len(history) = sSerial + 1 /\ history[sSerial + 1] = sValue
        BY <2>1 DEF HistoryFollowsSender
      <3>2. sSerial \in Nat
        BY DEF TypeOK, ConstantsAssumption
      <3> QED
        BY <1>e, <2>1, <2>3, <3>1, <3>2
    <2> QED
      BY <1>0, <2>2, <2>3
  <1>4. TextFollowsHistory'
    BY <1>0 DEF TextFollowsHistory, recoveryVars
  <1>5. RecoversWhatWasSent'
    BY <1>0 DEF RecoversWhatWasSent, recoveryVars
  <1> QED
    BY <1>1, <1>2, <1>3, <1>4, <1>5 DEF Inv

\* After a restart of the sender nothing is claimed but the types.
LEMMA SenderRestartInv ==
    ASSUME ConstantsAssumption, Inv, SenderRestart
    PROVE  Inv'
  <1> USE DEF Inv
  <1>1. TypeOK'
    <2>1. history' \in Seq(Seq(Chars) \union {Nil})
      <3>1. history \in Seq(Seq(Chars) \union {Nil}) /\ Nil \in Seq(Chars) \union {Nil}
        BY DEF TypeOK
      <3> QED
        BY <3>1 DEF SenderRestart
    <2>2. sSerial' \in 0..MaxChanges
      BY DEF SenderRestart, ConstantsAssumption
    <2> QED
      BY <2>1, <2>2 DEF SenderRestart, TypeOK, recoveryVars
  <1>2. restarts' # 0
    BY DEF SenderRestart, TypeOK
  <1> QED
    BY <1>1, <1>2 DEF HistoryFollowsSender, WireFollowsHistory,
                      TextFollowsHistory, RecoversWhatWasSent

\* What failsafe() and a restart of the receiver have in common: the sender
\* and the link stay, and what the receiver still has is part of what it had.
LEMMA FailsafeInv ==
    ASSUME ConstantsAssumption, Inv, Failsafe
    PROVE  Inv'
  <1> USE DEF Inv
  <1>0. UNCHANGED <<senderVars, wire, recoveryVars>> /\ rOut' \in {rOut, Nil}
    BY DEF Failsafe
  <1>1. TypeOK'
    BY <1>0 DEF Failsafe, TypeOK, recoveryVars, senderVars
  <1> QED
    BY <1>0, <1>1 DEF HistoryFollowsSender, WireFollowsHistory, PartOf, Positions,
         BlockOf, TextFollowsHistory, RecoversWhatWasSent, recoveryVars, senderVars

LEMMA ReceiverRestartInv ==
    ASSUME ConstantsAssumption, Inv, ReceiverRestart
    PROVE  Inv'
  <1> USE DEF Inv
  <1>0. /\ UNCHANGED <<senderVars, wire, rFrom>>
        /\ rSize' = 0 /\ rBlocks' = {} /\ rText' = <<>>
        /\ rValue' = Nil /\ rOut' = Nil
    BY DEF ReceiverRestart
  <1>1. TypeOK'
    <2>1. rText' \in [{i \in 1..rSize' : BlockOf(i) \in rBlocks'} -> Chars]
      BY <1>0, EmptyText
    <2>2. rSerial' \in 0..SerialModulus
      BY DEF ReceiverRestart, NoSerial, ConstantsAssumption
    <2>3. rRecovered' \in BOOLEAN /\ failsafes' \in Nat
      <3>1. rRecovered' = FALSE /\ failsafes' = failsafes + 1
        BY DEF ReceiverRestart
      <3>2. failsafes \in Nat
        BY DEF TypeOK
      <3>3. rRecovered' \in BOOLEAN
        BY <3>1
      <3>4. failsafes' \in Nat
        BY <3>1, <3>2
      <3> QED
        BY <3>3, <3>4
    <2>4. rSize' \in Nat /\ rBlocks' \subseteq Nat
      BY <1>0
    <2>5. /\ rValue' \in Seq(Chars) \union {Nil}
          /\ rOut' \in Seq(Chars) \union {Nil}
      BY <1>0
    <2> QED
      BY <1>0, <2>1, <2>2, <2>3, <2>4, <2>5 DEF TypeOK, senderVars
  <1> QED
    BY <1>0, <1>1 DEF HistoryFollowsSender, WireFollowsHistory, PartOf, Positions,
         BlockOf, TextFollowsHistory, RecoversWhatWasSent, senderVars

\* Consuming an envelope keeps the receiver's part of the types, and what it
\* recovers is the value the envelope's serial number stands for.
RecoveryOK ==
    /\ rSerial' \in 0..SerialModulus
    /\ rSize' \in Nat
    /\ rBlocks' \subseteq Nat
    /\ rText' \in [{i \in 1..rSize' : BlockOf(i) \in rBlocks'} -> Chars]
    /\ rRecovered' \in BOOLEAN
    /\ rValue' \in Seq(Chars) \union {Nil}
    /\ rFrom' \in Nat
    /\ restarts = 0 /\ rSize' # 0 =>
         /\ rSerial' < Len(history)
         /\ history[rSerial' + 1] \in Seq(Chars)
         /\ Len(history[rSerial' + 1]) = rSize'
         /\ \A i \in DOMAIN rText' : rText'[i] = history[rSerial' + 1][i]
    /\ restarts = 0 =>
         /\ rFrom' < Len(history)
         /\ rValue' # Nil => rValue' = history[rFrom' + 1]

\* Nothing is recovered by a step that leaves the recovery alone.
LEMMA UnchangedRecovery ==
    ASSUME ConstantsAssumption, Inv, UNCHANGED recoveryVars
    PROVE  RecoveryOK
  BY DEF Inv, TypeOK, TextFollowsHistory, RecoversWhatWasSent, RecoveryOK,
         recoveryVars

\* A value that needs no block: nil, or the empty string.
LEMMA ConsumeWholeOK ==
    ASSUME ConstantsAssumption, Inv, NEW m \in wire,
           ConsumeNil(m) \/ ConsumeEmpty(m)
    PROVE  RecoveryOK
  <1> USE DEF Inv
  <1>m. /\ m.serial \in Nat /\ m.serial \in 0..SerialModulus
        /\ restarts = 0 => m.serial < Len(history) /\ PartOf(m, history[m.serial + 1])
    BY DEF TypeOK, WireFollowsHistory, ConstantsAssumption
  <1>1. CASE UNCHANGED recoveryVars
    BY <1>1, UnchangedRecovery
  <1>2. CASE ~UNCHANGED recoveryVars
    <2>1. /\ rSerial' = m.serial /\ rFrom' = m.serial
          /\ rSize' = 0 /\ rBlocks' = {} /\ rText' = <<>> /\ rRecovered' = TRUE
          /\ \/ m.size = Nil /\ rValue' = Nil
             \/ m.size = 0 /\ rValue' = <<>>
      BY <1>2 DEF ConsumeNil, ConsumeEmpty
    <2>2. rText' \in [{i \in 1..rSize' : BlockOf(i) \in rBlocks'} -> Chars]
      BY <2>1, EmptyText
    <2>3. rValue' \in Seq(Chars) \union {Nil}
      <3>1. <<>> \in Seq(Chars)
        OBVIOUS
      <3> QED
        BY <2>1, <3>1
    <2>4. restarts = 0 /\ rValue' # Nil => rValue' = history[m.serial + 1]
      <3> SUFFICES ASSUME restarts = 0, rValue' # Nil
                   PROVE  rValue' = history[m.serial + 1]
        OBVIOUS
      <3>1. m.size = 0 /\ rValue' = <<>> /\ 0 # Nil
        BY <2>1 DEF ConstantsAssumption
      <3>2. history[m.serial + 1] \in Seq(Chars) /\ Len(history[m.serial + 1]) = 0
        BY <1>m, <3>1 DEF PartOf
      <3> QED
        BY <3>1, <3>2
    <2>5. /\ rSerial' \in 0..SerialModulus /\ rSize' \in Nat
          /\ rBlocks' \subseteq Nat /\ rRecovered' \in BOOLEAN /\ rFrom' \in Nat
      BY <1>m, <2>1
    <2>6. rSize' = 0 /\ rFrom' = m.serial
      BY <2>1
    <2> HIDE DEF Inv
    <2> QED
      BY <1>m, <2>2, <2>3, <2>4, <2>5, <2>6 DEF RecoveryOK
  <1> QED
    BY <1>1, <1>2

\* A block of a string: it joins blocks of the same value or starts over.
LEMMA ConsumeBlockOK ==
    ASSUME ConstantsAssumption, Inv, NEW m \in wire, ConsumeBlock(m)
    PROVE  RecoveryOK
  <1> USE DEF Inv
  <1> DEFINE fresh  == StartsOver(m)
             blocks == IF fresh THEN {} ELSE rBlocks
             text   == IF fresh THEN <<>> ELSE rText
  <1>m. /\ m.serial \in Nat /\ m.serial \in 0..SerialModulus
        /\ m.size \in Nat \ {0} /\ m.size # Nil
        /\ m.block \in Nat
        /\ m.data \in [Positions(m.size, m.block) -> Chars]
        /\ restarts = 0 => m.serial < Len(history) /\ PartOf(m, history[m.serial + 1])
    BY DEF TypeOK, WireFollowsHistory, ConstantsAssumption, ConsumeBlock
  <1>1. CASE UNCHANGED recoveryVars
    BY <1>1, UnchangedRecovery
  <1>2. CASE ~UNCHANGED recoveryVars
    <2>1. /\ rSerial' = m.serial
          /\ rSize' = m.size
          /\ rBlocks' = blocks \union {m.block}
          /\ rText' = WithBlock(text, m)
          /\ rRecovered' = (rBlocks' = Blocks(m.size))
          /\ IF rRecovered' THEN rValue' = rText' /\ rFrom' = m.serial
             ELSE UNCHANGED <<rValue, rFrom>>
      BY <1>2 DEF ConsumeBlock
    <2>2. text \in [{i \in 1..m.size : BlockOf(i) \in blocks} -> Chars]
      <3>1. CASE fresh
        BY <1>m, <3>1, EmptyText
      <3>2. CASE ~fresh
        BY <3>2 DEF StartsOver, TypeOK
      <3> QED
        BY <3>1, <3>2
    <2>3. restarts = 0 =>
            \A i \in DOMAIN text : text[i] = history[m.serial + 1][i]
      <3>1. CASE fresh
        BY <3>1, EmptyText
      <3>2. CASE ~fresh
        <4>1. m.serial = rSerial /\ m.size = rSize
          BY <3>2 DEF StartsOver
        <4> QED
          BY <1>m, <3>2, <4>1 DEF TextFollowsHistory
      <3> QED
        BY <3>1, <3>2
    <2> HIDE DEF fresh, blocks, text
    <2>4. rText' \in [{i \in 1..m.size : BlockOf(i) \in rBlocks'} -> Chars]
      <3>1. {i \in 1..m.size : BlockOf(i) \in rBlocks'}
              = DOMAIN text \union DOMAIN m.data
        BY <1>m, <2>1, <2>2 DEF Positions
      <3> QED
        BY <1>m, <2>1, <2>2, <3>1 DEF WithBlock
    <2>5. restarts = 0 =>
            \A i \in DOMAIN rText' : rText'[i] = history[m.serial + 1][i]
      <3> SUFFICES ASSUME restarts = 0, NEW i \in DOMAIN rText'
                   PROVE  rText'[i] = history[m.serial + 1][i]
        OBVIOUS
      <3>1. \A j \in Positions(m.size, m.block) :
               m.data[j] = history[m.serial + 1][j]
        BY <1>m DEF PartOf
      <3>2. DOMAIN m.data = Positions(m.size, m.block)
        BY <1>m
      <3> QED
        BY <2>1, <2>3, <3>1, <3>2 DEF WithBlock
    <2>6. rRecovered' => rText' \in [1..m.size -> Chars]
      <3> SUFFICES ASSUME rRecovered'
                   PROVE  {i \in 1..m.size : BlockOf(i) \in rBlocks'} = 1..m.size
        BY <2>4
      <3> QED
        BY <2>1 DEF Blocks
    <2>7. rValue' \in Seq(Chars) \union {Nil}
      <3>1. CASE rRecovered'
        <4>1. rText' \in Seq(Chars)
          BY <1>m, <2>6, <3>1
        <4> QED
          BY <2>1, <3>1, <4>1
      <3>2. CASE ~rRecovered'
        BY <2>1, <3>2 DEF TypeOK
      <3> QED
        BY <3>1, <3>2
    <2>8. restarts = 0 => /\ history[m.serial + 1] \in Seq(Chars)
                          /\ Len(history[m.serial + 1]) = m.size
      BY <1>m DEF PartOf
    <2>9. restarts = 0 => /\ rFrom' < Len(history)
                          /\ rValue' # Nil => rValue' = history[rFrom' + 1]
      <3> SUFFICES ASSUME restarts = 0
                   PROVE  /\ rFrom' < Len(history)
                          /\ rValue' # Nil => rValue' = history[rFrom' + 1]
        OBVIOUS
      <3>1. CASE rRecovered'
        <4> DEFINE h == history[m.serial + 1]
        <4>1. h \in [1..m.size -> Chars] /\ rText' \in [1..m.size -> Chars]
          BY <2>6, <2>8, <3>1
        <4>2. \A i \in 1..m.size : rText'[i] = h[i]
          BY <2>5, <4>1
        <4> HIDE DEF h
        <4>3. rText' = h
          <5>1. rText' = [i \in 1..m.size |-> rText'[i]]
            BY <4>1
          <5>2. h = [i \in 1..m.size |-> h[i]]
            BY <4>1
          <5> QED
            BY <4>2, <5>1, <5>2, Zenon
        <4>4. rValue' = rText' /\ rFrom' = m.serial
          BY <2>1, <3>1
        <4>5. m.serial < Len(history)
          BY <1>m
        <4> QED
          BY <4>3, <4>4, <4>5 DEF h
      <3>2. CASE ~rRecovered'
        BY <2>1, <3>2 DEF RecoversWhatWasSent
      <3> QED
        BY <3>1, <3>2
    <2>10. rBlocks' \subseteq Nat /\ rRecovered' \in BOOLEAN /\ rFrom' \in Nat
      <3>1. blocks \subseteq Nat
        BY DEF blocks, TypeOK
      <3>2. rFrom \in Nat
        BY DEF TypeOK
      <3> QED
        BY <1>m, <2>1, <3>1, <3>2
    <2>11. rSerial' = m.serial /\ rSize' = m.size
      BY <2>1
    <2> HIDE DEF Inv
    <2> QED
      BY <1>m, <2>4, <2>5, <2>7, <2>8, <2>9, <2>10, <2>11 DEF RecoveryOK
  <1> QED
    BY <1>1, <1>2

LEMMA ReceiveInv ==
    ASSUME ConstantsAssumption, Inv, NEW m \in wire, Receive(m)
    PROVE  Inv'
  <1>0. RecoveryOK
    BY ConsumeWholeOK, ConsumeBlockOK DEF Receive
  <1> USE DEF Inv
  <1>1. UNCHANGED <<senderVars, wire, failsafes>> /\ rOut' \in {rOut, rValue', Nil}
    BY DEF Receive, Apply
  <1>2. TypeOK'
    BY <1>0, <1>1 DEF TypeOK, RecoveryOK, senderVars
  <1>3. HistoryFollowsSender'
    BY <1>1 DEF HistoryFollowsSender, senderVars
  <1>4. WireFollowsHistory'
    BY <1>1 DEF WireFollowsHistory, PartOf, Positions, BlockOf, senderVars
  <1>5. TextFollowsHistory'
    BY <1>0, <1>1 DEF TextFollowsHistory, RecoveryOK, senderVars
  <1>6. RecoversWhatWasSent'
    <2> SUFFICES ASSUME restarts = 0
                 PROVE  rOut' # Nil => \E i \in DOMAIN history : history[i] = rOut'
      BY <1>0, <1>1 DEF RecoversWhatWasSent, RecoveryOK, senderVars
    <2>1. CASE rOut' = rValue' /\ rValue' # Nil
      <3>1. rFrom' \in Nat /\ rFrom' < Len(history) /\ rValue' = history[rFrom' + 1]
        BY <1>0, <2>1 DEF RecoveryOK
      <3>2. rFrom' + 1 \in DOMAIN history
        BY <3>1 DEF TypeOK
      <3> QED
        BY <2>1, <3>1, <3>2
    <2>2. CASE rOut' \in {rOut, Nil}
      BY <2>2 DEF RecoversWhatWasSent
    <2> QED
      BY <1>1, <2>1, <2>2
  <1> QED
    BY <1>2, <1>3, <1>4, <1>5, <1>6 DEF Inv

-----------------------------------------------------------------------------
LEMMA NextInv ==
    ASSUME ConstantsAssumption, SerialsDoNotWrap, Inv, [Next]_vars
    PROVE  Inv'
  <1>1. CASE UNCHANGED vars
    BY <1>1, ZenonT(30) DEF Inv, TypeOK, HistoryFollowsSender, WireFollowsHistory, PartOf,
         Positions, BlockOf, TextFollowsHistory, RecoversWhatWasSent, vars,
         recoveryVars, senderVars
  <1>2. ASSUME NEW v \in Strings \union {Nil}, Set(v) PROVE Inv'
    BY <1>2, SetInv
  <1>3. CASE Send
    BY <1>3, SendInv
  <1>4. CASE SenderRestart
    BY <1>4, SenderRestartInv
  <1>5. ASSUME NEW m \in wire, Receive(m) PROVE Inv'
    BY <1>5, ReceiveInv
  <1>6. CASE Failsafe
    BY <1>6, FailsafeInv
  <1>7. CASE ReceiverRestart
    BY <1>7, ReceiverRestartInv
  <1> QED
    BY <1>1, <1>2, <1>3, <1>4, <1>5, <1>6, <1>7 DEF Next

LEMMA Invariance ==
    ASSUME ConstantsAssumption, SerialsDoNotWrap
    PROVE  Spec => []Inv
  <1>1. Init => Inv
    BY InitInv
  <1>2. Inv /\ [Next]_vars => Inv'
    BY NextInv
  <1> QED
    BY <1>1, <1>2, PTL DEF Spec

\* The state of the transfer keeps its types.
THEOREM TypeCorrect ==
    ASSUME ConstantsAssumption, SerialsDoNotWrap
    PROVE  Spec => []TypeOK
  <1>1. Inv => TypeOK
    BY DEF Inv
  <1> QED
    BY <1>1, Invariance, PTL

\* What the receiver recovers from blocks is what the sender's socket held under
\* the serial number the blocks came with, for all strings, block sizes and
\* orders of arrival, as long as the sender is not restarted and its serial
\* numbers have not come round.
THEOREM RecoversOnlyWhatWasSent ==
    ASSUME ConstantsAssumption, SerialsDoNotWrap
    PROVE  Spec => []RecoversWhatWasSent
  <1>1. Inv => RecoversWhatWasSent
    BY DEF Inv
  <1> QED
    BY <1>1, Invariance, PTL

-----------------------------------------------------------------------------
(***************************************************************************)
(* The transfer implements StringRegister.  Over a link that keeps the order *)
(* the one envelope under way is never older than what was recovered last,   *)
(* so that the reader's place in the history only moves forward.            *)
(***************************************************************************)
WireInOrder ==
    ~Reorder /\ restarts = 0 =>
        /\ \A m, n \in wire : m = n
        /\ \A m \in wire : rFrom <= m.serial

\* Whatever an envelope does to the recovery, only its serial number can become
\* the one that the value has; and if that leaves nil, it stands for nil.
LEMMA ConsumePlace ==
    ASSUME ConstantsAssumption, Inv, NEW m \in wire, Receive(m), rFrom' # rFrom
    PROVE  /\ rFrom' = m.serial
           /\ rValue' = Nil /\ restarts = 0 => history[m.serial + 1] = Nil
  <1>1. CASE ConsumeNil(m)
    <2>1. rFrom' = m.serial /\ m.size = Nil
      BY <1>1 DEF ConsumeNil, recoveryVars
    <2> QED
      BY <2>1 DEF Inv, WireFollowsHistory, PartOf
  <1>2. CASE ConsumeEmpty(m)
    <2>1. rFrom' = m.serial /\ rValue' = <<>>
      BY <1>2 DEF ConsumeEmpty, recoveryVars
    <2>2. <<>> # Nil
      <3>1. <<>> \in Seq(Chars)
        OBVIOUS
      <3> QED
        BY <3>1 DEF ConstantsAssumption
    <2> QED
      BY <2>1, <2>2
  <1>3. CASE ConsumeBlock(m)
    <2>1. rRecovered' /\ rFrom' = m.serial /\ rValue' = rText'
      BY <1>3 DEF ConsumeBlock, recoveryVars
    <2>2. RecoveryOK
      BY <1>3, ConsumeBlockOK
    <2>3. rSize' = m.size /\ rBlocks' = Blocks(m.size) /\ m.size \in Nat
      BY <1>3, <2>1 DEF ConsumeBlock, recoveryVars, Inv, TypeOK
    <2>4. {i \in 1..m.size : BlockOf(i) \in Blocks(m.size)} = 1..m.size
      BY DEF Blocks
    <2>5. rText' \in Seq(Chars)
      <3>1. rText' \in [1..m.size -> Chars]
        BY <2>2, <2>3, <2>4 DEF RecoveryOK
      <3> QED
        BY <2>3, <3>1
    <2> QED
      BY <2>1, <2>5 DEF ConstantsAssumption
  <1> QED
    BY <1>1, <1>2, <1>3 DEF Receive

LEMMA OrderStep ==
    ASSUME ConstantsAssumption, SerialsDoNotWrap, Inv, WireInOrder, [Next]_vars
    PROVE  WireInOrder'
  <1> SUFFICES ASSUME ~Reorder, restarts' = 0
               PROVE  /\ \A m, n \in wire' : m = n
                      /\ \A m \in wire' : rFrom' <= m.serial
    BY DEF WireInOrder
  <1>1. CASE UNCHANGED <<wire, rFrom, restarts>>
    BY <1>1 DEF WireInOrder
  <1>2. CASE Send
    <2>1. wire' = {NextEnvelope} /\ rFrom' = rFrom /\ restarts = 0
      BY <1>2 DEF Send, recoveryVars
    <2>2. NextEnvelope.serial = sSerial
      BY NextEnvelopeOK DEF Inv
    <2>3. rFrom <= sSerial
      BY <2>1 DEF Inv, HistoryFollowsSender, RecoversWhatWasSent, TypeOK
    <2> QED
      BY <2>1, <2>2, <2>3
  <1>3. ASSUME NEW m \in wire, Receive(m)
        PROVE  /\ \A k, n \in wire' : k = n
               /\ \A n \in wire' : rFrom' <= n.serial
    <2>1. wire' = wire /\ restarts = 0
      BY <1>3 DEF Receive, senderVars
    <2>2. \A k, n \in wire : k = n
      BY <2>1 DEF WireInOrder
    <2>3. rFrom' <= m.serial
      <3>1. rFrom <= m.serial /\ m.serial <= m.serial
        BY <2>1 DEF WireInOrder, Inv, TypeOK
      <3> QED
        BY <1>3, <3>1, ConsumePlace
    <2> QED
      BY <2>1, <2>2, <2>3
  <1>4. CASE SenderRestart
    BY <1>4 DEF SenderRestart, Inv, TypeOK
  <1> QED
    BY <1>1, <1>2, <1>3, <1>4 DEF Next, Set, Failsafe, ReceiverRestart, vars,
         senderVars, recoveryVars

\* An envelope that is applied is a read of the value that its string had, or of
\* the one read before; or it leaves the socket alone or nil.
LEMMA ReceiveReads ==
    ASSUME ConstantsAssumption, Inv, WireInOrder, restarts = 0,
           NEW m \in wire, Receive(m)
    PROVE  \/ \E i \in DOMAIN history : Register!Read(i)
           \/ Register!Forget
           \/ UNCHANGED <<history, rFrom + 1, rOut, restarts > 0>>
  <1>1. UNCHANGED <<history, restarts>> /\ Apply
    BY DEF Receive, senderVars
  <1>2. RecoveryOK
    BY ConsumeWholeOK, ConsumeBlockOK DEF Receive
  <1>3. /\ rFrom \in Nat /\ rFrom' \in Nat /\ rFrom' < Len(history)
        /\ rFrom' + 1 \in DOMAIN history
    BY <1>2 DEF RecoveryOK, Inv, TypeOK
  <1>4. ~Reorder => rFrom + 1 <= rFrom' + 1
    <2>1. ~Reorder => rFrom <= rFrom'
      <3>1. ~Reorder => rFrom <= m.serial
        BY DEF WireInOrder
      <3>2. rFrom' # rFrom => rFrom' = m.serial
        BY ConsumePlace
      <3> QED
        BY <1>3, <3>1, <3>2
    <2>2. \A a, b \in Nat : a <= b => a + 1 <= b + 1
      OBVIOUS
    <2> QED
      BY <1>3, <2>1, <2>2
  <1>5. CASE rValue' # Nil
    <2>1. rOut' = history[rFrom' + 1] /\ history[rFrom' + 1] # Nil
      BY <1>1, <1>2, <1>5 DEF Apply, RecoveryOK
    <2>2. Register!Read(rFrom' + 1)
      BY <1>1, <1>4, <2>1 DEF Register!Read
    <2> QED
      BY <1>3, <2>2
  <1>6. CASE rValue' = Nil /\ rFrom' # rFrom
    <2>1. history[rFrom' + 1] = Nil
      BY <1>6, ConsumePlace
    <2>2. Register!Read(rFrom' + 1)
      BY <1>1, <1>4, <1>6, <2>1 DEF Register!Read, Apply
    <2> QED
      BY <1>3, <2>2
  <1>7. CASE rValue' = Nil /\ rFrom' = rFrom
    BY <1>1, <1>7 DEF Register!Forget, Apply
  <1> QED
    BY <1>5, <1>6, <1>7

LEMMA RegisterStep ==
    ASSUME ConstantsAssumption, SerialsDoNotWrap, Inv, WireInOrder, [Next]_vars
    PROVE  [Register!Next]_<<history, rFrom + 1, rOut, restarts > 0>>
  <1>1. CASE restarts # 0 \/ SenderRestart
    <2>1. restarts' > 0
      BY <1>1 DEF Next, Set, Send, SenderRestart, Receive, Failsafe, ReceiverRestart,
           vars, senderVars, Inv, TypeOK
    <2> QED
      BY <2>1 DEF Register!Next, Register!StartAgain
  <1>2. CASE restarts = 0 /\ ~SenderRestart
    <2>1. ASSUME NEW v \in Strings \union {Nil}, Set(v)
          PROVE  Register!Write(v)
      BY <2>1 DEF Set, recoveryVars, Register!Write
    <2>2. ASSUME NEW m \in wire, Receive(m)
          PROVE  [Register!Next]_<<history, rFrom + 1, rOut, restarts > 0>>
      BY <1>2, <2>2, ReceiveReads DEF Register!Next
    <2>3. CASE Send \/ UNCHANGED vars
      BY <2>3 DEF Send, vars, senderVars, recoveryVars
    <2>4. CASE Failsafe \/ ReceiverRestart
      <3>1. /\ UNCHANGED <<history, rFrom, restarts>>
            /\ rOut' = rOut \/ rOut' = Nil
        BY <2>4 DEF Failsafe, ReceiverRestart, senderVars, recoveryVars
      <3> QED
        BY <3>1 DEF Register!Next, Register!Forget
    <2> QED
      BY <1>2, <2>1, <2>2, <2>3, <2>4 DEF Next, Register!Next
  <1> QED
    BY <1>1, <1>2

\* For all strings, block sizes and bounds, whether or not the link reorders and
\* the receiver retains its value, and however often it fails or starts again:
\* what the modules at the two ends see is a register, which shows the writer's
\* values and, over a link that keeps the order, never goes back.
THEOREM TransferIsRegister ==
    ASSUME ConstantsAssumption, SerialsDoNotWrap
    PROVE  Spec => ImplementsRegister
  <1>1. Init => WireInOrder /\ Register!Init
    BY DEF Init, WireInOrder, Register!Init
  <1>2. Inv /\ WireInOrder /\ [Next]_vars => WireInOrder'
    BY OrderStep
  <1>3. Inv /\ WireInOrder /\ [Next]_vars
          => [Register!Next]_<<history, rFrom + 1, rOut, restarts > 0>>
    BY RegisterStep
  <1> QED
    BY <1>1, <1>2, <1>3, Invariance, PTL DEF Spec, ImplementsRegister, Register!Spec
=============================================================================
