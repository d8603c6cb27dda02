----------------------- MODULE XleSecureChannelProofs -----------------------
(***************************************************************************)
(* Proofs that XleSecureChannel has its safety properties, for every clock  *)
(* bound, number of handshakes, restarts and packets and for every mixture  *)
(* of link faults.  One inductive invariant, Inv, carries all of them.      *)
(***************************************************************************)
EXTENDS XleSecureChannel, TLAPS

-----------------------------------------------------------------------------
(***************************************************************************)
(* The inductive invariant.                                                *)
(***************************************************************************)

\* A blob in transit is one the other end once offered, and a handshake ID was
\* given out before.
BlobsAreGenuine ==
    /\ mRequest \in requests \union {Nil}
    /\ sSeen \in requests \union {Nil, Garbage}
    /\ sResponse \in responses \union {Nil}
    /\ mSeen \in responses \union {Nil, Garbage}
    /\ \A q \in requests : q.hid <= lastHid
    /\ \A r \in responses : r.hid <= lastHid /\ 0 < r.run /\ r.run <= lastRun

\* The master's three sessions come from handshakes started one after another,
\* and the candidate's is the latest.
HandshakesInOrder ==
    /\ mNext # Nil => mNext.hid = lastHid
    /\ mActive # Nil =>
         mActive.hid <= lastHid /\ (mNext # Nil => mActive.hid < mNext.hid)
    /\ mPrevious # Nil =>
         /\ mPrevious.hid <= lastHid
         /\ mNext # Nil => mPrevious.hid < mNext.hid
         /\ mActive # Nil => mPrevious.hid < mActive.hid

\* The slave answered those handshakes in the same order: when the candidate's
\* handshake was started, the active session already had its response.
AnswersInOrder ==
    /\ \A r \in responses :
         mNext # Nil /\ mActive # Nil /\ r.hid = mNext.hid => mActive.run < r.run
    /\ mPrevious # Nil /\ mActive # Nil => mPrevious.run < mActive.run

\* The slave's candidate is newer than its active session.
SlaveRunsInOrder ==
    /\ sNext # Nil => sNext.run <= lastRun
    /\ sActive # Nil =>
         sActive.run <= lastRun /\ (sNext # Nil => sActive.run < sNext.run)

\* What the slave delivered: nothing of the candidate, and nothing of the
\* active session beyond its receiver's sequence number.
SlaveReceived ==
    \A i \in DOMAIN sGot :
      /\ sGot[i].run <= lastRun
      /\ sNext # Nil => sGot[i].run < sNext.run
      /\ sActive # Nil =>
           \/ sGot[i].run < sActive.run
           \/ sGot[i].run = sActive.run /\ sGot[i].seq <= sActive.rx

\* What the master delivered, likewise.
MasterReceived ==
    \A i \in DOMAIN mGot :
      /\ mGot[i].hid <= lastHid
      /\ mNext # Nil => mGot[i].hid # mNext.hid
      /\ mActive # Nil /\ mGot[i].hid = mActive.hid => mGot[i].seq <= mActive.rx
      /\ mPrevious # Nil /\ mGot[i].hid = mPrevious.hid =>
           mGot[i].seq <= mPrevious.rx

\* The master makes packets only with sessions it has activated, numbered up
\* to the transmitter's sequence number.
MasterSent ==
    /\ mActive # Nil => KeyOf(mActive) \in activated
    /\ \A p \in toSlave :
         /\ p.hid <= lastHid
         /\ KeyOf(p) \in activated
         /\ mNext # Nil => p.hid # mNext.hid
         /\ mActive # Nil /\ p.hid = mActive.hid => p.seq <= mActive.tx

\* The slave never makes a packet with a session older than its active one.
SlaveSent ==
    \A p \in toMaster :
      /\ p.run <= lastRun
      /\ sActive # Nil => p.run <= sActive.run
      /\ sActive # Nil /\ p.run = sActive.run => p.seq <= sActive.tx
      /\ sNext # Nil => p.run <= sNext.run
      /\ sNext # Nil /\ p.run = sNext.run => p.seq <= sNext.tx

\* The key store holds every handshake ID the slave answered.
AnsweredIdsStored == KeyStore => \A r \in responses : r.hid \in usedIds

Inv ==
    /\ TypeOK
    /\ BlobsAreGenuine /\ HandshakesInOrder /\ AnswersInOrder
    /\ ActiveSessionsHaveKeys /\ KeysAgree
    /\ SlaveRunsInOrder /\ SlaveReceived /\ SlaveInOrder
    /\ MasterSent /\ SlaveFollowsMaster
    /\ MasterReceived /\ SlaveSent
    /\ AnsweredIdsStored /\ OneAnswerPerHandshake
    /\ OffersMatchCandidates

-----------------------------------------------------------------------------
(***************************************************************************)
(* Types.                                                                  *)
(***************************************************************************)

\* What a link hands over is a value the other end once had on its socket, or
\* a damaged one, or nil.
LEMMA InputTypes ==
    ASSUME TypeOK
    PROVE  /\ ResponseInputs \subseteq Response \union {Nil, Garbage}
           /\ RequestInputs \subseteq Request \union {Nil, Garbage}
  BY DEF TypeOK, ResponseInputs, RequestInputs

\* The record updates the sessions go through keep them sessions.
LEMMA SessionTypes ==
    ASSUME TypeOK
    PROVE  /\ \A mode \in Modes : NewMasterSession(mode) \in MasterSession
           /\ \A r \in Request : NewSlaveSession(r) \in SlaveSession
           /\ \A s \in MasterSession : Sent(s) \in MasterSession /\ PacketOf(s) \in Packet
           /\ \A s \in SlaveSession : Sent(s) \in SlaveSession /\ PacketOf(s) \in Packet
           /\ \A s \in MasterSession, p \in Packet : Received(s, p) \in MasterSession
           /\ \A s \in SlaveSession, p \in Packet : Received(s, p) \in SlaveSession
           /\ \A s \in MasterSession \union {Nil}, v \in Response \union {Nil, Garbage} :
                WithResponse(s, v) \in MasterSession \union {Nil}
<1>1. \A mode \in Modes : NewMasterSession(mode) \in MasterSession
  BY DEF TypeOK, NewMasterSession, MasterSession, Modes
<1>2. \A r \in Request : NewSlaveSession(r) \in SlaveSession
  BY DEF TypeOK, NewSlaveSession, SlaveSession, Request
<1>3. \A s \in MasterSession : Sent(s) \in MasterSession /\ PacketOf(s) \in Packet
  BY DEF Sent, PacketOf, MasterSession, Packet
<1>4. \A s \in SlaveSession : Sent(s) \in SlaveSession /\ PacketOf(s) \in Packet
  BY DEF Sent, PacketOf, SlaveSession, Packet
<1>5. \A s \in MasterSession, p \in Packet : Received(s, p) \in MasterSession
  BY DEF Received, MasterSession, Packet
<1>6. \A s \in SlaveSession, p \in Packet : Received(s, p) \in SlaveSession
  BY DEF Received, SlaveSession, Packet
<1>7. \A s \in MasterSession \union {Nil}, v \in Response \union {Nil, Garbage} :
        WithResponse(s, v) \in MasterSession \union {Nil}
  BY NilAssumption DEF WithResponse, Accepts, MasterSession, Response
<1>8. QED
  BY <1>1, <1>2, <1>3, <1>4, <1>5, <1>6, <1>7

\* A session's key stays when its transmitter or its receiver moves on.
LEMMA SessionFields ==
    \A s \in MasterSession \union SlaveSession :
      /\ s # Nil
      /\ s.hid \in Nat /\ s.run \in Nat /\ s.tx \in Nat /\ s.rx \in Nat
      /\ Sent(s) # Nil /\ SameKey(Sent(s), s)
      /\ Sent(s).tx = s.tx + 1 /\ Sent(s).rx = s.rx
      /\ SameKey(PacketOf(s), s) /\ PacketOf(s).seq = s.tx + 1
      /\ \A p \in Packet : /\ Received(s, p) # Nil /\ SameKey(Received(s, p), s)
                           /\ Received(s, p).tx = s.tx /\ Received(s, p).rx = p.seq
<1>1. ASSUME NEW s \in MasterSession, NEW p \in Packet
      PROVE  /\ s # Nil
             /\ s.hid \in Nat /\ s.run \in Nat /\ s.tx \in Nat /\ s.rx \in Nat
             /\ Sent(s) # Nil /\ SameKey(Sent(s), s)
             /\ Sent(s).tx = s.tx + 1 /\ Sent(s).rx = s.rx
             /\ Received(s, p) # Nil /\ SameKey(Received(s, p), s)
             /\ Received(s, p).tx = s.tx /\ Received(s, p).rx = p.seq
  BY NilAssumption DEF MasterSession, Packet, Sent, Received, SameKey
<1>2. ASSUME NEW s \in SlaveSession, NEW p \in Packet
      PROVE  /\ s # Nil
             /\ s.hid \in Nat /\ s.run \in Nat /\ s.tx \in Nat /\ s.rx \in Nat
             /\ Sent(s) # Nil /\ SameKey(Sent(s), s)
             /\ Sent(s).tx = s.tx + 1 /\ Sent(s).rx = s.rx
             /\ Received(s, p) # Nil /\ SameKey(Received(s, p), s)
             /\ Received(s, p).tx = s.tx /\ Received(s, p).rx = p.seq
  BY NilAssumption DEF SlaveSession, Packet, Sent, Received, SameKey
<1>3. [hid |-> 0, run |-> 0, seq |-> 0] \in Packet
  BY DEF Packet
<1>4. \A s : SameKey(PacketOf(s), s) /\ PacketOf(s).seq = s.tx + 1
  BY DEF PacketOf, SameKey
<1>5. QED
  BY <1>1, <1>2, <1>3, <1>4

LEMMA PacketFields ==
    \A p \in Packet : p.hid \in Nat /\ p.run \in Nat /\ p.seq \in Nat
  BY DEF Packet

\* What start_handshake() leaves behind, as far as the invariant can tell.
LEMMA StartHandshakeFacts ==
    ASSUME TypeOK, NEW mode \in Modes, StartHandshake(mode)
    PROVE  /\ lastHid' = lastHid + 1
           /\ mNext' \in MasterSession /\ mNext' # Nil
           /\ mNext'.hid = lastHid' /\ mNext'.run = 0
           /\ mNext'.tx = 0 /\ mNext'.rx = 0
           /\ mRequest' \in Request /\ mRequest' # Nil /\ mRequest'.hid = lastHid'
           /\ requests' = requests \union {mRequest'}
  BY NilAssumption
  DEF TypeOK, StartHandshake, NewMasterSession, MasterSession, Request, Modes

\* What shift_sessions() leaves behind at the master.
LEMMA MasterShiftFacts ==
    ASSUME TypeOK, NEW s \in MasterSession, MasterShift(s)
    PROVE  /\ mPrevious' = mActive
           /\ mActive' = s
           /\ activated' = activated \union {KeyOf(s)}
           /\ \/ \E mode \in Modes : StartHandshake(mode)
              \/ UNCHANGED <<requests, lastHid>> /\ mNext' = Nil /\ mRequest' = Nil
  BY DEF MasterShift, Modes, KeyOf

LEMMA MasterShiftTypes ==
    ASSUME TypeOK, NEW s \in MasterSession, MasterShift(s)
    PROVE  /\ mPrevious' \in MasterSession \union {Nil}
           /\ mActive' \in MasterSession \union {Nil}
           /\ mNext' \in MasterSession \union {Nil}
           /\ mRequest' \in Request \union {Nil}
           /\ requests' \subseteq Request /\ lastHid' \in Nat
           /\ activated' \subseteq [hid : Nat, run : Nat]
<1>1. KeyOf(s) \in [hid : Nat, run : Nat]
  BY DEF KeyOf, MasterSession
<1>2. /\ mNext' \in MasterSession \union {Nil}
      /\ mRequest' \in Request \union {Nil}
      /\ requests' \subseteq Request /\ lastHid' \in Nat
  <2>1. ASSUME NEW mode \in Modes, StartHandshake(mode)
        PROVE  <1>2!:
    BY <2>1, StartHandshakeFacts DEF TypeOK
  <2>2. QED
    BY <2>1, MasterShiftFacts DEF TypeOK
<1>3. QED
  BY <1>1, <1>2, MasterShiftFacts DEF TypeOK

LEMMA TypeStep ==
    ASSUME TypeOK, [Next]_vars
    PROVE  TypeOK'
<1> USE DEF clockVars, masterVars, slaveVars
<1>1. CASE Tick
  BY <1>1 DEF Tick, TypeOK
<1>2. ASSUME NEW v \in ResponseInputs, MasterProcess(v)
      PROVE  TypeOK'
  <2>1. mSeen' \in Response \union {Nil, Garbage}
    BY <1>2, InputTypes DEF MasterProcess
  <2>2. /\ mNext' \in MasterSession \union {Nil}
        /\ mRequest' \in Request \union {Nil}
        /\ requests' \subseteq Request /\ lastHid' \in Nat
    <3>1. CASE StartHandshake("Standby")
      BY <3>1, StartHandshakeFacts DEF Modes, TypeOK
    <3>2. CASE ~StartHandshake("Standby")
      BY <1>2, <3>2, InputTypes, SessionTypes DEF MasterProcess, TypeOK
    <3>3. QED
      BY <3>1, <3>2
  <2>3. QED
    BY <1>2, <2>1, <2>2 DEF MasterProcess, TypeOK
<1>3. ASSUME NEW v \in ResponseInputs, MasterStart(v)
      PROVE  TypeOK'
  BY <1>3, InputTypes, StartHandshakeFacts DEF MasterStart, TypeOK, Modes
<1>4. ASSUME NEW v \in ResponseInputs, MasterNullCandidate(v)
      PROVE  TypeOK'
  BY <1>4 DEF MasterNullCandidate, TypeOK
<1>5. CASE MasterEncrypt
  <2> DEFINE s == IF Connected(mNext) THEN mNext ELSE mActive
  <2>1. s \in MasterSession /\ toSlave' \subseteq Packet
    BY <1>5, SessionTypes DEF MasterEncrypt, TypeOK
  <2>2. CASE MasterShift(Sent(s))
    <3>1. Sent(s) \in MasterSession
      BY <2>1, SessionTypes
    <3> QED
      BY <1>5, <2>1, <2>2, <3>1, MasterShiftTypes DEF MasterEncrypt, TypeOK
  <2>3. CASE ~MasterShift(Sent(s))
    BY <1>5, <2>1, <2>3, SessionTypes DEF MasterEncrypt, TypeOK
  <2>4. QED
    BY <2>2, <2>3
<1>6. ASSUME NEW p \in toMaster, MasterDecrypt(p)
      PROVE  TypeOK'
  <2>1. p \in Packet
    BY DEF TypeOK
  <2>2. mGot' \in Seq(Packet)
    BY <1>6, <2>1 DEF MasterDecrypt, TypeOK
  <2>3. CASE CanDecrypt(mNext, p) /\ MasterShift(Received(mNext, p))
    <3>1. Received(mNext, p) \in MasterSession
      BY <2>1, <2>3, SessionTypes DEF CanDecrypt, Connected, TypeOK
    <3> QED
      BY <1>6, <2>2, <2>3, <3>1, MasterShiftTypes DEF MasterDecrypt, TypeOK
  <2>4. CASE ~(CanDecrypt(mNext, p) /\ MasterShift(Received(mNext, p)))
    BY <1>6, <2>1, <2>2, <2>4, SessionTypes
    DEF MasterDecrypt, CanDecrypt, Connected, TypeOK
  <2>5. QED
    BY <2>3, <2>4
<1>7. CASE MasterDisconnect
  BY <1>7 DEF MasterDisconnect, TypeOK
<1>8. CASE MasterRestart
  BY <1>8, StartHandshakeFacts DEF MasterRestart, TypeOK, Modes
<1>9. ASSUME NEW v \in RequestInputs, SlaveProcess(v)
      PROVE  TypeOK'
  <2>1. v \in Request \union {Nil, Garbage}
    BY InputTypes
  <2>2. CASE Consumes(v)
    <3>1. v \in Request /\ v.hid \in Nat
      BY <2>1, <2>2 DEF Consumes, Considers, Request
    <3>2. NewSlaveSession(v) \in SlaveSession
      BY <3>1, SessionTypes
    <3>3. CASE Answer(v)
      <4>1. /\ sNext' \in SlaveSession /\ lastRun' \in Nat
            /\ sResponse' \in Response /\ responses' \subseteq Response
        BY <3>1, <3>2, <3>3
        DEF Answer, NewSlaveSession, TypeOK, Response, SlaveSession
      <4>2. usedIds' \subseteq Nat /\ sRejected' \in Request \union {Nil, Garbage}
        BY <1>9, <2>2, <3>1, <3>3 DEF SlaveProcess, Answer, TypeOK
      <4>3. QED
        BY <1>9, <2>1, <4>1, <4>2 DEF SlaveProcess, TypeOK
    <3>4. CASE Reject(v)
      BY <1>9, <2>1, <2>2, <3>1, <3>4 DEF SlaveProcess, Reject, TypeOK
    <3>5. QED
      BY <1>9, <2>2, <3>3, <3>4 DEF SlaveProcess, Consumes
  <2>3. CASE ~Consumes(v)
    BY <1>9, <2>1, <2>3, ZenonT(30) DEF SlaveProcess, Reject, TypeOK
  <2>4. QED
    BY <2>2, <2>3
<1>10. CASE SlaveEncrypt
  BY <1>10, SessionTypes DEF SlaveEncrypt, TypeOK
<1>11. ASSUME NEW p \in toSlave, SlaveDecrypt(p)
       PROVE  TypeOK'
  BY <1>11, SessionTypes DEF SlaveDecrypt, CanDecrypt, Connected, TypeOK
<1>12. CASE SlaveDisconnect
  BY <1>12 DEF SlaveDisconnect, TypeOK
<1>13. CASE SlaveRestart
  BY <1>13 DEF SlaveRestart, TypeOK
<1>14. CASE UNCHANGED vars
  BY <1>14 DEF vars, TypeOK
<1>15. QED
  BY <1>1, <1>2, <1>3, <1>4, <1>5, <1>6, <1>7, <1>8, <1>9, <1>10, <1>11, <1>12,
     <1>13, <1>14 DEF Next, MasterStep, SlaveStep

LEMMA TypeInit == Init => TypeOK
  BY DEF Init, TypeOK, MasterSession, Request, Modes

\* The components' states have the types their classes declare.
THEOREM TypeCorrect == Spec => []TypeOK
  BY TypeInit, TypeStep, PTL DEF Spec

-----------------------------------------------------------------------------
(***************************************************************************)
(* The invariant is inductive: one lemma per action.                       *)
(***************************************************************************)

\* A receiver's history grows at its end.
LEMMA AppendFacts ==
    ASSUME NEW got \in Seq(Packet), NEW p \in Packet
    PROVE  /\ DOMAIN got \subseteq DOMAIN Append(got, p)
           /\ \A i \in DOMAIN got : Append(got, p)[i] = got[i] /\ i < Len(got) + 1
           /\ Append(got, p)[Len(got) + 1] = p
           /\ DOMAIN Append(got, p) = DOMAIN got \union {Len(got) + 1}
  OBVIOUS

LEMMA InvInit == Init => Inv
<1> SUFFICES ASSUME Init PROVE Inv
  OBVIOUS
<1>1. TypeOK
  BY TypeInit
<1>2. mRequest # Nil /\ mNext # Nil
  BY NilAssumption DEF Init, MasterSession, Request, Modes
<1>3. QED
  BY <1>1, <1>2
  DEF Init, Inv, BlobsAreGenuine, HandshakesInOrder, AnswersInOrder,
      ActiveSessionsHaveKeys, KeysAgree, MasterSessions, SlaveRunsInOrder,
      SlaveReceived, SlaveInOrder, MasterSent, SlaveFollowsMaster,
      MasterReceived, SlaveSent, AnsweredIdsStored, OneAnswerPerHandshake,
      OffersMatchCandidates

LEMMA SlaveEncryptInv ==
    ASSUME Inv, TypeOK', SlaveEncrypt
    PROVE  Inv'
<1> USE DEF SlaveEncrypt, masterVars, clockVars
<1>1. BlobsAreGenuine' /\ HandshakesInOrder' /\ AnswersInOrder'
  BY DEF Inv, BlobsAreGenuine, HandshakesInOrder, AnswersInOrder
<1>2. ActiveSessionsHaveKeys' /\ KeysAgree' /\ MasterSent' /\ MasterReceived'
  BY DEF Inv, ActiveSessionsHaveKeys, KeysAgree, MasterSessions, MasterSent, MasterReceived, KeyOf
<1>3. SlaveRunsInOrder' /\ SlaveReceived' /\ SlaveInOrder'
  BY SessionFields DEF Inv, TypeOK, SlaveRunsInOrder, SlaveReceived, SlaveInOrder, SameKey
<1>4. SlaveFollowsMaster' /\ OffersMatchCandidates'
  BY SessionFields DEF Inv, TypeOK, SlaveFollowsMaster, OffersMatchCandidates, KeyOf, SameKey
<1>5. SlaveSent'
  BY SessionFields, PacketFields, SMTT(30) DEF Inv, TypeOK, SlaveSent, SlaveRunsInOrder, SameKey
<1>6. AnsweredIdsStored' /\ OneAnswerPerHandshake'
  BY DEF Inv, AnsweredIdsStored, OneAnswerPerHandshake
<1>7. QED
  BY <1>1, <1>2, <1>3, <1>4, <1>5, <1>6 DEF Inv

LEMMA SlaveDecryptInv ==
    ASSUME Inv, TypeOK', NEW p \in toSlave, SlaveDecrypt(p)
    PROVE  Inv'
<1> USE DEF SlaveDecrypt, masterVars, clockVars
<1>1. BlobsAreGenuine' /\ HandshakesInOrder' /\ AnswersInOrder'
  BY DEF Inv, BlobsAreGenuine, HandshakesInOrder, AnswersInOrder
<1>2. ActiveSessionsHaveKeys' /\ KeysAgree' /\ MasterSent' /\ MasterReceived'
  BY DEF Inv, ActiveSessionsHaveKeys, KeysAgree, MasterSessions, MasterSent, MasterReceived, KeyOf
<1>3. p \in Packet /\ KeyOf(p) \in activated
  BY DEF Inv, TypeOK, MasterSent
<1>4. /\ sActive' \in SlaveSession /\ sActive' # Nil
      /\ SameKey(sActive', p) /\ sActive'.rx = p.seq
      /\ \/ /\ CanDecrypt(sActive, p) /\ sNext' = sNext /\ sResponse' = sResponse
            /\ sActive'.tx = sActive.tx
         \/ /\ CanDecrypt(sNext, p) /\ sNext' = Nil /\ sResponse' = Nil
            /\ sActive'.tx = sNext.tx
  <2>1. CASE CanDecrypt(sActive, p)
    <3>1. sActive \in SlaveSession /\ sActive' = Received(sActive, p)
      BY <2>1 DEF Inv, TypeOK, CanDecrypt, Connected
    <3>2. QED
      BY <1>3, <2>1, <3>1, SessionFields, SessionTypes, ZenonT(30) DEF Inv, CanDecrypt, SameKey
  <2>2. CASE ~CanDecrypt(sActive, p)
    <3>1. sNext \in SlaveSession /\ sActive' = Received(sNext, p) /\ CanDecrypt(sNext, p)
      BY <2>2 DEF Inv, TypeOK, CanDecrypt, Connected
    <3>2. QED
      BY <1>3, <2>2, <3>1, SessionFields, SessionTypes DEF Inv, CanDecrypt, SameKey
  <2>3. QED
    BY <2>1, <2>2
<1>5. SlaveRunsInOrder'
  BY <1>3, <1>4 DEF Inv, TypeOK, SlaveRunsInOrder, CanDecrypt, Connected, SameKey, SlaveSession, Packet
<1>6. \A i \in DOMAIN sGot :
        \/ sGot[i].run < p.run
        \/ sGot[i].run = p.run /\ sGot[i].seq < p.seq
  <2>1. \A i \in DOMAIN sGot : sGot[i] \in Packet
    BY DEF Inv, TypeOK
  <2>2. CASE CanDecrypt(sActive, p)
    <3>1. sActive # Nil /\ sActive.run = p.run /\ sActive.rx < p.seq /\ sActive.rx \in Nat
      BY <2>2, SessionFields DEF Inv, TypeOK, CanDecrypt, Connected, SameKey
    <3>2. QED
      BY <1>3, <2>1, <3>1, PacketFields DEF Inv, SlaveReceived
  <2>3. CASE CanDecrypt(sNext, p)
    BY <2>1, <2>3, PacketFields DEF Inv, SlaveReceived, CanDecrypt, Connected, SameKey
  <2>4. QED
    BY <1>4, <2>2, <2>3
<1>7. SlaveReceived' /\ SlaveInOrder'
  <2>1. \A i \in DOMAIN sGot' : \/ i \in DOMAIN sGot /\ sGot'[i] = sGot[i]
                                \/ i = Len(sGot) + 1 /\ sGot'[i] = p
    BY <1>3, AppendFacts DEF Inv, TypeOK
  <2>2. \A i, j \in DOMAIN sGot' : i < j => i \in DOMAIN sGot /\ sGot'[i] = sGot[i]
    BY <1>3, <2>1, AppendFacts DEF Inv, TypeOK
  <2>3. SlaveInOrder'
    BY <1>6, <2>1, <2>2 DEF Inv, SlaveInOrder
  <2>4. p.run <= lastRun /\ (sNext' # Nil => p.run < sNext'.run) /\ lastRun' = lastRun
    BY <1>3, <1>4, SessionFields, PacketFields DEF Inv, TypeOK, SlaveRunsInOrder, CanDecrypt, Connected, SameKey
  <2>5. \A i \in DOMAIN sGot : sGot[i] \in Packet
    BY DEF Inv, TypeOK
  <2>6. SlaveReceived'
    <3>1. /\ p.run = sActive'.run /\ p.seq = sActive'.rx
          /\ p.run \in Nat /\ p.seq \in Nat
      BY <1>3, <1>4, PacketFields DEF SameKey
    <3>2. ASSUME NEW i \in DOMAIN sGot
          PROVE  /\ sGot[i].run <= p.run /\ sGot[i].run \in Nat
                 /\ sGot[i].run < p.run \/ (sGot[i].run = p.run /\ sGot[i].seq <= p.seq)
      <4>1. sGot[i].run \in Nat /\ sGot[i].seq \in Nat
        BY <2>5, PacketFields
      <4>2. sGot[i].run < p.run \/ (sGot[i].run = p.run /\ sGot[i].seq < p.seq)
        BY <1>6
      <4>3. QED
        BY <3>1, <4>1, <4>2
    <3>3. ASSUME NEW i \in DOMAIN sGot'
          PROVE  /\ sGot'[i].run <= p.run /\ sGot'[i].run \in Nat
                 /\ sGot'[i].run < p.run \/ (sGot'[i].run = p.run /\ sGot'[i].seq <= p.seq)
      <4>1. CASE i \in DOMAIN sGot /\ sGot'[i] = sGot[i]
        BY <3>2, <4>1
      <4>2. CASE sGot'[i] = p
        BY <3>1, <4>2
      <4>3. QED
        BY <2>1, <4>1, <4>2
    <3>4. lastRun' \in Nat /\ (sNext' # Nil => sNext'.run \in Nat)
      BY SessionFields DEF TypeOK
    <3>5. QED
      BY <2>4, <3>1, <3>3, <3>4 DEF SlaveReceived
  <2>7. QED
    BY <2>3, <2>6
<1>8. SlaveFollowsMaster' /\ OffersMatchCandidates'
  BY <1>3, <1>4 DEF Inv, SlaveFollowsMaster, OffersMatchCandidates, SameKey, KeyOf
<1>9. SlaveSent'
  BY <1>3, <1>4 DEF Inv, TypeOK, SlaveSent, SlaveRunsInOrder, CanDecrypt, Connected, SameKey,
      SlaveSession, Packet
<1>10. AnsweredIdsStored' /\ OneAnswerPerHandshake'
  BY DEF Inv, AnsweredIdsStored, OneAnswerPerHandshake
<1>11. QED
  BY <1>1, <1>2, <1>5, <1>7, <1>8, <1>9, <1>10 DEF Inv

LEMMA SlaveProcessInv ==
    ASSUME Inv, TypeOK', NEW v \in RequestInputs, SlaveProcess(v)
    PROVE  Inv'
<1> USE DEF masterVars, clockVars
<1>1. v \in requests \union {Nil, Garbage}
  BY DEF Inv, BlobsAreGenuine, RequestInputs
<1>2. \/ /\ Answer(v) /\ v \in requests /\ ~Reused(v)
         /\ usedIds' = IF KeyStore THEN usedIds \union {v.hid} ELSE usedIds
      \/ Reject(v) /\ usedIds \subseteq usedIds'
      \/ UNCHANGED <<sNext, sResponse, usedIds, lastRun, responses>>
  BY <1>1 DEF SlaveProcess, Consumes, Considers
<1>3. /\ UNCHANGED <<clockVars, masterVars, toSlave, toMaster, sActive, sGot>>
      /\ sSeen' = v
  BY DEF SlaveProcess
<1>4. /\ responses \subseteq responses' /\ lastRun <= lastRun'
      /\ sNext' # Nil => \/ UNCHANGED <<sNext, lastRun>>
                         \/ sNext'.run = lastRun + 1 /\ lastRun' = lastRun + 1
      /\ \A r \in responses' \ responses :
           /\ v \in requests /\ r.hid = v.hid /\ r.run = lastRun + 1
           /\ lastRun' = lastRun + 1 /\ ~Reused(v) /\ (KeyStore => v.hid \in usedIds')
  BY <1>2 DEF Answer, NewSlaveSession, Reject, Inv, TypeOK
<1>5. BlobsAreGenuine'
  BY <1>1, <1>2, <1>3, <1>4, SMTT(30) DEF Inv, TypeOK, BlobsAreGenuine, Answer, Reject, Response
<1>6. HandshakesInOrder' /\ ActiveSessionsHaveKeys' /\ MasterSent' /\ MasterReceived'
  BY <1>3 DEF Inv, HandshakesInOrder, ActiveSessionsHaveKeys, MasterSent, MasterReceived, KeyOf
<1>7. KeysAgree'
  BY <1>3, <1>4 DEF Inv, KeysAgree, MasterSessions
<1>8. AnswersInOrder'
  BY <1>3, <1>4, NilAssumption, SMTT(30)
  DEF Inv, TypeOK, AnswersInOrder, ActiveSessionsHaveKeys, KeysAgree, MasterSessions,
      BlobsAreGenuine, MasterSession, Response
<1>9. SlaveRunsInOrder' /\ SlaveReceived' /\ SlaveInOrder' /\ SlaveFollowsMaster'
  <2>1. \A i \in DOMAIN sGot : sGot[i] \in Packet
    BY DEF Inv, TypeOK
  <2>2. QED
    BY <1>3, <1>4, <2>1, SessionFields, PacketFields
    DEF Inv, TypeOK, SlaveRunsInOrder, SlaveReceived, SlaveInOrder, SlaveFollowsMaster, KeyOf
<1>10. SlaveSent'
  <2>1. CASE Answer(v)
    BY <1>3, <2>1, NilAssumption
    DEF Inv, TypeOK, Answer, NewSlaveSession, SlaveSent, SlaveSession, Packet
  <2>2. CASE ~Answer(v)
    BY <1>2, <1>3, <2>2 DEF Inv, TypeOK, Reject, SlaveSent, SlaveSession, Packet
  <2>3. QED
    BY <2>1, <2>2
<1>11. AnsweredIdsStored'
  BY <1>2, <1>4 DEF Inv, AnsweredIdsStored
<1>12. OneAnswerPerHandshake'
  <2>1. CASE Answer(v)
    <3>1. PICK r : responses' = responses \union {r} /\ r.hid = v.hid
      BY <2>1 DEF Answer, NewSlaveSession
    <3>2. KeyStore => v.hid \notin usedIds
      BY <1>2, <2>1 DEF Reused, Reject, Answer, NewSlaveSession, Inv, TypeOK
    <3>3. QED
      BY <3>1, <3>2 DEF Inv, OneAnswerPerHandshake, AnsweredIdsStored
  <2>2. CASE ~Answer(v)
    BY <1>2, <2>2 DEF Inv, OneAnswerPerHandshake, Reject
  <2>3. QED
    BY <2>1, <2>2
<1>13. OffersMatchCandidates'
  <2>1. CASE Answer(v)
    BY <1>3, <2>1, NilAssumption
    DEF Inv, TypeOK, OffersMatchCandidates, Answer, NewSlaveSession, SameKey, SlaveSession, Response
  <2>2. CASE ~Answer(v)
    BY <1>2, <1>3, <2>2 DEF Inv, OffersMatchCandidates, Reject, SameKey
  <2>3. QED
    BY <2>1, <2>2
<1>14. QED
  BY <1>5, <1>6, <1>7, <1>8, <1>9, <1>10, <1>11, <1>12, <1>13 DEF Inv

\* Nothing at the slave, and nothing of what it sent, changes in a step of the
\* master: the slave's half of the invariant stays.
LEMMA SlaveHalf ==
    ASSUME Inv, UNCHANGED <<slaveVars, toMaster>>, activated \subseteq activated'
    PROVE  /\ SlaveRunsInOrder' /\ SlaveReceived' /\ SlaveInOrder' /\ SlaveSent'
           /\ SlaveFollowsMaster' /\ AnsweredIdsStored' /\ OneAnswerPerHandshake'
<1> USE DEF Inv, slaveVars
<1>1. SlaveRunsInOrder' /\ SlaveReceived' /\ SlaveInOrder' /\ SlaveSent'
  BY DEF SlaveRunsInOrder, SlaveReceived, SlaveInOrder, SlaveSent
<1>2. SlaveFollowsMaster' /\ AnsweredIdsStored' /\ OneAnswerPerHandshake'
  BY DEF SlaveFollowsMaster, KeyOf, AnsweredIdsStored, OneAnswerPerHandshake
<1>3. QED
  BY <1>1, <1>2

\* A new handshake, which no response, packet or session belongs to yet.
LEMMA NewHandshakeInv ==
    ASSUME Inv, TypeOK', NEW mode \in Modes, StartHandshake(mode),
           mActive' \in {mActive, Nil}, mPrevious' \in {mPrevious, Nil},
           mSeen' \in responses \union {Nil, Garbage},
           UNCHANGED <<slaveVars, toSlave, toMaster, mGot, activated>>
    PROVE  Inv'
<1>1. /\ lastHid' = lastHid + 1 /\ lastHid \in Nat
      /\ mNext' # Nil /\ mNext'.hid = lastHid' /\ mNext'.run = 0
      /\ mRequest' # Nil /\ mRequest'.hid = lastHid'
      /\ requests' = requests \union {mRequest'}
  BY StartHandshakeFacts DEF Inv, TypeOK
<1>2. BlobsAreGenuine'
  <2>1. \A q \in requests' : q.hid <= lastHid'
    BY <1>1 DEF Inv, TypeOK, BlobsAreGenuine, Request
  <2>2. \A r \in responses' : r.hid <= lastHid' /\ 0 < r.run /\ r.run <= lastRun'
    BY <1>1 DEF Inv, TypeOK, BlobsAreGenuine, slaveVars, Response
  <2>3. QED
    BY <1>1, <2>1, <2>2 DEF Inv, BlobsAreGenuine, slaveVars
<1>3. HandshakesInOrder'
  BY <1>1, SessionFields DEF Inv, TypeOK, HandshakesInOrder
<1>4. AnswersInOrder'
  BY <1>1 DEF Inv, TypeOK, AnswersInOrder, BlobsAreGenuine, slaveVars, Response
<1>5. ActiveSessionsHaveKeys' /\ KeysAgree'
  BY <1>1 DEF Inv, ActiveSessionsHaveKeys, KeysAgree, MasterSessions, slaveVars
<1>6. MasterSent'
  BY <1>1, PacketFields, SMTT(30) DEF Inv, TypeOK, MasterSent, KeyOf
<1>7. MasterReceived'
  <2>1. \A i \in DOMAIN mGot : mGot[i] \in Packet
    BY DEF Inv, TypeOK
  <2>2. QED
    BY <1>1, <2>1, PacketFields DEF Inv, MasterReceived
<1>8. OffersMatchCandidates'
  BY <1>1 DEF Inv, OffersMatchCandidates, slaveVars, SameKey
<1>9. QED
  BY <1>2, <1>3, <1>4, <1>5, <1>6, <1>7, <1>8, SlaveHalf DEF Inv

\* shift_sessions() keeps the order of handshakes and of the answers to them.
LEMMA ShiftInv ==
    ASSUME Inv, TypeOK', NEW s \in MasterSession, MasterShift(s),
           mNext \in MasterSession, SameKey(s, mNext), mNext.run # 0,
           UNCHANGED <<slaveVars, toMaster, mSeen>>
    PROVE  /\ BlobsAreGenuine' /\ HandshakesInOrder' /\ AnswersInOrder'
           /\ ActiveSessionsHaveKeys' /\ KeysAgree' /\ OffersMatchCandidates'
           /\ lastHid <= lastHid'
           /\ mNext' # Nil => lastHid < mNext'.hid
<1>1. /\ mActive' = s /\ mPrevious' = mActive
      /\ s # Nil /\ mNext # Nil /\ s.hid = mNext.hid /\ s.run = mNext.run
      /\ s.hid \in Nat /\ s.run \in Nat
  BY MasterShiftFacts, SessionFields DEF Inv, SameKey
<1>2. \/ /\ lastHid' = lastHid + 1 /\ lastHid \in Nat
         /\ mNext' # Nil /\ mNext'.hid = lastHid' /\ mNext'.run = 0
         /\ mRequest' # Nil /\ mRequest'.hid = lastHid'
         /\ requests' = requests \union {mRequest'}
      \/ UNCHANGED <<requests, lastHid>> /\ mNext' = Nil /\ mRequest' = Nil
  BY MasterShiftFacts, StartHandshakeFacts DEF Inv, TypeOK
<1>3. BlobsAreGenuine'
  BY <1>2, SMTT(30) DEF Inv, TypeOK, BlobsAreGenuine, slaveVars, Request, Response
<1>4. HandshakesInOrder'
  BY <1>1, <1>2, SessionFields DEF Inv, TypeOK, HandshakesInOrder
<1>5. ActiveSessionsHaveKeys' /\ KeysAgree'
  BY <1>1, <1>2 DEF Inv, ActiveSessionsHaveKeys, KeysAgree, MasterSessions, slaveVars
<1>6. AnswersInOrder'
  <2>1. mActive # Nil => mActive.run < s.run
    BY <1>1 DEF Inv, KeysAgree, MasterSessions, AnswersInOrder
  <2>2. \A r \in responses : mNext' # Nil => r.hid # mNext'.hid
    BY <1>2 DEF Inv, TypeOK, BlobsAreGenuine, Response
  <2>3. QED
    BY <1>1, <2>1, <2>2 DEF AnswersInOrder, slaveVars
<1>7. OffersMatchCandidates'
  BY <1>2 DEF Inv, OffersMatchCandidates, slaveVars, SameKey
<1>8. lastHid <= lastHid' /\ (mNext' # Nil => lastHid < mNext'.hid)
  BY <1>2 DEF Inv, TypeOK
<1>9. QED
  BY <1>3, <1>4, <1>5, <1>6, <1>7, <1>8

LEMMA MasterProcessInv ==
    ASSUME Inv, TypeOK', NEW v \in ResponseInputs, MasterProcess(v)
    PROVE  Inv'
<1>1. v \in responses \union {Nil, Garbage}
  BY DEF Inv, BlobsAreGenuine, ResponseInputs
<1>2. UNCHANGED <<slaveVars, toSlave, toMaster, mActive, mPrevious, mGot, activated>> /\ mSeen' = v
  BY DEF MasterProcess
<1>3. CASE StartHandshake("Standby")
  BY <1>1, <1>2, <1>3, NewHandshakeInv DEF Modes
<1>4. CASE ~StartHandshake("Standby")
  <2>1. mNext' = WithResponse(mNext, v) /\ UNCHANGED <<mRequest, requests, lastHid>>
    BY <1>4 DEF MasterProcess
  <2>2. \/ mNext' = mNext
        \/ /\ v \in responses /\ mNext # Nil /\ mNext' # Nil
           /\ v.hid = mNext.hid /\ mNext'.hid = mNext.hid /\ mNext'.run = v.run
    <3>1. CASE mNext' # mNext
      <4>1. /\ v # Nil /\ v # Garbage /\ mNext \in MasterSession /\ v.hid = mNext.hid
            /\ mNext' = [mNext EXCEPT !.run = v.run]
        BY <2>1, <3>1 DEF WithResponse, Accepts, Inv, TypeOK
      <4>2. mNext'.hid = mNext.hid /\ mNext'.run = v.run
        BY <4>1 DEF MasterSession
      <4>3. mNext' # Nil /\ mNext # Nil
        <5>1. v.run \in Nat
          BY <4>1, InputTypes DEF Inv, Response
        <5>2. mNext' \in MasterSession
          BY <4>1, <5>1 DEF MasterSession
        <5>3. QED
          BY <4>1, <5>2, SessionFields
      <4>4. QED
        BY <1>1, <4>1, <4>2, <4>3
    <3>2. QED
      BY <3>1
  <2>3. BlobsAreGenuine' /\ HandshakesInOrder' /\ AnswersInOrder'
    BY <1>1, <1>2, <2>1, <2>2
    DEF Inv, BlobsAreGenuine, HandshakesInOrder, AnswersInOrder, slaveVars
  <2>4. ActiveSessionsHaveKeys' /\ KeysAgree'
    BY <1>2, <2>2 DEF Inv, ActiveSessionsHaveKeys, KeysAgree, MasterSessions, slaveVars
  <2>5. MasterSent' /\ MasterReceived'
    BY <1>2, <2>1, <2>2 DEF Inv, MasterSent, MasterReceived, KeyOf
  <2>6. OffersMatchCandidates'
    BY <1>2, <2>1, <2>2 DEF Inv, OffersMatchCandidates, slaveVars, SameKey
  <2>7. QED
    BY <1>2, <2>3, <2>4, <2>5, <2>6, SlaveHalf DEF Inv
<1>5. QED
  BY <1>3, <1>4

LEMMA MasterEncryptInv ==
    ASSUME Inv, TypeOK', MasterEncrypt
    PROVE  Inv'
<1> DEFINE s == IF Connected(mNext) THEN mNext ELSE mActive
<1>1. /\ s \in MasterSession /\ s # Nil
      /\ toSlave' = toSlave \union {PacketOf(s)}
      /\ UNCHANGED <<slaveVars, toMaster, mSeen, mGot>>
  BY SessionFields DEF MasterEncrypt, Connected, Inv, TypeOK
<1>2. /\ Sent(s) \in MasterSession /\ SameKey(Sent(s), s) /\ Sent(s) # Nil
      /\ Sent(s).tx = s.tx + 1 /\ Sent(s).rx = s.rx
      /\ SameKey(PacketOf(s), s) /\ PacketOf(s).seq = s.tx + 1
      /\ s.hid \in Nat /\ s.tx \in Nat
      /\ KeyOf(PacketOf(s)) = KeyOf(s) /\ KeyOf(Sent(s)) = KeyOf(s)
  BY <1>1, SessionTypes, SessionFields DEF Inv, SameKey, KeyOf
<1>3. \A i \in DOMAIN mGot : mGot[i] \in Packet
  BY DEF Inv, TypeOK
<1>4. CASE Connected(mNext)
  <2>1. MasterShift(Sent(s)) /\ s = mNext
    BY <1>4 DEF MasterEncrypt
  <2>2. /\ mPrevious' = mActive /\ mActive' = Sent(s)
        /\ activated' = activated \union {KeyOf(s)}
    BY <1>2, <2>1, MasterShiftFacts DEF Inv
  <2>3. /\ BlobsAreGenuine' /\ HandshakesInOrder' /\ AnswersInOrder'
        /\ ActiveSessionsHaveKeys' /\ KeysAgree' /\ OffersMatchCandidates'
        /\ lastHid <= lastHid'
        /\ mNext' # Nil => lastHid < mNext'.hid
    BY <1>1, <1>2, <1>4, <2>1, ShiftInv DEF Connected
  <2>4. s.hid = lastHid /\ lastHid \in Nat /\ lastHid' \in Nat /\ s.hid <= lastHid'
    BY <1>1, <2>1, <2>3 DEF Inv, TypeOK, HandshakesInOrder
  <2>5. MasterSent'
    <3>1. KeyOf(mActive') \in activated'
      BY <1>2, <2>2
    <3>2. ASSUME NEW p \in toSlave'
          PROVE  /\ p.hid <= lastHid' /\ KeyOf(p) \in activated'
                 /\ mNext' # Nil => p.hid # mNext'.hid
                 /\ p.hid = mActive'.hid => p.seq <= mActive'.tx
      <4>1. CASE p = PacketOf(s)
        BY <1>2, <2>2, <2>3, <2>4, <4>1 DEF SameKey
      <4>2. CASE p \in toSlave
        <5>1. p.hid \in Nat /\ p.hid <= lastHid /\ KeyOf(p) \in activated /\ p.hid # s.hid
          BY <1>1, <2>1, <4>2, PacketFields DEF Inv, TypeOK, MasterSent
        <5>2. QED
          BY <1>2, <2>2, <2>3, <2>4, <5>1 DEF SameKey
      <4>3. QED
        BY <1>1, <4>1, <4>2
    <3>3. QED
      BY <3>1, <3>2 DEF MasterSent, KeyOf
  <2>6. MasterReceived'
    <3>1. \A i \in DOMAIN mGot : mGot[i].hid <= lastHid /\ mGot[i].hid # s.hid /\ mGot[i].hid \in Nat
      BY <1>1, <1>3, <2>1, PacketFields DEF Inv, MasterReceived
    <3>2. QED
      BY <1>1, <1>2, <2>2, <2>3, <2>4, <3>1 DEF Inv, MasterReceived, SameKey
  <2>7. QED
    BY <1>1, <2>2, <2>3, <2>5, <2>6, SlaveHalf DEF Inv
<1>5. CASE ~Connected(mNext)
  <2>1. /\ s = mActive /\ mActive' = Sent(mActive)
        /\ UNCHANGED <<mNext, mPrevious, mRequest, requests, lastHid, activated>>
    BY <1>5 DEF MasterEncrypt
  <2>2. /\ BlobsAreGenuine' /\ HandshakesInOrder' /\ AnswersInOrder'
        /\ ActiveSessionsHaveKeys' /\ KeysAgree' /\ OffersMatchCandidates'
    BY <1>1, <1>2, <2>1
    DEF Inv, BlobsAreGenuine, HandshakesInOrder, AnswersInOrder, ActiveSessionsHaveKeys,
        KeysAgree, MasterSessions, OffersMatchCandidates, SameKey, slaveVars
  <2>3. MasterSent'
    <3>1. s.hid <= lastHid /\ KeyOf(s) \in activated /\ (mNext # Nil => s.hid # mNext.hid)
      BY <1>1, <1>2, <2>1, SessionFields, SMTT(30) DEF Inv, TypeOK, HandshakesInOrder, MasterSent
    <3>2. KeyOf(mActive') \in activated'
      BY <1>2, <2>1, <3>1
    <3>3. ASSUME NEW p \in toSlave'
          PROVE  /\ p.hid <= lastHid' /\ KeyOf(p) \in activated'
                 /\ mNext' # Nil => p.hid # mNext'.hid
                 /\ p.hid = mActive'.hid => p.seq <= mActive'.tx
      <4>1. CASE p = PacketOf(s)
        BY <1>2, <2>1, <3>1, <4>1 DEF SameKey
      <4>2. CASE p \in toSlave
        BY <1>1, <1>2, <2>1, <4>2, PacketFields, SMTT(30) DEF Inv, TypeOK, MasterSent, SameKey
      <4>3. QED
        BY <1>1, <4>1, <4>2
    <3>4. QED
      BY <3>2, <3>3 DEF MasterSent, KeyOf
  <2>4. MasterReceived'
    BY <1>1, <1>2, <2>1 DEF Inv, MasterReceived, SameKey
  <2>5. QED
    BY <1>1, <2>1, <2>2, <2>3, <2>4, SlaveHalf DEF Inv
<1>6. QED
  BY <1>4, <1>5

LEMMA MasterDecryptInv ==
    ASSUME Inv, TypeOK', NEW p \in toMaster, MasterDecrypt(p)
    PROVE  Inv'
<1>1. /\ p \in Packet /\ p.hid \in Nat /\ p.run \in Nat /\ p.seq \in Nat
      /\ UNCHANGED <<slaveVars, toSlave, toMaster, mSeen>>
      /\ mGot' = Append(mGot, p)
  BY PacketFields DEF MasterDecrypt, Inv, TypeOK
<1>2. \A i \in DOMAIN mGot : /\ mGot[i].hid \in Nat /\ mGot[i].seq \in Nat
                            /\ mGot[i] \in Packet
  BY PacketFields DEF Inv, TypeOK
<1>3. \A i \in DOMAIN mGot' : \/ i \in DOMAIN mGot /\ mGot'[i] = mGot[i]
                              \/ mGot'[i] = p
  BY <1>1, AppendFacts DEF Inv, TypeOK
<1>4. ASSUME NEW s, CanDecrypt(s, p), s \in {mActive, mPrevious, mNext}
      PROVE  /\ s \in MasterSession /\ s # Nil /\ SameKey(s, p) /\ s.run # 0 /\ s.rx < p.seq
             /\ Received(s, p) \in MasterSession /\ Received(s, p) # Nil
             /\ SameKey(Received(s, p), s) /\ Received(s, p).rx = p.seq
             /\ Received(s, p).tx = s.tx
             /\ KeyOf(Received(s, p)) = KeyOf(s)
  BY <1>1, <1>4, SessionTypes, SessionFields, ZenonT(30)
  DEF Inv, TypeOK, CanDecrypt, Connected, SameKey, KeyOf
<1>5. CASE CanDecrypt(mActive, p)
  <2>1. /\ mActive' = Received(mActive, p) /\ mPrevious' = Nil
        /\ UNCHANGED <<mNext, mRequest, requests, lastHid, activated>>
    BY <1>5 DEF MasterDecrypt
  <2>2. /\ BlobsAreGenuine' /\ HandshakesInOrder' /\ AnswersInOrder'
        /\ ActiveSessionsHaveKeys' /\ KeysAgree' /\ OffersMatchCandidates'
    BY <1>1, <1>4, <1>5, <2>1
    DEF Inv, BlobsAreGenuine, HandshakesInOrder, AnswersInOrder, ActiveSessionsHaveKeys,
        KeysAgree, MasterSessions, OffersMatchCandidates, SameKey, slaveVars
  <2>3. MasterSent'
    BY <1>1, <1>4, <1>5, <2>1 DEF Inv, MasterSent, SameKey, KeyOf
  <2>4. MasterReceived'
    <3>1. p.hid = mActive.hid /\ p.hid <= lastHid /\ (mNext # Nil => p.hid # mNext.hid)
      BY <1>4, <1>5, SessionFields DEF Inv, TypeOK, HandshakesInOrder, SameKey
    <3>2. mActive'.hid = p.hid /\ mActive'.rx = p.seq /\ mActive.rx \in Nat /\ mActive.rx < p.seq
      BY <1>4, <1>5, <2>1, SessionFields DEF SameKey
    <3>3. QED
      BY <1>1, <1>2, <1>3, <1>5, <2>1, <3>1, <3>2
      DEF Inv, MasterReceived, CanDecrypt, Connected
  <2>5. QED
    BY <1>1, <2>1, <2>2, <2>3, <2>4, SlaveHalf DEF Inv
<1>6. CASE ~CanDecrypt(mActive, p) /\ CanDecrypt(mPrevious, p)
  <2>1. /\ mPrevious' = Received(mPrevious, p)
        /\ UNCHANGED <<mActive, mNext, mRequest, requests, lastHid, activated>>
    BY <1>6 DEF MasterDecrypt
  <2>2. /\ BlobsAreGenuine' /\ HandshakesInOrder' /\ AnswersInOrder'
        /\ ActiveSessionsHaveKeys' /\ KeysAgree' /\ OffersMatchCandidates'
    BY <1>1, <1>4, <1>6, <2>1
    DEF Inv, BlobsAreGenuine, HandshakesInOrder, AnswersInOrder, ActiveSessionsHaveKeys,
        KeysAgree, MasterSessions, OffersMatchCandidates, SameKey, slaveVars
  <2>3. MasterSent'
    BY <1>1, <1>6, <2>1 DEF Inv, MasterSent, KeyOf
  <2>4. MasterReceived'
    <3>1. /\ p.hid = mPrevious.hid /\ p.hid <= lastHid /\ (mNext # Nil => p.hid # mNext.hid)
          /\ mActive # Nil => p.hid # mActive.hid
      BY <1>4, <1>6, SessionFields DEF Inv, TypeOK, HandshakesInOrder, SameKey
    <3>2. /\ mPrevious'.hid = p.hid /\ mPrevious'.rx = p.seq
          /\ mPrevious.rx \in Nat /\ mPrevious.rx < p.seq
      BY <1>4, <1>6, <2>1, SessionFields DEF SameKey
    <3>3. QED
      BY <1>1, <1>2, <1>3, <1>6, <2>1, <3>1, <3>2, SMTT(30)
      DEF Inv, MasterReceived, CanDecrypt, Connected
  <2>5. QED
    BY <1>1, <2>1, <2>2, <2>3, <2>4, SlaveHalf DEF Inv
<1>7. CASE CanDecrypt(mNext, p) /\ MasterShift(Received(mNext, p))
  <2> DEFINE s == Received(mNext, p)
  <2>1. /\ s \in MasterSession /\ mNext \in MasterSession /\ SameKey(s, mNext)
        /\ mNext.run # 0 /\ SameKey(mNext, p) /\ s.rx = p.seq /\ s.tx = mNext.tx
    BY <1>4, <1>7
  <2>2. /\ mPrevious' = mActive /\ mActive' = s
        /\ activated' = activated \union {KeyOf(s)}
    BY <1>7, <2>1, MasterShiftFacts DEF Inv
  <2>3. /\ BlobsAreGenuine' /\ HandshakesInOrder' /\ AnswersInOrder'
        /\ ActiveSessionsHaveKeys' /\ KeysAgree' /\ OffersMatchCandidates'
        /\ lastHid <= lastHid'
        /\ mNext' # Nil => lastHid < mNext'.hid
    BY <1>1, <1>7, <2>1, ShiftInv
  <2>4. /\ mNext # Nil /\ s.hid = p.hid /\ p.hid = lastHid /\ lastHid \in Nat
        /\ lastHid' \in Nat /\ mNext.hid = p.hid
    BY <2>1, SessionFields DEF Inv, TypeOK, HandshakesInOrder, SameKey
  <2>5. MasterSent'
    BY <1>1, <2>2, <2>3, <2>4, PacketFields, SMTT(30) DEF Inv, TypeOK, MasterSent, KeyOf
  <2>6. MasterReceived'
    <3>1. \A i \in DOMAIN mGot : mGot[i].hid <= lastHid /\ mGot[i].hid # p.hid
      BY <2>4 DEF Inv, MasterReceived
    <3>2. ASSUME NEW i \in DOMAIN mGot'
          PROVE  /\ mGot'[i].hid <= lastHid'
                 /\ mNext' # Nil => mGot'[i].hid # mNext'.hid
                 /\ mGot'[i].hid = mActive'.hid => mGot'[i].seq <= mActive'.rx
                 /\ mPrevious' # Nil /\ mGot'[i].hid = mPrevious'.hid =>
                      mGot'[i].seq <= mPrevious'.rx
      <4>1. CASE mGot'[i] = p
        <5>1. mActive # Nil => mActive.hid # p.hid
          BY <2>4, SessionFields DEF Inv, TypeOK, HandshakesInOrder
        <5>2. QED
          BY <1>1, <2>1, <2>2, <2>3, <2>4, <4>1, <5>1
      <4>2. CASE i \in DOMAIN mGot /\ mGot'[i] = mGot[i]
        BY <1>2, <2>2, <2>3, <2>4, <3>1, <4>2 DEF Inv, MasterReceived
      <4>3. QED
        BY <1>3, <4>1, <4>2
    <3>3. QED
      BY <3>2 DEF MasterReceived
  <2>7. QED
    BY <1>1, <2>2, <2>3, <2>5, <2>6, SlaveHalf DEF Inv
<1>8. QED
  BY <1>5, <1>6, <1>7 DEF MasterDecrypt

\* A disconnect, a restart or a crash takes sessions away and adds nothing.
LEMMA LossInv ==
    ASSUME Inv, TypeOK',
           mActive' \in {mActive, Nil}, mPrevious' \in {mPrevious, Nil},
           mRequest' = mRequest \/ (mNext = Nil /\ mRequest' = Nil), mSeen' \in {mSeen, Nil},
           UNCHANGED <<mNext, requests, responses, lastHid, lastRun, activated, usedIds,
                       toSlave, toMaster, sGot, mGot>>,
           sActive' \in {sActive, Nil}, sSeen' \in {sSeen, Nil},
           \/ UNCHANGED <<sNext, sResponse>>
           \/ sNext' = Nil /\ sResponse' = Nil
    PROVE  Inv'
<1>1. BlobsAreGenuine' /\ HandshakesInOrder' /\ AnswersInOrder'
  BY DEF Inv, BlobsAreGenuine, HandshakesInOrder, AnswersInOrder
<1>2. ActiveSessionsHaveKeys' /\ KeysAgree' /\ MasterSent' /\ MasterReceived'
  BY DEF Inv, ActiveSessionsHaveKeys, KeysAgree, MasterSessions, MasterSent, MasterReceived, KeyOf
<1>3. SlaveRunsInOrder' /\ SlaveReceived' /\ SlaveInOrder' /\ SlaveFollowsMaster' /\ SlaveSent'
  BY DEF Inv, SlaveRunsInOrder, SlaveReceived, SlaveInOrder, SlaveFollowsMaster, SlaveSent, KeyOf
<1>4. AnsweredIdsStored' /\ OneAnswerPerHandshake' /\ OffersMatchCandidates'
  BY DEF Inv, AnsweredIdsStored, OneAnswerPerHandshake, OffersMatchCandidates, SameKey
<1>5. QED
  BY <1>1, <1>2, <1>3, <1>4 DEF Inv

LEMMA InvStep ==
    ASSUME Inv, [Next]_vars
    PROVE  Inv'
<1> USE DEF clockVars, masterVars, slaveVars
<1>1. TypeOK'
  BY TypeStep DEF Inv
<1>2. mSeen \in responses \union {Nil, Garbage}
  BY DEF Inv, BlobsAreGenuine
<1>3. CASE Tick
  BY <1>1, <1>3, LossInv DEF Tick
<1>4. ASSUME NEW v \in ResponseInputs, MasterProcess(v)
      PROVE  Inv'
  BY <1>1, <1>4, MasterProcessInv
<1>5. ASSUME NEW v \in ResponseInputs, MasterStart(v)
      PROVE  Inv'
  <2>1. v \in responses \union {Nil, Garbage}
    BY DEF Inv, BlobsAreGenuine, ResponseInputs
  <2>2. QED
    BY <1>1, <1>5, <2>1, NewHandshakeInv DEF MasterStart, Modes
<1>6. ASSUME NEW v \in ResponseInputs, MasterNullCandidate(v)
      PROVE  Inv'
  BY <1>1, <1>6, LossInv DEF MasterNullCandidate
<1>7. CASE MasterEncrypt
  BY <1>1, <1>7, MasterEncryptInv
<1>8. ASSUME NEW p \in toMaster, MasterDecrypt(p)
      PROVE  Inv'
  BY <1>1, <1>8, MasterDecryptInv
<1>9. CASE MasterDisconnect
  BY <1>1, <1>9, LossInv DEF MasterDisconnect
<1>10. CASE MasterRestart
  BY <1>1, <1>10, NewHandshakeInv DEF MasterRestart, Modes
<1>11. ASSUME NEW v \in RequestInputs, SlaveProcess(v)
       PROVE  Inv'
  BY <1>1, <1>11, SlaveProcessInv
<1>12. CASE SlaveEncrypt
  BY <1>1, <1>12, SlaveEncryptInv
<1>13. ASSUME NEW p \in toSlave, SlaveDecrypt(p)
       PROVE  Inv'
  BY <1>1, <1>13, SlaveDecryptInv
<1>14. CASE SlaveDisconnect
  BY <1>1, <1>14, LossInv DEF SlaveDisconnect
<1>15. CASE SlaveRestart
  BY <1>1, <1>15, LossInv DEF SlaveRestart
<1>16. CASE UNCHANGED vars
  BY <1>1, <1>16, LossInv DEF vars
<1>17. QED
  BY <1>3, <1>4, <1>5, <1>6, <1>7, <1>8, <1>9, <1>10, <1>11, <1>12, <1>13,
     <1>14, <1>15, <1>16 DEF Next, MasterStep, SlaveStep

LEMMA Invariance == Spec => []Inv
  BY InvInit, InvStep, PTL DEF Spec

-----------------------------------------------------------------------------
(***************************************************************************)
(* The theorems.                                                           *)
(***************************************************************************)

\* No session of the master becomes active, or previous, without a key.
THEOREM ActiveHaveKeys == Spec => []ActiveSessionsHaveKeys
<1>1. Inv => ActiveSessionsHaveKeys
  BY DEF Inv
<1>2. QED
  BY <1>1, Invariance, PTL

\* Every key the master holds is one the slave derived for that handshake.
THEOREM KeysAlwaysAgree == Spec => []KeysAgree
<1>1. Inv => KeysAgree
  BY DEF Inv
<1>2. QED
  BY <1>1, Invariance, PTL

\* The slave activates only what the master activated before.
THEOREM SlaveAlwaysFollows == Spec => []SlaveFollowsMaster
<1>1. Inv => SlaveFollowsMaster
  BY DEF Inv
<1>2. QED
  BY <1>1, Invariance, PTL

\* The slave's deliveries are ordered across sessions, without repetition.
THEOREM SlaveDeliversInOrder == Spec => []SlaveInOrder
<1>1. Inv => SlaveInOrder
  BY DEF Inv
<1>2. QED
  BY <1>1, Invariance, PTL

\* The sockets offer what belongs to the candidates.
THEOREM OffersAlwaysMatch == Spec => []OffersMatchCandidates
<1>1. Inv => OffersMatchCandidates
  BY DEF Inv
<1>2. QED
  BY <1>1, Invariance, PTL

\* A slave with a key store answers a handshake once.
THEOREM AnswersOnce == Spec => []OneAnswerPerHandshake
<1>1. Inv => OneAnswerPerHandshake
  BY DEF Inv
<1>2. QED
  BY <1>1, Invariance, PTL

\* The packet that makes the master drop its previous session was made by a
\* run newer than that session's, and the slave never goes back to an older run.
LEMMA DropsPreviousStep ==
    ASSUME Inv, [Next]_vars, DropsPrevious
    PROVE  sActive = Nil \/ ~SameKey(sActive, mPrevious)
<1> USE DEF clockVars, masterVars, slaveVars
<1>1. PICK p \in toMaster : MasterDecrypt(p) /\ CanDecrypt(mActive, p)
  <2>1. ASSUME NEW s \in MasterSession, MasterShift(s)
        PROVE  FALSE
    BY <2>1, MasterShiftFacts DEF DropsPrevious, Inv
  <2>2. mPrevious # Nil /\ mPrevious' = Nil /\ mActive' # Nil
    BY DEF DropsPrevious
  <2>3. ~MasterEncrypt
    <3>1. ASSUME MasterEncrypt, Connected(mNext) PROVE FALSE
      <4>1. Sent(mNext) \in MasterSession /\ MasterShift(Sent(mNext))
        BY <3>1, SessionTypes DEF MasterEncrypt, Connected, Inv, TypeOK
      <4>2. QED
        BY <2>1, <4>1
    <3>2. QED
      BY <2>2, <3>1 DEF MasterEncrypt
  <2>4. PICK p \in toMaster : MasterDecrypt(p)
    BY <2>2, <2>3 DEF Next, MasterStep, SlaveStep, Tick, MasterProcess, MasterStart,
       MasterNullCandidate, MasterDisconnect, MasterRestart, SlaveProcess, SlaveEncrypt,
       SlaveDecrypt, SlaveDisconnect, SlaveRestart, vars
  <2>5. p \in Packet
    BY DEF Inv, TypeOK
  <2>6. ASSUME CanDecrypt(mNext, p), MasterShift(Received(mNext, p)) PROVE FALSE
    <3>1. Received(mNext, p) \in MasterSession
      BY <2>5, <2>6, SessionTypes DEF Inv, TypeOK, CanDecrypt, Connected
    <3>2. QED
      BY <2>1, <2>6, <3>1
  <2>7. ASSUME CanDecrypt(mPrevious, p), mPrevious' = Received(mPrevious, p) PROVE FALSE
    BY <2>2, <2>5, <2>7, SessionFields DEF Inv, TypeOK
  <2>8. QED
    BY <2>4, <2>6, <2>7 DEF MasterDecrypt
<1>2. /\ p.run = mActive.run /\ p.run \in Nat
      /\ mPrevious.run < mActive.run /\ mPrevious.run \in Nat
  BY <1>1, SessionFields, PacketFields
  DEF Inv, TypeOK, CanDecrypt, SameKey, DropsPrevious, AnswersInOrder
<1>3. sActive # Nil => p.run <= sActive.run /\ sActive.run \in Nat
  BY SessionFields DEF Inv, TypeOK, SlaveSent
<1>4. QED
  BY <1>2, <1>3 DEF SameKey

\* When the master drops its previous session, the slave has moved past it.
THEOREM PreviousDroppedSafely == Spec => PreviousNoLongerUsed
<1>1. Inv /\ [Next]_vars =>
        [DropsPrevious => sActive = Nil \/ ~SameKey(sActive, mPrevious)]_vars
  BY DropsPreviousStep
<1>2. QED
  BY <1>1, Invariance, PTL DEF Spec, PreviousNoLongerUsed

-----------------------------------------------------------------------------
(***************************************************************************)
(* The channel implements PacketDelivery in each direction.                *)
(***************************************************************************)

\* A packet the master makes is the newest of its session.
LEMMA MasterMakes ==
    ASSUME Inv, MasterEncrypt
    PROVE  \E p \in toSlave' \ toSlave : ToSlave!Make(p)
<1> DEFINE s == IF Connected(mNext) THEN mNext ELSE mActive
           p == PacketOf(s)
<1>1. /\ s \in MasterSession /\ s # Nil
      /\ toSlave' = toSlave \union {p} /\ UNCHANGED sGot
      /\ SameKey(p, s) /\ p.seq = s.tx + 1 /\ s.tx \in Nat
  BY SessionFields DEF MasterEncrypt, Connected, Inv, TypeOK, slaveVars
<1>2. \A q \in toSlave : q.hid = s.hid => q.seq <= s.tx /\ q.seq \in Nat
  BY <1>1, PacketFields DEF Inv, TypeOK, MasterSent, Connected
<1>3. \A q \in toSlave : ToSlave!SameSession(p, q) => q.seq < p.seq
  BY <1>1, <1>2 DEF ToSlave!SameSession, SameKey
<1>4. p \notin toSlave
  BY <1>1, <1>2 DEF SameKey
<1>5. ToSlave!Make(p)
  BY <1>1, <1>3 DEF ToSlave!Make
<1>6. QED
  BY <1>1, <1>4, <1>5

\* A packet the slave delivers is newer than all it delivered of its session.
LEMMA SlaveDelivers ==
    ASSUME Inv, NEW p \in toSlave, SlaveDecrypt(p)
    PROVE  ToSlave!Deliver(p)
<1>1. \A i \in DOMAIN sGot : sGot[i].hid \in Nat /\ sGot[i].run \in Nat /\ sGot[i].seq \in Nat
  BY PacketFields DEF Inv, TypeOK
<1>2. CASE CanDecrypt(sActive, p)
  <2>1. /\ sActive # Nil /\ sActive.run = p.run /\ sActive.rx < p.seq
        /\ sActive.rx \in Nat /\ p.seq \in Nat /\ p.run \in Nat
    BY <1>2, SessionFields, PacketFields DEF Inv, TypeOK, CanDecrypt, Connected, SameKey
  <2>2. \A i \in DOMAIN sGot : sGot[i].run = p.run => sGot[i].seq < p.seq
    BY <1>1, <2>1 DEF Inv, SlaveReceived
  <2>3. QED
    BY <2>2 DEF SlaveDecrypt, ToSlave!Deliver, ToSlave!SameSession
<1>3. CASE CanDecrypt(sNext, p)
  <2>1. sNext # Nil /\ sNext.run = p.run /\ p.run \in Nat
    BY <1>3, PacketFields DEF Inv, TypeOK, CanDecrypt, Connected, SameKey
  <2>2. \A i \in DOMAIN sGot : sGot[i].run # p.run
    BY <1>1, <2>1 DEF Inv, SlaveReceived
  <2>3. QED
    BY <2>2 DEF SlaveDecrypt, ToSlave!Deliver, ToSlave!SameSession
<1>4. QED
  BY <1>2, <1>3 DEF SlaveDecrypt

\* A packet the slave makes is the newest of its session.
LEMMA SlaveMakes ==
    ASSUME Inv, SlaveEncrypt
    PROVE  \E p \in toMaster' \ toMaster : ToMaster!Make(p)
<1>1. PICK s \in SlaveSession :
        /\ toMaster' = toMaster \union {PacketOf(s)} /\ UNCHANGED mGot
        /\ \A q \in toMaster : q.run = s.run => q.seq <= s.tx
  BY DEF SlaveEncrypt, Inv, TypeOK, SlaveSent, masterVars
<1> DEFINE p == PacketOf(s)
<1>2. SameKey(p, s) /\ p.seq = s.tx + 1 /\ s.tx \in Nat
  BY SessionFields
<1>3. \A q \in toMaster : q.run = s.run => q.seq < p.seq /\ q # p
  BY <1>1, <1>2, PacketFields DEF Inv, TypeOK
<1>4. ToMaster!Make(p)
  BY <1>1, <1>2, <1>3 DEF ToMaster!Make, ToMaster!SameSession, SameKey
<1>5. p \in toMaster' \ toMaster
  BY <1>1, <1>2, <1>3 DEF SameKey
<1>6. QED
  BY <1>4, <1>5

\* A packet the master delivers, from any of its sessions, is newer than all it
\* delivered of that session.
LEMMA MasterDelivers ==
    ASSUME Inv, NEW p \in toMaster, MasterDecrypt(p)
    PROVE  ToMaster!Deliver(p)
<1>1. \A i \in DOMAIN mGot : mGot[i].hid \in Nat /\ mGot[i].run \in Nat /\ mGot[i].seq \in Nat
  BY PacketFields DEF Inv, TypeOK
<1>2. PICK s \in {mActive, mPrevious, mNext} : CanDecrypt(s, p)
  BY DEF MasterDecrypt
<1>3. /\ s # Nil /\ s.hid = p.hid /\ s.rx < p.seq
      /\ s.rx \in Nat /\ p.seq \in Nat
  BY <1>2, SessionFields, PacketFields DEF Inv, TypeOK, CanDecrypt, Connected, SameKey
<1>4. \A i \in DOMAIN mGot : mGot[i].hid = p.hid => mGot[i].seq < p.seq
  BY <1>1, <1>3 DEF Inv, MasterReceived
<1>5. QED
  BY <1>4 DEF MasterDecrypt, ToMaster!Deliver, ToMaster!SameSession

\* The remaining actions touch neither packets nor deliveries.
LEMMA PacketSteps ==
    ASSUME [Next]_vars
    PROVE  /\ \/ MasterEncrypt
              \/ \E p \in toSlave : SlaveDecrypt(p)
              \/ UNCHANGED <<toSlave, sGot>>
           /\ \/ SlaveEncrypt
              \/ \E p \in toMaster : MasterDecrypt(p)
              \/ UNCHANGED <<toMaster, mGot>>
  BY DEF Next, MasterStep, SlaveStep, Tick, MasterProcess, MasterStart,
         MasterNullCandidate, MasterDisconnect, MasterRestart, MasterEncrypt, MasterDecrypt,
         SlaveProcess, SlaveEncrypt, SlaveDecrypt, SlaveDisconnect, SlaveRestart,
         vars, clockVars, masterVars, slaveVars

\* Master to slave: what the slave delivers was made by the master, at most
\* once and in order, whatever the link and the sessions do.
THEOREM SlaveGetsWhatWasSent == Spec => DeliversToSlave
<1>1. Init => ToSlave!Init
  BY DEF Init, ToSlave!Init
<1>2. Inv /\ [Next]_vars => [ToSlave!Next]_<<toSlave, sGot>>
  BY MasterMakes, SlaveDelivers, PacketSteps DEF ToSlave!Next
<1>3. QED
  BY <1>1, <1>2, Invariance, PTL DEF Spec, DeliversToSlave, ToSlave!Spec

\* Slave to master, likewise.
THEOREM MasterGetsWhatWasSent == Spec => DeliversToMaster
<1>1. Init => ToMaster!Init
  BY DEF Init, ToMaster!Init
<1>2. Inv /\ [Next]_vars => [ToMaster!Next]_<<toMaster, mGot>>
  BY MasterDelivers, SlaveMakes, PacketSteps DEF ToMaster!Next
<1>3. QED
  BY <1>1, <1>2, Invariance, PTL DEF Spec, DeliversToMaster, ToMaster!Spec

-----------------------------------------------------------------------------
(***************************************************************************)
(* The standby handshake.                                                  *)
(***************************************************************************)

\* With _keep_next_handshake_ready the master is never without a candidate:
\* whatever takes the candidate away starts a handshake in the same call.
AlwaysACandidate == up = TRUE /\ mNext # Nil

LEMMA CandidateStep ==
    ASSUME KeepNextHandshakeReady, TypeOK, AlwaysACandidate, [Next]_vars
    PROVE  AlwaysACandidate'
<1>1. \A mode \in Modes : StartHandshake(mode) => mNext' # Nil
  BY StartHandshakeFacts
<1>2. "Standby" \in Modes /\ "Immediate" \in Modes
  BY DEF Modes
<1>3. \A s : MasterShift(s) => mNext' # Nil
  BY <1>1, <1>2 DEF MasterShift
<1>4. CASE UNCHANGED vars \/ Tick \/ SlaveStep
  BY <1>4 DEF AlwaysACandidate, vars, masterVars, Tick, SlaveStep, SlaveProcess,
              SlaveEncrypt, SlaveDecrypt, SlaveDisconnect, SlaveRestart
<1>5. CASE \E v \in ResponseInputs : MasterProcess(v)
  <2>1. PICK v \in ResponseInputs : MasterProcess(v)
    BY <1>5
  <2>2. up' = TRUE
    BY <2>1 DEF MasterProcess, AlwaysACandidate
  <2>3. mNext \in MasterSession
    BY DEF TypeOK, AlwaysACandidate
  <2>4. WithResponse(mNext, v) \in MasterSession
    <3>1. v \in Response \union {Nil, Garbage}
      BY InputTypes
    <3>2. v # Nil /\ v # Garbage => v.run \in Nat
      BY <3>1 DEF Response
    <3> QED
      BY <2>3, <3>2 DEF WithResponse, Accepts, MasterSession
  <2>5. QED
    BY <1>1, <1>2, <2>1, <2>2, <2>4, NilAssumption
    DEF MasterProcess, AlwaysACandidate
<1>6. CASE \E v \in ResponseInputs : MasterStart(v)
  BY <1>1, <1>2, <1>6 DEF MasterStart, AlwaysACandidate
<1>7. CASE \E v \in ResponseInputs : MasterNullCandidate(v)
  BY <1>7 DEF MasterNullCandidate, AlwaysACandidate
<1>8. CASE MasterEncrypt
  BY <1>3, <1>8 DEF MasterEncrypt, AlwaysACandidate
<1>9. CASE \E p \in toMaster : MasterDecrypt(p)
  BY <1>3, <1>9 DEF MasterDecrypt, AlwaysACandidate
<1>10. CASE MasterDisconnect
  BY <1>10 DEF MasterDisconnect, AlwaysACandidate
<1>11. CASE MasterRestart
  BY <1>1, <1>2, <1>11 DEF MasterRestart, AlwaysACandidate
<1>12. QED
  BY <1>4, <1>5, <1>6, <1>7, <1>8, <1>9, <1>10, <1>11 DEF Next, MasterStep

\* The null candidate is never dereferenced by a master that keeps the next
\* handshake ready, however the link reorders, corrupts or drops responses and
\* however often either end restarts or disconnects.
THEOREM StandbyAvoidsNullCandidate ==
    ASSUME KeepNextHandshakeReady
    PROVE  Spec => []NoNullCandidate
<1>1. Init => AlwaysACandidate
  <2>1. [hid |-> 1, mode |-> "Immediate", ts |-> 0, run |-> 0,
         tx |-> 0, rx |-> 0] \in MasterSession
    BY DEF MasterSession, Modes
  <2>2. QED
    BY <2>1, NilAssumption DEF Init, AlwaysACandidate
<1>2. AlwaysACandidate => NoNullCandidate
  BY DEF AlwaysACandidate, NoNullCandidate
<1>3. TypeOK /\ AlwaysACandidate /\ [Next]_vars => AlwaysACandidate'
  BY CandidateStep
<1>4. QED
  BY <1>1, <1>2, <1>3, TypeCorrect, PTL DEF Spec
=============================================================================
