--------------------------- MODULE XleSecureChannel ---------------------------
(***************************************************************************)
(* The two ends of an XLE (Xefis Lossy Encryption) channel: the Master,    *)
(* which starts handshakes, and the Slave, which answers them               *)
(* (xefis/modules/comm/xle_secure_channel.cc), with the handshake           *)
(* (support/crypto/xle/handshake.cc) and the packet transport               *)
(* (support/crypto/xle/transport.cc) they are built from.                   *)
(*                                                                         *)
(* Each end is a Module of a processing loop: a step of the loop fetches    *)
(* its input socket and runs process() without interruption, so process()  *)
(* is one action whose input is the value the socket has just fetched.      *)
(* encrypt_packet() and decrypt_packet() are called by the link encoder     *)
(* and decoder of the same loop, between two process() calls.              *)
(*                                                                         *)
(* Cryptography is perfect.  A handshake is named by its handshake ID;      *)
(* the ephemeral key is the pair of the master's handshake (hid) and the    *)
(* slave's run that answered it (run), because both Diffie-Hellman shares   *)
(* are fresh.  A packet decrypts only with the key it was made with.        *)
(* Both ends read one clock, counted in ticks.                             *)
(***************************************************************************)
EXTENDS Integers, Sequences

CONSTANTS
    Nil,                    \* a null session pointer, or a nil socket
    Garbage,                \* a handshake blob whose signature does not verify
    MaxTimeDifference,      \* CryptoParams::max_time_difference, in ticks
    KeepNextHandshakeReady, \* set_keep_next_handshake_ready()
    KeyStore,               \* TRUE: the slave was given its KeyCheckFunctions
    LinkFaults,             \* what the link may do besides losing messages
    MaxNow, MaxHandshakes, MaxRuns, MaxSeq, MaxRestarts   \* bounds

Modes == {"Immediate", "Standby"}

Faults == {"reorder", "corrupt", "failsafe"}

MasterSession ==
    [hid : Nat, mode : Modes, ts : Nat, run : Nat, tx : Nat, rx : Nat]
SlaveSession == [hid : Nat, run : Nat, tx : Nat, rx : Nat]
Request      == [hid : Nat, mode : Modes, ts : Nat]
Response     == [hid : Nat, run : Nat, ts : Nat]
Packet       == [hid : Nat, run : Nat, seq : Nat]

ASSUME ConstantsAssumption ==
    /\ MaxTimeDifference \in Nat \ {0}
    /\ KeepNextHandshakeReady \in BOOLEAN
    /\ KeyStore \in BOOLEAN
    /\ LinkFaults \subseteq Faults
    /\ MaxNow \in Nat /\ MaxHandshakes \in Nat /\ MaxRuns \in Nat
    /\ MaxSeq \in Nat /\ MaxRestarts \in Nat

\* A null pointer is no session and a nil socket holds no blob; a blob that
\* fails verification is neither a request nor a response.
ASSUME NilAssumption ==
    /\ Nil \notin MasterSession /\ Nil \notin SlaveSession
    /\ Nil \notin Request /\ Nil \notin Response
    /\ Garbage \notin Request /\ Garbage \notin Response
    /\ Garbage # Nil

VARIABLES
    now,        \* nu::utc_now(), in ticks
    up,         \* is the master's process running
    mNext,      \* MasterSecureChannel::_next_session_candidate
    mActive,    \* ::_active_session
    mPrevious,  \* ::_previous_session
    mRequest,   \* ::handshake_request, the output socket
    mSeen,      \* ::handshake_response at the last process()
    sNext,      \* SlaveSecureChannel::_next_session_candidate
    sActive,    \* ::_active_session
    sResponse,  \* ::handshake_response, the output socket
    sSeen,      \* ::handshake_request at the last process()
    sRejected,  \* ::_rejected_handshake_request
    usedIds,    \* the handshake IDs in the slave's key store
    lastHid,    \* how many handshakes were started, in all
    lastRun,    \* how many times the slave generated a handshake response
    requests,   \* every value handshake_request ever had
    responses,  \* every value handshake_response ever had
    toSlave,    \* every packet the master ever encrypted
    toMaster,   \* every packet the slave ever encrypted
    sGot,       \* the packets the slave decrypted, in order
    mGot,       \* the packets the master decrypted, in order
    activated,  \* the keys whose session_activated promise was fulfilled
    restarts    \* how many restarts and disconnects there were

clockVars  == <<now, restarts>>
masterVars == <<up, mNext, mActive, mPrevious, mRequest, mSeen, mGot,
                lastHid, requests, activated>>
slaveVars  == <<sNext, sActive, sResponse, sSeen, sRejected, usedIds, sGot,
                lastRun, responses>>
vars == <<clockVars, masterVars, slaveVars, toSlave, toMaster>>

-----------------------------------------------------------------------------
\* Sessions.

\* A master session is Connected once a handshake response gave it a key
\* (run # 0); before that it is HandshakeRequested.  (Operators named Mut... are
\* the defects the properties are tested with; nothing uses them.)
MutConnectedAlways(s) == s # Nil
Connected(s) == s # Nil /\ s.run # 0

SameKey(s, p) == s.hid = p.hid /\ s.run = p.run

\* Receiver::decrypt_packet(): the HMAC verifies only with the session's own
\* key, and the sequence number must be higher than the last accepted one.
MutAnyKey(s, p) == Connected(s) /\ p.seq > s.rx
MutNoSequence(s, p) == Connected(s) /\ SameKey(s, p)
CanDecrypt(s, p) == Connected(s) /\ SameKey(s, p) /\ p.seq > s.rx

Received(s, p) == [s EXCEPT !.rx = p.seq]

\* Transmitter::encrypt_packet() numbers packets from 1.
MutSentBackwards(s) == [s EXCEPT !.tx = @ - 1]
Sent(s)     == [s EXCEPT !.tx = @ + 1]
PacketOf(s) == [hid |-> s.hid, run |-> s.run, seq |-> s.tx + 1]

\* HandshakeRequested: a session of a new handshake.
NewMasterSession(mode) ==
    [hid |-> lastHid + 1, mode |-> mode, ts |-> now, run |-> 0,
     tx |-> 0, rx |-> 0]

\* The slave's session that answers request r.  It has its key at once.
NewSlaveSession(r) ==
    [hid |-> r.hid, run |-> lastRun + 1, tx |-> 0, rx |-> 0]

Recent(blob) == now - blob.ts <= MaxTimeDifference

-----------------------------------------------------------------------------
\* The master.

\* MasterSecureChannel::start_handshake(): the candidate is replaced and its
\* request is offered.
StartHandshake(mode) ==
    LET s == NewMasterSession(mode)
        r == [hid |-> s.hid, mode |-> mode, ts |-> now]
    IN  /\ lastHid < MaxHandshakes
        /\ mNext' = s
        /\ mRequest' = r
        /\ requests' = requests \union {r}
        /\ lastHid' = s.hid

\* MasterSecureChannel::shift_sessions(), the candidate being the session
\* object s.  With _keep_next_handshake_ready a standby handshake follows.
MutShiftWithoutStandby(s) ==
    /\ mPrevious' = mActive /\ mActive' = s /\ mNext' = Nil /\ mRequest' = Nil
    /\ activated' = activated \union {[hid |-> s.hid, run |-> s.run]}
    /\ UNCHANGED <<requests, lastHid>>
MasterShift(s) ==
    /\ mPrevious' = mActive
    /\ mActive' = s
    /\ activated' = activated \union {[hid |-> s.hid, run |-> s.run]}
    /\ \/ /\ KeepNextHandshakeReady
          /\ StartHandshake("Standby")
       \/ /\ ~KeepNextHandshakeReady
          /\ mNext' = Nil
          /\ mRequest' = Nil
          /\ UNCHANGED <<requests, lastHid>>

\* What the master's handshake_response socket may fetch: it keeps its value
\* when the message is lost; the link decoder's failsafe makes it nil.
ResponseInputs ==
    {mSeen} \union ({sResponse} \ {Nil})
      \union (IF "reorder" \in LinkFaults THEN responses ELSE {})
      \union (IF "corrupt" \in LinkFaults THEN {Garbage} ELSE {})
      \union (IF "failsafe" \in LinkFaults THEN {Nil} ELSE {})

\* HandshakeMaster::parse_and_verify_slave_handshake_blob() and
\* set_handshake_response(): whether candidate s takes response v.  What it
\* does not take throws, and process() logs and goes on.
MutAcceptsAnyID(s, v) == s.run = 0 /\ v # Garbage /\ Recent(v)
Accepts(s, v) ==
    /\ s.run = 0
    /\ v # Garbage
    /\ Recent(v)
    /\ v.hid = s.hid

\* Session::standby_handshake_needs_refresh()
NeedsRefresh(s) ==
    /\ s.run = 0
    /\ s.mode = "Standby"
    /\ 2 * (now - s.ts) >= MaxTimeDifference

\* The candidate after process() looked at the response socket's value v.
WithResponse(s, v) ==
    IF v # mSeen /\ v # Nil /\ s # Nil /\ Accepts(s, v)
    THEN [s EXCEPT !.run = v.run]
    ELSE s

\* MasterSecureChannel::process() without the button: the response is handled
\* first, then an old standby offer is replaced by a new one.
MasterProcess(v) ==
    LET s == WithResponse(mNext, v) IN
    /\ up
    /\ ~(v # mSeen /\ v # Nil /\ mNext = Nil)
    /\ mSeen' = v
    /\ \/ /\ KeepNextHandshakeReady /\ mActive # Nil
          /\ s # Nil /\ NeedsRefresh(s)
          /\ StartHandshake("Standby")
       \/ /\ ~(KeepNextHandshakeReady /\ mActive # Nil
                 /\ s # Nil /\ NeedsRefresh(s))
          /\ mNext' = s
          /\ UNCHANGED <<mRequest, requests, lastHid>>
    /\ UNCHANGED <<clockVars, slaveVars, toSlave, toMaster,
                   up, mActive, mPrevious, mGot, activated>>

\* process() with start_handshake_button just pressed, or start_handshake()
\* called and then process(): the response cannot match the new handshake.
MasterStart(v) ==
    /\ up
    /\ StartHandshake("Immediate")
    /\ mSeen' = v
    /\ UNCHANGED <<clockVars, slaveVars, toSlave, toMaster,
                   up, mActive, mPrevious, mGot, activated>>

\* process() calls waiting_for_handshake_response() through
\* _next_session_candidate without checking it: a response that arrives when
\* there is no candidate is a null dereference, and the process ends.
MasterNullCandidate(v) ==
    /\ up
    /\ v # mSeen /\ v # Nil /\ mNext = Nil
    /\ up' = FALSE
    /\ mActive' = Nil /\ mPrevious' = Nil /\ mRequest' = Nil /\ mSeen' = Nil
    /\ UNCHANGED <<clockVars, slaveVars, toSlave, toMaster,
                   mNext, mGot, lastHid, requests, activated>>

\* SecureChannel::encrypt_packet() at the master: a connected candidate is
\* tried first and becomes active by it; otherwise the active session is used.
MasterEncrypt ==
    LET s == IF Connected(mNext) THEN mNext ELSE mActive IN
    /\ s # Nil
    /\ s.tx < MaxSeq
    /\ toSlave' = toSlave \union {PacketOf(s)}
    /\ \/ /\ Connected(mNext)
          /\ MasterShift(Sent(s))
       \/ /\ ~Connected(mNext)
          /\ mActive' = Sent(s)
          /\ UNCHANGED <<mNext, mPrevious, mRequest, requests, lastHid, activated>>
    /\ UNCHANGED <<clockVars, slaveVars, toMaster, up, mSeen, mGot>>

\* SecureChannel::decrypt_packet() at the master, by the session that accepts
\* the packet.  A packet nobody accepts throws and changes nothing.
MasterDecrypt(p) ==
    /\ \/ /\ CanDecrypt(mActive, p)
          /\ mActive' = Received(mActive, p)
          /\ mPrevious' = Nil
          /\ UNCHANGED <<mNext, mRequest, requests, lastHid, activated>>
       \/ /\ ~CanDecrypt(mActive, p)
          /\ CanDecrypt(mPrevious, p)
          /\ mPrevious' = Received(mPrevious, p)
          /\ UNCHANGED <<mActive, mNext, mRequest, requests, lastHid, activated>>
       \/ /\ ~CanDecrypt(mActive, p)
          /\ ~CanDecrypt(mPrevious, p)
          /\ CanDecrypt(mNext, p)
          /\ MasterShift(Received(mNext, p))
    /\ mGot' = Append(mGot, p)
    /\ UNCHANGED <<clockVars, slaveVars, toSlave, toMaster, up, mSeen>>

\* MasterSecureChannel::disconnect()
MasterDisconnect ==
    /\ mActive # Nil
    /\ restarts < MaxRestarts
    /\ restarts' = restarts + 1
    /\ mActive' = Nil
    /\ UNCHANGED <<now, slaveVars, toSlave, toMaster, up, mNext, mPrevious,
                   mRequest, mSeen, mGot, lastHid, requests, activated>>

\* The master's program is started again.  ControlMachine's constructor calls
\* start_handshake(), with nothing left of the earlier process.
MasterRestart ==
    /\ restarts < MaxRestarts
    /\ restarts' = restarts + 1
    /\ StartHandshake("Immediate")
    /\ up' = TRUE
    /\ mActive' = Nil /\ mPrevious' = Nil /\ mSeen' = Nil
    /\ UNCHANGED <<now, slaveVars, toSlave, toMaster, mGot, activated>>

-----------------------------------------------------------------------------
\* The slave.

\* What the slave's handshake_request socket may fetch.
RequestInputs ==
    {sSeen} \union ({mRequest} \ {Nil})
      \union (IF "reorder" \in LinkFaults THEN requests ELSE {})
      \union (IF "corrupt" \in LinkFaults THEN {Garbage} ELSE {})
      \union (IF "failsafe" \in LinkFaults THEN {Nil} ELSE {})

\* SecureChannel::ready() of the slave, whose sessions are always connected
\* and which keeps no previous session; it covers connecting() as well.
SlaveReady == sActive # Nil \/ sNext # Nil

\* SlaveSecureChannel::process() goes on to handshake with request v: a new
\* value, or a retained one that was not rejected, when there is no session.
Considers(v) ==
    /\ v # Nil
    /\ v # sSeen \/ (~SlaveReady /\ sRejected # v)

\* ... and answers it: a standby request only when there is no session, and a
\* retained one only if it is a standby request.
MutConsumesWhenIdle(v) ==
    /\ Considers(v) /\ v # Garbage /\ ~SlaveReady
    /\ v # sSeen \/ v.mode = "Standby"
Consumes(v) ==
    /\ Considers(v)
    /\ v # Garbage
    /\ v # sSeen \/ v.mode = "Standby"
    /\ v.mode = "Immediate" \/ ~SlaveReady

\* HandshakeSlave::generate_handshake_blob_and_key() throws on a reused ID,
\* and on an old timestamp (after the ID was stored).
MutNeverReused(v) == FALSE
Reused(v) == KeyStore /\ v.hid \in usedIds

\* catch (HandshakeSlave::Exception): the candidate and the response go, and
\* the request is remembered.
MutRejectKeepsResponse(v) ==
    /\ sNext' = Nil /\ sRejected' = v
    /\ UNCHANGED <<sResponse, lastRun, responses>>
Reject(v) ==
    /\ sNext' = Nil
    /\ sResponse' = Nil
    /\ sRejected' = v
    /\ UNCHANGED <<lastRun, responses>>

\* A new candidate session answers request v.
Answer(v) ==
    LET s == NewSlaveSession(v)
        r == [hid |-> s.hid, run |-> s.run, ts |-> now]
    IN  /\ lastRun < MaxRuns
        /\ sNext' = s
        /\ sResponse' = r
        /\ responses' = responses \union {r}
        /\ lastRun' = s.run
        /\ sRejected' = IF v # sSeen THEN Nil ELSE sRejected

\* SlaveSecureChannel::process() with request socket value v.
SlaveProcess(v) ==
    /\ sSeen' = v
    /\ \/ /\ ~Consumes(v)
          /\ ~(Considers(v) /\ v = Garbage)
          /\ sRejected' = IF v # sSeen THEN Nil ELSE sRejected
          /\ UNCHANGED <<sNext, sResponse, usedIds, lastRun, responses>>
       \/ /\ Considers(v) /\ v = Garbage
          /\ Reject(v)
          /\ UNCHANGED usedIds
       \/ /\ Consumes(v)
          /\ usedIds' = IF KeyStore THEN usedIds \union {v.hid} ELSE usedIds
          /\ \/ (Reused(v) \/ ~Recent(v)) /\ Reject(v)
             \/ ~Reused(v) /\ Recent(v) /\ Answer(v)
    /\ UNCHANGED <<clockVars, masterVars, toSlave, toMaster, sActive, sGot>>

\* SecureChannel::encrypt_packet() at the slave: the active session first,
\* then the candidate; encrypting activates nothing.
SlaveEncrypt ==
    /\ \/ /\ sActive # Nil
          /\ sActive.tx < MaxSeq
          /\ toMaster' = toMaster \union {PacketOf(sActive)}
          /\ sActive' = Sent(sActive)
          /\ UNCHANGED sNext
       \/ /\ sActive = Nil /\ sNext # Nil
          /\ sNext.tx < MaxSeq
          /\ toMaster' = toMaster \union {PacketOf(sNext)}
          /\ sNext' = Sent(sNext)
          /\ UNCHANGED sActive
    /\ UNCHANGED <<clockVars, masterVars, toSlave, sResponse, sSeen, sRejected,
                   usedIds, sGot, lastRun, responses>>

\* SecureChannel::decrypt_packet() at the slave.  The first packet of the
\* candidate's key makes the candidate active (shift_sessions()).
SlaveDecrypt(p) ==
    /\ \/ /\ CanDecrypt(sActive, p)
          /\ sActive' = Received(sActive, p)
          /\ UNCHANGED <<sNext, sResponse>>
       \/ /\ ~CanDecrypt(sActive, p)
          /\ CanDecrypt(sNext, p)
          /\ sActive' = Received(sNext, p)
          /\ sNext' = Nil
          /\ sResponse' = Nil
    /\ sGot' = Append(sGot, p)
    /\ UNCHANGED <<clockVars, masterVars, toSlave, toMaster, sSeen, sRejected,
                   usedIds, lastRun, responses>>

\* SlaveSecureChannel::disconnect()
SlaveDisconnect ==
    /\ sActive # Nil
    /\ restarts < MaxRestarts
    /\ restarts' = restarts + 1
    /\ sActive' = Nil
    /\ UNCHANGED <<now, masterVars, toSlave, toMaster, sNext, sResponse, sSeen,
                   sRejected, usedIds, sGot, lastRun, responses>>

\* The slave's program is started again.  Only the key store survives.
SlaveRestart ==
    /\ restarts < MaxRestarts
    /\ restarts' = restarts + 1
    /\ sNext' = Nil /\ sActive' = Nil /\ sResponse' = Nil
    /\ sSeen' = Nil /\ sRejected' = Nil
    /\ UNCHANGED <<now, masterVars, toSlave, toMaster, usedIds, sGot, lastRun,
                   responses>>

-----------------------------------------------------------------------------
\* The system.

Tick ==
    /\ now < MaxNow
    /\ now' = now + 1
    /\ UNCHANGED <<restarts, masterVars, slaveVars, toSlave, toMaster>>

\* Both programs have just started and the master has offered a handshake.
Init ==
    /\ now = 0 /\ restarts = 0
    /\ up = TRUE
    /\ mNext = [hid |-> 1, mode |-> "Immediate", ts |-> 0, run |-> 0,
                tx |-> 0, rx |-> 0]
    /\ mActive = Nil /\ mPrevious = Nil /\ mSeen = Nil
    /\ mRequest = [hid |-> 1, mode |-> "Immediate", ts |-> 0]
    /\ requests = {mRequest}
    /\ lastHid = 1
    /\ sNext = Nil /\ sActive = Nil /\ sResponse = Nil
    /\ sSeen = Nil /\ sRejected = Nil
    /\ usedIds = {} /\ lastRun = 0 /\ responses = {}
    /\ toSlave = {} /\ toMaster = {} /\ sGot = <<>> /\ mGot = <<>>
    /\ activated = {}

MasterStep ==
    \/ \E v \in ResponseInputs :
         MasterProcess(v) \/ MasterStart(v) \/ MasterNullCandidate(v)
    \/ MasterEncrypt
    \/ \E p \in toMaster : MasterDecrypt(p)
    \/ MasterDisconnect
    \/ MasterRestart

SlaveStep ==
    \/ \E v \in RequestInputs : SlaveProcess(v)
    \/ SlaveEncrypt
    \/ \E p \in toSlave : SlaveDecrypt(p)
    \/ SlaveDisconnect
    \/ SlaveRestart

Next == Tick \/ MasterStep \/ SlaveStep

Spec == Init /\ [][Next]_vars

-----------------------------------------------------------------------------
(***************************************************************************)
(* Properties.                                                             *)
(***************************************************************************)

TypeOK ==
    /\ now \in Nat /\ restarts \in Nat /\ up \in BOOLEAN
    /\ mNext \in MasterSession \union {Nil}
    /\ mActive \in MasterSession \union {Nil}
    /\ mPrevious \in MasterSession \union {Nil}
    /\ mRequest \in Request \union {Nil}
    /\ mSeen \in Response \union {Nil, Garbage}
    /\ sNext \in SlaveSession \union {Nil}
    /\ sActive \in SlaveSession \union {Nil}
    /\ sResponse \in Response \union {Nil}
    /\ sSeen \in Request \union {Nil, Garbage}
    /\ sRejected \in Request \union {Nil, Garbage}
    /\ usedIds \subseteq Nat /\ lastHid \in Nat /\ lastRun \in Nat
    /\ requests \subseteq Request /\ responses \subseteq Response
    /\ toSlave \subseteq Packet /\ toMaster \subseteq Packet
    /\ sGot \in Seq(Packet) /\ mGot \in Seq(Packet)
    /\ activated \subseteq [hid : Nat, run : Nat]

KeyOf(s) == [hid |-> s.hid, run |-> s.run]

MasterSessions == {mNext, mActive, mPrevious} \ {Nil}
SlaveSessions  == {sNext, sActive} \ {Nil}

\* A session becomes active, and later previous, only after a handshake
\* response gave it its key: encrypt_packet() tries the candidate first but
\* falls back, without shifting, while the candidate waits for the response.
ActiveSessionsHaveKeys ==
    \A s \in {mActive, mPrevious} \ {Nil} : s.run # 0

\* A key the master holds is one the slave derived from the very same
\* handshake, even when responses of several handshakes arrive late or in
\* another order: both ends compute the same secret.
KeysAgree ==
    \A s \in MasterSessions : s.run # 0 =>
        \E r \in responses : r.hid = s.hid /\ r.run = s.run

\* The slave only ever follows the master: a session is active at the slave
\* only if it was made active by the master before.  Encrypting with the
\* candidate, or answering a handshake, does not activate it.
SlaveFollowsMaster ==
    sActive # Nil => KeyOf(sActive) \in activated

\* The slave never delivers a packet twice, nor one older than another it has
\* delivered, across sessions as well: it keeps no previous session.
SlaveInOrder ==
    \A i, j \in DOMAIN sGot : i < j =>
        \/ sGot[i].run < sGot[j].run
        \/ sGot[i].run = sGot[j].run /\ sGot[i].seq < sGot[j].seq

\* Each direction delivers what the other end made, at most once, and in
\* order within a session.  (The master falls back to its previous session,
\* so packets of two sessions may interleave there.)
ToSlave  == INSTANCE PacketDelivery WITH made <- toSlave, got <- sGot
ToMaster == INSTANCE PacketDelivery WITH made <- toMaster, got <- mGot
DeliversToSlave  == ToSlave!Spec
DeliversToMaster == ToMaster!Spec

\* When the master lets its previous session go because a packet of the active
\* one arrived, the slave does not use that session any more: no packet the
\* slave makes later is made with a key the master has just thrown away.
DropsPrevious ==
    /\ mPrevious # Nil /\ mPrevious' = Nil
    /\ mActive # Nil /\ mActive' # Nil /\ mActive'.hid = mActive.hid
PreviousNoLongerUsed ==
    [][DropsPrevious => sActive = Nil \/ ~SameKey(sActive, mPrevious)]_vars

\* What each end offers on its output socket belongs to the candidate it
\* holds: the request of the pending handshake, the response of the pending
\* session, and nothing when there is none.
OffersMatchCandidates ==
    /\ IF mNext = Nil THEN mRequest = Nil
       ELSE mRequest # Nil /\ mRequest.hid = mNext.hid
    /\ IF sNext = Nil THEN sResponse = Nil
       ELSE sResponse # Nil /\ SameKey(sResponse, sNext)

\* With a key store, a handshake request is answered at most once, however
\* often the link repeats it and however often the slave is restarted.
OneAnswerPerHandshake ==
    KeyStore => \A r, t \in responses : r.hid = t.hid => r = t

\* A response never finds the master without a candidate: the null pointer in
\* process() is not reached.
NoNullCandidate == up
=============================================================================
