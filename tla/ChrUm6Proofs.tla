------------------------------ MODULE ChrUm6Proofs ------------------------------
(***************************************************************************)
(* Proofs about module ChrUm6.                                             *)
(***************************************************************************)
EXTENDS ChrUm6, TLAPS

\* The two parts of Um6IsWatched, of any driver state.
Initialized(x) == x.serviceable \/ x.unfit \/ x.restartTimer \/ x.initializationTimer
Watched(x) == x.aliveCheckTimer \/ x.restartTimer

Um6Inv == Um6TypeOK /\ Initialized(um6) /\ Watched(um6)

\* Sequences that steps of the sensor make.
LEMMA ShortSequences ==
    ASSUME NEW S, NEW a \in S
    PROVE  <<>> \in Seq(S) /\ <<a>> \in Seq(S)
  OBVIOUS

LEMMA OneReplaced ==
    ASSUME NEW S, NEW s \in Seq(S), NEW i \in DOMAIN s, NEW a \in S
    PROVE  [s EXCEPT ![i] = a] \in Seq(S)
  OBVIOUS

LEMMA NoSequence == ASSUME NEW S PROVE <<>> \in Seq(S)
  OBVIOUS

USE DEF Um6Driver, Chain, Um6Requests

-----------------------------------------------------------------------------
\* What the functions of the driver preserve.

LEMMA FailureIsWatched ==
    ASSUME NEW x \in Um6Driver
    PROVE  /\ Um6Restart(x) \in Um6Driver /\ Um6Failure(x) \in Um6Driver
           /\ Initialized(Um6Restart(x)) /\ Initialized(Um6Failure(x))
           /\ Watched(Um6Restart(x)) /\ Watched(Um6Failure(x))
  BY DEF Um6Restart, Um6Failure, Initialized, Watched

LEMMA SendIsWatched ==
    ASSUME NEW x \in Um6Driver, NEW address \in Um6Requests
    PROVE  /\ Send(x, address) \in Um6Driver
           /\ Initialized(x) => Initialized(Send(x, address))
           /\ Watched(x) => Watched(Send(x, address))
           /\ Send(x, address).current \in Um6Requests
  BY DEF Send, Initialized, Watched

LEMMA ChainGoesOn ==
    ASSUME NEW x, NEW address \in Um6Requests, NextInChain(x, address) # "none"
    PROVE  NextInChain(x, address) \in Um6Requests
  BY DEF NextInChain

LEMMA AnsweredIsWatched ==
    ASSUME NEW x \in Um6Driver, NEW failed \in BOOLEAN, NEW fit \in BOOLEAN,
           x.current # "none", Initialized(x), Watched(x)
    PROVE  LET y == Answered(x, failed, fit) IN
           /\ y \in Um6Driver /\ Initialized(y) /\ Watched(y)
           /\ y.current \in Um6Requests
  <1> DEFINE y == [x EXCEPT !.finished = TRUE]
             next == NextInChain(y, y.current)
  <1>1. /\ y \in Um6Driver /\ Initialized(y) /\ Watched(y)
        /\ y.current \in Um6Requests
    BY DEF Initialized, Watched
  <1>2. \/ Answered(x, failed, fit) = y
        \/ Answered(x, failed, fit) = StatusVerify(y, fit)
        \/ next # "none" /\ Answered(x, failed, fit) = Send(y, next)
        \/ Answered(x, failed, fit) = InitializationComplete(y)
    BY DEF Answered
  <1> HIDE DEF y
  <1>3. CASE Answered(x, failed, fit) = y
    BY <1>1, <1>3
  <1>4. CASE Answered(x, failed, fit) = StatusVerify(y, fit)
    <2>1. CASE fit
      BY <1>1, <1>4, <2>1 DEF StatusVerify
    <2>2. CASE ~fit
      <3> DEFINE z == [y EXCEPT !.serviceable = FALSE, !.unfit = TRUE]
      <3>1. z \in Um6Driver /\ z.unfit
        BY <1>1
      <3>2. /\ z.aliveCheckTimer = y.aliveCheckTimer /\ z.restartTimer = y.restartTimer
            /\ z.current = y.current
        BY <1>1
      <3>3. Answered(x, failed, fit) = z
        BY <1>4, <2>2 DEF StatusVerify
      <3> QED
        BY <1>1, <3>1, <3>2, <3>3 DEF Initialized, Watched
    <2> QED
      BY <2>1, <2>2
  <1>5. CASE next # "none" /\ Answered(x, failed, fit) = Send(y, next)
    <2>1. next \in Um6Requests
      BY <1>1, <1>5, ChainGoesOn
    <2> QED
      BY <1>1, <1>5, <2>1, SendIsWatched
  <1>6. CASE Answered(x, failed, fit) = InitializationComplete(y)
    BY <1>1, <1>6 DEF InitializationComplete, Initialized, Watched
  <1> QED
    BY <1>2, <1>3, <1>4, <1>5, <1>6

LEMMA MessageIsWatched ==
    ASSUME NEW x \in Um6Driver, NEW p \in Um6Packets, Initialized(x), Watched(x)
    PROVE  /\ Um6Message(x, p) \in Um6Driver
           /\ Initialized(Um6Message(x, p)) /\ Watched(Um6Message(x, p))
  BY DEF Um6Message, Initialized, Watched

LEMMA WritesKeepType ==
    ASSUME Um6TypeOK, NEW x, x.current \in Um6Requests, NEW sends, Writes(x, sends)
    PROVE  frames' \in Seq(Um6Requests)
  BY DEF Writes, Um6TypeOK

-----------------------------------------------------------------------------
LEMMA Um6InitInv == ASSUME Um6Init PROVE Um6Inv
  <1>1. um6 \in Um6Driver
    BY DEF Um6Init
  <1>2. frames \in Seq(Um6Requests) /\ packets \in Seq(Um6Packets) /\ sensorCalm \in BOOLEAN
    <2>1. frames = <<>> /\ packets = <<>> /\ sensorCalm = FALSE
      BY DEF Um6Init
    <2> QED
      BY <2>1, NoSequence
  <1>3. Initialized(um6) /\ Watched(um6)
    BY DEF Um6Init, Initialized, Watched
  <1> QED
    BY <1>1, <1>2, <1>3 DEF Um6Inv, Um6TypeOK

LEMMA Um6OpenDeviceInv == ASSUME Um6Inv, Um6OpenDevice PROVE Um6Inv'
  <1>0. um6 \in Um6Driver /\ packets \in Seq(Um6Packets) /\ sensorCalm \in BOOLEAN
    BY DEF Um6Inv, Um6TypeOK
  <1>1. CASE \E open, thrown \in BOOLEAN :
                LET x == [um6 EXCEPT !.open = open, !.aliveCheckTimer = TRUE]
                IN /\ um6' = IF thrown THEN Um6Failure(x) ELSE Um6Restart(x)
                   /\ UNCHANGED <<frames, packets, sensorCalm>>
    <2>1. PICK open \in BOOLEAN, thrown \in BOOLEAN :
                LET x == [um6 EXCEPT !.open = open, !.aliveCheckTimer = TRUE]
                IN /\ um6' = IF thrown THEN Um6Failure(x) ELSE Um6Restart(x)
                   /\ UNCHANGED <<frames, packets, sensorCalm>>
      BY <1>1
    <2>2. [um6 EXCEPT !.open = open, !.aliveCheckTimer = TRUE] \in Um6Driver
      BY <1>0
    <2> QED
      BY <2>1, <2>2, FailureIsWatched DEF Um6Inv, Um6TypeOK
  <1>2. CASE /\ um6' = Send([um6 EXCEPT !.restartTimer = FALSE, !.open = TRUE,
                        !.aliveCheckTimer = TRUE, !.initializationTimer = TRUE,
                        !.serviceable = FALSE, !.orientation = FALSE, !.unfit = FALSE],
                            "Communication")
             /\ Writes(um6', TRUE)
             /\ UNCHANGED <<packets, sensorCalm>>
    <2> DEFINE x == [um6 EXCEPT !.restartTimer = FALSE, !.open = TRUE,
                        !.aliveCheckTimer = TRUE, !.initializationTimer = TRUE,
                        !.serviceable = FALSE, !.orientation = FALSE, !.unfit = FALSE]
    <2>1. x \in Um6Driver /\ Initialized(x) /\ Watched(x)
      BY <1>0 DEF Initialized, Watched
    <2> HIDE DEF x
    <2>2. /\ um6' \in Um6Driver /\ Initialized(um6') /\ Watched(um6')
          /\ um6'.current \in Um6Requests
      BY <1>2, <2>1, SendIsWatched DEF x
    <2>3. frames' \in Seq(Um6Requests)
      BY <1>2, <2>2, WritesKeepType DEF Um6Inv
    <2> QED
      BY <1>0, <1>2, <2>2, <2>3 DEF Um6Inv, Um6TypeOK
  <1> QED
    BY <1>1, <1>2 DEF Um6OpenDevice

LEMMA Um6FailureInv ==
    ASSUME Um6Inv, Um6AliveCheckFailed \/ InitializationTimeout \/ Um6SerialFailure
    PROVE  Um6Inv'
  <1>0. um6 \in Um6Driver
    BY DEF Um6Inv, Um6TypeOK
  <1>1. UNCHANGED <<frames, packets, sensorCalm>>
    BY DEF Um6AliveCheckFailed, InitializationTimeout, Um6SerialFailure
  <1>2. um6' \in Um6Driver /\ Initialized(um6') /\ Watched(um6')
    <2>1. CASE Um6AliveCheckFailed
      BY <1>0, <2>1, FailureIsWatched DEF Um6AliveCheckFailed
    <2>2. CASE InitializationTimeout
      BY <1>0, <2>2 DEF InitializationTimeout, Um6Failure, Um6Restart, Initialized, Watched
    <2>3. CASE Um6SerialFailure
      <3>1. PICK open \in BOOLEAN : um6' = Um6Failure([um6 EXCEPT !.open = open])
        BY <2>3 DEF Um6SerialFailure
      <3>2. [um6 EXCEPT !.open = open] \in Um6Driver
        BY <1>0
      <3> QED
        BY <3>1, <3>2, FailureIsWatched
    <2> QED
      BY <2>1, <2>2, <2>3
  <1> QED
    BY <1>1, <1>2 DEF Um6Inv, Um6TypeOK

LEMMA Um6SendInv == ASSUME Um6Inv, StatusCheck \/ Um6Process PROVE Um6Inv'
  <1>1. PICK address \in {"Status", "AccelRef"} :
            /\ um6' = Send(um6, address)
            /\ Writes(um6', TRUE)
            /\ UNCHANGED <<packets, sensorCalm>>
    BY DEF StatusCheck, Um6Process
  <1>2. /\ um6' \in Um6Driver /\ Initialized(um6') /\ Watched(um6')
        /\ um6'.current \in Um6Requests
    BY <1>1, SendIsWatched DEF Um6Inv, Um6TypeOK
  <1>3. frames' \in Seq(Um6Requests)
    BY <1>1, <1>2, WritesKeepType DEF Um6Inv
  <1> QED
    BY <1>1, <1>2, <1>3 DEF Um6Inv, Um6TypeOK

LEMMA Um6ReceiveInv == ASSUME Um6Inv, Um6Receive PROVE Um6Inv'
  <1> DEFINE p == Head(packets)
             x == [um6 EXCEPT !.aliveCheckTimer = TRUE]
  <1>0. um6 \in Um6Driver /\ packets \in Seq(Um6Packets) /\ packets # <<>>
    BY DEF Um6Inv, Um6TypeOK, Um6Receive
  <1>1. p \in Um6Packets /\ p.failed \in BOOLEAN /\ packets' \in Seq(Um6Packets)
    <2>1. p \in Um6Packets /\ Tail(packets) \in Seq(Um6Packets)
      BY <1>0
    <2> HIDE DEF p
    <2>2. p.failed \in BOOLEAN
      BY <2>1 DEF Um6Packets
    <2> QED
      BY <2>1, <2>2 DEF Um6Receive
  <1>2. x \in Um6Driver /\ Initialized(x) /\ Watched(x)
    BY <1>0 DEF Um6Inv, Initialized, Watched
  <1>3. \/ um6' = Um6Failure(um6) /\ UNCHANGED frames
        \/ x.current # "none" /\ um6' = Send(x, x.current) /\ Writes(um6', TRUE)
        \/ /\ x.current # "none"
           /\ \E failed, fit \in BOOLEAN : um6' = Answered(x, failed, fit)
           /\ UNCHANGED frames \/ Writes(um6', ~um6'.finished)
        \/ um6' = Um6Message(x, p) /\ UNCHANGED frames
    BY <1>1 DEF Um6Receive
  <1> HIDE DEF p, x
  <1>4. /\ um6' \in Um6Driver /\ Initialized(um6') /\ Watched(um6')
        /\ frames' \in Seq(Um6Requests)
    <2>0. frames \in Seq(Um6Requests) /\ Um6TypeOK
      BY DEF Um6Inv, Um6TypeOK
    <2>1. CASE um6' = Um6Failure(um6) /\ UNCHANGED frames
      BY <1>0, <2>0, <2>1, FailureIsWatched
    <2>2. CASE x.current # "none" /\ um6' = Send(x, x.current) /\ Writes(um6', TRUE)
      <3>1. x.current \in Um6Requests
        BY <1>2, <2>2
      <3> QED
        BY <1>2, <2>0, <2>2, <3>1, SendIsWatched, WritesKeepType
    <2>3. CASE /\ x.current # "none"
               /\ \E failed, fit \in BOOLEAN : um6' = Answered(x, failed, fit)
               /\ UNCHANGED frames \/ Writes(um6', ~um6'.finished)
      <3>1. /\ um6' \in Um6Driver /\ Initialized(um6') /\ Watched(um6')
            /\ um6'.current \in Um6Requests
        BY <1>2, <2>3, AnsweredIsWatched
      <3> QED
        BY <2>0, <2>3, <3>1, WritesKeepType
    <2>4. CASE um6' = Um6Message(x, p) /\ UNCHANGED frames
      BY <1>1, <1>2, <2>0, <2>4, MessageIsWatched
    <2> QED
      BY <1>3, <2>1, <2>2, <2>3, <2>4
  <1> QED
    BY <1>1, <1>4 DEF Um6Inv, Um6TypeOK, Um6Receive

\* The sensor and the line do not touch the driver.
LEMMA SensorInv ==
    ASSUME Um6Inv, SensorAnswers \/ SensorBroadcasts \/ SensorPacketDamaged \/ SensorCalmsDown
    PROVE  Um6Inv'
  <1>1. um6' = um6
    BY DEF SensorAnswers, SensorBroadcasts, SensorPacketDamaged, SensorCalmsDown
  <1>2. \A address \in Um6Requests \union {"Euler", "BadChecksum", "OtherError", "corrupted"},
           failed \in BOOLEAN : Packet(address, failed) \in Um6Packets
    BY DEF Packet, Um6Packets
  <1>3. Um6TypeOK'
    <2>0. Um6TypeOK
      BY DEF Um6Inv
    <2>1. CASE SensorAnswers
      <3>1. Head(frames) \in Um6Requests /\ Tail(frames) \in Seq(Um6Requests)
        BY <2>0, <2>1 DEF SensorAnswers, Um6TypeOK
      <3>2. packets' = packets \/ \E p \in Um6Packets : packets' = Append(packets, p)
        BY <1>2, <2>1, <3>1 DEF SensorAnswers
      <3> QED
        BY <2>0, <2>1, <3>1, <3>2 DEF SensorAnswers, Um6TypeOK
    <2>2. CASE SensorBroadcasts
      <3>1. PICK address \in {"Euler", "GyroBiasXY", "GyroBiasZ"} :
                packets' = <<Packet(address, FALSE)>>
        BY <2>2 DEF SensorBroadcasts
      <3>2. Packet(address, FALSE) \in Um6Packets
        BY <1>2
      <3> QED
        <4> DEFINE p == Packet(address, FALSE)
        <4> HIDE DEF p
        <4>1. <<p>> \in Seq(Um6Packets)
          BY <3>2, ShortSequences DEF p
        <4>2. packets' \in Seq(Um6Packets)
          BY <3>1, <4>1 DEF p
        <4>3. UNCHANGED <<frames, sensorCalm>>
          BY <2>2 DEF SensorBroadcasts
        <4> QED
          BY <1>1, <2>0, <4>2, <4>3 DEF Um6TypeOK
    <2>3. CASE SensorPacketDamaged
      <3>1. PICK i \in DOMAIN packets, p \in Um6Packets : packets' = [packets EXCEPT ![i] = p]
        BY <1>2, <2>3 DEF SensorPacketDamaged
      <3>2. packets' \in Seq(Um6Packets)
        BY <2>0, <3>1, OneReplaced DEF Um6TypeOK
      <3>3. UNCHANGED <<frames, sensorCalm>>
        BY <2>3 DEF SensorPacketDamaged
      <3> QED
        BY <1>1, <2>0, <3>2, <3>3 DEF Um6TypeOK
    <2>4. CASE SensorCalmsDown
      BY <2>0, <2>4 DEF SensorCalmsDown, Um6TypeOK
    <2> QED
      BY <2>1, <2>2, <2>3, <2>4
  <1> QED
    BY <1>1, <1>3 DEF Um6Inv

LEMMA Um6NextInv == ASSUME Um6Inv, [Um6Next]_um6Vars PROVE Um6Inv'
  <1>1. CASE UNCHANGED um6Vars
    BY <1>1 DEF um6Vars, Um6Inv, Um6TypeOK
  <1>2. CASE Um6OpenDevice
    BY <1>2, Um6OpenDeviceInv
  <1>3. CASE Um6AliveCheckFailed \/ InitializationTimeout \/ Um6SerialFailure
    BY <1>3, Um6FailureInv
  <1>4. CASE StatusCheck \/ Um6Process
    BY <1>4, Um6SendInv
  <1>5. CASE Um6Receive
    BY <1>5, Um6ReceiveInv
  <1>6. CASE SensorAnswers \/ SensorBroadcasts \/ SensorPacketDamaged \/ SensorCalmsDown
    BY <1>6, SensorInv
  <1> QED
    BY <1>1, <1>2, <1>3, <1>4, <1>5, <1>6 DEF Um6Next

LEMMA Um6Invariance == Um6Spec => []Um6Inv
  BY Um6InitInv, Um6NextInv, PTL DEF Um6Spec

-----------------------------------------------------------------------------
\* The driver, the frames and the packets keep their types.
THEOREM Um6TypeCorrect == Um6Spec => []Um6TypeOK
  <1>1. Um6Inv => Um6TypeOK
    BY DEF Um6Inv
  <1> QED
    BY <1>1, Um6Invariance, PTL

\* However requests replace each other, and whatever old answers arrive: the
\* initialization chain never just stops with nothing left to notice it.
THEOREM Um6AlwaysWatched == Um6Spec => []Um6IsWatched
  <1>1. Um6Inv => Um6IsWatched
    BY DEF Um6Inv, Um6IsWatched, Initialized, Watched
  <1> QED
    BY <1>1, Um6Invariance, PTL
================================================================================
