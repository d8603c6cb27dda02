-------------------------------- MODULE ChrUm6 --------------------------------
(***************************************************************************)
(* The driver of the CHR-UM6 inertial sensor: the module                    *)
(* xefis/modules/io/chr_um6.{h,cc}, which initializes the sensor by a chain  *)
(* of requests, each sent by the callback of the one before, and the request *)
(* interface xefis/support/hardware/chr_um6.{h,cc} under it.                *)
(*                                                                         *)
(* The interface has a queue, but every request leaves it at once: there is  *)
(* one current request, and the next one takes its place whether it has been *)
(* answered or not.  An answer that is not to the current request counts as  *)
(* a message; its callback is never called.  nu::SerialPort and the sensor   *)
(* are external.                                                           *)
(***************************************************************************)
EXTENDS Integers, Sequences

CONSTANTS
    FramesUnderWay, \* bound: frames under way to the sensor
    PacketsUnderWay \* bound: packets under way from the sensor

ASSUME Um6Assumption == FramesUnderWay \in Nat \ {0} /\ PacketsUnderWay \in Nat \ {0}

VARIABLES
    um6,            \* the driver
    frames,         \* addresses of the frames that the sensor has not seen
    packets,        \* packets of the sensor, which the driver has not seen
    sensorCalm      \* from now on sensor and line work, and requests do not meet

um6Vars == <<um6, frames, packets, sensorCalm>>

\* Operators named Mut... are the defects the properties are tested with; nothing
\* uses them.

Chain ==
    {"Communication", "MiscConfig", "GetFWVersion", "EKFProcessVariance", "ResetEKF",
     "GyroBiasXY", "GyroBiasZ", "ZeroGyros"}
Um6Requests == Chain \union {"Status", "AccelRef"}

\* A packet has the address of an answer or message, or of a protocol error.
Um6Packets ==
    [address : Um6Requests \union {"Euler", "BadChecksum", "OtherError", "corrupted"},
     failed : BOOLEAN]
Packet(address, failed) == [address |-> address, failed |-> failed]

Um6Driver ==
    [restartTimer : BOOLEAN,
     aliveCheckTimer : BOOLEAN,
     statusCheckTimer : BOOLEAN,
     initializationTimer : BOOLEAN,
     open : BOOLEAN,                \* _serial_port.good()
     serviceable : BOOLEAN,
     unfit : BOOLEAN,               \* has a self test failed since initialization began?
     orientation : BOOLEAN,         \* are the orientation sockets not nil?
     biasXY : BOOLEAN,              \* is there a _gyro_bias_xy?
     biasZ : BOOLEAN,               \* is there a _gyro_bias_z?
     current : Um6Requests \union {"none"},    \* _current_req
     finished : BOOLEAN]            \* has it been answered?

-----------------------------------------------------------------------------
(***************************************************************************)
(* Functions of the driver, on its state.                                  *)
(***************************************************************************)

\* reset(), restart(), failure().  A failure leaves the initialization timer and
\* the current request as they are, and the port open.
Um6Restart(x) ==
    [x EXCEPT !.serviceable = FALSE, !.orientation = FALSE, !.restartTimer = TRUE]
Um6Failure(x) ==
    [Um6Restart(x) EXCEPT !.aliveCheckTimer = FALSE, !.statusCheckTimer = FALSE]

\* make_request() and process_queue()
Send(x, address) == [x EXCEPT !.current = address, !.finished = FALSE]

\* The request that follows in the initialization chain, or "none".
MutNoBiasEndsChain(x, address) ==
    CASE address = "Communication"      -> "MiscConfig"
      [] address = "MiscConfig"         -> "GetFWVersion"
      [] address = "GetFWVersion"       -> "EKFProcessVariance"
      [] address = "EKFProcessVariance" -> "ResetEKF"
      [] address = "ResetEKF"           -> IF x.biasXY THEN "GyroBiasXY" ELSE "ResetEKF"
      [] address = "GyroBiasXY"         -> IF x.biasZ THEN "GyroBiasZ" ELSE "GyroBiasXY"
      [] OTHER                          -> "none"
NextInChain(x, address) ==
    CASE address = "Communication"      -> "MiscConfig"
      [] address = "MiscConfig"         -> "GetFWVersion"
      [] address = "GetFWVersion"       -> "EKFProcessVariance"
      [] address = "EKFProcessVariance" -> "ResetEKF"
      [] address = "ResetEKF"           -> IF x.biasXY THEN "GyroBiasXY" ELSE "ZeroGyros"
      [] address = "GyroBiasXY"         -> IF x.biasZ THEN "GyroBiasZ" ELSE "ZeroGyros"
      [] OTHER                          -> "none"

InitializationComplete(x) ==
    [x EXCEPT !.initializationTimer = FALSE, !.serviceable = TRUE,
              !.statusCheckTimer = TRUE]

\* status_verify(): it looks at fail bits only, also when the read has failed.
StatusVerify(x, fit) == IF fit THEN x ELSE [x EXCEPT !.serviceable = FALSE, !.unfit = TRUE]

\* The current request's callback.
Answered(x, failed, fit) ==
    LET y == [x EXCEPT !.finished = TRUE]
        next == NextInChain(y, y.current)
    IN CASE y.current = "AccelRef" -> y
         [] y.current = "Status"   -> StatusVerify(y, fit)
         [] y.current \in Chain /\ failed -> y
         [] y.current \in Chain /\ ~failed /\ next # "none" -> Send(y, next)
         [] OTHER -> InitializationComplete(y)

\* process_message()
Um6Message(x, p) ==
    CASE p.address = "Euler" /\ ~p.failed -> [x EXCEPT !.orientation = @ \/ x.serviceable]
      [] p.address = "GyroBiasXY" /\ ~p.failed -> [x EXCEPT !.biasXY = TRUE]
      [] p.address = "GyroBiasZ" /\ ~p.failed -> [x EXCEPT !.biasZ = TRUE]
      [] OTHER -> x

\* What x writes, if it has sent a request; nobody takes it when the port is shut.
\* More than the bound is lost.
Writes(x, sends) ==
    IF sends /\ x.open
    THEN \/ /\ Len(frames) < FramesUnderWay
            /\ frames' = Append(frames, x.current)
         \/ (sensorCalm => Len(frames) = FramesUnderWay) /\ UNCHANGED frames
    ELSE UNCHANGED frames

-----------------------------------------------------------------------------
(***************************************************************************)
(* The driver.                                                             *)
(***************************************************************************)

\* open_device(), called by the constructor and the restart timer; initialize()
\* and setup_communication() when the port opens.
MutOpenWithoutAliveCheck ==
    /\ um6.restartTimer
    /\ \/ /\ ~sensorCalm
          /\ \E open \in BOOLEAN :
                um6' = Um6Restart([um6 EXCEPT !.open = open])
          /\ UNCHANGED <<frames, packets>>
       \/ LET x == [um6 EXCEPT !.restartTimer = FALSE, !.open = TRUE,
                        !.initializationTimer = TRUE, !.serviceable = FALSE,
                        !.orientation = FALSE, !.unfit = FALSE]
          IN /\ um6' = Send(x, "Communication")
             /\ Writes(um6', TRUE)
             /\ UNCHANGED packets
    /\ UNCHANGED sensorCalm
Um6OpenDevice ==
    /\ um6.restartTimer
    /\ \/ /\ ~sensorCalm
          /\ \E open, thrown \in BOOLEAN :
                LET x == [um6 EXCEPT !.open = open, !.aliveCheckTimer = TRUE]
                IN um6' = IF thrown THEN Um6Failure(x) ELSE Um6Restart(x)
          /\ UNCHANGED <<frames, packets>>
       \/ LET x == [um6 EXCEPT !.restartTimer = FALSE, !.open = TRUE,
                        !.aliveCheckTimer = TRUE, !.initializationTimer = TRUE,
                        !.serviceable = FALSE, !.orientation = FALSE, !.unfit = FALSE]
          IN /\ um6' = Send(x, "Communication")
             /\ Writes(um6', TRUE)
             /\ UNCHANGED packets
    /\ UNCHANGED sensorCalm

\* alive_check_failed(); a calm sensor keeps broadcasting.
Um6AliveCheckFailed ==
    /\ um6.aliveCheckTimer
    /\ sensorCalm => ~um6.open
    /\ um6' = Um6Failure(um6)
    /\ UNCHANGED <<frames, packets, sensorCalm>>

\* The chain goes on: when calm, that takes less than the timer.
ChainUnderWay ==
    \/ \E i \in DOMAIN frames : frames[i] \in Chain
    \/ \E i \in DOMAIN packets : packets[i].address \in Chain

\* initialization_timeout()
InitializationTimeout ==
    /\ um6.initializationTimer
    /\ sensorCalm => ~ChainUnderWay
    /\ um6' = [Um6Failure(um6) EXCEPT !.initializationTimer = FALSE]
    /\ UNCHANGED <<frames, packets, sensorCalm>>

\* status_check()
StatusCheck ==
    /\ um6.statusCheckTimer
    /\ sensorCalm => um6.finished
    /\ um6' = Send(um6, "Status")
    /\ Writes(um6', TRUE)
    /\ UNCHANGED <<packets, sensorCalm>>

\* process() with new accelerations: up to three writes, each in the place of
\* the one before.  Here one frame stands for them.
Um6Process ==
    /\ um6.open
    /\ sensorCalm => um6.finished
    /\ um6' = Send(um6, "AccelRef")
    /\ Writes(um6', TRUE)
    /\ UNCHANGED <<packets, sensorCalm>>

\* serial_failure()
Um6SerialFailure ==
    /\ um6.open /\ ~sensorCalm
    /\ \E open \in BOOLEAN : um6' = Um6Failure([um6 EXCEPT !.open = open])
    /\ UNCHANGED <<frames, packets, sensorCalm>>

\* parse_packet() and process_packet()
Um6Receive ==
    /\ um6.open /\ packets # <<>>
    /\ packets' = Tail(packets)
    /\ LET p == Head(packets)
           x == [um6 EXCEPT !.aliveCheckTimer = TRUE]
       IN CASE p.address = "corrupted" ->
                    um6' = Um6Failure(um6) /\ UNCHANGED frames
            [] p.address = "BadChecksum" /\ x.current # "none" ->
                    um6' = Send(x, x.current) /\ Writes(um6', TRUE)
            [] p.address = "OtherError" /\ x.current # "none" ->
                    \E fit \in BOOLEAN :
                        /\ sensorCalm => fit
                        /\ um6' = Answered(x, TRUE, fit)
                        /\ UNCHANGED frames
            [] p.address \in Um6Requests /\ p.address = x.current ->
                    \E fit \in BOOLEAN :
                        /\ sensorCalm => fit
                        /\ um6' = Answered(x, p.failed, fit)
                        /\ Writes(um6', ~um6'.finished)
            [] OTHER ->
                    um6' = Um6Message(x, p) /\ UNCHANGED frames
    /\ UNCHANGED sensorCalm

-----------------------------------------------------------------------------
(***************************************************************************)
(* The sensor and the line (external).                                     *)
(***************************************************************************)

\* The sensor answers the next frame.
SensorAnswers ==
    /\ frames # <<>> /\ Len(packets) < PacketsUnderWay
    /\ frames' = Tail(frames)
    /\ \/ packets' = Append(packets, Packet(Head(frames), FALSE))
       \/ /\ ~sensorCalm
          /\ \E p \in {Packet(Head(frames), TRUE), Packet("BadChecksum", FALSE),
                       Packet("OtherError", FALSE)} : packets' = Append(packets, p)
       \/ ~sensorCalm /\ UNCHANGED packets
    /\ UNCHANGED <<um6, sensorCalm>>

\* The sensor broadcasts; zeroing the gyros also sends their new biases.
SensorBroadcasts ==
    /\ packets = <<>>
    /\ \E address \in {"Euler", "GyroBiasXY", "GyroBiasZ"} :
            /\ address # "Euler" => frames # <<>> /\ Head(frames) = "ZeroGyros"
            /\ packets' = <<Packet(address, FALSE)>>
    /\ UNCHANGED <<um6, frames, sensorCalm>>

\* A packet is damaged.
SensorPacketDamaged ==
    /\ ~sensorCalm
    /\ \E i \in DOMAIN packets :
            packets' = [packets EXCEPT ![i] = Packet("corrupted", FALSE)]
    /\ UNCHANGED <<um6, frames, sensorCalm>>

SensorCalmsDown ==
    /\ ~sensorCalm
    /\ sensorCalm' = TRUE
    /\ UNCHANGED <<um6, frames, packets>>

-----------------------------------------------------------------------------
\* The constructor's call of open_device() is still to come.
Um6Init ==
    /\ um6 = [restartTimer |-> TRUE, aliveCheckTimer |-> FALSE,
              statusCheckTimer |-> FALSE, initializationTimer |-> FALSE,
              open |-> FALSE, serviceable |-> FALSE, unfit |-> FALSE,
              orientation |-> FALSE, biasXY |-> FALSE, biasZ |-> FALSE,
              current |-> "none", finished |-> TRUE]
    /\ frames = <<>> /\ packets = <<>>
    /\ sensorCalm = FALSE

Um6Next ==
    \/ Um6OpenDevice
    \/ Um6AliveCheckFailed
    \/ InitializationTimeout
    \/ StatusCheck
    \/ Um6Process
    \/ Um6SerialFailure
    \/ Um6Receive
    \/ SensorAnswers
    \/ SensorBroadcasts
    \/ SensorPacketDamaged
    \/ SensorCalmsDown

Um6Spec == Um6Init /\ [][Um6Next]_um6Vars

-----------------------------------------------------------------------------
(***************************************************************************)
(* Properties.                                                             *)
(***************************************************************************)

Um6TypeOK ==
    /\ um6 \in Um6Driver
    /\ frames \in Seq(Um6Requests)
    /\ packets \in Seq(Um6Packets)
    /\ sensorCalm \in BOOLEAN

\* Although a new request may take the place of one of the chain, so that the
\* chain just stops, and although old answers may continue an old chain while
\* the restart timer runs: a sensor that is not serviceable is about to be
\* opened again, or has the initialization timer behind it, or has failed its
\* self test; and the alive check watches it unless it is about to be opened.
Um6IsWatched ==
    /\ um6.serviceable \/ um6.unfit \/ um6.restartTimer \/ um6.initializationTimer
    /\ um6.aliveCheckTimer \/ um6.restartTimer

\* A sensor that works in the end, without requests in each other's way, gets
\* through the whole chain and is serviceable, unless it has failed its self test
\* in the meantime.
Um6ComesUp == <>[]sensorCalm => <>[](um6.serviceable \/ um6.unfit)
===============================================================================
