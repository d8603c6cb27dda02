--------------------------------- MODULE XBee ---------------------------------
(***************************************************************************)
(* The XBee modem driver (xefis/modules/io/xbee.{h,cc}): it opens the serial *)
(* port, resets and configures the modem by a dialogue of AT commands, sends *)
(* and receives packets and starts all over after any trouble.              *)
(*                                                                         *)
(* The driver is one thread: read(), process() and the timers are called by  *)
(* one event loop.  read() and process() are loops; here each turn of theirs *)
(* is a step, and nothing else of the driver runs until they are over        *)
(* (inbox, sending).  The modem, the line and the port are external: they    *)
(* are what makes the driver's life hard, until they calm down for good.     *)
(***************************************************************************)
EXTENDS Integers, Sequences

CONSTANTS
    Settings,           \* commands after the software reset: 17 in the code
    HasPowerLevel,      \* is the setting power_level given?
    MaxWriteFailures,   \* kMaxWriteFailureCount
    MaxReadFailures,    \* kMaxReadFailureCount
    MaxPackets,         \* bound: packets one process() sends
    LineSize,           \* bound: frames and packets under way, to and from the modem
    MaxSwallow          \* bound: packets that a damaged length takes in

ASSUME XBeeAssumption ==
    /\ Settings \in Nat /\ Settings >= 2
    /\ HasPowerLevel \in BOOLEAN
    /\ MaxWriteFailures \in Nat /\ MaxReadFailures \in Nat
    /\ MaxPackets \in Nat
    /\ LineSize \in Nat \ {0}
    /\ MaxSwallow \in Nat

VARIABLES
    xb,             \* the driver
    queue,          \* frames written to the port, which the modem has not seen
    port,           \* packets of the modem, which the driver has not read
    modem,          \* the modem: is it up, in a reset, with which settings
    lossy,          \* has a packet of the modem been damaged?
    calm            \* from now on nothing goes wrong outside the driver

xbeeVars == <<xb, queue, port, modem, lossy, calm>>

\* Operators named Mut... are the defects the properties are tested with; nothing
\* uses them.

\* ConfigurationStep; the ID of a command's frame is the step it leads to.
Unconfigured == 0
SoftwareReset == 1
AfterSoftwareReset == 2
SetPowerLevel == Settings + 1
SetCoordinatorMode == Settings + 2
Configured == Settings + 3
Steps == Unconfigured .. Configured
SettingSteps ==
    {s \in AfterSoftwareReset + 1 .. SetCoordinatorMode : s = SetPowerLevel => HasPowerLevel}
PingFrame == Configured + 1
ClearChannelFrame == Configured + 2
DataFrame == Configured + 3
Frames == {SoftwareReset, PingFrame, ClearChannelFrame, DataFrame} \union SettingSteps

\* Packets of the modem.
Answer(frame, ok) == [kind |-> "answer", frame |-> frame, ok |-> ok]
Other(kind) == [kind |-> kind, frame |-> DataFrame, ok |-> TRUE]
Packets ==
    [kind : {"answer", "watchdog", "hardware", "radio", "damaged"},
     frame : Frames, ok : BOOLEAN]

Driver ==
    [open : BOOLEAN,                        \* _notifier, and _device
     step : Steps,                          \* _configuration_step
     serviceable : BOOLEAN,
     receive : BOOLEAN,                     \* is the socket receive not nil?
     restart : BOOLEAN,                     \* is _restart_timer running?
     pong : BOOLEAN,                        \* _pong_timer
     afterReset : BOOLEAN,                  \* _after_reset_timer
     pinging : BOOLEAN,                     \* _periodic_ping_timer
     alive : {"off", "behind", "ahead"},    \* _periodic_pong_timer, see below
     writeFailures : 0 .. MaxWriteFailures,
     readFailures : 0 .. MaxReadFailures,
     inbox : Seq(Packets),                  \* _input_buffer during read()
     cut : BOOLEAN,                         \* it ends within the port's head
     swallow : 0 .. MaxSwallow,             \* packets its false packet takes in
     sending : 0 .. MaxPackets]             \* packets process() has left

Idle == xb.inbox = <<>> /\ xb.sending = 0

-----------------------------------------------------------------------------
(***************************************************************************)
(* The functions of the driver, on its state.                              *)
(***************************************************************************)

MutResetKeepsGraceTimer(x) ==
    [x EXCEPT !.pong = FALSE, !.pinging = FALSE, !.alive = "off",
              !.step = Unconfigured, !.serviceable = FALSE,
              !.restart = FALSE, !.receive = FALSE]
MutResetKeepsStep(x) ==
    [x EXCEPT !.pong = FALSE, !.pinging = FALSE, !.alive = "off",
              !.serviceable = FALSE, !.restart = FALSE, !.afterReset = FALSE,
              !.receive = FALSE]
Reset(x) ==
    [x EXCEPT !.pong = FALSE, !.pinging = FALSE, !.alive = "off",
              !.step = Unconfigured, !.serviceable = FALSE,
              !.restart = FALSE, !.afterReset = FALSE, !.receive = FALSE]
Restart(x) == [Reset(x) EXCEPT !.restart = TRUE]
Failure(x) == Restart([x EXCEPT !.open = FALSE])

\* send_failed_with_retry(); _output_buffer is empty whenever it is called.
Retry(x) ==
    IF x.writeFailures = MaxWriteFailures THEN Failure([x EXCEPT !.writeFailures = 0])
    ELSE [x EXCEPT !.writeFailures = @ + 1]

\* request_at() in configure_modem(), the write having result r.
MutRequestWithoutPing(x, next, r) ==
    IF r = "success" THEN [x EXCEPT !.step = next] ELSE Failure(x)
RequestAt(x, next, r) ==
    IF r = "success" THEN [x EXCEPT !.step = next, !.pong = TRUE] ELSE Failure(x)

\* periodic_ping().  Both intervals are 500 ms: a pong timer that it starts is
\* behind the ping timer that it has started just before; one that it leaves
\* running is ahead.
PeriodicPing(x, r) ==
    LET y == [x EXCEPT !.pinging = TRUE, !.alive = IF @ = "off" THEN "off" ELSE "ahead"]
    IN CASE r = "success" -> [y EXCEPT !.alive = "behind"]
         [] r = "retry"   -> Retry(y)
         [] OTHER         -> Failure(y)

NextStep(s) == IF s + 1 = SetPowerLevel /\ ~HasPowerLevel THEN s + 2 ELSE s + 1

\* An answer carries the dialogue on if it is to the last command, and a success.
MutExpectedRefused(x, frame, ok) == frame = x.step
Expected(x, frame, ok) == ok /\ frame = x.step

\* configure_modem(), its write having result r.
Configure(x, frame, ok, r) ==
    LET y == [x EXCEPT !.pong = FALSE] IN
    IF ~Expected(x, frame, ok) THEN Failure(x) ELSE
    CASE x.step = Unconfigured -> RequestAt(y, SoftwareReset, r)
      [] x.step = SoftwareReset -> [y EXCEPT !.pong = TRUE]
      [] x.step \in AfterSoftwareReset .. SetPowerLevel -> RequestAt(y, NextStep(x.step), r)
      [] x.step = SetCoordinatorMode ->
            PeriodicPing([y EXCEPT !.step = Configured, !.serviceable = TRUE], r)
      [] OTHER -> [y EXCEPT !.step = Unconfigured, !.pinging = FALSE, !.alive = "off"]

\* The frame that configure_modem() then writes, or 0.
Request(x, frame, ok) ==
    IF ~Expected(x, frame, ok) THEN 0 ELSE
    CASE x.step = Unconfigured -> SoftwareReset
      [] x.step \in AfterSoftwareReset .. SetPowerLevel -> NextStep(x.step)
      [] x.step = SetCoordinatorMode -> PingFrame
      [] OTHER -> 0

\* send_frame() on driver state x: a closed descriptor fails, a full port is a
\* short write or EAGAIN.
Room == Len(queue) + Len(port) < LineSize
Write(x, frame, r) ==
    \/ frame = 0 /\ r = "success" /\ UNCHANGED queue
    \/ /\ frame # 0
       /\ r = "success"
       /\ x.open /\ Room
       /\ queue' = Append(queue, frame)
    \/ /\ frame # 0
       /\ r = "retry"
       /\ x.open /\ (calm => ~Room)
       /\ UNCHANGED queue
    \/ frame # 0 /\ r = "failure" /\ (x.open => ~calm) /\ UNCHANGED queue

Results == {"success", "retry", "failure"}

-----------------------------------------------------------------------------
(***************************************************************************)
(* Timers.  When calm, what is under way arrives before the next timer: the  *)
(* modem takes less than kCommandTimeout.                                   *)
(***************************************************************************)

UnderWay ==
    \/ queue # <<>> \/ modem.resetting \/ (xb.open /\ xb.cut)
    \/ xb.open /\ \E i \in DOMAIN port : port[i].kind # "radio"
TimerMayFire == Idle /\ (calm => ~UnderWay)

\* open_device(), called by the constructor and the restart timer.  The port's
\* content is discarded, the modem may or may not have seen the last frames.
OpenDevice ==
    /\ TimerMayFire /\ xb.restart
    /\ UNCHANGED <<modem, lossy, calm>>
    /\ \/ \* ::open() fails
          /\ ~calm
          /\ xb' = Restart(xb)
          /\ UNCHANGED <<queue, port>>
       \/ \* set_device_options() fails
          /\ ~calm
          /\ xb' = Failure(xb)
          /\ UNCHANGED <<queue, port>>
       \/ \E r \in Results, sent \in {queue, <<>>}, n \in 0 .. MaxSwallow :
            LET opened == [Reset(xb) EXCEPT !.open = TRUE, !.cut = FALSE,
                                            !.swallow = IF xb.cut THEN n ELSE @]
            IN /\ xb' = Configure(opened, Unconfigured, TRUE, r)
               /\ port' = <<>>
               /\ \/ /\ r = "success" /\ Len(sent) < LineSize
                     /\ queue' = Append(sent, SoftwareReset)
                  \/ r # "success" /\ ~calm /\ queue' = sent

PongTimeout ==
    /\ TimerMayFire /\ xb.pong
    /\ xb' = Failure(xb)
    /\ UNCHANGED <<queue, port, modem, lossy, calm>>

\* continue_after_reset()
ContinueAfterReset ==
    /\ TimerMayFire /\ xb.afterReset
    /\ LET x == [xb EXCEPT !.afterReset = FALSE] IN
       \E r \in Results :
            /\ Write(x, Request(x, x.step, TRUE), r)
            /\ xb' = Configure(x, x.step, TRUE, r)
    /\ UNCHANGED <<port, modem, lossy, calm>>

PeriodicPingTimeout ==
    /\ TimerMayFire /\ xb.pinging
    /\ \E r \in Results :
            /\ Write(xb, PingFrame, r)
            /\ xb' = PeriodicPing(xb, r)
    /\ UNCHANGED <<port, modem, lossy, calm>>

PeriodicPongTimeout ==
    /\ TimerMayFire /\ xb.alive = "ahead"
    /\ xb' = Failure(xb)
    /\ UNCHANGED <<queue, port, modem, lossy, calm>>

\* clear_channel_check(): its timer runs while the ping timer does.
ClearChannelCheck ==
    /\ TimerMayFire /\ xb.pinging
    /\ \E r \in Results :
            /\ Write(xb, ClearChannelFrame, r)
            /\ xb' = IF r = "retry" THEN Retry(xb) ELSE xb
    /\ UNCHANGED <<port, modem, lossy, calm>>

-----------------------------------------------------------------------------
(***************************************************************************)
(* process() and read().                                                   *)
(***************************************************************************)

\* process() with new data to send, in n packets.  When calm, the application
\* sends no more than the line takes.
Process ==
    /\ Idle /\ xb.open /\ xb.step = Configured
    /\ \E n \in 1 .. MaxPackets :
            /\ calm => Len(queue) + Len(port) + n <= LineSize
            /\ xb' = [xb EXCEPT !.sending = n]
    /\ UNCHANGED <<queue, port, modem, lossy, calm>>

\* The next packet, also after a failure.
SendPacket ==
    /\ xb.sending > 0
    /\ LET x == [xb EXCEPT !.sending = @ - 1] IN
       \E r \in Results :
            /\ Write(x, DataFrame, r)
            /\ xb' = CASE r = "success" -> x
                       [] r = "retry"   -> Retry(x)
                       [] OTHER         -> Failure(x)
    /\ UNCHANGED <<port, modem, lossy, calm>>

\* read() of n packets, and perhaps the beginning of the next.
Read ==
    /\ Idle /\ xb.open
    /\ \E n \in 0 .. Len(port), cut \in BOOLEAN :
            /\ n > 0 \/ (cut /\ ~xb.cut)
            /\ cut => n < Len(port)
            /\ xb' = [xb EXCEPT !.inbox = SubSeq(port, 1, n), !.cut = cut, !.readFailures = 0]
            /\ port' = SubSeq(port, n + 1, Len(port))
    /\ UNCHANGED <<queue, modem, lossy, calm>>

\* read() that gets nothing, or an error.  (An error also adds 1024 zero bytes
\* to the input: they are skipped, or damage what follows a cut packet.)
ReadNothing ==
    /\ Idle /\ xb.open /\ ~calm
    /\ xb' = IF xb.readFailures = MaxReadFailures
             THEN [Failure(xb) EXCEPT !.readFailures = 0]
             ELSE [xb EXCEPT !.readFailures = @ + 1]
    /\ UNCHANGED <<queue, port, modem, lossy, calm>>
ReadError ==
    /\ Idle /\ xb.open /\ ~calm
    /\ xb' = Failure(xb)
    /\ UNCHANGED <<queue, port, modem, lossy, calm>>

\* process_packet() finds a false packet: its checksum is wrong, and the whole
\* buffer is discarded, or its length is, and it takes in what follows.
SkipDamaged ==
    /\ xb.inbox # <<>> /\ (xb.swallow > 0 \/ Head(xb.inbox).kind = "damaged")
    /\ \E n \in IF xb.swallow > 0 THEN {xb.swallow - 1} ELSE 0 .. MaxSwallow :
            xb' = [xb EXCEPT !.swallow = n, !.inbox = IF n = 0 THEN <<>> ELSE Tail(@)]
    /\ UNCHANGED <<queue, port, modem, lossy, calm>>

\* process_input() with the next packet p, in driver state x.
Received == Head(xb.inbox)
Receiving(kind) == xb.inbox # <<>> /\ xb.swallow = 0 /\ Received.kind = kind
Rest == [xb EXCEPT !.inbox = Tail(@)]

\* process_rx16_frame(), process_rx64_frame()
ReceiveRadio ==
    /\ Receiving("radio")
    /\ xb' = [Rest EXCEPT !.receive = xb.step = Configured \/ @]
    /\ UNCHANGED <<queue, port, modem, lossy, calm>>

\* process_modem_status_frame()
ExpectsWatchdog(x) == x.step = SoftwareReset
ReceiveStatus ==
    /\ Receiving("watchdog") \/ Receiving("hardware")
    /\ xb' = IF Received.kind = "watchdog" /\ ExpectsWatchdog(Rest)
             THEN [Rest EXCEPT !.pong = FALSE, !.step = AfterSoftwareReset, !.afterReset = TRUE]
             ELSE Failure(Rest)
    /\ UNCHANGED <<queue, port, modem, lossy, calm>>

\* process_at_response_frame(); periodic_pong() stops its timer also after a
\* failure.
ReceiveAnswer ==
    /\ Receiving("answer")
    /\ CASE Received.frame = PingFrame ->
                /\ xb' = IF Received.ok THEN [Rest EXCEPT !.alive = "off"] ELSE Failure(Rest)
                /\ UNCHANGED queue
         [] Received.frame = ClearChannelFrame ->
                /\ xb' = Rest
                /\ UNCHANGED queue
         [] OTHER ->
                \E r \in Results :
                    /\ Write(Rest, Request(Rest, Received.frame, Received.ok), r)
                    /\ xb' = Configure(Rest, Received.frame, Received.ok, r)
    /\ UNCHANGED <<port, modem, lossy, calm>>

-----------------------------------------------------------------------------
(***************************************************************************)
(* The modem and the line (external).                                      *)
(***************************************************************************)

\* Packet p arrives; nobody takes it while the port is closed.
Arrives(p) ==
    IF xb.open THEN port' = Append(port, p) ELSE UNCHANGED port

\* The modem executes the next frame.  It answers a command, and a software
\* reset also loses its settings.
ModemExecutes ==
    /\ modem.up /\ queue # <<>> /\ ~modem.resetting
    /\ \E ok \in BOOLEAN :
            LET c == Head(queue) IN
            /\ calm \/ c \notin SettingSteps \union {PingFrame} => ok
            /\ queue' = Tail(queue)
            /\ IF c = DataFrame THEN UNCHANGED port ELSE Arrives(Answer(c, ok))
            /\ modem' = IF ~ok THEN modem
                        ELSE IF c = SoftwareReset
                        THEN [modem EXCEPT !.resetting = TRUE, !.settings = {}]
                        ELSE IF c \in SettingSteps
                        THEN [modem EXCEPT !.settings = @ \union {c}]
                        ELSE modem
    /\ UNCHANGED <<xb, lossy, calm>>

\* The reset is over.
ModemReports ==
    /\ modem.resetting
    /\ modem' = [modem EXCEPT !.resetting = FALSE]
    /\ Arrives(Other("watchdog"))
    /\ UNCHANGED <<xb, queue, lossy, calm>>

\* The modem resets itself, or its supply has failed and comes back.
ModemResets ==
    /\ ~calm /\ ~modem.resetting /\ (xb.open => Room \/ queue # <<>>)
    /\ \E kind \in {"watchdog", "hardware"} : Arrives(Other(kind))
    /\ modem' = [up |-> TRUE, resetting |-> FALSE, settings |-> {}]
    /\ queue' = <<>>
    /\ UNCHANGED <<xb, lossy, calm>>

\* The modem falls silent; the port still takes what is written.
ModemDies ==
    /\ ~calm /\ modem.up
    /\ modem' = [up |-> FALSE, resetting |-> FALSE, settings |-> {}]
    /\ UNCHANGED <<xb, queue, port, lossy, calm>>

\* What is written to a silent modem leaves the port all the same.
NobodyListens ==
    /\ ~modem.up /\ queue # <<>>
    /\ queue' = Tail(queue)
    /\ UNCHANGED <<xb, port, modem, lossy, calm>>

\* A packet is received by radio.
RadioPacket ==
    /\ modem.up /\ ~modem.resetting /\ port = <<>> /\ Room /\ ~xb.receive
    /\ Arrives(Other("radio"))
    /\ UNCHANGED <<xb, queue, modem, lossy, calm>>

\* A frame is lost, because it, or the end of the one before, is damaged.
FrameLost ==
    /\ ~calm /\ modem.up /\ queue # <<>>
    /\ queue' = Tail(queue)
    /\ UNCHANGED <<xb, port, modem, lossy, calm>>

\* A packet is damaged on the line.
PacketDamaged ==
    /\ ~calm /\ ~lossy
    /\ \E i \in DOMAIN port : port' = [port EXCEPT ![i] = Other("damaged")]
    /\ lossy' = TRUE
    /\ UNCHANGED <<xb, queue, modem, calm>>

CalmDown ==
    /\ ~calm /\ modem.up
    /\ calm' = TRUE
    /\ UNCHANGED <<xb, queue, port, modem, lossy>>

-----------------------------------------------------------------------------
\* The constructor's call of open_device() is still to come.
XBeeInit ==
    /\ xb = [open |-> FALSE, step |-> Unconfigured, serviceable |-> FALSE,
             receive |-> FALSE, restart |-> TRUE, pong |-> FALSE,
             afterReset |-> FALSE, pinging |-> FALSE, alive |-> "off",
             writeFailures |-> 0, readFailures |-> 0, inbox |-> <<>>,
             cut |-> FALSE, swallow |-> 0, sending |-> 0]
    /\ queue = <<>> /\ port = <<>>
    /\ modem = [up |-> TRUE, resetting |-> FALSE, settings |-> {}]
    /\ lossy = FALSE /\ calm = FALSE

XBeeTimer ==
    \/ OpenDevice
    \/ PongTimeout
    \/ ContinueAfterReset
    \/ PeriodicPingTimeout
    \/ PeriodicPongTimeout
    \/ ClearChannelCheck
XBeeInput ==
    \/ Read
    \/ SkipDamaged
    \/ ReceiveRadio
    \/ ReceiveStatus
    \/ ReceiveAnswer
    \/ SendPacket
XBeeModem == ModemExecutes \/ ModemReports \/ NobodyListens
XBeeNext ==
    \/ XBeeTimer
    \/ XBeeInput
    \/ Process
    \/ ReadNothing
    \/ ReadError
    \/ XBeeModem
    \/ ModemResets
    \/ ModemDies
    \/ RadioPacket
    \/ FrameLost
    \/ PacketDamaged
    \/ CalmDown

XBeeSpec == XBeeInit /\ [][XBeeNext]_xbeeVars

-----------------------------------------------------------------------------
(***************************************************************************)
(* Properties.                                                             *)
(***************************************************************************)

XBeeTypeOK ==
    /\ xb \in Driver
    /\ queue \in Seq(Frames)
    /\ port \in Seq(Packets)
    /\ modem \in [up : BOOLEAN, resetting : BOOLEAN, settings : SUBSET SettingSteps]
    /\ lossy \in BOOLEAN /\ calm \in BOOLEAN

\* Whatever fails, and however many handlers still run after it: the driver
\* either waits for the restart timer, with the port closed and nothing else
\* pending, or it has the port open and the restart timer stopped.  So it
\* never stays closed, and never opens a port twice.
OpenOrRestarting ==
    /\ xb.open <=> ~xb.restart
    /\ ~xb.open => /\ xb.step = Unconfigured
                   /\ ~xb.serviceable /\ ~xb.receive
                   /\ ~xb.pong /\ ~xb.afterReset /\ ~xb.pinging /\ xb.alive = "off"

\* While the port is open, something is always due that carries the driver on
\* when the modem does not: the dialogue has its timer in every step, and a
\* configured modem is pinged.
AlwaysWatched ==
    xb.open => CASE xb.step = AfterSoftwareReset -> xb.afterReset
                 [] xb.step = Configured -> xb.pinging
                 [] OTHER -> xb.pong /\ ~xb.afterReset

\* A modem that the driver takes for configured has all the settings, unless it
\* has lost them since and its message is still to be read, or it is silent.
\* Commands may be refused, lost or executed late, but no packet damaged.
Pending == xb.inbox \o port
ServiceableModemIsConfigured ==
    xb.serviceable /\ modem.up /\ ~lossy =>
        \/ modem.settings = SettingSteps
        \/ modem.resetting
        \/ \E i \in DOMAIN Pending : Pending[i].kind \in {"watchdog", "hardware"}

\* When the modem, the line and the port behave, whatever has happened to them
\* before, the link comes up in the end and stays up.
LinkComesUp == <>[]calm => <>[](xb.serviceable)

\* "Ping timer pings modem periodically.  After each ping alive-check-timer is
\* started to see if there's response.  If there's none, failure() is called":
\* a modem that is silent for good does not stay serviceable.
SilenceIsFailure == ~<>[](xb.serviceable /\ ~modem.up)
===============================================================================
