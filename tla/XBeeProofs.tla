------------------------------- MODULE XBeeProofs -------------------------------
(***************************************************************************)
(* Proofs about module XBee, for any number of settings, any limits of       *)
(* failures and any capacity of the line.                                   *)
(***************************************************************************)
EXTENDS XBee, SequenceTheorems, TLAPS

\* The parts of OpenOrRestarting and AlwaysWatched, of any driver state, and why
\* the timer after a reset finds the step that it is for.
Restarting(x) ==
    /\ x.open <=> ~x.restart
    /\ ~x.open => /\ x.step = Unconfigured
                  /\ ~x.serviceable /\ ~x.receive
                  /\ ~x.pong /\ ~x.afterReset /\ ~x.pinging /\ x.alive = "off"
Watched(x) ==
    x.open => CASE x.step = AfterSoftwareReset -> x.afterReset
                [] x.step = Configured -> x.pinging
                [] OTHER -> x.pong /\ ~x.afterReset
GraceStep(x) == x.afterReset => x.step = AfterSoftwareReset
Sound(x) == x \in Driver /\ Restarting(x) /\ Watched(x) /\ GraceStep(x)

XBeeInv == XBeeTypeOK /\ Sound(xb)

Numbering ==
    /\ Unconfigured = 0 /\ SoftwareReset = 1 /\ AfterSoftwareReset = 2
    /\ SetPowerLevel = Settings + 1 /\ SetCoordinatorMode = Settings + 2
    /\ Configured = Settings + 3 /\ PingFrame = Settings + 4
    /\ ClearChannelFrame = Settings + 5 /\ DataFrame = Settings + 6
    /\ Settings \in Nat /\ Settings >= 2
    /\ Steps = 0 .. Settings + 3
    /\ SettingSteps \subseteq 3 .. Settings + 2
    /\ Frames = {1, Settings + 4, Settings + 5, Settings + 6} \union SettingSteps

-----------------------------------------------------------------------------
LEMMA NumberingHolds == ASSUME XBeeAssumption PROVE Numbering
  BY DEF XBeeAssumption, Numbering, Unconfigured, SoftwareReset, AfterSoftwareReset,
         SetPowerLevel, SetCoordinatorMode, Configured, PingFrame, ClearChannelFrame,
         DataFrame, Steps, SettingSteps, Frames

\* The dialogue goes through the settings in order.
LEMMA NextStepIsSetting ==
    ASSUME XBeeAssumption, NEW s \in AfterSoftwareReset .. SetPowerLevel
    PROVE  NextStep(s) \in SettingSteps
  BY DEF XBeeAssumption, NextStep, SettingSteps, AfterSoftwareReset, SetPowerLevel,
         SetCoordinatorMode

\* Sequences of what is under way.
LEMMA NoSequence == ASSUME NEW S PROVE <<>> \in Seq(S)
  OBVIOUS
LEMMA OneReplaced ==
    ASSUME NEW S, NEW s \in Seq(S), NEW i \in DOMAIN s, NEW a \in S
    PROVE  [s EXCEPT ![i] = a] \in Seq(S)
  OBVIOUS
LEMMA PartOfSequence ==
    ASSUME NEW S, NEW s \in Seq(S), NEW n \in 0 .. Len(s)
    PROVE  SubSeq(s, 1, n) \in Seq(S) /\ SubSeq(s, n + 1, Len(s)) \in Seq(S)
  OBVIOUS

-----------------------------------------------------------------------------
(***************************************************************************)
(* What the functions of the driver preserve.                              *)
(***************************************************************************)

LEMMA ResetKeepsType ==
    ASSUME XBeeAssumption, NEW x \in Driver
    PROVE  Reset(x) \in Driver /\ Restart(x) \in Driver /\ Failure(x) \in Driver
  <1>1. Unconfigured \in Steps
    BY NumberingHolds DEF Numbering
  <1>2. Reset(x) \in Driver
    BY <1>1 DEF Reset, Driver
  <1>3. \A y \in Driver : [Reset(y) EXCEPT !.restart = TRUE] \in Driver
    BY <1>1, ZenonT(60) DEF Reset, Driver
  <1>4. [x EXCEPT !.open = FALSE] \in Driver
    BY DEF Driver
  <1> QED
    BY <1>2, <1>3, <1>4 DEF Restart, Failure

\* A failure closes the port and stops everything but the restart timer.
LEMMA FailureIsSound ==
    ASSUME XBeeAssumption, NEW x \in Driver
    PROVE  Sound(Failure(x))
  <1>1. Failure(x) \in Driver
    BY ResetKeepsType
  <1>2. Restarting(Failure(x))
    BY DEF Failure, Restart, Reset, Restarting, Driver
  <1>3. ~Failure(x).open /\ ~Failure(x).afterReset
    BY DEF Failure, Restart, Reset, Driver
  <1> QED
    BY <1>1, <1>2, <1>3 DEF Sound, Watched, GraceStep

LEMMA SameIsSound ==
    ASSUME NEW x, NEW y \in Driver, Sound(x),
           y.open = x.open, y.restart = x.restart, y.step = x.step,
           y.serviceable = x.serviceable, y.receive = x.receive, y.pong = x.pong,
           y.afterReset = x.afterReset, y.pinging = x.pinging, y.alive = x.alive
    PROVE  Sound(y)
  BY DEF Sound, Restarting, Watched, GraceStep

LEMMA RetryIsSound ==
    ASSUME XBeeAssumption, NEW x, Sound(x)
    PROVE  Sound(Retry(x))
  <1>0. x \in Driver
    BY DEF Sound
  <1>1. CASE x.writeFailures = MaxWriteFailures
    <2>1. [x EXCEPT !.writeFailures = 0] \in Driver
      BY <1>0, SMTT(30) DEF Driver, XBeeAssumption
    <2> QED
      BY <1>1, <2>1, FailureIsSound DEF Retry
  <1>2. CASE x.writeFailures # MaxWriteFailures
    <2> DEFINE y == [x EXCEPT !.writeFailures = @ + 1]
    <2>1. x.writeFailures + 1 \in 0 .. MaxWriteFailures
      BY <1>0, <1>2 DEF Driver, XBeeAssumption
    <2>2. y \in Driver
      BY <1>0, <2>1 DEF Driver
    <2>3. /\ y.open = x.open /\ y.restart = x.restart /\ y.step = x.step
          /\ y.serviceable = x.serviceable /\ y.receive = x.receive /\ y.pong = x.pong
          /\ y.afterReset = x.afterReset /\ y.pinging = x.pinging /\ y.alive = x.alive
      BY <1>0 DEF Driver
    <2>4. Sound(y)
      <3> HIDE DEF y
      <3> QED BY <2>2, <2>3, SameIsSound
    <2> QED
      BY <1>2, <2>4 DEF Retry
  <1> QED
    BY <1>1, <1>2
LEMMA RequestIsSound ==
    ASSUME XBeeAssumption, NEW x \in Driver, x.open, ~x.restart, ~x.afterReset,
           NEW next \in Steps, next # AfterSoftwareReset, next # Configured, NEW r
    PROVE  Sound(RequestAt(x, next, r))
  <1>1. CASE r = "success"
    <2> DEFINE y == [x EXCEPT !.step = next, !.pong = TRUE]
    <2>1. y \in Driver
      BY DEF Driver
    <2>2. y.open /\ ~y.restart /\ ~y.afterReset /\ y.pong /\ y.step = next
      BY DEF Driver
    <2>3. Sound(y)
      <3> HIDE DEF y
      <3> QED BY <2>1, <2>2 DEF Sound, Restarting, Watched, GraceStep
    <2> QED
      BY <1>1, <2>3 DEF RequestAt
  <1>2. CASE r # "success"
    BY <1>2, FailureIsSound DEF RequestAt
  <1> QED
    BY <1>1, <1>2

\* A ping may be what makes a configured modem watched.
LEMMA PingIsSound ==
    ASSUME XBeeAssumption, NEW x \in Driver, x.open, ~x.restart, GraceStep(x),
           x.step # Configured => Watched(x), NEW r
    PROVE  Sound(PeriodicPing(x, r))
  <1> DEFINE y == [x EXCEPT !.pinging = TRUE, !.alive = IF @ = "off" THEN "off" ELSE "ahead"]
             z == [y EXCEPT !.alive = "behind"]
  <1>1. y \in Driver
    BY DEF Driver
  <1>2. /\ y.open /\ ~y.restart /\ y.pinging
        /\ y.step = x.step /\ y.afterReset = x.afterReset /\ y.pong = x.pong
    BY DEF Driver
  <1>3. z \in Driver
    BY DEF Driver
  <1>4. /\ z.open /\ ~z.restart /\ z.pinging
        /\ z.step = x.step /\ z.afterReset = x.afterReset /\ z.pong = x.pong
    BY DEF Driver
  <1>5. PeriodicPing(x, r) = CASE r = "success" -> z
                               [] r = "retry"   -> Retry(y)
                               [] OTHER         -> Failure(y)
    BY DEF PeriodicPing
  <1> HIDE DEF y, z
  <1>6. Sound(y)
    BY <1>1, <1>2, NumberingHolds DEF Sound, Restarting, Watched, GraceStep, Numbering
  <1>7. Sound(z)
    BY <1>3, <1>4, NumberingHolds DEF Sound, Restarting, Watched, GraceStep, Numbering
  <1>8. Sound(Retry(y))
    BY <1>6, RetryIsSound
  <1>9. Sound(Failure(y))
    BY <1>1, FailureIsSound
  <1>10. CASE r = "success"
    BY <1>5, <1>7, <1>10
  <1>11. CASE r = "retry"
    BY <1>5, <1>8, <1>11
  <1>12. CASE r # "success" /\ r # "retry"
    BY <1>5, <1>9, <1>12
  <1> QED
    BY <1>10, <1>11, <1>12

\* The dialogue is carried on with the port open and the grace timer stopped.
LEMMA ConfigureIsSound ==
    ASSUME XBeeAssumption, NEW x \in Driver, NEW frame, NEW ok, NEW r,
           Expected(x, frame, ok) =>
               x.open /\ ~x.restart /\ ~x.afterReset /\ x.step # Configured
    PROVE  Sound(Configure(x, frame, ok, r))
  <1> USE NumberingHolds
  <1>1. CASE ~Expected(x, frame, ok)
    <2>1. Configure(x, frame, ok, r) = Failure(x)
      BY <1>1 DEF Configure
    <2> QED
      BY <2>1, FailureIsSound
  <1>2. CASE Expected(x, frame, ok)
    <2> DEFINE y == [x EXCEPT !.pong = FALSE]
    <2>1. y \in Driver
      BY DEF Driver
    <2>2. y.open /\ ~y.restart /\ ~y.afterReset /\ y.step = x.step
      BY <1>2 DEF Driver
    <2>3. x.step \in Steps /\ x.step # Configured
      BY <1>2 DEF Driver
    <2>4. CASE x.step = Unconfigured
      <3>1. Configure(x, frame, ok, r) = RequestAt(y, SoftwareReset, r)
        BY <1>2, <2>4 DEF Configure, Numbering
      <3> HIDE DEF y
      <3>2. SoftwareReset \in Steps /\ SoftwareReset # AfterSoftwareReset /\ SoftwareReset # Configured
        BY DEF Numbering
      <3> QED
        BY <2>1, <2>2, <3>1, <3>2, RequestIsSound
    <2>5. CASE x.step = SoftwareReset
      <3> DEFINE z == [y EXCEPT !.pong = TRUE]
      <3>1. z \in Driver
        BY DEF Driver
      <3>2. z.open /\ ~z.restart /\ ~z.afterReset /\ z.step = x.step /\ z.pong
        BY <1>2 DEF Driver
      <3>3. Configure(x, frame, ok, r) = z
        BY <1>2, <2>5 DEF Configure, Numbering
      <3> HIDE DEF y, z
      <3>4. z.step # AfterSoftwareReset /\ z.step # Configured
        BY <2>5, <3>2 DEF Numbering
      <3>5. Sound(z)
        BY <3>1, <3>2, <3>4 DEF Sound, Restarting, Watched, GraceStep
      <3> QED
        BY <3>3, <3>5
    <2>6. CASE x.step \in AfterSoftwareReset .. SetPowerLevel
      <3>1. Configure(x, frame, ok, r) = RequestAt(y, NextStep(x.step), r)
        BY <1>2, <2>6 DEF Configure, Numbering
      <3> HIDE DEF y
      <3>2. NextStep(x.step) \in SettingSteps
        BY <2>6, NextStepIsSetting
      <3>3. /\ NextStep(x.step) \in Steps
            /\ NextStep(x.step) # AfterSoftwareReset /\ NextStep(x.step) # Configured
        BY <3>2 DEF Numbering
      <3> QED
        BY <2>1, <2>2, <3>1, <3>3, RequestIsSound
    <2>7. CASE x.step = SetCoordinatorMode
      <3> DEFINE z == [y EXCEPT !.step = Configured, !.serviceable = TRUE]
      <3>1. Configured \in Steps
        BY DEF Numbering
      <3>2. z \in Driver
        BY <3>1 DEF Driver
      <3>3. z.open /\ ~z.restart /\ ~z.afterReset /\ z.step = Configured
        BY <1>2 DEF Driver
      <3>4. Configure(x, frame, ok, r) = PeriodicPing(z, r)
        BY <1>2, <2>7 DEF Configure, Numbering
      <3> HIDE DEF y, z
      <3>5. Sound(PeriodicPing(z, r))
        BY <3>2, <3>3, PingIsSound DEF GraceStep
      <3> QED
        BY <3>4, <3>5
    <2>8. \/ x.step = Unconfigured \/ x.step = SoftwareReset
          \/ x.step \in AfterSoftwareReset .. SetPowerLevel \/ x.step = SetCoordinatorMode
      BY <2>3 DEF Numbering
    <2> QED
      BY <2>4, <2>5, <2>6, <2>7, <2>8
  <1> QED
    BY <1>1, <1>2

\* Whatever the driver writes is a frame.
LEMMA RequestIsFrame ==
    ASSUME XBeeAssumption, NEW x \in Driver, NEW frame, NEW ok
    PROVE  Request(x, frame, ok) \in Frames \union {0}
  <1>1. x.step \in AfterSoftwareReset .. SetPowerLevel => NextStep(x.step) \in SettingSteps
    BY NextStepIsSetting
  <1> QED
    BY <1>1 DEF Request, Frames

LEMMA WriteKeepsType ==
    ASSUME queue \in Seq(Frames), NEW x, NEW frame \in Frames \union {0}, NEW r,
           Write(x, frame, r)
    PROVE  queue' \in Seq(Frames)
  <1>1. CASE frame # 0 /\ queue' = Append(queue, frame)
    BY <1>1
  <1>2. CASE queue' = queue
    BY <1>2
  <1> QED
    BY <1>1, <1>2 DEF Write
-----------------------------------------------------------------------------
(***************************************************************************)
(* One lemma per kind of step.  What concerns only the modem and the line     *)
(* leaves the driver alone.                                                *)
(***************************************************************************)

\* Packets of the modem.
LEMMA PacketsAre ==
    ASSUME XBeeAssumption
    PROVE  /\ \A f \in Frames, ok \in BOOLEAN : Answer(f, ok) \in Packets
           /\ \A k \in {"watchdog", "hardware", "radio", "damaged"} : Other(k) \in Packets
  BY DEF Answer, Other, Packets, Frames

LEMMA InitSound == ASSUME XBeeAssumption, XBeeInit PROVE XBeeInv
  <1>1. Unconfigured \in Steps
    BY NumberingHolds DEF Numbering
  <1>2. 0 \in 0 .. MaxWriteFailures /\ 0 \in 0 .. MaxReadFailures
        /\ 0 \in 0 .. MaxSwallow /\ 0 \in 0 .. MaxPackets
    BY DEF XBeeAssumption
  <1>3. xb \in Driver
    BY <1>1, <1>2 DEF XBeeInit, Driver
  <1>4. Restarting(xb) /\ Watched(xb) /\ GraceStep(xb)
    BY DEF XBeeInit, Restarting, Watched, GraceStep
  <1>5. modem \in [up : BOOLEAN, resetting : BOOLEAN, settings : SUBSET SettingSteps]
    BY DEF XBeeInit
  <1>6. queue \in Seq(Frames) /\ port \in Seq(Packets) /\ lossy \in BOOLEAN /\ calm \in BOOLEAN
    BY NoSequence DEF XBeeInit
  <1> QED
    BY <1>3, <1>4, <1>5, <1>6 DEF XBeeInv, Sound, XBeeTypeOK

LEMMA OpenDeviceSound ==
    ASSUME XBeeAssumption, XBeeInv, OpenDevice
    PROVE  Sound(xb') /\ queue' \in Seq(Frames) /\ port' \in Seq(Packets)
  <1>1. xb \in Driver /\ queue \in Seq(Frames) /\ port \in Seq(Packets)
    BY DEF XBeeInv, XBeeTypeOK
  <1>2. CASE xb' = Restart(xb) /\ UNCHANGED <<queue, port>>
    <2>1. Restart(xb) \in Driver
      BY <1>1, ResetKeepsType
    <2>2. ~xb.open
      BY DEF XBeeInv, Sound, Restarting, OpenDevice
    <2>3. Restarting(Restart(xb)) /\ ~Restart(xb).open /\ ~Restart(xb).afterReset
      BY <1>1, <2>2 DEF Restart, Reset, Restarting, Driver
    <2> QED
      BY <1>1, <1>2, <2>1, <2>3 DEF Sound, Watched, GraceStep
  <1>3. CASE xb' = Failure(xb) /\ UNCHANGED <<queue, port>>
    BY <1>1, <1>3, FailureIsSound
  <1>4. ASSUME NEW r \in Results, NEW sent \in {queue, <<>>}, NEW n \in 0 .. MaxSwallow,
               xb' = Configure([Reset(xb) EXCEPT !.open = TRUE, !.cut = FALSE,
                                                 !.swallow = IF xb.cut THEN n ELSE @],
                               Unconfigured, TRUE, r),
               port' = <<>>,
               queue' = Append(sent, SoftwareReset) \/ queue' = sent
        PROVE  Sound(xb') /\ queue' \in Seq(Frames) /\ port' \in Seq(Packets)
    <2> DEFINE x == Reset(xb)
               y == [x EXCEPT !.open = TRUE, !.cut = FALSE,
                              !.swallow = IF xb.cut THEN n ELSE @]
    <2>1. x \in Driver
      BY <1>1, ResetKeepsType
    <2>2. ~x.restart /\ ~x.afterReset /\ x.step = Unconfigured
      BY <1>1 DEF Reset, Driver
    <2>3. xb' = Configure(y, Unconfigured, TRUE, r)
      BY <1>4
    <2> HIDE DEF x
    <2>4. y \in Driver
      BY <2>1 DEF Driver
    <2>5. y.open /\ ~y.restart /\ ~y.afterReset /\ y.step = Unconfigured
      BY <2>1, <2>2 DEF Driver
    <2> HIDE DEF y
    <2>6. Unconfigured # Configured
      BY NumberingHolds DEF Numbering
    <2>7. Sound(Configure(y, Unconfigured, TRUE, r))
      BY <2>4, <2>5, <2>6, ConfigureIsSound
    <2>8. SoftwareReset \in Frames /\ sent \in Seq(Frames)
      BY <1>1, NoSequence DEF Frames
    <2>9. Append(sent, SoftwareReset) \in Seq(Frames)
      BY <2>8
    <2>10. queue' \in Seq(Frames)
      BY <1>4, <2>8, <2>9
    <2> QED
      BY <1>4, <2>3, <2>7, <2>10, NoSequence
  <1> QED
    BY <1>2, <1>3, <1>4 DEF OpenDevice

LEMMA ContinueAfterResetSound ==
    ASSUME XBeeAssumption, XBeeInv, ContinueAfterReset
    PROVE  Sound(xb') /\ queue' \in Seq(Frames)
  <1> DEFINE x == [xb EXCEPT !.afterReset = FALSE]
  <1>1. xb \in Driver /\ queue \in Seq(Frames) /\ xb.afterReset /\ Restarting(xb) /\ GraceStep(xb)
    BY DEF XBeeInv, XBeeTypeOK, Sound, ContinueAfterReset
  <1>2. xb.open /\ ~xb.restart /\ xb.step = AfterSoftwareReset
    BY <1>1 DEF Restarting, GraceStep
  <1>3. x \in Driver
    BY <1>1 DEF Driver
  <1>4. x.open /\ ~x.restart /\ ~x.afterReset /\ x.step = AfterSoftwareReset
    BY <1>1, <1>2 DEF Driver
  <1>5. PICK r \in Results : /\ Write(x, Request(x, x.step, TRUE), r)
                             /\ xb' = Configure(x, x.step, TRUE, r)
    BY DEF ContinueAfterReset
  <1> HIDE DEF x
  <1>6. AfterSoftwareReset # Configured
    BY NumberingHolds DEF Numbering
  <1>7. Sound(xb')
    BY <1>3, <1>4, <1>5, <1>6, ConfigureIsSound
  <1>8. Request(x, x.step, TRUE) \in Frames \union {0}
    BY <1>3, RequestIsFrame
  <1>9. queue' \in Seq(Frames)
    BY <1>1, <1>5, <1>8, WriteKeepsType
  <1> QED
    BY <1>7, <1>9

LEMMA PeriodicPingTimeoutSound ==
    ASSUME XBeeAssumption, XBeeInv, PeriodicPingTimeout
    PROVE  Sound(xb') /\ queue' \in Seq(Frames)
  <1>1. /\ xb \in Driver /\ queue \in Seq(Frames) /\ xb.pinging
        /\ Restarting(xb) /\ GraceStep(xb) /\ Watched(xb)
    BY DEF XBeeInv, XBeeTypeOK, Sound, PeriodicPingTimeout
  <1>2. xb.open /\ ~xb.restart
    BY <1>1 DEF Restarting
  <1>3. PICK r \in Results : Write(xb, PingFrame, r) /\ xb' = PeriodicPing(xb, r)
    BY DEF PeriodicPingTimeout
  <1>4. Sound(xb')
    BY <1>1, <1>2, <1>3, PingIsSound
  <1>5. PingFrame \in Frames
    BY DEF Frames
  <1> QED
    BY <1>1, <1>3, <1>4, <1>5, WriteKeepsType

LEMMA ClearChannelCheckSound ==
    ASSUME XBeeAssumption, XBeeInv, ClearChannelCheck
    PROVE  Sound(xb') /\ queue' \in Seq(Frames)
  <1>1. Sound(xb) /\ queue \in Seq(Frames)
    BY DEF XBeeInv, XBeeTypeOK
  <1>2. PICK r \in Results : /\ Write(xb, ClearChannelFrame, r)
                             /\ xb' = IF r = "retry" THEN Retry(xb) ELSE xb
    BY DEF ClearChannelCheck
  <1>3. Sound(xb')
    BY <1>1, <1>2, RetryIsSound
  <1>4. ClearChannelFrame \in Frames
    BY DEF Frames
  <1> QED
    BY <1>1, <1>2, <1>3, <1>4, WriteKeepsType

LEMMA SendPacketSound ==
    ASSUME XBeeAssumption, XBeeInv, SendPacket
    PROVE  Sound(xb') /\ queue' \in Seq(Frames)
  <1> DEFINE x == [xb EXCEPT !.sending = @ - 1]
  <1>1. Sound(xb) /\ xb \in Driver /\ queue \in Seq(Frames)
    BY DEF XBeeInv, XBeeTypeOK
  <1>2. xb.sending - 1 \in 0 .. MaxPackets
    BY <1>1 DEF SendPacket, Driver, XBeeAssumption
  <1>3. x \in Driver
    BY <1>1, <1>2 DEF Driver
  <1>4. /\ x.open = xb.open /\ x.restart = xb.restart /\ x.step = xb.step
        /\ x.serviceable = xb.serviceable /\ x.receive = xb.receive /\ x.pong = xb.pong
        /\ x.afterReset = xb.afterReset /\ x.pinging = xb.pinging /\ x.alive = xb.alive
    BY <1>1 DEF Driver
  <1>5. PICK r \in Results : /\ Write(x, DataFrame, r)
                             /\ xb' = CASE r = "success" -> x
                                        [] r = "retry"   -> Retry(x)
                                        [] OTHER         -> Failure(x)
    BY DEF SendPacket
  <1> HIDE DEF x
  <1>6. Sound(x)
    BY <1>1, <1>3, <1>4, SameIsSound
  <1>7. Sound(Retry(x)) /\ Sound(Failure(x))
    BY <1>3, <1>6, RetryIsSound, FailureIsSound
  <1>8. Sound(xb')
    <2>1. CASE r = "success"
      BY <1>5, <1>6, <2>1
    <2>2. CASE r = "retry"
      BY <1>5, <1>7, <2>2
    <2>3. CASE r = "failure"
      BY <1>5, <1>7, <2>3
    <2> QED
      BY <2>1, <2>2, <2>3 DEF Results
  <1>9. DataFrame \in Frames
    BY DEF Frames
  <1> QED
    BY <1>1, <1>5, <1>8, <1>9, WriteKeepsType
\* process() and read(), before any packet is looked at.
LEMMA ProcessSound == ASSUME XBeeAssumption, XBeeInv, Process PROVE Sound(xb')
  <1>1. PICK n \in 1 .. MaxPackets : xb' = [xb EXCEPT !.sending = n]
    BY DEF Process
  <1>2. n \in 0 .. MaxPackets
    BY DEF XBeeAssumption
  <1>3. Sound(xb) /\ xb \in Driver
    BY DEF XBeeInv, XBeeTypeOK
  <1>4. xb' \in Driver
    BY <1>1, <1>2, <1>3 DEF Driver
  <1>5. /\ xb'.open = xb.open /\ xb'.restart = xb.restart /\ xb'.step = xb.step
        /\ xb'.serviceable = xb.serviceable /\ xb'.receive = xb.receive
        /\ xb'.pong = xb.pong /\ xb'.afterReset = xb.afterReset
        /\ xb'.pinging = xb.pinging /\ xb'.alive = xb.alive
    BY <1>1, <1>3 DEF Driver
  <1> QED
    BY <1>3, <1>4, <1>5, SameIsSound

LEMMA ReadSound ==
    ASSUME XBeeAssumption, XBeeInv, Read
    PROVE  Sound(xb') /\ port' \in Seq(Packets)
  <1>1. PICK n \in 0 .. Len(port), cut \in BOOLEAN :
            /\ xb' = [xb EXCEPT !.inbox = SubSeq(port, 1, n), !.cut = cut,
                                !.readFailures = 0]
            /\ port' = SubSeq(port, n + 1, Len(port))
    BY DEF Read
  <1>2. Sound(xb) /\ xb \in Driver /\ port \in Seq(Packets)
    BY DEF XBeeInv, XBeeTypeOK
  <1>3. SubSeq(port, 1, n) \in Seq(Packets) /\ SubSeq(port, n + 1, Len(port)) \in Seq(Packets)
    BY <1>2, PartOfSequence
  <1>4. 0 \in 0 .. MaxReadFailures
    BY DEF XBeeAssumption
  <1>5. xb' \in Driver
    BY <1>1, <1>2, <1>3, <1>4 DEF Driver
  <1>6. /\ xb'.open = xb.open /\ xb'.restart = xb.restart /\ xb'.step = xb.step
        /\ xb'.serviceable = xb.serviceable /\ xb'.receive = xb.receive
        /\ xb'.pong = xb.pong /\ xb'.afterReset = xb.afterReset
        /\ xb'.pinging = xb.pinging /\ xb'.alive = xb.alive
    BY <1>1, <1>2 DEF Driver
  <1>7. Sound(xb')
    BY <1>2, <1>5, <1>6, SameIsSound
  <1> QED
    BY <1>1, <1>3, <1>7

LEMMA ReadNothingSound == ASSUME XBeeAssumption, XBeeInv, ReadNothing PROVE Sound(xb')
  <1>1. Sound(xb) /\ xb \in Driver
    BY DEF XBeeInv, XBeeTypeOK
  <1>2. 0 \in 0 .. MaxReadFailures
    BY DEF XBeeAssumption
  <1>3. CASE xb.readFailures = MaxReadFailures
    <2> DEFINE f == Failure(xb)
               y == [f EXCEPT !.readFailures = 0]
    <2>1. f \in Driver /\ Sound(f)
      BY <1>1, ResetKeepsType, FailureIsSound
    <2>2. xb' = y
      BY <1>3 DEF ReadNothing
    <2> HIDE DEF f
    <2>3. y \in Driver
      BY <1>2, <2>1 DEF Driver
    <2>4. /\ y.open = f.open /\ y.restart = f.restart /\ y.step = f.step
          /\ y.serviceable = f.serviceable /\ y.receive = f.receive /\ y.pong = f.pong
          /\ y.afterReset = f.afterReset /\ y.pinging = f.pinging /\ y.alive = f.alive
      BY <2>1 DEF Driver
    <2> HIDE DEF y
    <2> QED
      BY <2>1, <2>2, <2>3, <2>4, SameIsSound
  <1>4. CASE xb.readFailures # MaxReadFailures
    <2> DEFINE y == [xb EXCEPT !.readFailures = @ + 1]
    <2>1. xb.readFailures + 1 \in 0 .. MaxReadFailures
      BY <1>1, <1>4 DEF Driver, XBeeAssumption
    <2>2. y \in Driver
      BY <1>1, <2>1 DEF Driver
    <2>3. /\ y.open = xb.open /\ y.restart = xb.restart /\ y.step = xb.step
          /\ y.serviceable = xb.serviceable /\ y.receive = xb.receive /\ y.pong = xb.pong
          /\ y.afterReset = xb.afterReset /\ y.pinging = xb.pinging /\ y.alive = xb.alive
      BY <1>1 DEF Driver
    <2>4. xb' = y
      BY <1>4 DEF ReadNothing
    <2> HIDE DEF y
    <2> QED
      BY <1>1, <2>2, <2>3, <2>4, SameIsSound
  <1> QED
    BY <1>3, <1>4

\* The handlers of a packet start from a driver that has taken it out.
LEMMA RestSound ==
    ASSUME XBeeInv, xb.inbox # <<>>
    PROVE  /\ Rest \in Driver /\ Sound(Rest) /\ Rest.open = xb.open
           /\ Received \in Packets
  <1>1. Sound(xb) /\ xb \in Driver /\ xb.inbox \in Seq(Packets)
    BY DEF XBeeInv, XBeeTypeOK, Driver
  <1>2. Tail(xb.inbox) \in Seq(Packets) /\ Received \in Packets
    BY <1>1 DEF Received
  <1>3. Rest \in Driver
    BY <1>1, <1>2 DEF Rest, Driver
  <1>4. /\ Rest.open = xb.open /\ Rest.restart = xb.restart /\ Rest.step = xb.step
        /\ Rest.serviceable = xb.serviceable /\ Rest.receive = xb.receive
        /\ Rest.pong = xb.pong /\ Rest.afterReset = xb.afterReset
        /\ Rest.pinging = xb.pinging /\ Rest.alive = xb.alive
    BY <1>1 DEF Rest, Driver
  <1> QED
    BY <1>1, <1>2, <1>3, <1>4, SameIsSound

LEMMA SkipDamagedSound == ASSUME XBeeAssumption, XBeeInv, SkipDamaged PROVE Sound(xb')
  <1>1. Sound(xb) /\ xb \in Driver /\ xb.inbox \in Seq(Packets) /\ xb.inbox # <<>>
    BY DEF XBeeInv, XBeeTypeOK, Driver, SkipDamaged
  <1>2. PICK n \in IF xb.swallow > 0 THEN {xb.swallow - 1} ELSE 0 .. MaxSwallow :
            xb' = [xb EXCEPT !.swallow = n, !.inbox = IF n = 0 THEN <<>> ELSE Tail(@)]
    BY DEF SkipDamaged
  <1>3. xb.swallow \in 0 .. MaxSwallow
    BY <1>1 DEF Driver
  <1>4. n \in 0 .. MaxSwallow
    BY <1>3 DEF XBeeAssumption
  <1>5. Tail(xb.inbox) \in Seq(Packets) /\ <<>> \in Seq(Packets)
    BY <1>1, NoSequence
  <1>6. xb' \in Driver
    BY <1>1, <1>2, <1>4, <1>5 DEF Driver
  <1>7. /\ xb'.open = xb.open /\ xb'.restart = xb.restart /\ xb'.step = xb.step
        /\ xb'.serviceable = xb.serviceable /\ xb'.receive = xb.receive
        /\ xb'.pong = xb.pong /\ xb'.afterReset = xb.afterReset
        /\ xb'.pinging = xb.pinging /\ xb'.alive = xb.alive
    BY <1>1, <1>2 DEF Driver
  <1> QED
    BY <1>1, <1>6, <1>7, SameIsSound

LEMMA ReceiveRadioSound == ASSUME XBeeAssumption, XBeeInv, ReceiveRadio PROVE Sound(xb')
  <1> DEFINE y == [Rest EXCEPT !.receive = xb.step = Configured \/ @]
  <1>1. Rest \in Driver /\ Sound(Rest) /\ xb \in Driver
    BY RestSound DEF ReceiveRadio, Receiving, XBeeInv, XBeeTypeOK
  <1>2. Rest.step = xb.step
    BY <1>1 DEF Rest, Driver
  <1>3. xb' = y
    BY DEF ReceiveRadio
  <1>4. y \in Driver
    BY <1>1 DEF Driver
  <1>5. /\ y.open = Rest.open /\ y.restart = Rest.restart /\ y.step = Rest.step
        /\ y.serviceable = Rest.serviceable /\ y.pong = Rest.pong
        /\ y.afterReset = Rest.afterReset /\ y.pinging = Rest.pinging /\ y.alive = Rest.alive
        /\ y.receive = (Rest.step = Configured \/ Rest.receive)
    BY <1>1, <1>2 DEF Driver
  <1> HIDE DEF y
  <1>6. Unconfigured # Configured
    BY NumberingHolds DEF Numbering
  <1>7. ~y.open => ~y.receive
    BY <1>1, <1>5, <1>6 DEF Sound, Restarting
  <1>8. Sound(y)
    BY <1>1, <1>4, <1>5, <1>7 DEF Sound, Restarting, Watched, GraceStep
  <1> QED
    BY <1>3, <1>8

LEMMA ReceiveStatusSound == ASSUME XBeeAssumption, XBeeInv, ReceiveStatus PROVE Sound(xb')
  <1> DEFINE y == [Rest EXCEPT !.pong = FALSE, !.step = AfterSoftwareReset,
                               !.afterReset = TRUE]
  <1>1. Rest \in Driver /\ Sound(Rest)
    BY RestSound DEF ReceiveStatus, Receiving
  <1>2. CASE xb' = y /\ ExpectsWatchdog(Rest)
    <2>1. AfterSoftwareReset \in Steps /\ SoftwareReset # Unconfigured
          /\ AfterSoftwareReset # Configured
      BY NumberingHolds DEF Numbering
    <2>2. Rest.open /\ ~Rest.restart
      BY <1>1, <1>2, <2>1 DEF ExpectsWatchdog, Sound, Restarting
    <2>3. y \in Driver
      BY <1>1, <2>1 DEF Driver
    <2>4. y.open /\ ~y.restart /\ y.afterReset /\ y.step = AfterSoftwareReset
      BY <1>1, <2>2 DEF Driver
    <2> HIDE DEF y
    <2>5. Sound(y)
      BY <2>1, <2>3, <2>4 DEF Sound, Restarting, Watched, GraceStep
    <2> QED
      BY <1>2, <2>5
  <1>3. CASE xb' = Failure(Rest)
    BY <1>1, <1>3, FailureIsSound
  <1> QED
    BY <1>2, <1>3 DEF ReceiveStatus

\* No frame has the number of a step in which the port is closed, the grace
\* timer runs or the dialogue is over: such an answer is a failure.
LEMMA ExpectedIsWatched ==
    ASSUME XBeeAssumption, NEW x, Sound(x), NEW frame \in Frames, NEW ok,
           Expected(x, frame, ok)
    PROVE  x.open /\ ~x.restart /\ ~x.afterReset /\ x.step # Configured
  <1>1. x.step \in Frames
    BY DEF Expected
  <1>2. x.step # Unconfigured /\ x.step # AfterSoftwareReset /\ x.step # Configured
    BY <1>1, NumberingHolds DEF Numbering
  <1> QED
    BY <1>2 DEF Sound, Restarting, Watched

LEMMA ReceiveAnswerSound ==
    ASSUME XBeeAssumption, XBeeInv, ReceiveAnswer
    PROVE  Sound(xb') /\ queue' \in Seq(Frames)
  <1>1. Rest \in Driver /\ Sound(Rest) /\ Received \in Packets
    BY RestSound DEF ReceiveAnswer, Receiving
  <1>2. queue \in Seq(Frames) /\ Received.frame \in Frames
    BY <1>1 DEF XBeeInv, XBeeTypeOK, Packets
  <1>3. CASE xb' = [Rest EXCEPT !.alive = "off"] /\ UNCHANGED queue
    <2> DEFINE y == [Rest EXCEPT !.alive = "off"]
    <2>1. y \in Driver
      BY <1>1 DEF Driver
    <2>2. /\ y.open = Rest.open /\ y.restart = Rest.restart /\ y.step = Rest.step
          /\ y.serviceable = Rest.serviceable /\ y.pong = Rest.pong
          /\ y.afterReset = Rest.afterReset /\ y.pinging = Rest.pinging
          /\ y.receive = Rest.receive /\ y.alive = "off"
      BY <1>1 DEF Driver
    <2> HIDE DEF y
    <2>3. Sound(y)
      BY <1>1, <2>1, <2>2 DEF Sound, Restarting, Watched, GraceStep
    <2> QED
      BY <1>2, <1>3, <2>3 DEF y
  <1>4. CASE xb' = Failure(Rest) /\ UNCHANGED queue
    BY <1>1, <1>2, <1>4, FailureIsSound
  <1>5. CASE xb' = Rest /\ UNCHANGED queue
    BY <1>1, <1>2, <1>5
  <1>6. ASSUME NEW r \in Results,
               Write(Rest, Request(Rest, Received.frame, Received.ok), r),
               xb' = Configure(Rest, Received.frame, Received.ok, r)
        PROVE  Sound(xb') /\ queue' \in Seq(Frames)
    <2>1. Expected(Rest, Received.frame, Received.ok) =>
              Rest.open /\ ~Rest.restart /\ ~Rest.afterReset /\ Rest.step # Configured
      BY <1>1, <1>2, ExpectedIsWatched
    <2>2. Sound(xb')
      BY <1>1, <1>6, <2>1, ConfigureIsSound
    <2>3. Request(Rest, Received.frame, Received.ok) \in Frames \union {0}
      BY <1>1, RequestIsFrame
    <2>4. queue' \in Seq(Frames)
      BY <1>2, <1>6, <2>3, WriteKeepsType
    <2> QED
      BY <2>2, <2>4
  <1>7. CASE Received.frame = PingFrame
    <2>1. \/ xb' = [Rest EXCEPT !.alive = "off"] /\ UNCHANGED queue
          \/ xb' = Failure(Rest) /\ UNCHANGED queue
      BY <1>7, NumberingHolds DEF ReceiveAnswer, Numbering
    <2> QED
      BY <1>3, <1>4, <2>1
  <1>8. CASE Received.frame = ClearChannelFrame
    <2>1. xb' = Rest /\ UNCHANGED queue
      BY <1>8, NumberingHolds DEF ReceiveAnswer, Numbering
    <2> QED
      BY <1>5, <2>1
  <1>9. CASE Received.frame # PingFrame /\ Received.frame # ClearChannelFrame
    <2>1. \E r \in Results :
              /\ Write(Rest, Request(Rest, Received.frame, Received.ok), r)
              /\ xb' = Configure(Rest, Received.frame, Received.ok, r)
      BY <1>9 DEF ReceiveAnswer
    <2> QED
      BY <1>6, <2>1
  <1> QED
    BY <1>7, <1>8, <1>9

\* The modem and the line.
LEMMA ArrivalKeepsType ==
    ASSUME port \in Seq(Packets), NEW p \in Packets, Arrives(p)
    PROVE  port' \in Seq(Packets)
  <1>1. CASE port' = Append(port, p)
    BY <1>1
  <1>2. CASE port' = port
    BY <1>2
  <1> QED
    BY <1>1, <1>2 DEF Arrives

Modem == [up : BOOLEAN, resetting : BOOLEAN, settings : SUBSET SettingSteps]

LEMMA ModemExecutesTyped ==
    ASSUME XBeeAssumption, XBeeInv, ModemExecutes
    PROVE  queue' \in Seq(Frames) /\ port' \in Seq(Packets) /\ modem' \in Modem
  <1>1. queue \in Seq(Frames) /\ port \in Seq(Packets) /\ modem \in Modem /\ queue # <<>>
    BY DEF XBeeInv, XBeeTypeOK, ModemExecutes, Modem
  <1>2. Head(queue) \in Frames /\ Tail(queue) \in Seq(Frames)
    BY <1>1
  <1> DEFINE c == Head(queue)
  <1>3. PICK ok \in BOOLEAN :
            /\ queue' = Tail(queue)
            /\ IF c = DataFrame THEN UNCHANGED port ELSE Arrives(Answer(c, ok))
            /\ modem' = IF ~ok THEN modem
                        ELSE IF c = SoftwareReset
                        THEN [modem EXCEPT !.resetting = TRUE, !.settings = {}]
                        ELSE IF c \in SettingSteps
                        THEN [modem EXCEPT !.settings = @ \union {c}]
                        ELSE modem
    BY DEF ModemExecutes
  <1>4. c \in Frames
    BY <1>2
  <1> HIDE DEF c
  <1>5. Answer(c, ok) \in Packets
    BY <1>4, PacketsAre
  <1>6. port' \in Seq(Packets)
    <2>1. CASE UNCHANGED port
      BY <1>1, <2>1
    <2>2. CASE Arrives(Answer(c, ok))
      BY <1>1, <1>5, <2>2, ArrivalKeepsType
    <2> QED
      BY <1>3, <2>1, <2>2
  <1>7. modem' \in Modem
    <2>1. modem.settings \in SUBSET SettingSteps
      BY <1>1 DEF Modem
    <2>2. [modem EXCEPT !.resetting = TRUE, !.settings = {}] \in Modem
      BY <1>1 DEF Modem
    <2>3. c \in SettingSteps => [modem EXCEPT !.settings = @ \union {c}] \in Modem
      BY <1>1, <2>1 DEF Modem
    <2> QED
      BY <1>1, <1>3, <2>2, <2>3
  <1> QED
    BY <1>2, <1>3, <1>6, <1>7

LEMMA ModemTyped ==
    ASSUME XBeeAssumption, XBeeInv,
           \/ ModemReports \/ NobodyListens \/ ModemResets \/ ModemDies
           \/ RadioPacket \/ FrameLost \/ PacketDamaged \/ CalmDown
    PROVE  /\ queue' \in Seq(Frames) /\ port' \in Seq(Packets) /\ modem' \in Modem
           /\ lossy' \in BOOLEAN /\ calm' \in BOOLEAN /\ UNCHANGED xb
  <1>1. /\ queue \in Seq(Frames) /\ port \in Seq(Packets) /\ modem \in Modem
        /\ lossy \in BOOLEAN /\ calm \in BOOLEAN
    BY DEF XBeeInv, XBeeTypeOK, Modem
  <1>2. \A k \in {"watchdog", "hardware", "radio", "damaged"} : Other(k) \in Packets
    BY PacketsAre
  <1>3. CASE ModemReports
    <2>1. port' \in Seq(Packets)
      BY <1>1, <1>2, <1>3, ArrivalKeepsType DEF ModemReports
    <2>2. modem' \in Modem
      BY <1>1, <1>3 DEF ModemReports, Modem
    <2> QED
      BY <1>1, <1>3, <2>1, <2>2 DEF ModemReports
  <1>4. CASE NobodyListens
    BY <1>1, <1>4 DEF NobodyListens
  <1>5. CASE ModemResets
    <2>1. port' \in Seq(Packets)
      BY <1>1, <1>2, <1>5, ArrivalKeepsType DEF ModemResets
    <2>2. modem' \in Modem
      BY <1>5 DEF ModemResets, Modem
    <2> QED
      BY <1>1, <1>5, <2>1, <2>2, NoSequence DEF ModemResets
  <1>6. CASE ModemDies
    <2>1. modem' \in Modem
      BY <1>6 DEF ModemDies, Modem
    <2> QED
      BY <1>1, <1>6, <2>1 DEF ModemDies
  <1>7. CASE RadioPacket
    <2>1. port' \in Seq(Packets)
      BY <1>1, <1>2, <1>7, ArrivalKeepsType DEF RadioPacket
    <2> QED
      BY <1>1, <1>7, <2>1 DEF RadioPacket
  <1>8. CASE FrameLost
    BY <1>1, <1>8 DEF FrameLost
  <1>9. CASE PacketDamaged
    <2>1. PICK i \in DOMAIN port : port' = [port EXCEPT ![i] = Other("damaged")]
      BY <1>9 DEF PacketDamaged
    <2>2. Other("damaged") \in Packets
      BY <1>2
    <2>3. port' \in Seq(Packets)
      BY <1>1, <2>1, <2>2, OneReplaced
    <2> QED
      BY <1>1, <1>9, <2>3 DEF PacketDamaged
  <1>10. CASE CalmDown
    BY <1>1, <1>10 DEF CalmDown
  <1> QED
    BY <1>3, <1>4, <1>5, <1>6, <1>7, <1>8, <1>9, <1>10

-----------------------------------------------------------------------------
LEMMA NextSound == ASSUME XBeeAssumption, XBeeInv, XBeeNext PROVE XBeeInv'
  <1>1. /\ Sound(xb) /\ xb \in Driver /\ queue \in Seq(Frames) /\ port \in Seq(Packets)
        /\ modem \in Modem /\ lossy \in BOOLEAN /\ calm \in BOOLEAN
    BY DEF XBeeInv, XBeeTypeOK, Modem
  <1>2. SUFFICES /\ Sound(xb') /\ queue' \in Seq(Frames) /\ port' \in Seq(Packets)
                 /\ modem' \in Modem /\ lossy' \in BOOLEAN /\ calm' \in BOOLEAN
    BY DEF XBeeInv, XBeeTypeOK, Sound, Modem
  <1>3. CASE OpenDevice
    BY <1>1, <1>3, OpenDeviceSound DEF OpenDevice
  <1>4. CASE PongTimeout
    BY <1>1, <1>4, FailureIsSound DEF PongTimeout
  <1>5. CASE ContinueAfterReset
    BY <1>1, <1>5, ContinueAfterResetSound DEF ContinueAfterReset
  <1>6. CASE PeriodicPingTimeout
    BY <1>1, <1>6, PeriodicPingTimeoutSound DEF PeriodicPingTimeout
  <1>7. CASE PeriodicPongTimeout
    BY <1>1, <1>7, FailureIsSound DEF PeriodicPongTimeout
  <1>8. CASE ClearChannelCheck
    BY <1>1, <1>8, ClearChannelCheckSound DEF ClearChannelCheck
  <1>9. CASE Read
    BY <1>1, <1>9, ReadSound DEF Read
  <1>10. CASE SkipDamaged
    BY <1>1, <1>10, SkipDamagedSound DEF SkipDamaged
  <1>11. CASE ReceiveRadio
    BY <1>1, <1>11, ReceiveRadioSound DEF ReceiveRadio
  <1>12. CASE ReceiveStatus
    BY <1>1, <1>12, ReceiveStatusSound DEF ReceiveStatus
  <1>13. CASE ReceiveAnswer
    BY <1>1, <1>13, ReceiveAnswerSound DEF ReceiveAnswer
  <1>14. CASE SendPacket
    BY <1>1, <1>14, SendPacketSound DEF SendPacket
  <1>15. CASE Process
    BY <1>1, <1>15, ProcessSound DEF Process
  <1>16. CASE ReadNothing
    BY <1>1, <1>16, ReadNothingSound DEF ReadNothing
  <1>17. CASE ReadError
    BY <1>1, <1>17, FailureIsSound DEF ReadError
  <1>18. CASE ModemExecutes
    BY <1>1, <1>18, ModemExecutesTyped DEF ModemExecutes
  <1>19. CASE \/ ModemReports \/ NobodyListens \/ ModemResets \/ ModemDies
              \/ RadioPacket \/ FrameLost \/ PacketDamaged \/ CalmDown
    BY <1>1, <1>19, ModemTyped
  <1> QED
    BY <1>3, <1>4, <1>5, <1>6, <1>7, <1>8, <1>9, <1>10, <1>11, <1>12, <1>13, <1>14,
       <1>15, <1>16, <1>17, <1>18, <1>19
    DEF XBeeNext, XBeeTimer, XBeeInput, XBeeModem

LEMMA XBeeInvariance == ASSUME XBeeAssumption PROVE XBeeSpec => []XBeeInv
  <1>1. XBeeInit => XBeeInv
    BY InitSound
  <1>2. XBeeInv /\ [XBeeNext]_xbeeVars => XBeeInv'
    <2>1. CASE UNCHANGED xbeeVars
      BY <2>1 DEF xbeeVars, XBeeInv, XBeeTypeOK, Sound, Restarting, Watched, GraceStep
    <2> QED
      BY <2>1, NextSound
  <1> QED
    BY <1>1, <1>2, PTL DEF XBeeSpec

-----------------------------------------------------------------------------
\* The driver's state, the frames and the packets have their types: no step
\* but the known ones, no limit of failures exceeded (XBee, xbee.h).
THEOREM XBeeTypeCorrect == ASSUME XBeeAssumption PROVE XBeeSpec => []XBeeTypeOK
  <1>1. XBeeInv => XBeeTypeOK
    BY DEF XBeeInv
  <1> QED
    BY <1>1, XBeeInvariance, PTL

\* After any failure, of whatever handler and however often it is reported, the
\* port is closed and exactly the restart timer runs (failure(), reset(),
\* restart(), open_device()).
THEOREM XBeeOpenOrRestarting == ASSUME XBeeAssumption PROVE XBeeSpec => []OpenOrRestarting
  <1>1. XBeeInv => OpenOrRestarting
    BY DEF XBeeInv, Sound, Restarting, OpenOrRestarting
  <1> QED
    BY <1>1, XBeeInvariance, PTL

\* An open port always has a timer that carries the driver on
\* (configure_modem(), process_modem_status_frame(), periodic_ping()).
THEOREM XBeeAlwaysWatched == ASSUME XBeeAssumption PROVE XBeeSpec => []AlwaysWatched
  <1>1. XBeeInv => AlwaysWatched
    BY DEF XBeeInv, Sound, Watched, AlwaysWatched
  <1> QED
    BY <1>1, XBeeInvariance, PTL

-----------------------------------------------------------------------------
(***************************************************************************)
(* Why a serviceable modem is configured.  An answer that is still to be     *)
(* read tells of a setting that the modem has, unless the modem has reported *)
(* a reset after it; so the dialogue never gets ahead of the modem without    *)
(* such a report being on its way.                                          *)
(***************************************************************************)

Reports == {"watchdog", "hardware"}
NoReportAfter(s, i) == \A j \in DOMAIN s : j > i => s[j].kind \notin Reports
Undamaged(s) == \A i \in DOMAIN s : s[i].kind # "damaged"

\* The answers in s that no report follows are true of the settings.
SettingAnswer(p) == p.kind = "answer" /\ p.ok /\ p.frame \in SettingSteps
AnswersHold(s, settings) ==
    \A i \in DOMAIN s :
        SettingAnswer(s[i]) /\ NoReportAfter(s, i) => s[i].frame \in settings

\* Without a report, the steps that are done are true of them, too.
DoneHold(step, s, settings) ==
    NoReportAfter(s, 0) => \A k \in SettingSteps : k < step => k \in settings

Hears(m) == m.up /\ ~m.resetting

Dialogue(x, p, m, l) ==
    /\ x.serviceable => x.step = Configured
    /\ ~l => Undamaged(x.inbox \o p) /\ (x.swallow > 0 => x.step <= SoftwareReset)
    /\ ~l /\ Hears(m) =>
         /\ x.open => AnswersHold(x.inbox \o p, m.settings)
         /\ DoneHold(x.step, x.inbox \o p, m.settings)

DialogueInv == Dialogue(xb, port, modem, lossy)

\* What is left of a sequence after its first elements.
Suffix(t, s) ==
    \E n \in Nat : Len(s) = Len(t) + n /\ \A i \in DOMAIN t : t[i] = s[i + n]

LEMMA RestIsSuffix ==
    ASSUME NEW S, NEW s \in Seq(S), s # <<>>, NEW t \in Seq(S)
    PROVE  Suffix(Tail(s) \o t, s \o t) /\ Suffix(t, s \o t)
  <1>1. Suffix(t, s \o t)
    <2>1. Len(s) \in Nat /\ Len(s \o t) = Len(t) + Len(s)
      OBVIOUS
    <2>2. \A i \in DOMAIN t : t[i] = (s \o t)[i + Len(s)]
      OBVIOUS
    <2> QED
      BY <2>1, <2>2 DEF Suffix
  <1>2. Suffix(Tail(s) \o t, s \o t)
    <2>1. Len(Tail(s)) = Len(s) - 1 /\ Len(s) \in Nat \ {0}
      OBVIOUS
    <2>2. Len(s \o t) = Len(Tail(s) \o t) + 1
      BY <2>1
    <2>3. \A i \in DOMAIN (Tail(s) \o t) : (Tail(s) \o t)[i] = (s \o t)[i + 1]
      BY <2>1
    <2> QED
      BY <2>2, <2>3 DEF Suffix
  <1> QED
    BY <1>1, <1>2

LEMMA ConcatAppend ==
    ASSUME NEW S, NEW s \in Seq(S), NEW t \in Seq(S), NEW p \in S
    PROVE  s \o Append(t, p) = Append(s \o t, p)
  <1>1. <<p>> \in Seq(S) /\ s \o t \in Seq(S)
    OBVIOUS
  <1>2. Append(t, p) = t \o <<p>> /\ Append(s \o t, p) = (s \o t) \o <<p>>
    BY <1>1, AppendIsConcat
  <1> QED
    BY <1>1, <1>2, ConcatAssociative

LEMMA SuffixHolds ==
    ASSUME NEW s \in Seq(Packets), NEW t \in Seq(Packets), Suffix(t, s), NEW settings
    PROVE  /\ Undamaged(s) => Undamaged(t)
           /\ AnswersHold(s, settings) => AnswersHold(t, settings)
  <1>1. PICK n \in Nat : Len(s) = Len(t) + n /\ \A i \in DOMAIN t : t[i] = s[i + n]
    BY DEF Suffix
  <1>2. \A i \in DOMAIN t : i + n \in DOMAIN s
    BY <1>1
  <1>3. \A j \in DOMAIN s : j > n => j - n \in DOMAIN t /\ t[j - n] = s[j]
    BY <1>1
  <1>4. Undamaged(s) => Undamaged(t)
    BY <1>1, <1>2 DEF Undamaged
  <1>5. ASSUME NEW i \in DOMAIN t, NoReportAfter(t, i)
        PROVE  NoReportAfter(s, i + n)
    <2>1. \A j \in DOMAIN s : j > i + n => j - n > i /\ j > n
      BY DEF Packets
    <2> QED
      BY <1>3, <1>5, <2>1 DEF NoReportAfter
  <1>6. AnswersHold(s, settings) => AnswersHold(t, settings)
    BY <1>1, <1>2, <1>5 DEF AnswersHold
  <1> QED
    BY <1>4, <1>6

LEMMA AppendHolds ==
    ASSUME NEW s \in Seq(Packets), NEW p \in Packets, p.kind # "damaged",
           NEW settings, NEW more, settings \subseteq more, NEW step,
           SettingAnswer(p) => p.frame \in more
    PROVE  LET t == Append(s, p) IN
           /\ Undamaged(s) => Undamaged(t)
           /\ AnswersHold(s, settings) => AnswersHold(t, more)
           /\ DoneHold(step, s, settings) => DoneHold(step, t, more)
           /\ p.kind \in Reports =>
                AnswersHold(t, more) /\ DoneHold(step, t, more)
  <1> DEFINE t == Append(s, p)
  <1>1. /\ DOMAIN t = 1 .. Len(s) + 1 /\ t[Len(s) + 1] = p
        /\ DOMAIN s = 1 .. Len(s) /\ Len(s) \in Nat
        /\ \A i \in DOMAIN s : t[i] = s[i]
    OBVIOUS
  <1> HIDE DEF t
  <1>2. Undamaged(s) => Undamaged(t)
    BY <1>1 DEF Undamaged
  <1>3. \A i : NoReportAfter(t, i) => NoReportAfter(s, i)
    BY <1>1 DEF NoReportAfter
  <1>4. p.kind \in Reports => \A i \in 0 .. Len(s) : ~NoReportAfter(t, i)
    BY <1>1 DEF NoReportAfter
  <1>5. p.kind \in Reports => ~SettingAnswer(p)
    BY DEF Reports, SettingAnswer
  <1>6. AnswersHold(s, settings) => AnswersHold(t, more)
    <2> SUFFICES ASSUME AnswersHold(s, settings), NEW i \in DOMAIN t,
                        SettingAnswer(t[i]), NoReportAfter(t, i)
                 PROVE  t[i].frame \in more
      BY DEF AnswersHold
    <2>1. CASE i = Len(s) + 1
      BY <1>1, <2>1
    <2>2. CASE i \in DOMAIN s
      BY <1>1, <1>3, <2>2 DEF AnswersHold
    <2> QED
      BY <1>1, <2>1, <2>2
  <1>7. DoneHold(step, s, settings) => DoneHold(step, t, more)
    BY <1>3 DEF DoneHold
  <1>8. p.kind \in Reports => DoneHold(step, t, more)
    BY <1>1, <1>4 DEF DoneHold
  <1>9. p.kind \in Reports => AnswersHold(t, more)
    <2> SUFFICES ASSUME p.kind \in Reports, NEW i \in DOMAIN t,
                        SettingAnswer(t[i]), NoReportAfter(t, i)
                 PROVE  FALSE
      BY DEF AnswersHold
    <2>1. i \in 0 .. Len(s) \/ i = Len(s) + 1
      BY <1>1
    <2> QED
      BY <1>1, <1>4, <1>5, <2>1
  <1> QED
    BY <1>2, <1>6, <1>7, <1>8, <1>9 DEF t

\* The driver goes on in its dialogue with nothing more to read than before, and
\* only over settings that the modem has.
LEMMA AdvanceKeepsDialogue ==
    ASSUME NEW x, NEW y, NEW p, NEW m, NEW l, Dialogue(x, p, m, l),
           y.inbox = x.inbox, y.swallow = x.swallow, y.open => x.open,
           y.serviceable => y.step = Configured,
           ~l /\ x.swallow > 0 => y.step <= SoftwareReset,
           \A k \in SettingSteps : k < y.step =>
               \/ k < x.step
               \/ ~l /\ Hears(m) /\ NoReportAfter(x.inbox \o p, 0) => k \in m.settings
    PROVE  Dialogue(y, p, m, l)
  BY DEF Dialogue, DoneHold

Follows(y, x) ==
    /\ y.inbox = x.inbox /\ y.swallow = x.swallow /\ (y.open => x.open)
    /\ \/ y.step = x.step /\ y.serviceable = x.serviceable
       \/ y.step = Unconfigured /\ ~y.serviceable

LEMMA FollowingKeepsDialogue ==
    ASSUME XBeeAssumption, NEW x, NEW y, Follows(y, x),
           NEW p, NEW m, NEW l, Dialogue(x, p, m, l)
    PROVE  Dialogue(y, p, m, l)
  <1>1. Unconfigured = 0 /\ SoftwareReset = 1 /\ \A k \in SettingSteps : ~(k < 0)
    BY NumberingHolds DEF Numbering
  <1>2. y.serviceable => y.step = Configured
    BY DEF Follows, Dialogue
  <1>3. ~l /\ x.swallow > 0 => y.step <= SoftwareReset
    BY <1>1 DEF Follows, Dialogue
  <1>4. \A k \in SettingSteps : k < y.step => k < x.step
    BY <1>1 DEF Follows
  <1> QED
    BY <1>2, <1>3, <1>4, AdvanceKeepsDialogue DEF Follows

LEMMA FailureFollows ==
    ASSUME NEW x \in Driver
    PROVE  Follows(Failure(x), x) /\ Follows(Restart(x), x)
  BY DEF Failure, Restart, Reset, Follows, Driver

LEMMA RetryFollows ==
    ASSUME XBeeAssumption, NEW x \in Driver
    PROVE  Follows(Retry(x), x)
  <1>1. CASE x.writeFailures = MaxWriteFailures
    <2> DEFINE y == [x EXCEPT !.writeFailures = 0]
    <2>1. y \in Driver
      BY SMTT(30) DEF Driver, XBeeAssumption
    <2>2. /\ y.inbox = x.inbox /\ y.swallow = x.swallow /\ y.open = x.open
          /\ y.step = x.step /\ y.serviceable = x.serviceable
      BY DEF Driver
    <2>3. Retry(x) = Failure(y)
      BY <1>1 DEF Retry
    <2> HIDE DEF y
    <2>4. Follows(Failure(y), y)
      BY <2>1, FailureFollows
    <2> QED
      BY <2>2, <2>3, <2>4 DEF Follows
  <1>2. CASE x.writeFailures # MaxWriteFailures
    BY <1>2 DEF Retry, Follows, Driver
  <1> QED
    BY <1>1, <1>2

LEMMA PingFollows ==
    ASSUME XBeeAssumption, NEW x \in Driver, NEW r
    PROVE  Follows(PeriodicPing(x, r), x)
  <1> DEFINE y == [x EXCEPT !.pinging = TRUE, !.alive = IF @ = "off" THEN "off" ELSE "ahead"]
             z == [y EXCEPT !.alive = "behind"]
  <1>1. y \in Driver
    BY DEF Driver
  <1>2. /\ y.inbox = x.inbox /\ y.swallow = x.swallow /\ y.open = x.open
        /\ y.step = x.step /\ y.serviceable = x.serviceable
    BY DEF Driver
  <1>3. /\ z.inbox = x.inbox /\ z.swallow = x.swallow /\ z.open = x.open
        /\ z.step = x.step /\ z.serviceable = x.serviceable
    BY DEF Driver
  <1>4. PeriodicPing(x, r) = CASE r = "success" -> z
                               [] r = "retry"   -> Retry(y)
                               [] OTHER         -> Failure(y)
    BY DEF PeriodicPing
  <1> HIDE DEF y, z
  <1>5. Follows(Retry(y), y) /\ Follows(Failure(y), y)
    BY <1>1, RetryFollows, FailureFollows
  <1>6. CASE r = "success"
    BY <1>3, <1>4, <1>6 DEF Follows
  <1>7. CASE r = "retry"
    BY <1>2, <1>4, <1>5, <1>7 DEF Follows
  <1>8. CASE r # "success" /\ r # "retry"
    BY <1>2, <1>4, <1>5, <1>8 DEF Follows
  <1> QED
    BY <1>6, <1>7, <1>8

\* The next request is sent; its write may fail.
LEMMA RequestKeepsDialogue ==
    ASSUME XBeeAssumption, NEW x \in Driver, NEW p, NEW m, NEW l, Dialogue(x, p, m, l),
           ~x.serviceable, NEW next \in Steps, NEW r,
           ~l /\ x.swallow > 0 => next <= SoftwareReset,
           \A k \in SettingSteps : k < next =>
               \/ k < x.step
               \/ ~l /\ Hears(m) /\ NoReportAfter(x.inbox \o p, 0) => k \in m.settings
    PROVE  Dialogue(RequestAt(x, next, r), p, m, l)
  <1>1. CASE r = "success"
    <2> DEFINE y == [x EXCEPT !.step = next, !.pong = TRUE]
    <2>1. /\ y.inbox = x.inbox /\ y.swallow = x.swallow /\ y.open = x.open
          /\ y.step = next /\ y.serviceable = x.serviceable
      BY DEF Driver
    <2>2. RequestAt(x, next, r) = y
      BY <1>1 DEF RequestAt
    <2> HIDE DEF y
    <2>3. Dialogue(y, p, m, l)
      BY <2>1, AdvanceKeepsDialogue
    <2> QED
      BY <2>2, <2>3
  <1>2. CASE r # "success"
    BY <1>2, FailureFollows, FollowingKeepsDialogue DEF RequestAt
  <1> QED
    BY <1>1, <1>2

LEMMA NextStepSkips ==
    ASSUME XBeeAssumption, NEW s \in AfterSoftwareReset .. SetPowerLevel,
           NEW k \in SettingSteps, k < NextStep(s)
    PROVE  k <= s
  <1>1. CASE s + 1 = SetPowerLevel /\ ~HasPowerLevel
    <2>1. k # SetPowerLevel
      BY <1>1 DEF SettingSteps
    <2> QED
      BY <1>1, <2>1, NumberingHolds DEF NextStep, Numbering
  <1>2. CASE ~(s + 1 = SetPowerLevel /\ ~HasPowerLevel)
    BY <1>2, NumberingHolds DEF NextStep, Numbering
  <1> QED
    BY <1>1, <1>2

\* configure_modem() on an answer to the last request: that setting is done.
LEMMA ConfigureKeepsDialogue ==
    ASSUME XBeeAssumption, NEW x \in Driver, NEW p, NEW m, NEW l, Dialogue(x, p, m, l),
           NEW frame, NEW ok, NEW r,
           Expected(x, frame, ok) =>
               /\ x.step # Configured
               /\ x.step \in SettingSteps /\ ~l /\ Hears(m)
                    /\ NoReportAfter(x.inbox \o p, 0) => x.step \in m.settings
    PROVE  Dialogue(Configure(x, frame, ok, r), p, m, l)
  <1>n. Numbering
    BY NumberingHolds
  <1>s. \A k \in SettingSteps : k \in Steps
    BY <1>n DEF Numbering
  <1>1. CASE ~Expected(x, frame, ok)
    BY <1>1, FailureFollows, FollowingKeepsDialogue DEF Configure
  <1>2. CASE Expected(x, frame, ok)
    <2> DEFINE y == [x EXCEPT !.pong = FALSE]
    <2>1. y \in Driver
      BY DEF Driver
    <2>2. /\ y.inbox = x.inbox /\ y.swallow = x.swallow /\ y.open = x.open
          /\ y.step = x.step /\ y.serviceable = x.serviceable
      BY DEF Driver
    <2>3. x.step \in Steps /\ x.step # Configured
      BY <1>2 DEF Driver
    <2>4. ~x.serviceable
      BY <2>3 DEF Dialogue
    <2>5. Dialogue(y, p, m, l)
      <3> HIDE DEF y
      <3> QED BY <2>2, FollowingKeepsDialogue DEF Follows
    <2>6. ~l /\ x.swallow > 0 => x.step <= SoftwareReset
      BY DEF Dialogue
    <2>7. \A k \in SettingSteps : k <= x.step =>
              \/ k < x.step
              \/ ~l /\ Hears(m) /\ NoReportAfter(x.inbox \o p, 0) => k \in m.settings
      <3>1. \A k \in SettingSteps : k <= x.step => k < x.step \/ k = x.step
        BY <1>n, <2>3 DEF Numbering
      <3> QED
        BY <1>2, <3>1
    <2>8. CASE x.step = Unconfigured
      <3>1. Configure(x, frame, ok, r) = RequestAt(y, SoftwareReset, r)
        BY <1>2, <1>n, <2>8 DEF Configure, Numbering
      <3>2. SoftwareReset \in Steps /\ \A k \in SettingSteps : ~(k < SoftwareReset)
        BY <1>n DEF Numbering
      <3>3. SoftwareReset <= SoftwareReset
        BY <1>n DEF Numbering
      <3> HIDE DEF y
      <3> QED
        BY <2>1, <2>2, <2>4, <2>5, <3>1, <3>2, <3>3, RequestKeepsDialogue
    <2>9. CASE x.step = SoftwareReset
      <3> DEFINE z == [y EXCEPT !.pong = TRUE]
      <3>1. Configure(x, frame, ok, r) = z
        BY <1>2, <1>n, <2>9 DEF Configure, Numbering
      <3>2. /\ z.inbox = x.inbox /\ z.swallow = x.swallow /\ z.open = x.open
            /\ z.step = x.step /\ z.serviceable = x.serviceable
        BY DEF Driver
      <3> HIDE DEF y, z
      <3> QED
        BY <3>1, <3>2, FollowingKeepsDialogue DEF Follows
    <2>10. CASE x.step \in AfterSoftwareReset .. SetPowerLevel
      <3>1. Configure(x, frame, ok, r) = RequestAt(y, NextStep(x.step), r)
        BY <1>2, <1>n, <2>10 DEF Configure, Numbering
      <3>2. NextStep(x.step) \in Steps
        <4>1. NextStep(x.step) \in SettingSteps
          BY <2>10, NextStepIsSetting
        <4> QED
          BY <1>s, <4>1
      <3>3. ~(~l /\ x.swallow > 0)
        BY <1>n, <2>6, <2>10 DEF Numbering
      <3>4. \A k \in SettingSteps : k < NextStep(x.step) => k <= x.step
        BY <2>10, NextStepSkips
      <3> HIDE DEF y
      <3> QED
        BY <2>1, <2>2, <2>4, <2>5, <2>7, <3>1, <3>2, <3>3, <3>4, RequestKeepsDialogue
    <2>11. CASE x.step = SetCoordinatorMode
      <3> DEFINE z == [y EXCEPT !.step = Configured, !.serviceable = TRUE]
      <3>1. Configure(x, frame, ok, r) = PeriodicPing(z, r)
        BY <1>2, <1>n, <2>11 DEF Configure, Numbering
      <3>2. Configured \in Steps
        BY <1>n DEF Numbering
      <3>3. z \in Driver
        BY <3>2 DEF Driver
      <3>4. /\ z.inbox = x.inbox /\ z.swallow = x.swallow /\ z.open = x.open
            /\ z.step = Configured
        BY DEF Driver
      <3>5. ~(~l /\ x.swallow > 0)
        BY <1>n, <2>6, <2>11 DEF Numbering
      <3>6. \A k \in SettingSteps : k <= x.step
        BY <1>n, <2>11 DEF Numbering
      <3> HIDE DEF y, z
      <3>7. Dialogue(z, p, m, l)
        BY <2>7, <3>4, <3>5, <3>6, AdvanceKeepsDialogue
      <3>8. Follows(PeriodicPing(z, r), z)
        BY <3>3, PingFollows
      <3> QED
        BY <3>1, <3>7, <3>8, FollowingKeepsDialogue
    <2>12. \/ x.step = Unconfigured \/ x.step = SoftwareReset
           \/ x.step \in AfterSoftwareReset .. SetPowerLevel \/ x.step = SetCoordinatorMode
      BY <1>n, <2>3 DEF Numbering
    <2> QED
      BY <2>8, <2>9, <2>10, <2>11, <2>12
  <1> QED
    BY <1>1, <1>2

-----------------------------------------------------------------------------
\* Timers, process() and errors: the driver goes on or gives up.
LEMMA DriverFollows ==
    ASSUME XBeeAssumption, XBeeInv,
           \/ PongTimeout \/ PeriodicPingTimeout \/ PeriodicPongTimeout
           \/ ClearChannelCheck \/ SendPacket \/ Process \/ ReadNothing \/ ReadError
    PROVE  Follows(xb', xb) /\ UNCHANGED <<port, modem, lossy>>
  <1>1. xb \in Driver
    BY DEF XBeeInv, XBeeTypeOK
  <1>2. Follows(Failure(xb), xb) /\ Follows(Retry(xb), xb)
    BY <1>1, FailureFollows, RetryFollows
  <1>3. CASE PongTimeout \/ PeriodicPongTimeout \/ ReadError
    BY <1>2, <1>3 DEF PongTimeout, PeriodicPongTimeout, ReadError
  <1>4. CASE PeriodicPingTimeout
    BY <1>1, <1>4, PingFollows DEF PeriodicPingTimeout
  <1>5. CASE ClearChannelCheck
    BY <1>2, <1>5 DEF ClearChannelCheck, Follows
  <1>6. CASE SendPacket
    <2> DEFINE x == [xb EXCEPT !.sending = @ - 1]
    <2>1. /\ x.inbox = xb.inbox /\ x.swallow = xb.swallow /\ x.open = xb.open
          /\ x.step = xb.step /\ x.serviceable = xb.serviceable
      BY <1>1 DEF Driver
    <2>2. xb.sending - 1 \in 0 .. MaxPackets
      BY <1>1, <1>6 DEF SendPacket, Driver, XBeeAssumption
    <2>3. x \in Driver
      BY <1>1, <2>2 DEF Driver
    <2>4. PICK r \in Results : xb' = CASE r = "success" -> x
                                       [] r = "retry"   -> Retry(x)
                                       [] OTHER         -> Failure(x)
      BY <1>6 DEF SendPacket
    <2> HIDE DEF x
    <2>5. Follows(Failure(x), x) /\ Follows(Retry(x), x)
      BY <2>3, FailureFollows, RetryFollows
    <2>6. Follows(xb', xb)
      <3>1. CASE r = "success"
        BY <2>1, <2>4, <3>1 DEF Follows
      <3>2. CASE r = "retry"
        BY <2>1, <2>4, <2>5, <3>2 DEF Follows
      <3>3. CASE r = "failure"
        BY <2>1, <2>4, <2>5, <3>3 DEF Follows
      <3> QED
        BY <3>1, <3>2, <3>3 DEF Results
    <2> QED
      BY <1>6, <2>6 DEF SendPacket
  <1>7. CASE Process
    BY <1>1, <1>7 DEF Process, Follows, Driver
  <1>8. CASE ReadNothing
    <2> DEFINE f == Failure(xb)
    <2>1. f \in Driver
      BY <1>1, ResetKeepsType
    <2> HIDE DEF f
    <2>2. Follows([f EXCEPT !.readFailures = 0], f)
      BY <2>1 DEF Follows, Driver
    <2>3. Follows([f EXCEPT !.readFailures = 0], xb)
      BY <1>2, <2>2 DEF Follows, f
    <2>4. Follows([xb EXCEPT !.readFailures = @ + 1], xb)
      BY <1>1 DEF Follows, Driver
    <2> QED
      BY <1>8, <2>3, <2>4 DEF ReadNothing, f
  <1> QED
    BY <1>3, <1>4, <1>5, <1>6, <1>7, <1>8

\* A new dialogue begins with nothing to read.
LEMMA OpenDeviceDialogue ==
    ASSUME XBeeAssumption, XBeeInv, DialogueInv, OpenDevice
    PROVE  DialogueInv'
  <1>1. xb \in Driver /\ UNCHANGED <<modem, lossy>> /\ xb.inbox = <<>>
    BY DEF XBeeInv, XBeeTypeOK, OpenDevice, TimerMayFire, Idle
  <1>2. CASE (xb' = Restart(xb) \/ xb' = Failure(xb)) /\ UNCHANGED port
    BY <1>1, <1>2, FailureFollows, FollowingKeepsDialogue DEF DialogueInv
  <1>3. ASSUME NEW r \in Results, NEW n \in 0 .. MaxSwallow,
               xb' = Configure([Reset(xb) EXCEPT !.open = TRUE, !.cut = FALSE,
                                                 !.swallow = IF xb.cut THEN n ELSE @],
                               Unconfigured, TRUE, r),
               port' = <<>>
        PROVE  DialogueInv'
    <2> DEFINE x == Reset(xb)
               y == [x EXCEPT !.open = TRUE, !.cut = FALSE,
                              !.swallow = IF xb.cut THEN n ELSE @]
    <2>1. x \in Driver
      BY <1>1, ResetKeepsType
    <2>2. x.step = Unconfigured /\ ~x.serviceable /\ x.inbox = <<>>
      BY <1>1 DEF Reset, Driver
    <2>3. xb' = Configure(y, Unconfigured, TRUE, r)
      BY <1>3
    <2> HIDE DEF x
    <2>4. y \in Driver
      BY <2>1 DEF Driver
    <2>5. y.step = Unconfigured /\ ~y.serviceable /\ y.inbox = <<>>
      BY <2>1, <2>2 DEF Driver
    <2> HIDE DEF y
    <2>6. <<>> \o <<>> = <<>> /\ DOMAIN <<>> = {}
      OBVIOUS
    <2>7. /\ Unconfigured = 0 /\ SoftwareReset = 1 /\ Unconfigured # Configured
          /\ \A k \in SettingSteps : k # Unconfigured /\ ~(k < Unconfigured)
      BY NumberingHolds DEF Numbering
    <2>8. Dialogue(y, <<>>, modem, lossy)
      BY <2>5, <2>6, <2>7 DEF Dialogue, Undamaged, AnswersHold, DoneHold
    <2>9. Dialogue(Configure(y, Unconfigured, TRUE, r), <<>>, modem, lossy)
      BY <2>4, <2>5, <2>7, <2>8, ConfigureKeepsDialogue
    <2> QED
      BY <1>1, <1>3, <2>3, <2>9 DEF DialogueInv
  <1> QED
    BY <1>2, <1>3 DEF OpenDevice

LEMMA ContinueAfterResetDialogue ==
    ASSUME XBeeAssumption, XBeeInv, DialogueInv, ContinueAfterReset
    PROVE  DialogueInv'
  <1> DEFINE x == [xb EXCEPT !.afterReset = FALSE]
  <1>1. xb \in Driver /\ xb.step = AfterSoftwareReset
    BY DEF XBeeInv, XBeeTypeOK, Sound, GraceStep, ContinueAfterReset
  <1>2. x \in Driver
    BY <1>1 DEF Driver
  <1>3. /\ x.inbox = xb.inbox /\ x.swallow = xb.swallow /\ x.open = xb.open
        /\ x.step = AfterSoftwareReset /\ x.serviceable = xb.serviceable
    BY <1>1 DEF Driver
  <1>4. \E r \in Results : xb' = Configure(x, x.step, TRUE, r)
    BY DEF ContinueAfterReset
  <1> HIDE DEF x
  <1>5. Dialogue(x, port, modem, lossy)
    BY <1>1, <1>3, FollowingKeepsDialogue DEF Follows, DialogueInv
  <1>6. AfterSoftwareReset # Configured /\ AfterSoftwareReset \notin SettingSteps
    BY NumberingHolds DEF Numbering
  <1>7. \A r : Dialogue(Configure(x, x.step, TRUE, r), port, modem, lossy)
    BY <1>2, <1>3, <1>5, <1>6, ConfigureKeepsDialogue
  <1> QED
    BY <1>4, <1>7 DEF ContinueAfterReset, DialogueInv

\* What is read stays to be handled, in the same order.
LEMMA ReadDialogue ==
    ASSUME XBeeAssumption, XBeeInv, DialogueInv, Read
    PROVE  DialogueInv'
  <1>1. xb \in Driver /\ port \in Seq(Packets) /\ xb.inbox = <<>>
    BY DEF XBeeInv, XBeeTypeOK, Read, Idle
  <1>2. PICK n \in 0 .. Len(port), cut \in BOOLEAN :
            /\ xb' = [xb EXCEPT !.inbox = SubSeq(port, 1, n), !.cut = cut,
                                !.readFailures = 0]
            /\ port' = SubSeq(port, n + 1, Len(port))
    BY DEF Read
  <1>3. SubSeq(port, 1, n) \o SubSeq(port, n + 1, Len(port)) = port
    <2>1. Len(port) \in Nat /\ 1 \in 1 .. Len(port) + 1 /\ n \in 1 - 1 .. Len(port)
          /\ Len(port) \in n .. Len(port)
      BY <1>1
    <2>2. SubSeq(port, 1, n) \o SubSeq(port, n + 1, Len(port)) = SubSeq(port, 1, Len(port))
      BY <1>1, <2>1, ConcatAdjacentSubSeq
    <2> QED
      BY <1>1, <2>2, SubSeqFull
  <1>4. <<>> \o port = port
    BY <1>1
  <1>5. /\ xb'.inbox = SubSeq(port, 1, n) /\ xb'.swallow = xb.swallow
        /\ xb'.open = xb.open /\ xb'.step = xb.step
        /\ xb'.serviceable = xb.serviceable
    BY <1>1, <1>2 DEF Driver
  <1>6. xb'.inbox \o port' = xb.inbox \o port
    BY <1>1, <1>2, <1>3, <1>4, <1>5
  <1> QED
    BY <1>5, <1>6 DEF Read, DialogueInv, Dialogue

\* A false packet takes in what follows it: only the first packets are lost.
LEMMA SkipDamagedDialogue ==
    ASSUME XBeeAssumption, XBeeInv, DialogueInv, SkipDamaged
    PROVE  DialogueInv'
  <1>1. /\ xb \in Driver /\ port \in Seq(Packets) /\ UNCHANGED <<port, modem, lossy>>
        /\ xb.inbox \in Seq(Packets) /\ xb.inbox # <<>>
        /\ xb.swallow > 0 \/ Head(xb.inbox).kind = "damaged"
    BY DEF XBeeInv, XBeeTypeOK, SkipDamaged, Driver
  <1>2. PICK n \in IF xb.swallow > 0 THEN {xb.swallow - 1} ELSE 0 .. MaxSwallow :
            xb' = [xb EXCEPT !.swallow = n, !.inbox = IF n = 0 THEN <<>> ELSE Tail(@)]
    BY DEF SkipDamaged
  <1>3. /\ xb'.inbox \in {<<>>, Tail(xb.inbox)}
        /\ xb'.open = xb.open /\ xb'.step = xb.step
        /\ xb'.serviceable = xb.serviceable
    BY <1>1, <1>2 DEF Driver
  <1>4. xb'.inbox \o port \in Seq(Packets) /\ xb.inbox \o port \in Seq(Packets)
    <2>1. <<>> \in Seq(Packets) /\ Tail(xb.inbox) \in Seq(Packets)
      BY <1>1
    <2>2. xb'.inbox \in Seq(Packets)
      BY <1>3, <2>1
    <2> QED
      BY <1>1, <2>2
  <1>5. Suffix(xb'.inbox \o port, xb.inbox \o port)
    <2>1. <<>> \o port = port
      BY <1>1
    <2> QED
      BY <1>1, <1>3, <2>1, RestIsSuffix
  <1>6. ~lossy => xb.swallow > 0
    <2>1. (xb.inbox \o port)[1] = Head(xb.inbox) /\ 1 \in DOMAIN (xb.inbox \o port)
      BY <1>1
    <2> QED
      BY <1>1, <2>1 DEF DialogueInv, Dialogue, Undamaged
  <1>7. ~lossy => xb.step <= SoftwareReset
    BY <1>6 DEF DialogueInv, Dialogue
  <1>8. ~lossy => \A k \in SettingSteps : ~(k < xb.step)
    <2>1. xb.step \in Steps
      BY <1>1 DEF Driver
    <2> QED
      BY <1>7, <2>1, NumberingHolds DEF Numbering
  <1> QED
    BY <1>1, <1>3, <1>4, <1>5, <1>7, <1>8, SuffixHolds DEF DialogueInv, Dialogue, DoneHold

\* A handler takes the first packet: without it, all is as before, unless the
\* packet reports a reset.
LEMMA RestDialogue ==
    ASSUME XBeeInv, DialogueInv, xb.inbox # <<>>
    PROVE  /\ Rest.swallow = xb.swallow /\ Rest.open = xb.open /\ Rest.step = xb.step
           /\ Rest.serviceable = xb.serviceable
           /\ ~lossy => Undamaged(Rest.inbox \o port)
           /\ ~lossy /\ Hears(modem) /\ xb.open =>
                AnswersHold(Rest.inbox \o port, modem.settings)
           /\ Received.kind \notin Reports =>
                /\ Dialogue(Rest, port, modem, lossy)
                /\ NoReportAfter(Rest.inbox \o port, 0) => NoReportAfter(Pending, 0)
           /\ Pending[1] = Received /\ 1 \in DOMAIN Pending
  <1>1. /\ xb \in Driver /\ port \in Seq(Packets) /\ xb.inbox \in Seq(Packets)
    BY DEF XBeeInv, XBeeTypeOK, Driver
  <1>2. /\ Rest.inbox = Tail(xb.inbox) /\ Rest.swallow = xb.swallow
        /\ Rest.open = xb.open /\ Rest.step = xb.step
        /\ Rest.serviceable = xb.serviceable
    BY <1>1 DEF Rest, Driver
  <1> DEFINE t == Tail(xb.inbox) \o port
  <1>3. t \in Seq(Packets) /\ Pending \in Seq(Packets) /\ Suffix(t, Pending)
    BY <1>1, RestIsSuffix DEF Pending
  <1>4. /\ Pending[1] = Received /\ 1 \in DOMAIN Pending
        /\ \A j \in DOMAIN Pending : j > 1 => j - 1 \in DOMAIN t /\ t[j - 1] = Pending[j]
    <2>1. Len(Tail(xb.inbox)) = Len(xb.inbox) - 1 /\ Len(xb.inbox) \in Nat \ {0}
      BY <1>1
    <2>2. Len(t) = Len(Pending) - 1 /\ Len(Pending) \in Nat
      BY <1>1, <2>1 DEF Pending
    <2>3. \A i \in DOMAIN t : t[i] = Pending[i + 1]
      BY <1>1, <2>1 DEF Pending
    <2>4. Pending[1] = Received /\ 1 \in DOMAIN Pending
      BY <1>1 DEF Pending, Received
    <2>5. DOMAIN t = 1 .. Len(t) /\ DOMAIN Pending = 1 .. Len(Pending)
      BY <1>3
    <2> HIDE DEF t
    <2>6. \A j \in DOMAIN Pending : j > 1 => j - 1 \in DOMAIN t /\ t[j - 1] = Pending[j]
      BY <2>2, <2>3, <2>5
    <2> QED
      BY <2>4, <2>6
  <1> HIDE DEF t
  <1>5. /\ Undamaged(Pending) => Undamaged(t)
        /\ AnswersHold(Pending, modem.settings) => AnswersHold(t, modem.settings)
    BY <1>3, SuffixHolds
  <1>6. Received.kind \notin Reports /\ NoReportAfter(t, 0) => NoReportAfter(Pending, 0)
    <2> SUFFICES ASSUME Received.kind \notin Reports, NoReportAfter(t, 0),
                        NEW j \in DOMAIN Pending
                 PROVE  Pending[j].kind \notin Reports
      BY DEF NoReportAfter
    <2>1. j = 1 \/ j > 1
      BY <1>3
    <2>2. CASE j > 1
      <3>1. j - 1 \in DOMAIN t /\ t[j - 1] = Pending[j] /\ j - 1 > 0
        BY <1>3, <1>4, <2>2
      <3> QED
        BY <3>1 DEF NoReportAfter
    <2> QED
      BY <1>4, <2>1, <2>2
  <1>7. Dialogue(xb, port, modem, lossy) /\ Pending = xb.inbox \o port
    BY DEF DialogueInv, Pending
  <1>8. Rest.inbox \o port = t
    BY <1>2 DEF t
  <1>9. Received.kind \notin Reports => Dialogue(Rest, port, modem, lossy)
    BY <1>2, <1>5, <1>6, <1>7, <1>8 DEF Dialogue, DoneHold
  <1> QED
    BY <1>2, <1>4, <1>5, <1>6, <1>7, <1>8, <1>9 DEF Dialogue

LEMMA ReceiveRadioDialogue ==
    ASSUME XBeeAssumption, XBeeInv, DialogueInv, ReceiveRadio
    PROVE  DialogueInv'
  <1>1. Rest \in Driver /\ xb' = [Rest EXCEPT !.receive = xb.step = Configured \/ @]
    BY RestSound DEF ReceiveRadio, Receiving
  <1>2. Dialogue(Rest, port, modem, lossy)
    BY RestDialogue DEF ReceiveRadio, Receiving, Reports
  <1>3. Follows(xb', Rest)
    BY <1>1 DEF Follows, Driver
  <1> QED
    BY <1>2, <1>3, FollowingKeepsDialogue DEF ReceiveRadio, DialogueInv

\* A report is taken: the dialogue begins anew, or goes on from the software
\* reset, before the first setting.
LEMMA ReceiveStatusDialogue ==
    ASSUME XBeeAssumption, XBeeInv, DialogueInv, ReceiveStatus
    PROVE  DialogueInv'
  <1>1. xb.inbox # <<>> /\ xb.swallow = 0 /\ UNCHANGED <<port, modem, lossy>>
    BY DEF ReceiveStatus, Receiving
  <1>2. Rest \in Driver /\ Rest.swallow = xb.swallow
    BY <1>1, RestSound, RestDialogue
  <1>3. /\ ~lossy => Undamaged(Rest.inbox \o port)
        /\ ~lossy /\ Hears(modem) /\ Rest.open =>
             AnswersHold(Rest.inbox \o port, modem.settings)
    BY <1>1, RestDialogue
  <1>4. /\ xb'.inbox = Rest.inbox /\ xb'.swallow = 0 /\ (xb'.open => Rest.open)
        /\ ~xb'.serviceable /\ xb'.step \in {Unconfigured, AfterSoftwareReset}
    <2>1. CASE xb' = Failure(Rest)
      BY <1>1, <1>2, <2>1 DEF Failure, Restart, Reset, Driver
    <2>2. CASE /\ ExpectsWatchdog(Rest)
               /\ xb' = [Rest EXCEPT !.pong = FALSE, !.step = AfterSoftwareReset,
                                     !.afterReset = TRUE]
      <3>1. Rest.serviceable = xb.serviceable /\ Rest.step = xb.step
        BY <1>1, RestDialogue
      <3>2. SoftwareReset # Configured
        BY NumberingHolds DEF Numbering
      <3>3. ~Rest.serviceable
        BY <2>2, <3>1, <3>2 DEF ExpectsWatchdog, DialogueInv, Dialogue
      <3> QED
        BY <1>1, <1>2, <2>2, <3>3 DEF Driver
    <2> QED
      BY <2>1, <2>2 DEF ReceiveStatus
  <1>5. \A k \in SettingSteps : ~(k < xb'.step)
    BY <1>4, NumberingHolds DEF Numbering
  <1> QED
    BY <1>1, <1>3, <1>4, <1>5 DEF DialogueInv, Dialogue, DoneHold

\* The answer to the last request is true of the modem, if no report follows.
LEMMA ReceiveAnswerDialogue ==
    ASSUME XBeeAssumption, XBeeInv, DialogueInv, ReceiveAnswer
    PROVE  DialogueInv'
  <1>1. /\ xb.inbox # <<>> /\ Received.kind = "answer" /\ UNCHANGED <<port, modem, lossy>>
    BY DEF ReceiveAnswer, Receiving
  <1>2. /\ Rest \in Driver /\ Sound(Rest) /\ Received \in Packets
        /\ Rest.open = xb.open
    BY <1>1, RestSound
  <1>3. Received.kind \notin Reports
    BY <1>1 DEF Reports
  <1>4. /\ Dialogue(Rest, port, modem, lossy)
        /\ NoReportAfter(Rest.inbox \o port, 0) => NoReportAfter(Pending, 0)
        /\ Pending[1] = Received /\ 1 \in DOMAIN Pending
    BY <1>1, <1>3, RestDialogue
  <1>5. CASE xb' = [Rest EXCEPT !.alive = "off"] \/ xb' = Failure(Rest) \/ xb' = Rest
    <2>1. Follows(xb', Rest)
      BY <1>2, <1>5, FailureFollows DEF Follows, Driver
    <2> QED
      BY <1>1, <1>4, <2>1, FollowingKeepsDialogue DEF DialogueInv
  <1>6. CASE \E r \in Results : xb' = Configure(Rest, Received.frame, Received.ok, r)
    <2>1. PICK r \in Results : xb' = Configure(Rest, Received.frame, Received.ok, r)
      BY <1>6
    <2>2. Received.frame \in Frames
      BY <1>2 DEF Packets
    <2>3. ASSUME Expected(Rest, Received.frame, Received.ok)
          PROVE  Rest.open /\ Rest.step # Configured
      BY <1>2, <2>2, <2>3, ExpectedIsWatched
    <2>4. ASSUME Expected(Rest, Received.frame, Received.ok),
                 Rest.step \in SettingSteps, ~lossy, Hears(modem),
                 NoReportAfter(Rest.inbox \o port, 0)
          PROVE  Rest.step \in modem.settings
      <3>1. SettingAnswer(Received) /\ Received.frame = Rest.step
        BY <1>1, <2>4 DEF Expected, SettingAnswer
      <3>2. NoReportAfter(Pending, 1)
        <4>1. NoReportAfter(Pending, 0)
          BY <1>4, <2>4
        <4>2. DOMAIN Pending \subseteq Int
          <5>1. Pending \in Seq(Packets)
            BY DEF Pending, XBeeInv, XBeeTypeOK, Driver
          <5> QED
            BY <5>1
        <4>3. \A j \in DOMAIN Pending : j > 1 => j > 0
          BY <4>2
        <4> QED
          BY <4>1, <4>3 DEF NoReportAfter
      <3>3. xb.open
        BY <1>2, <2>3, <2>4
      <3>4. AnswersHold(Pending, modem.settings)
        BY <2>4, <3>3 DEF DialogueInv, Dialogue, Pending
      <3> QED
        BY <1>4, <3>1, <3>2, <3>4 DEF AnswersHold
    <2>5. Dialogue(Configure(Rest, Received.frame, Received.ok, r), port, modem, lossy)
      BY <1>2, <1>4, <2>3, <2>4, ConfigureKeepsDialogue
    <2> QED
      BY <1>1, <2>1, <2>5 DEF DialogueInv
  <1>7. PingFrame # ClearChannelFrame
    BY NumberingHolds DEF Numbering
  <1> QED
    BY <1>5, <1>6, <1>7 DEF ReceiveAnswer

\* The modem and the line.  What arrives is read after all the rest; a report
\* makes what is not yet read meaningless.
LEMMA ArrivalKeepsDialogue ==
    ASSUME XBeeAssumption, XBeeInv, DialogueInv, UNCHANGED <<xb, lossy>>, ~lossy,
           NEW p \in Packets, Arrives(p), p.kind # "damaged",
           \/ /\ modem.settings \subseteq modem'.settings /\ Hears(modem)
              /\ SettingAnswer(p) => p.frame \in modem'.settings
           \/ p.kind \in Reports
           \/ modem'.resetting
    PROVE  DialogueInv'
  <1>1. /\ xb \in Driver /\ port \in Seq(Packets) /\ xb.inbox \in Seq(Packets)
        /\ Restarting(xb)
    BY DEF XBeeInv, XBeeTypeOK, Driver, Sound
  <1>2. /\ xb.serviceable => xb.step = Configured
        /\ xb.swallow > 0 => xb.step <= SoftwareReset
        /\ Undamaged(Pending)
    BY DEF DialogueInv, Dialogue, Pending
  <1>3. Pending \in Seq(Packets)
    BY <1>1 DEF Pending
  <1>4. CASE xb.open
    <2>1. port' = Append(port, p)
      BY <1>4 DEF Arrives
    <2>2. xb.inbox \o Append(port, p) = Append(Pending, p)
      <3>1. xb.inbox \in Seq(Packets) /\ port \in Seq(Packets)
        BY <1>1
      <3>2. \A s, t \in Seq(Packets), q \in Packets :
                s \o Append(t, q) = Append(s \o t, q)
        BY ConcatAppend
      <3> QED
        BY <3>1, <3>2, Zenon DEF Pending
    <2>3. SettingAnswer(p) => p.kind \notin Reports
      BY DEF SettingAnswer, Reports
    <2>4. Undamaged(Append(Pending, p))
      <3>1. SettingAnswer(p) => p.frame \in SettingSteps
        BY DEF SettingAnswer
      <3> QED
        BY <1>2, <1>3, <3>1, AppendHolds
    <2>5. Hears(modem)' => /\ AnswersHold(Append(Pending, p), modem'.settings)
                           /\ DoneHold(xb.step, Append(Pending, p), modem'.settings)
      <3>1. CASE modem'.resetting
        BY <3>1 DEF Hears
      <3>2. CASE p.kind \in Reports
        BY <1>3, <2>3, <3>2, AppendHolds
      <3>3. CASE /\ modem.settings \subseteq modem'.settings /\ Hears(modem)
                 /\ SettingAnswer(p) => p.frame \in modem'.settings
        <4>1. /\ AnswersHold(Pending, modem.settings)
              /\ DoneHold(xb.step, Pending, modem.settings)
          BY <1>4, <3>3 DEF DialogueInv, Dialogue, Pending
        <4> QED
          BY <1>3, <3>3, <4>1, AppendHolds
      <3> QED
        BY <3>1, <3>2, <3>3
    <2> QED
      BY <1>2, <2>1, <2>2, <2>4, <2>5 DEF DialogueInv, Dialogue, Hears
  <1>5. CASE ~xb.open
    <2>1. port' = port
      BY <1>5 DEF Arrives
    <2>2. \A k \in SettingSteps : ~(k < xb.step)
      <3>1. xb.step = Unconfigured
        BY <1>1, <1>5 DEF Restarting
      <3>2. Unconfigured = 0 /\ \A k \in SettingSteps : ~(k < 0)
        BY NumberingHolds DEF Numbering
      <3> QED
        BY <3>1, <3>2
    <2> QED
      BY <1>2, <1>5, <2>1, <2>2 DEF DialogueInv, Dialogue, DoneHold, Pending
  <1> QED
    BY <1>4, <1>5

LEMMA ModemExecutesDialogue ==
    ASSUME XBeeAssumption, XBeeInv, DialogueInv, ModemExecutes, ~lossy
    PROVE  DialogueInv'
  <1> DEFINE c == Head(queue)
  <1>1. /\ modem.up /\ ~modem.resetting /\ UNCHANGED <<xb, lossy>>
        /\ modem \in Modem
    BY DEF ModemExecutes, XBeeInv, XBeeTypeOK, Modem
  <1>2. c \in Frames
    BY DEF ModemExecutes, XBeeInv, XBeeTypeOK
  <1>3. PICK ok \in BOOLEAN :
            /\ IF c = DataFrame THEN UNCHANGED port ELSE Arrives(Answer(c, ok))
            /\ modem' = IF ~ok THEN modem
                        ELSE IF c = SoftwareReset
                        THEN [modem EXCEPT !.resetting = TRUE, !.settings = {}]
                        ELSE IF c \in SettingSteps
                        THEN [modem EXCEPT !.settings = @ \union {c}]
                        ELSE modem
    BY DEF ModemExecutes
  <1> HIDE DEF c
  <1>4. CASE c = DataFrame
    <2>1. c # SoftwareReset /\ c \notin SettingSteps
      BY <1>4, NumberingHolds DEF Numbering
    <2>2. UNCHANGED <<port, modem>>
      BY <1>3, <1>4, <2>1
    <2> QED
      BY <1>1, <2>2 DEF DialogueInv, Dialogue, Hears
  <1>5. CASE c # DataFrame
    <2> DEFINE a == Answer(c, ok)
    <2>1. a \in Packets /\ Arrives(a)
      BY <1>2, <1>3, <1>5, PacketsAre
    <2>2. a.kind = "answer" /\ a.frame = c /\ a.ok = ok
      BY DEF Answer
    <2>3. \/ modem.settings \subseteq modem'.settings
             /\ (ok /\ c \in SettingSteps => c \in modem'.settings)
          \/ modem'.resetting
      BY <1>1, <1>3 DEF Modem
    <2> HIDE DEF a
    <2>4. Hears(modem)
      BY <1>1 DEF Hears
    <2> QED
      BY <1>1, <2>1, <2>2, <2>3, <2>4, ArrivalKeepsDialogue DEF SettingAnswer
  <1> QED
    BY <1>4, <1>5

LEMMA ModemDialogue ==
    ASSUME XBeeAssumption, XBeeInv, DialogueInv,
           \/ ModemExecutes \/ ModemReports \/ NobodyListens \/ ModemResets \/ ModemDies
           \/ RadioPacket \/ FrameLost \/ PacketDamaged \/ CalmDown
    PROVE  DialogueInv'
  <1>1. UNCHANGED xb
    BY DEF ModemExecutes, ModemReports, NobodyListens, ModemResets, ModemDies,
           RadioPacket, FrameLost, PacketDamaged, CalmDown
  <1>2. xb.serviceable => xb.step = Configured
    BY DEF DialogueInv, Dialogue
  <1>3. CASE lossy'
    BY <1>1, <1>2, <1>3 DEF DialogueInv, Dialogue
  <1>4. CASE NobodyListens \/ FrameLost \/ CalmDown
    <2>1. UNCHANGED <<xb, port, modem, lossy>>
      BY <1>4 DEF NobodyListens, FrameLost, CalmDown
    <2> QED
      BY <2>1 DEF DialogueInv, Dialogue, Hears
  <1>5. CASE ModemDies
    <2>1. ~modem'.up /\ UNCHANGED <<xb, port, lossy>>
      BY <1>5 DEF ModemDies
    <2> QED
      BY <2>1 DEF DialogueInv, Dialogue, Hears
  <1>6. ASSUME ~lossy', ModemExecutes \/ ModemReports \/ ModemResets \/ RadioPacket
        PROVE  DialogueInv'
    <2>1. UNCHANGED <<xb, lossy>> /\ ~lossy
      BY <1>6 DEF ModemExecutes, ModemReports, ModemResets, RadioPacket
    <2>2. /\ \A k \in {"watchdog", "hardware", "radio"} : Other(k) \in Packets
          /\ \A k : Other(k).kind = k
      BY PacketsAre DEF Other
    <2>3. CASE ModemExecutes
      BY <2>1, <2>3, ModemExecutesDialogue
    <2>4. ASSUME NEW k \in Reports, Arrives(Other(k))
          PROVE  DialogueInv'
      <3>1. Other(k) \in Packets /\ Other(k).kind \in Reports /\ Other(k).kind # "damaged"
        BY <2>2 DEF Reports
      <3> QED
        BY <2>1, <2>4, <3>1, ArrivalKeepsDialogue
    <2>5. CASE ModemReports \/ ModemResets
      BY <2>4, <2>5 DEF ModemReports, ModemResets, Reports
    <2>6. CASE RadioPacket
      <3>1. Arrives(Other("radio")) /\ Hears(modem) /\ UNCHANGED modem
        BY <2>6 DEF RadioPacket, Hears
      <3>2. Other("radio") \in Packets /\ Other("radio").kind = "radio"
        BY <2>2
      <3>3. ~SettingAnswer(Other("radio"))
        BY <3>2 DEF SettingAnswer
      <3> QED
        BY <2>1, <3>1, <3>2, <3>3, ArrivalKeepsDialogue
    <2> QED
      BY <1>6, <2>3, <2>5, <2>6
  <1>7. CASE PacketDamaged
    BY <1>3, <1>7 DEF PacketDamaged
  <1> QED
    BY <1>3, <1>4, <1>5, <1>6, <1>7

LEMMA DialogueStep ==
    ASSUME XBeeAssumption, XBeeInv, DialogueInv, [XBeeNext]_xbeeVars
    PROVE  DialogueInv'
  <1>1. CASE UNCHANGED xbeeVars
    BY <1>1 DEF xbeeVars, DialogueInv, Dialogue, Hears
  <1>2. CASE \/ PongTimeout \/ PeriodicPingTimeout \/ PeriodicPongTimeout
             \/ ClearChannelCheck \/ SendPacket \/ Process \/ ReadNothing \/ ReadError
    BY <1>2, DriverFollows, FollowingKeepsDialogue DEF DialogueInv
  <1>3. CASE \/ ModemExecutes \/ ModemReports \/ NobodyListens \/ ModemResets
             \/ ModemDies \/ RadioPacket \/ FrameLost \/ PacketDamaged \/ CalmDown
    BY <1>3, ModemDialogue
  <1>4. CASE OpenDevice
    BY <1>4, OpenDeviceDialogue
  <1>5. CASE ContinueAfterReset
    BY <1>5, ContinueAfterResetDialogue
  <1>6. CASE Read
    BY <1>6, ReadDialogue
  <1>7. CASE SkipDamaged
    BY <1>7, SkipDamagedDialogue
  <1>8. CASE ReceiveRadio
    BY <1>8, ReceiveRadioDialogue
  <1>9. CASE ReceiveStatus
    BY <1>9, ReceiveStatusDialogue
  <1>10. CASE ReceiveAnswer
    BY <1>10, ReceiveAnswerDialogue
  <1> QED
    BY <1>1, <1>2, <1>3, <1>4, <1>5, <1>6, <1>7, <1>8, <1>9, <1>10
    DEF XBeeNext, XBeeTimer, XBeeInput, XBeeModem

\* A modem that the driver takes for configured has every setting, unless it has
\* reported that it lost them, is in a reset or is silent: for any number of
\* settings, whatever commands are refused, lost or late and however often the
\* port is closed and the dialogue begun anew (configure_modem(),
\* process_modem_status_frame(), process_at_response_frame()).
THEOREM XBeeServiceableIsConfigured ==
    ASSUME XBeeAssumption
    PROVE  XBeeSpec => []ServiceableModemIsConfigured
  <1>1. XBeeInit => DialogueInv
    <2>1. /\ <<>> \o <<>> = <<>> /\ DOMAIN <<>> = {}
          /\ Unconfigured = 0 /\ \A k \in SettingSteps : ~(k < 0)
      BY NumberingHolds DEF Numbering
    <2> QED
      BY <2>1 DEF XBeeInit, DialogueInv, Dialogue, Undamaged, AnswersHold, DoneHold
  <1>2. XBeeInv /\ DialogueInv /\ [XBeeNext]_xbeeVars => DialogueInv'
    BY DialogueStep
  <1>3. XBeeInv /\ DialogueInv => ServiceableModemIsConfigured
    <2> SUFFICES ASSUME XBeeInv, DialogueInv, xb.serviceable, modem.up, ~lossy,
                        ~modem.resetting,
                        \A i \in DOMAIN Pending : Pending[i].kind \notin Reports
                 PROVE  modem.settings = SettingSteps
      BY DEF ServiceableModemIsConfigured, Reports
    <2>1. \A k \in SettingSteps : k < xb.step
      <3>1. \A k \in SettingSteps : k < Configured
        BY NumberingHolds DEF Numbering
      <3> QED
        BY <3>1 DEF DialogueInv, Dialogue
    <2>2. NoReportAfter(Pending, 0)
      BY DEF NoReportAfter
    <2>3. DoneHold(xb.step, Pending, modem.settings)
      BY DEF DialogueInv, Dialogue, Hears, Pending
    <2>4. modem.settings \subseteq SettingSteps
      BY DEF XBeeInv, XBeeTypeOK
    <2> QED
      BY <2>1, <2>2, <2>3, <2>4 DEF DoneHold
  <1> QED
    BY <1>1, <1>2, <1>3, XBeeInvariance, PTL DEF XBeeSpec
================================================================================
