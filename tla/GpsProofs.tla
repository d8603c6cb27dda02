------------------------------- MODULE GpsProofs -------------------------------
(***************************************************************************)
(* Proofs about module Gps, for any even number of connection attempts.    *)
(***************************************************************************)
EXTENDS Gps, TLAPS

\* A connection belongs to a power cycle, and has the rate of its attempt; what
\* may fail belongs to a connection.
Attempts ==
    /\ gps.connection # "none" => gps.powerCycle /\ gps.connection = RateOf(gps.attempts)
    /\ gps.powerCycle /\ gps.connection = "none" => gps.attempts = 0
    /\ gps.aliveTimer \/ gps.port # "shut" => gps.connection # "none"

\* There is an attempt left for a connection that is to be replaced, since those
\* that leave the default rate are odd in number.
AttemptsLeft == gps.restart => gps.attempts < ConnectionAttempts

GpsInv ==
    GpsTypeOK /\ GpsKeepsTrying /\ GpsDataIsFresh /\ Attempts /\ AttemptsLeft

USE DEF GpsInv, GpsTypeOK, GpsDriver, Receiver, Rates

LEMMA GpsInitInv == ASSUME GpsAssumption, GpsInit PROVE GpsInv
  <1>1. GpsTypeOK
    <2>1. 0 \in 0 .. ConnectionAttempts /\ 0 \in 0 .. MaxRestartAttempts + 1
      BY DEF GpsAssumption
    <2>2. gps \in GpsDriver
      BY <2>1 DEF GpsInit
    <2>3. receiver \in Receiver
      BY DEF GpsInit
    <2> QED
      BY <2>2, <2>3
  <1> QED
    BY <1>1 DEF GpsAssumption, GpsInit, GpsKeepsTrying, GpsDataIsFresh, Attempts,
                AttemptsLeft

\* A failure that is notified leaves a flag that process() will see, and changes
\* nothing else; another connection is asked for only when an attempt is left.
LEMMA FailureNotified ==
    ASSUME GpsAssumption, NEW x \in GpsDriver, NEW y, y = NotifyConnectionFailure(x)
    PROVE  /\ y \in GpsDriver
           /\ y.restart \/ y.cycleRequested
           /\ y.restart /\ ~x.restart => x.attempts < ConnectionAttempts
           /\ y.powerTimer = x.powerTimer /\ y.powerCycle = x.powerCycle
           /\ y.attempts = x.attempts /\ y.connection = x.connection
           /\ y.port = x.port /\ y.aliveTimer = x.aliveTimer
           /\ y.firstMessage = x.firstMessage
           /\ y.serviceable = x.serviceable /\ y.data = x.data
  <1>1. CASE x.attempts >= ConnectionAttempts
    BY <1>1 DEF NotifyConnectionFailure
  <1>2. CASE ~(x.attempts >= ConnectionAttempts)
    <2>1. y = [x EXCEPT !.restart = TRUE]
      BY <1>2 DEF NotifyConnectionFailure
    <2>2. y \in GpsDriver
      BY <2>1
    <2>3. x.attempts < ConnectionAttempts
      BY <1>2 DEF GpsAssumption
    <2> QED
      BY <2>1, <2>2, <2>3
  <1> QED
    BY <1>1, <1>2

LEMMA PowerOnInv == ASSUME GpsAssumption, GpsInv, PowerOn PROVE GpsInv'
  <1> DEFINE n == IF gps.powerAttempts > MaxRestartAttempts THEN gps.powerAttempts
                  ELSE gps.powerAttempts + 1
  <1>1. n \in 0 .. MaxRestartAttempts + 1
    BY DEF GpsAssumption
  <1>2. 0 \in 0 .. ConnectionAttempts
    BY DEF GpsAssumption
  <1>3. gps' = [gps EXCEPT !.powerTimer = FALSE, !.powerAttempts = n,
                           !.powerCycle = TRUE, !.attempts = 0, !.restart = FALSE]
    BY DEF PowerOn
  <1>4. GpsTypeOK'
    <2> HIDE DEF n
    <2>1. gps' \in GpsDriver
      BY <1>1, <1>2, <1>3
    <2> QED
      BY <2>1 DEF PowerOn
  <1>5. /\ ~gps'.powerTimer /\ gps'.powerCycle /\ ~gps'.restart /\ gps'.attempts = 0
        /\ gps'.connection = "none"
        /\ gps'.aliveTimer = gps.aliveTimer /\ gps'.port = gps.port
        /\ gps'.serviceable = gps.serviceable /\ gps'.data = gps.data
    BY DEF PowerOn, GpsKeepsTrying
  <1>6. gps.connection = "none"
    BY DEF PowerOn, GpsKeepsTrying
  <1> QED
    BY <1>4, <1>5, <1>6 DEF GpsKeepsTrying, GpsDataIsFresh, Attempts, AttemptsLeft

LEMMA PowerOffInv == ASSUME GpsAssumption, GpsInv, PowerOff PROVE GpsInv'
  <1>1. GpsTypeOK'
    <2>1. DestroyConnection(gps) \in GpsDriver
      BY DEF DestroyConnection
    <2>2. gps' \in GpsDriver
      <3> DEFINE d == DestroyConnection(gps)
      <3>1. gps' = [d EXCEPT !.cycleRequested = FALSE, !.powerCycle = FALSE,
                             !.restart = FALSE, !.powerTimer = TRUE]
        BY DEF PowerOff
      <3> HIDE DEF d
      <3>2. d \in GpsDriver
        BY <2>1 DEF d
      <3> QED
        BY <3>1, <3>2
    <2> QED
      BY <2>2 DEF PowerOff
  <1>2. /\ gps'.powerTimer /\ ~gps'.powerCycle /\ ~gps'.restart /\ ~gps'.cycleRequested
        /\ gps'.connection = "none" /\ gps'.port = "shut" /\ ~gps'.aliveTimer
        /\ ~gps'.serviceable /\ ~gps'.data
    BY DEF PowerOff, DestroyConnection
  <1> QED
    BY <1>1, <1>2 DEF GpsKeepsTrying, GpsDataIsFresh, Attempts, AttemptsLeft

LEMMA CreateConnectionInv == ASSUME GpsAssumption, GpsInv, CreateConnection PROVE GpsInv'
  <1> DEFINE n == gps.attempts + 1
             x == [DestroyConnection(gps) EXCEPT !.restart = FALSE, !.attempts = n,
                        !.connection = RateOf(n), !.port = "open", !.aliveTimer = TRUE]
             y == [x EXCEPT !.port = "shut"]
  <1>1. n \in 0 .. ConnectionAttempts
    <2>1. gps.attempts < ConnectionAttempts
      BY DEF CreateConnection, Attempts, AttemptsLeft, GpsAssumption
    <2> QED
      BY <2>1 DEF GpsAssumption
  <1>2. RateOf(n) \in Rates /\ RateOf(n) # "none"
    BY DEF RateOf
  <1>3. /\ x \in GpsDriver /\ y \in GpsDriver
        /\ x.attempts = n /\ x.connection = RateOf(n) /\ x.aliveTimer /\ ~x.restart
        /\ ~x.serviceable /\ ~x.data
        /\ x.powerTimer = gps.powerTimer /\ x.powerCycle = gps.powerCycle
    BY <1>1, <1>2 DEF DestroyConnection
  <1>4. /\ y.attempts = x.attempts /\ y.connection = x.connection
        /\ y.aliveTimer = x.aliveTimer /\ y.restart = x.restart
        /\ y.serviceable = x.serviceable /\ y.data = x.data
        /\ y.powerTimer = x.powerTimer /\ y.powerCycle = x.powerCycle
    BY DEF DestroyConnection
  <1>5. gps' = x \/ gps' = NotifyConnectionFailure(y)
    BY DEF CreateConnection
  <1>6. receiver' = receiver /\ gps.powerCycle /\ ~gps.powerTimer
    BY DEF CreateConnection, GpsKeepsTrying
  <1> HIDE DEF n, x, y
  <1>7. /\ gps' \in GpsDriver /\ gps'.attempts = n /\ gps'.connection = RateOf(n)
        /\ gps'.aliveTimer /\ ~gps'.serviceable /\ ~gps'.data
        /\ gps'.powerCycle /\ ~gps'.powerTimer
        /\ gps'.restart => n < ConnectionAttempts
    <2>1. CASE gps' = x
      BY <2>1, <1>3, <1>6
    <2>2. CASE gps' = NotifyConnectionFailure(y)
      <3>1. /\ gps' \in GpsDriver
            /\ gps'.restart /\ ~y.restart => y.attempts < ConnectionAttempts
            /\ gps'.powerTimer = y.powerTimer /\ gps'.powerCycle = y.powerCycle
            /\ gps'.attempts = y.attempts /\ gps'.connection = y.connection
            /\ gps'.aliveTimer = y.aliveTimer
            /\ gps'.serviceable = y.serviceable /\ gps'.data = y.data
        BY <2>2, <1>3, FailureNotified
      <3>2. /\ ~y.restart /\ y.attempts = n /\ y.connection = RateOf(n)
            /\ y.aliveTimer /\ ~y.serviceable /\ ~y.data
            /\ y.powerCycle /\ ~y.powerTimer
        BY <1>3, <1>4, <1>6
      <3> QED
        BY <3>1, <3>2
    <2> QED
      BY <2>1, <2>2, <1>5
  <1> QED
    BY <1>2, <1>6, <1>7 DEF GpsKeepsTrying, GpsDataIsFresh, Attempts, AttemptsLeft

\* The failures of a connection there is.
LEMMA FailureInv ==
    ASSUME GpsAssumption, GpsInv, UNCHANGED receiver, NEW x \in GpsDriver,
           gps' = NotifyConnectionFailure(x), gps.connection # "none",
           x.powerTimer = gps.powerTimer, x.powerCycle = gps.powerCycle,
           x.attempts = gps.attempts, x.connection = gps.connection,
           x.restart = gps.restart, x.firstMessage = gps.firstMessage,
           x.serviceable = gps.serviceable, x.data = gps.data
    PROVE  GpsInv'
  <1>1. /\ gps' \in GpsDriver
        /\ gps'.restart \/ gps'.cycleRequested
        /\ gps'.restart /\ ~x.restart => x.attempts < ConnectionAttempts
        /\ gps'.powerTimer = x.powerTimer /\ gps'.powerCycle = x.powerCycle
        /\ gps'.attempts = x.attempts /\ gps'.connection = x.connection
        /\ gps'.firstMessage = x.firstMessage
        /\ gps'.serviceable = x.serviceable /\ gps'.data = x.data
    BY FailureNotified
  <1>2. gps.powerCycle /\ ~gps.powerTimer
    BY DEF Attempts, GpsKeepsTrying
  <1> QED
    BY <1>1, <1>2 DEF GpsKeepsTrying, GpsDataIsFresh, Attempts, AttemptsLeft

LEMMA AliveCheckFailedInv == ASSUME GpsAssumption, GpsInv, AliveCheckFailed PROVE GpsInv'
  <1>1. gps.connection # "none"
    BY DEF AliveCheckFailed, Attempts
  <1>2. [gps EXCEPT !.aliveTimer = FALSE] \in GpsDriver
    OBVIOUS
  <1> QED
    BY <1>1, <1>2, FailureInv DEF AliveCheckFailed

LEMMA SerialFailureInv == ASSUME GpsAssumption, GpsInv, SerialFailure PROVE GpsInv'
  <1>1. gps.connection # "none"
    BY DEF SerialFailure, Attempts
  <1>2. PICK port \in {"open", "shut"} :
            gps' = NotifyConnectionFailure([gps EXCEPT !.port = port])
    BY DEF SerialFailure
  <1>3. [gps EXCEPT !.port = port] \in GpsDriver
    OBVIOUS
  <1> QED
    BY <1>1, <1>2, <1>3, FailureInv DEF SerialFailure

\* A connection leaves the default rate only while an attempt is left.
LEMMA SwitchLeavesAttempt ==
    ASSUME GpsAssumption, GpsInv, gps.connection # "none",
           NEW x, x.powerAttempts = gps.powerAttempts, x.attempts = gps.attempts,
           x.connection = gps.connection, SwitchesRate(x)
    PROVE  gps.attempts < ConnectionAttempts
  <1>1. gps.attempts <= ConnectionAttempts /\ gps.attempts \in Nat
    BY DEF GpsAssumption
  <1>2. gps.connection # "target"
    BY <1>1 DEF SwitchesRate
  <1>3. gps.attempts % 2 # 0
    BY <1>2 DEF Attempts, RateOf
  <1> QED
    BY <1>1, <1>3 DEF GpsAssumption

LEMMA ReceiveMessageInv == ASSUME GpsAssumption, GpsInv, ReceiveMessage PROVE GpsInv'
  <1> DEFINE m == MessageReceived(gps)
             x == [m EXCEPT !.data = TRUE, !.aliveTimer = TRUE]
  <1>1. gps.connection # "none" /\ gps.powerCycle /\ ~gps.powerTimer
    BY DEF ReceiveMessage, Attempts, GpsKeepsTrying
  <1>2. /\ m \in GpsDriver /\ m.firstMessage
        /\ m.connection = gps.connection /\ m.attempts = gps.attempts
        /\ m.powerTimer = gps.powerTimer /\ m.powerCycle = gps.powerCycle
        /\ m.restart => gps.attempts < ConnectionAttempts
    <2>1. CASE gps.firstMessage
      BY <2>1 DEF MessageReceived, AttemptsLeft
    <2>2. CASE ~gps.firstMessage
      <3> DEFINE y == [gps EXCEPT !.firstMessage = TRUE, !.serviceable = TRUE]
      <3>1. m = IF SwitchesRate(y) THEN [y EXCEPT !.port = "left", !.restart = TRUE] ELSE y
        BY <2>2 DEF MessageReceived
      <3>2. SwitchesRate(y) => gps.attempts < ConnectionAttempts
        BY <1>1, SwitchLeavesAttempt
      <3>3. CASE SwitchesRate(y)
        BY <3>1, <3>2, <3>3
      <3>4. CASE ~SwitchesRate(y)
        BY <3>1, <3>4 DEF AttemptsLeft
      <3> QED
        BY <3>3, <3>4
    <2> QED
      BY <2>1, <2>2
  <1> HIDE DEF m
  <1>3. /\ x \in GpsDriver /\ x.firstMessage /\ x.aliveTimer
        /\ x.connection = m.connection /\ x.attempts = m.attempts
        /\ x.powerTimer = m.powerTimer /\ x.powerCycle = m.powerCycle
        /\ x.restart = m.restart
    BY <1>2
  <1>4. \/ gps' = x
        \/ \E set \in BOOLEAN : gps' = [x EXCEPT !.clockSet = set]
        \/ \E fix \in BOOLEAN : gps' = [x EXCEPT !.reliable = fix]
    <2> HIDE DEF x
    <2>1. gps' \in {x, [x EXCEPT !.clockSet = x.clockSet \/ x.reliable]}
                        \union {[x EXCEPT !.reliable = fix] : fix \in BOOLEAN}
      BY DEF ReceiveMessage, m, x
    <2>2. (x.clockSet \/ x.reliable) \in BOOLEAN
      OBVIOUS
    <2> QED
      BY <2>1, <2>2
  <1> HIDE DEF x
  <1>5. /\ gps' \in GpsDriver /\ gps'.firstMessage /\ gps'.aliveTimer
        /\ gps'.connection = x.connection /\ gps'.attempts = x.attempts
        /\ gps'.powerTimer = x.powerTimer /\ gps'.powerCycle = x.powerCycle
        /\ gps'.restart = x.restart
    BY <1>3, <1>4
  <1>6. receiver' \in Receiver
    BY DEF ReceiveMessage
  <1> QED
    BY <1>1, <1>2, <1>3, <1>5, <1>6 DEF GpsKeepsTrying, GpsDataIsFresh, Attempts, AttemptsLeft

LEMMA GpsNextInv == ASSUME GpsAssumption, GpsInv, [GpsNext]_gpsVars PROVE GpsInv'
  <1>1. CASE UNCHANGED gpsVars
    BY <1>1 DEF gpsVars, GpsKeepsTrying, GpsDataIsFresh, Attempts, AttemptsLeft
  <1>2. CASE PowerOn BY <1>2, PowerOnInv
  <1>3. CASE PowerOff BY <1>3, PowerOffInv
  <1>4. CASE CreateConnection BY <1>4, CreateConnectionInv
  <1>5. CASE AliveCheckFailed BY <1>5, AliveCheckFailedInv
  <1>6. CASE SerialFailure BY <1>6, SerialFailureInv
  <1>7. CASE ReceiveMessage BY <1>7, ReceiveMessageInv
  <1>8. CASE ReceiverChanges \/ ReceiverGood
    BY <1>8 DEF ReceiverChanges, ReceiverGood, GpsKeepsTrying, GpsDataIsFresh,
                Attempts, AttemptsLeft
  <1> QED
    BY <1>1, <1>2, <1>3, <1>4, <1>5, <1>6, <1>7, <1>8 DEF GpsNext

LEMMA GpsInvariance == ASSUME GpsAssumption PROVE GpsSpec => []GpsInv
  <1>1. GpsInit => GpsInv
    BY GpsInitInv
  <1>2. GpsInv /\ [GpsNext]_gpsVars => GpsInv'
    BY GpsNextInv
  <1> QED
    BY <1>1, <1>2, PTL DEF GpsSpec

-----------------------------------------------------------------------------
\* The driver and the receiver keep their types: in particular the driver never
\* makes more attempts than a power cycle has.
THEOREM GpsTypeCorrect == ASSUME GpsAssumption PROVE GpsSpec => []GpsTypeOK
  BY GpsInvariance, PTL

\* Whichever failures come together, the driver has a power cycle or waits for
\* one, and a connection is watched or about to be replaced.
THEOREM GpsAlwaysTries == ASSUME GpsAssumption PROVE GpsSpec => []GpsKeepsTrying
  BY GpsInvariance, PTL

\* No position, and no word that the GPS is serviceable, outlives its connection.
THEOREM GpsAlwaysFresh == ASSUME GpsAssumption PROVE GpsSpec => []GpsDataIsFresh
  BY GpsInvariance, PTL
================================================================================
