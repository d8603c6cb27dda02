---------------------------------- MODULE Gps ----------------------------------
(***************************************************************************)
(* The GPS driver (xefis/modules/io/gps.{h,cc}): a GPS module that has at    *)
(* most one PowerCycle, which has at most one Connection.  A connection that *)
(* fails only leaves a flag, since it may not destroy itself; process()      *)
(* destroys connections and power cycles and creates the next ones.          *)
(*                                                                         *)
(* Bytes are external: a message is received when the receiver's baud rate   *)
(* is the connection's.  nu::SerialPort, the receiver and its power switch   *)
(* are external, too.                                                       *)
(***************************************************************************)
EXTENDS Integers

CONSTANTS
    ConnectionAttempts,     \* kConnectionAttemptsPerPowerCycle
    MaxRestartAttempts      \* kMaxRestartAttempts

ASSUME GpsAssumption ==
    /\ ConnectionAttempts \in Nat \ {0} /\ ConnectionAttempts % 2 = 0
    /\ MaxRestartAttempts \in Nat

VARIABLES
    gps,            \* the driver: GPS, its PowerCycle and the Connection of that
    receiver        \* the receiver: what it does and at which baud rate

gpsVars == <<gps, receiver>>

\* Operators named Mut... are the defects the properties are tested with; nothing
\* uses them.

Rates == {"default", "target"}
GpsDriver ==
    [powerAttempts : 0 .. MaxRestartAttempts + 1,   \* more make no difference
     powerTimer : BOOLEAN,                  \* is _power_cycle_timer running?
     cycleRequested : BOOLEAN,              \* _power_cycle_requested
     powerCycle : BOOLEAN,                  \* _power_cycle, and the socket power_on
     attempts : 0 .. ConnectionAttempts,    \* _connection_attempts
     restart : BOOLEAN,                     \* _restart_connection
     connection : Rates \union {"none"},    \* the connection's baud rate
     port : {"shut", "open", "left"},       \* left: closed after the rate was requested
     aliveTimer : BOOLEAN,                  \* _alive_check_timer
     firstMessage : BOOLEAN,                \* _first_message_received
     serviceable : BOOLEAN,
     data : BOOLEAN,                        \* does any data socket hold a value?
     reliable : BOOLEAN,                    \* _reliable_fix_quality of GPS
     clockSet : BOOLEAN]                    \* _clock_synchronized

\* good: from now on the receiver and the port work.
Receiver == [rate : Rates, sends : BOOLEAN, obeys : BOOLEAN, good : BOOLEAN]

-----------------------------------------------------------------------------
(***************************************************************************)
(* Functions of the driver, on its state.                                  *)
(***************************************************************************)

\* ~Connection().  It clears a _reliable_fix_quality of its own, not the one of
\* GPS that is read below.
MutConnectionLeavesService(x) ==
    [x EXCEPT !.connection = "none", !.port = "shut", !.aliveTimer = FALSE,
              !.firstMessage = FALSE, !.data = FALSE]
DestroyConnection(x) ==
    [x EXCEPT !.connection = "none", !.port = "shut", !.aliveTimer = FALSE,
              !.firstMessage = FALSE, !.data = FALSE, !.serviceable = FALSE]

\* PowerCycle::notify_connection_failure()
MutFailureForgotten(x) ==
    IF x.attempts >= ConnectionAttempts THEN x ELSE [x EXCEPT !.restart = TRUE]
NotifyConnectionFailure(x) ==
    IF x.attempts >= ConnectionAttempts
    THEN [x EXCEPT !.cycleRequested = TRUE]
    ELSE [x EXCEPT !.restart = TRUE]

\* PowerCycle::notify_connection_established(): is another rate requested?
MutAlwaysSwitchRate(x) == x.connection # "target"
SwitchesRate(x) ==
    /\ x.powerAttempts <= MaxRestartAttempts
    /\ (x.attempts <= ConnectionAttempts) = (x.connection # "target")

\* message_received()
MessageReceived(x) ==
    IF x.firstMessage THEN x
    ELSE LET y == [x EXCEPT !.firstMessage = TRUE, !.serviceable = TRUE] IN
         IF SwitchesRate(y) THEN [y EXCEPT !.port = "left", !.restart = TRUE] ELSE y

\* The next attempt's rate in PowerCycle::process()
RateOf(n) == IF n % 2 = 0 THEN "target" ELSE "default"

-----------------------------------------------------------------------------
(***************************************************************************)
(* The driver.                                                             *)
(***************************************************************************)

\* GPS::power_on(), called by initialize() and the timer.
PowerOn ==
    /\ gps.powerTimer
    /\ gps' = [gps EXCEPT !.powerTimer = FALSE,
                          !.powerAttempts = IF @ > MaxRestartAttempts THEN @ ELSE @ + 1,
                          !.powerCycle = TRUE, !.attempts = 0, !.restart = FALSE]
    /\ \E rate \in Rates :
            /\ receiver.good => rate = "default"
            /\ receiver' = [receiver EXCEPT !.rate = rate]

\* GPS::process() when a power cycle has been requested.
PowerOff ==
    /\ gps.cycleRequested
    /\ gps' = [DestroyConnection(gps) EXCEPT !.cycleRequested = FALSE,
                    !.powerCycle = FALSE, !.restart = FALSE, !.powerTimer = TRUE]
    /\ UNCHANGED receiver

\* PowerCycle::process() creates a connection, which opens the port at once.
CreateConnection ==
    /\ gps.powerCycle /\ ~gps.cycleRequested
    /\ gps.restart \/ gps.connection = "none"
    /\ LET n == gps.attempts + 1
           x == [DestroyConnection(gps) EXCEPT !.restart = FALSE, !.attempts = n,
                    !.connection = RateOf(n), !.port = "open", !.aliveTimer = TRUE]
       IN \E opened \in BOOLEAN :
            /\ receiver.good => opened
            /\ gps' = IF opened THEN x
                      ELSE NotifyConnectionFailure([x EXCEPT !.port = "shut"])
    /\ UNCHANGED receiver

\* Connection::alive_check_failed().  A good receiver sends in time.
AliveCheckFailed ==
    /\ gps.aliveTimer
    /\ receiver.good => gps.port # "open" \/ receiver.rate # gps.connection
    /\ gps' = NotifyConnectionFailure([gps EXCEPT !.aliveTimer = FALSE])
    /\ UNCHANGED receiver

\* Connection::serial_failure()
SerialFailure ==
    /\ gps.port = "open" /\ ~receiver.good
    /\ \E port \in {"open", "shut"} :
            gps' = NotifyConnectionFailure([gps EXCEPT !.port = port])
    /\ UNCHANGED receiver

\* Connection::serial_data_ready(), one message: the first one may make the
\* driver close the port, but its parser may hold more.  A GGA message tells
\* whether the fix is reliable; an RMC message of a reliable fix sets the clock,
\* once.
ReceiveMessage ==
    /\ gps.connection = receiver.rate /\ gps.port \in {"open", "left"}
    /\ receiver.sends
    /\ LET x == [MessageReceived(gps) EXCEPT !.data = TRUE, !.aliveTimer = TRUE] IN
       gps' \in {x, [x EXCEPT !.clockSet = @ \/ x.reliable]}
                 \union {[x EXCEPT !.reliable = fix] : fix \in BOOLEAN}
    /\ \E obeyed \in BOOLEAN :
            /\ obeyed => gps'.port # gps.port
            /\ receiver.good /\ receiver.obeys /\ gps'.port # gps.port => obeyed
            /\ receiver' = IF obeyed THEN [receiver EXCEPT !.rate = "target"] ELSE receiver

-----------------------------------------------------------------------------
(***************************************************************************)
(* The receiver (external).                                                *)
(***************************************************************************)
ReceiverChanges ==
    /\ ~receiver.good
    /\ \E rate \in Rates, sends \in BOOLEAN :
            receiver' = [receiver EXCEPT !.rate = rate, !.sends = sends]
    /\ UNCHANGED gps
ReceiverGood ==
    /\ ~receiver.good
    /\ receiver' = [receiver EXCEPT !.good = TRUE, !.sends = TRUE]
    /\ UNCHANGED gps

GpsInit ==
    /\ gps = [powerAttempts |-> 0, powerTimer |-> TRUE, cycleRequested |-> FALSE,
              powerCycle |-> FALSE, attempts |-> 0, restart |-> FALSE,
              connection |-> "none", port |-> "shut", aliveTimer |-> FALSE,
              firstMessage |-> FALSE, serviceable |-> FALSE, data |-> FALSE,
              reliable |-> FALSE, clockSet |-> FALSE]
    /\ receiver \in [rate : Rates, sends : BOOLEAN, obeys : BOOLEAN, good : {FALSE}]

GpsNext ==
    \/ PowerOn
    \/ PowerOff
    \/ CreateConnection
    \/ AliveCheckFailed
    \/ SerialFailure
    \/ ReceiveMessage
    \/ ReceiverChanges
    \/ ReceiverGood

GpsSpec == GpsInit /\ [][GpsNext]_gpsVars

-----------------------------------------------------------------------------
(***************************************************************************)
(* Properties.                                                             *)
(***************************************************************************)

GpsTypeOK == gps \in GpsDriver /\ receiver \in Receiver

\* Whatever fails, in whatever order the flags are set: without a power cycle
\* the power timer runs (and only then: it would replace a power cycle), and a
\* connection is either watched or about to be replaced.
GpsKeepsTrying ==
    /\ gps.powerTimer <=> ~gps.powerCycle
    /\ gps.powerTimer => gps.connection = "none" /\ ~gps.cycleRequested
    /\ gps.connection # "none" => gps.aliveTimer \/ gps.restart \/ gps.cycleRequested

\* Position data, and the word that the GPS is serviceable, come from the
\* connection there is now; none survive it.
GpsDataIsFresh ==
    gps.serviceable \/ gps.data => gps.connection # "none" /\ gps.firstMessage

\* A receiver that works in the end, whatever baud rate it is at by then and
\* whether it obeys the request to change it or not, is found.
GpsComesUp == <>[](receiver.good) => <>[](gps.serviceable)
===============================================================================
