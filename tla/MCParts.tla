-------------------------------- MODULE MCParts --------------------------------
(***************************************************************************)
(* The parts that an event loop drives, for TLC.  They share nothing,        *)
(* neither state nor calls: each behaviour is one of one part and its        *)
(* environment, and the others rest.                                        *)
(***************************************************************************)
EXTENDS LinkDecoder, XBee, Gps, ChrUm6, Screen, Status

CONSTANT Parts      \* the parts that a run is about

VARIABLE part       \* the part that this behaviour is about

vars == <<part, linkVars, xbeeVars, gpsVars, um6Vars, screenVars, statusVars>>

OfLink == part = "link"
OfXBee == part = "XBee"
OfGps == part = "GPS"
OfUm6 == part = "CHR-UM6"
OfScreen == part = "screen"
OfStatus == part = "status"

\* Where a part may begin in several states, it rests in one of them.
Init ==
    /\ part \in Parts
    /\ LinkInit /\ XBeeInit /\ GpsInit /\ Um6Init /\ ScreenInit /\ StatusInit
    /\ ~OfGps => receiver.rate = "default" /\ ~receiver.sends /\ ~receiver.obeys
    /\ ~OfScreen => canvas = CHOOSE size \in Sizes : TRUE
    /\ ~OfStatus =>
            /\ \A m \in Messages : ~status.deleted[m]
            /\ status.hidden[1] = CHOOSE m \in Messages : TRUE

Next ==
    /\ UNCHANGED part
    /\ OfLink \/ UNCHANGED linkVars
    /\ OfXBee \/ UNCHANGED xbeeVars
    /\ OfGps \/ UNCHANGED gpsVars
    /\ OfUm6 \/ UNCHANGED um6Vars
    /\ OfScreen \/ UNCHANGED screenVars
    /\ OfStatus \/ UNCHANGED statusVars
    /\ \/ OfLink /\ LinkNext
       \/ OfXBee /\ XBeeNext
       \/ OfGps /\ GpsNext
       \/ OfUm6 /\ Um6Next
       \/ OfScreen /\ ScreenNext
       \/ OfStatus /\ StatusNext

-----------------------------------------------------------------------------
(***************************************************************************)
(* Fairness.  What rests owes nothing.                                     *)
(***************************************************************************)

\* The event loop runs, so time passes and timers fire.  Nothing is assumed of
\* what arrives.
LinkFairness ==
    /\ WF_linkVars(OfLink /\ Tick)
    /\ WF_linkVars(OfLink /\ Failsafe)
    /\ WF_linkVars(OfLink /\ Reacquire)

\* The event loop calls read() while there is input, goes through its loops to
\* their end, and fires timers between them however much arrives; a modem that
\* is up executes its commands.
XBeeFairness ==
    /\ SF_xbeeVars(OfXBee /\ (OpenDevice \/ PongTimeout \/ ContinueAfterReset))
    /\ SF_xbeeVars(OfXBee /\ PeriodicPingTimeout)
    /\ SF_xbeeVars(OfXBee /\ PeriodicPongTimeout)
    /\ WF_xbeeVars(OfXBee /\ XBeeInput)
    /\ WF_xbeeVars(OfXBee /\ XBeeModem)

\* process() is called in every cycle, timers fire and input is read.
GpsFairness ==
    /\ WF_gpsVars(OfGps /\ PowerOn)
    /\ WF_gpsVars(OfGps /\ PowerOff)
    /\ WF_gpsVars(OfGps /\ CreateConnection)
    /\ WF_gpsVars(OfGps /\ AliveCheckFailed)
    /\ WF_gpsVars(OfGps /\ ReceiveMessage)

\* Timers fire and input is read; a sensor that broadcasts without end answers
\* all the same.
Um6Fairness ==
    /\ WF_um6Vars(OfUm6 /\ Um6OpenDevice)
    /\ WF_um6Vars(OfUm6 /\ Um6AliveCheckFailed)
    /\ WF_um6Vars(OfUm6 /\ InitializationTimeout)
    /\ WF_um6Vars(OfUm6 /\ Um6Receive)
    /\ SF_um6Vars(OfUm6 /\ SensorAnswers)

\* The refresh timer fires for ever, and the threads work.
ScreenFairness ==
    /\ SF_screenVars(OfScreen /\ Refresh)
    /\ WF_screenVars(OfScreen /\ StartPainting)
    /\ \A i \in Instruments :
            /\ WF_screenVars(OfScreen /\ FinishPainting(i))
            /\ WF_screenVars(OfScreen /\ Erase(i))

Fairness ==
    \/ OfLink /\ LinkFairness
    \/ OfXBee /\ XBeeFairness
    \/ OfGps /\ GpsFairness
    \/ OfUm6 /\ Um6Fairness
    \/ OfScreen /\ ScreenFairness
    \/ OfStatus

Spec == Init /\ [][Next]_vars /\ Fairness
================================================================================
