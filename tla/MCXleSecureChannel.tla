-------------------------- MODULE MCXleSecureChannel --------------------------
(***************************************************************************)
(* XleSecureChannel for TLC, and what an XLE channel must eventually do.   *)
(***************************************************************************)
EXTENDS XleSecureChannel

NoFaults  == {}
AllFaults == Faults

-----------------------------------------------------------------------------
(***************************************************************************)
(* Fairness.  Both processing loops run for ever, and the link encoders     *)
(* send the offered handshake blob again in every period while it is valid  *)
(* (send_predicate in machines/sim-1/common/link), so a blob that stays on   *)
(* offer is fetched in the end even if messages are lost.  The encoders      *)
(* encrypt in every period as well.  Nothing is assumed of restarts, of the  *)
(* operator's button, of time or of the link's other faults.                *)
(***************************************************************************)
SlaveHears   == mRequest # Nil /\ SlaveProcess(mRequest)
MasterHears  == sResponse # Nil /\ MasterProcess(sResponse)
SlaveReceives == \E p \in toSlave : SlaveDecrypt(p)

FairSpec ==
    /\ Spec
    /\ WF_vars(SlaveHears)
    /\ WF_vars(MasterHears)
    /\ WF_vars(MasterEncrypt)
    /\ WF_vars(SlaveReceives)

\* Both ends hold the key of one handshake: the next packet the master makes
\* with it can be decrypted.
SharedSession ==
    \E s \in MasterSessions, t \in SlaveSessions :
        Connected(s) /\ SameKey(s, t)

\* Test t3 is "standby handshake survives slave restart" and test t2
\* "handshaking eventually works even on lossy channel": once restarts are
\* over, a handshake on offer that the slave has not answered yet ends in a key
\* both ends hold, if it is an immediate one or the slave has no session left;
\* nobody has to press the button.
OnOffer ==
    /\ up /\ mNext # Nil
    /\ mNext.run = 0 /\ mNext.hid \notin usedIds
    /\ mNext.mode = "Immediate" \/ SlaveSessions = {}
HandshakeCompletes ==
    (OnOffer /\ restarts = MaxRestarts) ~> SharedSession
=============================================================================
