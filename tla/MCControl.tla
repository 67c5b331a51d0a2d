----------------------------- MODULE MCControl -----------------------------
(***************************************************************************)
(* PathMtu and Traffic on small instances for TLC.  They share no state:   *)
(* one moves as long as the other has not started.  In the initial states  *)
(* each meets all of its inputs while the other has only one.              *)
(***************************************************************************)
EXTENDS PathMtu, Traffic

controlVars == <<vars, trafficVars>>

\* While only the path MTU is searched, conditions are bad: LimitRecovers asks
\* for nothing.
TrafficWaits ==
  /\ TrafficInit
  /\ conditions = "bad" /\ desiredTxLimit_B_s = (CHOOSE limit \in DesiredLimits : TRUE)

PathMtuWaits ==
  /\ Init
  /\ path = g_basePMTU_IPv4_B + 1

SearchTurn(A) == TrafficWaits /\ A /\ UNCHANGED trafficVars
TrafficTurn(A) == PathMtuWaits /\ A /\ UNCHANGED vars

ControlInit == Init /\ TrafficInit /\ (PathMtuWaits \/ TrafficWaits)

ControlNext == SearchTurn(Next) \/ TrafficTurn(TrafficNext)

ControlSpec ==
  /\ ControlInit /\ [][ControlNext]_controlVars
  /\ WF_controlVars(SearchTurn(ProbeDue))
  /\ WF_controlVars(TrafficTurn(SendPacket)) /\ WF_controlVars(TrafficTurn(Answer))
  /\ WF_controlVars(TrafficTurn(HeaderReceived(FALSE, FALSE, FALSE)))
=============================================================================
