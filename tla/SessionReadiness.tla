-------------------------- MODULE SessionReadiness --------------------------
(***************************************************************************)
(* The execution engine beside what it has last been told of the venue     *)
(* session: session is the state of the last set_gateway_state, or         *)
(* Uncertain after an acknowledgement the engine could not place.          *)
(***************************************************************************)
EXTENDS ExecutionEngine

VARIABLE session

sessionVars == <<vars, session>>

\* What an adapter reports of its session; Halted is the engine's own state.
SessionStates == GatewayStates \ {"Halted"}

SessionInit == Init /\ session = gateway

SessionNext ==
  /\ \/ \E state \in SessionStates : SetGatewayState(state) /\ session' = state
     \/ \E c \in Correlations, v \in VenueIds, now \in Times :
          AcknowledgeUnknown(c, v, now) /\ session' = "Uncertain"
     \/ \E c \in Correlations, v \in VenueIds :
          AcknowledgeActive(c, v) /\ UNCHANGED session
     \/ \E halt \in BOOLEAN : SetHalted(halt) /\ UNCHANGED session
     \/ SubmitStep /\ UNCHANGED session
  /\ UNCHANGED riskVars
  /\ Observe

SessionSpec == SessionInit /\ [][SessionNext]_sessionVars

-----------------------------------------------------------------------------
\* The gateway is Ready only while the session was last reported ready: clearing
\* a halt with set_halted(false) does not make up a session that was not there.
ReadyNeedsSession == gateway = "Ready" => session = "Ready"

=============================================================================
