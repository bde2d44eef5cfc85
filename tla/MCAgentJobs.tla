---------------------------- MODULE MCAgentJobs ----------------------------
(* AgentJobs for TLC.                                                      *)
EXTENDS AgentJobs

CONSTANTS r1, r2, r3

OwnJob == [p \in Callers |-> IF p = Handler THEN MTLS ELSE Telemetry]
============================================================================
