----------------------------- MODULE MCPtraceRun -----------------------------
(* An instance of PtraceRun for TLC. *)
EXTENDS PtraceRun

MCCallers == {"loop", "g1", "g2"}
MCOutcomes == {"nil", "ESRCH"}
=============================================================================
