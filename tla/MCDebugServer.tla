---------------------------- MODULE MCDebugServer ----------------------------
(* Instances of DebugServer for TLC. *)
EXTENDS DebugServerInv, TLC

MCAddrs == {10, 20}
MCBadAddr == 99

Call(op) == [op |-> op, pcs |-> {}]
Break(pcs) == [op |-> "break", pcs |-> pcs]
Delete(pcs) == [op |-> "delete", pcs |-> pcs]

Control == {Call("run"), Call("resume")}

MCThreadRequests == Control \cup
  {Call("frames"), Break({10}), Delete({10})}

MCServedRequests == Control \cup {Break({10}), Break({20, MCBadAddr}), Delete({10})}

ClientSymmetry == Permutations(Clients)
=============================================================================
