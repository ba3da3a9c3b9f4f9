------------------------- MODULE MCGateAuthority -------------------------
(* Instances of GateAuthority for TLC. *)
EXTENDS GateAuthority, TLC

CONSTANTS s1, s2, d1, w1, manager, k1

V(decision, by, role) == [decision |-> decision, by |-> by, role |-> role, evid |-> FALSE]

\* named_gate_policy("manager-decides-leaf-gates")
ManagerDecidesLeafGates == [k \in Kinds |-> [role |-> manager, verdict |-> FALSE]]

\* The same with the handover delegated too, and apply_seam_verdict_requirement
SeamNeedsEvidence == [k \in Kinds |-> [role |-> manager, verdict |-> k \in SeamKinds]]

PeerVerdicts == {V("approve", "peer", manager)}

MixedVerdicts ==
    {V("approve", "developer", NoRole), V("cancel", "developer", NoRole)} \cup PeerVerdicts
    \cup {[V("approve", "owner", manager) EXCEPT !.evid = TRUE]}

\* The sessions of the MCP process, where they are interchangeable.
SessionSymmetry == Permutations({s1, s2})

\* The retention window is days and an operation takes seconds, unless it waits
\* for a decision: no window passes between its stamp and its last step.
WithinRetention ==
    \A a \in InFlight : op[a].step = "wait" \/ op[a].now = 0 \/ horizon <= op[a].now
=============================================================================
