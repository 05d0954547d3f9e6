--------------------------- MODULE PyManagerClaims ---------------------------
(* What README.md says of the fixed_ip mode, as a claim about PyManager. *)
EXTENDS PyManager

\* The loop of the collector goes on, and no thread is starved.
ClaimSpec ==
  /\ Spec
  /\ \A t \in Thread : SF_vars(Work(t))
  /\ WF_vars(\E t \in Thread : MaintainTick(t))
  /\ WF_vars(\E t \in Thread : ReconnectBg(t))

Attempting == \E t \in Thread : pc[t] \in {"c_read", "c_spawn", "c_wait", "c_said"}

(* README.md:124 says that fixed_ip mode always stays locked to the one    *)
(* node.  Once it has been connected, and nobody disconnects it, the node  *)
(* is connected or is tried again and again.  It is not: the maintenance   *)
(* that notices the lost tunnel clears active_openvpn_node_id before       *)
(* auto_switch_node asks which node to reconnect, and so does a connect    *)
(* that fails.                                                             *)
FixedNodeStaysLocked ==
  [](mode = "fixed_ip") => [](Running => []<>(Running \/ Attempting))
=============================================================================
