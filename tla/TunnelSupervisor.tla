-------------------------- MODULE TunnelSupervisor --------------------------
(***************************************************************************)
(* What the Go service promises about OpenVPN processes, without saying    *)
(* which threads do it: at most one process is launched or managed at a    *)
(* time, a process is managed at most once, it is never swapped for        *)
(* another in place, and one that was given up on ends.                    *)
(***************************************************************************)
CONSTANTS Proc, None

VARIABLES
  managed,    \* the process that carries the tunnel, or None
  launching,  \* a process started and not yet managed, or None
  condemned   \* the processes that have been told to end

vars == <<managed, launching, condemned>>

Init == managed = None /\ launching = None /\ condemned = {}

Launch(p) ==
  /\ managed = None
  /\ launching = None
  /\ p \notin condemned
  /\ launching' = p
  /\ UNCHANGED <<managed, condemned>>

Adopt ==
  /\ launching # None
  /\ managed' = launching
  /\ launching' = None
  /\ UNCHANGED condemned

(* The tunnel is given up. *)
Retire ==
  /\ managed # None
  /\ managed' = None
  /\ condemned' = condemned \cup {managed}
  /\ UNCHANGED launching

(* The tunnel breaks down by itself. *)
Lose ==
  /\ managed # None
  /\ managed' = None
  /\ UNCHANGED <<launching, condemned>>

Die(p) ==
  /\ p \in condemned
  /\ condemned' = condemned \ {p}
  /\ UNCHANGED <<managed, launching>>

Next ==
  \/ \E p \in Proc : Launch(p) \/ Die(p)
  \/ Adopt \/ Retire \/ Lose

Fairness == WF_vars(Adopt) /\ \A p \in Proc : WF_vars(Die(p))

Spec == Init /\ [][Next]_vars

FairSpec == Spec /\ Fairness
=============================================================================
