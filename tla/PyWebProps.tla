----------------------------- MODULE PyWebProps -----------------------------
(* What is claimed of the web interface's settings and restarts (PyWeb). *)
EXTENDS PyWeb

(* Every variable holds what it is declared for. *)
TypeOK ==
  /\ file \in Config \cup {Torn}
  /\ up \in BOOLEAN /\ timer \in BOOLEAN /\ hungUp \in BOOLEAN
  /\ running \in { a.ports : a \in Address }
  /\ lock \in Client \cup {Nobody} /\ writer \in Client \cup {Nobody}
  /\ sessions \in SUBSET Client
  /\ page \in [Client -> Page] /\ at \in [Client -> Address]
  /\ pc \in [Client -> Label] /\ asked \in [Client -> Ask] /\ copy \in [Client -> Config]

(* Whoever loads the file finds all of it, and does not replace it by one  *)
(* with new credentials: it is half written only inside a write, or after  *)
(* another request's restart has killed the process in one.                *)
FileIsWhole == file = Torn => ~up \/ lock # Nobody

(* Requests write back copies of different ages, so the file's ports may   *)
(* change under a restart that is under way, or back again.  Whatever the  *)
(* order, the process never goes on with other ports than the file's       *)
(* without a restart to come, except that the client that asked has gone.  *)
RestartFollowsPorts ==
  up /\ lock = Nobody /\ Loaded.address.ports # running =>
    timer \/ hungUp \/ \E c \in Client : pc[c] \in {"answer", "restart"}

(* A page that waits to be redirected goes to the address in the file,     *)
(* across the restart, unless somebody else has written the file since.    *)
RedirectIsRight ==
  \A c \in Client : page[c] = "moving" /\ writer = c => file # Torn /\ file.address = at[c]

(* And the restart comes: the ports in the file are served in the end.     *)
PortsCatchUp ==
  (up /\ Loaded.address.ports # running) ~> (up /\ Loaded.address.ports = running) \/ hungUp
=============================================================================
