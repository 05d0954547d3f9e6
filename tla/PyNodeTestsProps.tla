-------------------------- MODULE PyNodeTestsProps --------------------------
(* What is claimed of concurrent node tests (PyNodeTests). *)
EXTENDS PyNodeTests

(* Every variable holds what it is declared for. *)
TypeOK ==
  /\ nodes \in [Node -> Status]
  /\ file \in SUBSET Node
  /\ reserved \in SUBSET Devices
  /\ cache \in SUBSET Node
  /\ old \in SUBSET cache
  /\ pc \in [Worker -> Stages]
  /\ dev \in [Worker -> Devices \cup {None}]
  /\ result \in [Worker -> Result]
  /\ busy \in SUBSET Request
  /\ disturbed \in SUBSET Worker

(* However many tests run and in whatever order they take and give back    *)
(* their devices, two of them never have the same one, except for the last *)
(* one, which get_free_test_index hands out unreserved when none is free.  *)
OnlyLastIsShared == \A v, w \in Running : v # w /\ dev[v] = dev[w] => dev[v] = Last

(* A device is reserved for a test that runs: the pool never shrinks.      *)
NoDeviceLeaks == reserved \subseteq { dev[w] : w \in Running }

(* A good node is reported unavailable only because of an interference     *)
(* with this very test: another actor stopped all OpenVPN processes or     *)
(* removed the node's file, the file could not be written, or the devices  *)
(* had run out.  Tests of different nodes do not disturb each other.       *)
BadResultHasCause ==
  \A w \in Worker :
    pc[w] \in {"run", "unlink"} /\ result[w] = "unavailable" /\ w[2] \in Good => w \in disturbed

(* Tests that query the address service at once each save the cache: no    *)
(* address that has been saved is lost by another one's save.              *)
CacheNeverForgets == [][cache \subseteq cache']_vars
=============================================================================
