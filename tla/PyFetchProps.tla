---------------------------- MODULE PyFetchProps ----------------------------
(* What is claimed of a round of fetch_candidates (PyFetch). *)
EXTENDS PyFetch

(* Every variable holds what it is declared for. *)
TypeOK ==
  /\ net \in Networks /\ text \in Texts /\ setting \in Settings
  /\ cached \in BOOLEAN
  /\ pc \in Labels
  /\ target \in 1..Len(Targets) /\ attempt \in 1..2
  /\ rows \in Seq(Row) /\ next \in 1..(Len(rows) + 1)
  /\ got \in Seq(Ip)
  /\ resolved \in BOOLEAN
  /\ code \in Codes
  /\ named \in BOOLEAN /\ steady \in BOOLEAN

\* The list has a usable row, and none before it makes the loop raise.
Yields ==
  \E i \in DOMAIN text :
    i <= MaxRows /\ text[i].kind = "node" /\ \A j \in 1..(i - 1) : text[j].kind # "bad"

Diagnosing == pc \in {"d_others", "d_domain", "d_api", "d_out", "failed"}

(* In a round during which nothing changes, an error means that no way     *)
(* whatever led to a usable list: not HTTPS, not HTTPS without the         *)
(* certificate, not HTTP, neither through the proxy nor without it.  There *)
(* are two exceptions: a variable with a port that is no number raises     *)
(* before any way is tried, and a proxy that closes early is believed.     *)
NoFalseAlarm ==
  Diagnosing /\ steady /\ Upstream # "raises" /\ ~Cut /\ Yields =>
    \A tls, verify \in BOOLEAN :
      LET t == [tls |-> tls, verify |-> verify]
      IN ~Direct(t) /\ ~(Upstream = "proxy" /\ ViaProxy(t))

(* ... and the four codes that name a broken name service, a blocked name, *)
(* a blocked server and an offline host name what is the case.             *)
DiagnosisMatches ==
  pc = "failed" /\ steady =>
    /\ code = 1006 => ~net.domain /\ ~net.resolver
    /\ code = 1007 => ~net.domain /\ net.resolver
    /\ code = 1008 => net.domain /\ ~net.api /\ net.internet
    /\ code = 1009 => net.domain /\ ~net.api /\ ~net.internet

(* Candidates pile up over attempts that raise half way and over targets   *)
(* that answer with different lists.  An address is never there twice, and *)
(* a round that succeeds while nothing changes has exactly the list's      *)
(* usable addresses, unless a row makes the loop raise or the proxy closes *)
(* half way.                                                               *)
WholeListTaken ==
  LET listed == { text[i] : i \in { j \in DOMAIN text : j <= MaxRows } }
  IN /\ \A i, j \in DOMAIN got : got[i] = got[j] => i = j
     /\ pc = "ok" /\ steady /\ ~Cut /\ (\A row \in listed : row.kind # "bad") =>
          ToSet(got) = { row.ip : row \in { r \in listed : r.kind = "node" } }
=============================================================================
