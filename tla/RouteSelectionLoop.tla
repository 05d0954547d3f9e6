------------------------- MODULE RouteSelectionLoop -------------------------
(***************************************************************************)
(* The loop of selectRouteCandidate (internal/app/app.go), one iteration a *)
(* step, over every list and every setting, against RouteChoice, which     *)
(* says in one expression what the loop computes, and against the routing  *)
(* policy.  a.mu is held throughout, so the list and the settings stand    *)
(* still.                                                                  *)
(***************************************************************************)
EXTENDS RouteSelection

CONSTANT MaxLen   \* bound on the length of the list

VARIABLES
  list, ui,    \* a.nodes and a.ui
  i,           \* the next index
  fallback,    \* the fallback node or None
  result       \* "open" in the loop, then the returned node or None

vars == <<list, ui, i, fallback, result>>

Open == "open"

(* The code returns a node and a flag; an open result is neither.          *)
ASSUME LoopAssumption == MaxLen \in Nat /\ Open \notin Node \cup {None}

Lists ==
  { l \in UNION { [1..k -> Entry] : k \in 0..MaxLen } : DistinctIds(l) }

Init ==
  /\ list \in Lists
  /\ ui \in Routing
  /\ i = 1
  /\ fallback = None
  /\ result = Open

InLoop == result = Open /\ i <= Len(list)

(* Faulty variants: backoff is ignored; every mode falls back.             *)
ConsiderAll == InLoop /\ (list[i].available \/ fallback = None)

FinishFallsBack ==
  /\ result = Open /\ i > Len(list)
  /\ result' = fallback
  /\ UNCHANGED <<list, ui, i, fallback>>

(* continue: the node is in backoff, or unavailable and not needed. *)
Skip ==
  /\ InLoop
  /\ list[i].invalid \/ (~list[i].available /\ fallback # None)
  /\ i' = i + 1
  /\ UNCHANGED <<list, ui, fallback, result>>

Consider == InLoop /\ ~list[i].invalid /\ (list[i].available \/ fallback = None)

(* return node, true *)
Hit ==
  /\ Consider
  /\ Wanted(list[i], ui)
  /\ result' = list[i].id
  /\ UNCHANGED <<list, ui, i, fallback>>

(* The first node that is considered and not returned is the fallback. *)
Miss ==
  /\ Consider
  /\ ~Wanted(list[i], ui)
  /\ fallback' = IF fallback = None THEN list[i].id ELSE fallback
  /\ i' = i + 1
  /\ UNCHANGED <<list, ui, result>>

(* After the loop only auto mode uses the fallback. *)
Finish ==
  /\ result = Open
  /\ i > Len(list)
  /\ result' = IF ui.mode = "auto" THEN fallback ELSE None
  /\ UNCHANGED <<list, ui, i, fallback>>

Done == result # Open /\ UNCHANGED vars

Next == Skip \/ Hit \/ Miss \/ Finish \/ Done

Spec == Init /\ [][Next]_vars
-----------------------------------------------------------------------------
Returned == result # Open

EntryOf(n) == CHOOSE e \in { list[k] : k \in DOMAIN list } : e.id = n

(* The loop returns what RouteChoice says, for every list and setting.     *)
LoopIsRouteChoice == Returned => result = RouteChoice(list, ui)

(* Whatever the order of the list: a node in backoff is never chosen, a    *)
(* fixed mode never leaves its node or region, and outside the fixed modes *)
(* an unavailable node is chosen only if no available one is out of        *)
(* backoff.                                                                *)
PolicyHonoured ==
  Returned /\ result # None =>
    LET e == EntryOf(result)
    IN  /\ ~e.invalid
        /\ ui.mode = "fixed_ip" => result = ui.fixed
        /\ ui.mode = "fixed_region" => CountryOf[result] = ui.country
        /\ (ui.mode = "auto" /\ ~e.available) =>
             \A k \in DOMAIN list : list[k].invalid \/ ~list[k].available
=============================================================================
