--------------------------- MODULE RouteSelection ---------------------------
(***************************************************************************)
(* Routing policy and the choice of the node to connect to                 *)
(* (selectRouteCandidate, internal/app/app.go).                            *)
(***************************************************************************)
EXTENDS VPNNodes

CONSTANT Mode   \* the routing modes this instance uses

ASSUME ModeAssumption == Mode \subseteq {"auto", "fixed_ip", "fixed_region"}

(* The part of state.UIConfig that routing reads. *)
Routing == [mode: Mode, fixed: Node \cup {None}, country: Country \cup {None}]

(* A node the policy returns as soon as the loop considers it. *)
Wanted(e, ui) ==
  CASE ui.mode = "fixed_ip"     -> e.id = ui.fixed
    [] ui.mode = "fixed_region" -> CountryOf[e.id] = ui.country
    [] OTHER                    -> e.available

InBackoff(list) == { i \in DOMAIN list : list[i].invalid }

(* The loop remembers the first node out of backoff as its fallback; after *)
(* that it looks only at available nodes.                                  *)
Considered(list) ==
  LET out == DOMAIN list \ InBackoff(list)
  IN  { i \in out : list[i].available \/ \A j \in out : i <= j }

(* The node selectRouteCandidate returns, None if it returns false. *)
RouteChoice(list, ui) ==
  LET hits == { i \in Considered(list) : Wanted(list[i], ui) }
      pool == IF hits # {} THEN hits
              ELSE IF ui.mode = "auto" THEN Considered(list) ELSE {}
  IN  IF pool = {} THEN None
      ELSE list[CHOOSE i \in pool : \A j \in pool : i <= j].id
=============================================================================
