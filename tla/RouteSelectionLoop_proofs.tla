---------------------- MODULE RouteSelectionLoop_proofs ----------------------
(***************************************************************************)
(* Proofs about the loop of selectRouteCandidate, for any set of nodes,    *)
(* lists of any length and all settings.                                   *)
(***************************************************************************)
EXTENDS RouteSelectionLoop, TLAPS

(* The list is one of the lists, and the index is in it or one past it.    *)
Typed ==
  /\ list \in Lists
  /\ i \in 1..(Len(list) + 1)
  /\ fallback \in Node \cup {None}

(* Nothing the loop has left behind would have been returned.              *)
NoneWanted == \A k \in Considered(list) : k < i => ~Wanted(list[k], ui)

(* The fallback is the first node out of backoff, or there was none yet.   *)
FallbackIsFirst ==
  IF fallback = None
  THEN \A k \in DOMAIN list : k < i => list[k].invalid
  ELSE \E m \in DOMAIN list \ InBackoff(list) :
         /\ m < i /\ fallback = list[m].id
         /\ \A k \in DOMAIN list \ InBackoff(list) : m <= k

(* The inductive invariant. *)
IInv ==
  /\ Typed
  /\ ~Returned => NoneWanted /\ FallbackIsFirst
  /\ LoopIsRouteChoice /\ PolicyHonoured
-----------------------------------------------------------------------------
(* What a list is. *)
LEMMA ListFacts ==
  ASSUME NEW l \in Lists
  PROVE  /\ Len(l) \in Nat /\ DOMAIN l = 1..Len(l)
         /\ \A k \in DOMAIN l : l[k] \in Entry
         /\ DistinctIds(l)
<1>1. PICK n \in 0..MaxLen : l \in [1..n -> Entry]
  BY DEF Lists
<1>2. l \in Seq(Entry) /\ Len(l) = n
  BY <1>1, LoopAssumption
<1>3. QED
  BY <1>1, <1>2 DEF Lists

(* The index is considered exactly if the code's two conditions let it.    *)
LEMMA ConsiderMeans ==
  ASSUME Typed, FallbackIsFirst, i <= Len(list)
  PROVE  i \in Considered(list) <=>
           ~list[i].invalid /\ (list[i].available \/ fallback = None)
<1> DEFINE out == DOMAIN list \ InBackoff(list)
<1>1. /\ Len(list) \in Nat /\ DOMAIN list = 1..Len(list) /\ i \in DOMAIN list
      /\ \A k \in DOMAIN list : list[k] \in Entry
  BY ListFacts DEF Typed
<1>2. i \in out <=> ~list[i].invalid
  BY <1>1 DEF InBackoff
<1>3. CASE fallback = None
  <2>1. \A k \in out : i <= k
    BY <1>1, <1>3 DEF FallbackIsFirst, InBackoff
  <2>2. QED
    BY <1>2, <1>3, <2>1 DEF Considered
<1>4. CASE fallback # None
  <2>1. PICK m \in out : m < i
    BY <1>4 DEF FallbackIsFirst
  <2>2. ~(i <= m)
    BY <1>1, <2>1
  <2>3. QED
    BY <1>2, <1>4, <2>1, <2>2 DEF Considered
<1>5. QED
  BY <1>3, <1>4

(* The choice of RouteChoice is the least of what it may choose from.      *)
LEMMA ChoiceIsLeast ==
  ASSUME NEW pool \in SUBSET Nat, NEW m \in pool, \A k \in pool : m <= k
  PROVE  (CHOOSE k \in pool : \A j \in pool : k <= j) = m
<1>1. \A k \in pool : (\A j \in pool : k <= j) => k = m
  OBVIOUS
<1>2. QED
  BY <1>1

(* The policy kept by the return of node n out of list l under routing u.  *)
Kept(l, u, n) ==
  LET e == CHOOSE x \in { l[k] : k \in DOMAIN l } : x.id = n
  IN  /\ ~e.invalid
      /\ u.mode = "fixed_ip" => n = u.fixed
      /\ u.mode = "fixed_region" => CountryOf[n] = u.country
      /\ (u.mode = "auto" /\ ~e.available) =>
           \A k \in DOMAIN l : l[k].invalid \/ ~l[k].available

LEMMA PolicyMeans == PolicyHonoured <=> (Returned /\ result # None => Kept(list, ui, result))
BY DEF PolicyHonoured, Kept, EntryOf

LEMMA PolicyMeansNext ==
  PolicyHonoured' <=> (Returned' /\ result' # None => Kept(list', ui', result'))
BY DEF PolicyHonoured, Kept, EntryOf

(* An id of the list leads back to its entry.                              *)
LEMMA EntryOfId ==
  ASSUME list \in Lists, NEW m \in DOMAIN list
  PROVE  EntryOf(list[m].id) = list[m]
<1>1. \A e \in { list[k] : k \in DOMAIN list } : e.id = list[m].id => e = list[m]
  BY ListFacts DEF DistinctIds
<1>2. list[m] \in { list[k] : k \in DOMAIN list }
  OBVIOUS
<1>3. QED
  BY <1>1, <1>2 DEF EntryOf
-----------------------------------------------------------------------------
LEMMA InitInv == Init => IInv
<1> SUFFICES ASSUME Init PROVE IInv
  OBVIOUS
<1>1. Len(list) \in Nat /\ DOMAIN list = 1..Len(list)
  BY ListFacts DEF Init
<1>2. Typed
  BY <1>1 DEF Init, Typed
<1>3. NoneWanted /\ FallbackIsFirst
  BY <1>1 DEF Init, NoneWanted, FallbackIsFirst, Considered, InBackoff
<1>4. ~Returned
  BY DEF Init, Returned
<1>5. QED
  BY <1>2, <1>3, <1>4 DEF IInv, LoopIsRouteChoice, PolicyHonoured

(* An iteration that goes on: the node is not what RouteChoice returns.    *)
LEMMA GoesOn ==
  ASSUME IInv, Skip \/ Miss
  PROVE  IInv'
<1>1. Typed /\ NoneWanted /\ FallbackIsFirst /\ ~Returned /\ i <= Len(list)
  BY DEF IInv, Skip, Miss, Consider, InLoop, Returned
<1>2. /\ Len(list) \in Nat /\ DOMAIN list = 1..Len(list) /\ i \in DOMAIN list
      /\ \A k \in DOMAIN list : list[k] \in Entry
  BY <1>1, ListFacts DEF Typed
<1>3. list' = list /\ ui' = ui /\ i' = i + 1 /\ result' = result
  BY DEF Skip, Miss
<1>4. Considered(list)' = Considered(list) /\ InBackoff(list)' = InBackoff(list)
  BY <1>3 DEF Considered, InBackoff
<1>5. Typed'
  BY <1>1, <1>2, <1>3 DEF Skip, Miss, Typed, Entry
<1>6. NoneWanted'
  <2>1. SUFFICES ASSUME NEW k \in Considered(list), k < i + 1
                 PROVE  ~Wanted(list[k], ui)
    BY <1>3, <1>4 DEF NoneWanted, Wanted
  <2>2. CASE k < i
    BY <1>1, <2>2 DEF NoneWanted
  <2>3. CASE k = i
    BY <1>1, <2>3, ConsiderMeans DEF Skip, Miss
  <2>4. k \in DOMAIN list
    BY DEF Considered
  <2>5. QED
    BY <1>2, <2>1, <2>2, <2>3, <2>4 DEF Typed
<1>7. FallbackIsFirst'
  <2>1. CASE Skip
    <3>1. CASE fallback = None
      BY <1>1, <1>2, <1>3, <2>1, <3>1 DEF Skip, FallbackIsFirst
    <3>2. CASE fallback # None
      <4>1. PICK m \in DOMAIN list \ InBackoff(list) :
              /\ m < i /\ fallback = list[m].id
              /\ \A k \in DOMAIN list \ InBackoff(list) : m <= k
        BY <1>1, <3>2 DEF FallbackIsFirst
      <4>2. m < i + 1
        BY <1>2, <4>1
      <4>3. QED
        BY <1>3, <1>4, <2>1, <3>2, <4>1, <4>2 DEF Skip, FallbackIsFirst
    <3>3. QED
      BY <3>1, <3>2
  <2>2. CASE Miss
    <3>1. ~list[i].invalid /\ i \in DOMAIN list \ InBackoff(list)
      BY <1>2, <2>2 DEF Miss, Consider, InBackoff
    <3>2. CASE fallback = None
      <4>1. fallback' = list[i].id /\ fallback' # None
        BY <1>2, <2>2, <3>2, NodesAssumption DEF Miss, Entry
      <4>2. \A k \in DOMAIN list \ InBackoff(list) : i <= k
        BY <1>1, <1>2, <3>2 DEF FallbackIsFirst, InBackoff
      <4>3. i < i + 1
        BY <1>2
      <4>4. QED
        BY <1>3, <1>4, <3>1, <4>1, <4>2, <4>3 DEF FallbackIsFirst
    <3>3. CASE fallback # None
      <4>1. PICK m \in DOMAIN list \ InBackoff(list) :
              /\ m < i /\ fallback = list[m].id
              /\ \A k \in DOMAIN list \ InBackoff(list) : m <= k
        BY <1>1, <3>3 DEF FallbackIsFirst
      <4>2. m < i + 1
        BY <1>2, <4>1
      <4>3. QED
        BY <1>3, <1>4, <2>2, <3>3, <4>1, <4>2 DEF Miss, FallbackIsFirst
    <3>4. QED
      BY <3>2, <3>3
  <2>3. QED
    BY <2>1, <2>2
<1>8. ~Returned'
  BY <1>1, <1>3 DEF Returned
<1>9. QED
  BY <1>5, <1>6, <1>7, <1>8 DEF IInv, LoopIsRouteChoice, PolicyHonoured

(* A return from within the loop: the first wanted node.                   *)
LEMMA HitIsRight ==
  ASSUME IInv, Hit
  PROVE  IInv'
<1> DEFINE hits == { k \in Considered(list) : Wanted(list[k], ui) }
<1>1. Typed /\ NoneWanted /\ FallbackIsFirst /\ i <= Len(list)
  BY DEF IInv, Hit, Consider, InLoop, Returned
<1>2. /\ Len(list) \in Nat /\ DOMAIN list = 1..Len(list) /\ i \in DOMAIN list
      /\ \A k \in DOMAIN list : list[k] \in Entry
  BY <1>1, ListFacts DEF Typed
<1>3. /\ list' = list /\ ui' = ui /\ i' = i /\ fallback' = fallback
      /\ result' = list[i].id /\ Wanted(list[i], ui) /\ ~list[i].invalid
  BY DEF Hit, Consider
<1>4. i \in hits
  BY <1>1, <1>3, ConsiderMeans DEF Hit, Consider
<1>5. hits \in SUBSET Nat /\ \A k \in hits : i <= k
  <2>1. hits \subseteq DOMAIN list
    BY DEF Considered
  <2>2. QED
    BY <1>1, <1>2, <2>1 DEF NoneWanted
<1>6. RouteChoice(list, ui) = list[i].id
  <2>1. (CHOOSE k \in hits : \A j \in hits : k <= j) = i
    BY <1>4, <1>5, ChoiceIsLeast
  <2>2. QED
    BY <1>4, <2>1 DEF RouteChoice
<1>7. LoopIsRouteChoice'
  BY <1>3, <1>6 DEF LoopIsRouteChoice
<1>8. PolicyHonoured'
  <2>1. EntryOf(list[i].id) = list[i]
    BY <1>1, <1>2, EntryOfId DEF Typed
  <2>2. /\ ui.mode = "fixed_ip" => list[i].id = ui.fixed
        /\ ui.mode = "fixed_region" => CountryOf[list[i].id] = ui.country
        /\ ui.mode = "auto" => list[i].available
    BY <1>3 DEF Wanted
  <2>3. Kept(list, ui, list[i].id)
    BY <1>3, <2>1, <2>2 DEF Kept, EntryOf
  <2>4. QED
    BY <1>3, <2>3, PolicyMeansNext
<1>9. Typed' /\ Returned'
  BY <1>1, <1>2, <1>3, LoopAssumption DEF Typed, Returned, Entry
<1>10. QED
  BY <1>7, <1>8, <1>9 DEF IInv

(* The end of the loop: nobody was wanted.                                 *)
LEMMA FinishIsRight ==
  ASSUME IInv, Finish
  PROVE  IInv'
<1> DEFINE hits == { k \in Considered(list) : Wanted(list[k], ui) }
           out == DOMAIN list \ InBackoff(list)
<1>1. Typed /\ NoneWanted /\ FallbackIsFirst /\ i > Len(list)
  BY DEF IInv, Finish, Returned
<1>2. /\ Len(list) \in Nat /\ DOMAIN list = 1..Len(list)
      /\ \A k \in DOMAIN list : list[k] \in Entry
  BY <1>1, ListFacts DEF Typed
<1>3. /\ list' = list /\ ui' = ui /\ i' = i /\ fallback' = fallback
      /\ result' = IF ui.mode = "auto" THEN fallback ELSE None
  BY DEF Finish
<1>4. hits = {}
  <2>1. \A k \in DOMAIN list : k < i
    BY <1>1, <1>2 DEF Typed
  <2>2. QED
    BY <1>1, <2>1 DEF NoneWanted, Considered
<1>5. Typed' /\ Returned'
  BY <1>1, <1>3, LoopAssumption DEF Typed, Returned
<1>6. CASE ui.mode # "auto" \/ fallback = None
  <2>1. result' = None
    BY <1>3, <1>6
  <2>2. RouteChoice(list, ui) = None
    <3>1. fallback = None => Considered(list) = {}
      <4>1. \A k \in DOMAIN list : k < i
        BY <1>1, <1>2 DEF Typed
      <4>2. QED
        BY <1>1, <4>1 DEF FallbackIsFirst, Considered, InBackoff
    <3>2. QED
      BY <1>4, <1>6, <3>1 DEF RouteChoice
  <2>3. LoopIsRouteChoice'
    BY <1>3, <2>1, <2>2 DEF LoopIsRouteChoice
  <2>4. PolicyHonoured'
    BY <2>1 DEF PolicyHonoured
  <2>5. QED
    BY <1>5, <2>3, <2>4 DEF IInv
<1>7. CASE ui.mode = "auto" /\ fallback # None
  <2>1. PICK m \in out : /\ fallback = list[m].id
                         /\ \A k \in out : m <= k
    BY <1>1, <1>7 DEF FallbackIsFirst
  <2>2. m \in Considered(list) /\ Considered(list) \subseteq out /\ out \subseteq Nat
    BY <1>2, <2>1 DEF Considered
  <2>3. (CHOOSE k \in Considered(list) : \A j \in Considered(list) : k <= j) = m
    <3>1. Considered(list) \in SUBSET Nat /\ \A k \in Considered(list) : m <= k
      BY <2>1, <2>2
    <3>2. QED
      BY <2>2, <3>1, ChoiceIsLeast
  <2>4. RouteChoice(list, ui) = list[m].id
    BY <1>4, <1>7, <2>2, <2>3 DEF RouteChoice
  <2>5. LoopIsRouteChoice'
    BY <1>3, <1>7, <2>1, <2>4 DEF LoopIsRouteChoice
  <2>6. EntryOf(list[m].id) = list[m]
    BY <1>1, EntryOfId DEF Typed
  <2>7. \A k \in DOMAIN list : list[k].invalid \/ ~list[k].available
    <3>1. ASSUME NEW k \in out, list[k].available
          PROVE  FALSE
      <4>1. k \in Considered(list) /\ Wanted(list[k], ui)
        BY <1>7, <3>1 DEF Considered, Wanted
      <4>2. QED
        BY <1>4, <4>1
    <3>2. QED
      BY <3>1 DEF InBackoff
  <2>8. ~list[m].invalid
    BY DEF InBackoff
  <2>9. PolicyHonoured'
    <3>1. Kept(list, ui, list[m].id)
      BY <1>7, <2>6, <2>7, <2>8 DEF Kept, EntryOf
    <3>2. QED
      BY <1>3, <1>7, <2>1, <3>1, PolicyMeansNext
  <2>10. QED
    BY <1>5, <2>5, <2>9 DEF IInv
<1>8. QED
  BY <1>6, <1>7
-----------------------------------------------------------------------------
(* The invariant holds of every pass over every list.                      *)
THEOREM Invariance == Spec => []IInv
<1>1. IInv /\ [Next]_vars => IInv'
  <2> SUFFICES ASSUME IInv, [Next]_vars PROVE IInv'
    OBVIOUS
  <2>1. CASE UNCHANGED vars
    <3>1. Typed' /\ (~Returned' => NoneWanted' /\ FallbackIsFirst')
      BY <2>1 DEF vars, IInv, Typed, Returned, NoneWanted, FallbackIsFirst
    <3>2. LoopIsRouteChoice'
      BY <2>1 DEF vars, IInv, Returned, LoopIsRouteChoice
    <3>3. PolicyHonoured'
      BY <2>1, PolicyMeans, PolicyMeansNext DEF vars, IInv, Returned
    <3>4. QED
      BY <3>1, <3>2, <3>3 DEF IInv
  <2>2. QED
    BY <2>1, GoesOn, HitIsRight, FinishIsRight DEF Next, Done
<1>2. QED
  BY <1>1, InitInv, PTL DEF Spec

(* Theorem: selectRouteCandidate's loop with its remembered fallback and   *)
(* its shortcut for unavailable nodes returns the first wanted node out of *)
(* backoff, and in auto mode for want of one the first out of backoff.     *)
THEOREM LoopCorrect == Spec => []LoopIsRouteChoice
<1>1. IInv => LoopIsRouteChoice
  BY DEF IInv
<1>2. QED
  BY <1>1, Invariance, PTL

(* Theorem: its result keeps the routing policy, whatever the list's order.*)
THEOREM PolicyKept == Spec => []PolicyHonoured
<1>1. IInv => PolicyHonoured
  BY DEF IInv
<1>2. QED
  BY <1>1, Invariance, PTL
=============================================================================
