--------------------------- MODULE PyFetch_proofs ---------------------------
(***************************************************************************)
(* Proofs about rounds of fetch_candidates, for lists of any length, any   *)
(* settings, networks and bound on the rows.                               *)
(***************************************************************************)
EXTENDS PyFetchProps, SequenceTheorems, TLAPS

AtRest == pc = "idle" => target = 1 /\ attempt = 1 /\ got = <<>>

(* What the probes of a round without changes have seen so far. *)
Diagnosed ==
  steady =>
    /\ pc = "d_domain" => (resolved <=> net.resolver)
    /\ pc \in {"d_api", "d_out"} => net.domain
    /\ pc = "d_out" => ~net.api

(* In a round without changes in which a usable list is there: every target*)
(* passed has failed to download, since a download yields a candidate.     *)
Clear == steady /\ Upstream # "raises" /\ ~Cut /\ Yields

Ladder ==
  Clear =>
    /\ pc \in {"try", "rows"} => \A k \in 1..(target - 1) : ~Downloads(Targets[k])
    /\ Diagnosing => \A k \in 1..3 : ~Downloads(Targets[k])
    /\ pc = "rows" /\ got = <<>> =>
         rows = Scanned(text) /\ \A j \in 1..(next - 1) : rows[j].kind = "empty"

(* In a round without changes and with no row that raises: the candidates  *)
(* are the usable rows passed.                                             *)
NoBad == \A i \in DOMAIN text : i <= MaxRows => text[i].kind # "bad"
Passed(list, n) == { list[j].ip : j \in { k \in DOMAIN list : k < n /\ list[k].kind = "node" } }

Taken ==
  steady /\ ~Cut /\ NoBad =>
    /\ pc = "try" => got = <<>>
    /\ pc = "rows" => rows = Scanned(text) /\ ToSet(got) = Passed(rows, next)
    /\ pc = "ok" => ToSet(got) = Passed(text, MaxRows + 1)

Distinct == \A i, j \in DOMAIN got : got[i] = got[j] => i = j

(* The inductive invariant. *)
IInv ==
  /\ TypeOK /\ AtRest /\ Diagnosed /\ DiagnosisMatches /\ Ladder /\ Taken /\ Distinct
-----------------------------------------------------------------------------
LEMMA TargetsAre ==
  /\ Len(Targets) = 3
  /\ Targets[1] = [tls |-> TRUE, verify |-> TRUE]
  /\ Targets[2] = [tls |-> TRUE, verify |-> FALSE]
  /\ Targets[3] = [tls |-> FALSE, verify |-> TRUE]
BY DEF Targets

LEMMA AttemptsAre == Attempts \in 1..2
BY DEF Attempts

LEMMA ScannedIs ==
  ASSUME NEW list \in Seq(Row)
  PROVE  /\ Scanned(list) \in Seq(Row)
         /\ DOMAIN Scanned(list) = { i \in DOMAIN list : i <= MaxRows }
         /\ \A i \in DOMAIN Scanned(list) : Scanned(list)[i] = list[i]
<1> DEFINE n == IF Len(list) > MaxRows THEN MaxRows ELSE Len(list)
<1>1. Len(list) \in Nat /\ MaxRows \in Nat /\ n \in 0..Len(list) /\ DOMAIN list = 1..Len(list)
  BY RowsAssumption, LenProperties
<1>2. \A i \in 1..n : list[i] \in Row
  BY <1>1
<1>3. /\ SubSeq(list, 1, n) \in Seq(Row) /\ DOMAIN SubSeq(list, 1, n) = 1..n
      /\ \A i \in 1..n : SubSeq(list, 1, n)[i] = list[i]
  BY <1>1, <1>2, SubSeqProperties
<1>4. 1..n = { i \in DOMAIN list : i <= MaxRows }
  BY <1>1
<1>5. QED
  BY <1>3, <1>4 DEF Scanned

(* What comes of a download is a list of rows, and the scanned text unless *)
(* the proxy closes half way.                                              *)
LEMMA ReceivedIs ==
  ASSUME TypeOK, NEW received \in Received
  PROVE  received \in Seq(Row) /\ (~Cut => received = text)
<1>1. text \in Seq(Row)
  BY TextsAssumption DEF TypeOK
<1>2. CASE ~Cut
  BY <1>1, <1>2 DEF Received
<1>3. CASE Cut
  <2>1. PICK k \in 0..Len(text) : received = SubSeq(text, 1, k)
    BY <1>3 DEF Received
  <2>2. \A i \in 1..k : text[i] \in Row
    BY <1>1
  <2>3. QED
    BY <1>1, <1>3, <2>1, <2>2, SubSeqProperties
<1>4. QED
  BY <1>2, <1>3

(* What is said of the network, the list and the settings changes only     *)
(* with them.                                                              *)
LEMMA Frozen ==
  ASSUME UNCHANGED world
  PROVE  /\ net' = net /\ text' = text /\ setting' = setting
         /\ Upstream' = Upstream /\ (Cut' <=> Cut) /\ (Yields' <=> Yields) /\ (NoBad' <=> NoBad)
         /\ \A k \in 1..3 : Downloads(Targets[k])' <=> Downloads(Targets[k])
<1>1. net' = net /\ text' = text /\ setting' = setting
  BY DEF world
<1>2. Upstream' = Upstream
  BY <1>1 DEF Upstream
<1>3. (Cut' <=> Cut) /\ (Yields' <=> Yields) /\ (NoBad' <=> NoBad)
  BY <1>1, <1>2 DEF Cut, Yields, NoBad
<1>4. \A k \in 1..3 : Downloads(Targets[k])' <=> Downloads(Targets[k])
  BY <1>1, <1>2 DEF Downloads, ViaProxy, Direct, Handshake
<1>5. QED
  BY <1>1, <1>2, <1>3, <1>4
-----------------------------------------------------------------------------
(* An attempt that does not end the fetch. *)
LEMMA AfterType ==
  ASSUME TypeOK, After
  PROVE  /\ pc' \in {"try", "ok", "d_others"} /\ rows' = <<>> /\ next' = 1
         /\ target' \in 1..3 /\ attempt' \in 1..2
         /\ pc' = "ok" => got # <<>>
         /\ pc' = "d_others" => got = <<>> /\ target = 3
         /\ pc' = "try" => target' = target \/ (got = <<>> /\ target' = target + 1)
<1>1. target \in 1..3 /\ attempt \in 1..2
  BY TargetsAre DEF TypeOK
<1>2. CASE attempt < Attempts
  <2>1. pc' = "try" /\ attempt' = attempt + 1 /\ target' = target
    BY <1>2 DEF After
  <2>2. QED
    BY <1>1, <1>2, <2>1, AttemptsAre DEF After
<1>3. CASE ~(attempt < Attempts) /\ got # <<>>
  BY <1>1, <1>3 DEF After
<1>4. CASE ~(attempt < Attempts) /\ got = <<>> /\ target < 3
  BY <1>1, <1>4, TargetsAre DEF After
<1>5. CASE ~(attempt < Attempts) /\ got = <<>> /\ ~(target < 3)
  BY <1>1, <1>5, TargetsAre DEF After
<1>6. QED
  BY <1>2, <1>3, <1>4, <1>5

(* A row of the download that is in hand. *)
LEMMA RowType ==
  ASSUME TypeOK, AtRow
  PROVE  /\ next \in DOMAIN rows /\ next \in Nat /\ rows[next] \in Row
         /\ DOMAIN rows = 1..Len(rows) /\ Len(rows) \in Nat
BY DEF TypeOK, AtRow

LEMMA TypeStep == TypeOK /\ [Next]_vars => TypeOK'
<1> SUFFICES ASSUME TypeOK, [Next]_vars PROVE TypeOK'
  OBVIOUS
<1>0. Len(Targets) = 3
  BY TargetsAre
<1>1. CASE TryFails \/ RowRaises
  <2>1. After /\ UNCHANGED <<world, cached, got, resolved, code, named, steady>>
    BY <1>1 DEF TryFails, RowRaises
  <2>2. pc' \in Labels
    BY <2>1, AfterType DEF Labels
  <2>3. rows' \in Seq(Row) /\ next' \in 1..(Len(rows') + 1)
    BY <2>1, AfterType
  <2>4. target' \in 1..3 /\ attempt' \in 1..2
    BY <2>1, AfterType
  <2>5. QED
    BY <1>0, <2>1, <2>2, <2>3, <2>4 DEF TypeOK, world
<1>2. CASE RowsEnd
  <2>1. CASE got # <<>>
    BY <1>2, <2>1 DEF RowsEnd, TypeOK, Labels, world
  <2>2. CASE got = <<>>
    <3>1. After /\ UNCHANGED <<world, cached, got, resolved, code, named, steady>>
      BY <1>2, <2>2 DEF RowsEnd
    <3>2. pc' \in Labels
      BY <3>1, AfterType DEF Labels
    <3>3. rows' \in Seq(Row) /\ next' \in 1..(Len(rows') + 1)
      BY <3>1, AfterType
    <3>4. target' \in 1..3 /\ attempt' \in 1..2
      BY <3>1, AfterType
    <3>5. QED
      BY <1>0, <3>1, <3>2, <3>3, <3>4 DEF TypeOK, world
  <2>3. QED
    BY <2>1, <2>2
<1>3. CASE Download
  <2>1. PICK received \in Received : rows' = Scanned(received)
    BY <1>3 DEF Download
  <2>2. rows' \in Seq(Row) /\ next' \in 1..(Len(rows') + 1)
    <3>1. rows' \in Seq(Row)
      BY <2>1, ReceivedIs, ScannedIs
    <3>2. next' = 1 /\ Len(rows') \in Nat
      BY <1>3, <3>1 DEF Download
    <3>3. QED
      BY <3>1, <3>2
  <2>3. QED
    BY <1>3, <2>2 DEF Download, TypeOK, Labels, world
<1>4. CASE SkipRow
  BY <1>4, RowType DEF SkipRow, TypeOK, world
<1>5. CASE TakeRow
  <2>1. rows[next].ip \in Ip
    BY <1>5, RowType DEF TakeRow, Row
  <2>2. got' \in Seq(Ip) /\ next' \in 1..(Len(rows) + 1)
    BY <1>5, <2>1, RowType DEF TakeRow, TypeOK
  <2>3. QED
    BY <1>5, <2>2 DEF TakeRow, TypeOK, world
<1>6. CASE Succeed \/ FixCheck \/ FixRoute \/ FixFile
  <2>1. Return \/ (pc' \in {"f_route", "f_file"} /\ Stay)
    <3>1. Succeed \/ FixFile => Return
      BY DEF Succeed, FixFile
    <3>2. FixCheck => Return \/ (pc' = "f_route" /\ Stay)
      BY DEF FixCheck, GoOn
    <3>3. FixRoute => Return \/ (pc' = "f_file" /\ Stay)
      BY DEF FixRoute, GoOn
    <3>4. QED
      BY <1>6, <3>1, <3>2, <3>3
  <2>2. UNCHANGED <<world, code, steady>> /\ cached' \in BOOLEAN /\ named' \in BOOLEAN
    BY <1>6 DEF Succeed, FixCheck, FixRoute, FixFile, TypeOK
  <2>3. CASE Return
    <3>1. /\ pc' = "idle" /\ target' = 1 /\ attempt' = 1 /\ rows' = <<>> /\ next' = 1
          /\ got' = <<>> /\ resolved' = FALSE
      BY <2>3 DEF Return
    <3>2. rows' \in Seq(Row) /\ next' \in 1..(Len(rows') + 1) /\ got' \in Seq(Ip)
      BY <3>1
    <3>3. target' \in 1..3 /\ attempt' \in 1..2 /\ pc' \in Labels
      BY <3>1 DEF Labels
    <3>4. QED
      BY <1>0, <2>2, <3>1, <3>2, <3>3 DEF TypeOK, world
  <2>4. CASE pc' \in {"f_route", "f_file"} /\ Stay
    BY <2>2, <2>4 DEF Stay, TypeOK, Labels, world
  <2>5. QED
    BY <2>1, <2>3, <2>4
<1>7. CASE Fetch
  BY <1>7 DEF Fetch, GoOn, Stay, TypeOK, Labels, world
<1>8. CASE DiagnoseOthers
  <2>1. resolved' \in BOOLEAN
    <3>1. net \in Network
      BY WorldAssumption DEF TypeOK
    <3>2. QED
      BY <1>8, <3>1 DEF DiagnoseOthers, Network
  <2>2. QED
    BY <1>8, <2>1 DEF DiagnoseOthers, TypeOK, Labels, world
<1>9. CASE DiagnoseDomain \/ DiagnoseApi \/ DiagnoseOut
  <2>1. pc' \in Labels /\ Stay
    BY <1>9 DEF DiagnoseDomain, DiagnoseApi, DiagnoseOut, Report, GoOn, Labels
  <2>2. code' \in Codes
    BY <1>9 DEF DiagnoseDomain, DiagnoseApi, DiagnoseOut, Report, Codes, TypeOK
  <2>3. UNCHANGED <<world, cached, named, steady>>
    BY <1>9 DEF DiagnoseDomain, DiagnoseApi, DiagnoseOut
  <2>4. QED
    BY <2>1, <2>2, <2>3 DEF TypeOK, Stay, world
<1>10. CASE Change \/ UNCHANGED vars
  BY <1>10 DEF Change, TypeOK, vars, place, world
<1>11. QED
  BY <1>1, <1>2, <1>3, <1>4, <1>5, <1>6, <1>7, <1>8, <1>9, <1>10 DEF Next, Step

LEMMA RestStep == TypeOK /\ AtRest /\ [Next]_vars => AtRest'
<1> SUFFICES ASSUME TypeOK, AtRest, [Next]_vars PROVE AtRest'
  OBVIOUS
<1>1. CASE TryFails \/ RowRaises \/ RowsEnd \/ Download \/ SkipRow \/ TakeRow
  <2>1. TryFails \/ RowRaises \/ RowsEnd => pc' # "idle"
    BY AfterType DEF TryFails, RowRaises, RowsEnd
  <2>2. Download \/ SkipRow \/ TakeRow => pc' # "idle"
    BY DEF Download, SkipRow, TakeRow, AtRow
  <2>3. QED
    BY <1>1, <2>1, <2>2 DEF AtRest
<1>2. CASE Succeed \/ FixCheck \/ FixRoute \/ FixFile
  BY <1>2 DEF Succeed, FixCheck, FixRoute, FixFile, GoOn, Return, AtRest
<1>3. CASE Fetch \/ DiagnoseOthers \/ DiagnoseDomain \/ DiagnoseApi \/ DiagnoseOut
  BY <1>3 DEF Fetch, DiagnoseOthers, DiagnoseDomain, DiagnoseApi, DiagnoseOut, Report, GoOn, AtRest
<1>4. CASE Change \/ UNCHANGED vars
  BY <1>4 DEF Change, vars, place, AtRest
<1>5. QED
  BY <1>1, <1>2, <1>3, <1>4 DEF Next, Step

(* The probes of one round see one network, unless it changes. *)
LEMMA DiagnosisStep ==
  TypeOK /\ Diagnosed /\ DiagnosisMatches /\ [Next]_vars => Diagnosed' /\ DiagnosisMatches'
<1> SUFFICES ASSUME TypeOK, Diagnosed, DiagnosisMatches, [Next]_vars
             PROVE  Diagnosed' /\ DiagnosisMatches'
  OBVIOUS
<1>1. CASE TryFails \/ RowRaises \/ RowsEnd \/ Download \/ SkipRow \/ TakeRow
  <2>1. TryFails \/ RowRaises \/ RowsEnd => pc' \in {"try", "ok", "d_others"}
    BY AfterType DEF TryFails, RowRaises, RowsEnd
  <2>2. Download \/ SkipRow \/ TakeRow => pc' = "rows"
    BY DEF Download, SkipRow, TakeRow, AtRow
  <2>3. QED
    BY <1>1, <2>1, <2>2 DEF Diagnosed, DiagnosisMatches
<1>2. CASE Succeed \/ FixCheck \/ FixRoute \/ FixFile \/ Fetch
  <2>1. pc' \in {"idle", "f_route", "f_file", "try"}
    BY <1>2 DEF Succeed, FixCheck, FixRoute, FixFile, Fetch, GoOn, Return
  <2>2. QED
    BY <2>1 DEF Diagnosed, DiagnosisMatches
<1>3. CASE DiagnoseOthers
  BY <1>3 DEF DiagnoseOthers, Diagnosed, DiagnosisMatches, world
<1>4. CASE DiagnoseDomain
  <2>1. UNCHANGED <<net, steady, resolved>>
    BY <1>4 DEF DiagnoseDomain, world, Report, GoOn, Stay
  <2>2. CASE net.domain
    BY <1>4, <2>1, <2>2 DEF DiagnoseDomain, GoOn, Diagnosed, DiagnosisMatches
  <2>3. CASE ~net.domain
    <3>1. pc' = "failed" /\ code' = IF resolved THEN 1007 ELSE 1006
      BY <1>4, <2>3 DEF DiagnoseDomain, Report, GoOn
    <3>2. steady => (resolved <=> net.resolver)
      BY <1>4 DEF DiagnoseDomain, Diagnosed
    <3>3. CASE resolved
      BY <2>1, <2>3, <3>1, <3>2, <3>3 DEF Diagnosed, DiagnosisMatches
    <3>4. CASE ~resolved
      BY <2>1, <2>3, <3>1, <3>2, <3>4 DEF Diagnosed, DiagnosisMatches
    <3>5. QED
      BY <3>3, <3>4
  <2>4. QED
    BY <2>2, <2>3
<1>5. CASE DiagnoseApi
  <2>1. UNCHANGED <<net, steady>> /\ (steady => net.domain)
    BY <1>5 DEF DiagnoseApi, world, Diagnosed
  <2>2. CASE net.api
    BY <1>5, <2>1, <2>2 DEF DiagnoseApi, Report, GoOn, Diagnosed, DiagnosisMatches
  <2>3. CASE ~net.api
    BY <1>5, <2>1, <2>3 DEF DiagnoseApi, GoOn, Diagnosed, DiagnosisMatches
  <2>4. QED
    BY <2>2, <2>3
<1>6. CASE DiagnoseOut
  <2>1. UNCHANGED <<net, steady>> /\ (steady => net.domain /\ ~net.api)
    BY <1>6 DEF DiagnoseOut, world, Diagnosed
  <2>2. CASE net.internet
    BY <1>6, <2>1, <2>2 DEF DiagnoseOut, Report, GoOn, Diagnosed, DiagnosisMatches
  <2>3. CASE ~net.internet
    BY <1>6, <2>1, <2>3 DEF DiagnoseOut, Report, GoOn, Diagnosed, DiagnosisMatches
  <2>4. QED
    BY <2>2, <2>3
<1>7. CASE Change
  BY <1>7 DEF Change, Diagnosed, DiagnosisMatches
<1>8. CASE UNCHANGED vars
  BY <1>8 DEF vars, world, place, Diagnosed, DiagnosisMatches
<1>9. QED
  BY <1>1, <1>2, <1>3, <1>4, <1>5, <1>6, <1>7, <1>8 DEF Next, Step
-----------------------------------------------------------------------------
(* A download of the list in a round where nothing changes: with a usable  *)
(* row in it, the loop does not come to its end, or to a row that raises,  *)
(* without a candidate.                                                    *)
LEMMA YieldsSome ==
  ASSUME TypeOK, Clear, Ladder, pc = "rows",
         next > Len(rows) \/ (AtRow /\ rows[next].kind = "bad")
  PROVE  got # <<>>
<1> SUFFICES ASSUME got = <<>> PROVE FALSE
  OBVIOUS
<1>1. rows = Scanned(text) /\ \A j \in 1..(next - 1) : rows[j].kind = "empty"
  BY DEF Ladder
<1>2. text \in Seq(Row)
  BY TextsAssumption DEF TypeOK
<1>3. PICK i \in DOMAIN text :
        i <= MaxRows /\ text[i].kind = "node" /\ \A j \in 1..(i - 1) : text[j].kind # "bad"
  BY DEF Clear, Yields
<1>4. i \in DOMAIN rows /\ rows[i].kind = "node"
  BY <1>1, <1>2, <1>3, ScannedIs
<1>5. /\ next \in Nat /\ Len(rows) \in Nat /\ DOMAIN rows = 1..Len(rows) /\ i \in Nat
      /\ next >= 1
  BY <1>4 DEF TypeOK
<1>6. ~(i < next)
  BY <1>1, <1>4, <1>5
<1>7. CASE next > Len(rows)
  BY <1>4, <1>5, <1>6, <1>7
<1>8. CASE AtRow /\ rows[next].kind = "bad"
  <2>1. next # i
    BY <1>4, <1>8
  <2>2. next \in 1..(i - 1) /\ next \in DOMAIN rows
    BY <1>5, <1>6, <1>8, <2>1 DEF AtRow
  <2>3. text[next].kind = "bad"
    BY <1>1, <1>2, <1>8, <2>2, ScannedIs
  <2>4. QED
    BY <1>3, <2>2, <2>3
<1>9. QED
  BY <1>7, <1>8

(* No target is given up but for downloads that failed.                    *)
LEMMA LadderAfter ==
  ASSUME TypeOK, Ladder, pc \in {"try", "rows"}, After,
         UNCHANGED <<world, steady, got>>,
         Clear /\ got = <<>> => ~Downloads(Targets[target])
  PROVE  Ladder'
<1> SUFFICES ASSUME Clear' PROVE Ladder'
  BY DEF Ladder
<1>1. Clear
  BY Frozen DEF Clear
<1>2. \A k \in 1..(target - 1) : ~Downloads(Targets[k])
  BY <1>1 DEF Ladder
<1>3. target \in 1..3
  BY TargetsAre DEF TypeOK
<1>4. got = <<>> => \A k \in 1..target : ~Downloads(Targets[k])
  BY <1>1, <1>2, <1>3
<1>5. pc' = "try" => \A k \in 1..(target' - 1) : ~Downloads(Targets[k])
  <2>1. SUFFICES ASSUME pc' = "try", NEW k \in 1..(target' - 1)
                 PROVE  ~Downloads(Targets[k])
    OBVIOUS
  <2>2. target' = target \/ (got = <<>> /\ target' = target + 1)
    BY <2>1, AfterType
  <2>3. QED
    BY <1>2, <1>3, <1>4, <2>1, <2>2
<1>6. pc' = "d_others" => \A k \in 1..3 : ~Downloads(Targets[k])
  BY <1>4, AfterType
<1>7. target' \in 1..3 /\ pc' \in {"try", "ok", "d_others"}
  BY AfterType
<1>8. pc' \in {"try", "rows"} => \A k \in 1..(target' - 1) : ~Downloads(Targets[k])'
  <2>1. SUFFICES ASSUME pc' = "try", NEW k \in 1..(target' - 1)
                 PROVE  ~Downloads(Targets[k])'
    BY <1>7
  <2>2. ~Downloads(Targets[k])
    BY <1>5, <2>1
  <2>3. k \in 1..3
    <3>1. \A n \in 1..3 : \A m \in 1..(n - 1) : m \in 1..3
      OBVIOUS
    <3>2. QED
      BY <1>7, <3>1
  <2>4. QED
    BY <2>2, <2>3, Frozen
<1>9. Diagnosing' => \A k \in 1..3 : ~Downloads(Targets[k])'
  BY <1>6, <1>7, Frozen DEF Diagnosing
<1>10. QED
  BY <1>7, <1>8, <1>9 DEF Ladder

(* The same, when the target stays or the diagnosis goes on.               *)
LEMMA LadderStays ==
  ASSUME TypeOK, Ladder, UNCHANGED <<world, steady, target>>,
         pc' \in {"try", "rows"} => pc \in {"try", "rows"},
         Diagnosing' => Diagnosing,
         Clear' /\ pc' = "rows" /\ got' = <<>> =>
           rows' = Scanned(text) /\ \A j \in 1..(next' - 1) : rows'[j].kind = "empty"
  PROVE  Ladder'
<1> SUFFICES ASSUME Clear' PROVE Ladder'
  BY DEF Ladder
<1>1. Clear
  BY Frozen DEF Clear
<1>2. target \in 1..3 /\ target' = target
  BY TargetsAre DEF TypeOK
<1>3. pc' \in {"try", "rows"} => \A k \in 1..(target' - 1) : ~Downloads(Targets[k])'
  <2>1. SUFFICES ASSUME pc' \in {"try", "rows"}, NEW k \in 1..(target' - 1)
                 PROVE  ~Downloads(Targets[k])'
    OBVIOUS
  <2>2. k \in 1..3 /\ k \in 1..(target - 1)
    BY <1>2
  <2>3. QED
    BY <1>1, <2>1, <2>2, Frozen DEF Ladder
<1>4. Diagnosing' => \A k \in 1..3 : ~Downloads(Targets[k])'
  BY <1>1, Frozen DEF Ladder
<1>5. text' = text
  BY Frozen
<1>6. pc' = "rows" /\ got' = <<>> =>
        rows' = Scanned(text') /\ \A j \in 1..(next' - 1) : rows'[j].kind = "empty"
  BY <1>5
<1>7. QED
  BY <1>3, <1>4, <1>6 DEF Ladder

LEMMA LadderStep == TypeOK /\ AtRest /\ Ladder /\ [Next]_vars => Ladder'
<1> SUFFICES ASSUME TypeOK, AtRest, Ladder, [Next]_vars PROVE Ladder'
  OBVIOUS
<1>1. CASE TryFails
  BY <1>1, LadderAfter DEF TryFails
<1>2. CASE RowRaises
  <2>1. Clear => got # <<>>
    BY <1>2, YieldsSome DEF RowRaises, AtRow
  <2>2. QED
    BY <1>2, <2>1, LadderAfter DEF RowRaises, AtRow
<1>3. CASE RowsEnd
  <2>1. Clear => got # <<>>
    BY <1>3, YieldsSome DEF RowsEnd
  <2>2. CASE got = <<>>
    BY <1>3, <2>1, <2>2, LadderAfter DEF RowsEnd
  <2>3. CASE got # <<>>
    BY <1>3, <2>3 DEF RowsEnd, Ladder, Diagnosing
  <2>4. QED
    BY <2>2, <2>3
<1>4. CASE Download
  <2>1. PICK received \in Received : rows' = Scanned(received)
    BY <1>4 DEF Download
  <2>2. Clear' => rows' = Scanned(text)
    <3>1. Clear' => ~Cut
      BY <1>4, Frozen DEF Download, Clear
    <3>2. QED
      BY <2>1, <3>1, ReceivedIs
  <2>3. \A j \in 1..(next' - 1) : rows'[j].kind = "empty"
    BY <1>4 DEF Download
  <2>4. /\ UNCHANGED <<world, steady, target>> /\ pc = "try" /\ ~Diagnosing'
    BY <1>4 DEF Download, Diagnosing
  <2>5. QED
    BY <2>2, <2>3, <2>4, LadderStays
<1>5. CASE SkipRow
  <2>1. UNCHANGED <<world, steady, target, rows, got, pc, text>> /\ pc = "rows" /\ next' = next + 1
    BY <1>5 DEF SkipRow, AtRow, world
  <2>2. ~Diagnosing'
    BY <2>1 DEF Diagnosing
  <2>3. Clear' /\ got' = <<>> =>
          rows' = Scanned(text) /\ \A j \in 1..(next' - 1) : rows'[j].kind = "empty"
    <3>1. SUFFICES ASSUME Clear', got = <<>>
                   PROVE  rows = Scanned(text) /\ \A j \in 1..next : rows[j].kind = "empty"
      BY <1>5, <2>1, RowType DEF SkipRow
    <3>2. Clear
      BY <2>1, <3>1, Frozen DEF Clear
    <3>3. rows = Scanned(text) /\ \A j \in 1..(next - 1) : rows[j].kind = "empty"
      BY <2>1, <3>1, <3>2 DEF Ladder
    <3>4. rows[next].kind = "empty"
      BY <1>5, <3>1 DEF SkipRow, Skips, ToSet
    <3>5. next \in Nat
      BY DEF TypeOK
    <3>6. QED
      BY <3>3, <3>4, <3>5
  <2>4. QED
    BY <2>1, <2>2, <2>3, LadderStays
<1>6. CASE TakeRow
  <2>1. UNCHANGED <<world, steady, target, pc>> /\ pc = "rows"
    BY <1>6 DEF TakeRow, AtRow
  <2>2. got' # <<>>
    <3>1. got \in Seq(Ip) /\ rows[next].ip \in Ip
      BY <1>6, RowType DEF TypeOK, Row, TakeRow
    <3>2. QED
      BY <1>6, <3>1, AppendProperties DEF TakeRow
  <2>3. ~Diagnosing'
    BY <2>1 DEF Diagnosing
  <2>4. QED
    BY <2>1, <2>2, <2>3, LadderStays
<1>7. CASE Succeed \/ FixCheck \/ FixRoute \/ FixFile
  <2>1. pc' \in {"idle", "f_route", "f_file"}
    BY <1>7 DEF Succeed, FixCheck, FixRoute, FixFile, GoOn, Return
  <2>2. QED
    BY <2>1 DEF Ladder, Diagnosing
<1>8. CASE Fetch
  <2>1. pc' = "try" /\ target' = 1
    BY <1>8 DEF Fetch, GoOn, Stay, AtRest
  <2>2. QED
    BY <2>1 DEF Ladder, Diagnosing
<1>9. CASE DiagnoseOthers \/ DiagnoseDomain \/ DiagnoseApi \/ DiagnoseOut
  <2>1. /\ UNCHANGED <<world, steady, target>> /\ pc' \notin {"try", "rows"} /\ Diagnosing
    BY <1>9 DEF DiagnoseOthers, DiagnoseDomain, DiagnoseApi, DiagnoseOut, Report, GoOn, Stay,
                Diagnosing
  <2>2. QED
    BY <2>1, LadderStays
<1>10. CASE Change
  BY <1>10 DEF Change, Ladder, Clear
<1>11. CASE UNCHANGED vars
  <2>1. UNCHANGED <<world, steady, target, pc, rows, next, got, text>>
    BY <1>11 DEF vars, place, world
  <2>2. Diagnosing' <=> Diagnosing
    BY <2>1 DEF Diagnosing
  <2>3. Clear' => Clear
    BY <2>1, Frozen DEF Clear
  <2>4. Clear' /\ pc' = "rows" /\ got' = <<>> =>
          rows' = Scanned(text) /\ \A j \in 1..(next' - 1) : rows'[j].kind = "empty"
    BY <2>1, <2>3 DEF Ladder
  <2>5. QED
    BY <2>1, <2>2, <2>4, LadderStays
<1>12. QED
  BY <1>1, <1>2, <1>3, <1>4, <1>5, <1>6, <1>7, <1>8, <1>9, <1>10, <1>11 DEF Next, Step
-----------------------------------------------------------------------------
(* The rows passed with one more, with none, and with all of a download.   *)
LEMMA PassedNext ==
  ASSUME NEW list \in Seq(Row), NEW n \in DOMAIN list
  PROVE  /\ list[n].kind = "node" => Passed(list, n + 1) = Passed(list, n) \cup {list[n].ip}
         /\ list[n].kind # "node" => Passed(list, n + 1) = Passed(list, n)
<1>1. n \in Nat /\ DOMAIN list \subseteq Nat
  BY LenProperties
<1>2. \A k \in DOMAIN list : k < n + 1 <=> k < n \/ k = n
  BY <1>1
<1>3. QED
  BY <1>2 DEF Passed

LEMMA PassedNone == ASSUME NEW list \in Seq(Row) PROVE Passed(list, 1) = {}
<1>1. \A k \in DOMAIN list : ~(k < 1)
  BY LenProperties
<1>2. QED
  BY <1>1 DEF Passed

LEMMA PassedAll ==
  ASSUME NEW list \in Seq(Row), NEW n \in Nat, n > Len(Scanned(list))
  PROVE  Passed(Scanned(list), n) = Passed(list, MaxRows + 1)
<1> DEFINE some == Scanned(list)
           these == { k \in DOMAIN some : k < n /\ some[k].kind = "node" }
           those == { k \in DOMAIN list : k < MaxRows + 1 /\ list[k].kind = "node" }
<1>1. /\ some \in Seq(Row) /\ DOMAIN some = { i \in DOMAIN list : i <= MaxRows }
      /\ \A i \in DOMAIN some : some[i] = list[i]
  BY ScannedIs
<1>2. \A k \in DOMAIN some : k < n
  <2>1. DOMAIN some = 1..Len(some) /\ Len(some) \in Nat
    BY <1>1, LenProperties
  <2>2. QED
    BY <2>1
<1>3. \A k \in DOMAIN list : k < MaxRows + 1 <=> k <= MaxRows
  BY RowsAssumption, LenProperties
<1>4. these = those
  BY <1>1, <1>2, <1>3
<1>5. \A k \in those : some[k].ip = list[k].ip
  BY <1>1, <1>4
<1>6. { some[k].ip : k \in these } = { list[k].ip : k \in those }
  BY <1>4, <1>5
<1>7. QED
  BY <1>6 DEF Passed

LEMMA AppendSet ==
  ASSUME NEW seq \in Seq(Ip), NEW ip \in Ip
  PROVE  ToSet(Append(seq, ip)) = ToSet(seq) \cup {ip}
<1>1. /\ Append(seq, ip) \in Seq(Ip) /\ Len(seq) \in Nat
      /\ DOMAIN seq = 1..Len(seq) /\ DOMAIN Append(seq, ip) = 1..(Len(seq) + 1)
      /\ \A i \in 1..Len(seq) : Append(seq, ip)[i] = seq[i]
      /\ Append(seq, ip)[Len(seq) + 1] = ip
  BY AppendProperties, LenProperties
<1>2. 1..(Len(seq) + 1) = 1..Len(seq) \cup {Len(seq) + 1}
  BY <1>1
<1>3. QED
  BY <1>1, <1>2 DEF ToSet

(* What is taken from a list without a row that raises. *)
LEMMA TakenStep == TypeOK /\ AtRest /\ Taken /\ [Next]_vars => Taken'
<1> SUFFICES ASSUME TypeOK, AtRest, Taken, [Next]_vars, (steady /\ ~Cut /\ NoBad)'
             PROVE  /\ pc' = "try" => got' = <<>>
                    /\ pc' = "rows" => rows' = Scanned(text)' /\ ToSet(got)' = Passed(rows, next)'
                    /\ pc' = "ok" => ToSet(got)' = Passed(text, MaxRows + 1)'
  BY DEF Taken
<1>0. text \in Seq(Row) /\ rows \in Seq(Row) /\ got \in Seq(Ip) /\ next \in Nat
  BY TextsAssumption DEF TypeOK
<1> DEFINE Plain == steady /\ ~Cut /\ NoBad
<1>1. UNCHANGED <<world, steady>> => Plain
  BY Frozen
<1>2. CASE TryFails
  <2>1. got = <<>> /\ got' = got /\ After
    BY <1>1, <1>2 DEF TryFails, Taken
  <2>2. QED
    BY <2>1, AfterType
<1>3. CASE RowRaises
  <2>1. rows = Scanned(text) /\ NoBad
    BY <1>1, <1>3 DEF RowRaises, AtRow, Taken
  <2>2. next \in DOMAIN rows /\ rows[next].kind = "bad"
    BY <1>3, RowType DEF RowRaises
  <2>3. next \in DOMAIN text /\ next <= MaxRows /\ text[next].kind = "bad"
    BY <1>0, <2>1, <2>2, ScannedIs
  <2>4. QED
    BY <2>1, <2>3 DEF NoBad
<1>4. CASE RowsEnd
  <2>1. /\ rows = Scanned(text) /\ ToSet(got) = Passed(rows, next) /\ next > Len(rows)
        /\ got' = got /\ text' = text
    BY <1>1, <1>4 DEF RowsEnd, Taken, world
  <2>2. ToSet(got) = Passed(text, MaxRows + 1)
    BY <1>0, <2>1, PassedAll
  <2>3. CASE got # <<>>
    BY <1>4, <2>1, <2>2, <2>3 DEF RowsEnd
  <2>4. CASE got = <<>>
    BY <1>4, <2>1, <2>4, AfterType DEF RowsEnd
  <2>5. QED
    BY <2>3, <2>4
<1>5. CASE Download
  <2>1. PICK received \in Received : rows' = Scanned(received)
    BY <1>5 DEF Download
  <2>2. UNCHANGED <<world, steady>> /\ pc = "try" /\ pc' = "rows" /\ next' = 1 /\ got' = got
    BY <1>5 DEF Download
  <2>3. Plain /\ text' = text
    BY <1>1, <2>2 DEF world
  <2>4. rows' = Scanned(text') /\ got' = <<>>
    BY <2>1, <2>2, <2>3, ReceivedIs DEF Taken
  <2>5. ToSet(got') = {} /\ Passed(rows', next') = {}
    <3>1. rows' \in Seq(Row)
      BY <1>0, <2>3, <2>4, ScannedIs
    <3>2. QED
      BY <2>2, <2>4, <3>1, PassedNone DEF ToSet
  <2>6. QED
    BY <2>2, <2>4, <2>5
<1>6. CASE SkipRow
  <2>1. UNCHANGED <<world, steady, rows, got, pc, text>> /\ pc = "rows" /\ next' = next + 1
    BY <1>6 DEF SkipRow, AtRow, world
  <2>2. rows = Scanned(text) /\ ToSet(got) = Passed(rows, next)
    BY <1>1, <2>1 DEF Taken
  <2>3. next \in DOMAIN rows /\ (rows[next].kind = "empty" \/ rows[next].ip \in ToSet(got))
    BY <1>6, RowType DEF SkipRow, Skips
  <2>4. ToSet(got) = Passed(rows, next + 1)
    <3>1. CASE rows[next].kind = "node"
      <4>1. Passed(rows, next + 1) = Passed(rows, next) \cup {rows[next].ip}
        BY <1>0, <2>3, <3>1, PassedNext
      <4>2. rows[next].ip \in ToSet(got)
        BY <2>3, <3>1
      <4>3. QED
        BY <2>2, <4>1, <4>2
    <3>2. CASE rows[next].kind # "node"
      <4>1. Passed(rows, next + 1) = Passed(rows, next)
        BY <1>0, <2>3, <3>2, PassedNext
      <4>2. QED
        BY <2>2, <4>1
    <3>3. QED
      BY <3>1, <3>2
  <2>5. QED
    BY <2>1, <2>2, <2>4
<1>7. CASE TakeRow
  <2>1. /\ UNCHANGED <<world, steady, rows, pc, text>> /\ pc = "rows" /\ next' = next + 1
        /\ got' = Append(got, rows[next].ip)
    BY <1>7 DEF TakeRow, AtRow, world
  <2>2. rows = Scanned(text) /\ ToSet(got) = Passed(rows, next)
    BY <1>1, <2>1 DEF Taken
  <2>3. next \in DOMAIN rows /\ rows[next].kind = "node" /\ rows[next].ip \in Ip
    BY <1>7, RowType DEF TakeRow, Row
  <2>4. ToSet(got') = Passed(rows, next + 1)
    <3>1. Passed(rows, next + 1) = Passed(rows, next) \cup {rows[next].ip}
      BY <1>0, <2>3, PassedNext
    <3>2. ToSet(Append(got, rows[next].ip)) = ToSet(got) \cup {rows[next].ip}
      BY <1>0, <2>3, AppendSet
    <3>3. QED
      BY <2>1, <2>2, <3>1, <3>2
  <2>5. QED
    BY <2>1, <2>2, <2>4
<1>8. CASE Succeed \/ FixCheck \/ FixRoute \/ FixFile
  BY <1>8 DEF Succeed, FixCheck, FixRoute, FixFile, GoOn, Return
<1>9. CASE Fetch
  BY <1>9 DEF Fetch, GoOn, Stay, AtRest
<1>10. CASE DiagnoseOthers \/ DiagnoseDomain \/ DiagnoseApi \/ DiagnoseOut
  BY <1>10 DEF DiagnoseOthers, DiagnoseDomain, DiagnoseApi, DiagnoseOut, Report, GoOn
<1>11. CASE Change
  BY <1>11 DEF Change
<1>12. CASE UNCHANGED vars
  <2>1. UNCHANGED <<world, steady, pc, rows, next, got, text>>
    BY <1>12 DEF vars, place, world
  <2>2. QED
    BY <1>1, <2>1 DEF Taken
<1>13. QED
  BY <1>2, <1>3, <1>4, <1>5, <1>6, <1>7, <1>8, <1>9, <1>10, <1>11, <1>12 DEF Next, Step

(* An address is taken once. *)
LEMMA DistinctStep == TypeOK /\ Distinct /\ [Next]_vars => Distinct'
<1> SUFFICES ASSUME TypeOK, Distinct, [Next]_vars PROVE Distinct'
  OBVIOUS
<1>1. CASE TakeRow
  <2>1. got' = Append(got, rows[next].ip) /\ rows[next].ip \notin ToSet(got)
    BY <1>1 DEF TakeRow, Skips
  <2>2. got \in Seq(Ip) /\ rows[next].ip \in Ip
    BY <1>1, RowType DEF TakeRow, Row, TypeOK
  <2>3. /\ Len(got) \in Nat /\ DOMAIN got = 1..Len(got) /\ DOMAIN got' = 1..(Len(got) + 1)
        /\ \A i \in 1..Len(got) : got'[i] = got[i]
        /\ got'[Len(got) + 1] = rows[next].ip
    BY <2>1, <2>2, AppendProperties, LenProperties
  <2>4. \A i \in 1..Len(got) : got[i] # rows[next].ip
    BY <2>1, <2>3 DEF ToSet
  <2>5. SUFFICES ASSUME NEW i \in DOMAIN got', NEW j \in DOMAIN got', got'[i] = got'[j]
                 PROVE  i = j
    BY DEF Distinct
  <2>6. CASE i \in 1..Len(got) /\ j \in 1..Len(got)
    BY <2>3, <2>5, <2>6 DEF Distinct
  <2>7. CASE i = Len(got) + 1 \/ j = Len(got) + 1
    BY <2>3, <2>4, <2>5, <2>7
  <2>8. QED
    BY <2>3, <2>6, <2>7
<1>2. CASE Succeed \/ FixCheck \/ FixRoute \/ FixFile
  BY <1>2 DEF Succeed, FixCheck, FixRoute, FixFile, GoOn, Return, Stay, Distinct
<1>3. CASE Fetch \/ DiagnoseOthers \/ DiagnoseDomain \/ DiagnoseApi \/ DiagnoseOut
  BY <1>3 DEF Fetch, DiagnoseOthers, DiagnoseDomain, DiagnoseApi, DiagnoseOut, Report, GoOn, Stay,
              Distinct
<1>4. CASE TryFails \/ Download \/ SkipRow \/ RowRaises \/ RowsEnd
  BY <1>4 DEF TryFails, Download, SkipRow, RowRaises, RowsEnd, Distinct
<1>5. CASE Change \/ UNCHANGED vars
  BY <1>5 DEF Change, vars, place, Distinct
<1>6. QED
  BY <1>1, <1>2, <1>3, <1>4, <1>5 DEF Next, Step
-----------------------------------------------------------------------------
LEMMA InitInv == Init => IInv
<1> SUFFICES ASSUME Init PROVE IInv
  OBVIOUS
<1>1. rows \in Seq(Row) /\ next \in 1..(Len(rows) + 1) /\ got \in Seq(Ip) /\ got = <<>>
  BY DEF Init
<1>2. TypeOK
  <2>1. pc \in Labels /\ code \in Codes
    BY DEF Init, Labels, Codes
  <2>2. target \in 1..Len(Targets) /\ attempt \in 1..2
    BY TargetsAre DEF Init
  <2>3. QED
    BY <1>1, <2>1, <2>2 DEF Init, TypeOK
<1>3. AtRest /\ Diagnosed /\ DiagnosisMatches
  BY DEF Init, AtRest, Diagnosed, DiagnosisMatches
<1>4. Ladder /\ Taken
  BY DEF Init, Ladder, Diagnosing, Taken
<1>5. Distinct
  BY <1>1 DEF Distinct
<1>6. QED
  BY <1>2, <1>3, <1>4, <1>5 DEF IInv

(* The invariant holds of every state of every round. *)
THEOREM Invariance == Spec => []IInv
<1>1. IInv /\ [Next]_vars => IInv'
  BY TypeStep, RestStep, DiagnosisStep, LadderStep, TakenStep, DistinctStep DEF IInv
<1>2. QED
  BY InitInv, <1>1, PTL DEF Spec

(* Every variable of a round holds what it is declared for: the row in     *)
(* hand is one of the download or just behind it, the target one of three. *)
THEOREM TypeCorrect == Spec => []TypeOK
<1>1. IInv => TypeOK
  BY DEF IInv
<1>2. QED
  BY <1>1, Invariance, PTL

(* diagnose_api_failure names what is the case: the four codes are right   *)
(* in a round during which the network does not change.                    *)
THEOREM DiagnosisIsRight == Spec => []DiagnosisMatches
<1>1. IInv => DiagnosisMatches
  BY DEF IInv
<1>2. QED
  BY <1>1, Invariance, PTL

(* fetch_candidates fails only when none of the six ways to a usable list  *)
(* was open.                                                               *)
THEOREM NoAlarmIsFalse == Spec => []NoFalseAlarm
<1>1. IInv => NoFalseAlarm
  <2> SUFFICES ASSUME IInv, Diagnosing, Clear, NEW tls \in BOOLEAN, NEW verify \in BOOLEAN
               PROVE  LET t == [tls |-> tls, verify |-> verify]
                      IN ~Direct(t) /\ ~(Upstream = "proxy" /\ ViaProxy(t))
    BY DEF NoFalseAlarm, Clear
  <2> DEFINE Open(t) == Direct(t) \/ (Upstream = "proxy" /\ ViaProxy(t))
             t == [tls |-> tls, verify |-> verify]
  <2>1. \A k \in 1..3 : ~Downloads(Targets[k])
    BY DEF IInv, Ladder
  <2>2. Upstream \in {"proxy", "none"}
    BY DEF Clear, Upstream
  <2>3. \A k \in 1..3 : ~Open(Targets[k])
    BY <2>1, <2>2 DEF Downloads
  <2>4. PICK k \in 1..3 : Targets[k].tls = tls /\ (tls => Targets[k].verify = verify)
    <3>0. /\ 1 \in 1..3 /\ Targets[1].tls = TRUE /\ Targets[1].verify = TRUE
          /\ 2 \in 1..3 /\ Targets[2].tls = TRUE /\ Targets[2].verify = FALSE
          /\ 3 \in 1..3 /\ Targets[3].tls = FALSE
      BY TargetsAre
    <3>1. CASE tls = TRUE /\ verify = TRUE
      BY <3>0, <3>1
    <3>2. CASE tls = TRUE /\ verify = FALSE
      BY <3>0, <3>2
    <3>3. CASE tls = FALSE
      BY <3>0, <3>3
    <3>4. QED
      BY <3>1, <3>2, <3>3
  <2>5. \A d \in BOOLEAN : Handshake(t, d) <=> Handshake(Targets[k], d)
    BY <2>4 DEF Handshake
  <2>6. Open(t) <=> Open(Targets[k])
    BY <2>4, <2>5 DEF Direct, ViaProxy
  <2>7. QED
    BY <2>3, <2>6
<1>2. QED
  BY <1>1, Invariance, PTL

(* A round that succeeds has taken the whole list, each address once.      *)
THEOREM ListIsWhole == Spec => []WholeListTaken
<1>1. IInv => WholeListTaken
  <2> SUFFICES ASSUME IInv PROVE WholeListTaken
    OBVIOUS
  <2> DEFINE listed == { text[i] : i \in { j \in DOMAIN text : j <= MaxRows } }
             usable == { row.ip : row \in { r \in listed : r.kind = "node" } }
  <2>1. \A i, j \in DOMAIN got : got[i] = got[j] => i = j
    BY DEF IInv, Distinct
  <2>2. ASSUME pc = "ok", steady, ~Cut, \A row \in listed : row.kind # "bad"
        PROVE  ToSet(got) = usable
    <3>1. NoBad
      BY <2>2 DEF NoBad
    <3>2. ToSet(got) = Passed(text, MaxRows + 1)
      BY <2>2, <3>1 DEF IInv, Taken
    <3>3. text \in Seq(Row)
      BY TextsAssumption DEF IInv, TypeOK
    <3>4. \A k \in DOMAIN text : k < MaxRows + 1 <=> k <= MaxRows
      BY <3>3, RowsAssumption, LenProperties
    <3>5. Passed(text, MaxRows + 1) = usable
      BY <3>4 DEF Passed
    <3>6. QED
      BY <3>2, <3>5
  <2>3. QED
    BY <2>1, <2>2 DEF WholeListTaken
<1>2. QED
  BY <1>1, Invariance, PTL
=============================================================================
