---------------------------- MODULE PyWeb_proofs ----------------------------
(***************************************************************************)
(* Proofs about the web interface's settings and restarts, for any number  *)
(* of browsers, credentials, addresses and modes.                          *)
(***************************************************************************)
EXTENDS PyWebProps, TLAPS

(* A request past the checks asks for something; the one that writes, and  *)
(* it alone, holds the lock, and wrote last.                               *)
Orderly ==
  /\ \A c \in Client : pc[c] \in {"load", "write", "writing", "answer"} => asked[c] # NoAsk
  /\ \A c \in Client : pc[c] = "writing" <=> lock = c
  /\ lock # Nobody => writer = lock

(* Nothing happens in a process that has ended. *)
DownIsQuiet == ~up => /\ lock = Nobody /\ ~timer
                      /\ \A c \in Client : pc[c] = "idle"

(* A restart is certain, or a client has hung up. *)
RestartIsDue ==
  \/ timer \/ hungUp
  \/ \E c \in Client : pc[c] = "restart" \/ (pc[c] = "answer" /\ RestartNeeded(c))

(* It is, whenever the file or a copy that will be written back has other  *)
(* ports than the process.                                                 *)
PortsAccounted ==
  /\ up /\ lock = Nobody /\ Loaded.address.ports # running => RestartIsDue
  /\ \A c \in Client :
       pc[c] \in {"write", "writing", "answer"} /\ copy[c].address.ports # running => RestartIsDue

(* What the last request wrote is in the file until it is answered, and    *)
(* while its page waits.                                                   *)
LastWriteStands ==
  /\ \A c \in Client : page[c] = "moving" => pc[c] \in {"restart", "idle"}
  /\ \A c \in Client :
       pc[c] = "answer" /\ writer = c =>
         file # Torn /\ (asked[c].kind = "settings" => file.address = asked[c].address)

(* The inductive invariant. *)
IInv ==
  /\ TypeOK /\ Orderly /\ DownIsQuiet /\ FileIsWhole
  /\ PortsAccounted /\ LastWriteStands /\ RedirectIsRight

(* What a request reads is a configuration, and what it writes is one.     *)
LEMMA LoadedType == TypeOK => Loaded \in Config /\ Default \in Config
  BY DefaultAssumption DEF TypeOK, Loaded, Default, Config

LEMMA UpdatedType ==
  ASSUME NEW cfg \in Config, NEW ask \in Ask, ask # NoAsk
  PROVE  /\ Updated(cfg, ask) \in Config
         /\ ask.kind = "settings" => Updated(cfg, ask).address = ask.address
         /\ ask.kind # "settings" => Updated(cfg, ask).address = cfg.address
<1>1. CASE ask \in [kind : {"credentials"}, cred : Cred]
  BY <1>1 DEF Updated, Config
<1>2. CASE ask \in [kind : {"settings"}, address : Address, mode : Mode]
  BY <1>2 DEF Updated, Config
<1>3. CASE ask \in [kind : {"routing"}, mode : Mode]
  BY <1>3 DEF Updated, Config
<1>4. QED
  BY <1>1, <1>2, <1>3 DEF Ask, NoAsk

(* A request for other settings has an address, which is a legal one.      *)
LEMMA AskedAddress ==
  ASSUME NEW ask \in Ask, ask.kind = "settings"
  PROVE  ask.address \in Address
  BY DEF Ask
-----------------------------------------------------------------------------
(* The saved settings a process starts with satisfy the invariant.         *)
LEMMA InitInv == Init => IInv
<1> SUFFICES ASSUME Init PROVE IInv
  OBVIOUS
<1>1. file \in Config /\ Default \in Config /\ Loaded = file
  BY DefaultAssumption, TornAssumption DEF Init, Config, Loaded, Default
<1>2. TypeOK
  <2>1. running \in { a.ports : a \in Address }
    BY DefaultAssumption DEF Init
  <2>2. QED
    BY <1>1, <2>1, DefaultAssumption DEF Init, TypeOK, Page, Label, Ask, NoAsk, Nowhere
<1>3. Orderly /\ DownIsQuiet /\ FileIsWhole
  BY <1>1, NobodyAssumption, TornAssumption DEF Init, Orderly, DownIsQuiet, FileIsWhole
<1>4. PortsAccounted /\ LastWriteStands /\ RedirectIsRight
  BY <1>1, NobodyAssumption DEF Init, PortsAccounted, LastWriteStands, RedirectIsRight
<1>5. QED
  BY <1>2, <1>3, <1>4 DEF IInv
-----------------------------------------------------------------------------
(* No step of a browser, a request or the process leaves the declared      *)
(* values.                                                                 *)
LEMMA TypeStep == IInv /\ [Next]_vars => TypeOK'
<1> SUFFICES ASSUME IInv, [Next]_vars PROVE TypeOK'
  OBVIOUS
<1> USE DEF TypeOK, server, requests, vars, Page, Label
<1>0. TypeOK /\ Orderly
  BY DEF IInv
<1>1. Loaded \in Config /\ Default \in Config /\ NoAsk \in Ask /\ Nowhere \in Address
  BY <1>0, LoadedType, DefaultAssumption DEF Ask, NoAsk, Nowhere
<1>2. Loaded.address.ports \in { a.ports : a \in Address }
  BY <1>1 DEF Config
<1>3. ASSUME NEW c \in Client PROVE copy[c] \in Config /\ asked[c] \in Ask
  BY <1>0
<1>a. ASSUME NEW c \in Client, Open(c) PROVE TypeOK'
  BY <1>0, <1>1, <1>a DEF Open
<1>b. ASSUME NEW c \in Client, Login(c) \/ Logout(c) PROVE TypeOK'
  BY <1>0, <1>b DEF Login, Logout
<1>c. ASSUME NEW c \in Client, Send(c) PROVE TypeOK'
  BY <1>0, <1>c DEF Send
<1>d. ASSUME NEW c \in Client, Load(c) PROVE TypeOK'
  BY <1>0, <1>1, <1>d DEF Load
<1>e. ASSUME NEW c \in Client, Truncate(c) PROVE TypeOK'
  BY <1>0, <1>e DEF Truncate
<1>f. ASSUME NEW c \in Client, Write(c) PROVE TypeOK'
  <2>1. Updated(copy[c], asked[c]) \in Config
    BY <1>0, <1>3, <1>f, UpdatedType DEF Write, Orderly
  <2>2. QED
    BY <1>0, <1>f, <2>1 DEF Write
<1>g. ASSUME NEW c \in Client, Answer(c) PROVE TypeOK'
  <2>1. RestartNeeded(c) => asked[c].address \in Address
    BY <1>3, AskedAddress DEF RestartNeeded
  <2>2. at' \in [Client -> Address]
    BY <1>0, <1>g, <2>1 DEF Answer
  <2>3. page' \in [Client -> Page]
    BY <1>0, <1>g DEF Answer
  <2>4. pc' \in [Client -> Label] /\ asked' \in [Client -> Ask] /\ copy' \in [Client -> Config]
    BY <1>0, <1>1, <1>g DEF Answer, Over
  <2>5. QED
    BY <1>0, <1>g, <2>2, <2>3, <2>4 DEF Answer
<1>h. ASSUME NEW c \in Client, AnswerNobody(c) PROVE TypeOK'
  <2>1. \E l \in {"idle", "restart"} : Over(c, l)
    BY <1>h DEF AnswerNobody
  <2>2. pc' \in [Client -> Label] /\ asked' \in [Client -> Ask] /\ copy' \in [Client -> Config]
    BY <1>0, <1>1, <2>1 DEF Over
  <2>3. hungUp' \in BOOLEAN /\ UNCHANGED <<server, page, at, writer>>
    BY <1>0, <1>h DEF AnswerNobody
  <2>4. QED
    BY <1>0, <2>2, <2>3
<1>i. ASSUME NEW c \in Client, StartTimer(c) \/ HangUp(c) PROVE TypeOK'
  BY <1>0, <1>1, <1>i DEF StartTimer, HangUp
<1>j. CASE Exit
  BY <1>0, <1>1, <1>j DEF Exit
<1>k. CASE Boot
  BY <1>0, <1>1, <1>2, <1>k DEF Boot
<1>l. CASE UNCHANGED vars
  BY <1>0, <1>l
<1>m. QED
  BY <1>a, <1>b, <1>c, <1>d, <1>e, <1>f, <1>g, <1>h, <1>i, <1>j, <1>k, <1>l DEF Next, Handle
-----------------------------------------------------------------------------
(* Whoever writes holds the lock, until it has written or the process ends.*)
LEMMA OrderlyStep == IInv /\ [Next]_vars => Orderly' /\ DownIsQuiet' /\ FileIsWhole'
<1> SUFFICES ASSUME IInv, [Next]_vars PROVE Orderly' /\ DownIsQuiet' /\ FileIsWhole'
  OBVIOUS
<1> USE NobodyAssumption
    DEF Orderly, DownIsQuiet, FileIsWhole, server, requests, vars
<1>0. TypeOK /\ Orderly /\ DownIsQuiet /\ FileIsWhole
  BY DEF IInv
<1>1. pc \in [Client -> Label] /\ asked \in [Client -> Ask] /\ lock \in Client \cup {Nobody}
  BY <1>0 DEF TypeOK
<1>2. Loaded # Torn /\ ~(NoAsk \in Ask \ {NoAsk})
  BY <1>0, LoadedType, TornAssumption
<1>a. ASSUME NEW c \in Client, Open(c) \/ Login(c) \/ Logout(c) \/ HangUp(c)
      PROVE  Orderly' /\ DownIsQuiet' /\ FileIsWhole'
  BY <1>0, <1>a DEF Open, Login, Logout, HangUp
<1>b. ASSUME NEW c \in Client, Send(c) PROVE Orderly' /\ DownIsQuiet' /\ FileIsWhole'
  BY <1>0, <1>1, <1>b DEF Send, Reaches
<1>c. ASSUME NEW c \in Client, Load(c) PROVE Orderly' /\ DownIsQuiet' /\ FileIsWhole'
  BY <1>0, <1>1, <1>2, <1>c DEF Load
<1>d. ASSUME NEW c \in Client, Truncate(c) PROVE Orderly' /\ DownIsQuiet' /\ FileIsWhole'
  BY <1>0, <1>1, <1>d DEF Truncate
<1>e. ASSUME NEW c \in Client, Write(c) PROVE Orderly' /\ DownIsQuiet' /\ FileIsWhole'
  <2>1. Updated(copy[c], asked[c]) # Torn
    BY <1>0, <1>1, <1>e, UpdatedType, TornAssumption DEF Write, TypeOK
  <2>2. QED
    BY <1>0, <1>1, <1>e, <2>1 DEF Write
<1>f. ASSUME NEW c \in Client, Answer(c) \/ AnswerNobody(c) \/ StartTimer(c)
      PROVE  Orderly' /\ DownIsQuiet' /\ FileIsWhole'
  <2>1. \E l \in {"idle", "restart"} : pc' = [pc EXCEPT ![c] = l]
    BY <1>f DEF Answer, AnswerNobody, StartTimer, Over
  <2>2. /\ asked' = [asked EXCEPT ![c] = NoAsk] \/ asked' = asked
        /\ pc[c] \in {"answer", "restart"}
        /\ UNCHANGED <<file, up, lock, writer>>
        /\ ~up => ~timer' 
    BY <1>0, <1>f DEF Answer, AnswerNobody, StartTimer, Over
  <2>3. QED
    BY <1>0, <1>1, <2>1, <2>2
<1>g. CASE Exit
  BY <1>0, <1>1, <1>g DEF Exit
<1>h. CASE Boot
  BY <1>0, <1>1, <1>2, <1>h DEF Boot
<1>i. CASE UNCHANGED vars
  BY <1>0, <1>i
<1>j. QED
  BY <1>a, <1>b, <1>c, <1>d, <1>e, <1>f, <1>g, <1>h, <1>i DEF Next, Handle

(* A restart that is due is under way until the process ends.              *)
LEMMA DueStep ==
  ASSUME IInv, [Next]_vars, ~Exit, RestartIsDue
  PROVE  RestartIsDue'
<1> USE DEF RestartIsDue, RestartNeeded, server, requests, vars
<1>0. TypeOK /\ Orderly
  BY DEF IInv
<1>1. pc \in [Client -> Label] /\ asked \in [Client -> Ask] /\ copy \in [Client -> Config]
  BY <1>0 DEF TypeOK
<1>a. ASSUME NEW c \in Client, Open(c) \/ Login(c) \/ Logout(c) \/ HangUp(c)
      PROVE  RestartIsDue'
  BY <1>a DEF Open, Login, Logout, HangUp
<1>b. ASSUME NEW c \in Client, Send(c) \/ Load(c) \/ Truncate(c) \/ Write(c)
      PROVE  RestartIsDue'
  <2>1. /\ UNCHANGED <<timer, hungUp>>
        /\ pc[c] \notin {"answer", "restart"}
        /\ \A d \in Client \ {c} : pc'[d] = pc[d] /\ asked'[d] = asked[d] /\ copy'[d] = copy[d]
    BY <1>1, <1>b DEF Send, Load, Truncate, Write
  <2>2. QED
    BY <2>1
<1>c. ASSUME NEW c \in Client, Answer(c) \/ AnswerNobody(c) PROVE RestartIsDue'
  <2>1. /\ UNCHANGED timer
        /\ pc[c] = "answer"
        /\ hungUp' = hungUp \/ hungUp' = TRUE
        /\ hungUp' = TRUE \/ pc' = [pc EXCEPT ![c] = IF RestartNeeded(c) THEN "restart" ELSE "idle"]
        /\ \A d \in Client \ {c} : pc'[d] = pc[d] /\ asked'[d] = asked[d] /\ copy'[d] = copy[d]
    BY <1>1, <1>c DEF Answer, AnswerNobody, Over
  <2>2. QED
    BY <1>1, <2>1
<1>d. ASSUME NEW c \in Client, StartTimer(c) PROVE RestartIsDue'
  BY <1>d DEF StartTimer
<1>e. CASE Boot
  BY <1>e DEF Boot
<1>f. CASE UNCHANGED vars
  BY <1>f
<1>g. QED
  BY <1>a, <1>b, <1>c, <1>d, <1>e, <1>f DEF Next, Handle

(* Ports other than the process's come into the file only by a request     *)
(* that brings about a restart, or by one that read them there.            *)
LEMMA PortsStep == IInv /\ [Next]_vars => PortsAccounted'
<1> SUFFICES ASSUME IInv, [Next]_vars PROVE PortsAccounted'
  OBVIOUS
<1> USE DEF PortsAccounted, server, requests, vars
<1>0. TypeOK /\ Orderly /\ DownIsQuiet /\ FileIsWhole /\ PortsAccounted
  BY DEF IInv
<1>1. pc \in [Client -> Label] /\ asked \in [Client -> Ask] /\ copy \in [Client -> Config]
  BY <1>0 DEF TypeOK
<1>2. ~Exit /\ RestartIsDue => RestartIsDue'
  BY DueStep
<1>3. file' = file => Loaded' = Loaded
  BY DEF Loaded, Default
<1>4. Loaded # Torn
  BY <1>0, LoadedType, TornAssumption
<1>a. ASSUME NEW c \in Client, Open(c) \/ Login(c) \/ Logout(c) \/ HangUp(c) \/ Send(c)
      PROVE  PortsAccounted'
  <2>1. /\ UNCHANGED <<up, lock, file, running, copy>>
        /\ \A d \in Client : pc'[d] \in {"write", "writing", "answer"} => pc'[d] = pc[d]
    BY <1>1, <1>a DEF Open, Login, Logout, HangUp, Send, server, requests
  <2>2. ~Exit
    BY <1>0, <1>a, <2>1 DEF Exit
  <2>3. QED
    BY <1>0, <1>2, <1>3, <2>1, <2>2
<1>b. ASSUME NEW c \in Client, Load(c) PROVE PortsAccounted'
  <2>1. ~Exit /\ up
    BY <1>0, <1>b DEF Exit, Load, DownIsQuiet
  <2>2. Loaded' = Loaded
    BY <1>4, <1>b DEF Load, Loaded
  <2>3. QED
    BY <1>0, <1>1, <1>2, <1>b, <2>1, <2>2 DEF Load
<1>c. ASSUME NEW c \in Client, Truncate(c) PROVE PortsAccounted'
  <2>1. ~Exit /\ lock' # Nobody
    BY <1>0, <1>c, NobodyAssumption DEF Exit, Truncate, DownIsQuiet
  <2>2. QED
    BY <1>0, <1>1, <1>2, <1>c, <2>1 DEF Truncate
<1>d. ASSUME NEW c \in Client, Write(c) PROVE PortsAccounted'
  <2>1. ~Exit
    BY <1>0, <1>d DEF Exit, Write, DownIsQuiet
  <2>2. asked[c] # NoAsk /\ asked[c] \in Ask /\ copy[c] \in Config
    BY <1>0, <1>1, <1>d DEF Write, Orderly
  <2>3. file' = Updated(copy[c], asked[c]) /\ Loaded' = file'
    BY <1>d, <2>2, UpdatedType, TornAssumption DEF Write, Loaded
  <2>4. CASE RestartNeeded(c)
    <3>1. pc'[c] = "answer" /\ RestartNeeded(c)'
      BY <1>1, <1>d, <2>4 DEF Write, RestartNeeded
    <3>2. QED
      BY <3>1 DEF RestartIsDue
  <2>5. CASE ~RestartNeeded(c)
    <3>1. Loaded'.address = copy[c].address
      BY <2>2, <2>3, <2>5, UpdatedType DEF RestartNeeded
    <3>2. Loaded'.address.ports # running => RestartIsDue'
      BY <1>0, <1>2, <1>d, <2>1, <3>1 DEF Write
    <3>3. QED
      BY <1>0, <1>1, <1>2, <1>d, <2>1, <3>2 DEF Write
  <2>6. QED
    BY <2>4, <2>5
<1>e. ASSUME NEW c \in Client, Answer(c) \/ AnswerNobody(c) \/ StartTimer(c)
      PROVE  PortsAccounted'
  <2>1. /\ UNCHANGED <<file, up, lock, running>>
        /\ pc'[c] \in {"idle", "restart"}
        /\ \A d \in Client \ {c} : pc'[d] = pc[d] /\ copy'[d] = copy[d]
    BY <1>1, <1>e DEF Answer, AnswerNobody, StartTimer, Over
  <2>2. ~Exit
    BY <1>0, <1>e, <2>1 DEF Exit
  <2>3. QED
    BY <1>0, <1>2, <1>3, <2>1, <2>2
<1>f. CASE Exit
  BY <1>f DEF Exit
<1>g. CASE Boot
  BY <1>0, <1>4, <1>g DEF Boot, DownIsQuiet, Loaded
<1>h. CASE UNCHANGED vars
  BY <1>0, <1>h DEF Loaded, Default, RestartIsDue, RestartNeeded
<1>i. QED
  BY <1>a, <1>b, <1>c, <1>d, <1>e, <1>f, <1>g, <1>h DEF Next, Handle

(* A page that waits has been answered, and between the answer's request   *)
(* and the next one to write nobody touches the file.                      *)
LEMMA LastWriteStep == IInv /\ [Next]_vars => LastWriteStands' /\ RedirectIsRight'
<1> SUFFICES ASSUME IInv, [Next]_vars PROVE LastWriteStands' /\ RedirectIsRight'
  OBVIOUS
<1> USE NobodyAssumption
    DEF LastWriteStands, RedirectIsRight, server, requests, vars
<1>0. TypeOK /\ Orderly /\ DownIsQuiet /\ FileIsWhole /\ LastWriteStands /\ RedirectIsRight
  BY DEF IInv
<1>1. /\ pc \in [Client -> Label] /\ asked \in [Client -> Ask] /\ copy \in [Client -> Config]
      /\ page \in [Client -> Page] /\ at \in [Client -> Address] /\ lock \in Client \cup {Nobody}
  BY <1>0 DEF TypeOK
<1>2. file # Torn => Loaded = file
  BY DEF Loaded
<1>a. ASSUME NEW c \in Client, Open(c) PROVE LastWriteStands' /\ RedirectIsRight'
  BY <1>0, <1>1, <1>a DEF Open
<1>b. ASSUME NEW c \in Client, Login(c) \/ Logout(c) \/ HangUp(c)
      PROVE  LastWriteStands' /\ RedirectIsRight'
  BY <1>0, <1>1, <1>b DEF Login, Logout, HangUp
<1>c. ASSUME NEW c \in Client, Send(c) PROVE LastWriteStands' /\ RedirectIsRight'
  BY <1>0, <1>1, <1>c DEF Send
<1>d. ASSUME NEW c \in Client, Load(c) PROVE LastWriteStands' /\ RedirectIsRight'
  BY <1>0, <1>1, <1>2, <1>d DEF Load
<1>e. ASSUME NEW c \in Client, Truncate(c) PROVE LastWriteStands' /\ RedirectIsRight'
  BY <1>0, <1>1, <1>e DEF Truncate
<1>f. ASSUME NEW c \in Client, Write(c) PROVE LastWriteStands' /\ RedirectIsRight'
  <2>1. lock = c /\ writer = c /\ asked[c] # NoAsk /\ page[c] # "moving"
    BY <1>0, <1>f DEF Write, Orderly
  <2>2. /\ file' # Torn
        /\ asked[c].kind = "settings" => file'.address = asked[c].address
    BY <1>1, <1>f, <2>1, UpdatedType, TornAssumption DEF Write
  <2>3. QED
    BY <1>0, <1>1, <1>f, <2>1, <2>2 DEF Write
<1>g. ASSUME NEW c \in Client, Answer(c) PROVE LastWriteStands' /\ RedirectIsRight'
  <2>1. /\ UNCHANGED <<file, writer>>
        /\ \A d \in Client \ {c} : pc'[d] = pc[d] /\ page'[d] = page[d] /\ at'[d] = at[d]
                                   /\ asked'[d] = asked[d]
        /\ pc'[c] \in {"idle", "restart"}
    BY <1>1, <1>g DEF Answer, Over
  <2>2. CASE RestartNeeded(c)
    <3>1. at'[c] = asked[c].address /\ asked[c].kind = "settings"
      BY <1>1, <1>g, <2>2 DEF Answer, RestartNeeded
    <3>2. writer = c => file # Torn /\ file.address = asked[c].address
      BY <1>0, <1>g, <3>1 DEF Answer
    <3>3. QED
      BY <1>0, <2>1, <3>1, <3>2
  <2>3. CASE ~RestartNeeded(c)
    <3>1. page'[c] = "admin"
      BY <1>1, <1>g, <2>3 DEF Answer
    <3>2. QED
      BY <1>0, <2>1, <3>1
  <2>4. QED
    BY <2>2, <2>3
<1>h. ASSUME NEW c \in Client, AnswerNobody(c) PROVE LastWriteStands' /\ RedirectIsRight'
  BY <1>0, <1>1, <1>h DEF AnswerNobody, Over
<1>i. ASSUME NEW c \in Client, StartTimer(c) PROVE LastWriteStands' /\ RedirectIsRight'
  BY <1>0, <1>1, <1>i DEF StartTimer
<1>j. CASE Exit
  BY <1>0, <1>j DEF Exit
<1>k. CASE Boot
  BY <1>0, <1>2, <1>k DEF Boot, DownIsQuiet
<1>l. CASE UNCHANGED vars
  BY <1>0, <1>l
<1>m. QED
  BY <1>a, <1>b, <1>c, <1>d, <1>e, <1>f, <1>g, <1>h, <1>i, <1>j, <1>k, <1>l DEF Next, Handle
-----------------------------------------------------------------------------
(* The invariant holds of every behaviour of the handlers and the process. *)
THEOREM Invariance == Spec => []IInv
<1>1. IInv /\ [Next]_vars => IInv'
  BY TypeStep, OrderlyStep, PortsStep, LastWriteStep DEF IInv
<1>2. QED
  BY <1>1, InitInv, PTL DEF Spec

(* All variables keep to their declared values.                            *)
THEOREM TypeCorrect == Spec => []TypeOK
<1>1. IInv => TypeOK
  BY DEF IInv
<1>2. QED
  BY <1>1, Invariance, PTL

(* load_ui_config never meets a half-written ui_auth.json while the        *)
(* process runs, nor starts with new credentials but after a crash.        *)
THEOREM WholeFile == Spec => []FileIsWhole
<1>1. IInv => FileIsWhole
  BY DEF IInv
<1>2. QED
  BY <1>1, Invariance, PTL

(* However requests overlap, the process goes on with other ports than the *)
(* file's only if a restart is due or a client has hung up.                *)
THEOREM PortsFollowed == Spec => []RestartFollowsPorts
<1>1. IInv => RestartFollowsPorts
  BY DEF IInv, PortsAccounted, RestartIsDue, RestartFollowsPorts
<1>2. QED
  BY <1>1, Invariance, PTL

(* A browser that saveNetwork redirects goes to the address in the file,   *)
(* unless another request has written since.                               *)
THEOREM RedirectsRight == Spec => []RedirectIsRight
<1>1. IInv => RedirectIsRight
  BY DEF IInv
<1>2. QED
  BY <1>1, Invariance, PTL
=============================================================================
