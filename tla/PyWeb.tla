-------------------------------- MODULE PyWeb --------------------------------
(***************************************************************************)
(* Settings, sessions and restarts of the Python service's web interface:  *)
(* the handlers of vpngate_manager.py that read and write ui_auth.json,    *)
(* the forms of its two pages that call them, and the restart by os._exit  *)
(* that a change of ports or of the secret path brings about.              *)
(*                                                                         *)
(* A Client is a browser with one tab and one request at a time.  Each     *)
(* request has a thread, which reads the file, changes its copy and writes *)
(* all of it back.  load_ui_config and each write hold the module's lock,  *)
(* which is free in between.  Path.write_text empties the file first.      *)
(*                                                                         *)
(* Not kept: the cookie's path and its 30 days, the other uses of the      *)
(* lock, other fields of the file.  The web and the proxy port are one     *)
(* value; the service manager, which starts the process again, is external.*)
(***************************************************************************)
EXTENDS Naturals, FiniteSets

CONSTANTS
  Client,
  Cred,         \* user names with their passwords
  Address,      \* a pair of a web and a proxy port that differ, and a secret path
  Mode,         \* routing modes
  DefaultAddress, DefaultMode,
  Random,       \* generated credentials
  Torn          \* a file that is not JSON

ASSUME DefaultAssumption == DefaultAddress \in Address /\ DefaultMode \in Mode
ASSUME RandomAssumption == Random \notin Cred

Config == [cred : Cred \cup {Random}, address : Address, mode : Mode]
ASSUME TornAssumption == Torn \notin Config

Nobody == "nobody"
ASSUME NobodyAssumption == Nobody \notin Client

VARIABLES
  file,       \* ui_auth.json
  up,         \* whether the process runs
  running,    \*   and the ports it listens on
  lock,       \* the client whose request is writing, or Nobody
  timer,      \* whether a restart_server thread sleeps
  sessions,   \* active_sessions: clients with a valid cookie
  page, at,   \* of each client: the page shown and the address it is from
  pc, asked,  \*   its request and what it asks for
  copy,       \*   and the request's copy of the configuration
  writer,     \* history: the last request to write
  hungUp      \* history: a client that went away before its answer

server == <<file, up, running, lock, timer, sessions>>
requests == <<pc, asked, copy>>
vars == <<server, page, at, requests, writer, hungUp>>

Page == {"none", "login", "admin", "moving"}
Label == {"idle", "load", "write", "writing", "answer", "restart"}
Ask == [kind : {"none"}]
       \cup [kind : {"credentials"}, cred : Cred]
       \cup [kind : {"settings"}, address : Address, mode : Mode]
       \cup [kind : {"routing"}, mode : Mode]
NoAsk == [kind |-> "none"]

\* load_ui_config of a file that is missing or not JSON.
Default == [cred |-> Random, address |-> DefaultAddress, mode |-> DefaultMode]
Loaded == IF file = Torn THEN Default ELSE file
Nowhere == DefaultAddress   \* the address of no page
-----------------------------------------------------------------------------
Init ==
  /\ file \in [cred : Cred, address : {DefaultAddress}, mode : {DefaultMode}]
  /\ up = TRUE
  /\ running = file.address.ports
  /\ lock = Nobody
  /\ timer = FALSE
  /\ sessions = {}
  /\ page = [c \in Client |-> "none"]
  /\ at = [c \in Client |-> Nowhere]
  /\ pc = [c \in Client |-> "idle"]
  /\ asked = [c \in Client |-> NoAsk]
  /\ copy = [c \in Client |-> Default]
  /\ writer = Nobody
  /\ hungUp = FALSE

\* validate_path of a request to address a, and the listening port.
Reaches(a) == up /\ lock = Nobody /\ running = a.ports /\ Loaded.address.path = a.path

\* A page is loaded: the address typed, a reload, or saveNetwork's redirect.
Open(c) ==
  /\ pc[c] = "idle"
  /\ lock = Nobody
  /\ \E a \in IF page[c] = "moving" THEN {at[c]} ELSE Address :
       /\ at' = [at EXCEPT ![c] = IF Reaches(a) THEN a ELSE Nowhere]
       /\ page' = [page EXCEPT ![c] =
            IF ~Reaches(a) THEN "none" ELSE IF c \in sessions THEN "admin" ELSE "login"]
  /\ UNCHANGED <<server, requests, writer, hungUp>>

\* /api/login; the login page reloads.
Login(c) ==
  /\ page[c] = "login" /\ Reaches(at[c])
  /\ sessions' = sessions \cup {c}
  /\ page' = [page EXCEPT ![c] = "admin"]
  /\ UNCHANGED <<file, up, running, lock, timer, at, requests, writer, hungUp>>

\* /api/logout needs no session; the page reloads.
Logout(c) ==
  /\ page[c] = "admin" /\ pc[c] = "idle" /\ Reaches(at[c])
  /\ sessions' = sessions \ {c}
  /\ page' = [page EXCEPT ![c] = "login"]
  /\ UNCHANGED <<file, up, running, lock, timer, at, requests, writer, hungUp>>

\* One of the three forms is sent, by a client with a session (is_authorized),
\* with values that pass the handler's checks.
Send(c) ==
  /\ page[c] = "admin" /\ pc[c] = "idle" /\ Reaches(at[c])
  /\ c \in sessions
  /\ \E ask \in Ask \ {NoAsk} : asked' = [asked EXCEPT ![c] = ask]
  /\ pc' = [pc EXCEPT ![c] = "load"]
  /\ UNCHANGED <<server, page, at, copy, writer, hungUp>>
-----------------------------------------------------------------------------
(* The thread of a request that is past the checks. *)
Load(c) ==
  /\ pc[c] = "load" /\ lock = Nobody
  /\ copy' = [copy EXCEPT ![c] = Loaded]
  /\ file' = Loaded
  /\ pc' = [pc EXCEPT ![c] = "write"]
  /\ UNCHANGED <<up, running, lock, timer, sessions, page, at, asked, writer, hungUp>>

\* The bug of a write that does not take the lock.
TruncateUnlocked(c) ==
  /\ pc[c] = "write"
  /\ file' = Torn
  /\ writer' = c
  /\ pc' = [pc EXCEPT ![c] = "writing"]
  /\ UNCHANGED <<up, running, lock, timer, sessions, page, at, asked, copy, hungUp>>

Truncate(c) ==
  /\ pc[c] = "write" /\ lock = Nobody
  /\ lock' = c
  /\ file' = Torn
  /\ writer' = c
  /\ pc' = [pc EXCEPT ![c] = "writing"]
  /\ UNCHANGED <<up, running, timer, sessions, page, at, asked, copy, hungUp>>

\* The bug of writing what was sent, without the rest of the file.
UpdatedPayload(cfg, ask) == ask

Updated(cfg, ask) ==
  CASE ask.kind = "credentials" -> [cfg EXCEPT !.cred = ask.cred]
    [] ask.kind = "settings" ->
         [cfg EXCEPT !.address = ask.address, !.mode = ask.mode]
    [] ask.kind = "routing" -> [cfg EXCEPT !.mode = ask.mode]

\* The whole copy, with what was asked for.
Write(c) ==
  /\ pc[c] = "writing"
  /\ file' = Updated(copy[c], asked[c])
  /\ lock' = Nobody
  /\ pc' = [pc EXCEPT ![c] = "answer"]
  /\ UNCHANGED <<up, running, timer, sessions, page, at, asked, copy, writer, hungUp>>

\* The bug of comparing the paths alone.
RestartForPathOnly(c) == asked[c].kind = "settings" /\ asked[c].address.path # copy[c].address.path

\* restart_needed, from the copy as it was loaded.
RestartNeeded(c) == asked[c].kind = "settings" /\ asked[c].address # copy[c].address

\* The request is over: its thread ends, or is about to start another one.
Over(c, l) ==
  /\ pc' = [pc EXCEPT ![c] = l]
  /\ asked' = [asked EXCEPT ![c] = NoAsk]
  /\ copy' = [copy EXCEPT ![c] = Default]

\* The bug of a redirect to the old path.
AnswerOldPath(c) ==
  /\ pc[c] = "answer" /\ page[c] # "none"
  /\ Over(c, IF RestartNeeded(c) THEN "restart" ELSE "idle")
  /\ page' = [page EXCEPT ![c] = IF RestartNeeded(c) THEN "moving" ELSE "admin"]
  /\ at' = [at EXCEPT ![c].ports = IF RestartNeeded(c) THEN asked[c].address.ports ELSE @]
  /\ UNCHANGED <<server, writer, hungUp>>

\* The page gets the answer; saveNetwork will redirect to the address it asked for.
Answer(c) ==
  /\ pc[c] = "answer" /\ page[c] # "none"
  /\ Over(c, IF RestartNeeded(c) THEN "restart" ELSE "idle")
  /\ page' = [page EXCEPT ![c] = IF RestartNeeded(c) THEN "moving" ELSE "admin"]
  /\ at' = [at EXCEPT ![c] = IF RestartNeeded(c) THEN asked[c].address ELSE @]
  /\ UNCHANGED <<server, writer, hungUp>>

\* The client has gone.  Writing to its socket may raise; so does the answer
\* of the except clause, and the restart thread is never started.
AnswerNobody(c) ==
  /\ pc[c] = "answer" /\ page[c] = "none"
  /\ \/ Over(c, IF RestartNeeded(c) THEN "restart" ELSE "idle") /\ UNCHANGED hungUp
     \/ Over(c, "idle") /\ hungUp' = TRUE
  /\ UNCHANGED <<server, page, at, writer>>

StartTimer(c) ==
  /\ pc[c] = "restart"
  /\ timer' = TRUE
  /\ pc' = [pc EXCEPT ![c] = "idle"]
  /\ UNCHANGED <<file, up, running, lock, sessions, page, at, asked, copy, writer, hungUp>>

HangUp(c) ==
  /\ pc[c] \in {"load", "write", "writing", "answer"} /\ page[c] # "none"
  /\ page' = [page EXCEPT ![c] = "none"]
  /\ at' = [at EXCEPT ![c] = Nowhere]
  /\ UNCHANGED <<server, requests, writer, hungUp>>

\* The bug of a restart that waits for the last session to end.
ExitGraceful ==
  /\ up /\ timer /\ sessions = {}
  /\ up' = FALSE
  /\ timer' = FALSE
  /\ lock' = Nobody
  /\ pc' = [c \in Client |-> "idle"]
  /\ asked' = [c \in Client |-> NoAsk]
  /\ copy' = [c \in Client |-> Default]
  /\ UNCHANGED <<file, running, sessions, page, at, writer, hungUp>>

\* restart_server after its two seconds: os._exit, wherever the others are.
Exit ==
  /\ up /\ timer
  /\ up' = FALSE
  /\ timer' = FALSE
  /\ lock' = Nobody
  /\ sessions' = {}
  /\ pc' = [c \in Client |-> "idle"]
  /\ asked' = [c \in Client |-> NoAsk]
  /\ copy' = [c \in Client |-> Default]
  /\ UNCHANGED <<file, running, page, at, writer, hungUp>>

\* The service manager starts the process again.
Boot ==
  /\ ~up
  /\ up' = TRUE
  /\ file' = Loaded
  /\ running' = Loaded.address.ports
  /\ UNCHANGED <<lock, timer, sessions, page, at, requests, writer, hungUp>>

Handle(c) ==
  Load(c) \/ Truncate(c) \/ Write(c) \/ Answer(c) \/ AnswerNobody(c) \/ StartTimer(c)

Next ==
  \/ \E c \in Client : Handle(c) \/ Open(c) \/ Login(c) \/ Logout(c) \/ Send(c) \/ HangUp(c)
  \/ Exit
  \/ Boot

\* A thread in the lock's queue gets it some day; the timer and the service
\* manager do what they are for.
Fairness == /\ \A c \in Client : SF_vars(Handle(c))
            /\ WF_vars(Exit)
            /\ WF_vars(Boot)

Spec == Init /\ [][Next]_vars
FairSpec == Spec /\ Fairness
=============================================================================
