------------------------------- MODULE PyPage -------------------------------
(***************************************************************************)
(* The Python service's control page: the script of INDEX_HTML keeps a     *)
(* copy of the server's is_connecting, which one-second polls, a ten-      *)
(* second refresh and the answers to the user's requests update, each an   *)
(* asynchronous function that goes on when its fetch is answered.          *)
(*                                                                         *)
(* Call is a set of slots for these functions: as many can be suspended at *)
(* once.  Not kept: everything the page shows but the flag; node tests,    *)
(* which hold up the refresh and end; a hidden tab.                        *)
(***************************************************************************)
EXTENDS Naturals, FiniteSets

CONSTANTS
  Call,    \* slots for suspended functions
  Fails    \* whether a fetch may fail

VARIABLES
  flag,        \* the server's is_connecting
  connecting,  \* state.is_connecting of the page
  polling,     \* whether pollInterval is set
  kind,        \* of each call: the function that is suspended,
  reply        \*   and what its fetch has brought: nothing yet, a flag, an error

vars == <<flag, connecting, polling, kind, reply>>

Kind == {"none", "poll", "probe", "load", "refresh", "connect", "disconnect"}
Reply == {"none", "true", "false", "error"}

TypeOK ==
  /\ flag \in BOOLEAN /\ connecting \in BOOLEAN /\ polling \in BOOLEAN
  /\ kind \in [Call -> Kind]
  /\ reply \in [Call -> Reply]
-----------------------------------------------------------------------------
\* The page has been loaded; its script calls load().
Init ==
  /\ flag \in BOOLEAN
  /\ connecting = FALSE
  /\ polling = FALSE
  /\ \E i \in Call : kind = [j \in Call |-> IF j = i THEN "load" ELSE "none"]
  /\ reply = [i \in Call |-> "none"]

Fetch(i, k) == kind' = [kind EXCEPT ![i] = k] /\ reply' = [reply EXCEPT ![i] = "none"]
Begin(i, k) == kind[i] = "none" /\ Fetch(i, k)
Done(i) == Fetch(i, "none")

PollTick(i) == polling /\ Begin(i, "poll") /\ UNCHANGED <<flag, connecting, polling>>
RefreshTick(i) == ~connecting /\ Begin(i, "refresh") /\ UNCHANGED <<flag, connecting, polling>>

ConnectNode(i) ==
  /\ ~connecting
  /\ connecting' = TRUE
  /\ polling' = TRUE
  /\ Begin(i, "connect")
  /\ UNCHANGED flag

DisconnectNode(i) == Begin(i, "disconnect") /\ UNCHANGED <<flag, connecting, polling>>

\* The server answers with its flag at that moment, or the fetch fails.
Answer(i) ==
  /\ kind[i] # "none" /\ reply[i] = "none"
  /\ \/ reply' = [reply EXCEPT ![i] = IF flag THEN "true" ELSE "false"]
     \/ Fails /\ reply' = [reply EXCEPT ![i] = "error"]
  /\ UNCHANGED <<flag, connecting, polling, kind>>

\* The server's threads set and clear the flag.
ServerFlag == flag' = ~flag /\ UNCHANGED <<connecting, polling, kind, reply>>
-----------------------------------------------------------------------------
Resumes(i, k) == kind[i] = k /\ reply[i] # "none"

PollDone(i) ==
  /\ Resumes(i, "poll")
  /\ connecting' = IF reply[i] = "error" THEN connecting ELSE reply[i] = "true"
  /\ polling' = (polling /\ reply[i] = "true")
  /\ CASE reply[i] = "true"  -> Done(i)
       [] reply[i] = "false" -> Fetch(i, "probe")
       [] reply[i] = "error" -> Fetch(i, "load")
  /\ UNCHANGED flag

\* A request that is followed by load(), even after an error of test_proxy.
ProbeDone(i) ==
  /\ Resumes(i, "probe")
  /\ Fetch(i, "load")
  /\ UNCHANGED <<flag, connecting, polling>>

DisconnectDone(i) ==
  /\ Resumes(i, "disconnect")
  /\ Fetch(i, IF reply[i] = "error" THEN "none" ELSE "probe")
  /\ UNCHANGED <<flag, connecting, polling>>

LoadDone(i) ==
  /\ Resumes(i, "load")
  /\ connecting' = IF reply[i] = "error" THEN connecting ELSE reply[i] = "true"
  /\ polling' = (polling \/ reply[i] = "true")
  /\ Done(i)
  /\ UNCHANGED flag

RefreshDone(i) ==
  /\ Resumes(i, "refresh")
  /\ connecting' = IF reply[i] = "error" THEN connecting ELSE reply[i] = "true"
  /\ Done(i)
  /\ UNCHANGED <<flag, polling>>

\* connect_node's answer comes when it has ended; an error stops the polls.
ConnectDone(i) ==
  /\ Resumes(i, "connect")
  /\ \/ reply[i] # "error" /\ UNCHANGED <<connecting, polling>>
     \/ connecting' = FALSE /\ polling' = FALSE
  /\ Done(i)
  /\ UNCHANGED flag

Resume(i) ==
  \/ PollDone(i) \/ ProbeDone(i) \/ DisconnectDone(i) \/ LoadDone(i) \/ RefreshDone(i) \/ ConnectDone(i)

Next ==
  \/ \E i \in Call : \/ PollTick(i) \/ RefreshTick(i) \/ Answer(i) \/ Resume(i)
                     \/ ConnectNode(i) \/ DisconnectNode(i)
  \/ ServerFlag

\* The browser's timers fire, fetches are answered and their functions go on.
FairSpec ==
  /\ Init /\ [][Next]_vars
  /\ \A i \in Call : WF_vars(Answer(i)) /\ WF_vars(Resume(i))
  /\ SF_vars(\E i \in Call : PollTick(i))
  /\ SF_vars(\E i \in Call : RefreshTick(i))

(* "无需手动刷新页面" (vpngate_manager.py:3752): the page needs no reload.  *)
(* When the server has come to rest with is_connecting cleared, the page   *)
(* shows that in the end, though its user does nothing.                    *)
PageCatchesUp == <>[]~flag => []<>~connecting
=============================================================================
