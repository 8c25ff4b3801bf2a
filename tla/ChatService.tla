---------------------------- MODULE ChatService ----------------------------
(***************************************************************************)
(* The write routes as the clients who call them may understand them.  A   *)
(* request is sent, and at one moment between then and its answer the      *)
(* whole of it happens, on the tables as they are at that moment, or it is *)
(* refused for what they say at that moment (api/messages.py,              *)
(* api/threads.py).  An answer may be lost, and a request with it.  That   *)
(* the interleaved statements of module WritePath implement this makes the *)
(* service linearizable.                                                   *)
(***************************************************************************)
EXTENDS Ledger

CONSTANT Client

VARIABLES req,    \* the request a client has sent
          reply   \* how it was answered

service == <<ledger, req, reply>>

Outcome == {"created", "lost", "not_found", "permission", "exists", "integrity",
            "thread_resolved", "state", "unprocessable"}

ASSUME ClientAssumption == None \notin Client \cup Outcome /\ None \notin Requests

\* What a request is answered on the tables as they are: the refusals in the
\* order of their statements.
Answer(r) ==
    LET row == threads[r.thread]
        verdict == Verdict(row, r, messages, threads)
    IN  CASE r.kind = "open" ->
               IF r.thread \in DOMAIN threads THEN "exists" ELSE "created"
          [] r.kind # "open" /\ r.thread \notin DOMAIN threads -> "not_found"
          [] OTHER ->
               CASE r.kind = "close" /\ ~OwnerCanClose(row, r) -> "permission"
                 [] OTHER -> IF verdict # "accepted" THEN verdict
                             ELSE IF CloseRefused(row, r) THEN "state"
                             ELSE "created"

ServiceInit ==
    /\ LedgerInit
    /\ req = [c \in Client |-> None]
    /\ reply = [c \in Client |-> None]

Send(c, r) ==
    /\ req[c] = None
    /\ req' = [req EXCEPT ![c] = r]
    /\ UNCHANGED <<ledger, reply>>

Accept(c) ==
    /\ req[c] # None /\ reply[c] = None
    /\ Answer(req[c]) = "created"
    /\ OpenThread(req[c]) \/ AppendMessage(req[c])
    /\ \E outcome \in {"created", "lost"} : reply' = [reply EXCEPT ![c] = outcome]
    /\ UNCHANGED req

\* A request may be refused as it arrives or later, but it is refused once.
Refuse(c, r) ==
    /\ req[c] \in {None, r} /\ reply[c] = None
    /\ Answer(r) # "created"
    /\ req' = [req EXCEPT ![c] = r]
    /\ reply' = [reply EXCEPT ![c] = Answer(r)]
    /\ UNCHANGED ledger

\* The server dies on a request that has not happened.
Lose(c) ==
    /\ req[c] # None /\ reply[c] = None
    /\ reply' = [reply EXCEPT ![c] = "lost"]
    /\ UNCHANGED <<ledger, req>>

ServiceNext ==
    \/ \E c \in Client, r \in Requests : Send(c, r) \/ Refuse(c, r)
    \/ \E c \in Client : Accept(c) \/ Lose(c)
    \/ \E t \in ThreadId, s \in OperatorStatuses : SetAside(t, s) /\ UNCHANGED <<req, reply>>

\* The write path is linearizable: however the statements of requests
\* interleave and wherever they are cut off, clients see a server that deals
\* with each request at once, some time between its arrival and its answer.
ServiceSpec == ServiceInit /\ [][ServiceNext]_service
=============================================================================
