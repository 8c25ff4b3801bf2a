----------------------------- MODULE WritePath -----------------------------
(***************************************************************************)
(* The three write routes of the server as concurrent transactions on      *)
(* PostgreSQL at READ COMMITTED: every statement of a handler is a step,   *)
(* and the steps of different requests interleave.  A client is one HTTP   *)
(* request; sending the same request again is another client.              *)
(*                                                                         *)
(*   post, close:  Fetch, LockThread, Check, LockProject, Write, Commit    *)
(*   open:         CheckAbsent, LockProject, WriteOpen, Commit             *)
(*                                                                         *)
(* The tables of module Ledger hold what is committed, req and reply of    *)
(* module ChatService what clients have sent and were told; what a         *)
(* transaction has written and not committed is in inserted, logged and    *)
(* view, and its locks are in rowLock (SELECT ... FOR UPDATE on the thread *)
(* row) and projectLock (pg_advisory_xact_lock).                           *)
(***************************************************************************)
EXTENDS ChatService, FiniteSets

VARIABLES pc,           \* where the handler of a request is
          view,         \* the Thread instance in its ORM session
          inserted,     \* messages it inserted and has not committed
          logged,       \* events it inserted and has not committed
          rowLock,      \* who holds the row lock of a thread
          projectLock   \* who holds the advisory lock of the project

session == <<pc, req, view, inserted, logged, reply>>
locks == <<rowLock, projectLock>>
vars == <<ledger, session, locks>>

Waiting == {"lock_thread", "lock_project"}
Holding == {"check", "write", "commit"}

Init ==
    /\ LedgerInit
    /\ pc = [c \in Client |-> "idle"]
    /\ req = [c \in Client |-> None]
    /\ view = [c \in Client |-> None]
    /\ inserted = [c \in Client |-> {}]
    /\ logged = [c \in Client |-> {}]
    /\ rowLock = [t \in ThreadId |-> None]
    /\ projectLock = None
    /\ reply = [c \in Client |-> None]

Start(c, r, next) ==
    /\ pc[c] = "idle"
    /\ pc' = [pc EXCEPT ![c] = next]
    /\ req' = [req EXCEPT ![c] = r]

\* Mistake: a session-level advisory lock, which outlives the transaction.
EndKeepsProject(c, outcome) ==
    /\ pc' = [pc EXCEPT ![c] = "done"]
    /\ reply' = [reply EXCEPT ![c] = outcome]
    /\ view' = [view EXCEPT ![c] = None]
    /\ inserted' = [inserted EXCEPT ![c] = {}]
    /\ logged' = [logged EXCEPT ![c] = {}]
    /\ rowLock' = [t \in ThreadId |-> IF rowLock[t] = c THEN None ELSE rowLock[t]]
    /\ UNCHANGED <<req, projectLock>>

\* The end of a transaction, either way: both locks go with it, and the
\* session with what it has not committed.
End(c, outcome) ==
    /\ pc' = [pc EXCEPT ![c] = "done"]
    /\ reply' = [reply EXCEPT ![c] = outcome]
    /\ view' = [view EXCEPT ![c] = None]
    /\ inserted' = [inserted EXCEPT ![c] = {}]
    /\ logged' = [logged EXCEPT ![c] = {}]
    /\ rowLock' = [t \in ThreadId |-> IF rowLock[t] = c THEN None ELSE rowLock[t]]
    /\ projectLock' = IF projectLock = c THEN None ELSE projectLock
    /\ UNCHANGED req

Rollback(c, outcome) == End(c, outcome) /\ UNCHANGED ledger

-----------------------------------------------------------------------------
(* post_message and close_thread *)

\* fetch_thread_or_raise, without a lock.  close_thread answers 403 from this
\* row, which may be stale by the time the lock is held.
Fetch(c, r) ==
    /\ r.kind # "open"
    /\ r.thread \in DOMAIN threads
    /\ r.kind = "close" => OwnerCanClose(threads[r.thread], r)
    /\ Start(c, r, "lock_thread")
    /\ view' = [view EXCEPT ![c] = threads[r.thread]]
    /\ UNCHANGED <<ledger, inserted, logged, reply, locks>>

FetchRefused(c, r) ==
    /\ r.kind # "open"
    /\ Start(c, r, "done")
    /\ \/ /\ r.thread \notin DOMAIN threads
          /\ reply' = [reply EXCEPT ![c] = "not_found"]
       \/ /\ r.thread \in DOMAIN threads
          /\ r.kind = "close" /\ ~OwnerCanClose(threads[r.thread], r)
          /\ reply' = [reply EXCEPT ![c] = "permission"]
    /\ UNCHANGED <<ledger, view, inserted, logged, locks>>

\* Mistake: the row is locked but the instance keeps what Fetch read.
LockNoRefresh(c) ==
    LET t == req[c].thread IN
    /\ pc[c] = "lock_thread"
    /\ rowLock[t] = None
    /\ rowLock' = [rowLock EXCEPT ![t] = c]
    /\ pc' = [pc EXCEPT ![c] = "check"]
    /\ UNCHANGED <<ledger, req, view, inserted, logged, reply, projectLock>>

\* Mistake: the row is read again but not locked.
RefreshNoLock(c) ==
    /\ pc[c] = "lock_thread"
    /\ view' = [view EXCEPT ![c] = threads[req[c].thread]]
    /\ pc' = [pc EXCEPT ![c] = "check"]
    /\ UNCHANGED <<ledger, req, inserted, logged, reply, locks>>

\* session.refresh(thread, with_for_update=True): takes the row lock and
\* reloads the instance from the locked row.
LockThread(c) ==
    LET t == req[c].thread IN
    /\ pc[c] = "lock_thread"
    /\ rowLock[t] = None
    /\ rowLock' = [rowLock EXCEPT ![t] = c]
    /\ view' = [view EXCEPT ![c] = threads[t]]
    /\ pc' = [pc EXCEPT ![c] = "check"]
    /\ UNCHANGED <<ledger, req, inserted, logged, reply, projectLock>>

\* The pre-write asserts, on the reloaded instance and on the tables.
Check(c) ==
    /\ pc[c] = "check"
    /\ Verdict(view[c], req[c], messages, threads) = "accepted"
    /\ pc' = [pc EXCEPT ![c] = "lock_project"]
    /\ UNCHANGED <<ledger, req, view, inserted, logged, reply, locks>>

CheckRefused(c) ==
    LET v == Verdict(view[c], req[c], messages, threads) IN
    /\ pc[c] = "check"
    /\ v # "accepted"
    /\ Rollback(c, v)

\* Mistake: allocates without the advisory lock.
NoProjectLock(c) ==
    /\ pc[c] = "lock_project"
    /\ pc' = [pc EXCEPT ![c] = "write"]
    /\ UNCHANGED <<ledger, req, view, inserted, logged, reply, locks>>

\* pg_advisory_xact_lock, a statement of its own: the next one sees whatever
\* the previous holder committed.
LockProject(c) ==
    /\ pc[c] = "lock_project"
    /\ projectLock = None
    /\ projectLock' = c
    /\ pc' = [pc EXCEPT ![c] = "write"]
    /\ UNCHANGED <<ledger, req, view, inserted, logged, reply, rowLock>>

\* Reads the newest number, flushes the message, then applies the transition
\* to the instance and adds the events.
Write(c) ==
    LET n == NextNum(messages) IN
    /\ pc[c] = "write" /\ req[c].kind # "open"
    /\ ~CloseRefused(view[c], req[c])
    /\ inserted' = [inserted EXCEPT ![c] = {NewMessage(req[c], n)}]
    /\ logged' = [logged EXCEPT ![c] = NewEvents(view[c], req[c], n)]
    /\ view' = [view EXCEPT ![c] = ThreadAfter(view[c], req[c], n)]
    /\ pc' = [pc EXCEPT ![c] = "commit"]
    /\ UNCHANGED <<ledger, req, reply, locks>>

\* Mistake: the flush is a commit, and the refusal comes too late.
RefusedAfterCommit(c) ==
    /\ pc[c] = "write" /\ req[c].kind # "open"
    /\ CloseRefused(view[c], req[c])
    /\ messages' = messages \cup {NewMessage(req[c], NextNum(messages))}
    /\ UNCHANGED <<threads, events>>
    /\ End(c, "state")

\* compute_transition raises after the flush: the message goes with the rest.
WriteRefused(c) ==
    /\ pc[c] = "write" /\ req[c].kind # "open"
    /\ CloseRefused(view[c], req[c])
    /\ Rollback(c, "state")

-----------------------------------------------------------------------------
(* open_thread *)

CheckAbsent(c, r) ==
    /\ r.kind = "open"
    /\ r.thread \notin DOMAIN threads
    /\ Start(c, r, "lock_project")
    /\ UNCHANGED <<ledger, view, inserted, logged, reply, locks>>

OpenRefused(c, r) ==
    /\ r.kind = "open"
    /\ r.thread \in DOMAIN threads
    /\ Start(c, r, "done")
    /\ reply' = [reply EXCEPT ![c] = "exists"]
    /\ UNCHANGED <<ledger, view, inserted, logged, locks>>

WriteOpen(c) ==
    LET n == NextNum(messages) IN
    /\ pc[c] = "write" /\ req[c].kind = "open"
    /\ req[c].thread \notin DOMAIN threads
    /\ inserted' = [inserted EXCEPT ![c] = {NewMessage(req[c], n)}]
    /\ logged' = [logged EXCEPT ![c] = {OpenEvent(req[c], n)}]
    /\ view' = [view EXCEPT ![c] = OpenedThread(req[c], n)]
    /\ pc' = [pc EXCEPT ![c] = "commit"]
    /\ UNCHANGED <<ledger, req, reply, locks>>

\* The thread was opened since CheckAbsent: threads_pkey refuses the INSERT
\* and the driver's IntegrityError becomes a 409.
WriteOpenRefused(c) ==
    /\ pc[c] = "write" /\ req[c].kind = "open"
    /\ req[c].thread \in DOMAIN threads
    /\ Rollback(c, "exists")

-----------------------------------------------------------------------------
\* The answer can be lost after the commit: the client then knows nothing.
Commit(c) ==
    /\ pc[c] = "commit"
    /\ threads' = Put(threads, req[c].thread, view[c])
    /\ messages' = messages \cup inserted[c]
    /\ events' = events \cup logged[c]
    /\ \E outcome \in {"created", "lost"} : End(c, outcome)

\* The server or its connection dies before the commit.
Crash(c) ==
    /\ pc[c] \in Waiting \cup Holding
    /\ Rollback(c, "lost")

\* An operator's UPDATE waits for the row lock like everybody else's.
OperatorUpdate(t, s) ==
    /\ rowLock[t] = None
    /\ SetAside(t, s)
    /\ UNCHANGED <<session, locks>>

\* Every request has been answered.
Finished == (\A c \in Client : pc[c] = "done") /\ UNCHANGED vars

Begin(c, r) == Fetch(c, r) \/ FetchRefused(c, r) \/ CheckAbsent(c, r) \/ OpenRefused(c, r)

Step(c) ==
    \/ LockThread(c) \/ Check(c) \/ CheckRefused(c)
    \/ LockProject(c)
    \/ Write(c) \/ WriteRefused(c) \/ WriteOpen(c) \/ WriteOpenRefused(c)
    \/ Commit(c)

Next ==
    \/ \E c \in Client, r \in Requests : Begin(c, r)
    \/ \E c \in Client : Step(c) \/ Crash(c)
    \/ \E t \in ThreadId, s \in OperatorStatuses : OperatorUpdate(t, s)
    \/ Finished

Spec == Init /\ [][Next]_vars

\* A handler that can take its next step takes it: nothing it runs blocks but
\* the two locks, and PostgreSQL grants a lock that stays free.  Clients need
\* not send anything, the operator need not act and nothing need crash.
FairSpec == Spec /\ \A c \in Client : WF_vars(Step(c))
-----------------------------------------------------------------------------
TypeOK ==
    /\ LedgerTypeOK
    /\ pc \in [Client -> Waiting \cup Holding \cup {"idle", "done"}]
    /\ req \in [Client -> Requests \cup {None}]
    /\ view \in [Client -> Thread \cup {None}]
    /\ inserted \in [Client -> SUBSET Message]
    /\ logged \in [Client -> SUBSET Event]
    /\ rowLock \in [ThreadId -> Client \cup {None}]
    /\ projectLock \in Client \cup {None}
    /\ reply \in [Client -> Outcome \cup {None}]

\* The number an open transaction has taken is still the next one when it
\* commits, and what it is about to write into the thread row is still based
\* on the committed row: no lost update, no primary-key collision.
NothingOvertaken ==
    \A c \in Client : pc[c] = "commit" =>
        LET r == req[c]
            n == NextNum(messages) IN
        /\ inserted[c] = {NewMessage(r, n)}
        /\ IF r.kind = "open"
           THEN r.thread \notin DOMAIN threads
           ELSE /\ r.thread \in DOMAIN threads
                /\ Verdict(threads[r.thread], r, messages, threads) = "accepted"
                /\ ~CloseRefused(threads[r.thread], r)
                /\ view[c] = ThreadAfter(threads[r.thread], r, n)

\* A request that waits for a lock.
Blocked(c) ==
    \/ pc[c] = "lock_thread" /\ rowLock[req[c].thread] # None
    \/ pc[c] = "lock_project" /\ projectLock # None

\* Requests never wait for each other in a circle, and no lock outlives the
\* transaction that took it: as long as a request is open, one of the open
\* requests can go on by itself.  A handler that always may crash would hide a
\* deadlock from a search for states without a next step.
NobodyStuck ==
    (\E c \in Client : pc[c] \in Waiting \cup Holding) =>
        \E c \in Client : pc[c] \in Waiting \cup Holding /\ ~Blocked(c)

ReplyTruthful(c) ==
    LET r == req[c] IN
    /\ reply[c] = "created" => \E m \in messages : m = NewMessage(r, m.num)
    /\ reply[c] \in {"exists", "permission", "thread_resolved", "state"} =>
         r.thread \in DOMAIN threads
    /\ reply[c] = "permission" => r.author # threads[r.thread].owner /\ ~r.override
    /\ reply[c] = "thread_resolved" => threads[r.thread].status = "resolved"
    /\ reply[c] = "state" => threads[r.thread].status \in {"superseded", "parked"}

\* An answer stays true after it was given: an accepted message is in the
\* table, a thread reported resolved is resolved, and so on.  The other
\* refusals (404, failed asserts) may be overtaken by later requests.
RepliesTruthful == \A c \in Client : ReplyTruthful(c)

\* Two requests that were both told 201 are two messages, however alike.
CreatedOncePerRequest ==
    \A r \in Requests :
        Cardinality({c \in Client : reply[c] = "created" /\ req[c] = r})
          <= Cardinality({m \in messages : m = NewMessage(r, m.num)})

\* Every request that was started is answered: the two locks are always taken
\* row first, so no circle of waiters can form.
EveryRequestAnswered ==
    \A c \in Client : pc[c] # "idle" ~> pc[c] = "done"
=============================================================================
