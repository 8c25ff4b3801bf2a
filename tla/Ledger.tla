------------------------------- MODULE Ledger -------------------------------
(***************************************************************************)
(* What the chat room promises its clients: a table of threads, an         *)
(* append-only table of messages and an append-only audit log, changed by  *)
(* whole requests one at a time.  Every accepted request is one step that  *)
(* evaluates every rule on the state it changes.  The write path of the    *)
(* server (module WritePath) spreads each step over several statements of  *)
(* a transaction and interleaves them; it is shown to implement this.      *)
(***************************************************************************)
EXTENDS ChatroomRules

CONSTANTS Requests,          \* the requests clients may send
          OperatorStatuses   \* statuses an operator sets with SQL

ASSUME RequestsAssumption == \A r \in Requests : r \in Request /\ RouteShape(r)

ASSUME OperatorAssumption == OperatorStatuses \subseteq {"parked", "superseded"}

VARIABLES threads,    \* thread id -> its row, for the threads that exist
          messages,   \* rows of the messages table
          events      \* rows of chatroom_events

ledger == <<threads, messages, events>>

LedgerInit ==
    /\ threads = [t \in {} |-> None]
    /\ messages = {}
    /\ events = {}

\* POST /threads
OpenThread(r) ==
    LET n == NextNum(messages) IN
    /\ r.kind = "open"
    /\ r.thread \notin DOMAIN threads
    /\ threads' = Put(threads, r.thread, OpenedThread(r, n))
    /\ messages' = messages \cup {NewMessage(r, n)}
    /\ events' = events \cup {OpenEvent(r, n)}

\* POST /threads/{id}/messages and POST /threads/{id}/close
AppendMessage(r) ==
    LET n == NextNum(messages)
        row == threads[r.thread] IN
    /\ r.kind # "open"
    /\ r.thread \in DOMAIN threads
    /\ Verdict(row, r, messages, threads) = "accepted"
    /\ ~CloseRefused(row, r)
    /\ threads' = Put(threads, r.thread, ThreadAfter(row, r, n))
    /\ messages' = messages \cup {NewMessage(r, n)}
    /\ events' = events \cup NewEvents(row, r, n)

\* No endpoint parks or supersedes a thread: an operator updates the row.
SetAside(t, s) ==
    /\ t \in DOMAIN threads
    /\ s \in OperatorStatuses
    /\ threads[t].status # "resolved"
    /\ threads' = [threads EXCEPT ![t].status = s]
    /\ UNCHANGED <<messages, events>>

LedgerNext ==
    \/ \E r \in Requests : OpenThread(r) \/ AppendMessage(r)
    \/ \E t \in ThreadId, s \in OperatorStatuses : SetAside(t, s)

LedgerSpec == LedgerInit /\ [][LedgerNext]_ledger

-----------------------------------------------------------------------------
LedgerTypeOK ==
    /\ DOMAIN threads \subseteq ThreadId
    /\ threads \in [DOMAIN threads -> Thread]
    /\ messages \subseteq Message
    /\ events \subseteq Event

\* Message ids are dense and unique over the whole project, whichever threads
\* the messages went to: they start at 1, every id but the first has its
\* predecessor, and no two rows share one.  A refused or interrupted request
\* leaves no hole (services/msg_id_allocator.py).
NumberingDense ==
    /\ \A m \in messages : m.num > 0 /\ (m.num = 1 \/ m.num - 1 \in Nums(messages))
    /\ \A m1, m2 \in messages : m1.num = m2.num => m1 = m2

\* The stored activity key, the one denormalised value of the schema, is the
\* number of the newest message of its thread: what GET /threads ranks on and
\* the pre-filter of GET /unread relies on (models/thread.py, last_msg_num).
ActivityKeyExact ==
    \A t \in DOMAIN threads :
        /\ threads[t].last \in Nums(InThread(messages, t))
        /\ \A k \in Nums(InThread(messages, t)) : k <= threads[t].last

\* A thread is resolved exactly when resolved_by_msg is set; that message is
\* the only one that ever closed the thread, and it is the thread's last:
\* nothing was posted behind a close, whoever raced it (the R2 and R3 rules of
\* post_message_in_session and get_thread's summary).
ResolvedByItsLastMessage ==
    /\ \A t \in DOMAIN threads :
         threads[t].status = "resolved" <=> threads[t].resolved_by # None
    /\ \A t \in DOMAIN threads : threads[t].resolved_by # None =>
         threads[t].resolved_by = threads[t].last
    /\ \A m \in messages : m.closes # None =>
         /\ m.closes = m.thread
         /\ m.type = "decide"
         /\ m.thread \in DOMAIN threads /\ threads[m.thread].resolved_by = m.num

\* Every thread begins with a propose by its owner, the message its row names
\* as created_by_msg, and contains no other propose; no message is outside a
\* thread (integrity.py, invariants 1 and 2).
ProposeOnceFirst ==
    \A m \in messages :
        /\ m.thread \in DOMAIN threads
        /\ threads[m.thread].created_by <= m.num
        /\ m.type = "propose" <=> m.num = threads[m.thread].created_by
        /\ m.type = "propose" => m.author = threads[m.thread].owner

\* Every link a stored message carries can be followed: a reply answers an
\* earlier message of its own thread, and every referenced thread exists
\* (integrity.py, invariants 4 and 5).
LinksResolve ==
    \A m \in messages :
        /\ m.reply_to # None =>
             \E p \in messages : /\ p.num = m.reply_to /\ p.thread = m.thread
                                 /\ p.num < m.num
        /\ m.refs \subseteq DOMAIN threads

Transitions(t) == {e \in events : e.action = "status_transition" /\ e.thread = t}

\* The transitions log bring a thread to status s: the newest went there, or
\* there is none and it is as it was opened.
LeadTo(log, s) ==
    \/ log = {} /\ s = "active"
    \/ \E e \in log : e.to = s /\ \A d \in log : d.msg <= e.msg

\* The status column can be replayed from the audit log: every transition
\* left the status that those before it had led to, and all of them lead to
\* the status of the thread.  An operator who sets a thread aside leaves no
\* event, so the log then tells the status the thread had until then: no
\* request moves it any more, whatever is posted to it (the transition table
\* of services/status_transition.py and the event of api/messages.py).
StatusReplaysEvents ==
    \A t \in DOMAIN threads :
        /\ \A e \in Transitions(t) :
             LeadTo({d \in Transitions(t) : d.msg < e.msg}, e.from)
        /\ IF threads[t].status \in {"parked", "superseded"}
           THEN \E s \in OpenStatuses : LeadTo(Transitions(t), s)
           ELSE LeadTo(Transitions(t), threads[t].status)

\* A close by somebody other than the owner always leaves the sanction record
\* the audit looks for, on that very message, and no other message carries
\* one: a non-owner close without a record cannot have come through the write
\* path (services/close_sanction.py).
NonOwnerCloseRecorded ==
    \A m \in messages : m.thread \in DOMAIN threads =>
        ((m.closes # None /\ m.author # threads[m.thread].owner)
           <=> \E e \in events : e.msg = m.num /\ e.sanction # None)

-----------------------------------------------------------------------------
\* Messages and events are append-only, and messages become visible in the
\* order of their numbers: nothing committed later ever gets a number below a
\* message some reader has already seen, in this thread or another one.
AppendedInOrder ==
    [][/\ messages \subseteq messages'
       /\ events \subseteq events'
       /\ \A new \in messages' \ messages, old \in messages : old.num < new.num]_ledger

\* A resolved thread is settled: its row never changes again and no message
\* is ever added to it.
ResolvedIsFinal ==
    [][\A t \in DOMAIN threads : threads[t].status = "resolved" =>
         /\ t \in DOMAIN threads'
         /\ threads'[t] = threads[t]
         /\ InThread(messages', t) = InThread(messages, t)]_ledger
=============================================================================
