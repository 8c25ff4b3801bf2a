--------------------------- MODULE ChatroomRules ---------------------------
(***************************************************************************)
(* The rules a write has to pass and the rows it leaves behind, as pure    *)
(* operators on a thread row, a request and the tables.  They translate    *)
(* the asserts of services/integrity.py, services/permissions.py, the      *)
(* transition table of services/status_transition.py, the allocator's      *)
(* arithmetic and the rows that api/messages.py and api/threads.py build.  *)
(*                                                                         *)
(* One project is modelled: every statement filters on the project.  A     *)
(* message id "msg-NNN" is its number.  Content, title, tags, commit_ref,  *)
(* related_tasks, embodiment and timestamps decide nothing here and are    *)
(* left out.                                                               *)
(***************************************************************************)
EXTENDS Naturals

CONSTANTS ThreadId,   \* thread ids a client may name
          Author,     \* identities that write
          None        \* SQL NULL, and "field not supplied"

OpenStatuses == {"active", "awaiting_reply"}
Status == OpenStatuses \cup {"resolved", "superseded", "parked"}

MsgType == {"propose", "question", "answer", "decide", "report", "handoff", "ack"}

CloseSanctionKind == {"human_override", "pr_gate_ledger", "naysayer_approved", "unspecified"}

\* A close_sanction that passed CloseSanction._evidence_matches_kind: only
\* naysayer_approved points at a message of this database.
CloseSanction == {s \in [kind : CloseSanctionKind, review : Nat \cup {None}] :
                    s.kind = "naysayer_approved" <=> s.review # None}

Unspecified == [kind |-> "unspecified", review |-> None]

ASSUME NoneAssumption == /\ None \notin ThreadId \cup Author \cup Nat
                         /\ None \notin CloseSanction

\* A row of the threads table.
Thread == [owner : Author, status : Status, created_by : Nat,
           resolved_by : Nat \cup {None}, last : Nat, affects : SUBSET ThreadId]

\* A row of the messages table; num is the numeric part of msg_id.
Message == [num : Nat, thread : ThreadId, author : Author, type : MsgType,
            closes : ThreadId \cup {None}, reply_to : Nat \cup {None},
            refs : SUBSET ThreadId, next : Author \cup {None},
            disposition : {"done", "blocked_on", None}, role : {"naysayer", None}]

\* A row of chatroom_events written by the three write routes.
Event == [action : {"open_thread", "post_message", "status_transition"},
          thread : ThreadId, msg : Nat, from : Status \cup {None},
          to : Status \cup {None}, override : BOOLEAN,
          sanction : CloseSanction \cup {None}]

\* The arguments that reach the write path, whichever route they came by.
Request == [kind : {"open", "post", "close"}, thread : ThreadId, author : Author,
            type : MsgType, closes : ThreadId \cup {None},
            reply_to : Nat \cup {None}, refs : SUBSET ThreadId,
            next : Author \cup {None}, disposition : {"done", "blocked_on", None},
            role : {"naysayer", None}, override : BOOLEAN,
            sanction : CloseSanction \cup {None}, affects : SUBSET ThreadId]

\* What the routes fill in themselves: open_thread writes a plain propose by
\* the owner, close_thread a decide that closes the thread of its URL.
RouteShape(r) ==
    /\ r.kind = "open" =>
         /\ r.type = "propose" /\ r.closes = None /\ r.reply_to = None
         /\ r.refs = {} /\ r.disposition = None /\ r.sanction = None
    /\ r.kind = "close" =>
         /\ r.type = "decide" /\ r.closes = r.thread /\ r.reply_to = None
         /\ r.refs = {} /\ r.disposition = None
    /\ r.kind # "close" => r.affects = {}

-----------------------------------------------------------------------------
(* Reads over the tables *)

Nums(msgs) == {m.num : m \in msgs}

InThread(msgs, t) == {m \in msgs : m.thread = t}

\* Mistake: hands out the newest number again.
NextNumOffByOne(msgs) ==
    IF msgs = {} THEN 1
    ELSE CHOOSE n \in Nums(msgs) : \A k \in Nums(msgs) : k <= n

\* allocate_next_msg_id, once its advisory lock is held.
NextNum(msgs) ==
    IF msgs = {} THEN 1
    ELSE (CHOOSE n \in Nums(msgs) : \A k \in Nums(msgs) : k <= n) + 1

\* INSERT or UPDATE of one row of a table keyed by its domain.
Put(table, key, row) ==
    [k \in DOMAIN table \cup {key} |-> IF k = key THEN row ELSE table[k]]

-----------------------------------------------------------------------------
(* The pre-write asserts *)

\* permissions.assert_owner_can_close
OwnerCanClose(row, r) == r.override \/ r.author = row.owner

\* Mistake: the R2 rule spares every thread.
WritableAlways(row) == TRUE

\* integrity.assert_thread_writable
ThreadWritable(row) == row.status # "resolved"

\* Mistake: checks that a thread begins with a propose, not that it has one.
ProposeAgain(row, r, msgs) == r.type # "propose" => InThread(msgs, r.thread) # {}

\* integrity.assert_propose_invariant
ProposeInvariant(row, r, msgs) ==
    IF r.type = "propose"
    THEN InThread(msgs, r.thread) = {} /\ r.author = row.owner
    ELSE InThread(msgs, r.thread) # {}

\* integrity.assert_closes_thread_rule
ClosesThreadRule(row, r) ==
    r.closes # None => /\ r.type = "decide"
                       /\ r.closes = r.thread
                       /\ r.author = row.owner \/ r.override

\* integrity.assert_next_participant_rule
NextParticipantRule(r) == r.closes # None => r.next = None

\* integrity.assert_disposition_close_rule
DispositionCloseRule(r) == r.closes # None => r.disposition # "blocked_on"

\* Mistake: looks the answered message up in the project.
ReplyToAnywhere(r, msgs) == r.reply_to # None => r.reply_to \in Nums(msgs)

\* integrity.assert_reply_to_in_thread
ReplyToInThread(r, msgs) ==
    r.reply_to # None => r.reply_to \in Nums(InThread(msgs, r.thread))

\* integrity.assert_references_threads_exist
ReferencesExist(r, thrs) == r.refs \subseteq DOMAIN thrs

\* integrity.assert_close_sanction_evidence; the other kinds are not checked.
SanctionEvidence(r, msgs) ==
    (r.sanction # None /\ r.sanction.kind = "naysayer_approved") =>
        \E m \in InThread(msgs, r.thread) :
            m.num = r.sanction.review /\ m.role = "naysayer"

IntegrityAsserts(row, r, msgs, thrs) ==
    /\ ProposeInvariant(row, r, msgs)
    /\ ClosesThreadRule(row, r)
    /\ NextParticipantRule(r)
    /\ DispositionCloseRule(r)
    /\ ReplyToInThread(r, msgs)
    /\ ReferencesExist(r, thrs)

\* The asserts in the order post_message_in_session calls them: the error the
\* client sees is the class of the first one that fails.
Verdict(row, r, msgs, thrs) ==
    CASE ~ThreadWritable(row) -> "thread_resolved"
      [] ThreadWritable(row) /\ ~IntegrityAsserts(row, r, msgs, thrs) -> "integrity"
      [] ThreadWritable(row) /\ IntegrityAsserts(row, r, msgs, thrs)
            /\ ~SanctionEvidence(r, msgs) -> "unprocessable"
      [] OTHER -> "accepted"

-----------------------------------------------------------------------------
(* The status transition *)

ClosesItsThread(r) == r.type = "decide" /\ r.closes = r.thread

\* Mistake: only an active thread can be closed.
CloseRefusedAwaiting(row, r) == ClosesItsThread(r) /\ row.status # "active"

\* compute_transition raises ChatroomStateError: a close of a thread that was
\* set aside.
CloseRefused(row, r) == ClosesItsThread(r) /\ row.status \notin OpenStatuses

\* Mistake: a handoff wakes up a thread that was set aside.
StatusAfterWaking(row, r) ==
    CASE r.type = "handoff" /\ row.status # "resolved" -> "awaiting_reply"
      [] r.type = "ack" /\ row.status = "awaiting_reply" -> "active"
      [] ClosesItsThread(r) -> "resolved"
      [] OTHER -> row.status

StatusAfter(row, r) ==
    CASE r.type = "handoff" /\ row.status = "active" -> "awaiting_reply"
      [] r.type = "ack" /\ row.status = "awaiting_reply" -> "active"
      [] ClosesItsThread(r) -> "resolved"
      [] OTHER -> row.status

-----------------------------------------------------------------------------
(* The rows a write leaves behind *)

NewMessage(r, n) ==
    [num |-> n, thread |-> r.thread, author |-> r.author, type |-> r.type,
     closes |-> r.closes, reply_to |-> r.reply_to, refs |-> r.refs,
     next |-> r.next, disposition |-> r.disposition, role |-> r.role]

OpenedThread(r, n) ==
    [owner |-> r.author, status |-> "active", created_by |-> n,
     resolved_by |-> None, last |-> n, affects |-> {}]

\* Mistake: one of the two write sites forgets the activity key.
ThreadAfterNoKey(row, r, n) ==
    [row EXCEPT !.status = StatusAfter(row, r),
                !.resolved_by = IF ClosesItsThread(r) THEN n ELSE @,
                !.affects = IF r.kind = "close" THEN r.affects ELSE @]

\* The thread row after post_message_in_session, and after close_thread's
\* assignment of affects_threads.
ThreadAfter(row, r, n) ==
    [row EXCEPT !.last = n,
                !.status = StatusAfter(row, r),
                !.resolved_by = IF ClosesItsThread(r) THEN n ELSE @,
                !.affects = IF r.kind = "close" THEN r.affects ELSE @]

\* Mistake: records what the request carried, nothing if it carried nothing.
SanctionAsSent(row, r) ==
    IF r.closes # None /\ r.author # row.owner THEN r.sanction ELSE None

\* The sanction the post_message event records: one for every close by
\* somebody other than the owner, and for nothing else.
SanctionRecorded(row, r) ==
    IF r.closes # None /\ r.author # row.owner
    THEN IF r.sanction = None THEN Unspecified ELSE r.sanction
    ELSE None

TransitionEvent(row, r, n) ==
    [action |-> "status_transition", thread |-> r.thread, msg |-> n,
     from |-> row.status, to |-> StatusAfter(row, r),
     override |-> FALSE, sanction |-> None]

PostEvent(row, r, n) ==
    [action |-> "post_message", thread |-> r.thread, msg |-> n,
     from |-> None, to |-> None,
     override |-> r.override /\ r.author # row.owner,
     sanction |-> SanctionRecorded(row, r)]

NewEvents(row, r, n) ==
    {PostEvent(row, r, n)} \cup
    (IF StatusAfter(row, r) # row.status THEN {TransitionEvent(row, r, n)} ELSE {})

OpenEvent(r, n) ==
    [action |-> "open_thread", thread |-> r.thread, msg |-> n, from |-> None,
     to |-> None, override |-> FALSE, sanction |-> None]
=============================================================================
