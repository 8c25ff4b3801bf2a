--------------------------- MODULE IntegrityAudit ---------------------------
(***************************************************************************)
(* GET /integrity (services/integrity.py, audit_project) beside a ledger   *)
(* that keeps changing.  The audit reads threads, then messages, then the  *)
(* events of the closes it has to explain, each in a statement with a      *)
(* snapshot of its own; what it reports is computed from the three.        *)
(*                                                                         *)
(* The tables may also be changed by raw SQL, past every rule of the write *)
(* path: that is what the audit is there to find.  A close is classified   *)
(* by its own time stamp; Stamped says which messages were written at or   *)
(* after sanction_recording_since, and is empty if none is configured.     *)
(***************************************************************************)
EXTENDS Ledger

CONSTANTS Stamped,       \* numbers of the messages written since the cutover
          Planted,       \* messages inserted by raw SQL
          WrongKeys,     \* activity keys set by raw SQL
          BareStatuses,  \* statuses of threads inserted by raw SQL
          MaxMessages,   \* bound on the messages
          MaxEdits       \* bound on the statements of raw SQL

ASSUME AuditAssumption ==
    /\ Stamped \subseteq Nat
    /\ Planted \subseteq Request
    /\ WrongKeys \subseteq Nat
    /\ BareStatuses \subseteq Status
    /\ MaxMessages \in Nat
    /\ MaxEdits \in Nat

VARIABLES edits,          \* statements of raw SQL so far
          stage,          \* where the handler is
          start,          \* the next message number when it began
          seenThreads,    \* threads_by_id
          seenMessages,   \* msg_rows
          report          \* what it returned

audit == <<stage, start, seenThreads, seenMessages, report>>
vars == <<ledger, edits, audit>>

SanctionedKind == CloseSanctionKind \ {"unspecified"}

NoReport == [issues |-> {}, sanctioned |-> {}, unattributable |-> {}]

Init ==
    /\ LedgerInit
    /\ edits = 0
    /\ stage = "threads"
    /\ start = 0
    /\ seenThreads = [t \in {} |-> None]
    /\ seenMessages = {}
    /\ report = NoReport

-----------------------------------------------------------------------------
(* What the audit makes of the rows it read *)

Issue(type, t, n) == [type |-> type, thread |-> t, msg |-> n]

About(type, msgs) == {Issue(type, m.thread, m.num) : m \in msgs}

First(msgs, t) ==
    CHOOSE m \in InThread(msgs, t) : \A k \in InThread(msgs, t) : m.num <= k.num

Orphans(thrs, msgs) == {m \in msgs : m.thread \notin DOMAIN thrs}

Empty(thrs, msgs) == {t \in DOMAIN thrs : InThread(msgs, t) = {}}

WrongFirst(thrs, msgs) ==
    {m \in {First(msgs, t) : t \in DOMAIN thrs \ Empty(thrs, msgs)} :
        m.type # "propose" \/ m.author # thrs[m.thread].owner}

NonOwnerCloses(thrs, msgs) ==
    {m \in msgs : /\ m.closes # None
                  /\ m.thread \in DOMAIN thrs
                  /\ m.author # thrs[m.thread].owner}

\* Mistake: joins by thread, one close answers for another.
RecordsOfThread(m, evs) == {e \in evs : e.thread = m.thread /\ e.sanction # None}

\* Mistake: looks for the record on the transition event.
RecordsOfTransition(m, evs) ==
    {e \in evs : e.msg = m.num /\ e.action = "status_transition" /\ e.sanction # None}

\* _fetch_close_evidence joins by message, never by thread.
Records(m, evs) == {e \in evs : e.msg = m.num /\ e.sanction # None}

\* close_sanction.classify_non_owner_close
Classified(m, evs) ==
    IF Records(m, evs) # {}
    THEN IF \E e \in Records(m, evs) : e.sanction.kind \in SanctionedKind
         THEN "sanctioned" ELSE "unattributable"
    ELSE IF m.num \in Stamped THEN "corruption" ELSE "unattributable"

ClosesThatAre(verdict, thrs, msgs, evs) ==
    {m \in NonOwnerCloses(thrs, msgs) : Classified(m, evs) = verdict}

Unanswerable(msgs) ==
    {m \in msgs : m.reply_to # None /\ m.reply_to \notin Nums(InThread(msgs, m.thread))}

Dangling(thrs, msgs) == {m \in msgs : ~(m.refs \subseteq DOMAIN thrs)}

\* Mistake: looks at resolved threads only.
InconsistentIfResolved(thrs) ==
    {t \in DOMAIN thrs : thrs[t].status = "resolved" /\ thrs[t].resolved_by = None}

Inconsistent(thrs) ==
    {t \in DOMAIN thrs : (thrs[t].status = "resolved") # (thrs[t].resolved_by # None)}

ExpectedKey(msgs, t) ==
    IF InThread(msgs, t) = {} THEN None
    ELSE CHOOSE n \in Nums(InThread(msgs, t)) :
            \A k \in Nums(InThread(msgs, t)) : k <= n

StaleKeys(thrs, msgs) == {t \in DOMAIN thrs : thrs[t].last # ExpectedKey(msgs, t)}

Issues(thrs, msgs, evs) ==
    About("orphan_message", Orphans(thrs, msgs))
    \cup {Issue("missing_propose", t, None) : t \in Empty(thrs, msgs)}
    \cup About("missing_propose", WrongFirst(thrs, msgs))
    \cup About("closes_thread_by_non_owner",
               ClosesThatAre("corruption", thrs, msgs, evs))
    \cup About("invalid_reply_to", Unanswerable(msgs))
    \cup About("dangling_thread_reference", Dangling(thrs, msgs))
    \cup {Issue("inconsistent_resolved", t, None) : t \in Inconsistent(thrs)}
    \cup {Issue("stale_activity_key", t, None) : t \in StaleKeys(thrs, msgs)}

Report(thrs, msgs, evs) ==
    [issues |-> Issues(thrs, msgs, evs),
     sanctioned |-> UNION {{<<m.num, e.sanction.kind>> : e \in Records(m, evs)} :
                             m \in ClosesThatAre("sanctioned", thrs, msgs, evs)},
     unattributable |-> Nums(ClosesThatAre("unattributable", thrs, msgs, evs))]

-----------------------------------------------------------------------------
(* audit_project, statement by statement *)

ReadThreads ==
    /\ stage = "threads"
    /\ stage' = "messages"
    /\ start' = NextNum(messages)
    /\ seenThreads' = threads
    /\ UNCHANGED <<ledger, edits, seenMessages, report>>

ReadMessages ==
    /\ stage = "messages"
    /\ stage' = "events"
    /\ seenMessages' = messages
    /\ UNCHANGED <<ledger, edits, start, seenThreads, report>>

\* The query is skipped if there is nothing to explain; the report is the same.
ReadEvents ==
    /\ stage = "events"
    /\ stage' = "done"
    /\ report' = Report(seenThreads, seenMessages, events)
    /\ UNCHANGED <<ledger, edits, start, seenThreads, seenMessages>>

-----------------------------------------------------------------------------
(* Raw SQL, as in tests/integration/test_api_integrity.py and in the cases *)
(* the audit's comments name                                               *)

InsertMessage(r) ==
    /\ r.thread \in DOMAIN threads
    /\ messages' = messages \cup {NewMessage(r, NextNum(messages))}
    /\ UNCHANGED <<threads, events>>

InsertThread(t, a, s) ==
    /\ t \notin DOMAIN threads
    /\ threads' = Put(threads, t, [owner |-> a, status |-> s, created_by |-> 0,
                                   resolved_by |-> None, last |-> None, affects |-> {}])
    /\ UNCHANGED <<messages, events>>

UpdateKey(t, n) ==
    /\ threads' = [threads EXCEPT ![t].last = n]
    /\ UNCHANGED <<messages, events>>

UpdateStatus(t, s) ==
    /\ threads' = [threads EXCEPT ![t].status = s]
    /\ UNCHANGED <<messages, events>>

Tamper ==
    \/ \E r \in Planted : InsertMessage(r)
    \/ \E t \in ThreadId, a \in Author, s \in BareStatuses : InsertThread(t, a, s)
    \/ \E t \in DOMAIN threads, n \in WrongKeys : UpdateKey(t, n)
    \/ \E t \in DOMAIN threads, s \in BareStatuses : UpdateStatus(t, s)

Serve == LedgerNext /\ UNCHANGED <<edits, audit>>

RawSQL ==
    /\ edits < MaxEdits
    /\ Tamper
    /\ edits' = edits + 1
    /\ UNCHANGED audit

Next ==
    \/ Serve /\ NextNum(messages') <= MaxMessages + 1
    \/ RawSQL
    \/ ReadThreads
    \/ ReadMessages
    \/ ReadEvents

Spec == Init /\ [][Next]_vars

-----------------------------------------------------------------------------
\* The shape of what was read and of what is reported about it.
AuditTypeOK ==
    /\ stage \in {"threads", "messages", "events", "done"}
    /\ start \in Nat
    /\ DOMAIN seenThreads \subseteq ThreadId
    /\ seenMessages \subseteq Message
    /\ \A i \in report.issues :
         i.thread \in ThreadId /\ i.msg \in Nums(seenMessages) \cup {None}
    /\ report.sanctioned \subseteq Nums(seenMessages) \X CloseSanctionKind
    /\ report.unattributable \subseteq Nums(seenMessages)

\* A finding that only says a request was served during the audit: its message
\* came after the threads were read, or the thread got such a message.
ExplainedByRace(i) ==
    \/ /\ i.type \in {"orphan_message", "dangling_thread_reference"}
       /\ i.msg >= start
    \/ /\ i.type = "stale_activity_key"
       /\ \E m \in InThread(seenMessages, i.thread) : m.num >= start

\* If every row came through the write path, the audit has nothing to say but
\* for the requests it raced with: no close that left its record, no propose,
\* no resolution and no reply is ever blamed, and an audit during which nobody
\* writes is clean.
AuditBlamesOnlyTheRace ==
    (stage = "done" /\ edits = 0) => \A i \in report.issues : ExplainedByRace(i)

\* The docstring of AuditReport: issues is the part that should be zero on a
\* healthy project (services/integrity.py).
HealthyProjectHasNoIssues == stage = "done" => report.issues = {}

\* The four outcomes of audit_project: whatever is written at the time, every
\* close by a non-owner that is older than the audit is reported once, as what
\* it is. Without a record it is an issue from the cutover on; a record is
\* never lost, and never lent to another close of the thread.
OldClosesSorted ==
    stage = "done" =>
        \A m \in NonOwnerCloses(threads, messages) : m.num < start =>
            LET issue == Issue("closes_thread_by_non_owner", m.thread, m.num)
                recorded == {e.sanction.kind :
                             e \in {x \in events : x.msg = m.num /\ x.sanction # None}} IN
            /\ issue \in report.issues <=> (recorded = {} /\ m.num \in Stamped)
            /\ \A k \in SanctionedKind : <<m.num, k>> \in report.sanctioned <=> k \in recorded
            /\ m.num \in report.unattributable <=>
                  (recorded = {"unspecified"} \/ (recorded = {} /\ m.num \notin Stamped))

\* What the write path guarantees of one thread, as far as the audit checks it.
Sound(t) ==
    LET mine == InThread(messages, t) IN
    /\ \E m \in mine : /\ m.type = "propose" /\ m.author = threads[t].owner
                       /\ \A k \in mine : m.num <= k.num
    /\ threads[t].last \in Nums(mine) /\ \A k \in Nums(mine) : k <= threads[t].last
    /\ threads[t].status = "resolved" <=> threads[t].resolved_by # None
    /\ \A m \in mine : m.refs \subseteq DOMAIN threads
    /\ \A m \in mine : m.reply_to # None => m.reply_to \in Nums(mine)
    /\ \A m \in mine : (m.closes # None /\ m.author # threads[t].owner /\ m.num \in Stamped) =>
         \E e \in events : e.msg = m.num /\ e.sanction # None

\* A thread the report does not mention is sound if it is still the thread the
\* audit read, whatever raw SQL did to it before and whatever was written to
\* other threads meanwhile: the race costs false alarms, never a missed one.
ThreadCleared ==
    stage = "done" =>
        \A t \in DOMAIN seenThreads :
            \/ \E i \in report.issues : i.thread = t
            \/ seenThreads[t] # threads[t]
            \/ InThread(seenMessages, t) # InThread(messages, t)
            \/ Sound(t)
=============================================================================
