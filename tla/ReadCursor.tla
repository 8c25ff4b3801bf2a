----------------------------- MODULE ReadCursor -----------------------------
(***************************************************************************)
(* Read cursors and the unread inbox (api/read_cursor.py), beside a ledger *)
(* that grows meanwhile: writes are single steps here because WritePath    *)
(* implements Ledger.  A marker is a client that sends one mark_read after *)
(* another under an identity; every statement of the handler is a step.    *)
(* Whether two markers share an identity is up to WhoOf.                   *)
(*                                                                         *)
(* The INSERT of a cursor also takes a key-share lock on the thread row    *)
(* for the foreign key, so it may wait for a post to commit; a post is one *)
(* step here and nothing of the wait remains.                              *)
(***************************************************************************)
EXTENDS Ledger, Sequences, FiniteSets

CONSTANTS Marker,       \* clients that mark threads as read
          WhoOf,        \* the identity each of them works under
          Casts,        \* which of them are about in one behaviour
          Positions,    \* values of up_to_msg_id; None means "the latest"
          MaxMessages,  \* bound on the messages posted
          MaxMarks      \* bound on the requests of one marker

\* How a request may end; lost: without an answer.
Outcome == {"advanced", "unchanged", "not_found", "integrity", "lost"}

ASSUME MarkerAssumption ==
    /\ None \notin Outcome
    /\ WhoOf \in [Marker -> Author]
    /\ Casts \subseteq SUBSET Marker
    /\ Positions \subseteq Nat \cup {None}
    /\ MaxMessages \in Nat
    /\ MaxMarks \in Nat

VARIABLES cursors,   \* actor_read_cursors: <<identity, thread>> -> last_read_msg_id
          marks,     \* mark_read rows of chatroom_events, by event_id
          at,        \* where a marker's handler is
          ask,       \* thread and up_to_msg_id of its request
          target,    \* the position the handler resolved
          seen,      \* the cursor it read before the gate
          answer,    \* how its last request was answered
          sent       \* how many requests it has sent

markers == <<at, ask, target, seen, answer, sent>>
vars == <<ledger, cursors, marks, markers>>

NoCursors == [k \in {} |-> None]

Init ==
    /\ LedgerInit
    /\ cursors = NoCursors
    /\ marks = <<>>
    /\ \E cast \in Casts : at = [m \in Marker |-> IF m \in cast THEN "idle" ELSE "absent"]
    /\ ask = [m \in Marker |-> None]
    /\ target = [m \in Marker |-> None]
    /\ seen = [m \in Marker |-> None]
    /\ answer = [m \in Marker |-> None]
    /\ sent = [m \in Marker |-> 0]

Key(m) == <<WhoOf[m], ask[m].thread>>

\* Mistake: numbers are shared by all threads, the latest is not.
LatestAnywhere(t) == NextNum(messages) - 1

\* The numeric maximum within the thread, not within the project.
LatestIn(t) ==
    CHOOSE n \in Nums(InThread(messages, t)) :
        \A k \in Nums(InThread(messages, t)) : k <= n

\* Mistake: advances whenever the positions differ.
AdvanceIfOther(current, requested) == current = None \/ requested # current

\* services.read_cursor.should_advance_cursor
ShouldAdvance(current, requested) == current = None \/ requested > current

Answered(m, outcome) ==
    /\ at' = [at EXCEPT ![m] = "idle"]
    /\ answer' = [answer EXCEPT ![m] = outcome]

-----------------------------------------------------------------------------
(* mark_read, statement by statement *)

Ask(m, t, position) ==
    /\ at[m] = "idle" /\ sent[m] < MaxMarks
    /\ sent' = [sent EXCEPT ![m] = @ + 1]
    /\ ask' = [ask EXCEPT ![m] = [thread |-> t, up_to |-> position]]
    /\ target' = [target EXCEPT ![m] = None]
    /\ seen' = [seen EXCEPT ![m] = None]
    /\ \/ /\ t \in DOMAIN threads
          /\ at' = [at EXCEPT ![m] = "resolve"]
          /\ answer' = [answer EXCEPT ![m] = None]
       \/ /\ t \notin DOMAIN threads
          /\ Answered(m, "not_found")
    /\ UNCHANGED <<ledger, cursors, marks>>

\* The position: the latest message when none is named, else one that has to
\* be in this thread.
Resolve(m) ==
    LET position == ask[m].up_to IN
    /\ at[m] = "resolve"
    /\ position = None \/ position \in Nums(InThread(messages, ask[m].thread))
    /\ target' = [target EXCEPT ![m] =
                    IF position = None THEN LatestIn(ask[m].thread) ELSE position]
    /\ at' = [at EXCEPT ![m] = "read"]
    /\ UNCHANGED <<ledger, cursors, marks, ask, seen, answer, sent>>

ResolveRefused(m) ==
    /\ at[m] = "resolve"
    /\ ask[m].up_to # None
    /\ ask[m].up_to \notin Nums(InThread(messages, ask[m].thread))
    /\ Answered(m, "integrity")
    /\ UNCHANGED <<ledger, cursors, marks, ask, target, seen, sent>>

\* Mistake: an event for every request, whether it advanced or not.
ReadAndLog(m) ==
    LET current == IF Key(m) \in DOMAIN cursors THEN cursors[Key(m)] ELSE None IN
    /\ at[m] = "read"
    /\ seen' = [seen EXCEPT ![m] = current]
    /\ IF ShouldAdvance(current, target[m])
       THEN at' = [at EXCEPT ![m] = "upsert"] /\ UNCHANGED <<answer, marks>>
       ELSE /\ Answered(m, "unchanged")
            /\ marks' = Append(marks, [key |-> Key(m), from |-> current, to |-> target[m]])
    /\ UNCHANGED <<ledger, cursors, ask, target, sent>>

\* The current cursor, read without a lock, and the forward-only gate on it.
ReadExisting(m) ==
    LET current == IF Key(m) \in DOMAIN cursors THEN cursors[Key(m)] ELSE None IN
    /\ at[m] = "read"
    /\ seen' = [seen EXCEPT ![m] = current]
    /\ IF ShouldAdvance(current, target[m])
       THEN at' = [at EXCEPT ![m] = "upsert"] /\ UNCHANGED answer
       ELSE Answered(m, "unchanged")
    /\ UNCHANGED <<ledger, cursors, marks, ask, target, sent>>

\* INSERT ... ON CONFLICT DO UPDATE waits for a transaction that has written
\* the same key and takes its own value whatever that one left there.
Upsert(m) ==
    /\ at[m] = "upsert"
    /\ \A other \in Marker : at[other] = "commit" => Key(other) # Key(m)
    /\ at' = [at EXCEPT ![m] = "commit"]
    /\ UNCHANGED <<ledger, cursors, marks, ask, target, seen, answer, sent>>

\* Mistake: ON CONFLICT DO NOTHING.
CommitIfNew(m) ==
    /\ at[m] = "commit"
    /\ cursors' = IF Key(m) \in DOMAIN cursors THEN cursors
                  ELSE Put(cursors, Key(m), target[m])
    /\ marks' = Append(marks, [key |-> Key(m), from |-> seen[m], to |-> target[m]])
    /\ Answered(m, "advanced")
    /\ UNCHANGED <<ledger, ask, target, seen, sent>>

CommitMark(m) ==
    /\ at[m] = "commit"
    /\ cursors' = Put(cursors, Key(m), target[m])
    /\ marks' = Append(marks, [key |-> Key(m), from |-> seen[m], to |-> target[m]])
    /\ Answered(m, "advanced")
    /\ UNCHANGED <<ledger, ask, target, seen, sent>>

\* The transaction is rolled back: the client gets no answer.
CrashMark(m) ==
    /\ at[m] \notin {"absent", "idle"}
    /\ Answered(m, "lost")
    /\ UNCHANGED <<ledger, cursors, marks, ask, target, seen, sent>>

-----------------------------------------------------------------------------
\* Meanwhile the chat room goes on.
Written ==
    /\ Cardinality(messages) < MaxMessages
    /\ LedgerNext
    /\ UNCHANGED <<cursors, marks, markers>>

\* Every request is answered; what stops the clients is the bounds.
Quiet == (\A m \in Marker : at[m] \in {"absent", "idle"}) /\ UNCHANGED vars

MarkStep(m) ==
    Resolve(m) \/ ResolveRefused(m) \/ ReadExisting(m) \/ Upsert(m) \/ CommitMark(m)

Next ==
    \/ \E m \in Marker, t \in ThreadId, position \in Positions : Ask(m, t, position)
    \/ \E m \in Marker : MarkStep(m) \/ CrashMark(m)
    \/ Written
    \/ Quiet

Spec == Init /\ [][Next]_vars

-----------------------------------------------------------------------------
(* GET /unread *)

\* COALESCE(last_read_msg_id, 0): a thread never marked is unread as a whole.
CursorOf(who, t) == IF <<who, t>> \in DOMAIN cursors THEN cursors[<<who, t>>] ELSE 0

Unread(who, t) == {m \in InThread(messages, t) : m.num > CursorOf(who, t)}

\* The threads list_unread returns: the pre-filter on the activity key spares
\* the count for the threads that cannot have unread messages.  A thread without
\* a key passes it in the code; both routes that write one set it.
Inbox(who, include_resolved) ==
    {t \in DOMAIN threads :
        /\ include_resolved \/ threads[t].status # "resolved"
        /\ threads[t].last > CursorOf(who, t)
        /\ Unread(who, t) # {}}

-----------------------------------------------------------------------------
CursorTypeOK ==
    /\ LedgerTypeOK
    /\ DOMAIN cursors \subseteq Author \X ThreadId
    /\ \A k \in DOMAIN cursors : cursors[k] \in Nat
    /\ marks \in Seq([key : Author \X ThreadId, from : Nat \cup {None}, to : Nat])
    /\ at \in [Marker -> {"absent", "idle", "resolve", "read", "upsert", "commit"}]
    /\ ask \in [Marker -> [thread : ThreadId, up_to : Positions] \cup {None}]
    /\ target \in [Marker -> Nat \cup {None}]
    /\ seen \in [Marker -> Nat \cup {None}]
    /\ answer \in [Marker -> Outcome \cup {None}]
    /\ sent \in [Marker -> 0 .. MaxMarks]

Forward(k) == k \in DOMAIN cursors' /\ cursors'[k] >= cursors[k]

\* Identities that one client works under.
Alone(who) ==
    \A m1, m2 \in Marker :
        WhoOf[m1] = who /\ WhoOf[m2] = who /\ m1 # m2 => "absent" \in {at[m1], at[m2]}

\* A cursor only moves forward, whatever is posted meanwhile and wherever the
\* handler crashes, while its identity has one mark_read in flight.
CursorForwardAlone ==
    [][\A k \in DOMAIN cursors : Alone(k[1]) => Forward(k)]_vars

\* A cursor only moves forward, as its route, its model and its rule say.
CursorMonotonic ==
    [][\A k \in DOMAIN cursors : Forward(k)]_vars

\* What a client was told is where its cursor is, and covers what it asked
\* for, until it asks again, if it is alone with its identity.
AnswersTruthful ==
    \A m \in Marker : (Alone(WhoOf[m]) /\ answer[m] \in {"advanced", "unchanged"}) =>
        /\ Key(m) \in DOMAIN cursors
        /\ cursors[Key(m)] >= target[m]
        /\ cursors[Key(m)] = IF answer[m] = "advanced" THEN target[m] ELSE seen[m]

\* Even when they race, the audit log knows the cursors: the newest mark_read
\* event of an identity in a thread is where its cursor is, and there is one
\* for every cursor.
CursorsReplayMarks ==
    \A k \in (Author \X ThreadId) :
        LET mine == {i \in DOMAIN marks : marks[i].key = k} IN
        IF k \in DOMAIN cursors
        THEN \E i \in mine : marks[i].to = cursors[k] /\ \A j \in mine : j <= i
        ELSE mine = {}

\* A cursor stands on a message of its own thread, although numbers are shared
\* by all threads: it never runs ahead of what its thread contains.
CursorInThread ==
    \A k \in DOMAIN cursors : cursors[k] \in Nums(InThread(messages, k[2]))

\* The pre-filter hides nothing: a thread with a message past an identity's
\* cursor is in its inbox.
InboxComplete ==
    \A who \in Author, t \in DOMAIN threads :
        Unread(who, t) # {} => t \in Inbox(who, TRUE)
=============================================================================
