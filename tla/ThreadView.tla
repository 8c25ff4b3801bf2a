----------------------------- MODULE ThreadView -----------------------------
(***************************************************************************)
(* Reading a thread with its digest (get_thread in api/threads.py), and    *)
(* storing a digest that a producer made elsewhere (api/digest.py), beside *)
(* a ledger that grows meanwhile.  Every statement has a snapshot of its   *)
(* own, those of one transaction too, so an answer is put together from    *)
(* several moments; what may still be concluded from it is stated here.    *)
(*                                                                         *)
(* Only the digest of a whole thread is modelled, not of a single message; *)
(* of its row, the message it covers up to and the time it was stored, and *)
(* no two are stored at one time.                                          *)
(***************************************************************************)
EXTENDS Ledger, FiniteSets

CONSTANTS Reader,       \* clients of GET /threads/{id}?include_digest=true
          Producer,     \* clients of PUT /threads/{id}/digest
          Casts,        \* which of them are about in one behaviour
          Style,        \* labels of digests
          Wanted,       \* digest_style of the readers; None pins nothing
          Points,       \* values of source_last_msg_id
          MaxMessages   \* bound on the messages posted

\* A row of thread_digests.
Digest == [covers : Nat, at : Nat]

ASSUME ViewAssumption ==
    /\ Reader \cap Producer = {}
    /\ None \notin Digest
    /\ None \notin Reader \cup Producer \cup Style
    /\ Casts \subseteq SUBSET (Reader \cup Producer)
    /\ Wanted \subseteq Style \cup {None}
    /\ Points \subseteq Nat
    /\ MaxMessages \in Nat

VARIABLES digests,   \* thread_digests: <<thread, style>> -> row
          clock,     \* readings of the server's clock so far
          keyLock,   \* who holds the index entry of <<thread, style>>
          pc,        \* the next statement of a client's handler
          ask,       \* what it asked for
          mine,      \* the row its transaction has written
          answer     \* the parts of its answer, as they are read

sessions == <<clock, keyLock, pc, ask, mine, answer>>
vars == <<ledger, digests, sessions>>

Client == Reader \cup Producer
Key == ThreadId \X Style

Nothing == [row |-> None, messages |-> {}, head |-> None, digest |-> None,
            behind |-> None]

Init ==
    /\ LedgerInit
    /\ digests = [k \in {} |-> None]
    /\ clock = 0
    /\ keyLock = [k \in Key |-> None]
    /\ \E cast \in Casts : pc = [c \in Client |-> IF c \in cast THEN "idle" ELSE "done"]
    /\ ask = [c \in Client |-> None]
    /\ mine = [c \in Client |-> None]
    /\ answer = [c \in Client |-> Nothing]

-----------------------------------------------------------------------------
(* Reads *)

\* fetch_thread_rollup, last_msg_id
HeadOf(t) ==
    CHOOSE n \in Nums(InThread(messages, t)) :
        \A k \in Nums(InThread(messages, t)) : k <= n

\* Mistake: the message after the one covered is taken for covered too.
CountBehindOffByOne(t, n) ==
    Cardinality({m \in InThread(messages, t) : m.num > n + 1})

\* _count_behind
CountBehind(t, n) == Cardinality({m \in InThread(messages, t) : m.num > n})

\* The digests a session sees: the committed ones and its own.
Visible(c) ==
    IF mine[c] = None THEN digests
    ELSE Put(digests, <<ask[c].thread, ask[c].style>>, mine[c])

\* Mistake: a style that was asked for is not pinned.
PickUnpinned(table, t, s) ==
    LET rows == {table[k] : k \in {x \in DOMAIN table : x[1] = t}} IN
    IF rows = {} THEN None
    ELSE CHOOSE d \in rows : \A e \in rows : e.at <= d.at

\* The digest of a style, or the newest one if none is named.
Pick(table, t, s) ==
    LET rows == {table[k] : k \in {x \in DOMAIN table : x[1] = t /\ s \in {None, x[2]}}} IN
    IF rows = {} THEN None
    ELSE CHOOSE d \in rows : \A e \in rows : e.at <= d.at

\* Mistake: any decide is taken for the one that closed the thread.
CarriedByType(row, t, mode) ==
    IF mode = "summary" /\ row.status = "resolved"
    THEN {m \in InThread(messages, t) : m.type = "decide"}
    ELSE InThread(messages, t)

Carried(row, t, mode) ==
    IF mode = "summary" /\ row.status = "resolved"
    THEN {m \in InThread(messages, t) : m.num = row.resolved_by}
    ELSE InThread(messages, t)

Goto(c, stage) == pc' = [pc EXCEPT ![c] = stage]

-----------------------------------------------------------------------------
(* get_thread *)

ReadThread(c, t, mode, s) ==
    /\ pc[c] = "idle" /\ t \in DOMAIN threads
    /\ ask' = [ask EXCEPT ![c] = [thread |-> t, mode |-> mode, style |-> s]]
    /\ answer' = [answer EXCEPT ![c].row = threads[t]]
    /\ Goto(c, "messages")
    /\ UNCHANGED <<ledger, digests, clock, keyLock, mine>>

ReadMessages(c) ==
    /\ pc[c] = "messages"
    /\ answer' = [answer EXCEPT ![c].messages =
                    Carried(answer[c].row, ask[c].thread, ask[c].mode)]
    /\ Goto(c, "head")
    /\ UNCHANGED <<ledger, digests, clock, keyLock, ask, mine>>

-----------------------------------------------------------------------------
(* fetch_digest_response, which both routes call *)

ReadHead(c) ==
    /\ pc[c] = "head"
    /\ answer' = [answer EXCEPT ![c].head = HeadOf(ask[c].thread)]
    /\ Goto(c, "digest")
    /\ UNCHANGED <<ledger, digests, clock, keyLock, ask, mine>>

ReadDigest(c) ==
    LET d == Pick(Visible(c), ask[c].thread, ask[c].style) IN
    /\ pc[c] = "digest"
    /\ answer' = [answer EXCEPT ![c].digest = d]
    /\ Goto(c, IF d # None THEN "behind" ELSE "done")
    /\ UNCHANGED <<ledger, digests, clock, keyLock, ask, mine>>

ReadBehind(c) ==
    /\ pc[c] = "behind"
    /\ answer' = [answer EXCEPT ![c].behind =
                    CountBehind(ask[c].thread, answer[c].digest.covers)]
    /\ Goto(c, IF c \in Producer THEN "commit" ELSE "done")
    /\ UNCHANGED <<ledger, digests, clock, keyLock, ask, mine>>

-----------------------------------------------------------------------------
(* put_digest *)

\* Mistake: looks the covered message up in the project.
CheckPutAnywhere(c, t, s, n) ==
    /\ pc[c] = "idle"
    /\ t \in DOMAIN threads
    /\ n \in Nums(messages)
    /\ clock' = clock + 1
    /\ ask' = [ask EXCEPT ![c] = [thread |-> t, covers |-> n, style |-> s, at |-> clock + 1]]
    /\ Goto(c, "upsert")
    /\ UNCHANGED <<ledger, digests, keyLock, mine, answer>>

\* The thread exists and the covered message is in it; then the clock is read.
\* A request that fails the check leaves nothing behind.
CheckPut(c, t, s, n) ==
    /\ pc[c] = "idle"
    /\ t \in DOMAIN threads
    /\ n \in Nums(InThread(messages, t))
    /\ clock' = clock + 1
    /\ ask' = [ask EXCEPT ![c] = [thread |-> t, covers |-> n, style |-> s, at |-> clock + 1]]
    /\ Goto(c, "upsert")
    /\ UNCHANGED <<ledger, digests, keyLock, mine, answer>>

\* INSERT ... ON CONFLICT DO UPDATE, which waits for a transaction that has
\* written the same row.
Upsert(c) ==
    LET k == <<ask[c].thread, ask[c].style>> IN
    /\ pc[c] = "upsert" /\ keyLock[k] = None
    /\ keyLock' = [keyLock EXCEPT ![k] = c]
    /\ mine' = [mine EXCEPT ![c] = [covers |-> ask[c].covers, at |-> ask[c].at]]
    /\ Goto(c, "head")
    /\ UNCHANGED <<ledger, digests, clock, ask, answer>>

Unlocked(c) == [k \in Key |-> IF keyLock[k] = c THEN None ELSE keyLock[k]]

CommitPut(c) ==
    /\ pc[c] = "commit"
    /\ digests' = Visible(c)
    /\ keyLock' = Unlocked(c)
    /\ mine' = [mine EXCEPT ![c] = None]
    /\ Goto(c, "done")
    /\ UNCHANGED <<ledger, clock, ask, answer>>

\* The connection or the process is gone; nothing of the transaction stays.  A
\* reader that is gone was never there.
Crash(c) ==
    /\ c \in Producer /\ pc[c] \notin {"idle", "done"}
    /\ keyLock' = Unlocked(c)
    /\ mine' = [mine EXCEPT ![c] = None]
    /\ answer' = [answer EXCEPT ![c] = Nothing]
    /\ Goto(c, "done")
    /\ UNCHANGED <<ledger, digests, clock, ask>>

-----------------------------------------------------------------------------
\* The INSERT of a first digest holds a key-share lock on the thread, for the
\* foreign key; the UPDATE of one that is there takes no such lock.
Inserting(c) == mine[c] # None /\ <<ask[c].thread, ask[c].style>> \notin DOMAIN digests

\* A post locks its thread FOR UPDATE, so it waits for whoever is inserting.
Serve ==
    /\ LedgerNext
    /\ NextNum(messages') <= MaxMessages + 1
    /\ \A c \in Producer : Inserting(c) =>
         InThread(messages', ask[c].thread) = InThread(messages, ask[c].thread)
    /\ UNCHANGED <<digests, sessions>>

Next ==
    \/ Serve
    \/ \E c \in Reader, t \in ThreadId, mode \in {"full", "summary"}, s \in Wanted :
         ReadThread(c, t, mode, s)
    \/ \E c \in Producer, t \in ThreadId, s \in Style, n \in Points :
         CheckPut(c, t, s, n)
    \/ \E c \in Client :
         \/ ReadMessages(c)
         \/ ReadHead(c)
         \/ ReadDigest(c)
         \/ ReadBehind(c)
         \/ Upsert(c)
         \/ CommitPut(c)
         \/ Crash(c)

Spec == Init /\ [][Next]_vars

-----------------------------------------------------------------------------
ViewTypeOK ==
    /\ LedgerTypeOK
    /\ DOMAIN digests \subseteq Key
    /\ \A k \in DOMAIN digests : digests[k] \in Digest
    /\ clock \in Nat
    /\ keyLock \in [Key -> Producer \cup {None}]
    /\ pc \in [Client -> {"idle", "messages", "upsert", "head", "digest", "behind",
                          "commit", "done"}]
    /\ ask \in [Client -> [thread : ThreadId, mode : {"full", "summary"}, style : Wanted]
                         \cup [thread : ThreadId, style : Style, covers : Nat, at : Nat]
                         \cup {None}]
    /\ mine \in [Client -> Digest \cup {None}]
    /\ answer \in [Client -> [row : Thread \cup {None}, messages : SUBSET Message,
                              head : Nat \cup {None}, digest : Digest \cup {None},
                              behind : Nat \cup {None}]]

\* Coverage can be measured: although numbers are shared by all threads and no
\* key binds it, a stored digest covers up to a message of its own thread.
DigestInThread ==
    \A k \in DOMAIN digests : digests[k].covers \in Nums(InThread(messages, k[1]))

Answered(c) == pc[c] = "done" /\ answer[c].behind # None

\* A digest that is called up to date covers every message the same answer
\* carries or names, whatever was posted or stored while it was put together:
\* the race can call a digest stale too early, never fresh too late.
FreshMeansCovered ==
    \A c \in Client : Answered(c) /\ answer[c].behind = 0 =>
        /\ \A m \in answer[c].messages : m.num <= answer[c].digest.covers
        /\ answer[c].head <= answer[c].digest.covers

\* The summary of a resolved thread is the one message that closed it, and the
\* rollup, read later, still names that message as the newest (get_thread).
SummaryIsTheClose ==
    \A c \in Reader :
        (pc[c] = "done" /\ answer[c].row # None /\ answer[c].row.status = "resolved") =>
            /\ ask[c].mode = "summary" =>
                 \E m \in messages : /\ answer[c].messages = {m}
                                     /\ m.closes = ask[c].thread
            /\ answer[c].head = answer[c].row.resolved_by

\* A producer is told about the digest it has stored, whichever other styles
\* the thread has and whoever else is storing one (put_digest).
PutAnswersOwn ==
    \A c \in Producer : Answered(c) =>
        answer[c].digest = [covers |-> ask[c].covers, at |-> ask[c].at]

\* ThreadDigestResponse: thread_last_msg_id is the head this verdict was made
\* against, so a digest is behind exactly if it ends before that head
\* (schemas/digest.py).
HeadIsWhatBehindMeasures ==
    \A c \in Reader : Answered(c) =>
        (answer[c].behind > 0 <=> answer[c].head > answer[c].digest.covers)
=============================================================================
