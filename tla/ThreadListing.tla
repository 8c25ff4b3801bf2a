---------------------------- MODULE ThreadListing ----------------------------
(***************************************************************************)
(* The overview pages beside a ledger that grows meanwhile: GET /threads   *)
(* (list_threads in api/threads.py, behind the 7-second poll of the thread *)
(* page too) and GET /projects (api/projects.py).  A listing counts, takes *)
(* its page and rolls the page up in three statements, and a client that   *)
(* wants everything walks: page after page by offset, until one is short.  *)
(* Every statement has a snapshot of its own.                              *)
(*                                                                         *)
(* Of a thread's rollup, the newest message and the count; a message's     *)
(* time stamp is chosen by its client and ranks nothing, so it is left     *)
(* out.  There is one project, whose summary is one row.                   *)
(***************************************************************************)
EXTENDS Ledger, Sequences, FiniteSets

CONSTANTS Filters,      \* query parameters of the listing, see Filter
          Limit,        \* rows of a page
          MaxMessages   \* bound on the messages posted

\* No statuses stand for no status filter, no owner for no owner filter.
Filter == [statuses : SUBSET Status, owner : Author \cup {None}]

ASSUME ListingAssumption ==
    /\ Filters \subseteq Filter /\ None \notin Filters
    /\ Limit \in Nat \ {0}
    /\ MaxMessages \in Nat

VARIABLES stage,     \* the next statement of the client's request
          filter,    \* its query
          offset,    \* the page it asks for
          total,     \* SELECT count(*)
          items,     \* the page, and the rollups of its threads
          walked,    \* threads on the pages so far
          begun,     \* not in the code: the threads when the walk began
          left,      \* not in the code: a listed thread left the filter since
          summary    \* thread and message count of the project

client == <<stage, filter, offset, total, items, walked, begun, left, summary>>
vars == <<ledger, client>>

NoSummary == [threads |-> None, messages |-> None]

Init ==
    /\ LedgerInit
    /\ stage = "idle"
    /\ filter = None
    /\ offset = 0
    /\ total = 0
    /\ items = <<>>
    /\ walked = {}
    /\ begun = threads
    /\ left = FALSE
    /\ summary = NoSummary

-----------------------------------------------------------------------------
(* list_threads *)

Matches(row, f) ==
    /\ f.statuses = {} \/ row.status \in f.statuses
    /\ f.owner = None \/ row.owner = f.owner

Listed(thrs, f) == {t \in DOMAIN thrs : Matches(thrs[t], f)}

\* ORDER BY last_msg_num DESC: numbers are unique in a project, so nothing is
\* left to the keys behind it.
Ranked(thrs, f) ==
    LET ids == Listed(thrs, f)
        before(t) == {u \in ids : thrs[u].last > thrs[t].last} IN
    [i \in 1 .. Cardinality(ids) |-> CHOOSE t \in ids : Cardinality(before(t)) = i - 1]

\* Mistake: the window of the count is the page, not the thread.
RollupOfPage(t) ==
    LET nums == Nums(InThread(messages, t)) IN
    [last |-> CHOOSE n \in nums : \A k \in nums : k <= n,
     count |-> Cardinality({m \in messages : \E i \in DOMAIN items : items[i].id = m.thread})]

\* What fetch_rollups, one statement for the whole page, finds of a thread.
Rollup(t) ==
    LET nums == Nums(InThread(messages, t)) IN
    [last |-> CHOOSE n \in nums : \A k \in nums : k <= n,
     count |-> Cardinality(nums)]

Ask(f) ==
    /\ stage = "idle"
    /\ stage' = "count"
    /\ filter' = f
    /\ begun' = threads
    /\ UNCHANGED <<ledger, offset, total, items, walked, left, summary>>

\* Mistake: counts before the filter is applied.
CountAll ==
    /\ stage = "count"
    /\ stage' = "page"
    /\ total' = Cardinality(DOMAIN threads)
    /\ UNCHANGED <<ledger, filter, offset, items, walked, begun, left, summary>>

CountThreads ==
    /\ stage = "count"
    /\ stage' = "page"
    /\ total' = Cardinality(Listed(threads, filter))
    /\ UNCHANGED <<ledger, filter, offset, items, walked, begun, left, summary>>

\* LIMIT and OFFSET.
Window(ranked) ==
    LET rest == Len(ranked) - offset IN
    [i \in 1 .. (IF rest < Limit THEN rest ELSE Limit) |-> ranked[offset + i]]

\* Mistake: filters the page instead of the table.
PageThenFilter ==
    LET page == SelectSeq(Window(Ranked(threads, [statuses |-> {}, owner |-> None])),
                          LAMBDA t : Matches(threads[t], filter)) IN
    /\ stage = "page"
    /\ stage' = "rollup"
    /\ items' = [i \in DOMAIN page |->
                   [id |-> page[i], row |-> threads[page[i]], rollup |-> None]]
    /\ UNCHANGED <<ledger, filter, offset, total, walked, begun, left, summary>>

\* The rollups are still missing.
PageThreads ==
    LET page == Window(Ranked(threads, filter)) IN
    /\ stage = "page"
    /\ stage' = "rollup"
    /\ items' = [i \in DOMAIN page |->
                   [id |-> page[i], row |-> threads[page[i]], rollup |-> None]]
    /\ UNCHANGED <<ledger, filter, offset, total, walked, begun, left, summary>>

RollUp ==
    /\ stage = "rollup"
    /\ stage' = "answered"
    /\ items' = [i \in DOMAIN items |-> [items[i] EXCEPT !.rollup = Rollup(items[i].id)]]
    /\ walked' = walked \cup {items[i].id : i \in DOMAIN items}
    /\ UNCHANGED <<ledger, filter, offset, total, begun, left, summary>>

\* A short page ends the walk.
NextPage ==
    /\ stage = "answered" /\ Len(items) = Limit
    /\ stage' = "count"
    /\ offset' = offset + Limit
    /\ items' = <<>>
    /\ UNCHANGED <<ledger, filter, total, walked, begun, left, summary>>

-----------------------------------------------------------------------------
(* list_project_summaries *)

\* Mistake: the messages are counted before the threads.
SummaryStatementsSwapped == <<"messages", "threads">>

\* The tables the two statements count, in their order.
SummaryStatements == <<"threads", "messages">>

Counted(table) == Cardinality(IF table = "threads" THEN DOMAIN threads ELSE messages)

SummaryCount(n, from, to) ==
    /\ stage = from
    /\ stage' = to
    /\ summary' = [summary EXCEPT ![SummaryStatements[n]] = Counted(SummaryStatements[n])]
    /\ UNCHANGED <<ledger, filter, offset, total, items, walked, begun, left>>

CountFirst == SummaryCount(1, "idle", "second")

CountSecond == SummaryCount(2, "second", "summed")

-----------------------------------------------------------------------------
\* A listed thread is closed, handed off or the like, for good or for a while.
SomebodyLeaves ==
    filter # None /\ \E t \in Listed(threads, filter) : ~Matches(threads'[t], filter)

Serve ==
    /\ LedgerNext
    /\ NextNum(messages') <= MaxMessages + 1
    /\ left' = (left \/ SomebodyLeaves)
    /\ UNCHANGED <<stage, filter, offset, total, items, walked, begun, summary>>

Next ==
    \/ Serve
    \/ \E f \in Filters : Ask(f)
    \/ CountThreads
    \/ PageThreads
    \/ RollUp
    \/ NextPage
    \/ CountFirst
    \/ CountSecond

Spec == Init /\ [][Next]_vars

-----------------------------------------------------------------------------
\* The shape of the two answers; a rollup is complete once it is there.
ListingTypeOK ==
    /\ LedgerTypeOK
    /\ stage \in {"idle", "count", "page", "rollup", "answered", "second", "summed"}
    /\ filter \in Filters \cup {None}
    /\ offset \in Nat
    /\ total \in Nat
    /\ DOMAIN items \subseteq 1 .. Limit
    /\ \A i \in DOMAIN items :
         /\ items[i].id \in ThreadId
         /\ items[i].row \in Thread
         /\ items[i].rollup \in [last : Nat, count : Nat] \cup {None}
    /\ walked \subseteq ThreadId
    /\ \A table \in {"threads", "messages"} : summary[table] \in Nat \cup {None}

Answered == stage = "answered"

\* Whatever is opened and posted between the pages of a walk, a thread it
\* misses has moved: threads only move to the front, so those that keep still
\* are shifted towards the pages to come and may be repeated, never skipped,
\* unless one left the filter (the order of listing_query, by offset).
WalkMissesNoQuietThread ==
    (Answered /\ Len(items) < Limit /\ ~left) =>
        \A t \in Listed(begun, filter) : threads[t] = begun[t] => t \in walked

\* A page put together from two snapshots still hangs together.  Each item is
\* one thread: its count is the number of messages up to the id it shows, that
\* id is never older than its rank, and of a resolved thread it is the message
\* that closed it.  And the ids run downwards but for threads that got a
\* message between the page and its rollups: an id out of order belongs to a
\* message newer than every id the page was ranked by.
PageHangsTogether ==
    Answered =>
        /\ \A i \in DOMAIN items :
             LET item == items[i] IN
             /\ item.rollup.count =
                  Cardinality({m \in InThread(messages, item.id) : m.num <= item.rollup.last})
             /\ item.rollup.last >= item.row.last
             /\ item.row.status = "resolved" => item.rollup.last = item.row.resolved_by
        /\ \A i, j \in DOMAIN items :
             (i < j /\ items[i].rollup.last <= items[j].rollup.last) =>
                 \A k \in DOMAIN items : items[j].rollup.last > items[k].row.last

\* Unless threads leave the filter, total never promises rows that a walk does
\* not reach: a client that has seen a short page has been given total rows
\* (ThreadListResponse, section 1.3 of docs/api-design.md).
TotalIsReached ==
    (Answered /\ Len(items) < Limit /\ ~left) => offset + Len(items) >= total

\* The dashboard never shows a project with more threads than messages,
\* although it counts them separately: every thread it counted has a propose.
SummaryHasProposes ==
    stage = "summed" => summary.messages >= summary.threads
=============================================================================
