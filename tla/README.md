# A verification project for spirrow-conclair

Conclair is a chat room for software agents: a FastAPI server over PostgreSQL
that keeps *threads*, the *messages* posted in them and an append-only *event*
log, per project. This directory holds TLA+ modules that model the server,
TLC configurations that check them on small instances, and proofs that TLAPS
checks for every instance. Paths below are relative to
`src/src/spirrow_conclair/` unless they say otherwise.

## Inventory

| Part | State it keeps | Operations | Modelled in |
|---|---|---|---|
| Write path (`api/messages.py`, `api/threads.py`) | `threads`, `messages`, `chatroom_events` | `open_thread`, `post_message`, `close_thread` | `Ledger`, `ChatService`, `WritePath` |
| Pre-write asserts (`services/integrity.py`, `services/permissions.py`) | none | eight rules on the thread row and the tables | `ChatroomRules` |
| Status transitions (`services/status_transition.py`) | `threads.status`, `resolved_by_msg` | `compute_transition` | `ChatroomRules` |
| Message ids (`services/msg_id_allocator.py`) | none (the newest row is the counter) | `allocate_next_msg_id`, `parse_msg_id`, `format_msg_id` | `ChatroomRules`, `WritePath` (numbers, locks), `MsgIdText`, `MsgIds` (texts) |
| Read cursors and inbox (`api/read_cursor.py`) | `actor_read_cursors` | `mark_read`, `list_unread` | `ReadCursor` |
| Integrity audit (`services/integrity.py`) | none | `audit_project` | `IntegrityAudit` |
| Sanction classification (`services/close_sanction.py`) | none | `classify_non_owner_close` | `IntegrityAudit` |
| Thread view (`api/threads.py`, `services/thread_rollup.py`) | none | `get_thread` | `ThreadView` |
| Thread digest (`api/digest.py`, `services/digest.py`) | `thread_digests` | `put_digest`, `get_digest` | `ThreadView` |
| Thread listing (`api/threads.py`, `services/thread_rollup.py`) | none | `list_threads`, `fetch_rollups` | `ThreadListing` |
| Project list (`api/projects.py`) | none | `list_project_summaries` | `ThreadListing` (two counts) |
| Loop control (`api/control.py`) | `project_control`, `project_control_history` | `set_control`, `report_observed`, `get_control`, `get_control_history` | `ControlBoard`, `LoopControl` |
| Web UI (`web/`, templates, `static/js`) | the forms, lists and timers of a page in a browser | the page of a thread, `messages_post`, `threads_close`, fragments | `ThreadPage` (the page of a thread) |
| Events, health | none | plain queries | not modelled |

**How the parts interact.** Everything meets in the database. Each request is
one asyncio task with one session; a write route runs in one transaction
(`session.begin()`), and PostgreSQL is at READ COMMITTED, so every *statement*
sees what was committed when it began. Two locks order the writers: the row
lock of the thread (`session.refresh(thread, with_for_update=True)`) and the
transaction-scoped advisory lock of the project in the allocator. `mark_read`
takes neither; its INSERT of a cursor, like that of a first digest, holds a
key-share lock on the thread row for the foreign key. `set_control` and
`report_observed` meet in one row of `project_control`, which their upserts lock
until they commit. The reading routes run several statements without a common
snapshot. `threads.last_msg_num` is a denormalised copy of the newest message
number, written by the two write sites and read by the listing and the inbox.
The web routes call the same functions as the API: a form post ends in
`post_message_in_session` or `open_thread`, a fragment in `list_threads` or
`get_thread`. The pages fetch their lists again every few seconds, so a browser
is a client that never stops reading. On the server nothing runs in the
background, and nothing is retried.

**What is hard.** The rules are evaluated on an ORM instance that was loaded
before the lock; two requests race between any two statements; a refusal comes
after a flush; an answer is lost after a commit; an operator changes a status
with SQL behind the server's back; a cursor is compared and then overwritten
without a lock; an answer is put together from statements that saw different
moments; a client walks pages by offset while the order changes under it; a
list that fetches itself shows an older answer after a newer one; a user
presses a button again because the first answer is late or lost; the clock is
read before a row is waited for. `PROJECT.json` lists these places line by
line, each with the properties that would notice it going wrong.

## Modules

* `ChatroomRules` holds what is a pure function of a thread row, a request and
  the tables: the asserts, `compute_transition`, and the rows and events a
  write leaves behind. A message id is its number; titles, contents, tags,
  time stamps and the like decide nothing and are left out. One project is
  modelled, because every statement filters on the project.
* `Ledger` is the abstract specification: three tables changed by whole
  requests, one at a time. `OpenThread` and `AppendMessage` are the write
  routes; `SetAside` is the operator who parks or supersedes a thread with SQL,
  which no endpoint does. The promises to clients are stated here.
* `ChatService` is the ledger with its clients: a request is sent (`Send`), and
  later it happens as a whole (`Accept`), is refused for what the tables say at
  one moment (`Refuse`, with the answer `Answer` gives then) or is lost with the
  server (`Lose`). It has no locks, no sessions and no statements; to implement
  it is to be linearizable.
* `WritePath` is what the server does. A client is one HTTP request; `pc` says
  which statement its handler is at, `view` is the `Thread` instance in its
  session, `inserted` and `logged` are its uncommitted rows, `rowLock` and
  `projectLock` are the locks. One action is one statement (or the code between
  two of them): `Fetch`, `LockThread`, `Check`, `LockProject`, `Write`,
  `Commit` for a post or a close, `CheckAbsent`, `LockProject`, `WriteOpen`,
  `Commit` for an open, each with its refusal. `Crash` ends a transaction
  anywhere before its commit, and `Commit` may lose the answer. A client that
  sends its request again is another client.
* `ReadCursor` puts `mark_read`, statement by statement, beside a growing
  ledger. Because `WritePath` implements `Ledger`, a write is a single step
  there. `Inbox` is the query of `list_unread`, with its pre-filter.
* `IntegrityAudit` puts `audit_project` beside the ledger: its three queries
  are three steps (`ReadThreads`, `ReadMessages`, `ReadEvents`), and the report
  is a function of the three snapshots, one operator per class of issue.
  `RawSQL` inserts and updates rows past every rule, which is what the audit is
  there to find. A close is classified by its own time stamp; the constant
  `Stamped` says which numbers fall after the cutover.
* `ControlBoard` is the loop control as its users see it, one step per request;
  `LoopControl` is the two handlers: the clock is read, the upsert locks the
  row and takes over half of its columns, a setting logs a history row whose id
  comes from a sequence no rollback resets, the transaction commits or dies. Not
  in the code are `seen`, the log when a request arrived, and `after`, the pairs of
  settings of which the second was asked for with the first in the log.
* `ThreadView` has `get_thread` (thread, messages, rollup, digest, count: five
  statements, five snapshots) and `put_digest`, whose answer comes from the
  same reads inside its transaction. `get_digest` is the second half of
  `get_thread`. An answer is kept part by part as it is read, so a property can
  say what its parts may claim about each other.
* `ThreadListing` is `list_threads` (count, page, rollup: three statements),
  a client that walks page after page by offset until one is short, and the two
  counts of `list_project_summaries`. Two variables are not in the code and only
  let properties speak of the past: `begun`, the threads when the walk began,
  and `left`, whether a listed thread left the filter since.
* `ThreadPage` is a page in a browser: `polls` are the fetches of its list in
  flight (`thread_messages_fragment`), `sending` is the request of its form,
  `orphans` are requests whose connection broke and that may yet be served. The
  handlers behind it are `messages_post` and `threads_close`, with
  `_gated_claims` in front of the write path; the request they build of a form
  (`RequestOf`) has no place for a claim. The triggers, the target and the emptying of
  a form are attributes in `templates/thread_detail.html`. Of htmx
  (`static/js/htmx.min.js`, on one line, which is why `PROJECT.json` can only name
  that) the model has the queue: an element has one request in flight and keeps the
  last trigger (`FetchList`, `FetchOver`). Not in the code are `missed`, `typed`,
  `losses` and `posted`.
* `ChatLog` is the room as a reader sees it: a sequence of entries in which a
  thread opens once and, if ever, closes last. `MsgIds` is the allocator on the
  texts that are stored: the newest id is the one whose number is the greatest,
  and that is parsed, counted on and formatted. `MsgIdText` has the
  conversions. `LedgerLog` and `LedgerIds` instantiate the two over the
  ledger's messages.
* One `...Proofs` module per component holds its theorems; the `MC` modules
  hold the instances for TLC.

How they compose: `WritePath` EXTENDS `ChatService`, which EXTENDS `Ledger`, and
keeps the committed tables, the requests and the replies in their variables, so
the refinement mapping is the identity and `ServiceSpec` is checked and proved
as it stands; the same goes for `LoopControl` and `BoardSpec`. `LedgerSpec`
follows from `ServiceSpec` and is only proved. Above the ledger, `RoomSpec` and `IdSpec` are
refinements with a mapping: the log is the messages read in the order of their
numbers, the ids are the formatted numbers. `ReadCursor`, `IntegrityAudit`,
`ThreadView`, `ThreadListing` and `ThreadPage` EXTEND `Ledger` too and take a
write as one step, which the proved refinement entitles them to: the tables
other sessions see change in whole requests only.

Operators introduced by a comment `Mistake:` are not part of the model: each
is a definition as a plausible bug would have it, and each breaks a property
when it replaces the original.

## What the runs check

Every name below is stated in words above its definition. `None` stands for
SQL NULL. The instances have two threads (`listing` three, `page` one) and two
identities, `alice` and `bob`.

| Run | Instance and bounds | Question |
|---|---|---|
| `write_status` | 4 requests out of 7 on one thread, an operator with two statuses | Racing posts, handoffs, acks and closes: one resolution, by the last message; the transitions in the log chain and lead to the status, for a set-aside thread to the one it had; every answer stays true; the statements, and what clients were told, implement `ServiceSpec`; what is read of it is a chat log, `RoomSpec` |
| `write_links` | 5 requests out of 7 on two threads; ids in base 2, padded to 1 digit | Numbers are dense, the activity key is exact, each 201 is a message; proposes, replies and references are consistent; the texts of the ids are counted on like the numbers, `IdSpec` |
| `write_sanctions` | 3 requests out of 9, an operator, fairness | Closes by the owner and by others with each kind of sanction leave the right record; nothing a transaction computed is out of date when it commits; no circle of waiters; every request that was started is answered |
| `cursor` | 2 markers with an identity each or one for both, 2 requests each, up to 3 messages | A cursor only moves forward while its identity has one request in flight; even racing cursors are in the log, stay in their thread and hide nothing from the inbox |
| `cursor_race` | the pair that shares an identity | Finding: two requests of one identity move its cursor back |
| `listing` | 3 threads, pages of 2, three filters, up to 6 messages of which some make a thread leave a filter and return | A walk skips no thread that keeps still, a page made of two snapshots hangs together, `total` is reached, a project has no more threads than messages |
| `audit` | 8 requests, 4 messages, 2 statements of raw SQL | Without raw SQL only the race is blamed; with it every close older than the audit is sorted as it should be, and no damaged thread goes unmentioned |
| `audit_healthy` | no raw SQL | Finding: the audit reports issues on a healthy project |
| `control` | 2 operators who ask for two states and a loop that reports one, 2 requests each, 2 clock readings, 3 history rows | The log names the setting in effect, the history shows a setting above every one that was in the log when it was asked for, each side writes its own columns only, answers are about their requests, the statements implement `BoardSpec` |
| `view` | a reader and a producer, or two producers, two styles, up to 4 messages | A digest called up to date covers what is beside it; a summary is the close; a producer is told about its own digest |
| `view_head` | a reader and a producer, up to 3 messages | Finding: `behind_by` is not measured from the head that is reported |
| `page` | one thread, 4 kinds of forms, 2 texts, a lost answer each, up to 3 messages, fairness | The list never shows less than before, a text is posted once per try, the list under "posted msg-N" has msg-N, what is posted is listed in the end, a text becomes what was filled in, claims included, or nothing |

**Why these bounds are enough to be interesting.** A race in this code is
between two transactions, or between one and an operator, with at most one
earlier request to set the scene; three or four requests give each pair of
requests every such scene, and five let two opens, and three posts into two
threads, allocate numbers at once. Two threads are needed because numbers are
shared by all threads, and a third adds nothing a rule looks at. A cursor can
only go wrong against another position of its own thread and against the number
of a message elsewhere: three messages give both. The audit joins at most two
closes and the rows of one other thread. In `LoopControl` a third setting is
the first that can find two entries in the log it must come after. In
`ThreadView` a decide that closes nothing, the decide that does and a message
elsewhere are four messages. In `ThreadListing` three threads on pages of two
are the least that has a page border to be shifted across, and six messages
leave three for what moves the threads while they are walked. Ids in base 2
with one digit of padding pass through all that happens in base 10 around
`msg-999`: five requests reach 1, 10, 11, 100 and 101, two steps in width. In
`ThreadPage` the second text is the first whose answer can be mistaken for
another one's, and a loss each is one retry each. The bounds are constants:
`Client` (one request each), `MaxMessages`, `MaxMarks`, `MaxEdits`,
`MaxRequests`, `MaxTexts`, `MaxLosses`, `Limit`, `Id`, `Time`. The runs with
`CHECK_DEADLOCK FALSE` stop when their bounds are used up, after the last
answer; the write path and the cursors never stop in any other way, and those
runs do look for deadlocks.

Clients are interchangeable in the write runs, and so are the operators and
the producers of digests, which is what their SYMMETRY says; the two runs that
check liveness use none.

**Fairness.** `write_sanctions` assumes weak fairness of `Step(c)` for each
client. A handler is blocked by nothing but the two locks, asyncio runs every
task that is ready, and PostgreSQL queues waiters for a lock, so a lock that is
free goes to somebody who waits. Each transaction holds it for a few statements
and each client is one request, so weak fairness is enough. Clients are not
obliged to send anything, and crashes and operators are never fair. `page`
assumes that the timer of the list goes on (`hx-trigger` "every 7s": weak
fairness of `Tick`) and that of the fetches it repeats for ever not all are
lost, neither on their way nor on the way back (strong fairness of `ServeList`
and `ShowList`). A user need not press anything, and answers to forms may all
be lost.

## What is proved

TLAPS checks these for every set of threads, identities, clients, operators,
requests, filters and forms, every page size, and for unbounded behaviours. The
assumptions are those the modules name: `None` is not one of the other values,
requests have the form the schemas admit, limits, times and ids are natural
numbers. The bounds of the models stay in the guards, as arbitrary constants.
The clock of the control routes is taken not to go back.

*The ledger.* `LedgerInv` (types, dense numbers, the exact activity key, one
propose, one resolution, links, replay, sanction records) is inductive: an
accepted request is appended with the next number, so what holds of the
others is not disturbed and what holds of it follows from the asserts. Replay
covers the threads an operator set aside: no request moves those, so their
transitions still lead to the open status they had.
`LedgerInvariants` is the whole, `LedgerTypes`, `LedgerNumbering`,
`LedgerAppendsInOrder` and `LedgerResolvedIsFinal` its readable parts.

*The write path.* None of the properties is inductive over the interleaved
statements: that a commit is harmless depends on what the transaction read
earlier. `PathInv` adds what the locks are worth: who is past `LockThread`
holds the row lock and has the committed row in its session; who is past
`LockProject` holds the advisory lock; a verdict reached under the row lock
stays "accepted", because what a message refers to never goes away; and what
has been written is what the ledger would write now (`Pending`). From this,
every commit is one step of the ledger and every other action leaves the
tables alone: `WritePathImplementsLedger`. The promises of the ledger follow
for the write path (`PathNumbering`, `PathActivityKey`, `PathResolution`,
`PathProposes`, `PathLinks`, `PathStatusReplay`, `PathSanctions`,
`PathAppendsInOrder`, `PathResolvedIsFinal`), and three that are its own are
proved from the same invariant: `PathNothingOvertaken`,
`PathRepliesTruthful` and, by counting, `PathCreatedOnce`: a commit adds one
row to those of its request and one client to those who were told 201, and the
row is new.

*Linearizability.* `ServiceSpec` asks more than the ledger: it has the answers.
What `close_thread` finds out before it has the lock is not found out again in
the service, so the invariant (`Current`) has to keep it true: an owner never
changes. Then a refusal by the pre-write asserts or by the transition is what
`Answer` says of the committed tables, since the session holds the committed
row; a commit is the moment of an accepted request; and a crash before it leaves
nothing. `PathImplementsService`, and `ServiceImplementsLedger` above it.

*Nobody waits for ever.* `LocksHeld` turns `PathInv` round: a lock that is taken
has an open transaction behind it that is past the statement which takes it. The
holder of the project lock waits for nothing; if nobody has it, who holds a row
can go on; if nobody holds the row a request waits for, the request can
(`PathNobodyStuck`). `PathRunsDown` counts the statements a handler has before
it: each step takes one off and none from another handler. The two together are
`EveryRequestAnswered` but for fairness.

*Ids as texts.* `NumberingDense` makes the ledger's next number one more than
the greatest; that the allocator finds the same by formatting, storing,
comparing and parsing texts rests on `FormatIsRead`: in every base and with
every padding a formatted number is read back. It is shown by induction on
numbers, on the number of digits and on the number of padding zeros. The
library's induction theorems take an operator as a parameter, which the provers
here cannot instantiate, but its well-founded minima are about sets:
`LeastNumber`, `Induction` and, for recursive functions, `Recursion` are derived
from them. `LedgerImplementsIds` and, through the ledger, `PathImplementsIds`.

*The chat room.* A step of the ledger makes the sequence read from it longer by
one entry at its end or leaves it alone (`ReadAloudIsAppend`), and who is in
that log is in the table of threads, closed there if resolved here
(`LogOfThread`). Hence `LedgerImplementsRoom` and, through the ledger,
`PathImplementsRoom`.

*The loop control.* `ControlInv` says that whoever is past the upsert holds the
row, carries the committed row with its own half replaced, and has a history id
above every committed one. Hence `LoopControlImplementsBoard`,
`ControlDesiredIsLoggedLast` and, with what
clients were told added to the invariant, `ControlAnswersOwnRequest`.
`OrderInv` says that nothing is stamped ahead of the clock, neither in the log
nor in a handler, and that no log a handler has seen is stamped later than the
handler: a setting that came after another has a later stamp, or the same one and,
by `ControlInv`, a greater id (`ControlHistoryInOrder`). It needs no condition on
how stamps and commits of racing operators fall.

*The read cursors.* The position a handler has resolved is a message of its
thread, and stays one; what a handler that is alone with its identity has read
is still there when it commits; the newest event of a cursor names its
position, because event and cursor are written by one transaction while the
row of the cursor is held. `CursorStaysInThread`, `MarksReplayed`,
`InboxHidesNothing`, `AnswersAreTrue` and `LoneCursorMovesForward`.

*The thread view.* Messages are only appended, in the order of their numbers:
so what an answer has collected is still in its thread, a later count misses
nothing that an earlier read has shown, a thread read as resolved has its close
among the messages read next, and a producer sees its own uncommitted row.
`DigestsStayInThread`, `FreshIsCovered`, `SummariesAreCloses`,
`ProducersSeeOwn`.

*The thread listing.* A thread's rank is the number of listed threads with a
newer message; `ORDER BY` puts it at that place (`RankedPlaces`, by counting:
ranks differ, so every place is taken). As long as no listed thread leaves the
filter, the rank of a thread that keeps still only grows (`PlacesGrow`). The
invariant of a walk: such a thread is on a page already walked, on the page
about to be rolled up, or its rank is at or past the next offset (`Accounted`).
`WalksAreComplete` and `TotalsAreReached` follow. For the page, the invariant
is that a thread which moves between the page and its rollups gets a number
above every key the page was ranked by: `PagesHangTogether`. `SummariesAddUp`
maps every thread to its newest message.

*The page of a thread.* One fetch is in flight at a time, and what it was
served holds all that is shown (`ListOnlyGrows`); every message a text became is
paid for by its first try or by a failure the user saw, with requests still on
their way counted in (`PostsAreTries`); a fetch that ends after a success was
served after it and has the message it named, or another one is queued
(`PostsAreListed`). A request in flight, retried or orphaned carries the form of
its text as it was filled in, so what the gate lets through claims nothing, and
the message is made of that form; nobody else posts under its number
(`PostsAreAsFilledIn`).

*The audit.* On a project only the write path has written, the snapshots can be
compared by number: what is older than the audit was there when the threads
were read and is in every later snapshot (`AuditBlames`). On a damaged project
the ledger's invariant is gone; what is left is that rows, owners and numbers
stay and that a message's events come with it, which is enough for
`AuditSortsCloses` and `AuditClearsSoundThreads`.

`PathTypes`, `LedgerTypes`, `CursorTypes`, `ViewTypes`, `ListingTypes`,
`PageTypes`, `AuditTypes` and `ControlTypes` are the type invariants. They are
proved and in no run: a run on a small instance would add nothing to them. The
same goes for `LedgerSpec`, which `ServiceSpec` implies, and for
`AppendedInOrder` and `ResolvedIsFinal`, whose place in the runs `RoomSpec` takes.

**Only model-checked.** `EveryRequestAnswered` and `PostedGetsListed`, because
liveness is out of the prover's reach. The safety half of the first is proved
(above); that a handler which is not `Blocked` can take its step is read off the
guards, since ENABLED is out of reach too. The properties of the findings are
false.

## Findings

Three runs end in a counterexample. Each is a statement of the repository about
itself that the code does not keep up under concurrency; `PROJECT.json` quotes
the lines.

1. `cursor_race`: read cursors are called forward-only, but `mark_read` compares
   with a cursor it read without a lock and then overwrites whatever is there.
   Two requests of one identity can move it back. `CursorForwardAlone` is what
   remains true.
2. `audit_healthy`: the audit's issues are said to be zero on a healthy project,
   but its queries see different moments, so a request that commits between
   them looks like an orphan, a dangling reference or a stale key.
   `AuditBlamesOnlyTheRace` says that nothing else is ever blamed.
3. `view_head`: a digest's verdict is said to be measured against the head it
   reports, but the count comes from a later snapshot. `FreshMeansCovered` says
   that the error is always towards "stale".

Observations that are no findings:

* Of two operators who race, the one that loses may stand on top of the history,
  since the clock is read before the row is waited for. `HistoryInOrder` says that
  nothing else can: what stands above the setting in effect was asked for before
  that one was in the log.
* Both forms of a page have a select for `embodiment`, which `messages_post` and
  `threads_close` neither read nor refuse (`templates/thread_detail.html`, lines
  156 and 209). Posted to this server directly, that declaration is dropped; it is
  not among the claims of `_GATED_CLAIM_FIELDS`, which the docstring speaks of,
  and the model leaves it out.
* A clean audit does not exclude a second propose, a message behind a close or a
  hole in the numbers; `Sound` in `IntegrityAudit` says what it does exclude.
* A comment in `services/digest.py` (line 117) says that producers supply
  `generated_at`; `api/digest.py` (line 115) sets it from the server's clock.
* `put_digest` comments that `behind_by` is the value as of the write
  (`api/digest.py`, line 167). The update of an existing digest takes no lock on
  the thread, so the count may include messages that came after it.
* A comment in `templates/partials/thread_rows.html` (line 31) says that the ids
  of a listing run strictly downwards. A message that arrives between the page
  and its rollups breaks that; `PageHangsTogether` says how far.
* A client that stops walking at `offset + limit >= total` may stop one thread
  short, if one was opened meanwhile; one that stops at a short page does not.
  And a walk may miss a thread that keeps still if another one leaves the
  filter, even if it comes back before the walk ends.
* A post that is refused is answered with status 200 and a flash, so the post
  form of a page, which empties itself after every successful response, loses
  the text of a refused post too.

## What is not modelled

* Texts (titles, contents, tags, digests, notes) and the client-supplied time
  stamps, on which no rule depends; JSON and field validation by Pydantic; the
  connection pool.
* The order and the pages of the inbox. Of a rollup the models have the newest
  message and the count; the time of that message is another column of the same
  row. Digests of single messages, which `put_digest` stores by the same statements
  under a key of their own.
* `GET /events`, `/health` and the split of a project by status: single queries.
  `GET /events` orders by the time a client supplied, on which nothing here
  depends; the models read the log by id.
* Of the web UI, the pages that render one answer of the API (projects, events,
  integrity), the form that opens a thread, which is `open_thread` with the
  claims gated as in `ThreadPage`, and the control widget, which is the poll of
  `ThreadPage` over the row of `LoopControl`.
* Migrations, backups and measurement scripts, which are run by an operator.
* More than one project: every statement and both locks are per project.

The server runs nothing in the background and never deletes a row, so there is
nothing of the kind to model.

## How it was built, and what could come next

In this order: the rules and the ledger; the write path and its refinement;
read cursors; the audit; loop control; the thread view and digests; the
listing; ids as texts and the chat log; the page of a thread; the proofs, in
the order of their components; the service its clients see, and the ids again,
for all widths. A property was first checked by TLC, with its invariant, and
then proved.

What is left is the inbox as a walk by pages, whose order (by count of unread
messages) moves threads in both directions, so that less can be promised than of
the listing; and a specification of the cursors by whole requests, like
`ControlBoard`, of which `CursorsReplayMarks` and `CursorForwardAlone` would be
consequences.
