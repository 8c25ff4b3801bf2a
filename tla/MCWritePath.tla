---------------------------- MODULE MCWritePath ----------------------------
(***************************************************************************)
(* Instances of WritePath: who sends what.  Two threads, an owner and a    *)
(* second identity, and a handful of clients are enough for every pair of  *)
(* racing requests; a cfg picks one of the sets of requests below.         *)
(***************************************************************************)
EXTENDS WritePath, LedgerLog, LedgerIds, TLC

CONSTANTS t1, t2, alice, bob, c1, c2, c3, c4, c5

MCThreads == {t1, t2}
MCAuthors == {alice, bob}
Symmetry == Permutations(Client)

Post(t, a, type) ==
    [kind |-> "post", thread |-> t, author |-> a, type |-> type, closes |-> None,
     reply_to |-> None, refs |-> {}, next |-> None, disposition |-> None,
     role |-> None, override |-> FALSE, sanction |-> None, affects |-> {}]

Open(t, a) == [Post(t, a, "propose") EXCEPT !.kind = "open"]

Decide(t, a) == [Post(t, a, "decide") EXCEPT !.closes = t]

Close(t, a) == [Decide(t, a) EXCEPT !.kind = "close"]

Forced(r, s) == [r EXCEPT !.override = TRUE, !.sanction = s]

Approved(n) == [kind |-> "naysayer_approved", review |-> n]
Human == [kind |-> "human_override", review |-> None]

\* Everything that changes or reads the status of one thread, racing.
StatusRequests ==
    {Open(t1, alice), Post(t1, bob, "handoff"), Post(t1, alice, "ack"),
     Decide(t1, alice), Close(t1, alice), Close(t1, bob),
     Forced(Close(t1, bob), None)}

\* Opens that collide, posts into two threads that share one numbering, and
\* requests whose acceptance depends on other threads and other messages.
LinkRequests ==
    {Open(t1, alice), Open(t2, bob),
     [Post(t1, bob, "answer") EXCEPT !.reply_to = 1, !.refs = {t2}],
     [Post(t2, bob, "answer") EXCEPT !.reply_to = 2],
     Post(t1, bob, "report"), Post(t1, bob, "propose"), Post(t2, alice, "propose")}

\* Closes by somebody else, with every kind of record.
SanctionRequests ==
    {Open(t1, alice), [Post(t1, bob, "report") EXCEPT !.role = "naysayer"],
     Forced(Decide(t1, bob), Approved(2)), Forced(Close(t1, bob), Human),
     Forced(Close(t1, bob), None), Decide(t1, bob), Forced(Close(t1, alice), Human),
     [Close(t1, alice) EXCEPT !.next = bob],
     [Decide(t1, alice) EXCEPT !.disposition = "blocked_on"]}
=============================================================================
