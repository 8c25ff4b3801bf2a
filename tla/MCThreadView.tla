---------------------------- MODULE MCThreadView ----------------------------
(***************************************************************************)
(* Instances of ThreadView: two threads that share one numbering, with a   *)
(* decide that closes nothing before the one that does.                    *)
(***************************************************************************)
EXTENDS ThreadView, TLC

CONSTANTS t1, t2, alice, bob, r1, p1, p2

MCThreads == {t1, t2}
MCAuthors == {alice, bob}
Symmetry == Permutations(Producer)

Post(t, a, type) ==
    [kind |-> "post", thread |-> t, author |-> a, type |-> type, closes |-> None,
     reply_to |-> None, refs |-> {}, next |-> None, disposition |-> None,
     role |-> None, override |-> FALSE, sanction |-> None, affects |-> {}]

Open(t, a) == [Post(t, a, "propose") EXCEPT !.kind = "open"]

\* A reader and a producer, or two producers.
Pairs == {{r1, p1}, {r1, p2}, {p1, p2}}

MCRequests ==
    {Open(t1, alice), Open(t2, alice), Post(t1, bob, "decide"),
     [Post(t1, alice, "decide") EXCEPT !.closes = t1]}
=============================================================================
