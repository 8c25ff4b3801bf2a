---------------------------- MODULE MCReadCursor ----------------------------
(***************************************************************************)
(* Instances of ReadCursor: two threads that share one numbering, and two  *)
(* markers at a time, each with an identity of its own or both with one.   *)
(***************************************************************************)
EXTENDS ReadCursor, TLC

CONSTANTS t1, t2, alice, bob, m1, m2, m3

MCThreads == {t1, t2}
MCAuthors == {alice, bob}
MCMarkers == {m1, m2, m3}
MCPositions == {None, 1, 2}

MCWhoOf == (m1 :> alice) @@ (m2 :> bob) @@ (m3 :> alice)

\* Two identities, or two clients of one.
Pairs == {{m1, m2}, {m1, m3}}

Post(t, a, type) ==
    [kind |-> "post", thread |-> t, author |-> a, type |-> type, closes |-> None,
     reply_to |-> None, refs |-> {}, next |-> None, disposition |-> None,
     role |-> None, override |-> FALSE, sanction |-> None, affects |-> {}]

MCRequests ==
    {[Post(t1, alice, "propose") EXCEPT !.kind = "open"],
     [Post(t2, alice, "propose") EXCEPT !.kind = "open"],
     Post(t1, bob, "report")}
=============================================================================
