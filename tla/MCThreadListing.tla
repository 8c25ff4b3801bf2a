-------------------------- MODULE MCThreadListing --------------------------
(***************************************************************************)
(* Instances of ThreadListing: three threads of two owners and pages of    *)
(* two, so that a walk takes several pages and threads change places,      *)
(* appear, leave the filter and come back between them.                     *)
(***************************************************************************)
EXTENDS ThreadListing

CONSTANTS t1, t2, t3, alice, bob

MCThreads == {t1, t2, t3}
MCAuthors == {alice, bob}

Post(t, a, type) ==
    [kind |-> "post", thread |-> t, author |-> a, type |-> type, closes |-> None,
     reply_to |-> None, refs |-> {}, next |-> None, disposition |-> None,
     role |-> None, override |-> FALSE, sanction |-> None, affects |-> {}]

Open(t, a) == [Post(t, a, "propose") EXCEPT !.kind = "open"]

MCRequests ==
    {Open(t1, alice), Open(t2, bob), Open(t3, alice), Post(t1, bob, "report"),
     Post(t2, bob, "handoff"), Post(t2, alice, "ack"),
     [Post(t2, bob, "decide") EXCEPT !.closes = t2]}

\* Everything, what one identity owns, what waits for nobody.
MCFilters ==
    {[statuses |-> {}, owner |-> None], [statuses |-> {}, owner |-> alice],
     [statuses |-> {"active"}, owner |-> None]}
=============================================================================
