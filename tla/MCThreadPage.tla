---------------------------- MODULE MCThreadPage ----------------------------
(***************************************************************************)
(* An instance of ThreadPage: the page of a thread of alice's, used by her *)
(* or by bob, while the thread is opened and posted to by others.          *)
(***************************************************************************)
EXTENDS ThreadPage

CONSTANTS t1, alice, bob

MCThreads == {t1}
MCAuthors == {alice, bob}

Post(t, a, type) ==
    [kind |-> "post", thread |-> t, author |-> a, type |-> type, closes |-> None,
     reply_to |-> None, refs |-> {}, next |-> None, disposition |-> None,
     role |-> None, override |-> FALSE, sanction |-> None, affects |-> {}]

MCRequests ==
    {[Post(t1, alice, "propose") EXCEPT !.kind = "open"],
     [Post(t1, bob, "report") EXCEPT !.role = "naysayer"]}

\* A report, one with a role, a close, and one that overrides the owner.
Report == [kind |-> "post", type |-> "report", closes |-> None, role |-> None,
           override |-> FALSE]
Close == [kind |-> "close", type |-> "decide", closes |-> t1, role |-> None,
          override |-> FALSE]
MCForms == {Report, [Report EXCEPT !.role = "naysayer"], Close, [Close EXCEPT !.override = TRUE]}
=============================================================================
