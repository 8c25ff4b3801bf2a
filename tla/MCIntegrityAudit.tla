-------------------------- MODULE MCIntegrityAudit --------------------------
(***************************************************************************)
(* Instances of IntegrityAudit: two threads; with raw SQL, closes planted  *)
(* beside real ones and messages whose links lead nowhere.                 *)
(***************************************************************************)
EXTENDS IntegrityAudit

CONSTANTS t1, t2, alice, bob

MCThreads == {t1, t2}
MCAuthors == {alice, bob}

Post(t, a, type) ==
    [kind |-> "post", thread |-> t, author |-> a, type |-> type, closes |-> None,
     reply_to |-> None, refs |-> {}, next |-> None, disposition |-> None,
     role |-> None, override |-> FALSE, sanction |-> None, affects |-> {}]

Open(t, a) == [Post(t, a, "propose") EXCEPT !.kind = "open"]

Closing(t, a) == [Post(t, a, "decide") EXCEPT !.closes = t]

Forced(t, s) == [Closing(t, bob) EXCEPT !.override = TRUE, !.sanction = s]

Human == [kind |-> "human_override", review |-> None]

\* Traffic that leaves every kind of row the audit looks at.
Traffics ==
    {Open(t1, alice), Open(t2, alice), Forced(t1, Human), Forced(t1, None),
     Forced(t2, Human), Closing(t2, alice),
     [Post(t1, bob, "answer") EXCEPT !.reply_to = 1, !.refs = {t2}],
     [Post(t2, bob, "answer") EXCEPT !.refs = {t1}]}

BadMessages ==
    {Closing(t1, bob), Closing(t1, alice),
     [Post(t1, bob, "answer") EXCEPT !.reply_to = 2, !.refs = {t2}],
     Post(t2, alice, "propose")}
=============================================================================
