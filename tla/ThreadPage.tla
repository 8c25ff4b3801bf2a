----------------------------- MODULE ThreadPage -----------------------------
(***************************************************************************)
(* The page of one thread in a browser, beside a ledger that grows: its    *)
(* list of messages fetches itself every 7 seconds and after a post, its   *)
(* two forms post and close in the name in the navbar (web/routes.py, the  *)
(* templates, static/js).  Requests and answers may be lost, and a request *)
(* whose connection broke may still be served.                             *)
(*                                                                         *)
(* htmx sends one request of an element at a time.  What is asked for      *)
(* meanwhile is queued, the newest only, and goes out when the answer, or  *)
(* the error, is there.  A user fills in one form at a time.               *)
(***************************************************************************)
EXTENDS Ledger, Sequences, FiniteSets

CONSTANTS Here,          \* the thread of the page
          Forms,         \* what users fill in, see Form
          MaxTexts,      \* bound on the texts a user types
          MaxLosses,     \* bound on the answers to forms that are lost
          MaxMessages    \* bound on the messages posted

\* The fields that matter: the close form has no type, and both have fields for
\* claims, a role and the reasons of an override, which only Magickit can check.
Form == [kind : {"post", "close"}, type : MsgType \ {"propose"},
         closes : ThreadId \cup {None}, role : {"naysayer", None}, override : BOOLEAN]

Texts == 1 .. MaxTexts

\* A request of a form on its way, and its answer on the way back: the number
\* of the message it became, 0 if it was refused.
Sent == [text : Texts, form : Forms, answer : Nat \cup {None}]

Done(answer) == answer \notin {0, None}

ASSUME PageAssumption ==
    /\ Here \in ThreadId
    /\ None \notin Sent
    /\ Forms \subseteq {f \in Form : f.kind = "close" => f.type = "decide" /\ f.closes = Here}
    /\ {MaxTexts, MaxLosses, MaxMessages} \subseteq Nat

VARIABLES author,     \* the name in the navbar
          shown,      \* the list: numbers of messages; empty before the page is there
          polls,      \* fetches of the list in flight, None until they are served
          pollAgain,  \* another fetch is queued
          missed,     \* not in the code: the last fetch was lost
          form,       \* the fields of the form
          text,       \* its text, numbered; 0 when it is empty
          typed,      \* not in the code: the form of each text, as it was filled in
          sending,    \* its request in flight; None if there is none
          again,      \* it was pressed once more meanwhile
          orphans,    \* requests whose connection broke before they were served
          flash,      \* the answer shown under it
          losses,     \* not in the code: answers lost, of each text
          posted      \* not in the code: the messages each text became

list == <<shown, polls, pollAgain, missed>>
editor == <<form, text, typed, sending, again, flash>>
vars == <<ledger, author, list, editor, orphans, losses, posted>>

Init ==
    /\ LedgerInit
    /\ author \in Author
    /\ shown = {} /\ polls = <<>> /\ pollAgain = FALSE /\ missed = FALSE
    /\ form = None /\ text = 0 /\ typed = <<>>
    /\ sending = None /\ again = FALSE /\ flash = None
    /\ orphans = {}
    /\ losses = [k \in Texts |-> 0]
    /\ posted = [k \in Texts |-> {}]

-----------------------------------------------------------------------------
(* The list *)

\* thread_detail_page; there is no page before the thread is there.
Load ==
    /\ shown = {} /\ Here \in DOMAIN threads
    /\ shown' = Nums(InThread(messages, Here))
    /\ UNCHANGED <<ledger, author, polls, pollAgain, missed, editor, orphans, losses, posted>>

\* Mistake: fetches at once, whatever is in flight.
FetchAtOnce ==
    /\ polls' = Append(polls, None)
    /\ UNCHANGED pollAgain

\* Mistake: drops the fetch if one is in flight (hx-sync drop).
FetchOrDrop ==
    /\ polls' = IF polls = <<>> THEN <<None>> ELSE polls
    /\ UNCHANGED pollAgain

\* A trigger of the list element.
FetchList ==
    /\ polls' = IF polls = <<>> THEN <<None>> ELSE polls
    /\ pollAgain' = (polls # <<>>)

\* "every 7s"
Tick ==
    /\ shown # {}
    /\ FetchList
    /\ UNCHANGED <<ledger, author, shown, missed, editor, orphans, losses, posted>>

\* Mistake: the fragment ignores the mode of the page and serves the summary.
ServeSummary ==
    /\ \E i \in DOMAIN polls :
         /\ polls[i] = None
         /\ polls' = [polls EXCEPT ![i] =
               {n \in Nums(InThread(messages, Here)) : threads[Here].resolved_by \in {n, None}}]
    /\ UNCHANGED <<ledger, author, shown, pollAgain, missed, editor, orphans, losses, posted>>

\* thread_messages_fragment, in the mode of the page, which is "full".
ServeList ==
    /\ \E i \in DOMAIN polls :
         /\ polls[i] = None
         /\ polls' = [polls EXCEPT ![i] = Nums(InThread(messages, Here))]
    /\ UNCHANGED <<ledger, author, shown, pollAgain, missed, editor, orphans, losses, posted>>

\* The i-th request is over, and what was queued goes out.
FetchOver(i) ==
    LET others == SubSeq(polls, 1, i - 1) \o SubSeq(polls, i + 1, Len(polls)) IN
    /\ polls' = IF pollAgain THEN Append(others, None) ELSE others
    /\ pollAgain' = FALSE

ShowList ==
    /\ \E i \in DOMAIN polls : polls[i] # None /\ shown' = polls[i] /\ FetchOver(i)
    /\ missed' = FALSE
    /\ UNCHANGED <<ledger, author, editor, orphans, losses, posted>>

LoseList ==
    /\ \E i \in DOMAIN polls : FetchOver(i)
    /\ missed' = TRUE
    /\ UNCHANGED <<ledger, author, shown, editor, orphans, losses, posted>>

-----------------------------------------------------------------------------
(* The forms *)

Type(f) ==
    /\ shown # {} /\ text = 0 /\ Len(typed) < MaxTexts
    /\ form' = f
    /\ text' = Len(typed) + 1
    /\ typed' = Append(typed, f)
    /\ UNCHANGED <<ledger, author, list, sending, again, orphans, flash, losses, posted>>

\* The browser sends no form whose text is empty.
Outgoing(txt) ==
    IF txt = 0 THEN None ELSE [text |-> txt, form |-> form, answer |-> None]

Press ==
    /\ text # 0
    /\ IF sending = None THEN sending' = Outgoing(text) /\ UNCHANGED again
       ELSE again' = TRUE /\ UNCHANGED sending
    /\ UNCHANGED <<ledger, author, list, form, text, typed, orphans, flash, losses, posted>>

\* Mistake: the reasons of an override are not among _GATED_CLAIM_FIELDS.
ClaimsRoleOnly(f) == f.role # None

\* _gated_claims: what only Magickit can check is refused here.
Claims(f) == f.role # None \/ f.override

\* The request that messages_post or threads_close makes of a form.  It has no
\* place for a claim, so one that came this far would be lost.
RequestOf(f) ==
    [kind |-> f.kind, thread |-> Here, author |-> author, type |-> f.type,
     closes |-> f.closes, reply_to |-> None, refs |-> {}, next |-> None,
     disposition |-> None, role |-> None, override |-> FALSE,
     sanction |-> None, affects |-> {}]

Refused(r) ==
    \/ Verdict(threads[Here], r, messages, threads) # "accepted"
    \/ CloseRefused(threads[Here], r)

\* One request of a form, and what it answers.
Serve(s, answer) ==
    IF Claims(s.form) \/ Refused(RequestOf(s.form))
    THEN /\ answer = 0
         /\ UNCHANGED <<ledger, posted>>
    ELSE /\ answer = NextNum(messages) /\ answer <= MaxMessages
         /\ AppendMessage(RequestOf(s.form))
         /\ posted' = [posted EXCEPT ![s.text] = @ \cup {answer}]

ServeForm ==
    /\ sending # None /\ sending.answer = None
    /\ \E answer \in {0, NextNum(messages)} :
         Serve(sending, answer) /\ sending' = [sending EXCEPT !.answer = answer]
    /\ UNCHANGED <<author, list, form, text, typed, again, orphans, flash, losses>>

ServeOrphan ==
    /\ \E s \in orphans, answer \in {0, NextNum(messages)} :
         Serve(s, answer) /\ orphans' = orphans \ {s}
    /\ UNCHANGED <<author, list, editor, losses>>

\* Mistake: leaves the text in the field.
TextKept(answer) == text

\* The post form empties itself after every answer that is no HTTP error, which
\* a refusal is not.  The close form is left alone.
TextAfter(answer) == IF form.kind = "post" THEN 0 ELSE text

\* What was queued is sent with the text that is in the form by then.
AnswerForm ==
    LET answer == sending.answer IN
    /\ sending # None /\ answer # None
    /\ form.kind = "post" \/ answer = 0
    /\ flash' = answer
    /\ text' = TextAfter(answer)
    /\ sending' = IF again THEN Outgoing(text') ELSE None
    /\ again' = FALSE
    /\ IF Done(answer) THEN FetchList ELSE UNCHANGED <<polls, pollAgain>>
    /\ UNCHANGED <<ledger, author, shown, missed, form, typed, orphans, losses, posted>>

\* A close is answered with HX-Refresh: the page is loaded anew.
Reload ==
    /\ sending # None /\ Done(sending.answer) /\ form.kind = "close"
    /\ shown' = Nums(InThread(messages, Here))
    /\ polls' = <<>> /\ pollAgain' = FALSE /\ missed' = FALSE
    /\ text' = 0 /\ sending' = None /\ again' = FALSE /\ flash' = None
    /\ UNCHANGED <<ledger, author, form, typed, orphans, losses, posted>>

\* The connection breaks.  Before the request was served it may be served yet.
LoseForm ==
    /\ sending # None /\ losses[sending.text] < MaxLosses
    /\ losses' = [losses EXCEPT ![sending.text] = @ + 1]
    /\ IF sending.answer = None
       THEN \E lost \in {{}, {sending}} : orphans' = orphans \cup lost
       ELSE UNCHANGED orphans
    /\ sending' = IF again THEN Outgoing(text) ELSE None
    /\ again' = FALSE
    /\ UNCHANGED <<ledger, author, list, form, text, typed, flash, posted>>

-----------------------------------------------------------------------------
\* Everybody else.
Others ==
    /\ NextNum(messages) <= MaxMessages
    /\ LedgerNext
    /\ UNCHANGED <<author, list, editor, orphans, losses, posted>>

Next ==
    \/ Load \/ Tick \/ ServeList \/ ShowList \/ LoseList
    \/ \E f \in Forms : Type(f)
    \/ Press \/ ServeForm \/ ServeOrphan \/ AnswerForm \/ Reload \/ LoseForm
    \/ Others

\* The timer goes on, and fetches are not lost for ever, neither on their way
\* to the server nor back.
Spec ==
    /\ Init /\ [][Next]_vars
    /\ WF_vars(Tick) /\ SF_vars(ServeList) /\ SF_vars(ShowList)

-----------------------------------------------------------------------------
PageTypeOK ==
    /\ author \in Author
    /\ shown \subseteq Nat
    /\ polls \in Seq((SUBSET Nat) \cup {None}) /\ Len(polls) <= 1
    /\ {pollAgain, missed, again} \subseteq BOOLEAN
    /\ form \in Forms \cup {None}
    /\ text \in 0 .. MaxTexts
    /\ typed \in Seq(Forms) /\ Len(typed) <= MaxTexts
    /\ sending \in Sent \cup {None}
    /\ orphans \subseteq Sent
    /\ flash \in Nat \cup {None}
    /\ losses \in [Texts -> 0 .. MaxLosses]
    /\ posted \in [Texts -> SUBSET Nat]

\* The list only grows: no answer of an older fetch replaces that of a newer
\* one, and a reload does not lose anything either.
ListGrows == [][shown \subseteq shown']_vars

\* However often the button is pressed, a text is posted once, unless the user
\* saw the request fail: nothing else is sent twice.
PostedOncePerTry ==
    \A k \in Texts : Cardinality(posted[k]) <= 1 + losses[k]

\* The list that stands under "posted msg-N" has msg-N, unless the fetch that
\* follows the answer was lost: the one that was under way already may be too
\* old for it.
PostedIsListed ==
    (Done(flash) /\ polls = <<>> /\ ~missed) => flash \in shown

\* What was posted here gets into the list, also if the answer of the post or
\* any number of fetches is lost.
PostedGetsListed ==
    LET mine == UNION {posted[k] : k \in Texts} IN
    mine # {} ~> mine \subseteq shown

\* A text becomes what its user filled in, the claims included: as these
\* routes can honour none, a form with one becomes no message at all, however
\* often it is sent.  "The post would succeed while messages.role stayed null"
\* is what must not happen (_gated_claim_flash, web/routes.py).
PostedAsFilledIn ==
    \A k \in DOMAIN typed, m \in messages : m.num \in posted[k] =>
        /\ m.thread = Here /\ m.author = author
        /\ m.type = typed[k].type /\ m.closes = typed[k].closes
        /\ m.role = typed[k].role
        /\ ~typed[k].override
=============================================================================
