-------------------------- MODULE ThreadPageProofs --------------------------
(***************************************************************************)
(* Proofs about the page of one thread, for any forms, texts and losses.   *)
(*                                                                         *)
(* Three invariants carry them.  There is never more than one fetch of the *)
(* list in flight, and what it was served holds all that is shown.  Every  *)
(* message a text became is paid for: by its first try or by a failure the *)
(* user saw, and what may still be served counts too.  And whatever is on  *)
(* its way to the server is the form of its text as it was filled in.      *)
(***************************************************************************)
EXTENDS ThreadPage, LedgerProofs, FiniteSetTheorems, SequenceTheorems

\* What the page needs of the ledger; its forms need not be in Requests.
TablesInv ==
    /\ Numbered
    /\ \A e \in events : e.msg \in Nums(messages)
    /\ \A t \in DOMAIN threads : "owner" \in DOMAIN threads[t]

Listing == Nums(InThread(messages, Here))

ListInv ==
    /\ shown \subseteq Listing
    /\ shown = {} => polls = <<>>
    /\ pollAgain => polls # <<>>
    /\ polls # <<>> /\ polls[1] # None => shown \subseteq polls[1] /\ polls[1] \subseteq Listing

\* What is sent, or may be served yet, is a form as it was filled in.
FormInv ==
    /\ sending # None => text # 0 /\ sending.text = text /\ sending.form = form
    /\ text # 0 => text \in DOMAIN typed /\ form = typed[text] /\ shown # {}
    /\ \A s \in orphans :
         s.answer = None /\ s.text \in DOMAIN typed /\ s.form = typed[s.text]

Waiting(k) == {s \in orphans : s.text = k}

\* The text in the form, which has not been posted yet.
Unposted(k) == k = text /\ (sending = None \/ ~Done(sending.answer))

TriesInv(k) ==
    /\ IsFiniteSet(posted[k]) /\ IsFiniteSet(Waiting(k))
    /\ k \notin DOMAIN typed => posted[k] = {} /\ losses[k] = 0
    /\ Cardinality(posted[k]) + Cardinality(Waiting(k)) <=
         losses[k] + (IF Unposted(k) THEN 0 ELSE 1)

\* A message that is shown, or will be unless a fetch is lost.
Coming(n) ==
    \/ n \in shown
    \/ polls # <<>> /\ (polls[1] = None \/ n \in polls[1] \/ pollAgain)
    \/ polls = <<>> /\ missed

PostedInv ==
    /\ \A k \in Texts : posted[k] \subseteq Listing
    /\ sending # None /\ Done(sending.answer) => sending.answer \in Listing
    /\ Done(flash) => flash \in Listing /\ Coming(flash)

PageInv ==
    /\ TablesInv
    /\ PageTypeOK
    /\ ListInv
    /\ FormInv
    /\ \A k \in Texts : TriesInv(k)
    /\ PostedInv
    /\ PostedAsFilledIn

-----------------------------------------------------------------------------
(* The tables beside the page *)

TablesGrow ==
    /\ messages \subseteq messages'
    /\ \A m \in messages' \ messages : m.num \notin Nums(messages)
    /\ \A e \in events' \ events : e.msg \notin Nums(messages)
    /\ \A t \in DOMAIN threads :
         t \in DOMAIN threads' /\ threads'[t].owner = threads[t].owner

LEMMA WriteGrows ==
    ASSUME TablesInv, NEW r, OpenThread(r) \/ AppendMessage(r)
    PROVE  /\ TablesInv' /\ TablesGrow
           /\ NextNum(messages) \in Nat \ Nums(messages)
           /\ messages' = messages \cup {NewMessage(r, NextNum(messages))}
  <1>1. PICK n \in Nat : Nums(messages) = 1 .. n
    BY DEF TablesInv, Numbered
  <1>2. NextNum(messages) = n + 1
    BY <1>1, NextNumFollows
  <1>3. messages' = messages \cup {NewMessage(r, n + 1)}
    BY <1>2 DEF OpenThread, AppendMessage
  <1>4. /\ Numbered' /\ Nums(messages) \subseteq Nums(messages') /\ n + 1 \in Nums(messages')
        /\ NewMessage(r, n + 1).num = n + 1 /\ n + 1 \notin Nums(messages)
    <2>1. Numbered' /\ Nums(messages') = 1 .. (n + 1) /\ Nums(messages) \subseteq Nums(messages')
      BY <1>1, <1>3, NumberedGrows DEF TablesInv
    <2>2. NewMessage(r, n + 1).num = n + 1
      BY DEF NewMessage
    <2> QED
      BY <1>1, <2>1, <2>2
  <1>5. events \subseteq events' /\ \A e \in events' \ events : e.msg = n + 1
    <2>1. OpenEvent(r, n + 1).msg = n + 1
      BY DEF OpenEvent
    <2>2. \A row : \A e \in NewEvents(row, r, n + 1) : e.msg = n + 1
      BY DEF NewEvents, PostEvent, TransitionEvent
    <2> QED
      BY <1>2, <2>1, <2>2 DEF OpenThread, AppendMessage
  <1>6. /\ \A t \in DOMAIN threads :
             t \in DOMAIN threads' /\ threads'[t].owner = threads[t].owner
        /\ \A t \in DOMAIN threads' : "owner" \in DOMAIN threads'[t]
    <2>1. CASE OpenThread(r)
      <3>1. "owner" \in DOMAIN OpenedThread(r, n + 1)
        BY DEF OpenedThread
      <3>2. /\ r.thread \notin DOMAIN threads
            /\ threads' = Put(threads, r.thread, OpenedThread(r, n + 1))
        BY <1>2, <2>1 DEF OpenThread
      <3> QED
        BY <3>1, <3>2 DEF Put, TablesInv
    <2>2. CASE AppendMessage(r)
      <3> DEFINE row == threads[r.thread]
                 after == ThreadAfter(row, r, n + 1)
      <3>1. r.thread \in DOMAIN threads /\ threads' = Put(threads, r.thread, after)
        BY <1>2, <2>2 DEF AppendMessage
      <3>2. "owner" \in DOMAIN row
        BY <3>1 DEF TablesInv
      <3>3. "owner" \in DOMAIN after /\ after.owner = row.owner
        BY <3>2 DEF ThreadAfter
      <3> HIDE DEF after
      <3> QED
        BY <3>1, <3>3 DEF Put, TablesInv
    <2> QED
      BY <2>1, <2>2
  <1>7. TablesInv'
    BY <1>4, <1>5, <1>6 DEF TablesInv
  <1> QED
    BY <1>2, <1>3, <1>4, <1>5, <1>6, <1>7 DEF TablesGrow

LEMMA StillTables ==
    ASSUME TablesInv, UNCHANGED ledger
    PROVE  TablesInv' /\ TablesGrow
  <1>1. threads' = threads /\ messages' = messages /\ events' = events
    BY DEF ledger
  <1> QED
    BY <1>1 DEF TablesInv, TablesGrow, Numbered

LEMMA LedgerGrowsTables ==
    ASSUME TablesInv, LedgerNext
    PROVE  TablesInv' /\ TablesGrow
  <1>1. ASSUME NEW t \in ThreadId, NEW s \in OperatorStatuses, SetAside(t, s)
        PROVE  TablesInv' /\ TablesGrow
    <2>1. /\ t \in DOMAIN threads /\ messages' = messages /\ events' = events
          /\ threads' = [threads EXCEPT ![t].status = s]
      BY <1>1, OperatorAssumption DEF SetAside
    <2>2. /\ DOMAIN threads' = DOMAIN threads
          /\ threads'[t] = [threads[t] EXCEPT !.status = s]
          /\ \A k \in DOMAIN threads : k # t => threads'[k] = threads[k]
      BY <2>1
    <2>3. "owner" \in DOMAIN threads'[t] /\ threads'[t].owner = threads[t].owner
      BY <2>1, <2>2 DEF TablesInv
    <2> QED
      BY <2>1, <2>2, <2>3 DEF TablesInv, TablesGrow, Numbered
  <1> QED
    BY <1>1, WriteGrows DEF LedgerNext

\* What serving a form does.
LEMMA Served ==
    ASSUME TablesInv, NEW s, NEW answer, Serve(s, answer)
    PROVE  \/ answer = 0 /\ UNCHANGED <<ledger, posted>>
           \/ /\ answer = NextNum(messages) /\ answer \in Nat \ {0} /\ ~Claims(s.form)
              /\ AppendMessage(RequestOf(s.form))
              /\ posted' = [posted EXCEPT ![s.text] = @ \cup {answer}]
  <1>1. PICK n \in Nat : Nums(messages) = 1 .. n
    BY DEF TablesInv, Numbered
  <1>2. NextNum(messages) \in Nat \ {0}
    BY <1>1, NextNumFollows
  <1> QED
    BY <1>2 DEF Serve

LEMMA TablesStep ==
    ASSUME TablesInv, [Next]_vars
    PROVE  TablesInv' /\ TablesGrow
  <1>1. CASE UNCHANGED ledger
    BY <1>1, StillTables
  <1>2. ASSUME NEW s, NEW answer, Serve(s, answer)
        PROVE  TablesInv' /\ TablesGrow
    BY <1>2, Served, StillTables, WriteGrows
  <1>3. CASE Others
    BY <1>3, LedgerGrowsTables DEF Others
  <1>4. CASE ServeForm \/ ServeOrphan
    BY <1>2, <1>4 DEF ServeForm, ServeOrphan
  <1> QED
    BY <1>1, <1>3, <1>4 DEF Next, vars, Load, Tick, ServeList, ShowList, LoseList, Type,
       Press, AnswerForm, Reload, LoseForm

LEMMA ListingGrows ==
    ASSUME TablesGrow
    PROVE  Listing \subseteq Listing'
  BY MessagesStay DEF TablesGrow, Listing

LEMMA ListingIsNumbers ==
    ASSUME TablesInv
    PROVE  Listing \subseteq Nat /\ Listing \subseteq Nums(messages)
  BY DEF TablesInv, Numbered, Listing, Nums, InThread

-----------------------------------------------------------------------------
(* The list *)

LEMMA OnePoll ==
    ASSUME PageTypeOK
    PROVE  polls = <<>> \/ (polls = <<polls[1]>> /\ polls[1] \in (SUBSET Nat) \cup {None})
  <1> DEFINE S == (SUBSET Nat) \cup {None}
  <1>1. polls \in Seq(S) /\ Len(polls) \in Nat /\ Len(polls) <= 1
    BY DEF PageTypeOK
  <1> HIDE DEF S
  <1>2. CASE Len(polls) = 0
    <2>1. \A seq \in Seq(S) : seq # <<>> => Len(seq) \in Nat \ {0}
      BY EmptySeq
    <2>2. Len(polls) \notin Nat \ {0}
      BY <1>2
    <2> QED
      BY <1>1, <2>1, <2>2, Zenon
  <1>3. CASE Len(polls) = 1
    <2>1. polls[1] \in S
      BY <1>1, <1>3
    <2>2. <<polls[1]>> \in Seq(S) /\ Len(<<polls[1]>>) = 1 /\ <<polls[1]>>[1] = polls[1]
      BY <2>1
    <2>3. polls = <<polls[1]>>
      BY <1>1, <1>3, <2>2, SeqEqual
    <2> QED
      BY <2>1, <2>3 DEF S
  <1> QED
    BY <1>1, <1>2, <1>3

\* A fetch of the list is over.
LEMMA DoneFacts ==
    ASSUME PageTypeOK, NEW i \in DOMAIN polls, FetchOver(i)
    PROVE  /\ polls # <<>> /\ i = 1 /\ pollAgain' = FALSE
           /\ polls' = IF pollAgain THEN <<None>> ELSE <<>>
  <1>1. polls = <<polls[1]>> /\ i = 1
    BY OnePoll
  <1>2. SubSeq(polls, 1, 0) = <<>> /\ SubSeq(polls, 2, 1) = <<>> /\ Len(polls) = 1
    BY <1>1, SubSeqEmpty
  <1> DEFINE others == SubSeq(polls, 1, i - 1) \o SubSeq(polls, i + 1, Len(polls))
  <1>3. others = <<>>
    BY <1>1, <1>2
  <1>4. Append(<<>>, None) = <<None>>
    OBVIOUS
  <1>5. /\ polls' = IF pollAgain THEN Append(others, None) ELSE others
        /\ pollAgain' = FALSE
    BY DEF FetchOver
  <1> HIDE DEF others
  <1> QED
    BY <1>1, <1>3, <1>4, <1>5

LEMMA ServeFacts ==
    ASSUME PageTypeOK, ServeList
    PROVE  polls # <<>> /\ polls' = <<Listing>>
  <1>1. PICK i \in DOMAIN polls : polls' = [polls EXCEPT ![i] = Listing]
    BY DEF ServeList, Listing
  <1>2. polls = <<polls[1]>> /\ i = 1
    BY OnePoll
  <1> QED
    BY <1>1, <1>2

LEMMA ShowFacts ==
    ASSUME PageTypeOK, ShowList
    PROVE  /\ polls # <<>> /\ polls[1] # None /\ shown' = polls[1]
           /\ pollAgain' = FALSE /\ polls' = IF pollAgain THEN <<None>> ELSE <<>>
  BY DoneFacts DEF ShowList

\* Every step leaves the list alone or is one of these.
LEMMA ListSteps ==
    ASSUME [Next]_vars
    PROVE  \/ UNCHANGED list
           \/ Load \/ Tick \/ ServeList \/ ShowList \/ LoseList \/ AnswerForm \/ Reload
  BY DEF Next, vars, Type, Press, ServeForm, ServeOrphan, LoseForm, Others

LEMMA FetchFacts ==
    ASSUME PageInv, Tick \/ AnswerForm
    PROVE  /\ shown' = shown /\ shown # {} /\ missed' = missed
           /\ \/ UNCHANGED <<polls, pollAgain>>
              \/ /\ polls' = IF polls = <<>> THEN <<None>> ELSE polls
                 /\ pollAgain' = (polls # <<>>)
  BY DEF Tick, AnswerForm, FetchList, PageInv, FormInv

LEMMA ListStep ==
    ASSUME PageInv, [Next]_vars, TablesInv', TablesGrow
    PROVE  ListInv' /\ shown \subseteq shown'
  <1>1. PageTypeOK /\ ListInv /\ Listing \subseteq Listing'
    BY ListingGrows DEF PageInv
  <1>2. <<Listing>> # <<>> /\ <<Listing>>[1] = Listing /\ <<None>> # <<>> /\ <<None>>[1] = None
    OBVIOUS
  <1> DEFINE now == Listing
  <1> HIDE DEF Listing
  <1>3. CASE UNCHANGED list
    BY <1>1, <1>3 DEF list, ListInv
  <1>4. CASE Load
    <2>1. shown = {} /\ shown' = Listing /\ polls' = polls /\ pollAgain' = pollAgain
      BY <1>4 DEF Load, Listing
    <2> QED
      BY <1>1, <2>1 DEF ListInv
  <1>5. CASE Tick \/ AnswerForm
    BY <1>1, <1>2, <1>5, FetchFacts DEF ListInv
  <1>6. CASE ServeList
    <2>1. polls # <<>> /\ polls' = <<Listing>> /\ shown' = shown /\ pollAgain' = pollAgain
      BY <1>1, <1>6, ServeFacts DEF ServeList
    <2> QED
      BY <1>1, <1>2, <2>1 DEF ListInv
  <1>7. CASE ShowList
    BY <1>1, <1>2, <1>7, ShowFacts DEF ListInv
  <1>8. CASE LoseList
    <2>1. /\ shown' = shown /\ pollAgain' = FALSE /\ polls # <<>>
          /\ polls' = IF pollAgain THEN <<None>> ELSE <<>>
      BY <1>1, <1>8, DoneFacts DEF LoseList
    <2> QED
      BY <1>1, <1>2, <2>1 DEF ListInv
  <1>9. CASE Reload
    <2>1. shown' = Listing /\ polls' = <<>> /\ pollAgain' = FALSE
      BY <1>9 DEF Reload, Listing
    <2> QED
      BY <1>1, <2>1 DEF ListInv
  <1> QED
    BY <1>3, <1>4, <1>5, <1>6, <1>7, <1>8, <1>9, ListSteps

-----------------------------------------------------------------------------
(* The forms *)

\* The forms that were filled in, one for each text.
LEMMA TypedFacts ==
    ASSUME PageTypeOK
    PROVE  /\ typed \in Seq(Forms) /\ Len(typed) \in Nat
           /\ DOMAIN typed = 1 .. Len(typed) /\ DOMAIN typed \subseteq Texts
           /\ \A k \in DOMAIN typed : typed[k] \in Forms
  BY PageAssumption DEF PageTypeOK, Texts

LEMMA TypeFacts ==
    ASSUME PageTypeOK, NEW f \in Forms, Type(f)
    PROVE  /\ typed' \in Seq(Forms) /\ Len(typed') = Len(typed) + 1
           /\ text' \in DOMAIN typed' \ DOMAIN typed /\ typed'[text'] = f
           /\ DOMAIN typed \subseteq DOMAIN typed'
           /\ DOMAIN typed' \subseteq DOMAIN typed \cup {text'}
           /\ \A k \in DOMAIN typed : typed'[k] = typed[k]
  BY TypedFacts DEF Type

\* What was filled in stays so.
LEMMA TypedStays ==
    ASSUME PageTypeOK, [Next]_vars
    PROVE  /\ DOMAIN typed \subseteq DOMAIN typed'
           /\ \A k \in DOMAIN typed : typed'[k] = typed[k]
  <1>1. typed' = typed \/ \E f \in Forms : Type(f)
    BY DEF Next, vars, editor, Load, Tick, ServeList, ShowList, LoseList, Press, ServeForm,
       ServeOrphan, AnswerForm, Reload, LoseForm, Others
  <1> QED
    BY <1>1, TypeFacts

LEMMA TypedDomain ==
    ASSUME PageTypeOK, [Next]_vars
    PROVE  /\ typed' \in Seq(Forms) /\ Len(typed') <= MaxTexts
           /\ DOMAIN typed' \subseteq Texts
  <1>1. typed' \in Seq(Forms) /\ Len(typed') \in Nat /\ Len(typed') <= MaxTexts
    <2>1. CASE typed' = typed
      BY <2>1, TypedFacts DEF PageTypeOK
    <2>2. ASSUME NEW f \in Forms, Type(f)
          PROVE  typed' \in Seq(Forms) /\ Len(typed') \in Nat /\ Len(typed') <= MaxTexts
      BY <2>2, TypedFacts, TypeFacts, PageAssumption DEF Type
    <2> QED
      BY <2>1, <2>2 DEF Next, vars, editor, Load, Tick, ServeList, ShowList, LoseList, Press,
         ServeForm, ServeOrphan, AnswerForm, Reload, LoseForm, Others
  <1> QED
    BY <1>1, PageAssumption DEF Texts

\* What goes out of a form that is not empty.
LEMMA OutgoingFacts ==
    ASSUME PageInv, text # 0
    PROVE  /\ Outgoing(text) \in Sent /\ Outgoing(text) # None
           /\ Outgoing(text).text = text /\ Outgoing(text).form = form
           /\ Outgoing(text).answer = None
  <1>1. text \in Texts /\ form \in Forms
    BY TypedFacts DEF PageInv, FormInv
  <1>2. Outgoing(text) = [text |-> text, form |-> form, answer |-> None]
    BY DEF Outgoing
  <1>3. Outgoing(text) \in Sent
    BY <1>1, <1>2 DEF Sent
  <1> QED
    BY <1>2, <1>3, PageAssumption

\* What is sent is the form that is filled in.
LEMMA SendingFacts ==
    ASSUME PageInv, sending # None
    PROVE  /\ sending \in Sent /\ sending.text = text /\ sending.form = form
           /\ text # 0 /\ text \in Texts /\ form \in Forms
           /\ text \in DOMAIN typed /\ form = typed[text]
           /\ sending.answer \in Nat \cup {None}
  <1>1. sending \in Sent
    BY DEF PageInv, PageTypeOK
  <1>2. /\ sending.text = text /\ sending.form = form
        /\ text # 0 /\ text \in DOMAIN typed /\ form = typed[text]
    BY DEF PageInv, FormInv
  <1>3. text \in Texts /\ form \in Forms
    BY <1>2, TypedFacts DEF PageInv
  <1> QED
    BY <1>1, <1>2, <1>3 DEF Sent

\* Every step leaves the form alone or is one of these.
LEMMA FormSteps ==
    ASSUME [Next]_vars
    PROVE  \/ UNCHANGED <<editor, orphans>>
           \/ \E f \in Forms : Type(f)
           \/ Press \/ ServeForm \/ ServeOrphan \/ AnswerForm \/ Reload \/ LoseForm
  BY DEF Next, vars, Load, Tick, ServeList, ShowList, LoseList, Others

LEMMA AnswerFacts ==
    ASSUME PageInv, AnswerForm
    PROVE  /\ sending # None /\ sending.answer # None /\ flash' = sending.answer
           /\ form' = form /\ typed' = typed /\ orphans' = orphans /\ again' = FALSE
           /\ losses' = losses /\ posted' = posted /\ missed' = missed
           /\ Done(sending.answer) => text' = 0
           /\ text' \in {0, text}
           /\ \/ sending' = None
              \/ text' # 0 /\ text' = text /\ sending' = Outgoing(text)
  <1>1. /\ sending # None /\ sending.answer # None /\ flash' = sending.answer
        /\ form.kind = "post" \/ sending.answer = 0
        /\ text' = TextAfter(sending.answer)
        /\ sending' = IF again THEN Outgoing(text') ELSE None
        /\ UNCHANGED <<form, typed, orphans, losses, posted, missed>> /\ again' = FALSE
    BY DEF AnswerForm
  <1>2. text' \in {0, text} /\ (Done(sending.answer) => text' = 0)
    BY <1>1 DEF TextAfter, Done
  <1>3. Outgoing(0) = None
    BY DEF Outgoing
  <1> QED
    BY <1>1, <1>2, <1>3

LEMMA LoseFacts ==
    ASSUME PageInv, LoseForm
    PROVE  /\ sending # None
           /\ losses[text] < MaxLosses
           /\ losses' = [losses EXCEPT ![text] = @ + 1]
           /\ UNCHANGED <<ledger, author, list, form, text, typed, flash, posted>>
           /\ sending' \in {None, Outgoing(text)} /\ again' = FALSE
           /\ \/ orphans' = orphans
              \/ sending.answer = None /\ orphans' = orphans \cup {sending}
  BY SendingFacts DEF LoseForm

LEMMA FormStep ==
    ASSUME PageInv, [Next]_vars, TablesInv', TablesGrow
    PROVE  FormInv'
  <1>1. PageTypeOK /\ FormInv
    BY DEF PageInv
  <1>2. shown \subseteq shown'
    BY ListStep
  <1>3. CASE UNCHANGED <<editor, orphans>>
    BY <1>1, <1>2, <1>3 DEF editor, FormInv
  <1>4. ASSUME NEW f \in Forms, Type(f)
        PROVE  FormInv'
    <2>1. sending = None /\ sending' = sending /\ orphans' = orphans /\ form' = f
      BY <1>1, <1>4 DEF Type, FormInv
    <2>2. shown # {}
      BY <1>4 DEF Type
    <2> QED
      BY <1>1, <1>2, <1>4, <2>1, <2>2, TypeFacts DEF FormInv
  <1>5. CASE Press
    <2>1. CASE sending = None
      BY <1>1, <1>5, <2>1, OutgoingFacts DEF Press, FormInv, list
    <2>2. CASE sending # None
      BY <1>1, <1>5, <2>2 DEF Press, FormInv, list
    <2> QED
      BY <2>1, <2>2
  <1>6. CASE ServeForm
    <2>1. PICK answer : sending' = [sending EXCEPT !.answer = answer]
      BY <1>6 DEF ServeForm
    <2>2. sending'.text = sending.text /\ sending'.form = sending.form
      BY <1>6, <2>1, SendingFacts DEF Sent, ServeForm
    <2> QED
      BY <1>1, <1>6, <2>2 DEF ServeForm, FormInv, list
  <1>7. CASE ServeOrphan
    BY <1>1, <1>7 DEF ServeOrphan, FormInv, editor, list
  <1>8. CASE AnswerForm
    BY <1>1, <1>2, <1>8, AnswerFacts, SendingFacts, OutgoingFacts DEF FormInv
  <1>9. CASE Reload
    BY <1>1, <1>9 DEF Reload, FormInv
  <1>10. CASE LoseForm
    <2>1. \A s \in orphans' :
             s.answer = None /\ s.text \in DOMAIN typed /\ s.form = typed[s.text]
      BY <1>1, <1>10, LoseFacts, SendingFacts DEF FormInv
    <2> QED
      BY <1>1, <1>10, <2>1, LoseFacts, SendingFacts, OutgoingFacts DEF FormInv, list
  <1> QED
    BY <1>3, <1>4, <1>5, <1>6, <1>7, <1>8, <1>9, <1>10, FormSteps

\* What a step adds to the messages of the texts.
PostsOne(n) ==
    \E k \in DOMAIN typed :
        /\ n = NextNum(messages)
        /\ ~Claims(typed[k])
        /\ AppendMessage(RequestOf(typed[k]))
        /\ posted' = [posted EXCEPT ![k] = @ \cup {n}]

LEMMA PostSteps ==
    ASSUME PageInv, [Next]_vars
    PROVE  posted' = posted \/ PostsOne(NextNum(messages))
  <1>1. ASSUME NEW s, s.text \in DOMAIN typed, s.form = typed[s.text],
               NEW answer, Serve(s, answer)
        PROVE  posted' = posted \/ PostsOne(NextNum(messages))
    BY <1>1, Served DEF PageInv, PostsOne
  <1>2. CASE ServeForm
    BY <1>1, <1>2, SendingFacts DEF ServeForm
  <1>3. CASE ServeOrphan
    BY <1>1, <1>3 DEF ServeOrphan, PageInv, FormInv
  <1> QED
    BY <1>2, <1>3 DEF Next, vars, Load, Tick, ServeList, ShowList, LoseList, Type, Press,
       AnswerForm, Reload, LoseForm, Others

\* The message of a form is in its thread and is what the form says.
LEMMA MessageOfForm ==
    ASSUME TablesInv, NEW f, AppendMessage(RequestOf(f))
    PROVE  /\ NextNum(messages) \in Nat \ Nums(messages)
           /\ NextNum(messages) \in Listing'
           /\ \A m \in messages' : m.num = NextNum(messages) =>
                /\ m.thread = Here /\ m.author = author
                /\ m.type = f.type /\ m.closes = f.closes /\ m.role = None
  <1> DEFINE r == RequestOf(f)
             n == NextNum(messages)
  <1>1. /\ r.thread = Here /\ r.author = author /\ r.type = f.type
        /\ r.closes = f.closes /\ r.role = None
    BY DEF RequestOf
  <1>2. n \in Nat \ Nums(messages) /\ messages' = messages \cup {NewMessage(r, n)}
    BY WriteGrows
  <1> HIDE DEF n, r
  <1>3. /\ NewMessage(r, n).num = n /\ NewMessage(r, n).thread = Here
        /\ NewMessage(r, n).author = author /\ NewMessage(r, n).type = f.type
        /\ NewMessage(r, n).closes = f.closes /\ NewMessage(r, n).role = None
    BY <1>1 DEF NewMessage
  <1>4. n \in Listing'
    BY <1>2, <1>3 DEF Listing, Nums, InThread
  <1>5. \A m \in messages' : m.num = n => m = NewMessage(r, n)
    BY <1>2 DEF Nums
  <1> QED
    BY <1>2, <1>3, <1>4, <1>5 DEF n

\* What a text became stays its own, and what it becomes now is its form.
LEMMA PostedGrows ==
    ASSUME PageInv, [Next]_vars, TablesInv', TablesGrow
    PROVE  /\ PostedAsFilledIn'
           /\ \A k \in Texts : posted[k] \subseteq posted'[k] /\ posted'[k] \subseteq Listing'
  <1>1. /\ posted \in [Texts -> SUBSET Nat] /\ Listing \subseteq Listing'
        /\ \A k \in Texts : posted[k] \subseteq Listing
        /\ Listing \subseteq Nums(messages)
        /\ DOMAIN typed \subseteq Texts /\ DOMAIN typed' \subseteq Texts
    BY ListingGrows, ListingIsNumbers, TypedFacts, TypedDomain
    DEF PageInv, PageTypeOK, PostedInv
  <1>2. author' = author
    BY DEF Next, vars, Load, Tick, ServeList, ShowList, LoseList, Type, Press, ServeForm,
       ServeOrphan, AnswerForm, Reload, LoseForm, Others
  <1>3. /\ DOMAIN typed \subseteq DOMAIN typed'
        /\ \A k \in DOMAIN typed : typed'[k] = typed[k]
    BY TypedStays DEF PageInv
  <1> DEFINE Fits(m, f) ==
        /\ m.thread = Here /\ m.author = author
        /\ m.type = f.type /\ m.closes = f.closes
        /\ m.role = f.role
        /\ ~f.override
  <1>4. ASSUME NEW k \in DOMAIN typed', NEW m \in messages', m.num \in posted[k]
        PROVE  Fits(m, typed'[k])
    <2>1. k \in DOMAIN typed
      BY <1>1, <1>4 DEF PageInv, TriesInv
    <2>2. m \in messages
      BY <1>1, <1>4 DEF TablesGrow
    <2>3. Fits(m, typed[k])
      BY <1>4, <2>1, <2>2 DEF PageInv, PostedAsFilledIn
    <2> QED
      BY <1>3, <2>1, <2>3
  <1>5. CASE posted' = posted
    BY <1>1, <1>2, <1>4, <1>5 DEF PostedAsFilledIn
  <1>6. CASE PostsOne(NextNum(messages))
    <2> DEFINE n == NextNum(messages)
    <2>1. PICK k \in DOMAIN typed :
            /\ ~Claims(typed[k]) /\ AppendMessage(RequestOf(typed[k]))
            /\ posted' = [posted EXCEPT ![k] = @ \cup {n}]
      BY <1>6 DEF PostsOne
    <2>2. /\ n \in Listing'
          /\ \A m \in messages' : m.num = n =>
               /\ m.thread = Here /\ m.author = author
               /\ m.type = typed[k].type /\ m.closes = typed[k].closes /\ m.role = None
      BY <2>1, MessageOfForm DEF PageInv
    <2> HIDE DEF n
    <2>3. typed[k].role = None /\ ~typed[k].override
      BY <2>1 DEF Claims
    <2>4. \A j \in Texts : posted'[j] = IF j = k THEN posted[j] \cup {n} ELSE posted[j]
      BY <1>1, <2>1
    <2>5. ASSUME NEW j \in DOMAIN typed', NEW m \in messages', m.num \in posted'[j]
          PROVE  Fits(m, typed'[j])
      <3>1. m.num \in posted[j] \/ (j = k /\ m.num = n)
        BY <1>1, <2>4, <2>5
      <3>2. CASE m.num \in posted[j]
        BY <1>4, <3>2
      <3>3. CASE j = k /\ m.num = n
        BY <1>3, <2>2, <2>3, <3>3
      <3> QED
        BY <3>1, <3>2, <3>3
    <2>6. PostedAsFilledIn'
      BY <1>2, <2>5 DEF PostedAsFilledIn
    <2> QED
      BY <1>1, <2>2, <2>4, <2>6
  <1> QED
    BY <1>5, <1>6, PostSteps

\* What is coming stays so until it is shown.
LEMMA ComingStays ==
    ASSUME PageInv, [Next]_vars, TablesGrow, NEW n \in Listing, Coming(n)
    PROVE  Coming(n)'
  <1>1. PageTypeOK /\ ListInv
    BY DEF PageInv
  <1>2. <<Listing>> # <<>> /\ <<Listing>>[1] = Listing /\ <<None>> # <<>> /\ <<None>>[1] = None
    OBVIOUS
  <1>3. n \in Listing'
    BY ListingGrows
  <1> HIDE DEF Listing
  <1>4. CASE UNCHANGED list
    BY <1>4 DEF list, Coming
  <1>5. CASE Load
    <2>1. shown' = Listing
      BY <1>5 DEF Load, Listing
    <2> QED
      BY <2>1 DEF Coming
  <1>6. CASE Tick \/ AnswerForm
    BY <1>2, <1>6, FetchFacts DEF Coming
  <1>7. CASE ServeList
    <2>1. polls # <<>> /\ polls' = <<Listing>>
      BY <1>1, <1>7, ServeFacts
    <2> QED
      BY <1>2, <2>1 DEF Coming
  <1>8. CASE ShowList
    BY <1>1, <1>2, <1>8, ShowFacts DEF Coming, ListInv
  <1>9. CASE LoseList
    <2>1. missed' /\ polls' = IF pollAgain THEN <<None>> ELSE <<>>
      BY <1>1, <1>9, DoneFacts DEF LoseList
    <2> QED
      BY <1>2, <2>1 DEF Coming
  <1>10. CASE Reload
    <2>1. shown' = Listing
      BY <1>10 DEF Reload, Listing
    <2> QED
      BY <2>1 DEF Coming
  <1> QED
    BY <1>4, <1>5, <1>6, <1>7, <1>8, <1>9, <1>10, ListSteps

\* A fetch that is asked for now will show what is there.
LEMMA FetchBrings ==
    ASSUME PageInv, TablesGrow, FetchList, NEW n \in Listing
    PROVE  Coming(n)'
  <1>1. <<None>> # <<>> /\ <<None>>[1] = None
    OBVIOUS
  <1> QED
    BY <1>1 DEF FetchList, Coming

LEMMA PostedStep ==
    ASSUME PageInv, [Next]_vars, TablesInv', TablesGrow
    PROVE  PostedInv'
  <1>1. /\ PageTypeOK /\ FormInv /\ PostedInv /\ Listing \subseteq Listing'
        /\ \A k \in Texts : posted'[k] \subseteq Listing'
        /\ ~Done(None)
    BY PostedGrows, ListingGrows DEF PageInv, Done
  <1> HIDE DEF Listing
  \* The number that a request was answered with is a message of the list.
  <1>2. sending' # None /\ Done(sending'.answer) => sending'.answer \in Listing'
    <2>1. CASE sending' = sending
      BY <1>1, <2>1 DEF PostedInv
    <2>2. CASE sending' \in {None, Outgoing(text')}
      <3>1. sending' # None => sending'.answer = None
        BY <2>2 DEF Outgoing
      <3> QED
        BY <1>1, <3>1
    <2>3. CASE ServeForm
      <3>1. PICK answer : Serve(sending, answer) /\ sending' = [sending EXCEPT !.answer = answer]
        BY <2>3 DEF ServeForm
      <3>2. sending'.answer = answer
        BY <2>3, <3>1, SendingFacts DEF Sent, ServeForm
      <3>3. answer = 0 \/ answer \in Listing'
        BY <3>1, Served, MessageOfForm DEF PageInv
      <3> QED
        BY <3>2, <3>3 DEF Done
    <2> QED
      BY <2>1, <2>2, <2>3, AnswerFacts, LoseFacts DEF Next, vars, list, editor, Load, Tick,
         ServeList, ShowList, LoseList, Type, Press, ServeOrphan, Reload, Others
  <1>3. Done(flash') => flash' \in Listing' /\ Coming(flash)'
    <2>1. CASE AnswerForm
      <3>1. sending # None /\ flash' = sending.answer
        BY <2>1, AnswerFacts
      <3>2. Done(flash') => flash' \in Listing
        BY <1>1, <3>1 DEF PostedInv
      <3>3. Done(flash') => FetchList
        BY <2>1, <3>1 DEF AnswerForm
      <3>4. \A n \in Listing : FetchList => Coming(n)'
        BY FetchBrings
      <3>5. Coming(flash)' <=> \E n : n = flash' /\ Coming(n)'
        BY DEF Coming
      <3> QED
        BY <1>1, <3>2, <3>3, <3>4, <3>5
    <2>2. CASE flash' = flash
      <3>1. Done(flash) => flash \in Listing /\ Coming(flash)
        BY <1>1 DEF PostedInv
      <3>2. \A n \in Listing : Coming(n) => Coming(n)'
        BY ComingStays
      <3>3. Coming(flash)' <=> \E n : n = flash' /\ Coming(n)'
        BY DEF Coming
      <3> QED
        BY <1>1, <2>2, <3>1, <3>2, <3>3
    <2>3. CASE flash' = None
      BY <1>1, <2>3
    <2> QED
      BY <2>1, <2>2, <2>3, LoseFacts DEF Next, vars, list, editor, Load, Tick,
         ServeList, ShowList, LoseList, Type, Press, ServeForm, ServeOrphan, Reload, Others
  <1> QED
    BY <1>1, <1>2, <1>3 DEF PostedInv

-----------------------------------------------------------------------------
(* The tries of a text *)

\* The parts of it as numbers.
LEMMA TriesNumbers ==
    ASSUME PageInv, NEW k \in Texts
    PROVE  /\ TriesInv(k)
           /\ Cardinality(posted[k]) \in Nat /\ Cardinality(Waiting(k)) \in Nat
           /\ losses[k] \in Nat
  <1>1. TriesInv(k)
    BY DEF PageInv
  <1>2. losses[k] \in Nat
    BY PageAssumption DEF PageInv, PageTypeOK
  <1> QED
    BY <1>1, <1>2, FS_CardinalityType DEF TriesInv

\* Serving a request of a text posts it once at most.
LEMMA ServedOnce ==
    ASSUME PageInv, NEW s \in Sent, NEW answer, Serve(s, answer), NEW k \in Texts
    PROVE  /\ IsFiniteSet(posted'[k]) /\ Cardinality(posted'[k]) \in Nat
           /\ k # s.text \/ answer = 0 => posted'[k] = posted[k]
           /\ Cardinality(posted'[k]) <= Cardinality(posted[k]) + 1
  <1>1. IsFiniteSet(posted[k]) /\ Cardinality(posted[k]) \in Nat
    BY TriesNumbers DEF TriesInv
  <1>2. posted'[k] = posted[k] \/ (k = s.text /\ answer # 0 /\
            posted'[k] = posted[k] \cup {answer})
    <2>1. posted \in [Texts -> SUBSET Nat]
      BY DEF PageInv, PageTypeOK
    <2> QED
      BY <2>1, Served DEF PageInv
  <1>3. CASE posted'[k] = posted[k]
    BY <1>1, <1>3
  <1>4. CASE k = s.text /\ answer # 0 /\ posted'[k] = posted[k] \cup {answer}
    <2>1. /\ IsFiniteSet(posted'[k]) /\ Cardinality(posted'[k]) \in Nat
          /\ Cardinality(posted'[k]) <= Cardinality(posted[k]) + 1
      <3> DEFINE more == posted[k] \cup {answer}
      <3>1. /\ IsFiniteSet(more)
            /\ Cardinality(more) \in {Cardinality(posted[k]), Cardinality(posted[k]) + 1}
        BY <1>1, FS_AddElement
      <3> HIDE DEF more
      <3>2. Cardinality(more) \in Nat /\ Cardinality(more) <= Cardinality(posted[k]) + 1
        BY <1>1, <3>1
      <3> QED
        BY <1>4, <3>1, <3>2, Zenon DEF more
    <2> QED
      BY <1>4, <2>1, Zenon
  <1> QED
    BY <1>2, <1>3, <1>4

LEMMA TypeKeepsTries ==
    ASSUME PageInv, NEW f \in Forms, Type(f), NEW k \in Texts
    PROVE  TriesInv(k)'
  <1>1. /\ text = 0 /\ text' \notin DOMAIN typed
        /\ DOMAIN typed \subseteq DOMAIN typed'
        /\ posted' = posted /\ losses' = losses /\ orphans' = orphans /\ sending' = sending
    BY TypeFacts DEF Type, PageInv
  <1>2. k # 0 /\ Waiting(k)' = Waiting(k)
    BY <1>1 DEF Texts, Waiting
  <1>3. k \notin DOMAIN typed => Waiting(k) = {}
    BY DEF PageInv, FormInv, Waiting
  <1>4. k \notin DOMAIN typed => Cardinality(posted[k]) = 0 /\ Cardinality(Waiting(k)) = 0
    BY <1>3, TriesNumbers, FS_EmptySet DEF TriesInv
  <1>5. ~Unposted(k) /\ (Unposted(k)' => k \notin DOMAIN typed)
    BY <1>1, <1>2 DEF Unposted
  <1> QED
    BY <1>1, <1>2, <1>4, <1>5, TriesNumbers DEF TriesInv

LEMMA ServeFormKeepsTries ==
    ASSUME PageInv, ServeForm, NEW k \in Texts
    PROVE  TriesInv(k)'
  <1>1. PICK answer \in {0, NextNum(messages)} :
          Serve(sending, answer) /\ sending' = [sending EXCEPT !.answer = answer]
    BY DEF ServeForm
  <1>2. /\ sending # None /\ sending.answer = None
        /\ UNCHANGED <<text, typed, orphans, losses>>
    BY DEF ServeForm
  <1>3. sending \in Sent /\ sending.text = text
    BY <1>2, SendingFacts
  <1>4. /\ answer \in Nat /\ sending' \in Sent /\ sending'.answer = answer
        /\ ~Done(sending.answer) /\ (Done(answer) <=> answer # 0)
    <2>1. answer \in Nat
      BY <1>1, Served DEF PageInv
    <2>2. None \notin Nat
      BY NoneAssumption
    <2> QED
      BY <1>1, <1>2, <1>3, <2>1, <2>2 DEF Sent, Done
  <1>5. sending' # None
    BY <1>4, PageAssumption
  <1>6. /\ Waiting(k)' = Waiting(k)
        /\ Unposted(k) <=> k = text
        /\ Unposted(k)' <=> (k = text /\ answer = 0)
    BY <1>2, <1>4, <1>5 DEF Waiting, Unposted
  <1>7. /\ IsFiniteSet(posted'[k]) /\ Cardinality(posted'[k]) \in Nat
        /\ k # text \/ answer = 0 => posted'[k] = posted[k]
        /\ Cardinality(posted'[k]) <= Cardinality(posted[k]) + 1
    BY <1>1, <1>3, ServedOnce
  <1>8. k \notin DOMAIN typed => k # text
    BY <1>2, SendingFacts
  <1> QED
    BY <1>1, <1>2, <1>6, <1>7, <1>8, TriesNumbers DEF TriesInv

LEMMA ServeOrphanKeepsTries ==
    ASSUME PageInv, ServeOrphan, NEW k \in Texts
    PROVE  TriesInv(k)'
  <1>1. PICK s \in orphans, answer \in {0, NextNum(messages)} :
          Serve(s, answer) /\ orphans' = orphans \ {s}
    BY DEF ServeOrphan
  <1>2. UNCHANGED <<text, typed, sending, losses>>
    BY DEF ServeOrphan, editor
  <1>3. s \in Sent /\ s.text \in DOMAIN typed
    BY DEF PageInv, PageTypeOK, FormInv
  <1>4. /\ IsFiniteSet(posted'[k]) /\ Cardinality(posted'[k]) \in Nat
        /\ k # s.text => posted'[k] = posted[k]
        /\ Cardinality(posted'[k]) <= Cardinality(posted[k]) + 1
    BY <1>1, <1>3, ServedOnce
  <1>5. /\ IsFiniteSet(Waiting(k)') /\ Cardinality(Waiting(k)') \in Nat
        /\ k # s.text => Cardinality(Waiting(k)') = Cardinality(Waiting(k))
        /\ k = s.text => Cardinality(Waiting(k)') = Cardinality(Waiting(k)) - 1
    <2>1. IsFiniteSet(Waiting(k))
      BY TriesNumbers DEF TriesInv
    <2>2. CASE k = s.text
      <3>1. s \in Waiting(k) /\ Waiting(k)' = Waiting(k) \ {s}
        BY <1>1, <2>2 DEF Waiting
      <3> QED
        BY <2>1, <2>2, <3>1, FS_RemoveElement, FS_CardinalityType
    <2>3. CASE k # s.text
      <3>1. Waiting(k)' = Waiting(k)
        BY <1>1, <2>3 DEF Waiting
      <3> QED
        BY <2>1, <2>3, <3>1, FS_CardinalityType
    <2> QED
      BY <2>2, <2>3
  <1>6. k \notin DOMAIN typed => k # s.text
    BY <1>3
  <1>7. Unposted(k)' <=> Unposted(k)
    BY <1>2 DEF Unposted
  <1> QED
    BY <1>2, <1>4, <1>5, <1>6, <1>7, TriesNumbers DEF TriesInv

LEMMA LoseFormKeepsTries ==
    ASSUME PageInv, LoseForm, NEW k \in Texts
    PROVE  TriesInv(k)'
  <1>1. /\ sending # None /\ sending \in Sent /\ sending.text = text /\ text # 0
        /\ UNCHANGED <<text, typed, posted>>
        /\ losses' = [losses EXCEPT ![text] = @ + 1]
        /\ sending' \in {None, Outgoing(text)}
        /\ \/ orphans' = orphans
           \/ sending.answer = None /\ orphans' = orphans \cup {sending}
    BY LoseFacts, SendingFacts
  <1>2. /\ losses'[k] = IF k = text THEN losses[k] + 1 ELSE losses[k]
        /\ k \notin DOMAIN typed => k # text
    BY <1>1, PageAssumption, SendingFacts DEF PageInv, PageTypeOK, Texts
  <1>3. Unposted(k)' <=> k = text
    BY <1>1, OutgoingFacts DEF Unposted, Done
  <1>4. (k # text => ~Unposted(k)) /\ (k = text /\ sending.answer = None => Unposted(k))
    BY <1>1 DEF Unposted, Done
  <1>5. /\ IsFiniteSet(Waiting(k)') /\ Cardinality(Waiting(k)') \in Nat
        /\ Cardinality(Waiting(k)') <= Cardinality(Waiting(k)) + 1
        /\ k # text \/ sending.answer # None => Waiting(k)' = Waiting(k)
    <2>1. IsFiniteSet(Waiting(k)) /\ Cardinality(Waiting(k)) \in Nat
      BY TriesNumbers DEF TriesInv
    <2>2. CASE Waiting(k)' = Waiting(k)
      BY <2>1, <2>2
    <2>3. CASE Waiting(k)' # Waiting(k)
      <3>1. /\ sending.answer = None /\ k = text
            /\ Waiting(k)' = Waiting(k) \cup {sending}
        BY <1>1, <2>3 DEF Waiting
      <3> QED
        BY <2>1, <3>1, FS_AddElement
    <2> QED
      BY <2>2, <2>3
  <1> QED
    BY <1>1, <1>2, <1>3, <1>4, <1>5, TriesNumbers DEF TriesInv

LEMMA TriesStep ==
    ASSUME PageInv, [Next]_vars, NEW k \in Texts
    PROVE  TriesInv(k)'
  <1>1. ASSUME UNCHANGED <<posted, losses, orphans, typed>>, Unposted(k)' => Unposted(k)
        PROVE  TriesInv(k)'
    <2>1. Waiting(k)' = Waiting(k)
      BY <1>1 DEF Waiting
    <2> QED
      BY <1>1, <2>1, TriesNumbers DEF TriesInv
  <1>2. CASE UNCHANGED <<editor, orphans, losses, posted>>
    BY <1>1, <1>2 DEF editor, Unposted
  <1>3. CASE Press
    <2>1. UNCHANGED <<posted, losses, orphans, typed, text>> /\ text # 0
      BY <1>3 DEF Press
    <2>2. sending = None \/ sending' = sending
      BY <1>3 DEF Press
    <2> QED
      BY <1>1, <2>1, <2>2 DEF Unposted
  <1>4. CASE AnswerForm
    <2>1. UNCHANGED <<posted, losses, orphans, typed>>
      BY <1>4, AnswerFacts
    <2>2. k = text' => k = text /\ ~Done(sending.answer)
      BY <1>4, AnswerFacts, PageAssumption DEF Texts
    <2> QED
      BY <1>1, <2>1, <2>2 DEF Unposted
  <1>5. CASE Reload
    <2>1. UNCHANGED <<posted, losses, orphans, typed>> /\ text' = 0
      BY <1>5 DEF Reload
    <2>2. k # 0
      BY PageAssumption DEF Texts
    <2> QED
      BY <1>1, <2>1, <2>2 DEF Unposted
  <1> QED
    BY <1>2, <1>3, <1>4, <1>5, TypeKeepsTries, ServeFormKeepsTries, ServeOrphanKeepsTries,
       LoseFormKeepsTries DEF Next, vars, Load, Tick, ServeList, ShowList, LoseList, Others

-----------------------------------------------------------------------------
(* All together *)

ListTypeOK ==
    /\ shown \subseteq Nat
    /\ polls \in Seq((SUBSET Nat) \cup {None}) /\ Len(polls) <= 1
    /\ {pollAgain, missed} \subseteq BOOLEAN

EditorTypeOK ==
    /\ again \in BOOLEAN
    /\ form \in Forms \cup {None}
    /\ text \in 0 .. MaxTexts
    /\ typed \in Seq(Forms) /\ Len(typed) <= MaxTexts
    /\ sending \in Sent \cup {None}
    /\ orphans \subseteq Sent
    /\ flash \in Nat \cup {None}
    /\ losses \in [Texts -> 0 .. MaxLosses]

LEMMA ListTypeStep ==
    ASSUME PageInv, [Next]_vars, TablesInv', TablesGrow
    PROVE  ListTypeOK'
  <1> DEFINE S == (SUBSET Nat) \cup {None}
             Fetches == {q \in Seq(S) : Len(q) <= 1}
  <1>1. PageTypeOK /\ polls \in Fetches
    BY DEF PageInv, PageTypeOK
  <1>2. shown' \subseteq Nat
    <2>1. shown' \subseteq Listing'
      BY ListStep DEF ListInv
    <2>2. Listing' \subseteq Nums(messages')
      BY DEF Listing, Nums, InThread
    <2>3. Nums(messages') \subseteq Nat
      BY DEF TablesInv, Numbered
    <2> QED
      BY <2>1, <2>2, <2>3
  <1>3. Listing \in S /\ None \in S
    BY ListingIsNumbers DEF PageInv
  <1> HIDE DEF S, Listing
  <1>4. <<>> \in Fetches /\ <<None>> \in Fetches /\ <<Listing>> \in Fetches
    BY <1>3
  <1> HIDE DEF Fetches
  <1>5. polls' \in Fetches
    <2>1. CASE Tick \/ AnswerForm
      BY <1>1, <1>4, <2>1, FetchFacts
    <2>2. CASE ServeList
      BY <1>1, <1>4, <2>2, ServeFacts
    <2>3. CASE ShowList
      BY <1>1, <1>4, <2>3, ShowFacts
    <2>4. CASE LoseList
      BY <1>1, <1>4, <2>4, DoneFacts DEF LoseList
    <2>5. CASE Reload
      BY <1>4, <2>5 DEF Reload
    <2> QED
      BY <1>1, <2>1, <2>2, <2>3, <2>4, <2>5, ListSteps DEF list, Load
  <1>6. {pollAgain', missed'} \subseteq BOOLEAN
    <2>1. {pollAgain, missed} \subseteq BOOLEAN
      BY <1>1 DEF PageTypeOK
    <2> QED
      BY <1>1, <2>1, ListSteps, FetchFacts, ShowFacts, DoneFacts
      DEF list, Load, ServeList, ShowList, LoseList, Reload
  <1> QED
    BY <1>2, <1>5, <1>6 DEF ListTypeOK, Fetches, S

LEMMA EditorTypeStep ==
    ASSUME PageInv, [Next]_vars
    PROVE  EditorTypeOK'
  <1>1. EditorTypeOK
    BY DEF PageInv, PageTypeOK, EditorTypeOK
  <1>2. CASE UNCHANGED <<editor, orphans, losses>>
    BY <1>1, <1>2 DEF editor, EditorTypeOK
  <1>3. ASSUME NEW f \in Forms, Type(f)
        PROVE  EditorTypeOK'
    <2>1. text' \in 0 .. MaxTexts
      BY <1>3, TypeFacts, TypedDomain DEF PageInv, Texts
    <2>2. typed' \in Seq(Forms) /\ Len(typed') <= MaxTexts
      BY TypedDomain DEF PageInv
    <2> QED
      BY <1>1, <1>3, <2>1, <2>2 DEF EditorTypeOK, Type
  <1>4. CASE Press
    BY <1>1, <1>4, OutgoingFacts DEF EditorTypeOK, Press
  <1>5. CASE ServeForm
    <2>1. PICK answer \in Nat : sending' = [sending EXCEPT !.answer = answer]
      BY <1>5, Served DEF ServeForm, PageInv
    <2>2. sending \in Sent
      BY <1>5, SendingFacts DEF ServeForm
    <2>3. sending' \in Sent
      BY <2>1, <2>2 DEF Sent
    <2> QED
      BY <1>1, <1>5, <2>3 DEF EditorTypeOK, ServeForm
  <1>6. CASE ServeOrphan
    BY <1>1, <1>6 DEF EditorTypeOK, ServeOrphan, editor
  <1>7. CASE AnswerForm
    <2>1. 0 \in 0 .. MaxTexts
      BY PageAssumption
    <2>2. sending' \in Sent \cup {None} /\ flash' \in Nat \cup {None}
      BY <1>7, AnswerFacts, SendingFacts, OutgoingFacts
    <2> QED
      BY <1>1, <1>7, <2>1, <2>2, AnswerFacts DEF EditorTypeOK
  <1>8. CASE Reload
    <2>1. 0 \in 0 .. MaxTexts
      BY PageAssumption
    <2> QED
      BY <1>1, <1>8, <2>1 DEF EditorTypeOK, Reload
  <1>9. CASE LoseForm
    <2>1. sending' \in Sent \cup {None} /\ orphans' \subseteq Sent
      BY <1>1, <1>9, LoseFacts, SendingFacts, OutgoingFacts DEF EditorTypeOK
    <2>2. losses' \in [Texts -> 0 .. MaxLosses]
      <3>1. /\ text \in Texts /\ losses[text] < MaxLosses
            /\ losses' = [losses EXCEPT ![text] = losses[text] + 1]
        BY <1>9, LoseFacts, SendingFacts
      <3>2. losses[text] + 1 \in 0 .. MaxLosses
        BY <1>1, <3>1, PageAssumption DEF EditorTypeOK
      <3> QED
        BY <1>1, <3>1, <3>2 DEF EditorTypeOK
    <2> QED
      BY <1>1, <1>9, <2>1, <2>2, LoseFacts DEF EditorTypeOK
  <1> QED
    BY <1>2, <1>3, <1>4, <1>5, <1>6, <1>7, <1>8, <1>9
    DEF Next, vars, Load, Tick, ServeList, ShowList, LoseList, Others

LEMMA TypeStep ==
    ASSUME PageInv, [Next]_vars, TablesInv', TablesGrow
    PROVE  PageTypeOK'
  <1>1. author' = author /\ author \in Author
    BY DEF PageInv, PageTypeOK, Next, vars, Load, Tick, ServeList, ShowList, LoseList, Type,
       Press, ServeForm, ServeOrphan, AnswerForm, Reload, LoseForm, Others
  <1>2. posted' \in [Texts -> SUBSET Nat]
    <2>1. posted \in [Texts -> SUBSET Nat]
      BY DEF PageInv, PageTypeOK
    <2>2. CASE PostsOne(NextNum(messages))
      <3>1. PICK k : posted' = [posted EXCEPT ![k] = @ \cup {NextNum(messages)}]
        BY <2>2 DEF PostsOne
      <3>2. NextNum(messages) \in Nat
        BY <2>2, WriteGrows DEF PostsOne, PageInv
      <3> QED
        BY <2>1, <3>1, <3>2
    <2> QED
      BY <2>1, <2>2, PostSteps
  <1> QED
    BY <1>1, <1>2, ListTypeStep, EditorTypeStep DEF PageTypeOK, ListTypeOK, EditorTypeOK

LEMMA PageStep ==
    ASSUME PageInv, [Next]_vars
    PROVE  PageInv'
  <1>1. TablesInv' /\ TablesGrow
    BY TablesStep DEF PageInv
  <1> QED
    BY <1>1, TypeStep, ListStep, FormStep, TriesStep, PostedStep, PostedGrows DEF PageInv

LEMMA PageInit == Init => PageInv
  <1> SUFFICES ASSUME Init PROVE PageInv
    OBVIOUS
  <1>1. threads = [t \in {} |-> None] /\ messages = {} /\ events = {}
    BY DEF Init, LedgerInit
  <1>2. /\ author \in Author /\ shown = {} /\ polls = <<>> /\ pollAgain = FALSE /\ missed = FALSE
        /\ form = None /\ text = 0 /\ typed = <<>> /\ sending = None /\ again = FALSE
        /\ flash = None /\ orphans = {}
        /\ losses = [k \in Texts |-> 0] /\ posted = [k \in Texts |-> {}]
    BY DEF Init
  <1>3. ~Done(None)
    BY DEF Done
  <1>4. TablesInv
    BY <1>1, LedgerInitInv DEF Init, LedgerInv, TablesInv
  <1>5. PageTypeOK
    <2>1. <<>> \in Seq((SUBSET Nat) \cup {None}) /\ Len(<<>>) <= 1
      OBVIOUS
    <2>2. polls \in Seq((SUBSET Nat) \cup {None}) /\ Len(polls) <= 1
      BY <1>2, <2>1
    <2>3. 0 \in 0 .. MaxTexts /\ 0 \in 0 .. MaxLosses
      BY PageAssumption
    <2>4. /\ losses \in [Texts -> 0 .. MaxLosses] /\ posted \in [Texts -> SUBSET Nat]
          /\ text \in 0 .. MaxTexts /\ {pollAgain, missed, again} \subseteq BOOLEAN
      BY <1>2, <2>3
    <2>5. /\ author \in Author /\ shown \subseteq Nat /\ orphans \subseteq Sent
          /\ form \in Forms \cup {None} /\ sending \in Sent \cup {None}
          /\ flash \in Nat \cup {None}
      BY <1>2
    <2>6. typed \in Seq(Forms) /\ Len(typed) <= MaxTexts
      BY <1>2, PageAssumption
    <2> QED
      BY <2>2, <2>4, <2>5, <2>6 DEF PageTypeOK
  <1>6. ListInv /\ FormInv
    BY <1>2 DEF ListInv, FormInv
  <1>7. ASSUME NEW k \in Texts
        PROVE  TriesInv(k)
    <2>1. posted[k] = {} /\ Waiting(k) = {} /\ losses[k] = 0
      BY <1>2 DEF Waiting
    <2> QED
      BY <2>1, FS_EmptySet DEF TriesInv
  <1>8. PostedInv
    BY <1>2, <1>3 DEF PostedInv
  <1>9. PostedAsFilledIn
    BY <1>1 DEF PostedAsFilledIn
  <1> QED
    BY <1>4, <1>5, <1>6, <1>7, <1>8, <1>9 DEF PageInv

LEMMA PageInvHolds == Spec => []PageInv
  BY PageInit, PageStep, PTL DEF Spec

-----------------------------------------------------------------------------
\* What the page holds has its types.
THEOREM PageTypes == Spec => []PageTypeOK
  <1>1. PageInv => PageTypeOK
    BY DEF PageInv
  <1> QED
    BY <1>1, PageInvHolds, PTL

\* The list of messages never shows less than before (the hx-trigger and the
\* queueing of templates/thread_detail.html).
THEOREM ListOnlyGrows == Spec => ListGrows
  <1>1. PageInv /\ [Next]_vars => [shown \subseteq shown']_vars
    BY TablesStep, ListStep DEF PageInv
  <1> QED
    BY <1>1, PageInvHolds, PTL DEF Spec, ListGrows

\* A text is posted once, and once more at most for every try that was seen to
\* fail (messages_post, threads_close).
THEOREM PostsAreTries == Spec => []PostedOncePerTry
  <1>1. PageInv => PostedOncePerTry
    <2> SUFFICES ASSUME PageInv, NEW k \in Texts
                 PROVE  Cardinality(posted[k]) <= 1 + losses[k]
      BY DEF PostedOncePerTry
    <2> QED
      BY TriesNumbers DEF TriesInv
  <1> QED
    BY <1>1, PageInvHolds, PTL

\* Under "posted" stands the message, unless its fetch was lost.
THEOREM PostsAreListed == Spec => []PostedIsListed
  <1>1. PageInv => PostedIsListed
    BY DEF PageInv, PostedIsListed, PostedInv, Coming
  <1> QED
    BY <1>1, PageInvHolds, PTL

\* What a text became is the form its user filled in, and what was claimed in
\* it was not dropped (_gated_claim_flash).
THEOREM PostsAreAsFilledIn == Spec => []PostedAsFilledIn
  <1>1. PageInv => PostedAsFilledIn
    BY DEF PageInv
  <1> QED
    BY <1>1, PageInvHolds, PTL

=============================================================================
