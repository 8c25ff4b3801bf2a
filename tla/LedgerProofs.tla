---------------------------- MODULE LedgerProofs ----------------------------
(***************************************************************************)
(* Proofs about the ledger, for every set of threads, authors and requests *)
(* and any number of requests.  Module WritePathProofs carries them over   *)
(* to the concurrent write path.                                           *)
(***************************************************************************)
EXTENDS Ledger, TLAPS

-----------------------------------------------------------------------------
(* Lemmas about the operators *)

\* The allocator hands out the successor of the newest number in use.
LEMMA NextNumFollows ==
    ASSUME NEW msgs, NEW n \in Nat, Nums(msgs) = 1 .. n
    PROVE  NextNum(msgs) = n + 1
  <1>1. CASE msgs = {}
    <2>1. Nums(msgs) = {}
      BY <1>1 DEF Nums
    <2>2. n = 0
      BY <2>1
    <2> QED
      BY <1>1, <2>2 DEF NextNum
  <1>2. CASE msgs # {}
    <2>1. PICK m \in msgs : TRUE
      BY <1>2
    <2>2. m.num \in 1 .. n
      BY <2>1 DEF Nums
    <2>3. n \in Nums(msgs) /\ \A k \in Nums(msgs) : k <= n
      BY <2>2
    <2>4. \A x \in Nums(msgs) : (\A k \in Nums(msgs) : k <= x) => x = n
      BY <2>3
    <2> DEFINE P(x) == \A k \in Nums(msgs) : k <= x
    <2>5. (CHOOSE x \in Nums(msgs) : P(x)) = n
      BY <2>3, <2>4
    <2> QED
      BY <1>2, <2>5 DEF NextNum
  <1> QED
    BY <1>1, <1>2

\* An accepted request passed every assert.
LEMMA AcceptedPassed ==
    ASSUME NEW row, NEW r, NEW msgs, NEW thrs,
           Verdict(row, r, msgs, thrs) = "accepted"
    PROVE  /\ ThreadWritable(row)
           /\ IntegrityAsserts(row, r, msgs, thrs)
           /\ SanctionEvidence(r, msgs)
  BY DEF Verdict

LEMMA RequestFields ==
    ASSUME NEW r \in Requests
    PROVE  r \in Request /\ RouteShape(r)
  BY RequestsAssumption

LEMMA NewMessageType ==
    ASSUME NEW r \in Requests, NEW n \in Nat
    PROVE  NewMessage(r, n) \in Message
  BY RequestFields DEF NewMessage, Message, Request

LEMMA OpenedThreadType ==
    ASSUME NEW r \in Requests, NEW n \in Nat
    PROVE  OpenedThread(r, n) \in Thread
  BY RequestFields DEF OpenedThread, Thread, Request, Status, OpenStatuses

LEMMA StatusAfterType ==
    ASSUME NEW row \in Thread, NEW r \in Requests
    PROVE  StatusAfter(row, r) \in Status
  BY DEF StatusAfter, Thread, Status, OpenStatuses

LEMMA ThreadAfterType ==
    ASSUME NEW row \in Thread, NEW r \in Requests, NEW n \in Nat
    PROVE  ThreadAfter(row, r, n) \in Thread
  BY RequestFields, StatusAfterType DEF ThreadAfter, Thread, Request

LEMMA OpenEventType ==
    ASSUME NEW r \in Requests, NEW n \in Nat
    PROVE  OpenEvent(r, n) \in Event
  BY RequestFields DEF OpenEvent, Event, Request

LEMMA UnspecifiedType == Unspecified \in CloseSanction
  BY NoneAssumption DEF Unspecified, CloseSanction, CloseSanctionKind

LEMMA NewEventsType ==
    ASSUME NEW row \in Thread, NEW r \in Requests, NEW n \in Nat
    PROVE  NewEvents(row, r, n) \subseteq Event
  <1>1. SanctionRecorded(row, r) \in CloseSanction \cup {None}
    BY RequestFields, UnspecifiedType DEF SanctionRecorded, Request
  <1>2. PostEvent(row, r, n) \in Event
    BY <1>1, RequestFields DEF PostEvent, Event, Request
  <1>3. TransitionEvent(row, r, n) \in Event
    BY RequestFields, StatusAfterType DEF TransitionEvent, Event, Request, Thread
  <1> QED
    BY <1>2, <1>3 DEF NewEvents

\* Put writes one row and leaves the others alone.
LEMMA PutRow ==
    ASSUME NEW table, NEW key, NEW row
    PROVE  /\ DOMAIN Put(table, key, row) = DOMAIN table \cup {key}
           /\ Put(table, key, row)[key] = row
           /\ \A k \in DOMAIN table : k # key => Put(table, key, row)[k] = table[k]
  BY DEF Put

LEMMA ThreadAfterFields ==
    ASSUME NEW row \in Thread, NEW r \in Requests, NEW n \in Nat
    PROVE  LET after == ThreadAfter(row, r, n) IN
           /\ after.owner = row.owner
           /\ after.created_by = row.created_by
           /\ after.last = n
           /\ after.status = StatusAfter(row, r)
           /\ ClosesItsThread(r) => after.resolved_by = n
           /\ ~ClosesItsThread(r) => after.resolved_by = row.resolved_by
  BY DEF ThreadAfter, Thread

\* A close is the only request that resolves a thread.
LEMMA OnlyCloseResolves ==
    ASSUME NEW row \in Thread, NEW r \in Requests, row.status # "resolved"
    PROVE  StatusAfter(row, r) = "resolved" <=> ClosesItsThread(r)
  BY DEF StatusAfter, ClosesItsThread

-----------------------------------------------------------------------------
(* The inductive invariant *)

Numbered ==
    /\ \E n \in Nat : Nums(messages) = 1 .. n
    /\ \A m1, m2 \in messages : m1.num = m2.num => m1 = m2

\* Every event names a stored message of its thread, so the events of a new
\* message are the newest, and a thread about to be opened has none.
EventsNumbered == \A e \in events : e.msg \in Nums(InThread(messages, e.thread))

LedgerInv ==
    /\ LedgerTypeOK
    /\ Numbered
    /\ EventsNumbered
    /\ ActivityKeyExact
    /\ ResolvedByItsLastMessage
    /\ ProposeOnceFirst
    /\ LinksResolve
    /\ StatusReplaysEvents
    /\ NonOwnerCloseRecorded

LEMMA NumberedDense ==
    ASSUME LedgerTypeOK, Numbered
    PROVE  NumberingDense
  <1>1. PICK n \in Nat : Nums(messages) = 1 .. n
    BY DEF Numbered
  <1>2. ASSUME NEW m \in messages
        PROVE  m.num > 0 /\ (m.num = 1 \/ m.num - 1 \in Nums(messages))
    <2>1. m.num \in 1 .. n
      BY <1>1 DEF Nums
    <2> QED
      BY <1>1, <2>1
  <1> QED
    BY <1>2 DEF NumberingDense, Numbered

\* What one accepted request does to the three tables.
LEMMA OpenFacts ==
    ASSUME LedgerInv, NEW r \in Requests, OpenThread(r)
    PROVE  \E n \in Nat :
             /\ Nums(messages) = 1 .. n
             /\ r.thread \notin DOMAIN threads
             /\ threads' = Put(threads, r.thread, OpenedThread(r, n + 1))
             /\ messages' = messages \cup {NewMessage(r, n + 1)}
             /\ events' = events \cup {OpenEvent(r, n + 1)}
             /\ r.type = "propose" /\ r.closes = None /\ r.reply_to = None /\ r.refs = {}
  <1>1. PICK n \in Nat : Nums(messages) = 1 .. n
    BY DEF LedgerInv, Numbered
  <1>2. NextNum(messages) = n + 1
    BY <1>1, NextNumFollows
  <1>3. r.type = "propose" /\ r.closes = None /\ r.reply_to = None /\ r.refs = {}
    BY RequestFields DEF OpenThread, RouteShape
  <1> QED
    BY <1>1, <1>2, <1>3 DEF OpenThread

LEMMA AppendFacts ==
    ASSUME LedgerInv, NEW r \in Requests, AppendMessage(r)
    PROVE  \E n \in Nat :
             LET row == threads[r.thread] IN
             /\ Nums(messages) = 1 .. n
             /\ r.thread \in DOMAIN threads
             /\ row \in Thread
             /\ row.status # "resolved"
             /\ IntegrityAsserts(row, r, messages, threads)
             /\ threads' = Put(threads, r.thread, ThreadAfter(row, r, n + 1))
             /\ messages' = messages \cup {NewMessage(r, n + 1)}
             /\ events' = events \cup NewEvents(row, r, n + 1)
  <1>1. PICK n \in Nat : Nums(messages) = 1 .. n
    BY DEF LedgerInv, Numbered
  <1>2. NextNum(messages) = n + 1
    BY <1>1, NextNumFollows
  <1> DEFINE row == threads[r.thread]
  <1>3. ThreadWritable(row) /\ IntegrityAsserts(row, r, messages, threads)
    BY AcceptedPassed DEF AppendMessage
  <1>4. r.thread \in DOMAIN threads /\ row \in Thread
    BY DEF AppendMessage, LedgerInv, LedgerTypeOK
  <1> QED
    BY <1>1, <1>2, <1>3, <1>4 DEF AppendMessage, ThreadWritable

-----------------------------------------------------------------------------
(* Each step preserves the invariant *)

LEMMA NumberedGrows ==
    ASSUME Numbered, NEW n \in Nat, Nums(messages) = 1 .. n, NEW r,
           messages' = messages \cup {NewMessage(r, n + 1)}
    PROVE  /\ Numbered'
           /\ Nums(messages') = 1 .. (n + 1)
           /\ Nums(messages) \subseteq Nums(messages')
           /\ \A m \in messages : m.num < n + 1
  <1> DEFINE new == NewMessage(r, n + 1)
  <1>1. new.num = n + 1
    BY DEF NewMessage
  <1>2. Nums(messages') = Nums(messages) \cup {n + 1}
    BY <1>1 DEF Nums
  <1>3. 1 .. (n + 1) = (1 .. n) \cup {n + 1}
    OBVIOUS
  <1>4. Nums(messages') = 1 .. (n + 1)
    BY <1>2, <1>3
  <1>5. \A m \in messages : m.num \in 1 .. n
    BY DEF Nums
  <1>6. \A m1, m2 \in messages' : m1.num = m2.num => m1 = m2
    BY <1>1, <1>5 DEF Numbered
  <1>7. Numbered'
    BY <1>4, <1>6 DEF Numbered
  <1>8. \A m \in messages : m.num < n + 1
    BY <1>5
  <1> QED
    BY <1>2, <1>4, <1>7, <1>8

LEMMA OpenPreserves ==
    ASSUME LedgerInv, NEW r \in Requests, OpenThread(r)
    PROVE  LedgerInv'
  <1> DEFINE t == r.thread
  <1>1. PICK n \in Nat :
          /\ Nums(messages) = 1 .. n
          /\ t \notin DOMAIN threads
          /\ threads' = Put(threads, t, OpenedThread(r, n + 1))
          /\ messages' = messages \cup {NewMessage(r, n + 1)}
          /\ events' = events \cup {OpenEvent(r, n + 1)}
          /\ r.type = "propose" /\ r.closes = None /\ r.reply_to = None /\ r.refs = {}
    BY OpenFacts
  <1> DEFINE row == OpenedThread(r, n + 1)
             new == NewMessage(r, n + 1)
             ev == OpenEvent(r, n + 1)
  <1>2. /\ DOMAIN threads' = DOMAIN threads \cup {t}
        /\ threads'[t] = row
        /\ \A k \in DOMAIN threads : threads'[k] = threads[k]
    <2>1. threads' = Put(threads, t, row)
      BY <1>1
    <2> HIDE DEF row, t
    <2> QED
      BY <1>1, <2>1 DEF Put
  <1>3. /\ row.owner = r.author /\ row.status = "active" /\ row.created_by = n + 1
        /\ row.resolved_by = None /\ row.last = n + 1
    BY DEF OpenedThread
  <1>4. /\ new.num = n + 1 /\ new.thread = t /\ new.author = r.author
        /\ new.type = "propose" /\ new.closes = None /\ new.reply_to = None
        /\ new.refs = {}
    BY <1>1 DEF NewMessage
  <1>5. ev.action = "open_thread" /\ ev.msg = n + 1 /\ ev.sanction = None /\ ev.thread = t
    BY DEF OpenEvent
  <1>6. /\ Numbered' /\ Nums(messages') = 1 .. (n + 1)
        /\ Nums(messages) \subseteq Nums(messages')
        /\ \A m \in messages : m.num < n + 1
    BY <1>1, NumberedGrows DEF LedgerInv
  <1>7. t \in ThreadId /\ new \in Message /\ row \in Thread /\ ev \in Event
    BY NewMessageType, OpenedThreadType, OpenEventType, RequestFields DEF Request
  <1>8. \A m \in messages : m.thread \in DOMAIN threads /\ m.thread # t
    BY <1>1 DEF LedgerInv, ProposeOnceFirst
  <1>9. LedgerTypeOK'
    <2>1. DOMAIN threads' \subseteq ThreadId
      BY <1>2, <1>7 DEF LedgerInv, LedgerTypeOK
    <2>2. threads' \in [DOMAIN threads' -> Thread]
      <3>1. \A k \in DOMAIN threads' : threads'[k] \in Thread
        BY <1>2, <1>7 DEF LedgerInv, LedgerTypeOK
      <3>2. threads' = [k \in DOMAIN threads' |-> threads'[k]]
        BY <1>1 DEF Put
      <3> QED
        BY <3>1, <3>2
    <2> QED
      BY <1>1, <1>7, <2>1, <2>2 DEF LedgerInv, LedgerTypeOK
  <1>10. EventsNumbered'
    BY <1>1, <1>4, <1>5 DEF LedgerInv, EventsNumbered, InThread, Nums
  <1>11. ActivityKeyExact'
    <2>1. InThread(messages', t) = {new}
      BY <1>1, <1>4, <1>8 DEF InThread
    <2>2. \A k \in DOMAIN threads : InThread(messages', k) = InThread(messages, k)
      BY <1>1, <1>4 DEF InThread
    <2>3. Nums({new}) = {n + 1}
      BY <1>4 DEF Nums
    <2> QED
      BY <1>2, <1>3, <2>1, <2>2, <2>3 DEF LedgerInv, ActivityKeyExact
  <1>12. ResolvedByItsLastMessage'
    BY <1>1, <1>2, <1>3, <1>4, <1>8 DEF LedgerInv, ResolvedByItsLastMessage
  <1>13. ProposeOnceFirst'
    BY <1>1, <1>2, <1>3, <1>4, <1>6, <1>8 DEF LedgerInv, ProposeOnceFirst
  <1>14. LinksResolve'
    BY <1>1, <1>2, <1>4 DEF LedgerInv, LinksResolve
  <1>15. StatusReplaysEvents'
    <2>1. \A k : Transitions(k)' = Transitions(k)
      BY <1>1, <1>5 DEF Transitions
    <2>2. Transitions(t) = {}
      <3>1. ASSUME NEW e \in events, e.action = "status_transition" PROVE e.thread # t
        <4>1. PICK m \in messages : m.thread = e.thread
          BY DEF LedgerInv, EventsNumbered, Nums, InThread
        <4> QED
          BY <1>8, <4>1
      <3> QED
        BY <3>1 DEF Transitions
    <2>3. LeadTo(Transitions(t), "active")
      BY <2>2 DEF LeadTo
    <2> QED
      BY <1>2, <1>3, <2>1, <2>2, <2>3 DEF LedgerInv, StatusReplaysEvents
  <1>16. NonOwnerCloseRecorded'
    <2>1. \A e \in events : e.msg # n + 1
      BY <1>6 DEF LedgerInv, EventsNumbered, InThread, Nums
    <2>2. ~\E e \in events' : e.msg = new.num /\ e.sanction # None
      BY <1>1, <1>4, <1>5, <2>1
    <2>3. \A m \in messages : (\E e \in events' : e.msg = m.num /\ e.sanction # None)
                                 <=> (\E e \in events : e.msg = m.num /\ e.sanction # None)
      BY <1>1, <1>5
    <2> QED
      BY <1>1, <1>2, <1>4, <1>8, <2>2, <2>3 DEF LedgerInv, NonOwnerCloseRecorded
  <1> QED
    BY <1>6, <1>9, <1>10, <1>11, <1>12, <1>13, <1>14, <1>15, <1>16 DEF LedgerInv

LEMMA AppendPreserves ==
    ASSUME LedgerInv, NEW r \in Requests, AppendMessage(r)
    PROVE  LedgerInv'
  <1> DEFINE t == r.thread
             row == threads[t]
  <1>1. PICK n \in Nat :
          /\ Nums(messages) = 1 .. n
          /\ t \in DOMAIN threads
          /\ row \in Thread
          /\ row.status # "resolved"
          /\ IntegrityAsserts(row, r, messages, threads)
          /\ threads' = Put(threads, t, ThreadAfter(row, r, n + 1))
          /\ messages' = messages \cup {NewMessage(r, n + 1)}
          /\ events' = events \cup NewEvents(row, r, n + 1)
    BY AppendFacts
  <1> DEFINE after == ThreadAfter(row, r, n + 1)
             new == NewMessage(r, n + 1)
             closing == ClosesItsThread(r)
  <1>2. /\ DOMAIN threads' = DOMAIN threads
        /\ threads'[t] = after
        /\ \A k \in DOMAIN threads : k # t => threads'[k] = threads[k]
    <2>1. threads' = Put(threads, t, after)
      BY <1>1
    <2> HIDE DEF after, t
    <2> QED
      BY <1>1, <2>1 DEF Put
  <1>3. /\ after.owner = row.owner /\ after.created_by = row.created_by
        /\ after.last = n + 1 /\ after.status = StatusAfter(row, r)
        /\ closing => after.resolved_by = n + 1
        /\ ~closing => after.resolved_by = row.resolved_by
    <2>1. n + 1 \in Nat
      OBVIOUS
    <2> QED
      BY <1>1, <2>1, ThreadAfterFields
  <1>4. /\ new.num = n + 1 /\ new.thread = t /\ new.author = r.author
        /\ new.type = r.type /\ new.closes = r.closes
        /\ new.reply_to = r.reply_to /\ new.refs = r.refs
    BY DEF NewMessage
  <1>5. /\ Numbered' /\ Nums(messages') = 1 .. (n + 1)
        /\ Nums(messages) \subseteq Nums(messages')
        /\ \A m \in messages : m.num < n + 1
    BY <1>1, NumberedGrows DEF LedgerInv
  <1>6. t \in ThreadId /\ new \in Message /\ after \in Thread
    BY <1>1, NewMessageType, ThreadAfterType, RequestFields DEF Request
  <1>7. NewEvents(row, r, n + 1) \subseteq Event
    BY <1>1, NewEventsType
  <1>8. closing <=> r.closes # None
    BY <1>1, RequestFields, NoneAssumption
      DEF IntegrityAsserts, ClosesThreadRule, ClosesItsThread, Request
  <1>9. \A e \in NewEvents(row, r, n + 1) : e.msg = n + 1 /\ e.thread = t
    BY DEF NewEvents, PostEvent, TransitionEvent
  <1>10. \A e \in events : e.msg \in Nums(messages) /\ e.msg < n + 1
    BY <1>5 DEF LedgerInv, EventsNumbered, InThread, Nums
  <1>11. InThread(messages', t) = InThread(messages, t) \cup {new}
    BY <1>1, <1>4 DEF InThread
  <1>12. \A k \in DOMAIN threads : k # t => InThread(messages', k) = InThread(messages, k)
    BY <1>1, <1>4 DEF InThread
  <1>13. LedgerTypeOK'
    <2>1. threads' \in [DOMAIN threads' -> Thread]
      <3>1. \A k \in DOMAIN threads' : threads'[k] \in Thread
        BY <1>2, <1>6 DEF LedgerInv, LedgerTypeOK
      <3>2. threads' = [k \in DOMAIN threads' |-> threads'[k]]
        BY <1>1 DEF Put
      <3> QED
        BY <3>1, <3>2
    <2> QED
      BY <1>1, <1>2, <1>6, <1>7, <2>1 DEF LedgerInv, LedgerTypeOK
  <1>14. EventsNumbered'
    BY <1>1, <1>4, <1>9 DEF LedgerInv, EventsNumbered, InThread, Nums
  <1>15. ActivityKeyExact'
    <2>1. Nums(InThread(messages', t)) = Nums(InThread(messages, t)) \cup {n + 1}
      BY <1>4, <1>11 DEF Nums
    <2>2. \A k \in Nums(InThread(messages, t)) : k < n + 1
      BY <1>5 DEF Nums, InThread
    <2>3. \A k \in Nums(InThread(messages', t)) : k <= n + 1
      <3>1. \A m \in messages : m.num \in Nat
        BY DEF LedgerInv, LedgerTypeOK, Message
      <3>2. \A k \in Nums(InThread(messages, t)) : k \in Nat
        BY <3>1 DEF Nums, InThread
      <3> QED
        BY <2>1, <2>2, <3>2
    <2> QED
      BY <1>2, <1>3, <1>12, <2>1, <2>3 DEF LedgerInv, ActivityKeyExact
  <1>16. ResolvedByItsLastMessage'
    <2>1. row.resolved_by = None
      BY <1>1 DEF LedgerInv, ResolvedByItsLastMessage
    <2>2. after.status = "resolved" <=> closing
      BY <1>1, <1>3, OnlyCloseResolves
    <2>3. closing => after.resolved_by = n + 1 /\ after.last = n + 1 /\ n + 1 # None
      BY <1>3, NoneAssumption
    <2>4. after.status = "resolved" <=> after.resolved_by # None
      BY <1>3, <2>1, <2>2, <2>3
    <2>5. \A k \in DOMAIN threads' :
            /\ threads'[k].status = "resolved" <=> threads'[k].resolved_by # None
            /\ threads'[k].resolved_by # None => threads'[k].resolved_by = threads'[k].last
      BY <1>2, <1>3, <2>1, <2>3, <2>4 DEF LedgerInv, ResolvedByItsLastMessage
    <2>6. \A m \in messages : m.closes # None => m.thread # t
      BY <2>1, NoneAssumption DEF LedgerInv, ResolvedByItsLastMessage, LedgerTypeOK, Message
    <2>7. ASSUME NEW m \in messages', m.closes # None
          PROVE  /\ m.closes = m.thread /\ m.type = "decide"
                 /\ m.thread \in DOMAIN threads' /\ threads'[m.thread].resolved_by = m.num
      <3>1. CASE m = new
        BY <1>1, <1>2, <1>4, <1>8, <2>3, <2>7, <3>1 DEF ClosesItsThread
      <3>2. CASE m \in messages
        BY <1>2, <2>6, <2>7, <3>2 DEF LedgerInv, ResolvedByItsLastMessage
      <3> QED
        BY <1>1, <3>1, <3>2
    <2> QED
      BY <2>5, <2>7 DEF ResolvedByItsLastMessage
  <1>17. ProposeOnceFirst'
    <2>1. row.created_by \in 0 .. n /\ r.type # "propose"
      <3>1. row.last \in Nums(InThread(messages, t))
        BY <1>1 DEF LedgerInv, ActivityKeyExact
      <3>2. InThread(messages, t) # {}
        BY <3>1 DEF Nums
      <3>3. PICK m \in messages : m.thread = t
        BY <3>2 DEF InThread
      <3>4. m.num \in 1 .. n /\ row.created_by <= m.num
        BY <1>1, <3>3 DEF Nums, LedgerInv, ProposeOnceFirst
      <3>5. row.created_by \in Nat
        BY <1>1 DEF Thread
      <3>6. r.type # "propose"
        BY <1>1, <3>2 DEF IntegrityAsserts, ProposeInvariant
      <3> QED
        BY <3>4, <3>5, <3>6
    <2>2. n + 1 # row.created_by /\ row.created_by <= n + 1
      BY <1>1, <2>1
    <2> QED
      BY <1>1, <1>2, <1>3, <1>4, <2>1, <2>2 DEF LedgerInv, ProposeOnceFirst
  <1>18. LinksResolve'
    <2>1. ASSUME r.reply_to # None
          PROVE \E p \in messages : p.num = r.reply_to /\ p.thread = t /\ p.num < n + 1
      BY <1>1, <1>5, <2>1 DEF IntegrityAsserts, ReplyToInThread, Nums, InThread
    <2>2. r.refs \subseteq DOMAIN threads
      BY <1>1 DEF IntegrityAsserts, ReferencesExist
    <2> QED
      BY <1>1, <1>2, <1>4, <2>1, <2>2 DEF LedgerInv, LinksResolve
  <1>19. StatusReplaysEvents'
    <2>1. ASSUME NEW k \in DOMAIN threads, k # t
          PROVE  Transitions(k)' = Transitions(k)
      BY <1>1, <1>9, <2>1 DEF Transitions
    <2>2. CASE StatusAfter(row, r) # row.status
      <3> DEFINE e == TransitionEvent(row, r, n + 1)
                 log == Transitions(t)
      <3>1. /\ log' = log \cup {e} /\ e.msg = n + 1
            /\ e.from = row.status /\ e.to = StatusAfter(row, r)
        BY <1>1, <2>2 DEF Transitions, NewEvents, PostEvent, TransitionEvent
      <3>2. \A d \in log : d.msg \in Nat /\ d.msg < n + 1
        BY <1>10 DEF LedgerInv, LedgerTypeOK, Event, Transitions
      <3>3. /\ row.status \in OpenStatuses
            /\ StatusAfter(row, r) \notin {"parked", "superseded"}
        BY <2>2 DEF AppendMessage, CloseRefused, StatusAfter, OpenStatuses
      <3> HIDE DEF e, log
      <3>4. LeadTo(log, row.status) /\ \A d \in log : LeadTo({c \in log : c.msg < d.msg}, d.from)
        BY <1>1, <3>3 DEF LedgerInv, StatusReplaysEvents, OpenStatuses, log
      <3>5. {c \in log' : c.msg < e.msg} = log
        BY <3>1, <3>2
      <3>6. ASSUME NEW d \in log
            PROVE  {c \in log' : c.msg < d.msg} = {c \in log : c.msg < d.msg}
        BY <3>1, <3>2
      <3>7. \A d \in log' : LeadTo({c \in log' : c.msg < d.msg}, d.from)
        BY <3>1, <3>4, <3>5, <3>6
      <3>8. LeadTo(log', StatusAfter(row, r))
        BY <3>1, <3>2 DEF LeadTo
      <3> QED
        BY <1>2, <1>3, <2>1, <3>3, <3>7, <3>8 DEF LedgerInv, StatusReplaysEvents, log
    <2>3. CASE StatusAfter(row, r) = row.status
      <3>1. Transitions(t)' = Transitions(t)
        BY <1>1, <2>3 DEF Transitions, NewEvents, PostEvent
      <3> QED
        BY <1>2, <1>3, <2>1, <2>3, <3>1 DEF LedgerInv, StatusReplaysEvents
    <2> QED
      BY <2>2, <2>3
  <1>20. NonOwnerCloseRecorded'
    <2>1. \A m \in messages :
            (\E e \in events' : e.msg = m.num /\ e.sanction # None)
              <=> (\E e \in events : e.msg = m.num /\ e.sanction # None)
      BY <1>1, <1>5, <1>9
    <2>2. \A k \in DOMAIN threads : threads'[k].owner = threads[k].owner
      BY <1>2, <1>3
    <2>3. (r.closes # None /\ r.author # row.owner) <=> SanctionRecorded(row, r) # None
      BY UnspecifiedType, NoneAssumption DEF SanctionRecorded
    <2>4. (\E e \in events' : e.msg = n + 1 /\ e.sanction # None)
            <=> SanctionRecorded(row, r) # None
      <3>1. PostEvent(row, r, n + 1) \in events'
        BY <1>1 DEF NewEvents
      <3>2. /\ PostEvent(row, r, n + 1).msg = n + 1
            /\ PostEvent(row, r, n + 1).sanction = SanctionRecorded(row, r)
        BY DEF PostEvent
      <3>3. \A e \in NewEvents(row, r, n + 1) : e.sanction \in {None, SanctionRecorded(row, r)}
        BY DEF NewEvents, PostEvent, TransitionEvent
      <3> QED
        BY <1>1, <1>10, <3>1, <3>2, <3>3
    <2>5. ASSUME NEW m \in messages', m.thread \in DOMAIN threads'
          PROVE  (m.closes # None /\ m.author # threads'[m.thread].owner)
                   <=> \E e \in events' : e.msg = m.num /\ e.sanction # None
      <3>1. CASE m = new
        BY <1>1, <1>4, <2>2, <2>3, <2>4, <3>1
      <3>2. CASE m \in messages
        BY <1>2, <2>1, <2>2, <2>5, <3>2 DEF LedgerInv, NonOwnerCloseRecorded
      <3> QED
        BY <1>1, <3>1, <3>2
    <2> QED
      BY <2>5 DEF NonOwnerCloseRecorded
  <1> QED
    BY <1>5, <1>13, <1>14, <1>15, <1>16, <1>17, <1>18, <1>19, <1>20 DEF LedgerInv

LEMMA SetAsidePreserves ==
    ASSUME LedgerInv, NEW t \in ThreadId, NEW s \in OperatorStatuses, SetAside(t, s)
    PROVE  LedgerInv'
  <1>1. /\ t \in DOMAIN threads
        /\ threads[t].status # "resolved"
        /\ threads' = [threads EXCEPT ![t].status = s]
        /\ messages' = messages /\ events' = events
    BY DEF SetAside
  <1>2. s \in {"parked", "superseded"}
    BY OperatorAssumption
  <1>3. DOMAIN threads' = DOMAIN threads /\ threads[t] \in Thread
    BY <1>1 DEF LedgerInv, LedgerTypeOK
  <1>4. /\ threads'[t] = [threads[t] EXCEPT !.status = s]
        /\ \A k \in DOMAIN threads : k # t => threads'[k] = threads[k]
    BY <1>1
  <1>5. /\ threads'[t] \in Thread
        /\ threads'[t].status = s
        /\ threads'[t].owner = threads[t].owner
        /\ threads'[t].created_by = threads[t].created_by
        /\ threads'[t].resolved_by = threads[t].resolved_by
        /\ threads'[t].last = threads[t].last
    BY <1>2, <1>3, <1>4 DEF Thread, Status
  <1>6. LedgerTypeOK'
    BY <1>1, <1>3, <1>4, <1>5 DEF LedgerInv, LedgerTypeOK
  <1>7. Numbered' /\ EventsNumbered'
    BY <1>1 DEF LedgerInv, Numbered, EventsNumbered
  <1>8. ActivityKeyExact'
    BY <1>1, <1>3, <1>4, <1>5 DEF LedgerInv, ActivityKeyExact
  <1>9. ResolvedByItsLastMessage'
    BY <1>1, <1>2, <1>3, <1>4, <1>5 DEF LedgerInv, ResolvedByItsLastMessage
  <1>10. ProposeOnceFirst'
    BY <1>1, <1>3, <1>4, <1>5 DEF LedgerInv, ProposeOnceFirst
  <1>11. LinksResolve'
    BY <1>1, <1>3 DEF LedgerInv, LinksResolve
  <1>12. StatusReplaysEvents'
    <2>1. \A k : Transitions(k)' = Transitions(k)
      BY <1>1 DEF Transitions
    <2>2. threads[t].status \in OpenStatuses \cup {"parked", "superseded"}
      BY <1>1, <1>3 DEF Thread, Status
    <2>3. \E before \in OpenStatuses : LeadTo(Transitions(t), before)
      BY <1>1, <2>2 DEF LedgerInv, StatusReplaysEvents, OpenStatuses
    <2> QED
      BY <1>1, <1>2, <1>3, <1>4, <1>5, <2>1, <2>3 DEF LedgerInv, StatusReplaysEvents
  <1>13. NonOwnerCloseRecorded'
    BY <1>1, <1>3, <1>4, <1>5 DEF LedgerInv, NonOwnerCloseRecorded
  <1> QED
    BY <1>6, <1>7, <1>8, <1>9, <1>10, <1>11, <1>12, <1>13 DEF LedgerInv

LEMMA StutterPreserves ==
    ASSUME LedgerInv, UNCHANGED ledger
    PROVE  LedgerInv'
  <1>1. threads' = threads /\ messages' = messages /\ events' = events
    BY DEF ledger
  <1> QED
    BY <1>1 DEF LedgerInv, LedgerTypeOK, Numbered, EventsNumbered, ActivityKeyExact,
                ResolvedByItsLastMessage, ProposeOnceFirst, LinksResolve,
                StatusReplaysEvents, Transitions, NonOwnerCloseRecorded

LEMMA LedgerInitInv == LedgerInit => LedgerInv
  <1> SUFFICES ASSUME LedgerInit PROVE LedgerInv
    OBVIOUS
  <1>1. threads = [t \in {} |-> None] /\ messages = {} /\ events = {}
    BY DEF LedgerInit
  <1>2. DOMAIN threads = {}
    BY <1>1
  <1>3. threads \in [DOMAIN threads -> Thread]
    BY <1>1
  <1>4. Numbered
    <2>1. Nums(messages) = 1 .. 0
      BY <1>1 DEF Nums
    <2> QED
      BY <1>1, <2>1 DEF Numbered
  <1>5. NonOwnerCloseRecorded /\ LinksResolve /\ ProposeOnceFirst /\ EventsNumbered
    BY <1>1 DEF NonOwnerCloseRecorded, LinksResolve, ProposeOnceFirst, EventsNumbered
  <1>6. ActivityKeyExact /\ ResolvedByItsLastMessage /\ StatusReplaysEvents
    BY <1>1, <1>2 DEF ActivityKeyExact, ResolvedByItsLastMessage, StatusReplaysEvents
  <1> QED
    BY <1>1, <1>2, <1>3, <1>4, <1>5, <1>6 DEF LedgerInv, LedgerTypeOK

LEMMA LedgerInvHolds == LedgerSpec => []LedgerInv
  <1>1. LedgerInv /\ [LedgerNext]_ledger => LedgerInv'
    BY OpenPreserves, AppendPreserves, SetAsidePreserves, StutterPreserves DEF LedgerNext
  <1> QED
    BY <1>1, LedgerInitInv, PTL DEF LedgerSpec

-----------------------------------------------------------------------------
(* The promises of the ledger *)

\* Rows of the three tables keep their types.
THEOREM LedgerTypes == LedgerSpec => []LedgerTypeOK
  <1>1. LedgerInv => LedgerTypeOK
    BY DEF LedgerInv
  <1> QED
    BY <1>1, LedgerInvHolds, PTL

\* Message ids are dense and unique, however many threads and requests.
THEOREM LedgerNumbering == LedgerSpec => []NumberingDense
  <1>1. LedgerInv => NumberingDense
    BY NumberedDense DEF LedgerInv
  <1> QED
    BY <1>1, LedgerInvHolds, PTL

\* The denormalised activity key is exact, and so is the resolution of every
\* thread, the place of its propose, the links of its messages, what the
\* audit log says of its status and of closes by others.
THEOREM LedgerInvariants ==
    LedgerSpec => [](/\ ActivityKeyExact
                     /\ ResolvedByItsLastMessage
                     /\ ProposeOnceFirst
                     /\ LinksResolve
                     /\ StatusReplaysEvents
                     /\ NonOwnerCloseRecorded)
  <1>1. LedgerInv => /\ ActivityKeyExact
                     /\ ResolvedByItsLastMessage
                     /\ ProposeOnceFirst
                     /\ LinksResolve
                     /\ StatusReplaysEvents
                     /\ NonOwnerCloseRecorded
    BY DEF LedgerInv
  <1> QED
    BY <1>1, LedgerInvHolds, PTL

-----------------------------------------------------------------------------
(* What a step may never do *)

AppendsInOrder ==
    /\ messages \subseteq messages'
    /\ events \subseteq events'
    /\ \A new \in messages' \ messages, old \in messages : old.num < new.num

KeepsResolved ==
    \A t \in DOMAIN threads : threads[t].status = "resolved" =>
       /\ t \in DOMAIN threads'
       /\ threads'[t] = threads[t]
       /\ InThread(messages', t) = InThread(messages, t)

LEMMA StepAppends ==
    ASSUME LedgerInv, LedgerNext
    PROVE  AppendsInOrder
  <1>1. ASSUME NEW r \in Requests, OpenThread(r)
        PROVE  AppendsInOrder
    <2>1. PICK n \in Nat :
            /\ Nums(messages) = 1 .. n
            /\ messages' = messages \cup {NewMessage(r, n + 1)}
            /\ events' = events \cup {OpenEvent(r, n + 1)}
      BY <1>1, OpenFacts
    <2>2. \A m \in messages : m.num < n + 1
      BY <2>1, NumberedGrows DEF LedgerInv
    <2>3. NewMessage(r, n + 1).num = n + 1
      BY DEF NewMessage
    <2> QED
      BY <2>1, <2>2, <2>3 DEF AppendsInOrder
  <1>2. ASSUME NEW r \in Requests, AppendMessage(r)
        PROVE  AppendsInOrder
    <2>1. PICK n \in Nat :
            /\ Nums(messages) = 1 .. n
            /\ messages' = messages \cup {NewMessage(r, n + 1)}
            /\ events' = events \cup NewEvents(threads[r.thread], r, n + 1)
      BY <1>2, AppendFacts
    <2>2. \A m \in messages : m.num < n + 1
      BY <2>1, NumberedGrows DEF LedgerInv
    <2>3. NewMessage(r, n + 1).num = n + 1
      BY DEF NewMessage
    <2> QED
      BY <2>1, <2>2, <2>3 DEF AppendsInOrder
  <1>3. ASSUME NEW t \in ThreadId, NEW s \in OperatorStatuses, SetAside(t, s)
        PROVE  AppendsInOrder
    BY <1>3 DEF SetAside, AppendsInOrder
  <1> QED
    BY <1>1, <1>2, <1>3 DEF LedgerNext

LEMMA StepKeepsResolved ==
    ASSUME LedgerInv, LedgerNext
    PROVE  KeepsResolved
  <1>1. ASSUME NEW r \in Requests, OpenThread(r)
        PROVE  KeepsResolved
    <2>1. /\ r.thread \notin DOMAIN threads
          /\ threads' = Put(threads, r.thread, OpenedThread(r, NextNum(messages)))
          /\ messages' = messages \cup {NewMessage(r, NextNum(messages))}
      BY <1>1 DEF OpenThread
    <2>2. NewMessage(r, NextNum(messages)).thread = r.thread
      BY DEF NewMessage
    <2> QED
      BY <2>1, <2>2 DEF KeepsResolved, Put, InThread
  <1>2. ASSUME NEW r \in Requests, AppendMessage(r)
        PROVE  KeepsResolved
    <2> DEFINE n == NextNum(messages)
               after == ThreadAfter(threads[r.thread], r, n)
    <2>1. /\ r.thread \in DOMAIN threads
          /\ threads[r.thread].status # "resolved"
      BY <1>2, AppendFacts
    <2>2. /\ threads' = Put(threads, r.thread, after)
          /\ messages' = messages \cup {NewMessage(r, n)}
      BY <1>2 DEF AppendMessage
    <2>3. NewMessage(r, n).thread = r.thread
      BY DEF NewMessage
    <2> HIDE DEF after
    <2> QED
      BY <2>1, <2>2, <2>3 DEF KeepsResolved, Put, InThread
  <1>3. ASSUME NEW t \in ThreadId, NEW s \in OperatorStatuses, SetAside(t, s)
        PROVE  KeepsResolved
    BY <1>3 DEF SetAside, KeepsResolved, LedgerInv, LedgerTypeOK
  <1> QED
    BY <1>1, <1>2, <1>3 DEF LedgerNext

\* What a row keeps: the thread, its owner, and having been settled either way.
KeepsRows ==
    \A t \in DOMAIN threads :
        /\ t \in DOMAIN threads'
        /\ threads'[t].owner = threads[t].owner
        /\ threads[t].status \in {"superseded", "parked"} =>
             threads'[t].status \in {"superseded", "parked"}

LEMMA StepKeepsRows ==
    ASSUME LedgerInv, LedgerNext
    PROVE  KeepsRows
  <1>1. ASSUME NEW r \in Requests, OpenThread(r)
        PROVE  KeepsRows
    <2>1. /\ r.thread \notin DOMAIN threads
          /\ threads' = Put(threads, r.thread, OpenedThread(r, NextNum(messages)))
      BY <1>1 DEF OpenThread
    <2> QED
      BY <2>1 DEF KeepsRows, Put
  <1>2. ASSUME NEW r \in Requests, AppendMessage(r)
        PROVE  KeepsRows
    <2> DEFINE row == threads[r.thread]
               after == ThreadAfter(row, r, NextNum(messages))
    <2>1. /\ r.thread \in DOMAIN threads /\ row \in Thread
          /\ ~CloseRefused(row, r)
          /\ threads' = Put(threads, r.thread, after)
      BY <1>2, AppendFacts DEF AppendMessage
    <2>2. after.owner = row.owner /\ after.status = StatusAfter(row, r)
      BY <2>1 DEF ThreadAfter, Thread
    <2>3. row.status \in {"superseded", "parked"} => StatusAfter(row, r) = row.status
      BY <2>1 DEF StatusAfter, CloseRefused, ClosesItsThread, OpenStatuses
    <2>4. /\ DOMAIN threads' = DOMAIN threads
          /\ threads'[r.thread] = after
          /\ \A k \in DOMAIN threads : k # r.thread => threads'[k] = threads[k]
      <3> HIDE DEF after
      <3> QED
        BY <2>1 DEF Put
    <2> QED
      BY <2>2, <2>3, <2>4 DEF KeepsRows
  <1>3. ASSUME NEW t \in ThreadId, NEW s \in OperatorStatuses, SetAside(t, s)
        PROVE  KeepsRows
    <2>1. /\ t \in DOMAIN threads /\ threads[t] \in Thread
          /\ threads' = [threads EXCEPT ![t].status = s]
          /\ s \in {"superseded", "parked"}
      BY <1>3, OperatorAssumption DEF SetAside, LedgerInv, LedgerTypeOK
    <2>2. /\ DOMAIN threads' = DOMAIN threads
          /\ threads'[t] = [threads[t] EXCEPT !.status = s]
          /\ \A k \in DOMAIN threads : k # t => threads'[k] = threads[k]
      BY <2>1
    <2> QED
      BY <2>1, <2>2 DEF KeepsRows, Thread
  <1> QED
    BY <1>1, <1>2, <1>3 DEF LedgerNext

\* Messages and events are append-only and become visible in number order.
THEOREM LedgerAppendsInOrder == LedgerSpec => AppendedInOrder
  <1>1. LedgerInv /\ [LedgerNext]_ledger => [AppendsInOrder]_ledger
    BY StepAppends
  <1> QED
    BY <1>1, LedgerInvHolds, PTL DEF LedgerSpec, AppendedInOrder, AppendsInOrder

\* Nothing changes a resolved thread.
THEOREM LedgerResolvedIsFinal == LedgerSpec => ResolvedIsFinal
  <1>1. LedgerInv /\ [LedgerNext]_ledger => [KeepsResolved]_ledger
    BY StepKeepsResolved
  <1> QED
    BY <1>1, LedgerInvHolds, PTL DEF LedgerSpec, ResolvedIsFinal, KeepsResolved

-----------------------------------------------------------------------------
(* For the modules beside a ledger that grows *)

LEMMA LedgerStepKeepsInv ==
    ASSUME LedgerInv, [LedgerNext]_ledger
    PROVE  LedgerInv'
  BY OpenPreserves, AppendPreserves, SetAsidePreserves, StutterPreserves DEF LedgerNext

\* Threads and messages stay.
LEMMA LedgerStepGrows ==
    ASSUME LedgerInv, [LedgerNext]_ledger
    PROVE  /\ messages \subseteq messages'
           /\ DOMAIN threads \subseteq DOMAIN threads'
  <1>1. ASSUME NEW r \in Requests, OpenThread(r) \/ AppendMessage(r)
        PROVE  /\ messages \subseteq messages'
               /\ DOMAIN threads \subseteq DOMAIN threads'
    BY <1>1 DEF OpenThread, AppendMessage, Put
  <1>2. ASSUME NEW t \in ThreadId, NEW s \in OperatorStatuses, SetAside(t, s)
        PROVE  /\ messages \subseteq messages'
               /\ DOMAIN threads \subseteq DOMAIN threads'
    BY <1>2 DEF SetAside
  <1>3. CASE UNCHANGED ledger
    BY <1>3 DEF ledger
  <1> QED
    BY <1>1, <1>2, <1>3 DEF LedgerNext

LEMMA MessagesStay ==
    ASSUME NEW msgs, NEW more, msgs \subseteq more, NEW t
    PROVE  Nums(InThread(msgs, t)) \subseteq Nums(InThread(more, t))
  BY DEF Nums, InThread

LEMMA NumsAreNumbers ==
    ASSUME LedgerInv, NEW t
    PROVE  Nums(InThread(messages, t)) \subseteq Nat
  BY DEF LedgerInv, LedgerTypeOK, Message, Nums, InThread

\* The activity key is what a query for the newest message finds.
LEMMA NewestOfThread ==
    ASSUME LedgerInv, NEW t \in DOMAIN threads
    PROVE  (CHOOSE n \in Nums(InThread(messages, t)) :
              \A k \in Nums(InThread(messages, t)) : k <= n) = threads[t].last
  <1> DEFINE nums == Nums(InThread(messages, t))
             P(n) == \A k \in nums : k <= n
  <1>1. threads[t].last \in nums /\ P(threads[t].last)
    BY DEF LedgerInv, ActivityKeyExact
  <1>2. nums \subseteq Nat
    BY NumsAreNumbers
  <1>3. \A n \in nums : P(n) => n = threads[t].last
    BY <1>1, <1>2
  <1> HIDE DEF nums
  <1>4. (CHOOSE n \in nums : P(n)) = threads[t].last
    BY <1>1, <1>3
  <1> QED
    BY <1>4 DEF nums

=============================================================================
