------------------------ MODULE IntegrityAuditProofs ------------------------
(***************************************************************************)
(* Proofs about the integrity audit, for projects and races of any size.   *)
(*                                                                         *)
(* Of a project that only the write path has written, it reports nothing   *)
(* but the requests it raced with.  The invariant behind that compares the *)
(* snapshots: what is older than the audit, by number, was there when the  *)
(* threads were read and is in every later snapshot, and a later snapshot  *)
(* of the messages holds all that is older than anything in it.            *)
(*                                                                         *)
(* Whatever raw SQL did, old closes are sorted right and no damaged thread *)
(* goes unmentioned.  There the ledger's invariant is gone; what is left   *)
(* is that rows, owners and numbers stay, and that the events of a message *)
(* come with it.                                                           *)
(***************************************************************************)
EXTENDS IntegrityAudit, LedgerProofs, WellFoundedInduction

\* The message a thread was opened with is there.
CreatedThere ==
    \A t \in DOMAIN threads : threads[t].created_by \in Nums(InThread(messages, t))

TablesInv == LedgerInv /\ CreatedThere

\* The threads that were read, against the messages of any later moment.
ThreadsInv ==
    /\ start \in Nat /\ (start <= 1 \/ start - 1 \in Nums(messages))
    /\ \A t \in DOMAIN seenThreads :
         /\ t \in DOMAIN threads /\ threads[t].owner = seenThreads[t].owner
         /\ seenThreads[t].last < start
         /\ seenThreads[t].last \in Nums(InThread(messages, t))
         /\ \A k \in Nums(InThread(messages, t)) : k < start => k <= seenThreads[t].last
         /\ seenThreads[t].status = "resolved" <=> seenThreads[t].resolved_by # None
    /\ \A m \in messages : m.num < start =>
         m.thread \in DOMAIN seenThreads /\ m.refs \subseteq DOMAIN seenThreads

\* The messages that were read.
MessagesInv ==
    /\ seenMessages \subseteq messages
    /\ \A m \in messages : m.num < start => m \in seenMessages
    /\ \A m \in messages \ seenMessages, s \in seenMessages : s.num < m.num

CleanInv ==
    /\ TablesInv
    /\ stage \in {"messages", "events"} => ThreadsInv
    /\ stage = "events" => MessagesInv
    /\ stage = "done" => \A i \in report.issues : ExplainedByRace(i)

AuditInv ==
    /\ edits \in Nat
    /\ edits = 0 => CleanInv

-----------------------------------------------------------------------------
(* The tables *)

LEMMA CreatedStays ==
    ASSUME LedgerInv, CreatedThere, LedgerNext
    PROVE  CreatedThere'
  <1>1. ASSUME NEW r \in Requests, OpenThread(r)
        PROVE  CreatedThere'
    <2>1. PICK n \in Nat :
            /\ r.thread \notin DOMAIN threads
            /\ threads' = Put(threads, r.thread, OpenedThread(r, n + 1))
            /\ messages' = messages \cup {NewMessage(r, n + 1)}
      BY <1>1, OpenFacts
    <2>2. /\ OpenedThread(r, n + 1).created_by = n + 1
          /\ NewMessage(r, n + 1).num = n + 1 /\ NewMessage(r, n + 1).thread = r.thread
      BY DEF OpenedThread, NewMessage
    <2>3. n + 1 \in Nums(InThread(messages', r.thread))
      BY <2>1, <2>2 DEF Nums, InThread
    <2>4. \A t : Nums(InThread(messages, t)) \subseteq Nums(InThread(messages', t))
      BY <2>1, MessagesStay
    <2> QED
      BY <2>1, <2>2, <2>3, <2>4 DEF CreatedThere, Put
  <1>2. ASSUME NEW r \in Requests, AppendMessage(r)
        PROVE  CreatedThere'
    <2> DEFINE row == threads[r.thread]
    <2>1. PICK n \in Nat :
            /\ r.thread \in DOMAIN threads /\ row \in Thread
            /\ threads' = Put(threads, r.thread, ThreadAfter(row, r, n + 1))
            /\ messages' = messages \cup {NewMessage(r, n + 1)}
      BY <1>2, AppendFacts
    <2> DEFINE after == ThreadAfter(row, r, n + 1)
    <2>2. after.created_by = row.created_by
      BY <2>1, ThreadAfterFields
    <2>3. \A t : Nums(InThread(messages, t)) \subseteq Nums(InThread(messages', t))
      BY <2>1, MessagesStay
    <2>4. threads' = Put(threads, r.thread, after)
      BY <2>1
    <2> HIDE DEF after
    <2> QED
      BY <2>1, <2>2, <2>3, <2>4 DEF CreatedThere, Put
  <1>3. ASSUME NEW t \in ThreadId, NEW s \in OperatorStatuses, SetAside(t, s)
        PROVE  CreatedThere'
    BY <1>3 DEF SetAside, CreatedThere, LedgerInv, LedgerTypeOK, Thread
  <1> QED
    BY <1>1, <1>2, <1>3 DEF LedgerNext

LEMMA TablesStep ==
    ASSUME TablesInv, LedgerNext
    PROVE  /\ TablesInv' /\ AppendsInOrder /\ KeepsRows
           /\ \A t : Nums(InThread(messages, t)) \subseteq Nums(InThread(messages', t))
  <1>1. TablesInv'
    BY CreatedStays, LedgerStepKeepsInv DEF TablesInv
  <1>2. AppendsInOrder /\ KeepsRows
    BY StepAppends, StepKeepsRows DEF TablesInv
  <1> QED
    BY <1>1, <1>2, MessagesStay DEF AppendsInOrder

LEMMA TablesKept ==
    ASSUME TablesInv, UNCHANGED ledger
    PROVE  TablesInv'
  BY StutterPreserves DEF TablesInv, CreatedThere, ledger

\* Nothing new is older than the audit.
LEMMA OldWasThere ==
    ASSUME Numbered', AppendsInOrder,
           start \in Nat, start <= 1 \/ start - 1 \in Nums(messages)
    PROVE  \A m \in messages' : m.num < start => m \in messages
  <1>1. ASSUME NEW m \in messages' \ messages
        PROVE  m.num \in Nat /\ m.num >= start
    <2>1. m.num \in Nat /\ m.num > 0
      BY DEF Numbered, Nums
    <2>2. \A old \in messages : old.num < m.num
      BY DEF AppendsInOrder
    <2>3. CASE start <= 1
      BY <2>1, <2>3
    <2>4. CASE start - 1 \in Nums(messages)
      <3>1. start - 1 < m.num
        BY <2>2, <2>4 DEF Nums
      <3> QED
        BY <2>1, <3>1
    <2> QED
      BY <2>3, <2>4
  <1> QED
    BY <1>1

LEMMA ThreadsInvStays ==
    ASSUME TablesInv, ThreadsInv, LedgerNext, UNCHANGED audit
    PROVE  ThreadsInv'
  <1>1. /\ TablesInv' /\ AppendsInOrder /\ KeepsRows
        /\ \A t : Nums(InThread(messages, t)) \subseteq Nums(InThread(messages', t))
    BY TablesStep
  <1>2. seenThreads' = seenThreads /\ start' = start
    BY DEF audit
  <1>3. \A m \in messages' : m.num < start => m \in messages
    BY <1>1, OldWasThere DEF ThreadsInv, TablesInv, LedgerInv
  <1>4. start \in Nat /\ (start <= 1 \/ start - 1 \in Nums(messages'))
    BY <1>1 DEF ThreadsInv, AppendsInOrder, Nums
  <1>5. \A m \in messages' : m.num < start =>
          m.thread \in DOMAIN seenThreads /\ m.refs \subseteq DOMAIN seenThreads
    BY <1>3 DEF ThreadsInv
  <1>6. ASSUME NEW t \in DOMAIN seenThreads
        PROVE  /\ t \in DOMAIN threads' /\ threads'[t].owner = seenThreads[t].owner
               /\ seenThreads[t].last < start
               /\ seenThreads[t].last \in Nums(InThread(messages', t))
               /\ \A k \in Nums(InThread(messages', t)) :
                    k < start => k <= seenThreads[t].last
               /\ seenThreads[t].status = "resolved" <=> seenThreads[t].resolved_by # None
    <2>1. \A k \in Nums(InThread(messages', t)) :
            k < start => k \in Nums(InThread(messages, t))
      BY <1>3 DEF Nums, InThread
    <2> QED
      BY <1>1, <2>1 DEF ThreadsInv, KeepsRows
  <1> QED
    BY <1>2, <1>4, <1>5, <1>6 DEF ThreadsInv

LEMMA MessagesInvStays ==
    ASSUME TablesInv, ThreadsInv, MessagesInv, LedgerNext, UNCHANGED audit
    PROVE  MessagesInv'
  <1>1. TablesInv' /\ AppendsInOrder
    BY TablesStep
  <1>2. seenMessages' = seenMessages /\ start' = start
    BY DEF audit
  <1>3. \A m \in messages' : m.num < start => m \in messages
    BY <1>1, OldWasThere DEF ThreadsInv, TablesInv, LedgerInv
  <1> QED
    BY <1>1, <1>2, <1>3 DEF MessagesInv, AppendsInOrder

-----------------------------------------------------------------------------
(* The statements of the audit *)

LEMMA ThreadsRead ==
    ASSUME TablesInv, ReadThreads
    PROVE  ThreadsInv'
  <1>1. PICK n \in Nat : Nums(messages) = 1 .. n
    BY DEF TablesInv, LedgerInv, Numbered
  <1>2. /\ start' = n + 1 /\ seenThreads' = threads
        /\ threads' = threads /\ messages' = messages
    BY <1>1, NextNumFollows DEF ReadThreads, ledger
  <1>3. n + 1 \in Nat /\ (n + 1 <= 1 \/ (n + 1) - 1 \in Nums(messages))
    BY <1>1
  <1>4. \A m \in messages : m.num \in 1 .. n
    BY <1>1 DEF Nums
  <1>5. \A t : \A k \in Nums(InThread(messages, t)) : k \in 1 .. n
    BY <1>4 DEF Nums, InThread
  <1>6. \A t \in DOMAIN threads :
          /\ threads[t].last < n + 1
          /\ threads[t].last \in Nums(InThread(messages, t))
          /\ \A k \in Nums(InThread(messages, t)) : k <= threads[t].last
          /\ threads[t].status = "resolved" <=> threads[t].resolved_by # None
    <2>1. \A t \in DOMAIN threads :
            /\ threads[t].last \in Nums(InThread(messages, t))
            /\ \A k \in Nums(InThread(messages, t)) : k <= threads[t].last
      BY DEF TablesInv, LedgerInv, ActivityKeyExact
    <2>2. \A t \in DOMAIN threads : threads[t].last < n + 1
      BY <1>5, <2>1
    <2> QED
      BY <2>1, <2>2 DEF TablesInv, LedgerInv, ResolvedByItsLastMessage
  <1>7. \A m \in messages : m.thread \in DOMAIN threads /\ m.refs \subseteq DOMAIN threads
    BY DEF TablesInv, LedgerInv, ProposeOnceFirst, LinksResolve
  <1> QED
    BY <1>2, <1>3, <1>6, <1>7 DEF ThreadsInv

LEMMA MessagesRead ==
    ASSUME ReadMessages
    PROVE  MessagesInv'
  BY DEF ReadMessages, MessagesInv, ledger

\* A message as old as one that was read was read.
LEMMA OlderIsSeen ==
    ASSUME TablesInv, MessagesInv, NEW m \in messages, NEW s \in seenMessages,
           m.num <= s.num
    PROVE  m \in seenMessages
  <1>1. m.num \in Nat /\ s.num \in Nat
    BY DEF TablesInv, LedgerInv, LedgerTypeOK, Message, MessagesInv
  <1> QED
    BY <1>1 DEF MessagesInv

\* A thread that was read has a message that was read, its newest when the
\* threads were read.
LEMMA LastIsSeen ==
    ASSUME TablesInv, ThreadsInv, MessagesInv, NEW t \in DOMAIN seenThreads
    PROVE  seenThreads[t].last \in Nums(InThread(seenMessages, t))
  <1>1. PICK m \in InThread(messages, t) : m.num = seenThreads[t].last
    BY DEF ThreadsInv, Nums
  <1>2. m \in seenMessages
    BY <1>1 DEF ThreadsInv, MessagesInv, InThread
  <1> QED
    BY <1>1, <1>2 DEF Nums, InThread

\* The first message of a thread that was read is the propose of its owner.
LEMMA FirstIsPropose ==
    ASSUME TablesInv, ThreadsInv, MessagesInv, NEW t \in DOMAIN seenThreads
    PROVE  LET m == First(seenMessages, t) IN
           m.thread = t /\ m.type = "propose" /\ m.author = seenThreads[t].owner
  <1>1. t \in DOMAIN threads /\ threads[t].owner = seenThreads[t].owner
    BY DEF ThreadsInv
  <1>2. PICK c \in InThread(messages, t) : c.num = threads[t].created_by
    BY <1>1 DEF TablesInv, CreatedThere, Nums
  <1>3. PICK s \in InThread(seenMessages, t) : TRUE
    BY LastIsSeen DEF Nums
  <1>4. \A k \in InThread(seenMessages, t) : k \in messages /\ c.num <= k.num
    BY <1>2 DEF InThread, MessagesInv, TablesInv, LedgerInv, ProposeOnceFirst
  <1>5. c \in seenMessages
    BY <1>2, <1>3, <1>4, OlderIsSeen DEF InThread
  <1>6. c \in InThread(seenMessages, t) /\ c \in messages
    BY <1>2, <1>5 DEF InThread
  <1> DEFINE Least(m) == \A k \in InThread(seenMessages, t) : m.num <= k.num
  <1>7. \A m \in InThread(seenMessages, t) : Least(m) => m = c
    <2>1. ASSUME NEW m \in InThread(seenMessages, t), Least(m)
          PROVE  m = c
      <3>1. m \in messages /\ c.num <= m.num /\ m.num <= c.num
        BY <1>4, <1>6, <2>1
      <3>2. m.num \in Nat /\ c.num \in Nat
        BY <1>6, <3>1 DEF TablesInv, LedgerInv, LedgerTypeOK, Message
      <3>3. m.num = c.num
        BY <3>1, <3>2
      <3> QED
        BY <1>6, <3>1, <3>3 DEF TablesInv, LedgerInv, Numbered
    <2> QED
      BY <2>1
  <1>8. Least(c)
    BY <1>4
  <1>9. First(seenMessages, t) = c
    <2>1. (CHOOSE m \in InThread(seenMessages, t) : Least(m)) = c
      <3> HIDE DEF Least
      <3> QED
        BY <1>6, <1>7, <1>8
    <2> QED
      BY <2>1 DEF First
  <1>10. c.thread = t /\ c.type = "propose" /\ c.author = threads[t].owner
    BY <1>2, <1>6 DEF TablesInv, LedgerInv, ProposeOnceFirst, InThread
  <1> QED
    BY <1>1, <1>9, <1>10

LEMMA CloseIsRecorded ==
    ASSUME TablesInv, ThreadsInv, MessagesInv,
           NEW m \in NonOwnerCloses(seenThreads, seenMessages)
    PROVE  Classified(m, events) # "corruption"
  <1>1. /\ m \in messages /\ m.closes # None
        /\ m.thread \in DOMAIN threads /\ m.author # threads[m.thread].owner
    BY DEF NonOwnerCloses, ThreadsInv, MessagesInv
  <1>2. \E e \in events : e.msg = m.num /\ e.sanction # None
    BY <1>1 DEF TablesInv, LedgerInv, NonOwnerCloseRecorded
  <1> QED
    BY <1>2 DEF Classified, Records

LEMMA RepliesAreAnswerable ==
    ASSUME TablesInv, MessagesInv
    PROVE  Unanswerable(seenMessages) = {}
  <1>1. ASSUME NEW m \in seenMessages, m.reply_to # None
        PROVE  m.reply_to \in Nums(InThread(seenMessages, m.thread))
    <2>1. PICK p \in messages : p.num = m.reply_to /\ p.thread = m.thread /\ p.num < m.num
      BY <1>1 DEF TablesInv, LedgerInv, LinksResolve, MessagesInv
    <2>2. p.num \in Nat /\ m.num \in Nat
      BY <1>1 DEF TablesInv, LedgerInv, LedgerTypeOK, Message, MessagesInv
    <2>3. p \in seenMessages
      BY <2>1, <2>2, OlderIsSeen
    <2> QED
      BY <2>1, <2>3 DEF Nums, InThread
  <1> QED
    BY <1>1 DEF Unanswerable

\* A key behind the messages that were read: the thread got one since.
LEMMA StaleKeyExplained ==
    ASSUME TablesInv, ThreadsInv, MessagesInv, NEW t \in StaleKeys(seenThreads, seenMessages)
    PROVE  \E m \in InThread(seenMessages, t) : m.num >= start
  <1> SUFFICES ASSUME \A m \in InThread(seenMessages, t) : ~(m.num >= start)
               PROVE  FALSE
    OBVIOUS
  <1> DEFINE nums == Nums(InThread(seenMessages, t))
             last == seenThreads[t].last
             Greatest(n) == \A k \in nums : k <= n
  <1>1. t \in DOMAIN seenThreads /\ last # ExpectedKey(seenMessages, t)
    BY DEF StaleKeys
  <1>2. last \in nums
    BY <1>1, LastIsSeen
  <1>3. \A m \in InThread(seenMessages, t) : m.num \in Nat /\ m \in InThread(messages, t)
    BY DEF InThread, TablesInv, LedgerInv, LedgerTypeOK, Message, MessagesInv
  <1>4. start \in Nat
    BY DEF ThreadsInv
  <1>5. \A k \in nums : k \in Nat /\ k < start /\ k \in Nums(InThread(messages, t))
    BY <1>3, <1>4 DEF Nums
  <1>6. Greatest(last)
    BY <1>1, <1>5 DEF ThreadsInv
  <1>7. \A n \in nums : Greatest(n) => n = last
    BY <1>2, <1>5, <1>6
  <1>8. (CHOOSE n \in nums : Greatest(n)) = last
    <2> HIDE DEF Greatest, nums, last
    <2> QED
      BY <1>2, <1>6, <1>7
  <1>9. InThread(seenMessages, t) # {}
    BY <1>2 DEF Nums
  <1> QED
    BY <1>1, <1>8, <1>9 DEF ExpectedKey

\* Whatever is found in the rows that were read says that the audit raced.
LEMMA FindingsExplained ==
    ASSUME TablesInv, ThreadsInv, MessagesInv,
           NEW i \in Issues(seenThreads, seenMessages, events)
    PROVE  ExplainedByRace(i)
  <1>1. start \in Nat /\ \A m \in seenMessages : m.num \in Nat /\ m \in messages
    BY DEF ThreadsInv, MessagesInv, TablesInv, LedgerInv, LedgerTypeOK, Message
  <1>2. ASSUME NEW m \in seenMessages, ~(m.num >= start)
        PROVE  m.thread \in DOMAIN seenThreads /\ m.refs \subseteq DOMAIN seenThreads
    <2>1. m.num < start
      BY <1>1, <1>2
    <2> QED
      BY <1>1, <2>1 DEF ThreadsInv
  <1>3. CASE i \in About("orphan_message", Orphans(seenThreads, seenMessages))
    <2>1. PICK m \in Orphans(seenThreads, seenMessages) :
            i = Issue("orphan_message", m.thread, m.num)
      BY <1>3 DEF About
    <2>2. m.num >= start
      BY <1>2 DEF Orphans
    <2> QED
      BY <2>1, <2>2 DEF Issue, ExplainedByRace
  <1>4. CASE i \in About("dangling_thread_reference", Dangling(seenThreads, seenMessages))
    <2>1. PICK m \in Dangling(seenThreads, seenMessages) :
            i = Issue("dangling_thread_reference", m.thread, m.num)
      BY <1>4 DEF About
    <2>2. m.num >= start
      BY <1>2 DEF Dangling
    <2> QED
      BY <2>1, <2>2 DEF Issue, ExplainedByRace
  <1>5. CASE i \in {Issue("stale_activity_key", t, None) :
                     t \in StaleKeys(seenThreads, seenMessages)}
    BY <1>5, StaleKeyExplained DEF Issue, ExplainedByRace
  <1>6. Empty(seenThreads, seenMessages) = {}
    BY LastIsSeen DEF Empty, Nums
  <1>7. WrongFirst(seenThreads, seenMessages) = {}
    BY FirstIsPropose DEF WrongFirst
  <1>8. ClosesThatAre("corruption", seenThreads, seenMessages, events) = {}
    BY CloseIsRecorded DEF ClosesThatAre
  <1>9. Inconsistent(seenThreads) = {}
    BY DEF Inconsistent, ThreadsInv
  <1> QED
    BY <1>3, <1>4, <1>5, <1>6, <1>7, <1>8, <1>9, RepliesAreAnswerable DEF Issues, About

-----------------------------------------------------------------------------
(* A project only the write path has written *)

LEMMA InitAudit == Init => AuditInv
  <1> SUFFICES ASSUME Init PROVE AuditInv
    OBVIOUS
  <1>1. LedgerInv
    BY LedgerInitInv DEF Init
  <1>2. CreatedThere
    BY DEF Init, LedgerInit, CreatedThere
  <1> QED
    BY <1>1, <1>2 DEF AuditInv, CleanInv, TablesInv, Init

LEMMA ServeKeepsClean ==
    ASSUME CleanInv, Serve
    PROVE  CleanInv'
  <1>1. LedgerNext /\ UNCHANGED audit
    BY DEF Serve
  <1>2. TablesInv'
    BY <1>1, TablesStep DEF CleanInv
  <1>3. stage \in {"messages", "events"} => ThreadsInv'
    BY <1>1, ThreadsInvStays DEF CleanInv
  <1>4. stage = "events" => MessagesInv'
    BY <1>1, MessagesInvStays DEF CleanInv
  <1>5. stage' = stage /\ report' = report /\ start' = start /\ seenMessages' = seenMessages
    BY <1>1 DEF audit
  <1> QED
    BY <1>2, <1>3, <1>4, <1>5 DEF CleanInv, ExplainedByRace

LEMMA AuditStep == AuditInv /\ [Next]_vars => AuditInv'
  <1> SUFFICES ASSUME AuditInv, [Next]_vars PROVE AuditInv'
    OBVIOUS
  <1> USE DEF AuditInv
  <1>1. CASE Serve
    <2>1. edits' = edits
      BY <1>1 DEF Serve
    <2> QED
      BY <1>1, <2>1, ServeKeepsClean
  <1>2. CASE RawSQL
    BY <1>2 DEF RawSQL
  <1>3. CASE ReadThreads
    <2>1. edits' = edits /\ UNCHANGED ledger /\ stage' = "messages"
      BY <1>3 DEF ReadThreads
    <2>2. CleanInv => TablesInv'
      BY <2>1, TablesKept DEF CleanInv
    <2> QED
      BY <1>3, <2>1, <2>2, ThreadsRead DEF CleanInv
  <1>4. CASE ReadMessages
    <2>1. /\ edits' = edits /\ UNCHANGED ledger /\ stage = "messages" /\ stage' = "events"
          /\ start' = start /\ seenThreads' = seenThreads
      BY <1>4 DEF ReadMessages
    <2>2. CleanInv => TablesInv' /\ ThreadsInv'
      BY <2>1, TablesKept DEF CleanInv, ThreadsInv, ledger
    <2> QED
      BY <1>4, <2>1, <2>2, MessagesRead DEF CleanInv
  <1>5. CASE ReadEvents
    <2>1. /\ edits' = edits /\ UNCHANGED ledger /\ stage = "events" /\ stage' = "done"
          /\ start' = start /\ seenMessages' = seenMessages
          /\ report'.issues = Issues(seenThreads, seenMessages, events)
      BY <1>5 DEF ReadEvents, Report
    <2>2. CleanInv => TablesInv'
      BY <2>1, TablesKept DEF CleanInv
    <2>3. CleanInv => \A i \in report'.issues : ExplainedByRace(i)
      BY <2>1, FindingsExplained DEF CleanInv
    <2> QED
      BY <2>1, <2>2, <2>3 DEF CleanInv, ExplainedByRace
  <1>6. CASE UNCHANGED vars
    <2>1. CleanInv => TablesInv'
      BY <1>6, TablesKept DEF vars, CleanInv
    <2> QED
      BY <1>6, <2>1 DEF vars, audit, ledger, CleanInv, ThreadsInv, MessagesInv, ExplainedByRace
  <1> QED
    BY <1>1, <1>2, <1>3, <1>4, <1>5, <1>6 DEF Next

\* Of a project only the write path has written, the audit reports nothing but
\* the requests it raced with, whatever they were: no close that left its
\* record, no propose, no resolution and no reply is ever blamed
\* (services/integrity.py, audit_project).
THEOREM AuditBlames == Spec => []AuditBlamesOnlyTheRace
  <1>1. AuditInv => AuditBlamesOnlyTheRace
    BY DEF AuditInv, CleanInv, AuditBlamesOnlyTheRace
  <1> QED
    BY <1>1, InitAudit, AuditStep, PTL DEF Spec

-----------------------------------------------------------------------------
(* Whatever raw SQL did: what is left of the ledger's invariant *)

Row == [owner : Author, status : Status, created_by : Nat,
        resolved_by : Nat \cup {None}, last : Nat \cup {None}, affects : SUBSET ThreadId]

RecordsUsable == \A e \in events : e.sanction # None => e.sanction.kind \in CloseSanctionKind

RowsInv ==
    /\ Numbered
    /\ EventsNumbered
    /\ messages \subseteq Message /\ \A m \in messages : m.thread \in DOMAIN threads
    /\ \A t \in DOMAIN threads : t \in ThreadId /\ threads[t] \in Row
    /\ RecordsUsable

\* What no statement undoes: rows stay, owners stay, and the events of a
\* message are written with it.
KeepsOwners ==
    \A t \in DOMAIN threads : t \in DOMAIN threads' /\ threads'[t].owner = threads[t].owner

EventsComeAlong == \A e \in events' \ events : e.msg \notin Nums(messages)

Grows == AppendsInOrder /\ EventsComeAlong /\ KeepsOwners

LEMMA MessageInserted ==
    ASSUME RowsInv, NEW r \in Request, NEW n \in Nat, Nums(messages) = 1 .. n,
           messages' = messages \cup {NewMessage(r, n + 1)},
           NEW new, events' = events \cup new,
           \A e \in new : /\ e.msg = n + 1 /\ e.thread = r.thread
                          /\ e.sanction # None => e.sanction.kind \in CloseSanctionKind,
           r.thread \in DOMAIN threads', KeepsOwners,
           \A t \in DOMAIN threads' : t \in ThreadId /\ threads'[t] \in Row
    PROVE  RowsInv' /\ Grows
  <1>1. /\ NewMessage(r, n + 1).num = n + 1
        /\ NewMessage(r, n + 1).thread = r.thread
    BY DEF NewMessage
  <1>2. Numbered' /\ \A m \in messages : m.num < n + 1
    BY NumberedGrows DEF RowsInv
  <1>3. EventsNumbered'
    BY <1>1 DEF RowsInv, EventsNumbered, InThread, Nums
  <1>4. \A m \in messages' : m.thread \in DOMAIN threads'
    BY <1>1 DEF RowsInv, KeepsOwners
  <1>5. AppendsInOrder
    BY <1>1, <1>2 DEF AppendsInOrder
  <1>7. NewMessage(r, n + 1) \in Message
    BY DEF NewMessage, Message, Request
  <1>6. EventsComeAlong
    <2>1. n + 1 \notin Nums(messages)
      BY <1>2 DEF Nums
    <2> QED
      BY <2>1 DEF EventsComeAlong
  <1> QED
    BY <1>2, <1>3, <1>4, <1>5, <1>6, <1>7 DEF RowsInv, RecordsUsable, Grows

LEMMA ThreadChanged ==
    ASSUME RowsInv, messages' = messages, events' = events, KeepsOwners,
           \A t \in DOMAIN threads' : t \in ThreadId /\ threads'[t] \in Row
    PROVE  RowsInv' /\ Grows
  BY DEF RowsInv, Numbered, EventsNumbered, RecordsUsable, Grows, AppendsInOrder,
         EventsComeAlong, KeepsOwners

LEMMA SanctionUsable ==
    ASSUME NEW row, NEW r \in Requests
    PROVE  LET s == SanctionRecorded(row, r) IN s # None => s.kind \in CloseSanctionKind
  BY RequestFields, UnspecifiedType DEF SanctionRecorded, Request, CloseSanction

LEMMA RowAfter ==
    ASSUME NEW row \in Row, NEW r \in Request, NEW n \in Nat
    PROVE  ThreadAfter(row, r, n) \in Row /\ ThreadAfter(row, r, n).owner = row.owner
  <1>1. StatusAfter(row, r) \in Status
    BY DEF StatusAfter, Row, Status, OpenStatuses
  <1> QED
    BY <1>1 DEF ThreadAfter, Row, Request

LEMMA RowsServed ==
    ASSUME RowsInv, LedgerNext
    PROVE  RowsInv' /\ Grows
  <1>1. PICK n \in Nat : Nums(messages) = 1 .. n
    BY DEF RowsInv, Numbered
  <1>2. NextNum(messages) = n + 1
    BY <1>1, NextNumFollows
  <1>3. ASSUME NEW r \in Requests, OpenThread(r)
        PROVE  RowsInv' /\ Grows
    <2> DEFINE new == {OpenEvent(r, n + 1)}
    <2>1. /\ r.thread \notin DOMAIN threads /\ r \in Request
          /\ threads' = Put(threads, r.thread, OpenedThread(r, n + 1))
          /\ messages' = messages \cup {NewMessage(r, n + 1)} /\ events' = events \cup new
      BY <1>2, <1>3, RequestFields DEF OpenThread
    <2>2. OpenedThread(r, n + 1) \in Row /\ r.thread \in ThreadId
      BY <2>1 DEF OpenedThread, Row, Request, Status, OpenStatuses
    <2>3. /\ KeepsOwners /\ r.thread \in DOMAIN threads'
          /\ \A t \in DOMAIN threads' : t \in ThreadId /\ threads'[t] \in Row
      BY <2>1, <2>2 DEF Put, KeepsOwners, RowsInv
    <2>4. \A e \in new : e.msg = n + 1 /\ e.thread = r.thread /\ e.sanction = None
      BY DEF OpenEvent
    <2> HIDE DEF new
    <2> QED
      BY <1>1, <2>1, <2>3, <2>4, MessageInserted
  <1>4. ASSUME NEW r \in Requests, AppendMessage(r)
        PROVE  RowsInv' /\ Grows
    <2> DEFINE row == threads[r.thread]
               after == ThreadAfter(row, r, n + 1)
               new == NewEvents(row, r, n + 1)
    <2>1. /\ r.thread \in DOMAIN threads /\ r \in Request /\ row \in Row
          /\ threads' = Put(threads, r.thread, after)
          /\ messages' = messages \cup {NewMessage(r, n + 1)} /\ events' = events \cup new
      BY <1>2, <1>4, RequestFields DEF AppendMessage, RowsInv
    <2>2. after \in Row /\ after.owner = row.owner
      <3>1. n + 1 \in Nat
        OBVIOUS
      <3> QED
        BY <2>1, <3>1, RowAfter
    <2>3. \A e \in new : /\ e.msg = n + 1 /\ e.thread = r.thread
                         /\ e.sanction # None => e.sanction.kind \in CloseSanctionKind
      BY SanctionUsable DEF NewEvents, PostEvent, TransitionEvent
    <2>4. /\ KeepsOwners /\ r.thread \in DOMAIN threads'
          /\ \A t \in DOMAIN threads' : t \in ThreadId /\ threads'[t] \in Row
      <3> HIDE DEF after
      <3> QED
        BY <2>1, <2>2 DEF Put, KeepsOwners, RowsInv
    <2> HIDE DEF new, after, row
    <2> QED
      BY <1>1, <2>1, <2>3, <2>4, MessageInserted
  <1>5. ASSUME NEW t \in ThreadId, NEW s \in OperatorStatuses, SetAside(t, s)
        PROVE  RowsInv' /\ Grows
    <2>1. s \in Status
      BY OperatorAssumption DEF Status
    <2>2. KeepsOwners /\ \A k \in DOMAIN threads' : k \in ThreadId /\ threads'[k] \in Row
      BY <1>5, <2>1 DEF SetAside, RowsInv, KeepsOwners, Row
    <2> QED
      BY <1>5, <2>2, ThreadChanged DEF SetAside
  <1> QED
    BY <1>3, <1>4, <1>5 DEF LedgerNext

LEMMA RowsTampered ==
    ASSUME RowsInv, Tamper
    PROVE  RowsInv' /\ Grows
  <1>1. ASSUME NEW r \in Planted, InsertMessage(r)
        PROVE  RowsInv' /\ Grows
    <2> DEFINE none == {}
    <2>1. PICK n \in Nat : Nums(messages) = 1 .. n
      BY DEF RowsInv, Numbered
    <2>2. NextNum(messages) = n + 1
      BY <2>1, NextNumFollows
    <2>3. /\ r \in Request /\ r.thread \in DOMAIN threads' /\ threads' = threads
          /\ messages' = messages \cup {NewMessage(r, n + 1)} /\ events' = events \cup none
      BY <1>1, <2>2, AuditAssumption DEF InsertMessage
    <2>4. KeepsOwners /\ \A t \in DOMAIN threads' : t \in ThreadId /\ threads'[t] \in Row
      BY <2>3 DEF KeepsOwners, RowsInv
    <2>5. \A e \in none : FALSE
      OBVIOUS
    <2> HIDE DEF none
    <2> QED
      BY <2>1, <2>3, <2>4, <2>5, MessageInserted
  <1>2. ASSUME NEW t \in ThreadId, NEW a \in Author, NEW s \in BareStatuses, InsertThread(t, a, s)
        PROVE  RowsInv' /\ Grows
    <2> DEFINE row == [owner |-> a, status |-> s, created_by |-> 0,
                       resolved_by |-> None, last |-> None, affects |-> {}]
    <2>1. row \in Row
      BY AuditAssumption DEF Row
    <2>2. t \notin DOMAIN threads /\ threads' = Put(threads, t, row)
          /\ messages' = messages /\ events' = events
      BY <1>2 DEF InsertThread
    <2> HIDE DEF row
    <2>3. KeepsOwners /\ \A k \in DOMAIN threads' : k \in ThreadId /\ threads'[k] \in Row
      BY <2>1, <2>2 DEF KeepsOwners, RowsInv, Put
    <2> QED
      BY <2>2, <2>3, ThreadChanged
  <1>3. ASSUME NEW t \in DOMAIN threads, NEW n \in WrongKeys, UpdateKey(t, n)
        PROVE  RowsInv' /\ Grows
    <2>1. n \in Nat
      BY AuditAssumption
    <2>2. KeepsOwners /\ \A k \in DOMAIN threads' : k \in ThreadId /\ threads'[k] \in Row
      BY <1>3, <2>1 DEF UpdateKey, RowsInv, KeepsOwners, Row
    <2> QED
      BY <1>3, <2>2, ThreadChanged DEF UpdateKey
  <1>4. ASSUME NEW t \in DOMAIN threads, NEW s \in BareStatuses, UpdateStatus(t, s)
        PROVE  RowsInv' /\ Grows
    <2>1. s \in Status
      BY AuditAssumption
    <2>2. KeepsOwners /\ \A k \in DOMAIN threads' : k \in ThreadId /\ threads'[k] \in Row
      BY <1>4, <2>1 DEF UpdateStatus, RowsInv, KeepsOwners, Row
    <2> QED
      BY <1>4, <2>2, ThreadChanged DEF UpdateStatus
  <1> QED
    BY <1>1, <1>2, <1>3, <1>4 DEF Tamper

-----------------------------------------------------------------------------
(* Whatever raw SQL did: the snapshots against the tables *)

OldThreadsSeen ==
    /\ start \in Nat /\ (start <= 1 \/ start - 1 \in Nums(messages))
    /\ \A t \in DOMAIN seenThreads :
         t \in DOMAIN threads /\ threads[t].owner = seenThreads[t].owner
    /\ \A m \in messages : m.num < start => m.thread \in DOMAIN seenThreads

OldMessagesSeen ==
    /\ seenMessages \subseteq messages
    /\ \A m \in messages : m.num < start => m \in seenMessages

\* The report is made of events that have all there is on the messages read.
ReportOf(evs) ==
    /\ evs \subseteq events
    /\ report = Report(seenThreads, seenMessages, evs)
    /\ \A e \in events \ evs : e.msg \notin Nums(seenMessages)

ReportMade == \E evs : ReportOf(evs)

SnapshotsInv ==
    /\ RowsInv
    /\ stage # "threads" => OldThreadsSeen
    /\ stage \in {"events", "done"} => OldMessagesSeen
    /\ stage \in {"threads", "messages"} => report = NoReport
    /\ stage = "done" => ReportMade

LEMMA SnapshotsAge ==
    ASSUME SnapshotsInv, RowsInv', Grows, UNCHANGED audit
    PROVE  SnapshotsInv'
  <1>1. /\ stage' = stage /\ start' = start /\ seenThreads' = seenThreads
        /\ seenMessages' = seenMessages /\ report' = report
    BY DEF audit
  <1>2. ASSUME stage # "threads"
        PROVE  OldThreadsSeen' /\ \A m \in messages' : m.num < start => m \in messages
    <2>1. OldThreadsSeen /\ AppendsInOrder /\ KeepsOwners /\ Numbered'
      BY <1>2 DEF SnapshotsInv, Grows, RowsInv
    <2>2. \A m \in messages' : m.num < start => m \in messages
      BY <2>1, OldWasThere DEF OldThreadsSeen
    <2>3. start <= 1 \/ start - 1 \in Nums(messages')
      BY <2>1 DEF OldThreadsSeen, AppendsInOrder, Nums
    <2> QED
      BY <1>1, <2>1, <2>2, <2>3 DEF OldThreadsSeen, KeepsOwners
  <1>3. ASSUME stage \in {"events", "done"}
        PROVE  OldMessagesSeen'
    BY <1>1, <1>2, <1>3 DEF SnapshotsInv, OldMessagesSeen, Grows, AppendsInOrder
  <1>4. ASSUME stage = "done"
        PROVE  ReportMade'
    <2>1. PICK evs : ReportOf(evs)
      BY <1>4 DEF SnapshotsInv, ReportMade
    <2>2. Nums(seenMessages) \subseteq Nums(messages)
      BY <1>4 DEF SnapshotsInv, OldMessagesSeen, Nums
    <2>3. \A e \in events' \ evs : e.msg \notin Nums(seenMessages)
      BY <2>1, <2>2 DEF ReportOf, Grows, EventsComeAlong
    <2>4. evs \subseteq events'
      BY <2>1 DEF ReportOf, Grows, AppendsInOrder
    <2>5. report' = Report(seenThreads', seenMessages', evs)
      BY <1>1, <2>1 DEF ReportOf
    <2> QED
      BY <1>1, <2>3, <2>4, <2>5 DEF ReportMade, ReportOf
  <1> QED
    BY <1>1, <1>2, <1>3, <1>4 DEF SnapshotsInv

LEMMA SnapshotsInit == Init => SnapshotsInv
  <1> SUFFICES ASSUME Init PROVE SnapshotsInv
    OBVIOUS
  <1>1. Nums(messages) = 1 .. 0
    BY DEF Init, LedgerInit, Nums
  <1> QED
    BY <1>1 DEF Init, LedgerInit, SnapshotsInv, RowsInv, Numbered, EventsNumbered, RecordsUsable

LEMMA RowsKept ==
    ASSUME RowsInv, UNCHANGED ledger
    PROVE  RowsInv'
  BY DEF RowsInv, ledger, Numbered, EventsNumbered, RecordsUsable

LEMMA SnapshotsStep == SnapshotsInv /\ [Next]_vars => SnapshotsInv'
  <1> SUFFICES ASSUME SnapshotsInv, [Next]_vars PROVE SnapshotsInv'
    OBVIOUS
  <1>1. CASE Serve
    BY <1>1, RowsServed, SnapshotsAge DEF Serve, SnapshotsInv
  <1>2. CASE RawSQL
    BY <1>2, RowsTampered, SnapshotsAge DEF RawSQL, SnapshotsInv
  <1>3. CASE ReadThreads
    <2>1. /\ UNCHANGED ledger /\ stage = "threads" /\ stage' = "messages"
          /\ start' = NextNum(messages) /\ seenThreads' = threads /\ report' = report
      BY <1>3 DEF ReadThreads
    <2>2. RowsInv'
      BY <2>1, RowsKept DEF SnapshotsInv
    <2>3. PICK n \in Nat : Nums(messages) = 1 .. n
      BY DEF SnapshotsInv, RowsInv, Numbered
    <2>4. start' = n + 1
      BY <2>1, <2>3, NextNumFollows
    <2>5. start' \in Nat /\ (start' <= 1 \/ start' - 1 \in Nums(messages))
      BY <2>3, <2>4
    <2>6. OldThreadsSeen'
      BY <2>1, <2>5 DEF OldThreadsSeen, SnapshotsInv, RowsInv, ledger
    <2> QED
      BY <2>1, <2>2, <2>6 DEF SnapshotsInv
  <1>4. CASE ReadMessages
    <2>1. /\ UNCHANGED ledger /\ stage = "messages" /\ stage' = "events"
          /\ start' = start /\ seenThreads' = seenThreads /\ seenMessages' = messages
      BY <1>4 DEF ReadMessages
    <2>2. RowsInv'
      BY <2>1, RowsKept DEF SnapshotsInv
    <2>3. OldThreadsSeen' /\ OldMessagesSeen'
      BY <2>1 DEF OldThreadsSeen, OldMessagesSeen, SnapshotsInv, ledger
    <2> QED
      BY <2>1, <2>2, <2>3 DEF SnapshotsInv
  <1>5. CASE ReadEvents
    <2>1. /\ UNCHANGED ledger /\ stage = "events" /\ stage' = "done"
          /\ start' = start /\ seenThreads' = seenThreads /\ seenMessages' = seenMessages
          /\ report' = Report(seenThreads, seenMessages, events)
      BY <1>5 DEF ReadEvents
    <2>2. RowsInv'
      BY <2>1, RowsKept DEF SnapshotsInv
    <2>3. OldThreadsSeen' /\ OldMessagesSeen'
      BY <2>1 DEF OldThreadsSeen, OldMessagesSeen, SnapshotsInv, ledger
    <2>4. ReportOf(events)'
      BY <2>1 DEF ReportOf, ledger
    <2>5. ReportMade'
      BY <2>1, <2>4 DEF ReportMade, ReportOf, ledger
    <2> QED
      BY <2>1, <2>2, <2>3, <2>5 DEF SnapshotsInv
  <1>6. CASE UNCHANGED vars
    BY <1>6 DEF vars, audit, ledger, SnapshotsInv, RowsInv, Numbered, EventsNumbered,
      RecordsUsable, OldThreadsSeen, OldMessagesSeen, ReportMade, ReportOf
  <1> QED
    BY <1>1, <1>2, <1>3, <1>4, <1>5, <1>6 DEF Next

LEMMA SnapshotsHold == Spec => []SnapshotsInv
  BY SnapshotsInit, SnapshotsStep, PTL DEF Spec

-----------------------------------------------------------------------------
(* Closes older than the audit *)

LEMMA OldCloseSorted ==
    ASSUME SnapshotsInv, stage = "done",
           NEW m \in NonOwnerCloses(threads, messages), m.num < start
    PROVE  LET issue == Issue("closes_thread_by_non_owner", m.thread, m.num)
               recorded == {e.sanction.kind :
                            e \in {x \in events : x.msg = m.num /\ x.sanction # None}} IN
           /\ issue \in report.issues <=> (recorded = {} /\ m.num \in Stamped)
           /\ \A k \in SanctionedKind : <<m.num, k>> \in report.sanctioned <=> k \in recorded
           /\ m.num \in report.unattributable <=>
                 (recorded = {"unspecified"} \/ (recorded = {} /\ m.num \notin Stamped))
  <1> DEFINE issue == Issue("closes_thread_by_non_owner", m.thread, m.num)
             mine == {x \in events : x.msg = m.num /\ x.sanction # None}
             recorded == {e.sanction.kind : e \in mine}
  <1>1. PICK evs : ReportOf(evs)
    BY DEF SnapshotsInv, ReportMade
  <1> DEFINE closes(v) == ClosesThatAre(v, seenThreads, seenMessages, evs)
  <1>2. m \in NonOwnerCloses(seenThreads, seenMessages)
    BY DEF NonOwnerCloses, SnapshotsInv, OldThreadsSeen, OldMessagesSeen
  <1>3. \A k \in seenMessages : k.num = m.num => k = m
    BY DEF NonOwnerCloses, SnapshotsInv, OldMessagesSeen, RowsInv, Numbered
  <1>4. \A v : \A k \in closes(v) : k \in seenMessages /\ Classified(k, evs) = v
    BY DEF ClosesThatAre, NonOwnerCloses
  <1>5. \A v : m \in closes(v) <=> Classified(m, evs) = v
    BY <1>2 DEF ClosesThatAre
  <1>6. \A v : m.num \in Nums(closes(v)) <=> Classified(m, evs) = v
    BY <1>3, <1>4, <1>5 DEF Nums
  <1>7. Records(m, evs) = mine
    <2>1. m.num \in Nums(seenMessages)
      BY <1>2 DEF NonOwnerCloses, Nums
    <2> QED
      BY <1>1, <2>1 DEF ReportOf, Records
  <1>8. recorded \subseteq CloseSanctionKind
    BY DEF SnapshotsInv, RowsInv, RecordsUsable
  <1>9. mine = {} <=> recorded = {}
    OBVIOUS
  <1>10. Classified(m, evs) = IF mine # {}
            THEN IF \E k \in recorded : k \in SanctionedKind
                 THEN "sanctioned" ELSE "unattributable"
            ELSE IF m.num \in Stamped THEN "corruption" ELSE "unattributable"
    <2>1. (\E e \in mine : e.sanction.kind \in SanctionedKind)
            <=> \E k \in recorded : k \in SanctionedKind
      OBVIOUS
    <2> HIDE DEF mine, recorded
    <2> QED
      BY <1>7, <2>1 DEF Classified
  <1>11. report = Report(seenThreads, seenMessages, evs)
    BY <1>1 DEF ReportOf
  <1>12. issue \in report.issues <=> Classified(m, evs) = "corruption"
    <2>1. issue \in report.issues
            <=> issue \in About("closes_thread_by_non_owner", closes("corruption"))
      <3>1. report.issues = Issues(seenThreads, seenMessages, evs)
        BY <1>11 DEF Report
      <3> QED
        BY <3>1 DEF Issues, About, Issue
    <2>2. issue \in About("closes_thread_by_non_owner", closes("corruption"))
            <=> m \in closes("corruption")
      BY <1>3, <1>4 DEF About, Issue
    <2> QED
      BY <1>5, <2>1, <2>2
  <1>13. ASSUME NEW k \in SanctionedKind
         PROVE  <<m.num, k>> \in report.sanctioned <=> k \in recorded
    <2>1. report.sanctioned = UNION {{<<c.num, e.sanction.kind>> : e \in Records(c, evs)} :
                                      c \in closes("sanctioned")}
      BY <1>11 DEF Report
    <2>2. ASSUME <<m.num, k>> \in report.sanctioned
          PROVE  k \in recorded
      <3>1. PICK c \in closes("sanctioned") :
              <<m.num, k>> \in {<<c.num, e.sanction.kind>> : e \in Records(c, evs)}
        BY <2>1, <2>2
      <3>2. PICK e \in Records(c, evs) : <<m.num, k>> = <<c.num, e.sanction.kind>>
        BY <3>1
      <3>3. c = m /\ e.sanction.kind = k
        BY <1>3, <1>4, <3>2
      <3> QED
        BY <1>7, <3>2, <3>3
    <2>3. ASSUME k \in recorded
          PROVE  <<m.num, k>> \in report.sanctioned
      <3>1. PICK e \in Records(m, evs) : e.sanction.kind = k
        BY <1>7, <2>3
      <3>2. m \in closes("sanctioned")
        BY <1>5, <3>1 DEF Classified
      <3>3. <<m.num, k>> \in {<<m.num, x.sanction.kind>> : x \in Records(m, evs)}
        BY <3>1
      <3> QED
        BY <2>1, <3>2, <3>3
    <2> QED
      BY <2>2, <2>3
  <1>14. m.num \in report.unattributable <=> Classified(m, evs) = "unattributable"
    BY <1>6, <1>11 DEF Report
  <1>15. (mine # {} /\ ~\E k \in recorded : k \in SanctionedKind) <=> recorded = {"unspecified"}
    <2> HIDE DEF mine, recorded
    <2> QED
      BY <1>8, <1>9 DEF SanctionedKind, CloseSanctionKind
  <1> HIDE DEF mine, recorded, issue
  <1>16. /\ issue \in report.issues <=> (recorded = {} /\ m.num \in Stamped)
         /\ m.num \in report.unattributable <=>
               (recorded = {"unspecified"} \/ (recorded = {} /\ m.num \notin Stamped))
    BY <1>9, <1>10, <1>12, <1>14, <1>15
  <1> QED
    BY <1>13, <1>16 DEF mine, recorded, issue

\* Whatever raw SQL did and whatever is being written: a close by a non-owner
\* that is older than the audit is sorted by the record left with it, or by its
\* time stamp if there is none (close_sanction.classify_non_owner_close).
THEOREM AuditSortsCloses == Spec => []OldClosesSorted
  <1>1. SnapshotsInv => OldClosesSorted
    BY OldCloseSorted DEF OldClosesSorted
  <1> QED
    BY <1>1, SnapshotsHold, PTL

-----------------------------------------------------------------------------
(* Least and greatest numbers *)

Less == {p \in Nat \X Nat : p[1] < p[2]}

LEMMA LessWellFounded == IsWellFoundedOn(Less, Nat)
  BY NatLessThanWellFounded DEF OpToRel, Less

LEMMA LeastExists ==
    ASSUME NEW nums, nums \subseteq Nat, nums # {}
    PROVE  \E n \in nums : \A k \in nums : n <= k
  <1>1. PICK n \in nums : \A k \in nums : ~(<<k, n>> \in Less)
    BY LessWellFounded, WFMin
  <1>2. \A k \in nums : ~(k < n)
    BY <1>1 DEF Less
  <1> QED
    BY <1>2

\* The distances to the bound have a least one.
LEMMA GreatestExists ==
    ASSUME NEW top \in Nat, NEW nums, nums \subseteq 0 .. top, nums # {}
    PROVE  \E n \in nums : \A k \in nums : k <= n
  <1> DEFINE gaps == {top - k : k \in nums}
  <1>1. gaps \subseteq Nat /\ gaps # {}
    <2>1. \A k \in nums : top - k \in Nat
      OBVIOUS
    <2>2. PICK k \in nums : TRUE
      OBVIOUS
    <2> QED
      BY <2>1, <2>2
  <1>2. PICK g \in gaps : \A h \in gaps : g <= h
    <2> HIDE DEF gaps
    <2> QED
      BY <1>1, LeastExists
  <1>3. PICK n \in nums : g = top - n
    OBVIOUS
  <1>4. \A k \in nums : top - n <= top - k
    BY <1>2, <1>3
  <1>5. \A k \in nums : k <= n
    <2>1. \A k \in nums : k \in 0 .. top
      OBVIOUS
    <2> QED
      BY <1>4, <2>1
  <1> QED
    BY <1>5

-----------------------------------------------------------------------------
(* Threads without a finding *)

\* The expected key is the newest number of a thread that has a message.
LEMMA KeyIsGreatest ==
    ASSUME Numbered, NEW msgs, msgs \subseteq messages, NEW t, InThread(msgs, t) # {}
    PROVE  /\ ExpectedKey(msgs, t) \in Nums(InThread(msgs, t))
           /\ \A k \in Nums(InThread(msgs, t)) : k <= ExpectedKey(msgs, t)
  <1> DEFINE nums == Nums(InThread(msgs, t))
  <1>1. PICK n \in Nat : Nums(messages) = 1 .. n
    BY DEF Numbered
  <1>2. nums \subseteq 0 .. n /\ nums # {}
    BY <1>1 DEF Nums, InThread
  <1>3. \E x \in nums : \A k \in nums : k <= x
    <2> HIDE DEF nums
    <2> QED
      BY <1>2, GreatestExists
  <1> QED
    BY <1>3 DEF ExpectedKey

\* The first message of a thread that has one is its oldest.
LEMMA FirstIsOldest ==
    ASSUME Numbered, NEW msgs, msgs \subseteq messages, NEW t, InThread(msgs, t) # {}
    PROVE  /\ First(msgs, t) \in InThread(msgs, t)
           /\ \A k \in InThread(msgs, t) : First(msgs, t).num <= k.num
  <1> DEFINE nums == Nums(InThread(msgs, t))
  <1>1. nums \subseteq Nat /\ nums # {}
    BY DEF Numbered, Nums, InThread
  <1>2. PICK x \in nums : \A k \in nums : x <= k
    <2> HIDE DEF nums
    <2> QED
      BY <1>1, LeastExists
  <1>3. \E m \in InThread(msgs, t) : \A k \in InThread(msgs, t) : m.num <= k.num
    BY <1>2 DEF Nums
  <1> QED
    BY <1>3 DEF First

LEMMA ClearedIsSound ==
    ASSUME SnapshotsInv, stage = "done", NEW t \in DOMAIN seenThreads,
           ~\E i \in report.issues : i.thread = t,
           seenThreads[t] = threads[t],
           InThread(seenMessages, t) = InThread(messages, t)
    PROVE  Sound(t)
  <1> DEFINE mine == InThread(messages, t)
  <1>1. PICK evs : ReportOf(evs)
    BY DEF SnapshotsInv, ReportMade
  <1>2. report.issues = Issues(seenThreads, seenMessages, evs)
    BY <1>1 DEF ReportOf, Report
  <1>3. /\ RowsInv /\ seenMessages \subseteq messages
        /\ DOMAIN seenThreads \subseteq DOMAIN threads
    BY DEF SnapshotsInv, OldThreadsSeen, OldMessagesSeen
  <1>4. \A m \in mine : m \in seenMessages /\ m.thread = t
    BY DEF InThread
  <1>5. mine # {}
    <2>1. Issue("missing_propose", t, None).thread = t
      BY DEF Issue
    <2>2. t \notin Empty(seenThreads, seenMessages)
      BY <1>2, <2>1 DEF Issues
    <2> QED
      BY <2>2 DEF Empty
  <1>6. \A k : Issue(k, t, None).thread = t /\ \A n : Issue(k, t, n).thread = t
    BY DEF Issue
  <1>7. ASSUME NEW m \in mine
        PROVE  /\ m \notin WrongFirst(seenThreads, seenMessages)
               /\ m \notin ClosesThatAre("corruption", seenThreads, seenMessages, evs)
               /\ m \notin Unanswerable(seenMessages)
               /\ m \notin Dangling(seenThreads, seenMessages)
    <2>1. m.thread = t
      BY <1>4
    <2> QED
      BY <1>2, <1>6, <2>1 DEF Issues, About
  <1>8. t \notin Inconsistent(seenThreads) /\ t \notin StaleKeys(seenThreads, seenMessages)
    BY <1>2, <1>6 DEF Issues
  <1>9. \E m \in mine : /\ m.type = "propose" /\ m.author = threads[t].owner
                        /\ \A k \in mine : m.num <= k.num
    <2> DEFINE m == First(seenMessages, t)
    <2>1. m \in mine /\ \A k \in mine : m.num <= k.num
      BY <1>3, <1>5, FirstIsOldest DEF RowsInv
    <2>2. m.thread = t
      BY <1>4, <2>1
    <2>3. t \in DOMAIN seenThreads \ Empty(seenThreads, seenMessages)
      BY <1>5 DEF Empty
    <2>4. m.type = "propose" /\ m.author = threads[t].owner
      BY <1>7, <2>1, <2>2, <2>3 DEF WrongFirst
    <2> HIDE DEF m
    <2> QED
      BY <2>1, <2>4
  <1>10. threads[t].last \in Nums(mine) /\ \A k \in Nums(mine) : k <= threads[t].last
    <2>1. threads[t].last = ExpectedKey(seenMessages, t)
      BY <1>8 DEF StaleKeys
    <2> QED
      BY <1>3, <1>5, <2>1, KeyIsGreatest DEF RowsInv
  <1>11. threads[t].status = "resolved" <=> threads[t].resolved_by # None
    BY <1>8 DEF Inconsistent
  <1>12. \A m \in mine : m.refs \subseteq DOMAIN threads
    BY <1>3, <1>4, <1>7 DEF Dangling
  <1>13. \A m \in mine : m.reply_to # None => m.reply_to \in Nums(mine)
    BY <1>4, <1>7 DEF Unanswerable
  <1>14. ASSUME NEW m \in mine,
                m.closes # None, m.author # threads[t].owner, m.num \in Stamped
         PROVE  \E e \in events : e.msg = m.num /\ e.sanction # None
    <2>1. m \in NonOwnerCloses(seenThreads, seenMessages)
      BY <1>4, <1>14 DEF NonOwnerCloses
    <2>2. Classified(m, evs) # "corruption"
      BY <1>7, <2>1 DEF ClosesThatAre
    <2>3. Records(m, evs) # {}
      BY <1>14, <2>2 DEF Classified
    <2> QED
      BY <1>1, <2>3 DEF Records, ReportOf
  <1> QED
    BY <1>9, <1>10, <1>11, <1>12, <1>13, <1>14 DEF Sound

\* Whatever raw SQL did and whatever is being written: a thread the report does
\* not mention, and that is still the thread the audit read, is sound. The race
\* costs false alarms, never a missed one (services/integrity.py).
THEOREM AuditClearsSoundThreads == Spec => []ThreadCleared
  <1>1. SnapshotsInv => ThreadCleared
    BY ClearedIsSound DEF ThreadCleared
  <1> QED
    BY <1>1, SnapshotsHold, PTL

-----------------------------------------------------------------------------
(* Types *)

LEMMA ReportTypes ==
    ASSUME RowsInv, NEW thrs, DOMAIN thrs \subseteq ThreadId,
           NEW msgs, msgs \subseteq messages
    PROVE  LET made == Report(thrs, msgs, events) IN
           /\ \A i \in made.issues : i.thread \in ThreadId /\ i.msg \in Nums(msgs) \cup {None}
           /\ made.sanctioned \subseteq Nums(msgs) \X CloseSanctionKind
           /\ made.unattributable \subseteq Nums(msgs)
  <1> DEFINE made == Report(thrs, msgs, events)
             Typed(i) == i.thread \in ThreadId /\ i.msg \in Nums(msgs) \cup {None}
  <1>1. \A m \in msgs : m.thread \in ThreadId /\ m.num \in Nums(msgs)
    BY DEF RowsInv, Message, Nums
  <1>2. ASSUME NEW some, some \subseteq msgs, NEW type
        PROVE  \A i \in About(type, some) : Typed(i)
    BY <1>1, <1>2 DEF About, Issue
  <1>3. ASSUME NEW some, some \subseteq DOMAIN thrs, NEW type
        PROVE  \A i \in {Issue(type, t, None) : t \in some} : Typed(i)
    BY <1>3 DEF Issue
  <1>4. WrongFirst(thrs, msgs) \subseteq msgs
    <2>1. ASSUME NEW t \in DOMAIN thrs \ Empty(thrs, msgs)
          PROVE  First(msgs, t) \in msgs
      BY FirstIsOldest DEF Empty, InThread, RowsInv
    <2> QED
      BY <2>1 DEF WrongFirst
  <1>5. \A v : ClosesThatAre(v, thrs, msgs, events) \subseteq msgs
    BY DEF ClosesThatAre, NonOwnerCloses
  <1>6. /\ Orphans(thrs, msgs) \subseteq msgs /\ Unanswerable(msgs) \subseteq msgs
        /\ Dangling(thrs, msgs) \subseteq msgs
    BY DEF Orphans, Unanswerable, Dangling
  <1>7. /\ Empty(thrs, msgs) \subseteq DOMAIN thrs /\ Inconsistent(thrs) \subseteq DOMAIN thrs
        /\ StaleKeys(thrs, msgs) \subseteq DOMAIN thrs
    BY DEF Empty, Inconsistent, StaleKeys
  <1>8. \A i \in Issues(thrs, msgs, events) : Typed(i)
    <2> HIDE DEF Typed
    <2> QED
      BY <1>2, <1>3, <1>4, <1>5, <1>6, <1>7 DEF Issues
  <1>9. made.sanctioned \subseteq Nums(msgs) \X CloseSanctionKind
    <2>1. ASSUME NEW m \in msgs, NEW e \in Records(m, events)
          PROVE  e.sanction.kind \in CloseSanctionKind
      BY DEF Records, RowsInv, RecordsUsable
    <2> QED
      BY <1>1, <1>5, <2>1 DEF Report
  <1>10. made.unattributable \subseteq Nums(msgs)
    BY <1>5 DEF Report, Nums
  <1>11. made.issues = Issues(thrs, msgs, events)
    BY DEF Report
  <1> QED
    BY <1>8, <1>9, <1>10, <1>11

LEMMA NextIsNat ==
    ASSUME Numbered
    PROVE  NextNum(messages) \in Nat
  <1>1. PICK n \in Nat : Nums(messages) = 1 .. n
    BY DEF Numbered
  <1> QED
    BY <1>1, NextNumFollows

LEMMA TypesStep == AuditTypeOK /\ SnapshotsInv /\ [Next]_vars => AuditTypeOK'
  <1> SUFFICES ASSUME AuditTypeOK, SnapshotsInv, [Next]_vars PROVE AuditTypeOK'
    OBVIOUS
  <1> USE DEF AuditTypeOK
  <1>1. CASE UNCHANGED audit
    BY <1>1 DEF audit
  <1>2. CASE ReadThreads
    BY <1>2, NextIsNat DEF ReadThreads, SnapshotsInv, RowsInv
  <1>3. CASE ReadMessages
    <2>1. report' = NoReport
      BY <1>3 DEF ReadMessages, SnapshotsInv
    <2> QED
      BY <1>3, <2>1 DEF ReadMessages, SnapshotsInv, RowsInv, NoReport
  <1>4. CASE ReadEvents
    <2>1. seenMessages \subseteq messages
      BY <1>4 DEF ReadEvents, SnapshotsInv, OldMessagesSeen
    <2>2. RowsInv /\ DOMAIN seenThreads \subseteq ThreadId
      BY DEF SnapshotsInv
    <2> QED
      BY <1>4, <2>1, <2>2, ReportTypes DEF ReadEvents
  <1> QED
    BY <1>1, <1>2, <1>3, <1>4 DEF Next, Serve, RawSQL, vars

\* What was read and what is reported has its type.
THEOREM AuditTypes == Spec => []AuditTypeOK
  <1>1. Init => AuditTypeOK
    BY DEF Init, AuditTypeOK, NoReport
  <1> QED
    BY <1>1, TypesStep, SnapshotsHold, PTL DEF Spec

=============================================================================
