-------------------------- MODULE WritePathProofs --------------------------
(***************************************************************************)
(* The concurrent write path implements the ledger, for every number of    *)
(* clients, threads and requests: whatever the interleaving, each commit   *)
(* is one accepted request evaluated on the state it changes, and every    *)
(* other step leaves the tables alone.  The promises of the ledger then    *)
(* hold of the write path.                                                 *)
(*                                                                         *)
(* The invariant behind it: a transaction that holds the row lock has the  *)
(* committed row in its session, a verdict reached under the row lock      *)
(* stays "accepted" until the commit, and what a transaction has written   *)
(* is what the ledger would write now.                                     *)
(*                                                                         *)
(* With what clients were told beside it, that makes the write path        *)
(* linearizable (ChatService); and because both locks have an open         *)
(* transaction behind them and are taken in one order, nobody is stuck.    *)
(*                                                                         *)
(* What clients read of the ledger, and so of the write path, is a chat    *)
(* log (LedgerLog): every accepted request appends one entry that the log  *)
(* allows, and nothing else changes it.  That rests on the ledger's        *)
(* invariant: ids are dense, a thread that exists has messages, its        *)
(* propose is its first and its close its last.  And the texts of the ids  *)
(* are counted on like the numbers (LedgerIds): a number that was          *)
(* formatted is read back, whatever its width.                             *)
(***************************************************************************)
EXTENDS WritePath, LedgerProofs, LedgerLog, LedgerIds,
        FiniteSetTheorems, SequenceTheorems, WellFoundedInduction

Busy(c) == pc[c] \in Waiting \cup Holding

HoldsRow(c) ==
    req[c].kind # "open" /\ pc[c] \in {"check", "lock_project", "write", "commit"}

\* What a transaction is about to commit.
Pending(c) ==
    LET r == req[c]
        n == NextNum(messages)
        row == threads[r.thread] IN
    /\ inserted[c] = {NewMessage(r, n)}
    /\ r.kind = "open" => /\ r.thread \notin DOMAIN threads
                          /\ logged[c] = {OpenEvent(r, n)}
                          /\ view[c] = OpenedThread(r, n)
    /\ r.kind # "open" => /\ ~CloseRefused(row, r)
                          /\ logged[c] = NewEvents(row, r, n)
                          /\ view[c] = ThreadAfter(row, r, n)

Accepted(c) ==
    Verdict(threads[req[c].thread], req[c], messages, threads) = "accepted"

ClientInv(c) ==
    /\ Busy(c) => req[c] \in Requests
    /\ pc[c] \in {"lock_thread", "check"} => req[c].kind # "open"
    /\ pc[c] \in {"write", "commit"} => projectLock = c
    /\ HoldsRow(c) => rowLock[req[c].thread] = c
    /\ Busy(c) /\ req[c].kind # "open" => req[c].thread \in DOMAIN threads
    /\ HoldsRow(c) /\ pc[c] # "commit" => view[c] = threads[req[c].thread]
    /\ HoldsRow(c) /\ pc[c] # "check" => Accepted(c)
    /\ pc[c] = "commit" => Pending(c)

SessionTypeOK ==
    /\ pc \in [Client -> Waiting \cup Holding \cup {"idle", "done"}]
    /\ req \in [Client -> Requests \cup {None}]
    /\ view \in [Client -> Thread \cup {None}]
    /\ inserted \in [Client -> SUBSET Message]
    /\ logged \in [Client -> SUBSET Event]
    /\ rowLock \in [ThreadId -> Client \cup {None}]
    /\ projectLock \in Client \cup {None}
    /\ reply \in [Client -> Outcome \cup {None}]

PathInv ==
    /\ LedgerInv
    /\ SessionTypeOK
    /\ \A c \in Client : ClientInv(c)

-----------------------------------------------------------------------------
(* Types *)

LEMMA NextNumType ==
    ASSUME LedgerInv
    PROVE  NextNum(messages) \in Nat
  <1>1. PICK n \in Nat : Nums(messages) = 1 .. n
    BY DEF LedgerInv, Numbered
  <1> QED
    BY <1>1, NextNumFollows

LEMMA VerdictType ==
    ASSUME NEW row, NEW r, NEW msgs, NEW thrs
    PROVE  Verdict(row, r, msgs, thrs)
             \in {"accepted", "thread_resolved", "integrity", "unprocessable"}
  BY DEF Verdict

LEMMA EndTypes ==
    ASSUME SessionTypeOK, NEW c \in Client, NEW outcome \in Outcome, End(c, outcome)
    PROVE  SessionTypeOK'
  <1>1. /\ pc' \in [Client -> Waiting \cup Holding \cup {"idle", "done"}]
        /\ req' \in [Client -> Requests \cup {None}]
        /\ view' \in [Client -> Thread \cup {None}]
        /\ inserted' \in [Client -> SUBSET Message]
        /\ logged' \in [Client -> SUBSET Event]
        /\ reply' \in [Client -> Outcome \cup {None}]
    BY DEF End, SessionTypeOK
  <1>2. rowLock' \in [ThreadId -> Client \cup {None}]
    BY DEF End, SessionTypeOK
  <1>3. projectLock' \in Client \cup {None}
    BY DEF End, SessionTypeOK
  <1> QED
    BY <1>1, <1>2, <1>3 DEF SessionTypeOK

LEMMA SessionTypes ==
    ASSUME LedgerInv, SessionTypeOK, \A c \in Client : ClientInv(c), [Next]_vars
    PROVE  SessionTypeOK'
  <1> USE DEF SessionTypeOK
  <1>1. ASSUME NEW c \in Client, NEW r \in Requests, Fetch(c, r)
        PROVE  SessionTypeOK'
    BY <1>1 DEF Fetch, Start, Waiting, locks, LedgerInv, LedgerTypeOK
  <1>2. ASSUME NEW c \in Client, NEW r \in Requests, FetchRefused(c, r)
        PROVE  SessionTypeOK'
    BY <1>2 DEF FetchRefused, Start, Outcome, locks
  <1>3. ASSUME NEW c \in Client, NEW r \in Requests, CheckAbsent(c, r)
        PROVE  SessionTypeOK'
    BY <1>3 DEF CheckAbsent, Start, Waiting, locks
  <1>4. ASSUME NEW c \in Client, NEW r \in Requests, OpenRefused(c, r)
        PROVE  SessionTypeOK'
    BY <1>4 DEF OpenRefused, Start, Outcome, locks
  <1>5. ASSUME NEW c \in Client, LockThread(c)
        PROVE  SessionTypeOK'
    <2>1. /\ req[c] \in Requests /\ req[c].thread \in DOMAIN threads
      BY <1>5 DEF LockThread, ClientInv, Busy, Waiting
    <2>2. threads[req[c].thread] \in Thread
      BY <2>1 DEF LedgerInv, LedgerTypeOK
    <2> QED
      BY <1>5, <2>2 DEF LockThread, Holding
  <1>6. ASSUME NEW c \in Client, Check(c)
        PROVE  SessionTypeOK'
    BY <1>6 DEF Check, Waiting, locks
  <1>7. ASSUME NEW c \in Client, CheckRefused(c)
        PROVE  SessionTypeOK'
    BY <1>7, VerdictType, EndTypes DEF CheckRefused, Rollback, Outcome
  <1>8. ASSUME NEW c \in Client, LockProject(c)
        PROVE  SessionTypeOK'
    BY <1>8 DEF LockProject, Holding
  <1>9. ASSUME NEW c \in Client, Write(c)
        PROVE  SessionTypeOK'
    <2> DEFINE n == NextNum(messages)
    <2>1. n \in Nat /\ req[c] \in Requests
      BY <1>9, NextNumType DEF Write, ClientInv, Busy, Holding
    <2>2. view[c] \in Thread
      BY <1>9 DEF Write, ClientInv, HoldsRow, Busy, Holding, LedgerInv, LedgerTypeOK
    <2>3. /\ NewMessage(req[c], n) \in Message
          /\ NewEvents(view[c], req[c], n) \subseteq Event
          /\ ThreadAfter(view[c], req[c], n) \in Thread
      BY <2>1, <2>2, NewMessageType, NewEventsType, ThreadAfterType
    <2> QED
      BY <1>9, <2>3 DEF Write, Holding, locks
  <1>10. ASSUME NEW c \in Client, WriteRefused(c)
         PROVE  SessionTypeOK'
    BY <1>10, EndTypes DEF WriteRefused, Rollback, Outcome
  <1>11. ASSUME NEW c \in Client, WriteOpen(c)
         PROVE  SessionTypeOK'
    <2> DEFINE n == NextNum(messages)
    <2>1. n \in Nat /\ req[c] \in Requests
      BY <1>11, NextNumType DEF WriteOpen, ClientInv, Busy, Holding
    <2>2. /\ NewMessage(req[c], n) \in Message
          /\ OpenEvent(req[c], n) \in Event
          /\ OpenedThread(req[c], n) \in Thread
      BY <2>1, NewMessageType, OpenEventType, OpenedThreadType
    <2> QED
      BY <1>11, <2>2 DEF WriteOpen, Holding, locks
  <1>12. ASSUME NEW c \in Client, WriteOpenRefused(c)
         PROVE  SessionTypeOK'
    BY <1>12, EndTypes DEF WriteOpenRefused, Rollback, Outcome
  <1>13. ASSUME NEW c \in Client, Commit(c)
         PROVE  SessionTypeOK'
    BY <1>13, EndTypes DEF Commit, Outcome
  <1>14. ASSUME NEW c \in Client, Crash(c)
         PROVE  SessionTypeOK'
    BY <1>14, EndTypes DEF Crash, Rollback, Outcome
  <1>15. ASSUME UNCHANGED <<session, locks>>
         PROVE  SessionTypeOK'
    BY <1>15 DEF session, locks
  <1> QED
    BY <1>1, <1>2, <1>3, <1>4, <1>5, <1>6, <1>7, <1>8, <1>9, <1>10, <1>11,
       <1>12, <1>13, <1>14, <1>15
       DEF Next, Begin, Step, OperatorUpdate, Finished, vars

-----------------------------------------------------------------------------
(* What one client does leaves the others' invariant alone *)

\* A verdict depends on the thread row, on the messages of its thread and on
\* which threads exist; nothing posted elsewhere can spoil it.
LEMMA VerdictStable ==
    ASSUME NEW row, NEW r, NEW msgs1, NEW msgs2, NEW thrs1, NEW thrs2,
           InThread(msgs1, r.thread) = InThread(msgs2, r.thread),
           DOMAIN thrs1 \subseteq DOMAIN thrs2,
           Verdict(row, r, msgs1, thrs1) = "accepted"
    PROVE  Verdict(row, r, msgs2, thrs2) = "accepted"
  <1>1. /\ ThreadWritable(row)
        /\ IntegrityAsserts(row, r, msgs1, thrs1)
        /\ SanctionEvidence(r, msgs1)
    BY AcceptedPassed
  <1>2. IntegrityAsserts(row, r, msgs2, thrs2)
    BY <1>1 DEF IntegrityAsserts, ProposeInvariant, ReplyToInThread, ReferencesExist
  <1>3. SanctionEvidence(r, msgs2)
    BY <1>1 DEF SanctionEvidence
  <1> QED
    BY <1>1, <1>2, <1>3 DEF Verdict

\* The part of the state that is d's own.
Undisturbed(d) ==
    /\ pc'[d] = pc[d] /\ req'[d] = req[d] /\ view'[d] = view[d]
    /\ inserted'[d] = inserted[d] /\ logged'[d] = logged[d]
    /\ \A t \in ThreadId : rowLock[t] = d => rowLock'[t] = d
    /\ projectLock = d => projectLock' = d

LEMMA UndisturbedKeeps ==
    ASSUME NEW d \in Client, LedgerInv, ClientInv(d), Undisturbed(d), UNCHANGED ledger
    PROVE  ClientInv(d)'
  <1>1. threads' = threads /\ messages' = messages /\ events' = events
    BY DEF ledger
  <1>2. HoldsRow(d) => req[d].thread \in ThreadId
    BY DEF HoldsRow, ClientInv, Busy, Waiting, Holding, LedgerInv, LedgerTypeOK
  <1> QED
    BY <1>1, <1>2
       DEF Undisturbed, ClientInv, Busy, HoldsRow, Accepted, Pending

LEMMA EndUndisturbs ==
    ASSUME SessionTypeOK, NEW c \in Client, NEW d \in Client, d # c,
           NEW outcome, End(c, outcome)
    PROVE  Undisturbed(d)
  BY DEF End, SessionTypeOK, Undisturbed

\* Only the holder of the project lock can be about to commit.
LEMMA CommitKeepsOthers ==
    ASSUME PathInv, NEW c \in Client, NEW d \in Client, d # c, Commit(c)
    PROVE  ClientInv(d)'
  <1> DEFINE t == req[d].thread
  <1>1. pc[c] = "commit" /\ projectLock = c /\ ClientInv(d) /\ Pending(c)
    BY DEF Commit, PathInv, ClientInv
  <1>2. pc[d] \notin {"write", "commit"}
    BY <1>1 DEF ClientInv
  <1>3. Undisturbed(d)
    BY EndUndisturbs DEF Commit, PathInv
  <1>4. req[c] \in Requests /\ req[c].thread \in ThreadId
    BY <1>1, RequestFields DEF PathInv, ClientInv, Busy, Holding, Request
  <1>5. /\ threads' = Put(threads, req[c].thread, view[c])
        /\ messages' = messages \cup {NewMessage(req[c], NextNum(messages))}
    BY <1>1 DEF Commit, Pending
  <1>6. /\ DOMAIN threads \subseteq DOMAIN threads'
        /\ \A k \in DOMAIN threads : k # req[c].thread => threads'[k] = threads[k]
    BY <1>5 DEF Put
  <1>7. ASSUME HoldsRow(d)
        PROVE  t # req[c].thread /\ t \in DOMAIN threads /\ rowLock[t] = d /\ t \in ThreadId
    <2>1. t \in DOMAIN threads /\ rowLock[t] = d
      BY <1>1, <1>7 DEF ClientInv, HoldsRow, Busy, Waiting, Holding
    <2>2. CASE req[c].kind = "open"
      BY <1>1, <2>1, <2>2 DEF Pending, PathInv, LedgerInv, LedgerTypeOK
    <2>3. CASE req[c].kind # "open"
      <3>1. rowLock[req[c].thread] = c
        BY <1>1, <2>3 DEF PathInv, ClientInv, HoldsRow
      <3> QED
        BY <2>1, <3>1 DEF PathInv, LedgerInv, LedgerTypeOK
    <2> QED
      BY <2>2, <2>3
  <1>8. ASSUME HoldsRow(d)
        PROVE  threads'[t] = threads[t] /\ InThread(messages', t) = InThread(messages, t)
    <2>1. NewMessage(req[c], NextNum(messages)).thread = req[c].thread
      BY DEF NewMessage
    <2> QED
      BY <1>5, <1>6, <1>7, <1>8, <2>1 DEF InThread
  <1>9. ASSUME HoldsRow(d), pc[d] # "check"
        PROVE  Accepted(d)'
    <2>1. Accepted(d)
      BY <1>1, <1>9 DEF ClientInv
    <2>2. req'[d] = req[d]
      BY <1>3 DEF Undisturbed
    <2>3. Verdict(threads[t], req[d], messages, threads) = "accepted"
      BY <2>1 DEF Accepted
    <2>4. InThread(messages, req[d].thread) = InThread(messages', req[d].thread)
      BY <1>8, <1>9
    <2>5. Verdict(threads[t], req[d], messages', threads') = "accepted"
      BY <1>6, <2>3, <2>4, VerdictStable
    <2> QED
      BY <1>8, <1>9, <2>2, <2>5 DEF Accepted
  <1>10. (HoldsRow(d)' <=> HoldsRow(d)) /\ (Busy(d)' <=> Busy(d))
    BY <1>3 DEF Undisturbed, HoldsRow, Busy
  <1> QED
    BY <1>1, <1>2, <1>3, <1>6, <1>7, <1>8, <1>9, <1>10 DEF ClientInv, Undisturbed

\* An operator's UPDATE does not get past the lock of a running transaction.
LEMMA OperatorKeepsClients ==
    ASSUME PathInv, NEW d \in Client, NEW k \in ThreadId, NEW s \in OperatorStatuses,
           OperatorUpdate(k, s)
    PROVE  ClientInv(d)'
  <1> DEFINE t == req[d].thread
  <1>1. /\ rowLock[k] = None
        /\ threads' = [threads EXCEPT ![k].status = s]
        /\ messages' = messages
        /\ ClientInv(d)
    BY DEF OperatorUpdate, SetAside, PathInv
  <1>2. /\ pc' = pc /\ req' = req /\ view' = view /\ inserted' = inserted
        /\ logged' = logged /\ rowLock' = rowLock /\ projectLock' = projectLock
    BY DEF OperatorUpdate, session, locks
  <1>3. DOMAIN threads' = DOMAIN threads
    BY <1>1
  <1>4. HoldsRow(d) => threads'[t] = threads[t]
    <2>1. HoldsRow(d) => t # k
      BY <1>1, ClientAssumption DEF ClientInv
    <2> QED
      BY <1>1, <2>1
  <1>5. HoldsRow(d) /\ pc[d] # "check" => Accepted(d)'
    <2> SUFFICES ASSUME HoldsRow(d), pc[d] # "check" PROVE Accepted(d)'
      OBVIOUS
    <2>1. Verdict(threads[t], req[d], messages, threads) = "accepted"
      BY <1>1 DEF ClientInv, Accepted
    <2>2. Verdict(threads[t], req[d], messages', threads') = "accepted"
      <3>1. messages' = messages /\ DOMAIN threads \subseteq DOMAIN threads'
        BY <1>1, <1>3
      <3> QED
        BY <2>1, <3>1, VerdictStable
    <2>3. threads'[t] = threads[t] /\ req'[d] = req[d]
      BY <1>2, <1>4
    <2> QED
      BY <2>2, <2>3 DEF Accepted
  <1>6. pc[d] = "commit" => Pending(d)'
    BY <1>1, <1>2, <1>3, <1>4 DEF ClientInv, Pending, HoldsRow
  <1> QED
    BY <1>1, <1>2, <1>3, <1>4, <1>5, <1>6 DEF ClientInv, HoldsRow, Busy

-----------------------------------------------------------------------------
(* A client's own steps *)

LEMMA BeginKeepsClients ==
    ASSUME PathInv, NEW c \in Client, NEW r \in Requests, Begin(c, r), NEW d \in Client
    PROVE  ClientInv(d)'
  <1>1. UNCHANGED ledger /\ UNCHANGED locks /\ pc[c] = "idle"
    BY DEF Begin, Fetch, FetchRefused, CheckAbsent, OpenRefused, Start
  <1>2. CASE d # c
    <2>1. Undisturbed(d)
      BY <1>1, <1>2 DEF Begin, Fetch, FetchRefused, CheckAbsent, OpenRefused, Start,
                        locks, Undisturbed, PathInv, SessionTypeOK
    <2> QED
      BY <1>1, <2>1, UndisturbedKeeps DEF PathInv
  <1>3. CASE d = c
    <2>1. threads' = threads
      BY <1>1 DEF ledger
    <2>2. CASE Fetch(c, r)
      <3>1. /\ pc'[c] = "lock_thread" /\ req'[c] = r
            /\ r.kind # "open" /\ r.thread \in DOMAIN threads
        BY <2>2 DEF Fetch, Start, PathInv, SessionTypeOK
      <3> QED
        BY <1>3, <2>1, <3>1 DEF ClientInv, HoldsRow
    <2>3. CASE FetchRefused(c, r) \/ OpenRefused(c, r)
      <3>1. pc'[c] = "done"
        BY <2>3 DEF FetchRefused, OpenRefused, Start, PathInv, SessionTypeOK
      <3> QED
        BY <1>3, <3>1 DEF ClientInv, HoldsRow, Busy, Waiting, Holding
    <2>4. CASE CheckAbsent(c, r)
      <3>1. pc'[c] = "lock_project" /\ req'[c] = r /\ r.kind = "open"
        BY <2>4 DEF CheckAbsent, Start, PathInv, SessionTypeOK
      <3> QED
        BY <1>3, <3>1 DEF ClientInv, HoldsRow
    <2> QED
      BY <2>2, <2>3, <2>4 DEF Begin
  <1> QED
    BY <1>2, <1>3

\* The end of a transaction keeps the invariant of the client that ends.
LEMMA EndedClient ==
    ASSUME SessionTypeOK, NEW c \in Client, NEW outcome, End(c, outcome)
    PROVE  ClientInv(c)'
  <1>1. pc'[c] = "done"
    BY DEF End, SessionTypeOK
  <1> QED
    BY <1>1 DEF ClientInv, HoldsRow, Busy, Waiting, Holding

LEMMA RollbackKeepsClients ==
    ASSUME PathInv, NEW c \in Client, NEW outcome, Rollback(c, outcome), NEW d \in Client
    PROVE  ClientInv(d)'
  <1>1. CASE d = c
    BY <1>1, EndedClient DEF Rollback, PathInv
  <1>2. CASE d # c
    <2>1. Undisturbed(d)
      BY <1>2, EndUndisturbs DEF Rollback, PathInv
    <2> QED
      BY <2>1, UndisturbedKeeps DEF Rollback, PathInv
  <1> QED
    BY <1>1, <1>2

LEMMA LockThreadKeepsClients ==
    ASSUME PathInv, NEW c \in Client, LockThread(c), NEW d \in Client
    PROVE  ClientInv(d)'
  <1> DEFINE t == req[c].thread
  <1>1. /\ req[c] \in Requests /\ req[c].kind # "open" /\ t \in DOMAIN threads
        /\ t \in ThreadId
    BY DEF LockThread, PathInv, ClientInv, Busy, Waiting, LedgerInv, LedgerTypeOK
  <1>2. threads' = threads /\ rowLock[t] = None
    BY DEF LockThread, ledger
  <1>3. CASE d = c
    <2>1. /\ pc'[c] = "check" /\ req'[c] = req[c]
          /\ view'[c] = threads[t] /\ rowLock'[t] = c
      BY <1>1 DEF LockThread, PathInv, SessionTypeOK
    <2> QED
      BY <1>1, <1>2, <1>3, <2>1 DEF ClientInv, HoldsRow
  <1>4. CASE d # c
    <2>1. Undisturbed(d)
      BY <1>2, <1>4, ClientAssumption DEF LockThread, Undisturbed, PathInv, SessionTypeOK
    <2> QED
      BY <2>1, UndisturbedKeeps DEF LockThread, PathInv
  <1> QED
    BY <1>3, <1>4

LEMMA CheckKeepsClients ==
    ASSUME PathInv, NEW c \in Client, Check(c), NEW d \in Client
    PROVE  ClientInv(d)'
  <1>1. threads' = threads /\ messages' = messages /\ rowLock' = rowLock
    BY DEF Check, ledger, locks
  <1>2. CASE d = c
    <2>1. /\ pc[c] = "check" /\ pc'[c] = "lock_project"
          /\ req'[c] = req[c] /\ view'[c] = view[c]
      BY DEF Check, PathInv, SessionTypeOK
    <2>2. /\ ClientInv(c) /\ HoldsRow(c) /\ Busy(c) /\ view[c] = threads[req[c].thread]
      BY <2>1 DEF PathInv, ClientInv, HoldsRow, Busy, Holding
    <2>3. Accepted(c)
      BY <2>2 DEF Check, Accepted
    <2>4. Accepted(c)'
      BY <1>1, <2>1, <2>3 DEF Accepted
    <2> QED
      BY <1>1, <1>2, <2>1, <2>2, <2>4 DEF ClientInv, HoldsRow, Busy
  <1>3. CASE d # c
    <2>1. Undisturbed(d)
      BY <1>3 DEF Check, locks, Undisturbed, PathInv, SessionTypeOK
    <2> QED
      BY <2>1, UndisturbedKeeps DEF Check, PathInv
  <1> QED
    BY <1>2, <1>3

LEMMA LockProjectKeepsClients ==
    ASSUME PathInv, NEW c \in Client, LockProject(c), NEW d \in Client
    PROVE  ClientInv(d)'
  <1>1. threads' = threads /\ messages' = messages /\ rowLock' = rowLock
    BY DEF LockProject, ledger
  <1>2. CASE d = c
    <2>1. /\ pc[c] = "lock_project" /\ pc'[c] = "write" /\ projectLock' = c
          /\ req'[c] = req[c] /\ view'[c] = view[c]
      BY DEF LockProject, PathInv, SessionTypeOK
    <2>2. ClientInv(c) /\ Busy(c)
      BY <2>1 DEF PathInv, Busy, Waiting
    <2>3. HoldsRow(c)' <=> HoldsRow(c)
      BY <2>1 DEF HoldsRow
    <2>4. Accepted(c)' <=> Accepted(c)
      BY <1>1, <2>1 DEF Accepted
    <2> QED
      BY <1>1, <1>2, <2>1, <2>2, <2>3, <2>4 DEF ClientInv, Busy
  <1>3. CASE d # c
    <2>1. Undisturbed(d)
      BY <1>3, ClientAssumption DEF LockProject, Undisturbed, PathInv, SessionTypeOK
    <2> QED
      BY <2>1, UndisturbedKeeps DEF LockProject, PathInv
  <1> QED
    BY <1>2, <1>3

LEMMA WriteKeepsClients ==
    ASSUME PathInv, NEW c \in Client, Write(c) \/ WriteOpen(c), NEW d \in Client
    PROVE  ClientInv(d)'
  <1>1. /\ threads' = threads /\ messages' = messages /\ rowLock' = rowLock
        /\ projectLock' = projectLock /\ req' = req
    BY DEF Write, WriteOpen, ledger, locks
  <1>2. pc[c] = "write" /\ pc'[c] = "commit"
    BY DEF Write, WriteOpen, PathInv, SessionTypeOK
  <1>3. CASE d = c
    <2> DEFINE r == req[c]
               n == NextNum(messages)
               row == threads[r.thread]
    <2>1. ClientInv(c) /\ Busy(c) /\ Busy(c)'
      BY <1>2 DEF PathInv, Busy, Holding
    <2>2. /\ HoldsRow(c)' <=> HoldsRow(c)
          /\ HoldsRow(c) <=> r.kind # "open"
      BY <1>1, <1>2 DEF HoldsRow
    <2>3. Accepted(c)' <=> Accepted(c)
      BY <1>1 DEF Accepted
    <2>4. CASE Write(c)
      <3>1. r.kind # "open" /\ view[c] = row
        BY <1>2, <2>1, <2>2, <2>4 DEF Write, ClientInv
      <3>2. /\ ~CloseRefused(row, r)
            /\ inserted'[c] = {NewMessage(r, n)}
            /\ logged'[c] = NewEvents(row, r, n)
            /\ view'[c] = ThreadAfter(row, r, n)
        BY <2>4, <3>1 DEF Write, PathInv, SessionTypeOK
      <3>3. Pending(c)'
        BY <1>1, <3>1, <3>2 DEF Pending
      <3> QED
        BY <1>1, <1>2, <1>3, <2>1, <2>2, <2>3, <3>3 DEF ClientInv
    <2>5. CASE WriteOpen(c)
      <3>1. /\ r.kind = "open" /\ r.thread \notin DOMAIN threads
            /\ inserted'[c] = {NewMessage(r, n)}
            /\ logged'[c] = {OpenEvent(r, n)}
            /\ view'[c] = OpenedThread(r, n)
        BY <2>5 DEF WriteOpen, PathInv, SessionTypeOK
      <3>2. Pending(c)'
        BY <1>1, <3>1 DEF Pending
      <3> QED
        BY <1>1, <1>2, <1>3, <2>1, <2>2, <2>3, <3>2 DEF ClientInv
    <2> QED
      BY <2>4, <2>5
  <1>4. CASE d # c
    <2>1. Undisturbed(d)
      BY <1>1, <1>4 DEF Write, WriteOpen, Undisturbed, PathInv, SessionTypeOK
    <2> QED
      BY <2>1, UndisturbedKeeps DEF Write, WriteOpen, PathInv
  <1> QED
    BY <1>3, <1>4

LEMMA StepKeepsClients ==
    ASSUME PathInv, NEW c \in Client, Step(c) \/ Crash(c), NEW d \in Client
    PROVE  ClientInv(d)'
  <1>1. CASE CheckRefused(c) \/ WriteRefused(c) \/ WriteOpenRefused(c) \/ Crash(c)
    BY <1>1, RollbackKeepsClients DEF CheckRefused, WriteRefused, WriteOpenRefused, Crash
  <1>2. CASE Commit(c)
    <2>1. CASE d = c
      BY <1>2, <2>1, EndedClient DEF Commit, PathInv
    <2>2. CASE d # c
      BY <1>2, <2>2, CommitKeepsOthers
    <2> QED
      BY <2>1, <2>2
  <1> QED
    BY <1>1, <1>2, LockThreadKeepsClients, CheckKeepsClients, LockProjectKeepsClients,
       WriteKeepsClients DEF Step

-----------------------------------------------------------------------------
(* Every step is a step of the ledger, or none *)

LEMMA CommitIsOneRequest ==
    ASSUME PathInv, NEW c \in Client, Commit(c)
    PROVE  req[c] \in Requests /\ (OpenThread(req[c]) \/ AppendMessage(req[c]))
  <1> DEFINE r == req[c]
             n == NextNum(messages)
             row == threads[r.thread]
  <1>1. pc[c] = "commit" /\ ClientInv(c) /\ r \in Requests /\ Pending(c)
    BY DEF Commit, PathInv, ClientInv, Busy, Holding
  <1>2. /\ threads' = Put(threads, r.thread, view[c])
        /\ messages' = messages \cup {NewMessage(r, n)}
        /\ events' = events \cup logged[c]
    BY <1>1 DEF Commit, Pending
  <1>3. CASE r.kind = "open"
    <2>1. OpenThread(r)
      BY <1>1, <1>2, <1>3 DEF Pending, OpenThread
    <2> QED
      BY <1>1, <2>1
  <1>4. CASE r.kind # "open"
    <2>1. /\ r.thread \in DOMAIN threads
          /\ Verdict(row, r, messages, threads) = "accepted"
      BY <1>1, <1>4 DEF ClientInv, Busy, Holding, HoldsRow, Accepted
    <2>2. /\ ~CloseRefused(row, r)
          /\ logged[c] = NewEvents(row, r, n)
          /\ view[c] = ThreadAfter(row, r, n)
      BY <1>1, <1>4 DEF Pending
    <2>3. AppendMessage(r)
      BY <1>2, <1>4, <2>1, <2>2 DEF AppendMessage
    <2> QED
      BY <1>1, <2>3
  <1> QED
    BY <1>3, <1>4

LEMMA StepIsLedgerStep ==
    ASSUME PathInv, [Next]_vars
    PROVE  [LedgerNext]_ledger
  <1>1. ASSUME NEW c \in Client, NEW r \in Requests, Begin(c, r)
        PROVE  UNCHANGED ledger
    BY <1>1 DEF Begin, Fetch, FetchRefused, CheckAbsent, OpenRefused
  <1>2. ASSUME NEW c \in Client, Step(c) \/ Crash(c)
        PROVE  [LedgerNext]_ledger
    <2>1. CASE Commit(c)
      BY <2>1, CommitIsOneRequest DEF LedgerNext
    <2>2. CASE ~Commit(c)
      BY <1>2, <2>2 DEF Step, Crash, LockThread, Check, CheckRefused, LockProject, Write,
                 WriteRefused, WriteOpen, WriteOpenRefused, Rollback
    <2> QED
      BY <2>1, <2>2
  <1>3. ASSUME NEW t \in ThreadId, NEW s \in OperatorStatuses, OperatorUpdate(t, s)
        PROVE  LedgerNext
    BY <1>3 DEF OperatorUpdate, LedgerNext
  <1>4. CASE UNCHANGED vars
    BY <1>4 DEF vars
  <1> QED
    BY <1>1, <1>2, <1>3, <1>4 DEF Next, Finished

LEMMA PathInvStep ==
    ASSUME PathInv, [Next]_vars
    PROVE  PathInv'
  <1>1. LedgerInv'
    BY StepIsLedgerStep, OpenPreserves, AppendPreserves, SetAsidePreserves, StutterPreserves
       DEF LedgerNext, PathInv
  <1>2. SessionTypeOK'
    BY SessionTypes DEF PathInv
  <1>3. ASSUME NEW d \in Client
        PROVE  ClientInv(d)'
    <2>1. CASE UNCHANGED vars
      <3>1. Undisturbed(d) /\ UNCHANGED ledger
        BY <2>1 DEF vars, session, locks, Undisturbed
      <3> QED
        BY <3>1, UndisturbedKeeps DEF PathInv
    <2> QED
      BY <2>1, BeginKeepsClients, StepKeepsClients, OperatorKeepsClients DEF Next, Finished
  <1> QED
    BY <1>1, <1>2, <1>3 DEF PathInv

LEMMA PathInvInit == Init => PathInv
  <1> SUFFICES ASSUME Init PROVE PathInv
    OBVIOUS
  <1>1. LedgerInv
    BY LedgerInitInv DEF Init
  <1>2. SessionTypeOK
    BY DEF Init, SessionTypeOK
  <1>3. ASSUME NEW c \in Client
        PROVE  ClientInv(c)
    <2>1. pc[c] = "idle"
      BY DEF Init
    <2> QED
      BY <2>1 DEF ClientInv, HoldsRow, Busy, Waiting, Holding
  <1> QED
    BY <1>1, <1>2, <1>3 DEF PathInv

LEMMA PathInvHolds == Spec => []PathInv
  <1> QED
    BY PathInvInit, PathInvStep, PTL DEF Spec

-----------------------------------------------------------------------------
(* The theorems *)

\* All the state of the write path keeps its types.
THEOREM PathTypes == Spec => []TypeOK
  <1>1. PathInv => TypeOK
    BY DEF PathInv, LedgerInv, SessionTypeOK, TypeOK
  <1> QED
    BY <1>1, PathInvHolds, PTL

\* What a transaction is about to commit was computed from the state it
\* commits to: its number is free, its thread row is current, and every assert
\* would still pass.
THEOREM PathNothingOvertaken == Spec => []NothingOvertaken
  <1>1. PathInv => NothingOvertaken
    <2> SUFFICES ASSUME PathInv, NEW c \in Client, pc[c] = "commit"
                 PROVE  LET r == req[c]
                            n == NextNum(messages) IN
                        /\ inserted[c] = {NewMessage(r, n)}
                        /\ IF r.kind = "open"
                           THEN r.thread \notin DOMAIN threads
                           ELSE /\ r.thread \in DOMAIN threads
                                /\ Verdict(threads[r.thread], r, messages, threads) = "accepted"
                                /\ ~CloseRefused(threads[r.thread], r)
                                /\ view[c] = ThreadAfter(threads[r.thread], r, n)
      BY DEF NothingOvertaken
    <2> QED
      BY DEF PathInv, ClientInv, HoldsRow, Busy, Holding, Pending, Accepted
  <1> QED
    BY <1>1, PathInvHolds, PTL

\* The write path implements the ledger: whole requests, one at a time.
THEOREM WritePathImplementsLedger == Spec => LedgerSpec
  <1>1. Init => LedgerInit
    BY DEF Init
  <1>2. PathInv /\ [Next]_vars => [LedgerNext]_ledger
    BY StepIsLedgerStep
  <1> QED
    BY <1>1, <1>2, PathInvHolds, PTL DEF Spec, LedgerSpec

-----------------------------------------------------------------------------
(* Nobody waits for ever: a lock has an open transaction behind it *)

LocksHeld ==
    /\ \A t \in ThreadId : rowLock[t] # None =>
         HoldsRow(rowLock[t]) /\ req[rowLock[t]].thread = t
    /\ projectLock # None => pc[projectLock] \in {"write", "commit"}

LEMMA EndReleases ==
    ASSUME PathInv, LocksHeld, NEW c \in Client, NEW outcome, End(c, outcome)
    PROVE  LocksHeld'
  <1>1. ASSUME NEW d \in Client, d # c
        PROVE  pc'[d] = pc[d] /\ req'[d] = req[d]
    BY <1>1 DEF End, PathInv, SessionTypeOK
  <1>2. ASSUME NEW t \in ThreadId, rowLock'[t] # None
        PROVE  HoldsRow(rowLock[t])' /\ req'[rowLock'[t]].thread = t /\ rowLock'[t] = rowLock[t]
    <2>1. rowLock'[t] = rowLock[t] /\ rowLock[t] # c /\ rowLock[t] \in Client
      BY <1>2 DEF End, PathInv, SessionTypeOK
    <2> QED
      BY <1>1, <1>2, <2>1 DEF LocksHeld, HoldsRow, End
  <1>3. projectLock' # None => pc'[projectLock'] \in {"write", "commit"}
    <2> SUFFICES ASSUME projectLock' # None PROVE pc'[projectLock'] \in {"write", "commit"}
      OBVIOUS
    <2>1. projectLock' = projectLock /\ projectLock # c /\ projectLock \in Client
      BY DEF End, PathInv, SessionTypeOK
    <2> QED
      BY <1>1, <2>1 DEF LocksHeld
  <1> QED
    BY <1>2, <1>3 DEF LocksHeld, HoldsRow

LEMMA LocksStep ==
    ASSUME PathInv, LocksHeld, [Next]_vars
    PROVE  LocksHeld'
  <1> USE DEF PathInv, SessionTypeOK
  <1>1. ASSUME NEW c \in Client, NEW r \in Requests, Begin(c, r)
        PROVE  LocksHeld'
    <2>1. pc[c] = "idle" /\ UNCHANGED locks
      BY <1>1 DEF Begin, Fetch, FetchRefused, CheckAbsent, OpenRefused, Start
    <2>2. \A d \in Client : d # c => pc'[d] = pc[d] /\ req'[d] = req[d]
      BY <1>1 DEF Begin, Fetch, FetchRefused, CheckAbsent, OpenRefused, Start
    <2> QED
      BY <2>1, <2>2 DEF LocksHeld, HoldsRow, locks
  <1>2. ASSUME NEW c \in Client, LockThread(c)
        PROVE  LocksHeld'
    <2> DEFINE t == req[c].thread
    <2>1. /\ pc[c] = "lock_thread" /\ rowLock[t] = None /\ UNCHANGED <<req, projectLock>>
          /\ pc' = [pc EXCEPT ![c] = "check"] /\ rowLock' = [rowLock EXCEPT ![t] = c]
      BY <1>2 DEF LockThread
    <2>2. t \in ThreadId /\ req[c].kind # "open"
      BY <2>1 DEF ClientInv, Busy, Waiting, LedgerInv, LedgerTypeOK
    <2>3. pc'[c] = "check" /\ rowLock'[t] = c
      BY <2>1, <2>2
    <2>4. \A d \in Client : d # c => pc'[d] = pc[d]
      BY <2>1
    <2>5. \A u \in ThreadId : u # t => rowLock'[u] = rowLock[u]
      BY <2>1
    <2>6. ASSUME NEW u \in ThreadId, rowLock'[u] # None
          PROVE  HoldsRow(rowLock[u])' /\ req'[rowLock'[u]].thread = u
      <3>1. CASE u = t
        BY <2>1, <2>2, <2>3, <3>1 DEF HoldsRow
      <3>2. CASE u # t
        <4>1. HoldsRow(rowLock[u]) /\ req[rowLock[u]].thread = u /\ rowLock'[u] = rowLock[u]
          BY <2>5, <2>6, <3>2 DEF LocksHeld
        <4>2. rowLock[u] # c /\ rowLock[u] \in Client
          BY <2>1, <2>6, <4>1 DEF HoldsRow
        <4> QED
          BY <2>1, <2>4, <4>1, <4>2 DEF HoldsRow
      <3> QED
        BY <3>1, <3>2
    <2>7. projectLock' # None => pc'[projectLock'] \in {"write", "commit"}
      BY <2>1, <2>4 DEF LocksHeld
    <2> QED
      BY <2>6, <2>7 DEF LocksHeld, HoldsRow
  <1>3. ASSUME NEW c \in Client, Check(c) \/ LockProject(c) \/ Write(c) \/ WriteOpen(c)
        PROVE  LocksHeld'
    <2>1. /\ pc[c] \in {"check", "lock_project", "write"}
          /\ pc'[c] \in {"lock_project", "write", "commit"}
          /\ pc[c] = "write" => pc'[c] = "commit"
          /\ UNCHANGED <<req, rowLock>>
      BY <1>3 DEF Check, LockProject, Write, WriteOpen, locks
    <2>2. \A d \in Client : d # c => pc'[d] = pc[d]
      BY <1>3 DEF Check, LockProject, Write, WriteOpen
    <2>3. projectLock' = projectLock \/ (projectLock' = c /\ pc'[c] = "write")
      BY <1>3 DEF Check, LockProject, Write, WriteOpen, locks
    <2>4. \A d \in Client : HoldsRow(d) => HoldsRow(d)'
      BY <2>1, <2>2 DEF HoldsRow
    <2>5. projectLock' # None => pc'[projectLock'] \in {"write", "commit"}
      BY <2>1, <2>2, <2>3 DEF LocksHeld
    <2> QED
      BY <2>1, <2>4, <2>5 DEF LocksHeld, HoldsRow
  <1>4. ASSUME NEW c \in Client,
               \/ CheckRefused(c) \/ WriteRefused(c) \/ WriteOpenRefused(c)
               \/ Commit(c) \/ Crash(c)
        PROVE  LocksHeld'
    BY <1>4, EndReleases DEF CheckRefused, WriteRefused, WriteOpenRefused, Commit, Crash, Rollback
  <1>5. CASE UNCHANGED <<session, locks>>
    BY <1>5 DEF session, locks, LocksHeld, HoldsRow
  <1> QED
    BY <1>1, <1>2, <1>3, <1>4, <1>5 DEF Next, Step, OperatorUpdate, Finished, vars

\* As long as a request is open one of them can go on by itself: the holder
\* of the project lock; without one, the holder of the row the request waits
\* for, since every request takes the row first; without one, the request.
THEOREM PathNobodyStuck == Spec => []NobodyStuck
  <1>1. Init => LocksHeld
    BY DEF Init, LocksHeld
  <1>2. PathInv /\ LocksHeld => NobodyStuck
    <2> SUFFICES ASSUME PathInv, LocksHeld, NEW c \in Client, Busy(c)
                 PROVE  \E d \in Client : Busy(d) /\ ~Blocked(d)
      BY DEF NobodyStuck, Busy
    <2> DEFINE t == req[c].thread
    <2>1. CASE projectLock # None
      <3>1. projectLock \in Client /\ pc[projectLock] \in {"write", "commit"}
        BY <2>1 DEF PathInv, SessionTypeOK, LocksHeld
      <3> QED
        BY <3>1 DEF Busy, Blocked, Holding
    <2>2. CASE projectLock = None /\ pc[c] = "lock_thread" /\ rowLock[t] # None
      <3>1. t \in ThreadId
        BY <2>2 DEF PathInv, ClientInv, Busy, Waiting, LedgerInv, LedgerTypeOK
      <3>2. rowLock[t] \in Client /\ HoldsRow(rowLock[t])
        BY <2>2, <3>1 DEF PathInv, SessionTypeOK, LocksHeld
      <3> QED
        BY <2>2, <3>2 DEF HoldsRow, Busy, Blocked, Waiting, Holding
    <2>3. CASE projectLock = None /\ ~(pc[c] = "lock_thread" /\ rowLock[t] # None)
      BY <2>3 DEF Blocked
    <2> QED
      BY <2>1, <2>2, <2>3
  <1> QED
    BY <1>1, <1>2, PathInvInit, PathInvStep, LocksStep, PTL DEF Spec

\* The steps a request has before it at most.
Left(c) ==
    CASE pc[c] = "idle" -> 6
      [] pc[c] = "lock_thread" -> 5
      [] pc[c] = "check" -> 4
      [] pc[c] = "lock_project" -> 3
      [] pc[c] = "write" -> 2
      [] pc[c] = "commit" -> 1
      [] OTHER -> 0

\* No handler goes back, retries or turns in a circle, and what no handler
\* does touches no session and no lock.  With NobodyStuck that leaves nothing
\* but fairness to answer every request.
THEOREM PathRunsDown ==
    Spec => [][/\ \A c \in Client : Left(c)' <= Left(c)
               /\ \/ \E c \in Client : Left(c)' < Left(c)
                  \/ UNCHANGED <<session, locks>>]_vars
  <1> DEFINE Fewer(c) == /\ Left(c)' < Left(c)
                         /\ \A d \in Client : d # c => Left(d)' = Left(d)
  <1>1. ASSUME PathInv, NEW c \in Client, NEW d \in Client
        PROVE  /\ Left(d) \in 0 .. 6 /\ Left(d)' \in 0 .. 6
               /\ pc'[d] = pc[d] => Left(d)' = Left(d)
    BY DEF Left
  <1>2. ASSUME PathInv, NEW c \in Client, NEW r \in Requests, Begin(c, r)
        PROVE  Fewer(c)
    <2>1. /\ pc[c] = "idle" /\ pc'[c] \in {"lock_thread", "lock_project", "done"}
          /\ \A d \in Client : d # c => pc'[d] = pc[d]
      BY <1>2 DEF Begin, Fetch, FetchRefused, CheckAbsent, OpenRefused, Start,
                  PathInv, SessionTypeOK
    <2> QED
      BY <1>1, <1>2, <2>1 DEF Left
  <1>3. ASSUME PathInv, NEW c \in Client, Step(c) \/ Crash(c)
        PROVE  Fewer(c)
    <2> USE DEF PathInv, SessionTypeOK
    <2>1. \A d \in Client : d # c => pc'[d] = pc[d]
      BY <1>3 DEF Step, LockThread, Check, CheckRefused, LockProject, Write,
         WriteRefused, WriteOpen, WriteOpenRefused, Commit, Crash, Rollback, End
    <2>2. \/ pc[c] = "lock_thread" /\ pc'[c] = "check"
          \/ pc[c] = "check" /\ pc'[c] = "lock_project"
          \/ pc[c] = "lock_project" /\ pc'[c] = "write"
          \/ pc[c] = "write" /\ pc'[c] = "commit"
          \/ pc[c] \in Waiting \cup Holding /\ pc'[c] = "done"
      BY <1>3 DEF Step, LockThread, Check, CheckRefused, LockProject, Write, WriteRefused,
         WriteOpen, WriteOpenRefused, Commit, Crash, Rollback, End, Waiting, Holding
    <2>3. Left(c)' < Left(c)
      BY <2>2 DEF Left, Waiting, Holding
    <2> QED
      BY <1>1, <1>3, <2>1, <2>3
  <1>4. ASSUME NEW t \in ThreadId, NEW s \in OperatorStatuses, OperatorUpdate(t, s)
        PROVE  UNCHANGED <<session, locks>>
    BY <1>4 DEF OperatorUpdate
  <1>5. ASSUME PathInv, UNCHANGED <<session, locks>>, NEW d \in Client
        PROVE  Left(d)' = Left(d)
    BY <1>5 DEF Left, session
  <1>6. PathInv /\ [Next]_vars =>
           /\ \A c \in Client : Left(c)' <= Left(c)
           /\ \/ \E c \in Client : Left(c)' < Left(c)
              \/ UNCHANGED <<session, locks>>
    <2> SUFFICES ASSUME PathInv, [Next]_vars
                 PROVE  /\ \A c \in Client : Left(c)' <= Left(c)
                        /\ \/ \E c \in Client : Left(c)' < Left(c)
                           \/ UNCHANGED <<session, locks>>
      OBVIOUS
    <2>1. CASE \E c \in Client : Fewer(c)
      <3>1. PICK c \in Client : Fewer(c)
        BY <2>1
      <3>2. \A d \in Client : Left(d) \in 0 .. 6 /\ Left(d)' \in 0 .. 6
        BY <1>1
      <3> QED
        BY <3>1, <3>2
    <2>2. CASE UNCHANGED <<session, locks>>
      <3>1. \A d \in Client : Left(d)' = Left(d) /\ Left(d) \in 0 .. 6
        BY <1>1, <1>5, <2>2
      <3> QED
        BY <2>2, <3>1
    <2> QED
      BY <1>2, <1>3, <1>4, <2>1, <2>2 DEF Next, Finished, vars
  <1> QED
    BY <1>6, PathInvHolds, PTL DEF Spec

-----------------------------------------------------------------------------
(* Answers stay true *)

AnswerInv(c) == ReplyTruthful(c) /\ (pc[c] = "idle" => reply[c] = None)

LEMMA NoAnswerIsTrue ==
    ASSUME NEW c \in Client, reply'[c] \in {None, "lost"}
    PROVE  ReplyTruthful(c)'
  BY ClientAssumption DEF ReplyTruthful, Outcome

LEMMA LedgerStepKeepsAnswer ==
    ASSUME PathInv, NEW c \in Client, ReplyTruthful(c), [LedgerNext]_ledger,
           req'[c] = req[c], reply'[c] = reply[c]
    PROVE  ReplyTruthful(c)'
  <1>1. CASE LedgerNext
    <2>1. KeepsRows /\ KeepsResolved /\ \A m \in messages : m \in messages'
      BY <1>1, StepAppends, StepKeepsRows, StepKeepsResolved DEF PathInv, AppendsInOrder
    <2> QED
      BY <2>1 DEF ReplyTruthful, KeepsRows, KeepsResolved
  <1>2. CASE UNCHANGED ledger
    BY <1>2 DEF ReplyTruthful, ledger
  <1> QED
    BY <1>1, <1>2

LEMMA RefusalIsTrue ==
    ASSUME PathInv, NEW c \in Client,
           CheckRefused(c) \/ WriteRefused(c) \/ WriteOpenRefused(c) \/ Crash(c)
    PROVE  ReplyTruthful(c)'
  <1> DEFINE t == req[c].thread
  <1>1. threads' = threads /\ req' = req
    BY DEF CheckRefused, WriteRefused, WriteOpenRefused, Crash, Rollback, End, ledger
  <1>2. ClientInv(c)
    BY DEF PathInv
  <1>3. CASE CheckRefused(c)
    <2> DEFINE v == Verdict(view[c], req[c], messages, threads)
    <2>1. pc[c] = "check" /\ reply'[c] = v /\ v # "accepted"
      BY <1>3 DEF CheckRefused, Rollback, End, PathInv, SessionTypeOK
    <2>2. t \in DOMAIN threads /\ view[c] = threads[t]
      BY <1>2, <2>1 DEF ClientInv, HoldsRow, Busy, Holding
    <2>3. v \in {"accepted", "thread_resolved", "integrity", "unprocessable"}
      BY VerdictType
    <2>4. v = "thread_resolved" => threads[t].status = "resolved"
      BY <2>2 DEF Verdict, ThreadWritable
    <2> HIDE DEF v
    <2> QED
      BY <1>1, <2>1, <2>2, <2>3, <2>4 DEF ReplyTruthful
  <1>4. CASE WriteRefused(c)
    <2>1. /\ pc[c] = "write" /\ req[c].kind # "open" /\ CloseRefused(view[c], req[c])
          /\ reply'[c] = "state"
      BY <1>4 DEF WriteRefused, Rollback, End, PathInv, SessionTypeOK
    <2>2. t \in DOMAIN threads /\ view[c] = threads[t] /\ Accepted(c)
      BY <1>2, <2>1 DEF ClientInv, HoldsRow, Busy, Holding
    <2>3. threads[t].status # "resolved"
      BY <2>2, AcceptedPassed DEF Accepted, ThreadWritable
    <2>4. threads[t].status \in Status \ OpenStatuses
      BY <2>1, <2>2 DEF CloseRefused, PathInv, LedgerInv, LedgerTypeOK, Thread
    <2> QED
      BY <1>1, <2>1, <2>2, <2>3, <2>4 DEF ReplyTruthful, Status, OpenStatuses
  <1>5. CASE WriteOpenRefused(c)
    <2>1. t \in DOMAIN threads /\ reply'[c] = "exists"
      BY <1>5 DEF WriteOpenRefused, Rollback, End, PathInv, SessionTypeOK
    <2> QED
      BY <1>1, <2>1 DEF ReplyTruthful
  <1>6. CASE Crash(c)
    <2>1. reply'[c] = "lost"
      BY <1>6 DEF Crash, Rollback, End, PathInv, SessionTypeOK
    <2> QED
      BY <2>1, NoAnswerIsTrue
  <1> QED
    BY <1>3, <1>4, <1>5, <1>6

LEMMA CreatedIsTrue ==
    ASSUME PathInv, NEW c \in Client, Commit(c)
    PROVE  ReplyTruthful(c)'
  <1> DEFINE m == NewMessage(req[c], NextNum(messages))
  <1>1. /\ inserted[c] = {m} /\ messages' = messages \cup inserted[c]
        /\ req' = req /\ reply'[c] \in {"created", "lost"}
    BY DEF Commit, End, PathInv, SessionTypeOK, ClientInv, Pending
  <1>2. m \in messages' /\ m.num = NextNum(messages)
    BY <1>1 DEF NewMessage
  <1>3. \E k \in messages' : k = NewMessage(req[c], k.num)
    BY <1>2
  <1> QED
    BY <1>1, <1>3 DEF ReplyTruthful

LEMMA BeginAnswer ==
    ASSUME PathInv, NEW c \in Client, NEW r \in Requests, Begin(c, r), AnswerInv(c)
    PROVE  AnswerInv(c)'
  <1>1. pc[c] = "idle" /\ pc'[c] # "idle" /\ req'[c] = r /\ threads' = threads
    BY DEF Begin, Fetch, FetchRefused, CheckAbsent, OpenRefused, Start, ledger,
           PathInv, SessionTypeOK
  <1>2. CASE Fetch(c, r) \/ CheckAbsent(c, r)
    <2>1. reply'[c] = None
      BY <1>1, <1>2 DEF Fetch, CheckAbsent, AnswerInv
    <2> QED
      BY <1>1, <2>1, NoAnswerIsTrue DEF AnswerInv
  <1>3. CASE FetchRefused(c, r)
    <2>1. \/ reply'[c] = "not_found"
          \/ /\ r.thread \in DOMAIN threads /\ ~OwnerCanClose(threads[r.thread], r)
             /\ reply'[c] = "permission"
      BY <1>3 DEF FetchRefused, PathInv, SessionTypeOK
    <2> QED
      BY <1>1, <2>1 DEF AnswerInv, ReplyTruthful, OwnerCanClose
  <1>4. CASE OpenRefused(c, r)
    <2>1. r.thread \in DOMAIN threads /\ reply'[c] = "exists"
      BY <1>4 DEF OpenRefused, PathInv, SessionTypeOK
    <2> QED
      BY <1>1, <2>1 DEF AnswerInv, ReplyTruthful
  <1> QED
    BY <1>2, <1>3, <1>4 DEF Begin

LEMMA AnswerStep ==
    ASSUME PathInv, [Next]_vars, NEW c \in Client, AnswerInv(c)
    PROVE  AnswerInv(c)'
  <1>1. [LedgerNext]_ledger
    BY StepIsLedgerStep
  <1>2. CASE req'[c] = req[c] /\ reply'[c] = reply[c] /\ (pc'[c] = "idle" => pc[c] = "idle")
    BY <1>1, <1>2, LedgerStepKeepsAnswer DEF AnswerInv
  <1>3. ASSUME NEW d \in Client, Step(d) \/ Crash(d)
        PROVE  AnswerInv(c)'
    <2>1. CASE d # c
      <3>1. pc'[c] = pc[c] /\ req'[c] = req[c] /\ reply'[c] = reply[c]
        BY <1>3, <2>1 DEF Step, LockThread, Check, CheckRefused, LockProject, Write,
             WriteRefused, WriteOpen, WriteOpenRefused, Commit, Crash, Rollback, End,
             PathInv, SessionTypeOK
      <3> QED
        BY <1>2, <3>1
    <2>2. CASE LockThread(c) \/ Check(c) \/ LockProject(c) \/ Write(c) \/ WriteOpen(c)
      <3>1. pc'[c] # "idle" /\ req'[c] = req[c] /\ reply'[c] = reply[c]
        BY <2>2 DEF LockThread, Check, LockProject, Write, WriteOpen, PathInv, SessionTypeOK
      <3> QED
        BY <1>2, <3>1
    <2>3. CASE CheckRefused(c) \/ WriteRefused(c) \/ WriteOpenRefused(c) \/ Crash(c) \/ Commit(c)
      <3>1. pc'[c] = "done"
        BY <2>3 DEF CheckRefused, WriteRefused, WriteOpenRefused, Crash, Commit, Rollback, End,
             PathInv, SessionTypeOK
      <3>2. ReplyTruthful(c)'
        BY <2>3, RefusalIsTrue, CreatedIsTrue
      <3> QED
        BY <3>1, <3>2 DEF AnswerInv
    <2> QED
      BY <1>3, <2>1, <2>2, <2>3 DEF Step
  <1>4. ASSUME NEW d \in Client, NEW r \in Requests, Begin(d, r)
        PROVE  AnswerInv(c)'
    <2>1. CASE d = c
      BY <1>4, <2>1, BeginAnswer
    <2>2. CASE d # c
      <3>1. pc'[c] = pc[c] /\ req'[c] = req[c] /\ reply'[c] = reply[c]
        BY <1>4, <2>2 DEF Begin, Fetch, FetchRefused, CheckAbsent, OpenRefused, Start,
             PathInv, SessionTypeOK
      <3> QED
        BY <1>2, <3>1
    <2> QED
      BY <2>1, <2>2
  <1>5. CASE UNCHANGED session
    BY <1>2, <1>5 DEF session
  <1> QED
    BY <1>3, <1>4, <1>5 DEF Next, OperatorUpdate, Finished, vars

\* Whatever a client was told still holds, whoever came after it.
THEOREM PathRepliesTruthful == Spec => []RepliesTruthful
  <1> DEFINE Inv == PathInv /\ \A c \in Client : AnswerInv(c)
  <1>1. Init => Inv
    <2>1. Init => \A c \in Client : AnswerInv(c)
      BY ClientAssumption DEF Init, AnswerInv, ReplyTruthful, Outcome
    <2> QED
      BY <2>1, PathInvInit
  <1>2. Inv /\ [Next]_vars => Inv'
    BY PathInvStep, AnswerStep
  <1>3. Inv => RepliesTruthful
    BY DEF AnswerInv, RepliesTruthful
  <1> QED
    BY <1>1, <1>2, <1>3, PTL DEF Spec

-----------------------------------------------------------------------------
(* Linearizability: each request happens at one moment, or not at all *)

\* What a request knows of its client, and what close_thread found out before
\* it had the lock.  An owner does not change, so that is still true later.
Current(c) ==
    /\ pc[c] = "idle" => req[c] = None
    /\ pc[c] # "done" => reply[c] = None
    /\ Busy(c) /\ req[c].kind = "close" => OwnerCanClose(threads[req[c].thread], req[c])

LEMMA CloserStays ==
    ASSUME PathInv, [Next]_vars, NEW c \in Client, Current(c), Busy(c), req'[c] = req[c],
           req[c].kind = "close"
    PROVE  OwnerCanClose(threads[req[c].thread], req[c])'
  <1> DEFINE t == req[c].thread
  <1>1. t \in DOMAIN threads /\ OwnerCanClose(threads[t], req[c])
    BY DEF Current, PathInv, ClientInv
  <1>2. CASE LedgerNext
    <2>1. threads'[t].owner = threads[t].owner
      BY <1>1, <1>2, StepKeepsRows DEF KeepsRows, PathInv
    <2> QED
      BY <1>1, <2>1 DEF OwnerCanClose
  <1>3. CASE UNCHANGED ledger
    BY <1>1, <1>3 DEF ledger, OwnerCanClose
  <1> QED
    BY <1>2, <1>3, StepIsLedgerStep

\* A step that is not c's, or not the end of c's transaction.
LEMMA CurrentStays ==
    ASSUME PathInv, [Next]_vars, NEW c \in Client, Current(c),
           req'[c] = req[c], reply'[c] = reply[c],
           pc'[c] = pc[c] \/ (Busy(c) /\ pc'[c] \in Waiting \cup Holding)
    PROVE  Current(c)'
  <1>1. /\ pc'[c] = "idle" => pc[c] = "idle"
        /\ pc'[c] # "done" => pc[c] # "done"
        /\ Busy(c)' => Busy(c)
    BY DEF Busy, Waiting, Holding
  <1> QED
    BY <1>1, CloserStays DEF Current

LEMMA CurrentStep ==
    ASSUME PathInv, [Next]_vars, NEW c \in Client, Current(c)
    PROVE  Current(c)'
  <1> USE DEF PathInv, SessionTypeOK
  <1>1. ASSUME NEW d \in Client, Step(d) \/ Crash(d)
        PROVE  Current(c)'
    <2>1. CASE d # c
      <3>1. pc'[c] = pc[c] /\ req'[c] = req[c] /\ reply'[c] = reply[c]
        BY <1>1, <2>1 DEF Step, LockThread, Check, CheckRefused, LockProject, Write,
             WriteRefused, WriteOpen, WriteOpenRefused, Commit, Crash, Rollback, End
      <3> QED
        BY <3>1, CurrentStays
    <2>2. CASE LockThread(c) \/ Check(c) \/ LockProject(c) \/ Write(c) \/ WriteOpen(c)
      <3>1. /\ Busy(c) /\ pc'[c] \in Waiting \cup Holding
            /\ req'[c] = req[c] /\ reply'[c] = reply[c]
        BY <2>2 DEF LockThread, Check, LockProject, Write, WriteOpen, Busy, Waiting, Holding
      <3> QED
        BY <3>1, CurrentStays
    <2>3. CASE CheckRefused(c) \/ WriteRefused(c) \/ WriteOpenRefused(c) \/ Crash(c) \/ Commit(c)
      <3>1. pc'[c] = "done"
        BY <2>3 DEF CheckRefused, WriteRefused, WriteOpenRefused, Crash, Commit, Rollback, End
      <3> QED
        BY <3>1 DEF Current, Busy, Waiting, Holding
    <2> QED
      BY <1>1, <2>1, <2>2, <2>3 DEF Step
  <1>2. ASSUME NEW d \in Client, NEW r \in Requests, Begin(d, r)
        PROVE  Current(c)'
    <2>1. CASE d # c
      <3>1. pc'[c] = pc[c] /\ req'[c] = req[c] /\ reply'[c] = reply[c]
        BY <1>2, <2>1 DEF Begin, Fetch, FetchRefused, CheckAbsent, OpenRefused, Start
      <3> QED
        BY <3>1, CurrentStays
    <2>2. CASE Fetch(c, r) \/ CheckAbsent(c, r)
      <3>1. /\ pc[c] = "idle" /\ pc'[c] \in Waiting /\ req'[c] = r
            /\ reply' = reply /\ threads' = threads
        BY <2>2 DEF Fetch, CheckAbsent, Start, ledger, Waiting
      <3>2. r.kind = "close" => OwnerCanClose(threads[r.thread], r)
        BY <2>2 DEF Fetch, CheckAbsent
      <3> QED
        BY <3>1, <3>2 DEF Current, Waiting
    <2>3. CASE FetchRefused(c, r) \/ OpenRefused(c, r)
      <3>1. pc'[c] = "done"
        BY <2>3 DEF FetchRefused, OpenRefused, Start
      <3> QED
        BY <3>1 DEF Current, Busy, Waiting, Holding
    <2> QED
      BY <1>2, <2>1, <2>2, <2>3 DEF Begin
  <1>3. CASE UNCHANGED session
    BY <1>3, CurrentStays DEF session
  <1> QED
    BY <1>1, <1>2, <1>3 DEF Next, OperatorUpdate, Finished, vars

LEMMA BeginIsServiceStep ==
    ASSUME PathInv, NEW c \in Client, NEW r \in Requests, Current(c), Begin(c, r)
    PROVE  Send(c, r) \/ Refuse(c, r)
  <1>1. /\ req[c] = None /\ reply[c] = None /\ req' = [req EXCEPT ![c] = r]
        /\ UNCHANGED ledger
    BY DEF Begin, Fetch, FetchRefused, CheckAbsent, OpenRefused, Start, Current
  <1>2. CASE Fetch(c, r) \/ CheckAbsent(c, r)
    BY <1>1, <1>2 DEF Fetch, CheckAbsent, Send
  <1>3. CASE FetchRefused(c, r) \/ OpenRefused(c, r)
    <2>1. Answer(r) # "created" /\ reply' = [reply EXCEPT ![c] = Answer(r)]
      BY <1>3 DEF FetchRefused, OpenRefused, Answer
    <2> QED
      BY <1>1, <2>1 DEF Refuse
  <1> QED
    BY <1>2, <1>3 DEF Begin

LEMMA CommitIsAccept ==
    ASSUME PathInv, NEW c \in Client, Current(c), Commit(c)
    PROVE  Accept(c)
  <1> DEFINE r == req[c]
  <1>1. Busy(c) /\ pc[c] # "done" /\ ClientInv(c)
    BY DEF Commit, Busy, Holding, PathInv
  <1>2. r \in Requests /\ r # None /\ reply[c] = None
    BY <1>1, ClientAssumption DEF ClientInv, Current
  <1>3. OpenThread(r) \/ AppendMessage(r)
    BY CommitIsOneRequest
  <1>4. Answer(r) = "created"
    <2>1. r.kind = "close" => OwnerCanClose(threads[r.thread], r)
      BY <1>1 DEF Current
    <2> QED
      BY <1>3, <2>1 DEF OpenThread, AppendMessage, Answer
  <1>5. /\ \E outcome \in {"created", "lost"} : reply' = [reply EXCEPT ![c] = outcome]
        /\ UNCHANGED req
    BY DEF Commit, End
  <1> QED
    BY <1>2, <1>3, <1>4, <1>5 DEF Accept

\* Verdicts are reached on the committed row, so they are the service's.
LEMMA RefusalIsRefuse ==
    ASSUME PathInv, NEW c \in Client, Current(c),
           CheckRefused(c) \/ WriteRefused(c) \/ WriteOpenRefused(c)
    PROVE  Refuse(c, req[c])
  <1> DEFINE r == req[c]
             v == Verdict(threads[r.thread], r, messages, threads)
  <1>1. Busy(c) /\ pc[c] # "done" /\ ClientInv(c)
    BY DEF CheckRefused, WriteRefused, WriteOpenRefused, Busy, Holding, PathInv
  <1>2. r \in Requests /\ reply[c] = None
    BY <1>1 DEF ClientInv, Current
  <1>3. UNCHANGED ledger /\ req' = [req EXCEPT ![c] = r]
    BY <1>2 DEF CheckRefused, WriteRefused, WriteOpenRefused, Rollback, End, PathInv,
                SessionTypeOK
  <1>4. r.kind = "close" => OwnerCanClose(threads[r.thread], r)
    BY <1>1 DEF Current
  <1>5. v \in {"accepted", "thread_resolved", "integrity", "unprocessable"}
    BY VerdictType
  <1>6. Answer(r) # "created" /\ reply' = [reply EXCEPT ![c] = Answer(r)]
    <2>1. CASE CheckRefused(c)
      <3>1. /\ r.kind # "open" /\ r.thread \in DOMAIN threads
            /\ view[c] = threads[r.thread]
        BY <1>1, <2>1 DEF CheckRefused, ClientInv, HoldsRow, Busy, Holding
      <3>2. v # "accepted" /\ reply' = [reply EXCEPT ![c] = v]
        BY <2>1, <3>1 DEF CheckRefused, Rollback, End
      <3>3. Answer(r) = v
        BY <1>4, <3>1, <3>2 DEF Answer
      <3> HIDE DEF v
      <3> QED
        BY <1>5, <3>2, <3>3
    <2>2. CASE WriteRefused(c)
      <3>1. /\ r.kind # "open" /\ r.thread \in DOMAIN threads
            /\ view[c] = threads[r.thread] /\ v = "accepted"
        BY <1>1, <2>2 DEF WriteRefused, ClientInv, HoldsRow, Accepted, Busy, Holding
      <3>2. CloseRefused(threads[r.thread], r) /\ reply' = [reply EXCEPT ![c] = "state"]
        BY <2>2, <3>1 DEF WriteRefused, Rollback, End
      <3> QED
        BY <1>4, <3>1, <3>2 DEF Answer
    <2>3. CASE WriteOpenRefused(c)
      BY <2>3 DEF WriteOpenRefused, Rollback, End, Answer
    <2> QED
      BY <2>1, <2>2, <2>3
  <1> QED
    BY <1>2, <1>3, <1>6 DEF Refuse

LEMMA ServiceStep ==
    ASSUME PathInv, \A c \in Client : Current(c), [Next]_vars
    PROVE  [ServiceNext]_service
  <1>1. ASSUME NEW c \in Client, NEW r \in Requests, Begin(c, r)
        PROVE  ServiceNext
    BY <1>1, BeginIsServiceStep DEF ServiceNext
  <1>2. ASSUME NEW c \in Client, Step(c) \/ Crash(c)
        PROVE  [ServiceNext]_service
    <2>1. CASE Commit(c)
      BY <2>1, CommitIsAccept DEF ServiceNext
    <2>2. CASE CheckRefused(c) \/ WriteRefused(c) \/ WriteOpenRefused(c)
      <3>1. req[c] \in Requests
        BY <2>2 DEF CheckRefused, WriteRefused, WriteOpenRefused, PathInv, ClientInv,
                    Busy, Holding
      <3> QED
        BY <2>2, <3>1, RefusalIsRefuse DEF ServiceNext
    <2>3. CASE Crash(c)
      <3>1. Busy(c) /\ pc[c] # "done" /\ ClientInv(c)
        BY <2>3 DEF Crash, Busy, Waiting, Holding, PathInv
      <3>2. req[c] # None /\ reply[c] = None
        BY <3>1, ClientAssumption DEF ClientInv, Current
      <3>3. Lose(c)
        BY <2>3, <3>2 DEF Crash, Rollback, End, Lose
      <3> QED
        BY <3>3 DEF ServiceNext
    <2>4. CASE LockThread(c) \/ Check(c) \/ LockProject(c) \/ Write(c) \/ WriteOpen(c)
      BY <2>4 DEF LockThread, Check, LockProject, Write, WriteOpen, service
    <2> QED
      BY <1>2, <2>1, <2>2, <2>3, <2>4 DEF Step
  <1>3. ASSUME NEW t \in ThreadId, NEW s \in OperatorStatuses, OperatorUpdate(t, s)
        PROVE  ServiceNext
    BY <1>3 DEF OperatorUpdate, session, ServiceNext
  <1>4. CASE UNCHANGED vars
    BY <1>4 DEF vars, session, service
  <1> QED
    BY <1>1, <1>2, <1>3, <1>4 DEF Next, Finished

\* The write path is linearizable: for its clients, every request is dealt
\* with as a whole between its arrival and its answer, by the tables of that
\* moment, and the moment of an accepted one is its commit.
THEOREM PathImplementsService == Spec => ServiceSpec
  <1> DEFINE Inv == PathInv /\ \A c \in Client : Current(c)
  <1>1. Init => Inv
    <2>1. Init => \A c \in Client : Current(c)
      BY DEF Init, Current, Busy, Waiting, Holding
    <2> QED
      BY <2>1, PathInvInit
  <1>2. Inv /\ [Next]_vars => Inv'
    BY PathInvStep, CurrentStep
  <1>3. Init => ServiceInit
    BY DEF Init, ServiceInit
  <1>4. Inv /\ [Next]_vars => [ServiceNext]_service
    BY ServiceStep
  <1> HIDE DEF Inv
  <1> QED
    BY <1>1, <1>2, <1>3, <1>4, PTL DEF Spec, ServiceSpec

\* The service is the ledger, seen with its clients.
THEOREM ServiceImplementsLedger == ServiceSpec => LedgerSpec
  <1> DEFINE Asked == req \in [Client -> Requests \cup {None}]
  <1>1. ServiceInit => LedgerInit /\ Asked
    BY DEF ServiceInit
  <1>2. Asked /\ [ServiceNext]_service => Asked'
    BY DEF ServiceNext, Send, Accept, Refuse, Lose, service
  <1>3. Asked /\ [ServiceNext]_service => [LedgerNext]_ledger
    <2> SUFFICES ASSUME Asked, [ServiceNext]_service
                 PROVE  [LedgerNext]_ledger
      OBVIOUS
    <2>1. ASSUME NEW c \in Client, Accept(c)
          PROVE  LedgerNext
      BY <2>1 DEF Accept, LedgerNext
    <2>2. ASSUME NEW c \in Client, NEW r \in Requests, Send(c, r) \/ Refuse(c, r)
          PROVE  UNCHANGED ledger
      BY <2>2 DEF Send, Refuse
    <2>3. ASSUME NEW c \in Client, Lose(c)
          PROVE  UNCHANGED ledger
      BY <2>3 DEF Lose
    <2>4. ASSUME NEW t \in ThreadId, NEW s \in OperatorStatuses, SetAside(t, s)
          PROVE  LedgerNext
      BY <2>4 DEF LedgerNext
    <2> QED
      BY <2>1, <2>2, <2>3, <2>4 DEF ServiceNext, service
  <1> QED
    BY <1>1, <1>2, <1>3, PTL DEF ServiceSpec, LedgerSpec

-----------------------------------------------------------------------------
(* One message for every answer *)

ToldCreated(r) == {c \in Client : reply[c] = "created" /\ req[c] = r}

StoredFor(r) == {m \in messages : m = NewMessage(r, m.num)}

\* As many, and so finitely many, although clients may be without number.
OncePer(r) ==
    /\ IsFiniteSet(ToldCreated(r)) /\ IsFiniteSet(StoredFor(r))
    /\ Cardinality(ToldCreated(r)) <= Cardinality(StoredFor(r))

LEMMA FewerTold ==
    ASSUME NEW r \in Requests, OncePer(r),
           ToldCreated(r)' \subseteq ToldCreated(r), messages' = messages
    PROVE  OncePer(r)'
  <1>1. StoredFor(r)' = StoredFor(r)
    BY DEF StoredFor
  <1>2. ToldCreated(r)' \in SUBSET ToldCreated(r)
    OBVIOUS
  <1>3. /\ IsFiniteSet(ToldCreated(r)')
        /\ Cardinality(ToldCreated(r)') <= Cardinality(ToldCreated(r))
    BY <1>2, FS_Subset DEF OncePer
  <1>4. /\ Cardinality(ToldCreated(r)) \in Nat /\ Cardinality(ToldCreated(r)') \in Nat
        /\ Cardinality(StoredFor(r)) \in Nat
    BY <1>3, FS_CardinalityType DEF OncePer
  <1> QED
    BY <1>1, <1>3, <1>4 DEF OncePer

LEMMA CommitCounts ==
    ASSUME PathInv, NEW c \in Client, Commit(c), NEW r \in Requests, OncePer(r)
    PROVE  OncePer(r)'
  <1> DEFINE n == NextNum(messages)
             m == NewMessage(req[c], n)
  <1>1. /\ inserted[c] = {m} /\ messages' = messages \cup inserted[c]
        /\ req' = req /\ \A d \in Client : d # c => reply'[d] = reply[d]
    BY DEF Commit, End, PathInv, SessionTypeOK, ClientInv, Pending
  <1>2. m.num = n
    BY DEF NewMessage
  <1>3. m \notin messages
    <2>1. PICK k \in Nat : Nums(messages) = 1 .. k
      BY DEF PathInv, LedgerInv, Numbered
    <2>2. n = k + 1
      BY <2>1, NextNumFollows
    <2>3. n \notin Nums(messages)
      BY <2>1, <2>2
    <2> QED
      BY <1>2, <2>3 DEF Nums
  <1> DEFINE told == ToldCreated(r)
             stored == StoredFor(r)
  <1>4. CASE req[c] = r
    <2>1. StoredFor(r)' = stored \cup {m}
      BY <1>1, <1>2, <1>4 DEF StoredFor
    <2>2. m \notin stored
      BY <1>3 DEF StoredFor
    <2>3. ToldCreated(r)' \in SUBSET (told \cup {c})
      BY <1>1 DEF ToldCreated
    <2> HIDE DEF m, told, stored
    <2>4. /\ IsFiniteSet(stored \cup {m})
          /\ Cardinality(stored \cup {m}) = Cardinality(stored) + 1
      BY <2>2, FS_AddElement DEF OncePer, stored
    <2>5. /\ IsFiniteSet(told \cup {c})
          /\ Cardinality(told \cup {c}) = IF c \in told THEN Cardinality(told)
                                          ELSE Cardinality(told) + 1
      BY FS_AddElement DEF OncePer, told
    <2>6. /\ IsFiniteSet(ToldCreated(r)')
          /\ Cardinality(ToldCreated(r)') <= Cardinality(told \cup {c})
      BY <2>3, <2>5, FS_Subset
    <2>7. /\ Cardinality(told) \in Nat /\ Cardinality(stored) \in Nat
          /\ Cardinality(ToldCreated(r)') \in Nat /\ Cardinality(told) <= Cardinality(stored)
      BY <2>6, FS_CardinalityType DEF OncePer, told, stored
    <2>8. Cardinality(ToldCreated(r)') <= Cardinality(stored) + 1
      BY <2>5, <2>6, <2>7
    <2> QED
      BY <2>1, <2>4, <2>6, <2>8 DEF OncePer
  <1>5. CASE req[c] # r
    <2>1. ToldCreated(r)' = told
      BY <1>1, <1>5 DEF ToldCreated
    <2>2. stored \in SUBSET StoredFor(r)'
      BY <1>1 DEF StoredFor
    <2>3. IsFiniteSet(StoredFor(r)')
      <3>1. StoredFor(r)' \in SUBSET (stored \cup {m})
        BY <1>1 DEF StoredFor
      <3> HIDE DEF m, stored
      <3>2. IsFiniteSet(stored \cup {m})
        BY FS_AddElement DEF OncePer, stored
      <3> QED
        BY <3>1, <3>2, FS_Subset
    <2>4. Cardinality(stored) <= Cardinality(StoredFor(r)')
      BY <2>2, <2>3, FS_Subset
    <2>5. /\ Cardinality(told) \in Nat /\ Cardinality(stored) \in Nat
          /\ Cardinality(StoredFor(r)') \in Nat /\ Cardinality(told) <= Cardinality(stored)
      BY <2>3, FS_CardinalityType DEF OncePer
    <2> QED
      BY <2>1, <2>3, <2>4, <2>5 DEF OncePer
  <1> QED
    BY <1>4, <1>5

\* No other step tells anybody 201.
LEMMA OnlyCommitTells ==
    ASSUME PathInv, \A c \in Client : AnswerInv(c), [Next]_vars,
           \A c \in Client : ~Commit(c), NEW r \in Requests
    PROVE  messages' = messages /\ ToldCreated(r)' \subseteq ToldCreated(r)
  <1>1. ASSUME NEW c \in Client, NEW q \in Requests, Begin(c, q)
        PROVE  messages' = messages /\ \A d \in Client : reply'[d] = "created" =>
                 reply[d] = "created" /\ req'[d] = req[d]
    <2>1. pc[c] = "idle" /\ reply[c] = None
      BY <1>1 DEF Begin, Fetch, FetchRefused, CheckAbsent, OpenRefused, Start, AnswerInv
    <2>2. /\ messages' = messages
          /\ \A d \in Client : d # c => reply'[d] = reply[d] /\ req'[d] = req[d]
      BY <1>1 DEF Begin, Fetch, FetchRefused, CheckAbsent, OpenRefused, Start, ledger,
                  PathInv, SessionTypeOK
    <2>3. reply'[c] \in {None, "not_found", "permission", "exists"}
      BY <1>1, <2>1 DEF Begin, Fetch, FetchRefused, CheckAbsent, OpenRefused,
                        PathInv, SessionTypeOK
    <2>4. reply'[c] # "created"
      BY <2>3, ClientAssumption DEF Outcome
    <2> QED
      BY <2>2, <2>4
  <1>2. ASSUME NEW c \in Client, Step(c) \/ Crash(c)
        PROVE  messages' = messages /\ \A d \in Client : reply'[d] = "created" =>
                 reply[d] = "created" /\ req'[d] = req[d]
    <2>1. CASE LockThread(c) \/ Check(c) \/ LockProject(c) \/ Write(c) \/ WriteOpen(c)
      BY <2>1 DEF LockThread, Check, LockProject, Write, WriteOpen, ledger
    <2>2. CASE CheckRefused(c) \/ WriteRefused(c) \/ WriteOpenRefused(c) \/ Crash(c)
      <3>1. Verdict(view[c], req[c], messages, threads)
              \in {"accepted", "thread_resolved", "integrity", "unprocessable"}
        BY VerdictType
      <3>2. /\ messages' = messages /\ req' = req
            /\ \A d \in Client : d # c => reply'[d] = reply[d]
            /\ reply'[c] \in {"thread_resolved", "integrity", "unprocessable", "state",
                              "exists", "lost"}
        BY <2>2, <3>1 DEF CheckRefused, WriteRefused, WriteOpenRefused, Crash, Rollback, End,
                          ledger, PathInv, SessionTypeOK
      <3> QED
        BY <3>2
    <2> QED
      BY <1>2, <2>1, <2>2 DEF Step
  <1>3. CASE UNCHANGED session /\ messages' = messages
    BY <1>3 DEF session, ToldCreated
  <1> QED
    BY <1>1, <1>2, <1>3 DEF Next, OperatorUpdate, SetAside, Finished, vars, ledger, ToldCreated

\* However many clients send the same request, and send it again: whoever was
\* told 201 has a message of his own (there is no idempotency key).
THEOREM PathCreatedOnce == Spec => []CreatedOncePerRequest
  <1> DEFINE Inv == /\ PathInv /\ \A c \in Client : AnswerInv(c)
                    /\ \A r \in Requests : OncePer(r)
  <1>1. Init => Inv
    <2> SUFFICES ASSUME Init PROVE Inv
      OBVIOUS
    <2>1. \A c \in Client : AnswerInv(c)
      BY ClientAssumption DEF Init, AnswerInv, ReplyTruthful, Outcome
    <2>2. \A r : ToldCreated(r) = {} /\ StoredFor(r) = {}
      BY ClientAssumption DEF Init, LedgerInit, ToldCreated, StoredFor, Outcome
    <2>3. \A r : OncePer(r)
      BY <2>2, FS_EmptySet DEF OncePer
    <2> QED
      BY <2>1, <2>3, PathInvInit
  <1>2. Inv /\ [Next]_vars => Inv'
    <2> SUFFICES ASSUME Inv, [Next]_vars PROVE Inv'
      OBVIOUS
    <2>1. PathInv' /\ \A c \in Client : AnswerInv(c)'
      BY PathInvStep, AnswerStep
    <2>2. ASSUME NEW r \in Requests
          PROVE  OncePer(r)'
      <3>1. CASE \E c \in Client : Commit(c)
        BY <3>1, CommitCounts
      <3>2. CASE \A c \in Client : ~Commit(c)
        BY <3>2, OnlyCommitTells, FewerTold
      <3> QED
        BY <3>1, <3>2
    <2> QED
      BY <2>1, <2>2
  <1>3. Inv => CreatedOncePerRequest
    BY DEF OncePer, CreatedOncePerRequest, ToldCreated, StoredFor
  <1> QED
    BY <1>1, <1>2, <1>3, PTL DEF Spec

-----------------------------------------------------------------------------
(* What the ledger promises *)

\* Message ids are dense and unique under any interleaving and any crash,
THEOREM PathNumbering == Spec => []NumberingDense
  BY WritePathImplementsLedger, LedgerNumbering, PTL

\* the denormalised activity key is exact,
THEOREM PathActivityKey == Spec => []ActivityKeyExact
  BY WritePathImplementsLedger, LedgerInvariants, PTL

\* a thread is resolved by its last message and by no other,
THEOREM PathResolution == Spec => []ResolvedByItsLastMessage
  BY WritePathImplementsLedger, LedgerInvariants, PTL

\* proposes open threads and occur nowhere else,
THEOREM PathProposes == Spec => []ProposeOnceFirst
  BY WritePathImplementsLedger, LedgerInvariants, PTL

\* every link of a message can be followed,
THEOREM PathLinks == Spec => []LinksResolve
  BY WritePathImplementsLedger, LedgerInvariants, PTL

\* the audit log replays every status,
THEOREM PathStatusReplay == Spec => []StatusReplaysEvents
  BY WritePathImplementsLedger, LedgerInvariants, PTL

\* and has a sanction record of exactly the closes by somebody else,
THEOREM PathSanctions == Spec => []NonOwnerCloseRecorded
  BY WritePathImplementsLedger, LedgerInvariants, PTL

\* rows are only ever added, and in the order of their numbers,
THEOREM PathAppendsInOrder == Spec => AppendedInOrder
  BY WritePathImplementsLedger, LedgerAppendsInOrder, PTL

\* and a resolved thread never changes.
THEOREM PathResolvedIsFinal == Spec => ResolvedIsFinal
  BY WritePathImplementsLedger, LedgerResolvedIsFinal, PTL

-----------------------------------------------------------------------------
(* Reading the messages in the order of their numbers *)

\* A sequence that is longer by one and agrees with another one is an Append.
LEMMA GrownIsAppend ==
    ASSUME NEW S, NEW n \in Nat, NEW s \in [1 .. n -> S], NEW t \in [1 .. (n + 1) -> S],
           \A k \in 1 .. n : t[k] = s[k]
    PROVE  t = Append(s, t[n + 1])
  <1>1. s \in Seq(S) /\ Len(s) = n
    <2>1. s \in Seq(S)
      BY SeqDef
    <2> QED
      BY <2>1, LenProperties
  <1>2. t \in Seq(S) /\ Len(t) = n + 1
    <2>1. n + 1 \in Nat
      OBVIOUS
    <2>2. t \in Seq(S)
      BY <2>1, SeqDef
    <2> QED
      BY <2>2, LenProperties
  <1> DEFINE u == Append(s, t[n + 1])
  <1>3. t[n + 1] \in S
    OBVIOUS
  <1>4. /\ u \in Seq(S) /\ Len(u) = n + 1
        /\ \A k \in 1 .. n : u[k] = s[k]
        /\ u[n + 1] = t[n + 1]
    BY <1>1, <1>3, AppendProperties
  <1>5. \A k \in 1 .. (n + 1) : t[k] = u[k]
    BY <1>4
  <1> HIDE DEF u
  <1>6. t = u
    BY <1>2, <1>4, <1>5, SeqEqual
  <1> QED
    BY <1>6 DEF u

\* As long as the messages grow by the next number, the log grows at its end.
LEMMA ReadAloudIsAppend ==
    ASSUME LedgerInv, NEW n \in Nat, NEW r, Nums(messages) = 1 .. n,
           messages' = messages \cup {NewMessage(r, n + 1)}
    PROVE  ReadAloud' = Append(ReadAloud, Spoken(NewMessage(r, n + 1)))
  <1> DEFINE new == NewMessage(r, n + 1)
  <1>0. new.num = n + 1
    BY DEF NewMessage
  <1>1. Numbered' /\ Nums(messages') = 1 .. (n + 1)
    BY NumberedGrows DEF LedgerInv
  <1> HIDE DEF new
  <1>2. NextNum(messages) - 1 = n
    BY NextNumFollows
  <1>3. NextNum(messages') - 1 = n + 1
    BY <1>1, NextNumFollows
  <1>4. \A m1, m2 \in messages' : m1.num = m2.num => m1 = m2
    BY <1>1 DEF Numbered
  <1>5. ASSUME NEW k \in 1 .. n
        PROVE  /\ MessageNo(k) \in messages
               /\ MessageNo(k)' = MessageNo(k)
    <2>1. PICK m \in messages : m.num = k
      BY DEF Nums
    <2>2. \A x \in messages' : x.num = k <=> x = m
      BY <1>4, <2>1
    <2>3. (CHOOSE x \in messages : x.num = k) = m
      BY <2>1, <2>2
    <2>4. (CHOOSE x \in messages' : x.num = k) = m
      BY <2>1, <2>2
    <2> QED
      BY <2>1, <2>3, <2>4 DEF MessageNo
  <1>6. MessageNo(n + 1)' = new
    <2>1. \A x \in messages' : x.num = n + 1 <=> x = new
      BY <1>0, <1>4 DEF new
    <2>2. (CHOOSE x \in messages' : x.num = n + 1) = new
      BY <2>1
    <2> QED
      BY <2>2 DEF MessageNo
  <1> DEFINE S == {Spoken(m) : m \in messages'}
  <1>7. ReadAloud = [k \in 1 .. n |-> Spoken(MessageNo(k))]
    BY <1>2 DEF ReadAloud
  <1>8. ReadAloud' = [k \in 1 .. (n + 1) |-> Spoken(MessageNo(k)')]
    BY <1>3 DEF ReadAloud, Spoken
  <1>9. ReadAloud \in [1 .. n -> S]
    BY <1>5, <1>7
  <1>10. ReadAloud' \in [1 .. (n + 1) -> S]
    BY <1>5, <1>6, <1>8 DEF new
  <1>11. \A k \in 1 .. n : ReadAloud'[k] = ReadAloud[k]
    BY <1>5, <1>7, <1>8
  <1>12. ReadAloud'[n + 1] = Spoken(new)
    BY <1>6, <1>8
  <1> HIDE DEF S
  <1> QED
    BY <1>9, <1>10, <1>11, <1>12, GrownIsAppend DEF new

\* A row, its number, and what is said with it.
LEMMA LogEntry ==
    ASSUME NEW r \in Requests, NEW n \in Nat
    PROVE  LET e == Spoken(NewMessage(r, n)) IN
           /\ e \in Room!Entry
           /\ e.thread = r.thread
           /\ e.part = "opens" <=> r.type = "propose"
  BY RequestFields DEF Spoken, NewMessage, Request, Room!Entry, Room!Part

\* Who is in the log is in the table: a thread has an entry if it exists, and
\* a closing entry only if it is resolved.
LEMMA LogOfThread ==
    ASSUME LedgerInv, NEW t
    PROVE  /\ Room!Opened(t) <=> t \in DOMAIN threads
           /\ Room!Closed(t) => t \in DOMAIN threads /\ threads[t].status = "resolved"
  <1>1. PICK n \in Nat : Nums(messages) = 1 .. n
    BY DEF LedgerInv, Numbered
  <1>2. ReadAloud = [k \in 1 .. n |-> Spoken(MessageNo(k))]
    <2>1. NextNum(messages) - 1 = n
      BY <1>1, NextNumFollows
    <2> QED
      BY <2>1 DEF ReadAloud
  <1>3. \A k \in 1 .. n : MessageNo(k) \in messages
    BY <1>1 DEF Nums, MessageNo
  <1>4. \A m \in messages : m.num \in 1 .. n /\ MessageNo(m.num) = m
    BY <1>1 DEF Nums, MessageNo, LedgerInv, Numbered
  <1>5. ASSUME NEW k \in 1 .. n, ReadAloud[k].thread = t
        PROVE  /\ t \in DOMAIN threads
               /\ ReadAloud[k].part = "closes" => threads[t].status = "resolved"
    <2>1. MessageNo(k) \in messages /\ MessageNo(k).thread = t
      BY <1>2, <1>3, <1>5 DEF Spoken
    <2>2. t \in DOMAIN threads
      BY <2>1 DEF LedgerInv, ProposeOnceFirst
    <2>3. ReadAloud[k].part = "closes" => MessageNo(k).closes # None
      BY <1>2 DEF Spoken
    <2>4. MessageNo(k).closes # None => threads[t].resolved_by = MessageNo(k).num
      BY <2>1 DEF LedgerInv, ResolvedByItsLastMessage
    <2>5. MessageNo(k).num # None
      BY <2>1, NoneAssumption DEF LedgerInv, LedgerTypeOK, Message
    <2> QED
      BY <2>2, <2>3, <2>4, <2>5 DEF LedgerInv, ResolvedByItsLastMessage
  <1>6. ASSUME t \in DOMAIN threads
        PROVE  \E k \in 1 .. n : ReadAloud[k].thread = t
    <2>1. PICK m \in messages : m.thread = t
      BY <1>6 DEF LedgerInv, ActivityKeyExact, Nums, InThread
    <2> QED
      BY <1>2, <1>4, <2>1 DEF Spoken
  <1>7. DOMAIN ReadAloud = 1 .. n
    BY <1>2
  <1> QED
    BY <1>5, <1>6, <1>7 DEF Room!Opened, Room!Closed

-----------------------------------------------------------------------------
(* Each step *)

LEMMA OpenSays ==
    ASSUME LedgerInv, NEW r \in Requests, OpenThread(r)
    PROVE  Room!Next
  <1>1. PICK n \in Nat :
          /\ Nums(messages) = 1 .. n
          /\ r.thread \notin DOMAIN threads
          /\ messages' = messages \cup {NewMessage(r, n + 1)}
          /\ r.type = "propose"
    BY OpenFacts
  <1> DEFINE e == Spoken(NewMessage(r, n + 1))
  <1>2. ReadAloud' = Append(ReadAloud, e)
    BY <1>1, ReadAloudIsAppend
  <1>3. e \in Room!Entry /\ e.thread = r.thread /\ e.part = "opens"
    BY <1>1, LogEntry
  <1>4. ~Room!Opened(r.thread)
    BY <1>1, LogOfThread
  <1> HIDE DEF e
  <1> QED
    BY <1>2, <1>3, <1>4 DEF Room!Next, Room!Say

LEMMA AppendSays ==
    ASSUME LedgerInv, NEW r \in Requests, AppendMessage(r)
    PROVE  Room!Next
  <1>1. PICK n \in Nat :
          /\ Nums(messages) = 1 .. n
          /\ r.thread \in DOMAIN threads
          /\ threads[r.thread].status # "resolved"
          /\ IntegrityAsserts(threads[r.thread], r, messages, threads)
          /\ messages' = messages \cup {NewMessage(r, n + 1)}
    BY AppendFacts
  <1> DEFINE e == Spoken(NewMessage(r, n + 1))
  <1>2. ReadAloud' = Append(ReadAloud, e)
    BY <1>1, ReadAloudIsAppend
  <1>3. r.type # "propose"
    <2>1. InThread(messages, r.thread) # {}
      BY <1>1 DEF LedgerInv, ActivityKeyExact, Nums
    <2> QED
      BY <1>1, <2>1 DEF IntegrityAsserts, ProposeInvariant
  <1>4. e \in Room!Entry /\ e.thread = r.thread /\ e.part # "opens"
    BY <1>3, LogEntry
  <1>5. Room!Opened(r.thread) /\ ~Room!Closed(r.thread)
    BY <1>1, LogOfThread
  <1> HIDE DEF e
  <1> QED
    BY <1>2, <1>4, <1>5 DEF Room!Next, Room!Say

LEMMA QuietStepSaysNothing ==
    ASSUME messages' = messages
    PROVE  ReadAloud' = ReadAloud
  BY DEF ReadAloud, MessageNo, Spoken, NextNum, Nums

LEMMA RoomStep ==
    ASSUME LedgerInv, [LedgerNext]_ledger
    PROVE  Room!Next \/ ReadAloud' = ReadAloud
  <1>1. CASE \E r \in Requests : OpenThread(r) \/ AppendMessage(r)
    BY <1>1, OpenSays, AppendSays
  <1>2. CASE \E t \in ThreadId, s \in OperatorStatuses : SetAside(t, s)
    BY <1>2, QuietStepSaysNothing DEF SetAside
  <1>3. CASE UNCHANGED ledger
    BY <1>3, QuietStepSaysNothing DEF ledger
  <1> QED
    BY <1>1, <1>2, <1>3 DEF LedgerNext

LEMMA RoomInit == LedgerInit => Room!Init
  <1> SUFFICES ASSUME LedgerInit PROVE ReadAloud = <<>>
    BY DEF Room!Init
  <1>1. NextNum(messages) - 1 = 0
    BY DEF LedgerInit, NextNum
  <1> QED
    BY <1>1 DEF ReadAloud

-----------------------------------------------------------------------------
\* What clients read of the ledger is a chat log: a thread begins with the
\* entry that opens it and ends with the entry that closes it.
THEOREM LedgerImplementsRoom == LedgerSpec => RoomSpec
  <1>1. LedgerInv /\ [LedgerNext]_ledger => [Room!Next]_ReadAloud
    BY RoomStep
  <1> QED
    BY <1>1, RoomInit, LedgerInvHolds, PTL DEF LedgerSpec, RoomSpec, Room!Spec

\* And so is what they read of the server, whatever requests race, are
\* refused or are cut off.
THEOREM PathImplementsRoom == Spec => RoomSpec
  BY WritePathImplementsLedger, LedgerImplementsRoom, PTL

-----------------------------------------------------------------------------
(* Induction and recursion on numbers, from the theorem that a well-founded *)
(* relation has minima.  What is induced on is given as a set.             *)

\* A set of numbers has a least one.
LEMMA LeastNumber ==
    ASSUME NEW S, S \subseteq Nat, S # {}
    PROVE  \E n \in S : \A m \in S : n <= m
  <1>1. \A m, n \in Nat : <<m, n>> \in OpToRel(<, Nat) <=> m < n
    BY DEF OpToRel
  <1>2. PICK R : IsWellFoundedOn(R, Nat) /\ \A m, n \in Nat : <<m, n>> \in R <=> m < n
    BY <1>1, NatLessThanWellFounded, Zenon
  <1>3. IsWellFoundedOn(R, Nat)
    BY <1>2
  <1>4. \A m, n \in Nat : m < n => <<m, n>> \in R
    BY <1>2, Zenon
  <1>5. PICK n \in S : \A m \in S : ~(<<m, n>> \in R)
    BY WFMin, <1>3
  <1>6. \A m \in S : ~(m < n)
    BY <1>4, <1>5
  <1> QED
    BY <1>6

\* Induction, on sets of numbers.
LEMMA GeneralInduction ==
    ASSUME NEW S, \A n \in Nat : (\A m \in 0 .. n - 1 : m \in S) => n \in S
    PROVE  Nat \subseteq S
  <1> SUFFICES ASSUME Nat \ S # {} PROVE FALSE
    OBVIOUS
  <1>1. PICK n \in Nat \ S : \A m \in Nat \ S : n <= m
    BY LeastNumber
  <1> QED
    BY <1>1

LEMMA Induction ==
    ASSUME NEW S, 0 \in S, \A n \in Nat : n \in S => n + 1 \in S
    PROVE  Nat \subseteq S
  <1>1. ASSUME NEW n \in Nat, \A m \in 0 .. n - 1 : m \in S PROVE n \in S
    <2>1. CASE n # 0
      <3>1. n - 1 \in Nat /\ n - 1 \in 0 .. n - 1
        BY <2>1
      <3> QED
        BY <1>1, <3>1
    <2> QED
      BY <2>1
  <1> QED
    BY <1>1, GeneralInduction

\* Recursion: an equation whose right-hand side looks at the values for
\* smaller numbers only has a solution.
Recursive(D, V, F, G) ==
    /\ D \subseteq Nat /\ V # {} /\ F = [D -> V]
    /\ \A f \in F : G[f] \in F
    /\ \A f, g \in F : \A n \in D :
         (\A m \in D : m < n => f[m] = g[m]) => G[f][n] = G[g][n]

LEMMA Recursion ==
    ASSUME NEW D, NEW V, NEW F, NEW G, Recursive(D, V, F, G)
    PROVE  \E f \in F : G[f] = f
  <1> USE DEF Recursive
  <1> DEFINE Good(f, n) == \A m \in D : m < n => G[f][m] = f[m]
             Solved == {n \in Nat : \E f \in F : Good(f, n)}
  <1>1. 0 \in Solved
    <2> PICK v0 \in V : TRUE
      OBVIOUS
    <2>1. [m \in D |-> v0] \in F /\ Good([m \in D |-> v0], 0)
      OBVIOUS
    <2> QED
      BY <2>1
  <1>2. ASSUME NEW n \in Nat, n \in Solved PROVE n + 1 \in Solved
    <2>1. PICK f \in F : Good(f, n)
      BY <1>2
    <2>2. G[f] \in F
      OBVIOUS
    <2>3. ASSUME NEW m \in D, m < n + 1 PROVE G[G[f]][m] = G[f][m]
      <3>1. \A k \in D : k < m => G[f][k] = f[k]
        BY <2>1, <2>3
      <3> QED
        BY <2>2, <3>1
    <2>4. Good(G[f], n + 1)
      BY <2>3
    <2>5. \E g \in F : Good(g, n + 1)
      <3> HIDE DEF Good
      <3> QED
        BY <2>2, <2>4
    <2> QED
      BY <2>5
  <1>3. Nat \subseteq Solved
    <2> HIDE DEF Solved
    <2> QED
      BY <1>1, <1>2, Induction
  <1>4. ASSUME NEW n \in Nat, NEW f \in F, NEW g \in F,
               Good(f, n), Good(g, n)
        PROVE  \A m \in D : m < n => f[m] = g[m]
    <2> DEFINE Agree == {m \in Nat : m \in D /\ m < n => f[m] = g[m]}
    <2>1. ASSUME NEW m \in Nat, \A k \in 0 .. m - 1 : k \in Agree PROVE m \in Agree
      <3> SUFFICES ASSUME m \in D, m < n PROVE f[m] = g[m]
        OBVIOUS
      <3>1. \A k \in D : k < m => f[k] = g[k]
        BY <2>1
      <3>2. G[f][m] = G[g][m]
        BY <3>1
      <3> QED
        BY <1>4, <3>2
    <2>2. Nat \subseteq Agree
      <3> HIDE DEF Agree
      <3> QED
        BY <2>1, GeneralInduction
    <2> QED
      BY <2>2
  <1> DEFINE Upto(n) == CHOOSE f \in F : Good(f, n + 1)
             h == [n \in D |-> Upto(n)[n]]
  <1>5. ASSUME NEW n \in D PROVE Upto(n) \in F /\ Good(Upto(n), n + 1)
    <2>1. n + 1 \in Solved
      <3> HIDE DEF Solved
      <3> QED
        BY <1>3
    <2>2. \E f \in F : Good(f, n + 1)
      BY <2>1
    <2> HIDE DEF Good
    <2> QED
      BY <2>2
  <1> HIDE DEF Upto
  <1>6. h \in F
    BY <1>5
  <1>7. ASSUME NEW n \in D PROVE G[h][n] = h[n]
    <2>1. ASSUME NEW m \in D, m < n PROVE h[m] = Upto(n)[m]
      <3>1. Upto(n) \in F /\ Good(Upto(n), m + 1)
        BY <1>5, <2>1
      <3>2. Upto(m) \in F /\ Good(Upto(m), m + 1)
        BY <1>5
      <3>3. \A j \in D : j < m + 1 => Upto(m)[j] = Upto(n)[j]
        <4> HIDE DEF Good
        <4> QED
          BY <1>4, <3>1, <3>2
      <3>4. Upto(m)[m] = Upto(n)[m]
        BY <3>3
      <3> QED
        BY <3>4
    <2>2. G[h][n] = G[Upto(n)][n]
      BY <1>5, <1>6, <2>1
    <2>3. G[Upto(n)][n] = Upto(n)[n]
      <3>1. Good(Upto(n), n + 1) /\ n < n + 1
        BY <1>5
      <3> QED
        BY <3>1
    <2> QED
      BY <2>2, <2>3
  <1>8. G[h] \in F
    BY <1>6
  <1>9. G[h] = h
    BY <1>6, <1>7, <1>8
  <1> QED
    BY <1>6, <1>9
-----------------------------------------------------------------------------
(* The texts of numbers *)

Digit == 0 .. Base - 1

LEMMA DigitsOf ==
    ASSUME NEW n \in Nat
    PROVE  /\ n \div Base \in Nat /\ n % Base \in Digit
           /\ n = (n \div Base) * Base + (n % Base)
           /\ n >= Base => n \div Base < n
  BY PadAssumption DEF Digit

\* str: its equation, and its values are digits.
LEMMA StrEquation ==
    /\ Str \in [Nat -> Seq(Digit)]
    /\ \A n \in Nat : Str[n] = IF n < Base THEN <<n>>
                               ELSE Append(Str[n \div Base], n % Base)
  <1> DEFINE F == [Nat -> Seq(Digit)]
             Longer(f) == [n \in Nat |-> IF n < Base THEN <<n>>
                                         ELSE Append(f[n \div Base], n % Base)]
             G == [f \in F |-> Longer(f)]
  <1>1. \A f \in F : Longer(f) \in F
    <2> SUFFICES ASSUME NEW f \in F, NEW n \in Nat
                 PROVE  (IF n < Base THEN <<n>> ELSE Append(f[n \div Base], n % Base))
                          \in Seq(Digit)
      OBVIOUS
    <2>1. n < Base => n \in Digit
      BY PadAssumption DEF Digit
    <2>2. f[n \div Base] \in Seq(Digit) /\ n % Base \in Digit
      BY DigitsOf
    <2> QED
      BY <2>1, <2>2
  <1>2. G \in [F -> F]
    BY <1>1
  <1>3. ASSUME NEW f \in F, NEW g \in F, NEW n \in Nat,
               \A m \in Nat : m < n => f[m] = g[m]
        PROVE  G[f][n] = G[g][n]
    <2>1. CASE n < Base
      BY <2>1
    <2>2. CASE n >= Base
      <3>1. f[n \div Base] = g[n \div Base]
        BY <1>3, <2>2, DigitsOf
      <3> QED
        BY <3>1
    <2> QED
      BY <2>1, <2>2, PadAssumption
  <1>4. \E f \in F : G[f] = f
    <2> DEFINE V == Seq(Digit)
               D == Nat
    <2>1. V # {} /\ D \in SUBSET Nat /\ F = [D -> V]
      <3>1. <<>> \in V
        OBVIOUS
      <3> QED
        BY <3>1
    <2>2. \A f, g \in F : \A n \in D :
            (\A m \in D : m < n => f[m] = g[m]) => G[f][n] = G[g][n]
      BY <1>3
    <2>3. \A f \in F : G[f] \in F
      BY <1>2
    <2>4. Recursive(D, V, F, G)
      <3> HIDE DEF F, G, V, D
      <3> QED
        BY <2>1, <2>2, <2>3 DEF Recursive
    <2> HIDE DEF F, G, V, D
    <2> QED
      BY <2>4, Recursion
  <1>5. Str = Longer(Str)
    BY <1>4 DEF Str
  <1>6. \A n \in Nat : Str[n] = IF n < Base THEN <<n>>
                                ELSE Append(Str[n \div Base], n % Base)
    <2> HIDE DEF F, G
    <2> QED
      BY <1>5
  <1> DEFINE Typed == {n \in Nat : Str[n] \in Seq(Digit)}
  <1>7. ASSUME NEW n \in Nat, \A m \in 0 .. n - 1 : m \in Typed PROVE n \in Typed
    <2>1. CASE n < Base
      BY <1>5, <2>1, PadAssumption DEF Digit
    <2>2. CASE n >= Base
      <3>1. n \div Base \in 0 .. n - 1 /\ n % Base \in Digit
        BY <2>2, DigitsOf
      <3>2. Str[n \div Base] \in Seq(Digit)
        BY <1>7, <3>1
      <3>3. ~(n < Base)
        BY <2>2, PadAssumption
      <3>4. Str[n] = Append(Str[n \div Base], n % Base)
        BY <1>6, <3>3, Zenon
      <3>5. Append(Str[n \div Base], n % Base) \in Seq(Digit)
        BY <3>1, <3>2
      <3> QED
        BY <3>4, <3>5
    <2> QED
      BY <2>1, <2>2, PadAssumption
  <1>8. Nat \subseteq Typed
    <2> HIDE DEF Typed
    <2> QED
      BY <1>7, GeneralInduction
  <1> QED
    BY <1>5, <1>6, <1>8

\* Number: the value of every prefix, each from the one before it.
LEMMA NumberEquation ==
    ASSUME NEW text \in Seq(Nat)
    PROVE  \E v \in [0 .. Len(text) -> Nat] :
             /\ v[0] = 0
             /\ \A i \in 1 .. Len(text) : v[i] = v[i - 1] * Base + text[i]
             /\ Number(text) = v[Len(text)]
  <1> DEFINE D == 0 .. Len(text)
             F == [D -> Nat]
             Onward(f) == [i \in D |-> IF i = 0 THEN 0 ELSE f[i - 1] * Base + text[i]]
             G == [f \in F |-> Onward(f)]
  <1>1. \A f \in F : Onward(f) \in F
    <2> SUFFICES ASSUME NEW f \in F, NEW i \in D, i # 0
                 PROVE  f[i - 1] * Base + text[i] \in Nat
      OBVIOUS
    <2>1. f[i - 1] \in Nat /\ text[i] \in Nat
      OBVIOUS
    <2> QED
      BY <2>1, PadAssumption
  <1>2. G \in [F -> F]
    BY <1>1
  <1>3. \A f, g \in F : \A i \in D :
          (\A j \in D : j < i => f[j] = g[j]) => G[f][i] = G[g][i]
    <2> SUFFICES ASSUME NEW f \in F, NEW g \in F, NEW i \in D,
                        \A j \in D : j < i => f[j] = g[j]
                 PROVE  G[f][i] = G[g][i]
      OBVIOUS
    <2>1. i # 0 => i - 1 \in D /\ i - 1 < i
      OBVIOUS
    <2> QED
      BY <2>1
  <1>4. \E f \in F : G[f] = f
    <2> DEFINE V == Nat
    <2>1. V # {} /\ D \in SUBSET Nat /\ F = [D -> V]
      OBVIOUS
    <2>2. \A f \in F : G[f] \in F
      BY <1>2
    <2>3. Recursive(D, V, F, G)
      <3> HIDE DEF F, G, V, D
      <3> QED
        BY <1>3, <2>1, <2>2 DEF Recursive
    <2> HIDE DEF F, G, V, D
    <2> QED
      BY <2>3, Recursion
  <1> DEFINE v == CHOOSE f : f = Onward(f)
  <1>5. v = Onward(v)
    BY <1>4
  <1>6. Number(text) = v[Len(text)]
    BY DEF Number
  <1> HIDE DEF v
  <1> DEFINE Typed == {i \in Nat : i \in D => v[i] \in Nat}
  <1>7. 0 \in Typed
    BY <1>5
  <1>8. ASSUME NEW i \in Nat, i \in Typed PROVE i + 1 \in Typed
    <2> SUFFICES ASSUME i + 1 \in D PROVE v[i + 1] \in Nat
      OBVIOUS
    <2>1. v[i] \in Nat /\ text[i + 1] \in Nat
      BY <1>8
    <2>2. v[i + 1] = v[i] * Base + text[i + 1]
      BY <1>5
    <2>3. v[i] * Base \in Nat
      BY <2>1, PadAssumption
    <2> QED
      BY <2>1, <2>2, <2>3
  <1>9. Nat \subseteq Typed
    <2> HIDE DEF Typed
    <2> QED
      BY <1>7, <1>8, Induction
  <1>10. \A i \in D : v[i] \in Nat
    BY <1>9
  <1>11. v \in [D -> Nat]
    BY <1>5, <1>10
  <1>12. v[0] = 0 /\ \A i \in 1 .. Len(text) : v[i] = v[i - 1] * Base + text[i]
    BY <1>5
  <1> QED
    BY <1>6, <1>11, <1>12
LEMMA NumberType ==
    ASSUME NEW text \in Seq(Nat)
    PROVE  Number(text) \in Nat
  BY NumberEquation

\* A digit more at the end.
LEMMA NumberAppend ==
    ASSUME NEW text \in Seq(Nat), NEW d \in Nat
    PROVE  Number(Append(text, d)) = Number(text) * Base + d
  <1> DEFINE more == Append(text, d)
  <1>1. more \in Seq(Nat) /\ Len(more) = Len(text) + 1 /\ more[Len(text) + 1] = d
        /\ \A i \in 1 .. Len(text) : more[i] = text[i]
    OBVIOUS
  <1>2. PICK v \in [0 .. Len(text) -> Nat] :
             /\ v[0] = 0
             /\ \A i \in 1 .. Len(text) : v[i] = v[i - 1] * Base + text[i]
             /\ Number(text) = v[Len(text)]
    BY NumberEquation
  <1> HIDE DEF more
  <1>3. PICK w \in [0 .. Len(more) -> Nat] :
             /\ w[0] = 0
             /\ \A i \in 1 .. Len(more) : w[i] = w[i - 1] * Base + more[i]
             /\ Number(more) = w[Len(more)]
    BY <1>1, NumberEquation
  <1> DEFINE Same == {i \in Nat : i \in 0 .. Len(text) => v[i] = w[i]}
  <1>4. 0 \in Same
    BY <1>2, <1>3
  <1>5. ASSUME NEW i \in Nat, i \in Same PROVE i + 1 \in Same
    <2> SUFFICES ASSUME i + 1 \in 0 .. Len(text) PROVE v[i + 1] = w[i + 1]
      OBVIOUS
    <2>1. i + 1 \in 1 .. Len(text) /\ i + 1 \in 1 .. Len(more) /\ (i + 1) - 1 = i
      BY <1>1
    <2>2. v[i] = w[i]
      BY <1>5, <2>1
    <2>3. v[i + 1] = v[i] * Base + text[i + 1]
      BY <1>2, <2>1
    <2>4. w[i + 1] = w[i] * Base + more[i + 1]
      BY <1>3, <2>1
    <2> QED
      BY <1>1, <2>1, <2>2, <2>3, <2>4
  <1>6. Nat \subseteq Same
    <2> HIDE DEF Same
    <2> QED
      BY <1>4, <1>5, Induction
  <1>7. v[Len(text)] = w[Len(text)]
    BY <1>6
  <1>8. Len(text) + 1 \in 1 .. Len(more) /\ (Len(text) + 1) - 1 = Len(text)
    BY <1>1
  <1>9. w[Len(text) + 1] = w[Len(text)] * Base + more[Len(text) + 1]
    BY <1>3, <1>8
  <1>10. Number(more) = Number(text) * Base + d
    BY <1>1, <1>2, <1>3, <1>7, <1>9
  <1> QED
    BY <1>10 DEF more

LEMMA NumberOfZeros ==
    ASSUME NEW k \in Nat
    PROVE  Zeros(k) \in Seq(Nat) /\ Len(Zeros(k)) = k /\ Number(Zeros(k)) = 0
  <1>1. Zeros(k) \in Seq(Nat) /\ Len(Zeros(k)) = k /\ \A i \in 1 .. k : Zeros(k)[i] = 0
    BY DEF Zeros
  <1> DEFINE text == Zeros(k)
  <1> HIDE DEF text
  <1>2. PICK v \in [0 .. k -> Nat] :
             /\ v[0] = 0
             /\ \A i \in 1 .. k : v[i] = v[i - 1] * Base + text[i]
             /\ Number(text) = v[k]
    BY <1>1, NumberEquation DEF text
  <1> DEFINE Nought == {i \in Nat : i \in 0 .. k => v[i] = 0}
  <1>3. 0 \in Nought
    BY <1>2
  <1>4. ASSUME NEW i \in Nat, i \in Nought PROVE i + 1 \in Nought
    <2> SUFFICES ASSUME i + 1 \in 0 .. k PROVE v[i + 1] = 0
      OBVIOUS
    <2>1. i + 1 \in 1 .. k /\ (i + 1) - 1 = i /\ v[i] = 0
      BY <1>4
    <2>2. v[i + 1] = v[i] * Base + text[i + 1] /\ text[i + 1] = 0
      BY <1>1, <1>2, <2>1 DEF text
    <2> QED
      BY <2>1, <2>2, PadAssumption
  <1>5. Nat \subseteq Nought
    <2> HIDE DEF Nought
    <2> QED
      BY <1>3, <1>4, Induction
  <1>6. Number(text) = 0
    BY <1>2, <1>5
  <1> QED
    BY <1>1, <1>6 DEF text

LEMMA ConcatAppend ==
    ASSUME NEW s \in Seq(Nat), NEW t \in Seq(Nat), NEW d \in Nat
    PROVE  s \o Append(t, d) = Append(s \o t, d) /\ s \o t \in Seq(Nat)
  <1>1. s \o t \in Seq(Nat) /\ <<d>> \in Seq(Nat)
    OBVIOUS
  <1>2. Append(t, d) = t \o <<d>>
    BY AppendIsConcat
  <1>3. Append(s \o t, d) = (s \o t) \o <<d>>
    BY <1>1, AppendIsConcat
  <1>4. (s \o t) \o <<d>> = s \o (t \o <<d>>)
    BY <1>1, ConcatAssociative
  <1> QED
    BY <1>1, <1>2, <1>3, <1>4

\* However far it is padded, a text of n is read as n.
LEMMA PaddingIsRead ==
    ASSUME NEW k \in Nat, NEW n \in Nat
    PROVE  Number(Zeros(k) \o Str[n]) = n
  <1> DEFINE Read == {m \in Nat : Number(Zeros(k) \o Str[m]) = m}
  <1>1. ASSUME NEW m \in Nat, \A j \in 0 .. m - 1 : j \in Read PROVE m \in Read
    <2>1. CASE m < Base
      <3>1. Str[m] = <<m>>
        BY <2>1, StrEquation, Zenon
      <3>2. Zeros(k) \o <<m>> = Append(Zeros(k), m)
        BY NumberOfZeros
      <3>3. Number(Append(Zeros(k), m)) = 0 * Base + m
        BY NumberOfZeros, NumberAppend
      <3>4. 0 * Base + m = m
        BY PadAssumption
      <3> QED
        BY <3>1, <3>2, <3>3, <3>4
    <2>2. CASE ~(m < Base)
      <3> DEFINE q == m \div Base
                 d == m % Base
      <3>1. q \in 0 .. m - 1 /\ q \in Nat /\ d \in Nat /\ m = q * Base + d
        <4>1. m >= Base
          BY <2>2, PadAssumption
        <4>2. /\ q \in Nat /\ d \in Digit
              /\ m = q * Base + d
              /\ q < m
          BY <4>1, DigitsOf, Zenon
        <4> HIDE DEF q, d
        <4> QED
          BY <4>2, PadAssumption DEF Digit
      <3>2. Str[m] = Append(Str[q], d)
        BY <2>2, StrEquation, Zenon
      <3> HIDE DEF q, d
      <3>3. Str[q] \in Seq(Nat)
        <4>1. Str[q] \in Seq(Digit)
          BY <3>1, StrEquation
        <4> QED
          BY <4>1, PadAssumption DEF Digit
      <3>4. Zeros(k) \o Append(Str[q], d) = Append(Zeros(k) \o Str[q], d)
            /\ Zeros(k) \o Str[q] \in Seq(Nat)
        BY <3>1, <3>3, NumberOfZeros, ConcatAppend
      <3>5. Number(Zeros(k) \o Str[q]) = q
        BY <1>1, <3>1
      <3>6. Number(Append(Zeros(k) \o Str[q], d)) = q * Base + d
        BY <3>1, <3>4, <3>5, NumberAppend
      <3> QED
        BY <3>1, <3>2, <3>4, <3>6
    <2> QED
      BY <2>1, <2>2
  <1>2. Nat \subseteq Read
    <2> HIDE DEF Read
    <2> QED
      BY <1>1, GeneralInduction
  <1> QED
    BY <1>2

\* A number read back from its text is the number, whatever the width: the
\* conversions of the allocator, format_msg_id and parse_msg_id, are inverse.
THEOREM FormatIsRead == \A n \in Nat : Number(Format(n)) = n
  <1> SUFFICES ASSUME NEW n \in Nat PROVE Number(Format(n)) = n
    OBVIOUS
  <1>1. Len(Str[n]) \in Nat
    BY StrEquation
  <1>2. CASE MinPad - Len(Str[n]) \in Nat
    BY <1>2, PaddingIsRead DEF Format
  <1>3. CASE MinPad - Len(Str[n]) \notin Nat
    <2>1. Zeros(MinPad - Len(Str[n])) = Zeros(0)
      BY <1>1, <1>3, PadAssumption DEF Zeros
    <2> QED
      BY <2>1, PaddingIsRead DEF Format
  <1> QED
    BY <1>2, <1>3
-----------------------------------------------------------------------------
(* The allocator on texts *)

LEMMA SameNumber == \A text : Ids!Number(text) = Number(text)
  BY DEF Ids!Number, Number

LEMMA SameFormat == \A n : Ids!Format(n) = Format(n)
  BY DEF Ids!Format, Format, Ids!Zeros, Zeros, Ids!Str, Str

Texts == {Format(n) : n \in Nums(messages)}

\* The newest text is that of the greatest number.
LEMMA NewestIsGreatest ==
    ASSUME NEW k \in Nat, Nums(messages) = 1 .. k
    PROVE  (IF Texts = {} THEN 1 ELSE Ids!Number(Ids!Newest) + 1) = k + 1
  <1>1. \A n \in 1 .. k : Number(Format(n)) = n
    BY FormatIsRead
  <1>2. Texts = {} <=> k = 0
    <2>1. Texts = {} <=> 1 .. k = {}
      BY DEF Texts
    <2> QED
      BY <2>1
  <1>3. CASE k = 0
    BY <1>2, <1>3
  <1>4. CASE k # 0
    <2> DEFINE P(a) == \A b \in Texts : Number(b) <= Number(a)
    <2>1. Format(k) \in Texts /\ P(Format(k))
      BY <1>1, <1>4 DEF Texts
    <2>2. \A a \in Texts : P(a) => Number(a) = k
      BY <1>1, <1>4 DEF Texts
    <2>3. Ids!Newest = CHOOSE a \in Texts : P(a)
      BY SameNumber DEF Ids!Newest, Texts
    <2>4. Number(Ids!Newest) = k
      <3> HIDE DEF P
      <3> QED
        BY <2>1, <2>2, <2>3
    <2> QED
      BY <1>2, <1>4, <2>4, SameNumber
  <1> QED
    BY <1>3, <1>4

\* A message more is a text more, and it is the one the allocator makes.
LEMMA AppendAllocates ==
    ASSUME LedgerInv, NEW n \in Nat, NEW r, Nums(messages) = 1 .. n,
           messages' = messages \cup {NewMessage(r, n + 1)}
    PROVE  Ids!Allocate
  <1>1. Nums(messages') = Nums(messages) \cup {n + 1}
    <2>1. NewMessage(r, n + 1).num = n + 1
      BY DEF NewMessage
    <2> QED
      BY <2>1 DEF Nums
  <1>2. {Format(k) : k \in Nums(messages')}
          = Texts \cup {Format(n + 1)}
    BY <1>1 DEF Texts
  <1>3. (IF Texts = {} THEN 1 ELSE Ids!Number(Ids!Newest) + 1) = n + 1
    BY NewestIsGreatest
  <1> QED
    BY <1>2, <1>3, SameFormat DEF Ids!Allocate, Texts

LEMMA IdStep ==
    ASSUME LedgerInv, [LedgerNext]_ledger
    PROVE  Ids!Allocate \/ Nums(messages') = Nums(messages)
  <1>1. CASE \E r \in Requests : OpenThread(r)
    BY <1>1, OpenFacts, AppendAllocates
  <1>2. CASE \E r \in Requests : AppendMessage(r)
    BY <1>2, AppendFacts, AppendAllocates
  <1>3. CASE \E t \in ThreadId, s \in OperatorStatuses : SetAside(t, s)
    BY <1>3 DEF SetAside, Nums
  <1>4. CASE UNCHANGED ledger
    BY <1>4 DEF ledger, Nums
  <1> QED
    BY <1>1, <1>2, <1>3, <1>4 DEF LedgerNext

\* The next id is made from the texts that are stored, whatever their widths,
\* and it is the one the ledger counts on to.
THEOREM LedgerImplementsIds == LedgerSpec => IdSpec
  <1>1. LedgerInit => Ids!Init
    BY DEF LedgerInit, Ids!Init, Nums
  <1>2. LedgerInv /\ [LedgerNext]_ledger
          => [Ids!Allocate]_{Format(n) : n \in Nums(messages)}
    BY IdStep
  <1> QED
    BY <1>1, <1>2, LedgerInvHolds, PTL DEF LedgerSpec, IdSpec, Ids!Spec

\* And so the ids of the server are made from the texts it has stored,
\* whatever requests race, are refused or are cut off.
THEOREM PathImplementsIds == Spec => IdSpec
  BY WritePathImplementsLedger, LedgerImplementsIds, PTL
=============================================================================
