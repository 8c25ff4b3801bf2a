-------------------------- MODULE ThreadViewProofs --------------------------
(***************************************************************************)
(* Proofs about the thread view and its digests, for any number of readers *)
(* and producers, threads and styles: an answer put together from several  *)
(* snapshots says nothing that is not so.                                  *)
(*                                                                         *)
(* The invariant behind it: what an answer has collected is still in its   *)
(* thread, because messages stay; a resolved thread stays as it was read;  *)
(* and what a producer has written is what it sees, whatever is committed  *)
(* beside it.                                                              *)
(***************************************************************************)
EXTENDS ThreadView, LedgerProofs, FiniteSetTheorems

Asked(c) == ask[c].thread

Here(c) == Nums(InThread(messages, Asked(c)))

\* What a producer stores.
Own(c) == [covers |-> ask[c].covers, at |-> ask[c].at]

Resolved(c) == answer[c].row.status = "resolved"

\* A reader that has read the row of its thread.
Begun(c) ==
    \/ pc[c] \in {"messages", "head", "digest", "behind"}
    \/ pc[c] = "done" /\ answer[c].row # None

PartsInv(c) ==
    /\ pc[c] = "idle" => answer[c] = Nothing
    /\ pc[c] \notin {"idle", "done"} => Asked(c) \in DOMAIN threads
    /\ \A m \in answer[c].messages : m \in InThread(messages, Asked(c))
    /\ pc[c] \in {"digest", "behind", "commit"} => answer[c].head \in Here(c)
    /\ pc[c] = "behind" => answer[c].digest \in Digest
    /\ pc[c] \notin {"commit", "done"} => answer[c].behind = None
    /\ answer[c].behind = 0 =>
         /\ \A m \in answer[c].messages : m.num <= answer[c].digest.covers
         /\ answer[c].head <= answer[c].digest.covers

ReaderInv(c) ==
    /\ pc[c] \notin {"upsert", "commit"}
    /\ mine[c] = None
    /\ Begun(c) =>
         /\ answer[c].row \in Thread
         /\ Resolved(c) => Asked(c) \in DOMAIN threads /\ threads[Asked(c)] = answer[c].row
    /\ (Begun(c) /\ pc[c] # "messages" /\ Resolved(c) /\ ask[c].mode = "summary") =>
         \E m \in messages : answer[c].messages = {m} /\ m.closes = Asked(c)
    /\ (Begun(c) /\ pc[c] \notin {"messages", "head"} /\ Resolved(c)) =>
         answer[c].head = answer[c].row.resolved_by

ProducerInv(c) ==
    /\ pc[c] # "messages"
    /\ pc[c] \notin {"idle", "done"} =>
         /\ Own(c) \in Digest
         /\ ask[c].style \in Style
         /\ ask[c].covers \in Here(c)
    /\ mine[c] = IF pc[c] \in {"idle", "upsert", "done"} THEN None ELSE Own(c)
    /\ pc[c] \in {"behind", "commit"} \/ Answered(c) => answer[c].digest = Own(c)

\* The message that closed a resolved thread is there, and closes it.
ClosedByMessage ==
    \A t \in DOMAIN threads : threads[t].resolved_by # None =>
        \E m \in messages : m.num = threads[t].resolved_by /\ m.closes = t

ViewInv ==
    /\ LedgerInv
    /\ ClosedByMessage
    /\ IsFiniteSet(messages)
    /\ IsFiniteSet(DOMAIN digests)
    /\ ViewTypeOK
    /\ DigestInThread
    /\ \A c \in Client : PartsInv(c)
    /\ \A c \in Reader : ReaderInv(c)
    /\ \A c \in Producer : ProducerInv(c)

-----------------------------------------------------------------------------
(* The ledger beside them *)

LEMMA ClosedByMessageStays ==
    ASSUME LedgerInv, ClosedByMessage, IsFiniteSet(messages), [LedgerNext]_ledger
    PROVE  ClosedByMessage' /\ IsFiniteSet(messages')
  <1>1. ASSUME NEW r \in Requests, OpenThread(r)
        PROVE  ClosedByMessage' /\ IsFiniteSet(messages')
    <2>1. PICK n \in Nat :
            /\ r.thread \notin DOMAIN threads
            /\ threads' = Put(threads, r.thread, OpenedThread(r, n + 1))
            /\ messages' = messages \cup {NewMessage(r, n + 1)}
      BY <1>1, OpenFacts
    <2>2. OpenedThread(r, n + 1).resolved_by = None
      BY DEF OpenedThread
    <2>3. IsFiniteSet(messages')
      BY <2>1, FS_AddElement
    <2> QED
      BY <2>1, <2>2, <2>3 DEF ClosedByMessage, Put
  <1>2. ASSUME NEW r \in Requests, AppendMessage(r)
        PROVE  ClosedByMessage' /\ IsFiniteSet(messages')
    <2> DEFINE row == threads[r.thread]
    <2>1. PICK n \in Nat :
            /\ r.thread \in DOMAIN threads /\ row \in Thread
            /\ row.status # "resolved"
            /\ threads' = Put(threads, r.thread, ThreadAfter(row, r, n + 1))
            /\ messages' = messages \cup {NewMessage(r, n + 1)}
      BY <1>2, AppendFacts
    <2> DEFINE after == ThreadAfter(row, r, n + 1)
    <2>2. /\ NewMessage(r, n + 1).num = n + 1
          /\ NewMessage(r, n + 1).closes = r.closes
      BY DEF NewMessage
    <2>3. after.resolved_by = IF ClosesItsThread(r) THEN n + 1 ELSE row.resolved_by
      BY <2>1, ThreadAfterFields
    <2>4. row.resolved_by = None
      BY <2>1 DEF LedgerInv, ResolvedByItsLastMessage
    <2>5. after.resolved_by # None =>
            NewMessage(r, n + 1).num = after.resolved_by /\ NewMessage(r, n + 1).closes = r.thread
      BY <2>2, <2>3, <2>4 DEF ClosesItsThread
    <2>6. /\ DOMAIN threads' = DOMAIN threads
          /\ threads'[r.thread] = after
          /\ \A k \in DOMAIN threads : k # r.thread => threads'[k] = threads[k]
      <3>1. threads' = Put(threads, r.thread, after)
        BY <2>1
      <3> HIDE DEF after
      <3> QED
        BY <2>1, <3>1 DEF Put
    <2>7. IsFiniteSet(messages')
      BY <2>1, FS_AddElement
    <2> HIDE DEF after
    <2> QED
      BY <2>1, <2>5, <2>6, <2>7 DEF ClosedByMessage
  <1>3. ASSUME NEW t \in ThreadId, NEW s \in OperatorStatuses, SetAside(t, s)
        PROVE  ClosedByMessage' /\ IsFiniteSet(messages')
    BY <1>3 DEF SetAside, ClosedByMessage, LedgerInv, LedgerTypeOK, Thread
  <1>4. CASE UNCHANGED ledger
    BY <1>4 DEF ledger, ClosedByMessage
  <1> QED
    BY <1>1, <1>2, <1>3, <1>4 DEF LedgerNext

\* Nothing behind a position in a finite set of messages is nothing at all.
LEMMA NothingBehind ==
    ASSUME LedgerInv, IsFiniteSet(messages), NEW t, NEW n \in Nat
    PROVE  /\ CountBehind(t, n) \in Nat
           /\ CountBehind(t, n) = 0 => \A k \in Nums(InThread(messages, t)) : k <= n
  <1> DEFINE later == {m \in InThread(messages, t) : m.num > n}
  <1>1. IsFiniteSet(later)
    <2>1. later \in SUBSET messages
      BY DEF InThread
    <2> QED
      BY <2>1, FS_Subset
  <1>2. Cardinality(later) \in Nat /\ (Cardinality(later) = 0 => later = {})
    BY <1>1, FS_CardinalityType, FS_EmptySet
  <1>3. later = {} => \A m \in InThread(messages, t) : m.num <= n
    BY DEF LedgerInv, LedgerTypeOK, Message, InThread
  <1>4. later = {} => \A k \in Nums(InThread(messages, t)) : k <= n
    BY <1>3 DEF Nums
  <1>5. CountBehind(t, n) = Cardinality(later)
    BY DEF CountBehind
  <1> QED
    BY <1>2, <1>4, <1>5

LEMMA HeadOfThread ==
    ASSUME LedgerInv, NEW t \in DOMAIN threads
    PROVE  /\ HeadOf(t) = threads[t].last
           /\ HeadOf(t) \in Nums(InThread(messages, t))
           /\ threads[t].status = "resolved" => HeadOf(t) = threads[t].resolved_by
  <1>1. HeadOf(t) = threads[t].last
    BY NewestOfThread DEF HeadOf
  <1> QED
    BY <1>1 DEF LedgerInv, ActivityKeyExact, ResolvedByItsLastMessage

-----------------------------------------------------------------------------
(* Steps of one client *)

\* A step of c leaves the others where they are.
LEMMA OneClientStep ==
    ASSUME ViewInv, NEW c \in Client, UNCHANGED ledger,
           \A a \in Client \ {c} : /\ pc'[a] = pc[a] /\ ask'[a] = ask[a]
                                   /\ mine'[a] = mine[a] /\ answer'[a] = answer[a],
           IsFiniteSet(DOMAIN digests'), ViewTypeOK', DigestInThread', PartsInv(c)',
           c \in Reader => ReaderInv(c)', c \in Producer => ProducerInv(c)'
    PROVE  ViewInv'
  <1>1. threads' = threads /\ messages' = messages /\ events' = events
    BY DEF ledger
  <1>2. LedgerInv' /\ ClosedByMessage' /\ IsFiniteSet(messages')
    BY <1>1, StutterPreserves DEF ViewInv, ClosedByMessage
  <1>3. ASSUME NEW a \in Client, a # c
        PROVE  PartsInv(a)'
    BY <1>1, <1>3 DEF ViewInv, PartsInv, Asked, Here
  <1>4. ASSUME NEW a \in Reader, a # c
        PROVE  ReaderInv(a)'
    BY <1>1, <1>4 DEF ViewInv, ReaderInv, Asked, Begun, Resolved, Client
  <1>5. ASSUME NEW a \in Producer, a # c
        PROVE  ProducerInv(a)'
    BY <1>1, <1>5 DEF ViewInv, ProducerInv, Asked, Here, Own, Answered, Client
  <1> QED
    BY <1>2, <1>3, <1>4, <1>5 DEF ViewInv

LEMMA ClientKind ==
    ASSUME ViewInv, NEW c \in Client
    PROVE  /\ c \in Reader => c \notin Producer
           /\ pc[c] \in {"upsert", "commit"} => c \in Producer
           /\ pc[c] = "messages" => c \in Reader
           /\ PartsInv(c)
           /\ c \in Reader => ReaderInv(c)
           /\ c \in Producer => ProducerInv(c)
  BY ViewAssumption DEF ViewInv, ReaderInv, ProducerInv, Client

\* The fields of an answer.
Answer == [row : Thread \cup {None}, messages : SUBSET Message, head : Nat \cup {None},
           digest : Digest \cup {None}, behind : Nat \cup {None}]

Stage == {"idle", "messages", "upsert", "head", "digest", "behind", "commit", "done"}

ReadRequest == [thread : ThreadId, mode : {"full", "summary"}, style : Wanted]
PutRequest == [thread : ThreadId, style : Style, covers : Nat, at : Nat]

\* What a step of c that writes its part of pc and answer has to show.
LEMMA StepTypes ==
    ASSUME ViewInv, NEW c \in Client, NEW x \in Stage, NEW a \in Answer,
           pc' = [pc EXCEPT ![c] = x], answer' = [answer EXCEPT ![c] = a],
           UNCHANGED ledger,
           DOMAIN digests' \subseteq Key, \A k \in DOMAIN digests' : digests'[k] \in Digest,
           clock' \in Nat, keyLock' \in [Key -> Producer \cup {None}],
           ask' \in [Client -> ReadRequest \cup PutRequest \cup {None}],
           mine' \in [Client -> Digest \cup {None}]
    PROVE  /\ ViewTypeOK'
           /\ pc'[c] = x /\ answer'[c] = a
           /\ \A b \in Client \ {c} : pc'[b] = pc[b] /\ answer'[b] = answer[b]
  <1>1. pc \in [Client -> Stage] /\ answer \in [Client -> Answer]
    BY DEF ViewInv, ViewTypeOK, Stage, Answer
  <1>2. pc' \in [Client -> Stage] /\ answer' \in [Client -> Answer]
    BY <1>1
  <1>3. LedgerTypeOK'
    BY DEF ledger, ViewInv, ViewTypeOK, LedgerTypeOK
  <1>4. ViewTypeOK'
    BY <1>2, <1>3 DEF ViewTypeOK, Stage, Answer, ReadRequest, PutRequest
  <1> QED
    BY <1>1, <1>4

\* The types a step may rely on.
LEMMA TypesNow ==
    ASSUME ViewInv
    PROVE  /\ DOMAIN digests \subseteq Key /\ \A k \in DOMAIN digests : digests[k] \in Digest
           /\ clock \in Nat /\ keyLock \in [Key -> Producer \cup {None}]
           /\ pc \in [Client -> Stage] /\ answer \in [Client -> Answer]
           /\ ask \in [Client -> ReadRequest \cup PutRequest \cup {None}]
           /\ mine \in [Client -> Digest \cup {None}]
  BY DEF ViewInv, ViewTypeOK, Stage, Answer, ReadRequest, PutRequest

LEMMA QuietDigests ==
    ASSUME ViewInv, UNCHANGED <<ledger, digests>>
    PROVE  DigestInThread' /\ IsFiniteSet(DOMAIN digests')
  BY DEF ViewInv, DigestInThread, ledger

LEMMA ReadThreadStep ==
    ASSUME ViewInv, NEW c \in Reader, NEW t \in ThreadId,
           NEW mode \in {"full", "summary"}, NEW s \in Wanted, ReadThread(c, t, mode, s)
    PROVE  ViewInv'
  <1> DEFINE q == [thread |-> t, mode |-> mode, style |-> s]
             a == [Nothing EXCEPT !.row = threads[t]]
  <1>1. /\ pc[c] = "idle" /\ t \in DOMAIN threads
        /\ ask' = [ask EXCEPT ![c] = q]
        /\ answer' = [answer EXCEPT ![c].row = threads[t]]
        /\ pc' = [pc EXCEPT ![c] = "messages"]
        /\ UNCHANGED <<ledger, digests, clock, keyLock, mine>>
    BY DEF ReadThread, Goto
  <1>2. threads' = threads /\ messages' = messages /\ events' = events
    BY <1>1 DEF ledger
  <1>3. c \in Client
    BY DEF Client
  <1>4. answer[c] = Nothing /\ threads[t] \in Thread
    BY <1>1, <1>3, ClientKind DEF PartsInv, ViewInv, LedgerInv, LedgerTypeOK
  <1>5. /\ a.row = threads[t] /\ a.messages = {}
        /\ a.head = None /\ a.digest = None /\ a.behind = None
        /\ a \in Answer
    BY <1>4 DEF Nothing, Answer
  <1>6. answer' = [answer EXCEPT ![c] = a]
    BY <1>1, <1>4
  <1>7. /\ ask' \in [Client -> ReadRequest \cup PutRequest \cup {None}]
        /\ ask'[c] = q
        /\ \A b \in Client \ {c} : ask'[b] = ask[b]
    <2>1. q \in ReadRequest
      BY DEF ReadRequest
    <2> HIDE DEF q
    <2> QED
      BY <1>1, <1>3, <2>1, TypesNow
  <1> HIDE DEF a
  <1>8. /\ ViewTypeOK' /\ pc'[c] = "messages" /\ answer'[c] = a
        /\ \A b \in Client \ {c} : pc'[b] = pc[b] /\ answer'[b] = answer[b]
    <2>1. "messages" \in Stage
      BY DEF Stage
    <2> QED
      BY <1>1, <1>3, <1>5, <1>6, <1>7, <2>1, StepTypes, TypesNow
  <1>9. PartsInv(c)'
    <2>1. Asked(c)' = t /\ t \in DOMAIN threads'
      BY <1>1, <1>2, <1>7 DEF Asked
    <2>2. answer'[c].messages = {} /\ answer'[c].behind = None /\ answer'[c].behind # 0
      BY <1>5, <1>8, NoneAssumption
    <2> QED
      BY <1>8, <2>1, <2>2 DEF PartsInv
  <1>10. ReaderInv(c)'
    BY <1>1, <1>2, <1>3, <1>4, <1>5, <1>7, <1>8, ClientKind DEF ReaderInv, Begun, Resolved, Asked
  <1>11. c \notin Producer
    BY ViewAssumption
  <1> QED
    BY <1>1, <1>3, <1>7, <1>8, <1>9, <1>10, <1>11, QuietDigests, OneClientStep

-----------------------------------------------------------------------------
(* The digest that is read *)

\* A finite set of keys has one whose row was stored last.
LEMMA NewestRow ==
    ASSUME NEW S, IsFiniteSet(S), S # {}, NEW table, \A k \in S : table[k].at \in Nat
    PROVE  \E k \in S : \A j \in S : table[j].at <= table[k].at
  <1> DEFINE above(k) == {j \in S : table[j].at > table[k].at}
             T == {above(k) : k \in S}
  <1>1. T \subseteq FiniteSubsetsOf(S)
    <2>1. \A k \in S : above(k) \in SUBSET S /\ IsFiniteSet(above(k))
      BY FS_Subset
    <2> QED
      BY <2>1 DEF FiniteSubsetsOf
  <1>2. T # {}
    OBVIOUS
  <1>3. PICK a \in T : \A b \in T : ~ (<<b, a>> \in StrictSubsetOrdering(S))
    <2> HIDE DEF T
    <2> QED
      BY <1>1, <1>2, FS_StrictSubsetOrderingWellFounded, WFMin
  <1>4. PICK k \in S : a = above(k)
    BY <1>3
  <1>5. above(k) = {}
    <2>1. SUFFICES ASSUME NEW j \in above(k)
                   PROVE  FALSE
      OBVIOUS
    <2>2. j \in S /\ above(j) \in T /\ above(j) \subseteq S /\ above(k) \subseteq S
      BY <2>1
    <2>3. above(j) \subseteq above(k) /\ j \notin above(j) /\ j \in above(k)
      BY <2>1
    <2> HIDE DEF above
    <2>4. <<above(j), above(k)>> \in StrictSubsetOrdering(S)
      BY <2>2, <2>3 DEF StrictSubsetOrdering
    <2> QED
      BY <1>3, <1>4, <2>2, <2>4
  <1>6. \A j \in S : ~ (table[j].at > table[k].at)
    BY <1>5
  <1> QED
    BY <1>6

\* A row of the thread and style is found if there is one.
LEMMA PickFinds ==
    ASSUME NEW table, IsFiniteSet(DOMAIN table), \A k \in DOMAIN table : table[k] \in Digest,
           NEW t, NEW s
    PROVE  LET K == {x \in DOMAIN table : x[1] = t /\ s \in {None, x[2]}} IN
           IF K = {} THEN Pick(table, t, s) = None
           ELSE \E k \in K : Pick(table, t, s) = table[k]
  <1> DEFINE K == {x \in DOMAIN table : x[1] = t /\ s \in {None, x[2]}}
             rows == {table[k] : k \in K}
  <1>1. Pick(table, t, s) = IF rows = {} THEN None
                            ELSE CHOOSE d \in rows : \A e \in rows : e.at <= d.at
    BY DEF Pick
  <1>2. CASE K = {}
    BY <1>1, <1>2
  <1>3. CASE K # {}
    <2>1. IsFiniteSet(K) /\ \A k \in K : table[k].at \in Nat
      <3>1. K \in SUBSET DOMAIN table
        OBVIOUS
      <3> QED
        BY <3>1, FS_Subset DEF Digest
    <2>2. PICK k \in K : \A j \in K : table[j].at <= table[k].at
      <3> HIDE DEF K
      <3> QED
        BY <1>3, <2>1, NewestRow
    <2>3. \E d \in rows : \A e \in rows : e.at <= d.at
      BY <2>2
    <2>4. Pick(table, t, s) \in rows
      <3> HIDE DEF rows
      <3> QED
        BY <1>1, <2>3
    <2> QED
      BY <1>3, <2>4
  <1> QED
    BY <1>2, <1>3

\* What a client sees; a producer that has written sees its own row.
LEMMA VisibleFacts ==
    ASSUME ViewInv, NEW c \in Client
    PROVE  /\ DOMAIN Visible(c) \subseteq Key
           /\ IsFiniteSet(DOMAIN Visible(c))
           /\ \A k \in DOMAIN Visible(c) : Visible(c)[k] \in Digest
           /\ c \in Reader => Visible(c) = digests
           /\ (c \in Producer /\ pc[c] \in {"head", "digest", "behind", "commit"}) =>
                /\ <<Asked(c), ask[c].style>> \in Key
                /\ Visible(c) = Put(digests, <<Asked(c), ask[c].style>>, Own(c))
  <1>1. CASE c \in Reader
    <2>1. Visible(c) = digests /\ c \notin Producer
      BY <1>1, ClientKind DEF ReaderInv, Visible
    <2> QED
      BY <2>1, TypesNow DEF ViewInv
  <1>2. CASE c \in Producer /\ mine[c] = None
    <2>1. Visible(c) = digests /\ c \notin Reader
      BY <1>2, ClientKind DEF Visible
    <2>2. pc[c] \notin {"head", "digest", "behind", "commit"}
      BY <1>2, ClientKind, ViewAssumption, TypesNow DEF ProducerInv
    <2> QED
      BY <2>1, <2>2, TypesNow DEF ViewInv
  <1>3. CASE c \in Producer /\ mine[c] # None
    <2>1. /\ pc[c] \notin {"idle", "upsert", "done"}
          /\ mine[c] = Own(c) /\ Own(c) \in Digest /\ ask[c].style \in Style
          /\ Asked(c) \in DOMAIN threads
      BY <1>3, ClientKind DEF ProducerInv, PartsInv
    <2>2. Asked(c) \in ThreadId
      BY <2>1 DEF ViewInv, ViewTypeOK, LedgerTypeOK
    <2> DEFINE k == <<Asked(c), ask[c].style>>
    <2>3. k \in Key
      BY <2>1, <2>2 DEF Key
    <2>4. Visible(c) = Put(digests, k, Own(c))
      BY <1>3, <2>1 DEF Visible, Asked
    <2>5. c \notin Reader
      BY <1>3, ClientKind
    <2> HIDE DEF k
    <2>6. /\ DOMAIN Visible(c) = DOMAIN digests \cup {k}
          /\ \A j \in DOMAIN Visible(c) : Visible(c)[j] = IF j = k THEN Own(c) ELSE digests[j]
      BY <2>4 DEF Put
    <2>7. IsFiniteSet(DOMAIN digests \cup {k})
      BY FS_AddElement DEF ViewInv
    <2>8. \A j \in DOMAIN Visible(c) : Visible(c)[j] \in Digest
      BY <2>1, <2>6, TypesNow
    <2> QED
      BY <2>3, <2>4, <2>5, <2>6, <2>7, <2>8, TypesNow DEF k
  <1> QED
    BY <1>1, <1>2, <1>3 DEF Client

\* The digest of a statement of c.
LEMMA PickedDigest ==
    ASSUME ViewInv, NEW c \in Client, pc[c] = "digest"
    PROVE  LET d == Pick(Visible(c), Asked(c), ask[c].style) IN
           /\ d \in Digest \cup {None}
           /\ c \in Producer => d = Own(c)
  <1> DEFINE d == Pick(Visible(c), Asked(c), ask[c].style)
             K == {x \in DOMAIN Visible(c) : x[1] = Asked(c) /\ ask[c].style \in {None, x[2]}}
  <1>1. IF K = {} THEN d = None ELSE \E k \in K : d = Visible(c)[k]
    <2>1. /\ IsFiniteSet(DOMAIN Visible(c))
          /\ \A k \in DOMAIN Visible(c) : Visible(c)[k] \in Digest
      BY VisibleFacts
    <2> DEFINE v == Visible(c)
               s == ask[c].style
               t == Asked(c)
    <2> HIDE DEF v, s, t
    <2>2. LET L == {x \in DOMAIN v : x[1] = t /\ s \in {None, x[2]}} IN
          IF L = {} THEN Pick(v, t, s) = None ELSE \E k \in L : Pick(v, t, s) = v[k]
      BY <2>1, PickFinds DEF v
    <2> QED
      BY <2>2 DEF v, s, t
  <1>2. d \in Digest \cup {None}
    BY <1>1, VisibleFacts
  <1>3. ASSUME c \in Producer
        PROVE  d = Own(c)
    <2> DEFINE k == <<Asked(c), ask[c].style>>
    <2>1. k \in Key /\ Visible(c) = Put(digests, k, Own(c))
      BY <1>3, VisibleFacts
    <2>2. k \in DOMAIN Visible(c) /\ Visible(c)[k] = Own(c)
      <3> HIDE DEF k
      <3> QED
        BY <2>1 DEF Put
    <2>3. ask[c].style \in Style
      BY <1>3, ClientKind DEF ProducerInv
    <2>4. k \in K
      BY <2>2
    <2>5. \A x \in K : x = k
      <3>1. ask[c].style # None
        BY <2>3, ViewAssumption
      <3>2. \A x \in K : x \in Key /\ x[1] = Asked(c) /\ x[2] = ask[c].style
        BY <3>1, VisibleFacts
      <3>3. \A x \in Key : x = <<x[1], x[2]>>
        BY DEF Key
      <3> HIDE DEF K
      <3> QED
        BY <3>2, <3>3
    <2> HIDE DEF k, K
    <2> QED
      BY <1>1, <2>2, <2>4, <2>5
  <1> QED
    BY <1>2, <1>3

-----------------------------------------------------------------------------
(* The statements that read *)

LEMMA ReadStep ==
    ASSUME ViewInv, NEW c \in Client, NEW x \in Stage, NEW a \in Answer,
           pc' = [pc EXCEPT ![c] = x], answer' = [answer EXCEPT ![c] = a],
           UNCHANGED <<ledger, digests, clock, keyLock, ask, mine>>,
           PartsInv(c)', c \in Reader => ReaderInv(c)', c \in Producer => ProducerInv(c)'
    PROVE  ViewInv'
  <1>1. /\ ViewTypeOK'
        /\ \A b \in Client \ {c} : pc'[b] = pc[b] /\ answer'[b] = answer[b]
    BY StepTypes, TypesNow
  <1> QED
    BY <1>1, QuietDigests, OneClientStep

\* What such a step leaves alone.
LEMMA ReadLeaves ==
    ASSUME ViewInv, NEW c \in Client, NEW x \in Stage, NEW a \in Answer,
           pc' = [pc EXCEPT ![c] = x], answer' = [answer EXCEPT ![c] = a],
           UNCHANGED <<ledger, digests, clock, keyLock, ask, mine>>
    PROVE  /\ threads' = threads /\ messages' = messages /\ ask' = ask /\ mine' = mine
           /\ pc'[c] = x /\ answer'[c] = a
           /\ Asked(c)' = Asked(c) /\ Here(c)' = Here(c) /\ Own(c)' = Own(c)
  BY TypesNow DEF ledger, Asked, Here, Own

\* The message that closed a resolved thread is the only one with its number.
LEMMA CloseCarried ==
    ASSUME ViewInv, NEW t \in DOMAIN threads, threads[t].status = "resolved"
    PROVE  \E m \in messages :
             /\ {k \in InThread(messages, t) : k.num = threads[t].resolved_by} = {m}
             /\ m.closes = t
  <1>1. threads[t].resolved_by # None
    BY DEF ViewInv, LedgerInv, ResolvedByItsLastMessage
  <1>2. PICK m \in messages : m.num = threads[t].resolved_by /\ m.closes = t
    BY <1>1 DEF ViewInv, ClosedByMessage
  <1>3. m.closes # None
    BY <1>2, RequestsAssumption, NoneAssumption DEF ViewInv, LedgerInv, LedgerTypeOK
  <1>4. m.thread = t
    BY <1>2, <1>3 DEF ViewInv, LedgerInv, ResolvedByItsLastMessage
  <1>5. \A k \in messages : k.num = m.num => k = m
    BY DEF ViewInv, LedgerInv, Numbered
  <1> QED
    BY <1>2, <1>4, <1>5 DEF InThread

LEMMA ReadMessagesStep ==
    ASSUME ViewInv, NEW c \in Client, ReadMessages(c)
    PROVE  ViewInv'
  <1> DEFINE found == Carried(answer[c].row, Asked(c), ask[c].mode)
             a == [answer[c] EXCEPT !.messages = found]
  <1>1. /\ pc[c] = "messages" /\ "head" \in Stage
        /\ answer' = [answer EXCEPT ![c].messages = found]
        /\ pc' = [pc EXCEPT ![c] = "head"]
        /\ UNCHANGED <<ledger, digests, clock, keyLock, ask, mine>>
    BY DEF ReadMessages, Goto, Asked, Stage
  <1>2. c \in Reader /\ c \notin Producer /\ PartsInv(c) /\ ReaderInv(c) /\ answer[c] \in Answer
    BY <1>1, ClientKind, TypesNow
  <1>3. found \subseteq InThread(messages, Asked(c))
    BY DEF Carried
  <1>4. found \subseteq Message
    BY <1>3 DEF InThread, ViewInv, LedgerInv, LedgerTypeOK
  <1>5. (Resolved(c) /\ ask[c].mode = "summary") =>
            \E m \in messages : found = {m} /\ m.closes = Asked(c)
    <2>1. SUFFICES ASSUME Resolved(c), ask[c].mode = "summary"
                   PROVE  \E m \in messages : found = {m} /\ m.closes = Asked(c)
      OBVIOUS
    <2>2. Asked(c) \in DOMAIN threads /\ threads[Asked(c)] = answer[c].row
      BY <1>1, <1>2, <2>1 DEF ReaderInv, Begun
    <2>3. found = {k \in InThread(messages, Asked(c)) : k.num = threads[Asked(c)].resolved_by}
      BY <2>1, <2>2 DEF Carried, Resolved
    <2> QED
      BY <2>1, <2>2, <2>3, CloseCarried DEF Resolved
  <1> HIDE DEF found
  <1>6. /\ a.row = answer[c].row /\ a.messages = found /\ a.head = answer[c].head
        /\ a.digest = answer[c].digest /\ a.behind = answer[c].behind
        /\ a \in Answer
    BY <1>2, <1>4 DEF Answer
  <1>7. answer' = [answer EXCEPT ![c] = a]
    BY <1>1
  <1> HIDE DEF a
  <1>8. /\ threads' = threads /\ messages' = messages /\ ask' = ask /\ mine' = mine
        /\ pc'[c] = "head" /\ answer'[c] = a
        /\ Asked(c)' = Asked(c) /\ Here(c)' = Here(c) /\ Own(c)' = Own(c)
    BY <1>1, <1>6, <1>7, ReadLeaves
  <1>9. PartsInv(c)'
    BY <1>1, <1>2, <1>3, <1>6, <1>8, NoneAssumption DEF PartsInv
  <1>10. ReaderInv(c)'
    BY <1>1, <1>2, <1>5, <1>6, <1>8 DEF ReaderInv, Begun, Resolved
  <1> QED
    BY <1>1, <1>2, <1>6, <1>7, <1>9, <1>10, ReadStep

LEMMA ReadHeadStep ==
    ASSUME ViewInv, NEW c \in Client, ReadHead(c)
    PROVE  ViewInv'
  <1> DEFINE h == HeadOf(Asked(c))
             a == [answer[c] EXCEPT !.head = h]
  <1>1. /\ pc[c] = "head" /\ "digest" \in Stage
        /\ answer' = [answer EXCEPT ![c].head = h]
        /\ pc' = [pc EXCEPT ![c] = "digest"]
        /\ UNCHANGED <<ledger, digests, clock, keyLock, ask, mine>>
    BY DEF ReadHead, Goto, Asked, Stage
  <1>2. PartsInv(c) /\ answer[c] \in Answer /\ Asked(c) \in DOMAIN threads
    BY <1>1, ClientKind, TypesNow DEF PartsInv
  <1>3. /\ h \in Here(c) /\ h \in Nat
        /\ threads[Asked(c)].status = "resolved" => h = threads[Asked(c)].resolved_by
    BY <1>2, HeadOfThread, NumsAreNumbers DEF ViewInv, Here
  <1> HIDE DEF h
  <1>4. /\ a.row = answer[c].row /\ a.messages = answer[c].messages /\ a.head = h
        /\ a.digest = answer[c].digest /\ a.behind = answer[c].behind
        /\ a \in Answer
    BY <1>2, <1>3 DEF Answer
  <1>5. answer' = [answer EXCEPT ![c] = a]
    BY <1>1
  <1> HIDE DEF a
  <1>6. /\ threads' = threads /\ messages' = messages /\ ask' = ask /\ mine' = mine
        /\ pc'[c] = "digest" /\ answer'[c] = a
        /\ Asked(c)' = Asked(c) /\ Here(c)' = Here(c) /\ Own(c)' = Own(c)
    BY <1>1, <1>4, <1>5, ReadLeaves
  <1>7. PartsInv(c)'
    BY <1>1, <1>2, <1>3, <1>4, <1>6, NoneAssumption DEF PartsInv
  <1>8. ASSUME c \in Reader
        PROVE  ReaderInv(c)'
    BY <1>1, <1>3, <1>4, <1>6, <1>8, ClientKind DEF ReaderInv, Begun, Resolved
  <1>9. ASSUME c \in Producer
        PROVE  ProducerInv(c)'
    BY <1>1, <1>4, <1>6, <1>9, ClientKind DEF ProducerInv, Answered
  <1> QED
    BY <1>1, <1>4, <1>5, <1>7, <1>8, <1>9, ReadStep

LEMMA ReadDigestStep ==
    ASSUME ViewInv, NEW c \in Client, ReadDigest(c)
    PROVE  ViewInv'
  <1> DEFINE d == Pick(Visible(c), Asked(c), ask[c].style)
             a == [answer[c] EXCEPT !.digest = d]
             x == IF d # None THEN "behind" ELSE "done"
  <1>1. /\ pc[c] = "digest" /\ x \in Stage
        /\ answer' = [answer EXCEPT ![c].digest = d]
        /\ pc' = [pc EXCEPT ![c] = x]
        /\ UNCHANGED <<ledger, digests, clock, keyLock, ask, mine>>
    BY DEF ReadDigest, Goto, Asked, Stage
  <1>2. PartsInv(c) /\ answer[c] \in Answer
    BY <1>1, ClientKind, TypesNow
  <1>3. d \in Digest \cup {None} /\ (c \in Producer => d = Own(c))
    BY <1>1, PickedDigest
  <1> HIDE DEF d
  <1>4. x \in {"behind", "done"} /\ (x = "behind" <=> d \in Digest)
    BY <1>3, ViewAssumption
  <1>5. /\ a.row = answer[c].row /\ a.messages = answer[c].messages
        /\ a.head = answer[c].head /\ a.digest = d /\ a.behind = answer[c].behind
        /\ a \in Answer
    BY <1>2, <1>3 DEF Answer
  <1>6. answer' = [answer EXCEPT ![c] = a]
    BY <1>1
  <1> HIDE DEF a, x
  <1>7. /\ threads' = threads /\ messages' = messages /\ ask' = ask /\ mine' = mine
        /\ pc'[c] = x /\ answer'[c] = a
        /\ Asked(c)' = Asked(c) /\ Here(c)' = Here(c) /\ Own(c)' = Own(c)
    BY <1>1, <1>5, <1>6, ReadLeaves
  <1>8. PartsInv(c)'
    BY <1>1, <1>2, <1>4, <1>5, <1>7, NoneAssumption DEF PartsInv
  <1>9. ASSUME c \in Reader
        PROVE  ReaderInv(c)'
    BY <1>1, <1>4, <1>5, <1>7, <1>9, ClientKind DEF ReaderInv, Begun, Resolved
  <1>10. ASSUME c \in Producer
         PROVE  ProducerInv(c)'
    <2>1. ProducerInv(c) /\ d = Own(c) /\ Own(c) \in Digest /\ x = "behind"
      BY <1>1, <1>3, <1>4, <1>10, ClientKind DEF ProducerInv
    <2> QED
      BY <1>1, <1>5, <1>7, <2>1 DEF ProducerInv
  <1> QED
    BY <1>1, <1>5, <1>6, <1>8, <1>9, <1>10, ReadStep

LEMMA ReadBehindStep ==
    ASSUME ViewInv, NEW c \in Client, ReadBehind(c)
    PROVE  ViewInv'
  <1> DEFINE n == CountBehind(Asked(c), answer[c].digest.covers)
             a == [answer[c] EXCEPT !.behind = n]
             x == IF c \in Producer THEN "commit" ELSE "done"
  <1>1. /\ pc[c] = "behind" /\ x \in Stage
        /\ answer' = [answer EXCEPT ![c].behind = n]
        /\ pc' = [pc EXCEPT ![c] = x]
        /\ UNCHANGED <<ledger, digests, clock, keyLock, ask, mine>>
    BY DEF ReadBehind, Goto, Asked, Stage
  <1>2. PartsInv(c) /\ answer[c] \in Answer
    BY <1>1, ClientKind, TypesNow
  <1>3. answer[c].digest.covers \in Nat
    BY <1>1, <1>2 DEF PartsInv, Digest
  <1>4. /\ n \in Nat
        /\ n = 0 => \A k \in Here(c) : k <= answer[c].digest.covers
    BY <1>3, NothingBehind DEF ViewInv, Here
  <1> HIDE DEF n
  <1>5. n = 0 => /\ \A m \in answer[c].messages : m.num <= answer[c].digest.covers
                 /\ answer[c].head <= answer[c].digest.covers
    BY <1>1, <1>2, <1>4 DEF PartsInv, Here, Nums
  <1>6. /\ a.row = answer[c].row /\ a.messages = answer[c].messages
        /\ a.head = answer[c].head /\ a.digest = answer[c].digest /\ a.behind = n
        /\ a \in Answer
    BY <1>2, <1>4 DEF Answer
  <1>7. answer' = [answer EXCEPT ![c] = a]
    BY <1>1
  <1>8. /\ x \in {"commit", "done"} /\ (c \in Producer <=> x = "commit")
    OBVIOUS
  <1> HIDE DEF a, x
  <1>9. /\ threads' = threads /\ messages' = messages /\ ask' = ask /\ mine' = mine
        /\ pc'[c] = x /\ answer'[c] = a
        /\ Asked(c)' = Asked(c) /\ Here(c)' = Here(c) /\ Own(c)' = Own(c)
    BY <1>1, <1>6, <1>7, ReadLeaves
  <1>10. PartsInv(c)'
    BY <1>1, <1>2, <1>5, <1>6, <1>8, <1>9 DEF PartsInv
  <1>11. ASSUME c \in Reader
         PROVE  ReaderInv(c)'
    BY <1>1, <1>6, <1>8, <1>9, <1>11, ClientKind DEF ReaderInv, Begun, Resolved
  <1>12. ASSUME c \in Producer
         PROVE  ProducerInv(c)'
    BY <1>1, <1>6, <1>8, <1>9, <1>12, ClientKind DEF ProducerInv
  <1> QED
    BY <1>1, <1>6, <1>7, <1>10, <1>11, <1>12, ReadStep

-----------------------------------------------------------------------------
(* The statements of a producer *)

LEMMA CheckPutStep ==
    ASSUME ViewInv, NEW c \in Producer, NEW t \in ThreadId, NEW s \in Style,
           NEW n \in Points, CheckPut(c, t, s, n)
    PROVE  ViewInv'
  <1> DEFINE q == [thread |-> t, covers |-> n, style |-> s, at |-> clock + 1]
  <1>1. /\ pc[c] = "idle" /\ t \in DOMAIN threads /\ n \in Nums(InThread(messages, t))
        /\ clock' = clock + 1 /\ "upsert" \in Stage
        /\ ask' = [ask EXCEPT ![c] = q]
        /\ pc' = [pc EXCEPT ![c] = "upsert"]
        /\ UNCHANGED <<ledger, digests, keyLock, mine, answer>>
    BY DEF CheckPut, Goto, Stage
  <1>2. threads' = threads /\ messages' = messages
    BY <1>1 DEF ledger
  <1>3. c \in Client /\ c \notin Reader
    BY ViewAssumption DEF Client
  <1>4. /\ answer[c] \in Answer /\ answer' = [answer EXCEPT ![c] = answer[c]]
        /\ PartsInv(c) /\ ProducerInv(c) /\ clock' \in Nat /\ n \in Nat
    BY <1>1, <1>3, ClientKind, TypesNow, ViewAssumption
  <1>5. /\ ask' \in [Client -> ReadRequest \cup PutRequest \cup {None}]
        /\ ask'[c] = q
        /\ \A b \in Client \ {c} : ask'[b] = ask[b]
    <2>1. q \in PutRequest
      BY <1>1, <1>4 DEF PutRequest
    <2> HIDE DEF q
    <2> QED
      BY <1>1, <1>3, <2>1, TypesNow
  <1>6. /\ ViewTypeOK' /\ pc'[c] = "upsert" /\ answer'[c] = answer[c]
        /\ \A b \in Client \ {c} : pc'[b] = pc[b] /\ answer'[b] = answer[b]
    BY <1>1, <1>3, <1>4, <1>5, StepTypes, TypesNow
  <1>7. PartsInv(c)'
    <2>1. Asked(c)' = t /\ t \in DOMAIN threads'
      BY <1>1, <1>2, <1>5 DEF Asked
    <2>2. answer[c].messages = {} /\ answer[c].behind = None /\ None # 0
      BY <1>1, <1>4, NoneAssumption DEF PartsInv, Nothing
    <2> QED
      BY <1>6, <2>1, <2>2 DEF PartsInv
  <1>8. ProducerInv(c)'
    <2>1. Own(c)' \in Digest
      BY <1>4, <1>5, <1>1 DEF Own, Digest
    <2>2. ask'[c].style \in Style /\ (ask[c].covers \in Here(c))'
      BY <1>1, <1>2, <1>5 DEF Here, Asked
    <2>3. mine'[c] = None
      BY <1>1, <1>4 DEF ProducerInv
    <2> QED
      BY <1>6, <2>1, <2>2, <2>3 DEF ProducerInv, Answered
  <1> QED
    BY <1>1, <1>3, <1>5, <1>6, <1>7, <1>8, QuietDigests, OneClientStep

LEMMA UpsertStep ==
    ASSUME ViewInv, NEW c \in Client, Upsert(c)
    PROVE  ViewInv'
  <1> DEFINE k == <<Asked(c), ask[c].style>>
  <1>1. /\ pc[c] = "upsert" /\ "head" \in Stage
        /\ keyLock' = [keyLock EXCEPT ![k] = c]
        /\ mine' = [mine EXCEPT ![c] = Own(c)]
        /\ pc' = [pc EXCEPT ![c] = "head"]
        /\ UNCHANGED <<ledger, digests, clock, ask, answer>>
    BY DEF Upsert, Goto, Stage, Own, Asked
  <1>2. threads' = threads /\ messages' = messages
    BY <1>1 DEF ledger
  <1>3. c \in Producer /\ c \notin Reader /\ PartsInv(c) /\ ProducerInv(c)
    BY <1>1, ClientKind
  <1>4. Own(c) \in Digest /\ answer[c] \in Answer /\ answer' = [answer EXCEPT ![c] = answer[c]]
    BY <1>1, <1>3, TypesNow DEF ProducerInv
  <1> HIDE DEF k
  <1>5. keyLock' \in [Key -> Producer \cup {None}]
    BY <1>1, <1>3, TypesNow
  <1>6. /\ mine' \in [Client -> Digest \cup {None}]
        /\ mine'[c] = Own(c)
        /\ \A b \in Client \ {c} : mine'[b] = mine[b]
    BY <1>1, <1>4, TypesNow
  <1>7. /\ ViewTypeOK' /\ pc'[c] = "head" /\ answer'[c] = answer[c]
        /\ \A b \in Client \ {c} : pc'[b] = pc[b] /\ answer'[b] = answer[b]
    BY <1>1, <1>4, <1>5, <1>6, StepTypes, TypesNow
  <1>8. Asked(c)' = Asked(c) /\ Here(c)' = Here(c) /\ Own(c)' = Own(c)
    BY <1>1, <1>2 DEF Asked, Here, Own
  <1>9. PartsInv(c)'
    BY <1>1, <1>2, <1>3, <1>7, <1>8 DEF PartsInv
  <1>10. ProducerInv(c)'
    BY <1>1, <1>3, <1>6, <1>7, <1>8 DEF ProducerInv, Answered
  <1> QED
    BY <1>1, <1>3, <1>6, <1>7, <1>9, <1>10, QuietDigests, OneClientStep

\* What the end of a transaction leaves of its locks.
LEMMA UnlockedType ==
    ASSUME ViewInv, NEW c
    PROVE  Unlocked(c) \in [Key -> Producer \cup {None}]
  BY TypesNow DEF Unlocked

LEMMA CommitPutStep ==
    ASSUME ViewInv, NEW c \in Client, CommitPut(c)
    PROVE  ViewInv'
  <1> DEFINE k == <<Asked(c), ask[c].style>>
  <1>1. /\ pc[c] = "commit" /\ "done" \in Stage
        /\ digests' = Visible(c) /\ keyLock' = Unlocked(c)
        /\ mine' = [mine EXCEPT ![c] = None]
        /\ pc' = [pc EXCEPT ![c] = "done"]
        /\ UNCHANGED <<ledger, clock, ask, answer>>
    BY DEF CommitPut, Goto, Stage
  <1>2. threads' = threads /\ messages' = messages
    BY <1>1 DEF ledger
  <1>3. c \in Producer /\ c \notin Reader /\ PartsInv(c) /\ ProducerInv(c)
    BY <1>1, ClientKind
  <1>4. /\ k \in Key /\ digests' = Put(digests, k, Own(c))
        /\ DOMAIN digests' \subseteq Key /\ IsFiniteSet(DOMAIN digests')
        /\ \A j \in DOMAIN digests' : digests'[j] \in Digest
    BY <1>1, <1>3, VisibleFacts
  <1>5. DigestInThread'
    <2>1. Own(c).covers \in Nums(InThread(messages, k[1]))
      BY <1>1, <1>3 DEF ProducerInv, Own, Here
    <2> HIDE DEF k
    <2>2. \A j \in DOMAIN digests' :
            digests'[j].covers \in Nums(InThread(messages, j[1]))
      BY <1>4, <2>1 DEF Put, ViewInv, DigestInThread
    <2> QED
      BY <1>2, <2>2 DEF DigestInThread
  <1>6. /\ mine' \in [Client -> Digest \cup {None}]
        /\ mine'[c] = None
        /\ \A b \in Client \ {c} : mine'[b] = mine[b]
    BY <1>1, TypesNow
  <1>7. answer[c] \in Answer /\ answer' = [answer EXCEPT ![c] = answer[c]]
    BY <1>1, TypesNow
  <1>8. /\ ViewTypeOK' /\ pc'[c] = "done" /\ answer'[c] = answer[c]
        /\ \A b \in Client \ {c} : pc'[b] = pc[b] /\ answer'[b] = answer[b]
    BY <1>1, <1>4, <1>6, <1>7, UnlockedType, StepTypes, TypesNow
  <1>9. Asked(c)' = Asked(c) /\ Own(c)' = Own(c)
    BY <1>1 DEF Asked, Own
  <1>10. PartsInv(c)'
    BY <1>1, <1>2, <1>3, <1>8, <1>9 DEF PartsInv
  <1>11. ProducerInv(c)'
    BY <1>1, <1>3, <1>6, <1>8, <1>9 DEF ProducerInv
  <1> QED
    BY <1>1, <1>3, <1>4, <1>5, <1>6, <1>8, <1>10, <1>11, OneClientStep

LEMMA CrashStep ==
    ASSUME ViewInv, NEW c \in Client, Crash(c)
    PROVE  ViewInv'
  <1>1. /\ c \in Producer /\ "done" \in Stage
        /\ keyLock' = Unlocked(c)
        /\ mine' = [mine EXCEPT ![c] = None]
        /\ answer' = [answer EXCEPT ![c] = Nothing]
        /\ pc' = [pc EXCEPT ![c] = "done"]
        /\ UNCHANGED <<ledger, digests, clock, ask>>
    BY DEF Crash, Goto, Stage
  <1>2. c \notin Reader
    BY <1>1, ViewAssumption
  <1>3. Nothing \in Answer /\ Nothing.messages = {} /\ Nothing.behind = None /\ None # 0
    BY NoneAssumption DEF Nothing, Answer
  <1>4. /\ mine' \in [Client -> Digest \cup {None}]
        /\ mine'[c] = None
        /\ \A b \in Client \ {c} : mine'[b] = mine[b]
    BY <1>1, TypesNow
  <1> HIDE DEF Nothing
  <1>5. /\ ViewTypeOK' /\ pc'[c] = "done" /\ answer'[c] = Nothing
        /\ \A b \in Client \ {c} : pc'[b] = pc[b] /\ answer'[b] = answer[b]
    BY <1>1, <1>3, <1>4, UnlockedType, StepTypes, TypesNow
  <1>6. PartsInv(c)'
    BY <1>3, <1>5 DEF PartsInv
  <1>7. ProducerInv(c)'
    BY <1>3, <1>4, <1>5 DEF ProducerInv, Answered
  <1> QED
    BY <1>1, <1>2, <1>4, <1>5, <1>6, <1>7, QuietDigests, OneClientStep

-----------------------------------------------------------------------------
(* The ledger grows under all of them *)

LEMMA LedgerStepKeepsView ==
    ASSUME ViewInv, [LedgerNext]_ledger, UNCHANGED <<digests, sessions>>
    PROVE  ViewInv'
  <1>1. LedgerInv' /\ ClosedByMessage' /\ IsFiniteSet(messages')
    BY LedgerStepKeepsInv, ClosedByMessageStays DEF ViewInv
  <1>2. messages \subseteq messages' /\ DOMAIN threads \subseteq DOMAIN threads'
    BY LedgerStepGrows DEF ViewInv
  <1>3. \A t : Nums(InThread(messages, t)) \subseteq Nums(InThread(messages', t))
    BY <1>2, MessagesStay
  <1>4. /\ digests' = digests /\ clock' = clock /\ keyLock' = keyLock /\ pc' = pc
        /\ ask' = ask /\ mine' = mine /\ answer' = answer
    BY DEF sessions
  <1>5. ViewTypeOK'
    BY <1>1, <1>4 DEF ViewInv, ViewTypeOK, LedgerInv
  <1>6. DigestInThread' /\ IsFiniteSet(DOMAIN digests')
    BY <1>3, <1>4 DEF ViewInv, DigestInThread
  <1>7. ASSUME NEW c \in Client
        PROVE  PartsInv(c)'
    <2>1. PartsInv(c) /\ Asked(c)' = Asked(c) /\ Here(c) \subseteq Here(c)'
      BY <1>3, <1>4, ClientKind DEF Asked, Here
    <2>2. \A m \in InThread(messages, Asked(c)) : m \in InThread(messages', Asked(c))
      BY <1>2 DEF InThread
    <2> QED
      BY <1>2, <1>4, <2>1, <2>2 DEF PartsInv
  <1>8. ASSUME NEW c \in Reader
        PROVE  ReaderInv(c)'
    <2>1. ReaderInv(c) /\ Asked(c)' = Asked(c)
      BY <1>4 DEF ViewInv, Asked
    <2>2. (Begun(c) /\ Resolved(c)) =>
            Asked(c) \in DOMAIN threads' /\ threads'[Asked(c)] = answer[c].row
      <3>1. CASE UNCHANGED ledger
        BY <2>1, <3>1 DEF ReaderInv, ledger
      <3>2. CASE LedgerNext
        <4>1. KeepsResolved
          BY <3>2, StepKeepsResolved DEF ViewInv
        <4> QED
          BY <2>1, <4>1 DEF ReaderInv, KeepsResolved, Resolved
      <3> QED
        BY <3>1, <3>2
    <2> QED
      BY <1>2, <1>4, <2>1, <2>2 DEF ReaderInv, Begun, Resolved
  <1>9. ASSUME NEW c \in Producer
        PROVE  ProducerInv(c)'
    <2>1. /\ ProducerInv(c) /\ Asked(c)' = Asked(c) /\ Own(c)' = Own(c)
          /\ Here(c) \subseteq Here(c)'
      BY <1>3, <1>4 DEF ViewInv, Asked, Here, Own
    <2> QED
      BY <1>4, <2>1 DEF ProducerInv, Answered
  <1> QED
    BY <1>1, <1>5, <1>6, <1>7, <1>8, <1>9 DEF ViewInv

LEMMA ViewInit == Init => ViewInv
  <1> SUFFICES ASSUME Init PROVE ViewInv
    OBVIOUS
  <1>1. LedgerInv /\ threads = [t \in {} |-> None] /\ messages = {}
    BY LedgerInitInv DEF Init, LedgerInit
  <1>2. ClosedByMessage /\ IsFiniteSet(messages)
    BY <1>1, FS_EmptySet DEF ClosedByMessage
  <1>3. /\ DOMAIN digests = {} /\ clock = 0 /\ keyLock = [k \in Key |-> None]
        /\ ask = [c \in Client |-> None] /\ mine = [c \in Client |-> None]
        /\ answer = [c \in Client |-> Nothing]
    BY DEF Init
  <1>4. PICK cast \in Casts : pc = [c \in Client |-> IF c \in cast THEN "idle" ELSE "done"]
    BY DEF Init
  <1>5. Nothing \in Answer /\ Nothing.messages = {} /\ Nothing.behind = None
        /\ Nothing.row = None /\ None # 0
    BY NoneAssumption DEF Nothing, Answer
  <1> HIDE DEF Nothing
  <1>6. ViewTypeOK
    <2>1. answer \in [Client -> Answer]
      BY <1>3, <1>5
    <2> QED
      BY <1>1, <1>3, <1>4, <2>1 DEF ViewTypeOK, LedgerInv, Answer
  <1>7. DigestInThread /\ IsFiniteSet(DOMAIN digests)
    BY <1>3, FS_EmptySet DEF DigestInThread
  <1>8. ASSUME NEW c \in Client
        PROVE  PartsInv(c)
    BY <1>3, <1>4, <1>5 DEF PartsInv
  <1>9. ASSUME NEW c \in Reader
        PROVE  ReaderInv(c)
    BY <1>3, <1>4, <1>5 DEF ReaderInv, Begun, Client
  <1>10. ASSUME NEW c \in Producer
         PROVE  ProducerInv(c)
    BY <1>3, <1>4, <1>5 DEF ProducerInv, Answered, Client
  <1> QED
    BY <1>1, <1>2, <1>6, <1>7, <1>8, <1>9, <1>10 DEF ViewInv

LEMMA ViewInvHolds == Spec => []ViewInv
  <1>1. ASSUME ViewInv, [Next]_vars
        PROVE  ViewInv'
    <2>1. CASE Serve
      BY <1>1, <2>1, LedgerStepKeepsView DEF Serve
    <2>2. CASE UNCHANGED vars
      <3>1. UNCHANGED ledger /\ UNCHANGED <<digests, sessions>>
        BY <2>2 DEF vars
      <3> QED
        BY <1>1, <3>1, LedgerStepKeepsView
    <2>3. ASSUME NEW c \in Reader, NEW t \in ThreadId, NEW mode \in {"full", "summary"},
                 NEW s \in Wanted, ReadThread(c, t, mode, s)
          PROVE  ViewInv'
      BY <1>1, <2>3, ReadThreadStep
    <2>4. ASSUME NEW c \in Producer, NEW t \in ThreadId, NEW s \in Style,
                 NEW n \in Points, CheckPut(c, t, s, n)
          PROVE  ViewInv'
      BY <1>1, <2>4, CheckPutStep
    <2>5. ASSUME NEW c \in Client,
                 \/ ReadMessages(c)
                 \/ ReadHead(c)
                 \/ ReadDigest(c)
                 \/ ReadBehind(c)
                 \/ Upsert(c)
                 \/ CommitPut(c)
                 \/ Crash(c)
          PROVE  ViewInv'
      BY <1>1, <2>5, ReadMessagesStep, ReadHeadStep, ReadDigestStep, ReadBehindStep,
         UpsertStep, CommitPutStep, CrashStep
    <2> QED
      BY <1>1, <2>1, <2>2, <2>3, <2>4, <2>5 DEF Next
  <1> QED
    BY <1>1, ViewInit, PTL DEF Spec

-----------------------------------------------------------------------------
\* Every row, lock and part of an answer has the type its column, key or schema
\* gives it.
THEOREM ViewTypes == Spec => []ViewTypeOK
  <1>1. ViewInv => ViewTypeOK
    BY DEF ViewInv
  <1> QED
    BY <1>1, ViewInvHolds, PTL

\* A stored digest covers up to a message of its own thread (put_digest).
THEOREM DigestsStayInThread == Spec => []DigestInThread
  <1>1. ViewInv => DigestInThread
    BY DEF ViewInv
  <1> QED
    BY <1>1, ViewInvHolds, PTL

\* An answer that calls its digest up to date carries and names no message
\* behind it (fetch_digest_response).
THEOREM FreshIsCovered == Spec => []FreshMeansCovered
  <1>1. ViewInv => FreshMeansCovered
    BY DEF ViewInv, PartsInv, FreshMeansCovered
  <1> QED
    BY <1>1, ViewInvHolds, PTL

\* The summary of a resolved thread is its closing message, and the newest one
\* (get_thread).
THEOREM SummariesAreCloses == Spec => []SummaryIsTheClose
  <1>1. ViewInv => SummaryIsTheClose
    BY DEF ViewInv, ReaderInv, SummaryIsTheClose, Begun, Resolved, Asked
  <1> QED
    BY <1>1, ViewInvHolds, PTL

\* A producer that is answered is told of its own digest (put_digest).
THEOREM ProducersSeeOwn == Spec => []PutAnswersOwn
  <1>1. ViewInv => PutAnswersOwn
    BY DEF ViewInv, ProducerInv, PutAnswersOwn, Own
  <1> QED
    BY <1>1, ViewInvHolds, PTL

=============================================================================
