------------------------ MODULE ThreadListingProofs ------------------------
(***************************************************************************)
(* Proofs about the overview pages, for any number of threads and pages    *)
(* and any traffic between their statements.                               *)
(*                                                                         *)
(* A thread's rank is the number of listed threads with a newer message.   *)
(* As long as none of them leaves the filter, the rank of a thread that    *)
(* keeps still only grows: that is why a walk by offset cannot step over   *)
(* it.                                                                     *)
(***************************************************************************)
EXTENDS ThreadListing, LedgerProofs, FiniteSetTheorems, SequenceTheorems

-----------------------------------------------------------------------------
(* Ranking rows by keys that differ *)

Ahead(thrs, ids, t) == {u \in ids : thrs[u].last > thrs[t].last}

Rank(thrs, ids, t) == Cardinality(Ahead(thrs, ids, t))

Keyed(thrs, ids) ==
    /\ IsFiniteSet(ids)
    /\ \A t \in ids : thrs[t].last \in Nat
    /\ \A t, u \in ids : thrs[t].last = thrs[u].last => t = u

LEMMA RankType ==
    ASSUME NEW thrs, NEW ids, Keyed(thrs, ids), NEW t \in ids
    PROVE  Rank(thrs, ids, t) \in 0 .. Cardinality(ids) - 1 /\ IsFiniteSet(Ahead(thrs, ids, t))
  <1> DEFINE ahead == Ahead(thrs, ids, t)
  <1>1. ahead \in SUBSET ids /\ t \in ids /\ t \notin ahead
    BY DEF Ahead, Keyed
  <1> HIDE DEF ahead
  <1>2. /\ IsFiniteSet(ahead) /\ Cardinality(ahead) <= Cardinality(ids)
        /\ Cardinality(ahead) # Cardinality(ids)
    BY <1>1, FS_Subset DEF Keyed
  <1>3. Cardinality(ahead) \in Nat /\ Cardinality(ids) \in Nat
    BY <1>2, FS_CardinalityType DEF Keyed
  <1> QED
    BY <1>2, <1>3 DEF Rank, ahead

LEMMA RankGrows ==
    ASSUME NEW thrs, NEW ids, Keyed(thrs, ids), NEW t \in ids, NEW u \in ids,
           thrs[u].last > thrs[t].last
    PROVE  Rank(thrs, ids, u) < Rank(thrs, ids, t)
  <1>1. /\ Ahead(thrs, ids, u) \in SUBSET Ahead(thrs, ids, t)
        /\ u \in Ahead(thrs, ids, t) /\ u \notin Ahead(thrs, ids, u)
    BY DEF Ahead, Keyed
  <1>2. /\ IsFiniteSet(Ahead(thrs, ids, t))
        /\ Rank(thrs, ids, t) \in Nat /\ Rank(thrs, ids, u) \in Nat
    BY RankType
  <1>3. Rank(thrs, ids, u) <= Rank(thrs, ids, t) /\ Rank(thrs, ids, u) # Rank(thrs, ids, t)
    BY <1>1, <1>2, FS_Subset DEF Rank
  <1> QED
    BY <1>2, <1>3

LEMMA RanksDiffer ==
    ASSUME NEW thrs, NEW ids, Keyed(thrs, ids), NEW t \in ids, NEW u \in ids,
           Rank(thrs, ids, t) = Rank(thrs, ids, u)
    PROVE  t = u
  <1>1. thrs[t].last \in Nat /\ thrs[u].last \in Nat
    BY DEF Keyed
  <1>2. ~(thrs[u].last > thrs[t].last) /\ ~(thrs[t].last > thrs[u].last)
    <2>1. Rank(thrs, ids, t) \in Nat
      BY RankType
    <2> QED
      BY <2>1, RankGrows
  <1>3. thrs[t].last = thrs[u].last
    BY <1>1, <1>2
  <1> QED
    BY <1>3 DEF Keyed

\* Every place of the ranking is taken.
LEMMA RankTaken ==
    ASSUME NEW thrs, NEW ids, Keyed(thrs, ids), NEW i \in 0 .. Cardinality(ids) - 1
    PROVE  \E t \in ids : Rank(thrs, ids, t) = i
  <1> DEFINE places == 0 .. Cardinality(ids) - 1
             rank == [t \in ids |-> Rank(thrs, ids, t)]
  <1>1. Cardinality(ids) \in Nat
    BY FS_CardinalityType DEF Keyed
  <1>2. IsFiniteSet(places) /\ Cardinality(places) = Cardinality(ids)
    <2> DEFINE top == Cardinality(ids) - 1
    <2>1. top \in Int
      BY <1>1
    <2> HIDE DEF top
    <2>2. /\ IsFiniteSet(0 .. top)
          /\ Cardinality(0 .. top) = IF 0 > top THEN 0 ELSE top - 0 + 1
      BY <2>1, FS_Interval
    <2> QED
      BY <1>1, <2>2 DEF top
  <1>3. rank \in Injection(ids, places)
    <2>1. rank \in [ids -> places]
      BY RankType
    <2>2. \A t, u \in ids : rank[t] = rank[u] => t = u
      BY RanksDiffer
    <2> HIDE DEF rank, places
    <2> QED
      BY <2>1, <2>2 DEF Injection, IsInjective
  <1>4. rank \in Surjection(ids, places)
    <2> HIDE DEF rank, places
    <2> QED
      BY <1>2, <1>3, FS_Injection
  <1>5. \A j \in places : \E t \in ids : rank[t] = j
    <2> HIDE DEF rank, places
    <2> QED
      BY <1>4 DEF Surjection
  <1> QED
    BY <1>5

\* What ORDER BY returns.
LEMMA RankedPlaces ==
    ASSUME NEW thrs, NEW f, Keyed(thrs, Listed(thrs, f))
    PROVE  LET ids == Listed(thrs, f)
               ranked == Ranked(thrs, f) IN
           /\ ranked \in Seq(ids) /\ Len(ranked) = Cardinality(ids)
           /\ \A i \in 1 .. Cardinality(ids) :
                ranked[i] \in ids /\ Rank(thrs, ids, ranked[i]) = i - 1
  <1> DEFINE ids == Listed(thrs, f)
             n == Cardinality(ids)
             Placed(t, i) == Rank(thrs, ids, t) = i - 1
             ranked == [i \in 1 .. n |-> CHOOSE t \in ids : Placed(t, i)]
  <1>1. Ranked(thrs, f) = ranked
    BY DEF Ranked, Rank, Ahead
  <1>2. n \in Nat
    BY FS_CardinalityType DEF Keyed
  <1>3. ASSUME NEW i \in 1 .. n
        PROVE  ranked[i] \in ids /\ Placed(ranked[i], i)
    <2>1. i - 1 \in 0 .. n - 1
      BY <1>2
    <2>2. \E t \in ids : Placed(t, i)
      BY <2>1, RankTaken
    <2>3. ranked[i] = CHOOSE t \in ids : Placed(t, i)
      OBVIOUS
    <2> HIDE DEF ids, Placed, ranked
    <2> QED
      BY <2>2, <2>3
  <1>4. ranked \in [1 .. n -> ids]
    BY <1>3
  <1> HIDE DEF ids, n, ranked
  <1>5. ranked \in Seq(ids)
    BY <1>2, <1>4, SeqDef
  <1>6. Len(ranked) = n
    BY <1>2, <1>4, <1>5, LenProperties
  <1> QED
    BY <1>1, <1>3, <1>5, <1>6 DEF ids, n

-----------------------------------------------------------------------------
(* The tables *)

\* Finite tables, and no more threads than messages.
SmallTables ==
    /\ IsFiniteSet(messages) /\ IsFiniteSet(DOMAIN threads)
    /\ Cardinality(DOMAIN threads) <= Cardinality(messages)

LEMMA TablesFinite == LedgerInv => SmallTables
  <1> SUFFICES ASSUME LedgerInv PROVE SmallTables
    OBVIOUS
  <1>1. PICK n \in Nat : Nums(messages) = 1 .. n
    BY DEF LedgerInv, Numbered
  <1>2. IsFiniteSet(1 .. n)
    BY FS_Interval
  <1> DEFINE number == [m \in messages |-> m.num]
             newest == [t \in DOMAIN threads |-> CHOOSE m \in messages : m.num = threads[t].last]
  <1>3. number \in Injection(messages, 1 .. n)
    <2>1. number \in [messages -> 1 .. n]
      BY <1>1 DEF Nums
    <2>2. \A m, k \in messages : number[m] = number[k] => m = k
      BY DEF LedgerInv, Numbered
    <2> HIDE DEF number
    <2> QED
      BY <2>1, <2>2 DEF Injection, IsInjective
  <1>4. IsFiniteSet(messages)
    <2> HIDE DEF number
    <2> QED
      BY <1>2, <1>3, FS_Injection
  <1>5. newest \in Injection(DOMAIN threads, messages)
    <2>1. ASSUME NEW t \in DOMAIN threads
          PROVE  newest[t] \in messages /\ newest[t].thread = t
      <3>1. PICK m \in messages : m.num = threads[t].last /\ m.thread = t
        BY DEF LedgerInv, ActivityKeyExact, Nums, InThread
      <3>2. newest[t] = m
        <4>1. \A k \in messages : k.num = threads[t].last => k = m
          BY <3>1 DEF LedgerInv, Numbered
        <4>2. (CHOOSE k \in messages : k.num = threads[t].last) = m
          BY <3>1, <4>1
        <4> QED
          BY <4>2
      <3> QED
        BY <3>1, <3>2
    <2>2. newest \in [DOMAIN threads -> messages]
      BY <2>1
    <2>3. \A t, u \in DOMAIN threads : newest[t] = newest[u] => t = u
      <3> HIDE DEF newest
      <3> QED
        BY <2>1
    <2> HIDE DEF newest
    <2> QED
      BY <2>2, <2>3 DEF Injection, IsInjective
  <1>6. IsFiniteSet(DOMAIN threads) /\ Cardinality(DOMAIN threads) <= Cardinality(messages)
    <2> HIDE DEF newest
    <2> QED
      BY <1>4, <1>5, FS_Injection
  <1> QED
    BY <1>4, <1>6 DEF SmallTables

LEMMA TablesFiniteNext == LedgerInv' => SmallTables'
  BY TablesFinite, PTL

\* Activity keys are numbers, and no two threads share one.
LEMMA ListedKeyed ==
    ASSUME LedgerInv, NEW f
    PROVE  Keyed(threads, Listed(threads, f))
  <1>1. Listed(threads, f) \in SUBSET DOMAIN threads
    BY DEF Listed
  <1>2. IsFiniteSet(Listed(threads, f))
    BY <1>1, TablesFinite, FS_Subset DEF SmallTables
  <1>3. \A t \in DOMAIN threads : threads[t].last \in Nat
    BY DEF LedgerInv, LedgerTypeOK, Thread
  <1>4. \A t, u \in DOMAIN threads : threads[t].last = threads[u].last => t = u
    <2>1. \A t \in DOMAIN threads :
            \E m \in messages : m.num = threads[t].last /\ m.thread = t
      BY DEF LedgerInv, ActivityKeyExact, Nums, InThread
    <2> QED
      BY <2>1 DEF LedgerInv, Numbered
  <1> QED
    BY <1>1, <1>2, <1>3, <1>4 DEF Keyed

\* The same of every listing, to be used of the next state too.
ListingsKeyed == \A f : Keyed(threads, Listed(threads, f))

LEMMA ListingsKeyedNow == LedgerInv => ListingsKeyed
  BY ListedKeyed DEF ListingsKeyed

LEMMA ListingsKeyedNext == LedgerInv' => ListingsKeyed'
  BY ListingsKeyedNow, PTL

\* A thread that is served gets a key above every number in use.
KeysGrow ==
    \A t \in DOMAIN threads :
        /\ t \in DOMAIN threads'
        /\ threads'[t].last = threads[t].last
             \/ (threads'[t].last > threads[t].last
                 /\ \A m \in messages : threads'[t].last > m.num)

LEMMA StepKeysGrow ==
    ASSUME LedgerInv, LedgerNext
    PROVE  KeysGrow
  <1>1. ASSUME NEW r \in Requests, OpenThread(r)
        PROVE  KeysGrow
    <2>1. /\ r.thread \notin DOMAIN threads
          /\ threads' = Put(threads, r.thread, OpenedThread(r, NextNum(messages)))
      BY <1>1 DEF OpenThread
    <2> QED
      BY <2>1 DEF KeysGrow, Put
  <1>2. ASSUME NEW r \in Requests, AppendMessage(r)
        PROVE  KeysGrow
    <2> DEFINE row == threads[r.thread]
    <2>1. PICK n \in Nat :
            /\ Nums(messages) = 1 .. n /\ r.thread \in DOMAIN threads /\ row \in Thread
            /\ threads' = Put(threads, r.thread, ThreadAfter(row, r, n + 1))
      BY <1>2, AppendFacts
    <2> DEFINE after == ThreadAfter(row, r, n + 1)
    <2>2. after.last = n + 1
      BY <2>1, ThreadAfterFields
    <2>3. \A m \in messages : m.num \in 1 .. n
      BY <2>1 DEF Nums
    <2>4. row.last \in 1 .. n
      BY <2>1 DEF LedgerInv, ActivityKeyExact, Nums, InThread
    <2>5. threads' = Put(threads, r.thread, after)
      BY <2>1
    <2>6. after.last > row.last /\ \A m \in messages : after.last > m.num
      BY <2>2, <2>3, <2>4
    <2> HIDE DEF after
    <2> QED
      BY <2>1, <2>5, <2>6 DEF KeysGrow, Put
  <1>3. ASSUME NEW t \in ThreadId, NEW s \in OperatorStatuses, SetAside(t, s)
        PROVE  KeysGrow
    BY <1>3 DEF SetAside, KeysGrow, LedgerInv, LedgerTypeOK, Thread
  <1> QED
    BY <1>1, <1>2, <1>3 DEF LedgerNext

\* What a request being served cannot undo.
LEMMA ServeFacts ==
    ASSUME LedgerInv, Serve
    PROVE  /\ LedgerInv' /\ KeysGrow /\ KeepsRows /\ KeepsResolved /\ AppendsInOrder
           /\ left' = (left \/ SomebodyLeaves)
           /\ UNCHANGED <<stage, filter, offset, total, items, walked, begun, summary>>
  BY LedgerStepKeepsInv, StepKeysGrow, StepKeepsRows, StepKeepsResolved, StepAppends DEF Serve

-----------------------------------------------------------------------------
(* The summary of a project *)

SummaryInv ==
    /\ summary \in [{"threads", "messages"} -> Nat \cup {None}]
    /\ stage = "second" => summary.threads \in Nat /\ summary.threads <= Cardinality(messages)
    /\ stage = "summed" => /\ summary.threads \in Nat /\ summary.messages \in Nat
                           /\ summary.messages >= summary.threads

LEMMA SummaryStep ==
    ASSUME LedgerInv, SummaryInv, [Next]_vars
    PROVE  SummaryInv'
  <1>1. CASE Serve
    <2>1. Cardinality(messages) <= Cardinality(messages')
      <3>1. messages \in SUBSET messages' /\ IsFiniteSet(messages')
        BY <1>1, ServeFacts, TablesFiniteNext DEF AppendsInOrder, SmallTables
      <3> QED
        BY <3>1, FS_Subset
    <2>2. Cardinality(messages) \in Nat /\ Cardinality(messages') \in Nat
      BY <1>1, ServeFacts, TablesFinite, TablesFiniteNext, FS_CardinalityType DEF SmallTables
    <2> QED
      BY <1>1, <2>1, <2>2, ServeFacts DEF SummaryInv
  <1>2. CASE CountFirst
    <2>1. /\ stage' = "second" /\ messages' = messages
          /\ summary' = [summary EXCEPT !["threads"] = Cardinality(DOMAIN threads)]
      BY <1>2 DEF CountFirst, SummaryCount, SummaryStatements, Counted, ledger
    <2>2. /\ Cardinality(DOMAIN threads) \in Nat
          /\ Cardinality(DOMAIN threads) <= Cardinality(messages)
      BY TablesFinite, FS_CardinalityType DEF SmallTables
    <2>3. summary'.threads = Cardinality(DOMAIN threads)
      BY <2>1 DEF SummaryInv
    <2>4. summary' \in [{"threads", "messages"} -> Nat \cup {None}]
      BY <2>1, <2>2 DEF SummaryInv
    <2> QED
      BY <2>1, <2>2, <2>3, <2>4 DEF SummaryInv
  <1>3. CASE CountSecond
    <2>1. /\ stage = "second" /\ stage' = "summed"
          /\ summary' = [summary EXCEPT !["messages"] = Cardinality(messages)]
      BY <1>3 DEF CountSecond, SummaryCount, SummaryStatements, Counted
    <2>2. Cardinality(messages) \in Nat
      BY TablesFinite, FS_CardinalityType DEF SmallTables
    <2>3. summary'.messages = Cardinality(messages) /\ summary'.threads = summary.threads
      BY <2>1 DEF SummaryInv
    <2>4. summary' \in [{"threads", "messages"} -> Nat \cup {None}]
      BY <2>1, <2>2 DEF SummaryInv
    <2> QED
      BY <2>1, <2>2, <2>3, <2>4 DEF SummaryInv
  <1>4. CASE CountThreads \/ PageThreads \/ RollUp \/ NextPage \/ \E f \in Filters : Ask(f)
    BY <1>4 DEF CountThreads, PageThreads, RollUp, NextPage, Ask, SummaryInv, ledger
  <1>5. CASE UNCHANGED vars
    BY <1>5 DEF vars, ledger, client, SummaryInv
  <1> QED
    BY <1>1, <1>2, <1>3, <1>4, <1>5 DEF Next

-----------------------------------------------------------------------------
(* One page *)

LEMMA LenOfRange ==
    ASSUME NEW k \in Int, NEW g, g = [i \in 1 .. k |-> g[i]]
    PROVE  Len(g) = IF k > 0 THEN k ELSE 0
  <1> DEFINE n == IF k > 0 THEN k ELSE 0
             S == {g[i] : i \in 1 .. k}
  <1>1. n \in Nat /\ 1 .. k = 1 .. n
    OBVIOUS
  <1>2. g \in [1 .. n -> S]
    BY <1>1
  <1> HIDE DEF n, S
  <1>3. g \in Seq(S)
    BY <1>1, <1>2, SeqDef
  <1> DEFINE l == Len(g)
  <1>4. l \in Nat /\ \A x : x \in 1 .. l <=> x \in 1 .. n
    BY <1>2, <1>3, LenProperties
  <1> HIDE DEF l
  <1>5. n = 0 \/ n \in 1 .. l
    BY <1>1, <1>4
  <1>6. l = 0 \/ l \in 1 .. n
    BY <1>1, <1>4
  <1>7. l \in Nat
    BY <1>4
  <1>8. l = n
    BY <1>1, <1>5, <1>6, <1>7
  <1> QED
    BY <1>8 DEF n, l

\* The rows of a page: the ranks from offset on, as many as there are.
LEMMA WindowRows ==
    ASSUME LedgerInv, NEW f, offset \in Nat
    PROVE  LET ids == Listed(threads, f)
               rest == Cardinality(ids) - offset
               page == Window(Ranked(threads, f)) IN
           /\ rest \in Int /\ Limit \in Nat \ {0}
           /\ DOMAIN page = 1 .. (IF rest < Limit THEN rest ELSE Limit)
           /\ \A i \in DOMAIN page :
                page[i] \in ids /\ Rank(threads, ids, page[i]) = offset + i - 1
           /\ \A t \in ids :
                (Rank(threads, ids, t) >= offset /\ Rank(threads, ids, t) < offset + Limit) =>
                   \E i \in DOMAIN page : page[i] = t
  <1> DEFINE ids == Listed(threads, f)
             n == Cardinality(ids)
             rest == n - offset
             k == IF rest < Limit THEN rest ELSE Limit
             ranked == Ranked(threads, f)
             page == Window(ranked)
  <1>1. Keyed(threads, ids)
    BY ListedKeyed
  <1>2. n \in Nat /\ Limit \in Nat \ {0}
    BY <1>1, FS_CardinalityType, ListingAssumption DEF Keyed
  <1>3. /\ Len(ranked) = n
        /\ \A i \in 1 .. n : ranked[i] \in ids /\ Rank(threads, ids, ranked[i]) = i - 1
    BY <1>1, RankedPlaces
  <1>4. page = [i \in 1 .. k |-> ranked[offset + i]]
    BY <1>3 DEF Window
  <1>5. \A t \in ids : Rank(threads, ids, t) \in 0 .. n - 1
    BY <1>1, RankType
  <1>6. \A t, u \in ids : Rank(threads, ids, t) = Rank(threads, ids, u) => t = u
    BY <1>1, RanksDiffer
  <1> HIDE DEF ids, n, ranked, page
  <1>7. ASSUME NEW i \in 1 .. k
        PROVE  page[i] \in ids /\ Rank(threads, ids, page[i]) = offset + i - 1
    <2>1. offset + i \in 1 .. n
      BY <1>2
    <2> QED
      BY <1>3, <1>4, <2>1
  <1>8. ASSUME NEW t \in ids,
               Rank(threads, ids, t) >= offset, Rank(threads, ids, t) < offset + Limit
        PROVE  \E i \in 1 .. k : page[i] = t
    <2> DEFINE rank == Rank(threads, ids, t)
               i == rank - offset + 1
    <2>1. rank \in 0 .. n - 1
      BY <1>5
    <2> HIDE DEF rank
    <2>2. i \in 1 .. k
      BY <1>2, <1>8, <2>1 DEF rank
    <2>3. page[i] \in ids /\ Rank(threads, ids, page[i]) = offset + i - 1
      BY <1>7, <2>2
    <2>4. offset + i - 1 = rank
      BY <1>2, <2>1
    <2>5. page[i] = t
      BY <1>6, <2>3, <2>4 DEF rank
    <2> QED
      BY <2>2, <2>5
  <1>9. rest \in Int
    BY <1>2
  <1>10. DOMAIN page = 1 .. k
    BY <1>4
  <1> QED
    BY <1>2, <1>7, <1>8, <1>9, <1>10 DEF ids, n, ranked, page

\* The page is a sequence of at most Limit items.
PageSeq ==
    /\ Len(items) \in 0 .. Limit
    /\ items = [i \in 1 .. Len(items) |-> items[i]]

ClientInv ==
    /\ stage \in {"idle", "count", "page", "rollup", "answered", "second", "summed"}
    /\ filter \in Filters \cup {None}
    /\ offset \in Nat /\ total \in Nat
    /\ PageSeq
    /\ \A i \in 1 .. Len(items) :
         items[i] \in [id : ThreadId, row : Thread,
                       rollup : [last : Nat, count : Nat] \cup {None}]
    /\ walked \subseteq ThreadId
    /\ stage = "rollup" => \A i \in 1 .. Len(items) : items[i].id \in DOMAIN threads
    /\ stage = "idle" => offset = 0 /\ filter = None /\ ~left
    /\ stage \in {"count", "page", "rollup", "answered"} => filter \in Filters

\* PageThreads, by ranks.
LEMMA PageFacts ==
    ASSUME LedgerInv, ClientInv, PageThreads
    PROVE  LET ids == Listed(threads, filter) IN
           /\ PageSeq'
           /\ Len(items') = Limit \/ offset + Len(items') >= Cardinality(ids)
           /\ \A i \in 1 .. Len(items') :
                /\ items'[i].id \in ids
                /\ Rank(threads, ids, items'[i].id) = offset + i - 1
                /\ items'[i] = [id |-> items'[i].id, row |-> threads[items'[i].id],
                                rollup |-> None]
           /\ \A t \in ids :
                \/ Rank(threads, ids, t) < offset
                \/ \E i \in 1 .. Len(items') : items'[i].id = t
                \/ Rank(threads, ids, t) >= offset + Limit /\ Len(items') = Limit
  <1> DEFINE ids == Listed(threads, filter)
             n == Cardinality(ids)
             rest == n - offset
             k == IF rest < Limit THEN rest ELSE Limit
             page == Window(Ranked(threads, filter))
             place(t) == Rank(threads, ids, t)
  <1>1. /\ rest \in Int /\ Limit \in Nat \ {0} /\ offset \in Nat
        /\ DOMAIN page = 1 .. k
        /\ \A i \in DOMAIN page : page[i] \in ids /\ place(page[i]) = offset + i - 1
        /\ \A t \in ids : (place(t) >= offset /\ place(t) < offset + Limit) =>
                             \E i \in DOMAIN page : page[i] = t
    BY WindowRows DEF ClientInv
  <1>2. Keyed(threads, ids)
    BY ListedKeyed
  <1>3. n \in Nat
    BY <1>2, FS_CardinalityType DEF Keyed
  <1>4. \A t \in ids : place(t) \in 0 .. n - 1
    BY <1>2, RankType
  <1>5. items' = [i \in DOMAIN page |->
                    [id |-> page[i], row |-> threads[page[i]], rollup |-> None]]
    BY DEF PageThreads
  <1> HIDE DEF ids, n, page, place
  <1>6. k \in Int /\ items' = [i \in 1 .. k |-> items'[i]]
    BY <1>1, <1>3, <1>5
  <1>7. Len(items') = IF k > 0 THEN k ELSE 0
    <2> HIDE DEF k
    <2> QED
      BY <1>6, LenOfRange
  <1>8. 1 .. k = 1 .. Len(items') /\ Len(items') \in 0 .. Limit
    BY <1>1, <1>6, <1>7
  <1>9. PageSeq'
    BY <1>6, <1>8, ListingAssumption DEF PageSeq
  <1>10. Len(items') = Limit \/ offset + Len(items') >= n
    BY <1>1, <1>3, <1>7
  <1>11. \A i \in 1 .. Len(items') :
           /\ items'[i].id \in ids
           /\ place(items'[i].id) = offset + i - 1
           /\ items'[i] = [id |-> items'[i].id, row |-> threads[items'[i].id], rollup |-> None]
    BY <1>1, <1>5, <1>8
  <1>12. ASSUME NEW t \in ids
         PROVE  \/ place(t) < offset
                \/ \E i \in 1 .. Len(items') : items'[i].id = t
                \/ place(t) >= offset + Limit /\ Len(items') = Limit
    <2>1. place(t) \in 0 .. n - 1
      BY <1>4
    <2>2. CASE place(t) >= offset /\ place(t) < offset + Limit
      <3>1. PICK i \in DOMAIN page : page[i] = t
        BY <1>1, <2>2
      <3>2. items'[i].id = t
        BY <1>5, <3>1
      <3> QED
        BY <1>1, <1>8, <3>2
    <2>3. CASE place(t) >= offset + Limit
      <3>1. rest > Limit
        BY <1>1, <1>3, <2>1, <2>3
      <3>2. Len(items') = Limit
        BY <1>1, <1>7, <3>1
      <3> QED
        BY <2>3, <3>2
    <2> QED
      BY <1>1, <2>1, <2>2, <2>3
  <1> QED
    BY <1>9, <1>10, <1>11, <1>12 DEF ids, n, place

\* Of a thread the rollup finds its newest number and how many it has.
LEMMA RollupFacts ==
    ASSUME LedgerInv, NEW t \in DOMAIN threads
    PROVE  /\ Rollup(t) \in [last : Nat, count : Nat]
           /\ Rollup(t).last = threads[t].last
           /\ Rollup(t).last \in Nums(messages)
           /\ Rollup(t).count =
                Cardinality({m \in InThread(messages, t) : m.num <= Rollup(t).last})
  <1> DEFINE rows == InThread(messages, t)
             nums == Nums(rows)
             number == [m \in rows |-> m.num]
  <1>1. Rollup(t).last = threads[t].last /\ Rollup(t).count = Cardinality(nums)
    BY NewestOfThread DEF Rollup
  <1>2. /\ threads[t].last \in Nat /\ threads[t].last \in Nums(messages)
        /\ \A m \in rows : m.num <= threads[t].last
    BY DEF LedgerInv, LedgerTypeOK, Thread, ActivityKeyExact, Nums, InThread
  <1>3. {m \in InThread(messages, t) : m.num <= Rollup(t).last} = rows
    BY <1>1, <1>2
  <1>4. rows \in SUBSET messages /\ IsFiniteSet(messages)
    BY TablesFinite DEF InThread, SmallTables
  <1>5. IsFiniteSet(rows)
    BY <1>4, FS_Subset
  <1>6. number \in Surjection(rows, nums) /\ number \in Injection(rows, nums)
    <2>1. number \in [rows -> nums]
      BY DEF Nums
    <2>2. \A n \in nums : \E m \in rows : number[m] = n
      BY DEF Nums
    <2>3. \A m, k \in rows : number[m] = number[k] => m = k
      BY <1>4 DEF LedgerInv, Numbered
    <2> HIDE DEF number, rows, nums
    <2> QED
      BY <2>1, <2>2, <2>3 DEF Surjection, Injection, IsInjective
  <1> HIDE DEF rows, nums, number
  <1>7. Cardinality(nums) = Cardinality(rows)
    BY <1>5, <1>6, FS_Surjection
  <1>8. Cardinality(nums) \in Nat
    BY <1>5, <1>7, FS_CardinalityType
  <1>9. Rollup(t) = [last |-> Rollup(t).last, count |-> Rollup(t).count]
    BY DEF Rollup
  <1> QED
    BY <1>1, <1>2, <1>3, <1>7, <1>8, <1>9 DEF rows

\* RollUp, item by item.
LEMMA RollUpFacts ==
    ASSUME LedgerInv, ClientInv, RollUp
    PROVE  /\ PageSeq' /\ Len(items') = Len(items)
           /\ \A i \in 1 .. Len(items) :
                items'[i] = [id |-> items[i].id, row |-> items[i].row,
                             rollup |-> Rollup(items[i].id)]
           /\ walked' = walked \cup {items[i].id : i \in 1 .. Len(items)}
           /\ stage = "rollup" /\ stage' = "answered"
           /\ UNCHANGED <<ledger, filter, offset, total, begun, left, summary>>
  <1>1. PageSeq
    BY DEF ClientInv
  <1>2. /\ DOMAIN items = 1 .. Len(items) /\ Len(items) \in 0 .. Limit
        /\ Len(items) \in Int
    BY <1>1, ListingAssumption DEF PageSeq
  <1> DEFINE n == Len(items)
  <1>3. items' = [i \in 1 .. n |-> [items[i] EXCEPT !.rollup = Rollup(items[i].id)]]
    BY <1>2 DEF RollUp
  <1> HIDE DEF n
  <1>4. items' = [i \in 1 .. n |-> items'[i]]
    BY <1>3
  <1>5. Len(items') = n
    BY <1>2, <1>4, LenOfRange DEF n
  <1>6. ASSUME NEW i \in 1 .. n
        PROVE  items'[i] = [id |-> items[i].id, row |-> items[i].row,
                            rollup |-> Rollup(items[i].id)]
    <2> DEFINE rolled == Rollup(items[i].id)
    <2> HIDE DEF rolled
    <2>1. items[i] \in [id : ThreadId, row : Thread,
                        rollup : [last : Nat, count : Nat] \cup {None}]
      BY DEF ClientInv, n
    <2>2. items'[i] = [items[i] EXCEPT !.rollup = rolled]
      BY <1>3 DEF rolled
    <2> QED
      BY <2>1, <2>2 DEF rolled
  <1>7. PageSeq'
    BY <1>2, <1>4, <1>5 DEF PageSeq, n
  <1>8. walked' = walked \cup {items[i].id : i \in 1 .. n}
    BY <1>2 DEF RollUp, n
  <1> QED
    BY <1>5, <1>6, <1>7, <1>8 DEF RollUp, n

LEMMA ClientStep ==
    ASSUME LedgerInv, ClientInv, [Next]_vars
    PROVE  ClientInv'
  <1>1. CASE Serve
    <2>1. UNCHANGED <<stage, filter, offset, total, items, walked>>
      BY <1>1 DEF Serve
    <2>2. stage' = "idle" => offset' = 0 /\ filter' = None /\ ~left'
      BY <1>1, <2>1 DEF ClientInv, Serve, SomebodyLeaves
    <2>3. DOMAIN threads \subseteq DOMAIN threads'
      BY <1>1, ServeFacts DEF KeepsRows
    <2> QED
      BY <2>1, <2>2, <2>3 DEF ClientInv, PageSeq
  <1>2. CASE \E f \in Filters : Ask(f)
    BY <1>2 DEF Ask, ClientInv, PageSeq
  <1>3. CASE CountThreads
    <2>1. Keyed(threads, Listed(threads, filter))
      BY ListedKeyed
    <2>2. Cardinality(Listed(threads, filter)) \in Nat
      BY <2>1, FS_CardinalityType DEF Keyed
    <2> QED
      BY <1>3, <2>2 DEF CountThreads, ClientInv, PageSeq
  <1>4. CASE PageThreads
    <2>1. /\ PageSeq'
          /\ \A i \in 1 .. Len(items') :
               /\ items'[i].id \in Listed(threads, filter)
               /\ items'[i] = [id |-> items'[i].id, row |-> threads[items'[i].id],
                               rollup |-> None]
      BY <1>4, PageFacts
    <2>2. \A t \in DOMAIN threads : t \in ThreadId /\ threads[t] \in Thread
      BY DEF LedgerInv, LedgerTypeOK
    <2>3. Listed(threads, filter) \subseteq DOMAIN threads
      BY DEF Listed
    <2>4. ASSUME NEW i \in 1 .. Len(items')
          PROVE  items'[i] \in [id : ThreadId, row : Thread,
                                rollup : [last : Nat, count : Nat] \cup {None}]
      <3> DEFINE id == items'[i].id
      <3>1. /\ id \in ThreadId /\ threads[id] \in Thread
            /\ items'[i] = [id |-> id, row |-> threads[id], rollup |-> None]
        BY <2>1, <2>2, <2>3
      <3> HIDE DEF id
      <3> QED
        BY <3>1
    <2>5. /\ stage = "page" /\ stage' = "rollup"
          /\ UNCHANGED <<threads, filter, offset, total, walked>>
      BY <1>4 DEF PageThreads, ledger
    <2> QED
      BY <2>1, <2>3, <2>4, <2>5 DEF ClientInv
  <1>5. CASE RollUp
    <2>1. /\ PageSeq' /\ Len(items') = Len(items)
          /\ \A i \in 1 .. Len(items) :
               items'[i] = [id |-> items[i].id, row |-> items[i].row,
                            rollup |-> Rollup(items[i].id)]
          /\ walked' = walked \cup {items[i].id : i \in 1 .. Len(items)}
          /\ stage = "rollup" /\ stage' = "answered"
          /\ UNCHANGED <<ledger, filter, offset, total, left>>
      BY <1>5, RollUpFacts
    <2>2. ASSUME NEW i \in 1 .. Len(items)
          PROVE  /\ items[i].id \in ThreadId /\ items[i].row \in Thread
                 /\ Rollup(items[i].id) \in [last : Nat, count : Nat]
      <3>1. items[i].id \in DOMAIN threads
        BY <2>1 DEF ClientInv
      <3> QED
        BY <3>1, RollupFacts DEF ClientInv
    <2>3. ASSUME NEW i \in 1 .. Len(items')
          PROVE  items'[i] \in [id : ThreadId, row : Thread,
                                rollup : [last : Nat, count : Nat] \cup {None}]
      <3> DEFINE rolled == Rollup(items[i].id)
      <3>1. /\ items'[i] = [id |-> items[i].id, row |-> items[i].row, rollup |-> rolled]
            /\ items[i].id \in ThreadId /\ items[i].row \in Thread
            /\ rolled \in [last : Nat, count : Nat]
        BY <2>1, <2>2
      <3> HIDE DEF rolled
      <3> QED
        BY <3>1
    <2>4. walked' \subseteq ThreadId
      BY <2>1, <2>2 DEF ClientInv
    <2> QED
      BY <2>1, <2>3, <2>4 DEF ClientInv
  <1>6. CASE NextPage
    <2>1. /\ items' = <<>> /\ stage = "answered" /\ stage' = "count"
          /\ offset' = offset + Limit /\ UNCHANGED <<filter, total, walked, left>>
      BY <1>6 DEF NextPage
    <2>2. PageSeq'
      BY <2>1, ListingAssumption DEF PageSeq
    <2>3. Len(items') = 0
      BY <2>1
    <2> QED
      BY <2>1, <2>2, <2>3, ListingAssumption DEF ClientInv
  <1>7. CASE CountFirst \/ CountSecond
    BY <1>7 DEF CountFirst, CountSecond, SummaryCount, ClientInv, PageSeq, ledger
  <1>8. CASE UNCHANGED vars
    BY <1>8 DEF vars, client, ledger, ClientInv, PageSeq
  <1> QED
    BY <1>1, <1>2, <1>3, <1>4, <1>5, <1>6, <1>7, <1>8 DEF Next

\* Between page and rollups: what has moved since has a number above every key
\* the page was ranked by, and a resolved row is still the row.
PageRanked ==
    /\ \A i \in 1 .. Len(items) :
         LET key == threads[items[i].id].last IN
         /\ \/ key = items[i].row.last
            \/ \A k \in 1 .. Len(items) : key > items[k].row.last
         /\ items[i].row.status = "resolved" =>
              items[i].row = threads[items[i].id]
    /\ \A i, j \in 1 .. Len(items) : i < j => items[i].row.last > items[j].row.last

PageInv ==
    /\ stage = "rollup" => PageRanked
    /\ stage = "answered" =>
         \A i \in 1 .. Len(items) : items[i].rollup.last \in Nums(messages)
    /\ PageHangsTogether

LEMMA PageStays ==
    ASSUME LedgerInv, ClientInv, stage = "rollup", PageRanked, Serve
    PROVE  PageRanked'
  <1>1. KeysGrow /\ KeepsResolved /\ UNCHANGED items
    BY ServeFacts
  <1>2. \A i \in 1 .. Len(items) : items[i].id \in DOMAIN threads /\ items[i].row.last \in Nat
    BY DEF ClientInv, Thread
  <1>3. \A t \in DOMAIN threads :
          threads[t].last \in Nat /\ \E m \in messages : m.num = threads[t].last
    BY DEF LedgerInv, LedgerTypeOK, Thread, ActivityKeyExact, Nums, InThread
  <1>4. \A i \in 1 .. Len(items) : items[i].row.last <= threads[items[i].id].last
    BY <1>2, <1>3 DEF PageRanked
  <1>5. ASSUME NEW i \in 1 .. Len(items),
               threads'[items[i].id].last # threads[items[i].id].last,
               NEW k \in 1 .. Len(items)
        PROVE  threads'[items[i].id].last > items[k].row.last
    <2> DEFINE key == threads'[items[i].id].last
    <2>1. \A m \in messages : key > m.num
      BY <1>1, <1>2, <1>5 DEF KeysGrow
    <2>2. \A t \in DOMAIN threads' : threads'[t].last \in Nat
      BY ServeFacts DEF LedgerInv, LedgerTypeOK, Thread
    <2>3. key \in Nat
      BY <1>1, <1>2, <2>2 DEF KeysGrow
    <2>4. key > threads[items[k].id].last
      BY <1>2, <1>3, <2>1
    <2> QED
      BY <1>2, <1>3, <1>4, <2>3, <2>4
  <1>6. ASSUME NEW i \in 1 .. Len(items), items[i].row.status = "resolved"
        PROVE  items[i].row = threads'[items[i].id]
    BY <1>1, <1>2, <1>6 DEF PageRanked, KeepsResolved
  <1> QED
    BY <1>1, <1>5, <1>6 DEF PageRanked

\* New messages have numbers beyond every number shown.
LEMMA AnswerStays ==
    ASSUME LedgerInv, ClientInv, stage = "answered", PageInv, Serve
    PROVE  PageInv'
  <1>1. AppendsInOrder /\ UNCHANGED <<items, stage>>
    BY ServeFacts
  <1>2. LedgerInv'
    BY ServeFacts
  <1>3. (\A m \in messages : m.num \in Nat) /\ \A m \in messages' : m.num \in Nat
    BY <1>2 DEF LedgerInv, LedgerTypeOK, Message
  <1>4. Nums(messages) \subseteq Nums(messages')
    BY <1>1 DEF AppendsInOrder, Nums
  <1>5. ASSUME NEW i \in 1 .. Len(items)
        PROVE  {m \in InThread(messages', items[i].id) : m.num <= items[i].rollup.last}
                 = {m \in InThread(messages, items[i].id) : m.num <= items[i].rollup.last}
    <2>1. PICK old \in messages : old.num = items[i].rollup.last
      BY DEF PageInv, Nums
    <2>2. \A m \in messages' : m.num <= old.num => m \in messages
      BY <1>1, <1>3 DEF AppendsInOrder
    <2>3. messages \subseteq messages'
      BY <1>1 DEF AppendsInOrder
    <2> QED
      BY <2>1, <2>2, <2>3 DEF InThread
  <1>6. DOMAIN items = 1 .. Len(items)
    BY DEF ClientInv, PageSeq
  <1>7. PageHangsTogether'
    BY <1>1, <1>5, <1>6 DEF PageInv, PageHangsTogether, Answered
  <1> QED
    BY <1>1, <1>4, <1>7 DEF PageInv

\* The ranks of a fresh page order its keys.
LEMMA PageIsRanked ==
    ASSUME LedgerInv, ClientInv, PageThreads
    PROVE  PageRanked'
  <1> DEFINE ids == Listed(threads, filter)
             place(t) == Rank(threads, ids, t)
  <1>1. \A i \in 1 .. Len(items') :
           /\ items'[i].id \in ids
           /\ place(items'[i].id) = offset + i - 1
           /\ items'[i] = [id |-> items'[i].id, row |-> threads[items'[i].id], rollup |-> None]
    BY PageFacts
  <1>2. UNCHANGED threads
    BY DEF PageThreads, ledger
  <1>3. ASSUME NEW i \in 1 .. Len(items')
        PROVE  items'[i].row = threads[items'[i].id]
    <2> DEFINE id == items'[i].id
    <2>1. items'[i] = [id |-> id, row |-> threads[id], rollup |-> None]
      BY <1>1
    <2> HIDE DEF id
    <2>2. items'[i].row = threads[id]
      BY <2>1
    <2> QED
      BY <2>2 DEF id
  <1>4. Keyed(threads, ids)
    BY ListedKeyed
  <1>5. ASSUME NEW i \in 1 .. Len(items'), NEW j \in 1 .. Len(items'), i < j
        PROVE  threads[items'[i].id].last > threads[items'[j].id].last
    <2> DEFINE t == items'[i].id
               u == items'[j].id
    <2>1. t \in ids /\ u \in ids /\ place(t) = offset + i - 1 /\ place(u) = offset + j - 1
      BY <1>1
    <2> HIDE DEF t, u, place, ids
    <2>2. place(t) < place(u)
      BY <1>5, <2>1 DEF ClientInv
    <2>3. place(t) \in Int /\ place(u) \in Int
      BY <1>5, <2>1 DEF ClientInv
    <2>4. threads[t].last \in Nat /\ threads[u].last \in Nat
      BY <1>4, <2>1 DEF Keyed
    <2>5. threads[t].last # threads[u].last
      BY <1>4, <2>1, <2>2, <2>3 DEF Keyed
    <2>6. ~(threads[u].last > threads[t].last)
      <3>1. (threads[u].last > threads[t].last) => place(u) < place(t)
        BY <1>4, <2>1, RankGrows DEF place
      <3> QED
        BY <2>2, <2>3, <3>1
    <2>7. threads[t].last > threads[u].last
      BY <2>4, <2>5, <2>6
    <2> QED
      BY <2>7 DEF t, u
  <1> QED
    BY <1>2, <1>3, <1>5 DEF PageRanked

\* Rolled up, a ranked page hangs together.
LEMMA PageIsRolledUp ==
    ASSUME LedgerInv, ClientInv, PageRanked, RollUp
    PROVE  PageInv'
  <1>1. /\ PageSeq' /\ Len(items') = Len(items)
        /\ \A i \in 1 .. Len(items) :
             items'[i] = [id |-> items[i].id, row |-> items[i].row,
                          rollup |-> Rollup(items[i].id)]
        /\ stage = "rollup" /\ stage' = "answered" /\ UNCHANGED ledger
    BY RollUpFacts
  <1>2. DOMAIN items' = 1 .. Len(items)
    BY <1>1 DEF PageSeq
  <1>3. ASSUME NEW i \in 1 .. Len(items)
        PROVE  /\ items[i].id \in DOMAIN threads
               /\ items[i].row.last \in Nat /\ threads[items[i].id].last \in Nat
    <2>1. items[i].id \in DOMAIN threads /\ items[i].row \in Thread
      BY <1>1 DEF ClientInv
    <2> QED
      BY <2>1 DEF LedgerInv, LedgerTypeOK, Thread
  <1>4. ASSUME NEW i \in 1 .. Len(items)
        PROVE  /\ items'[i].id = items[i].id /\ items'[i].row = items[i].row
               /\ items'[i].rollup \in [last : Nat, count : Nat]
               /\ items'[i].rollup.last = threads[items[i].id].last
               /\ items'[i].rollup.last \in Nums(messages)
               /\ items'[i].rollup.count = Cardinality(
                    {m \in InThread(messages, items'[i].id) : m.num <= items'[i].rollup.last})
    <2> DEFINE id == items[i].id
               rolled == Rollup(id)
    <2>1. /\ rolled \in [last : Nat, count : Nat] /\ rolled.last = threads[id].last
          /\ rolled.last \in Nums(messages)
          /\ rolled.count = Cardinality({m \in InThread(messages, id) : m.num <= rolled.last})
      BY <1>3, RollupFacts
    <2>2. items'[i] = [id |-> id, row |-> items[i].row, rollup |-> rolled]
      BY <1>1
    <2> HIDE DEF rolled, id
    <2>3. items'[i].id = id /\ items'[i].row = items[i].row /\ items'[i].rollup = rolled
      BY <2>2
    <2>4. items'[i].id = items[i].id
      BY <2>3 DEF id
    <2>5. items'[i].rollup.last = threads[items[i].id].last
      BY <2>1, <2>3 DEF id
    <2> QED
      BY <2>1, <2>3, <2>4, <2>5
  <1>5. ASSUME NEW i \in 1 .. Len(items)
        PROVE  items'[i].rollup.last >= items'[i].row.last
    <2> DEFINE key == threads[items[i].id].last
    <2>1. key = items[i].row.last \/ key > items[i].row.last
      BY DEF PageRanked
    <2>2. key \in Nat /\ items[i].row.last \in Nat
      BY <1>3
    <2>3. items'[i].rollup.last = key /\ items'[i].row = items[i].row
      BY <1>4
    <2> HIDE DEF key
    <2> QED
      BY <2>1, <2>2, <2>3
  <1>6. ASSUME NEW i \in 1 .. Len(items), items'[i].row.status = "resolved"
        PROVE  items'[i].rollup.last = items'[i].row.resolved_by
    <2>1. threads[items[i].id] = items'[i].row
      BY <1>4, <1>6 DEF PageRanked
    <2> QED
      BY <1>3, <1>4, <1>6, <2>1 DEF LedgerInv, ResolvedByItsLastMessage
  <1>7. ASSUME NEW i \in 1 .. Len(items), NEW j \in 1 .. Len(items),
               i < j, items'[i].rollup.last <= items'[j].rollup.last,
               NEW k \in 1 .. Len(items)
        PROVE  items'[j].rollup.last > items'[k].row.last
    <2>1. items[i].row.last > items[j].row.last
      BY <1>7 DEF PageRanked
    <2>2. threads[items[i].id].last >= items[i].row.last
      BY <1>3, <1>4, <1>5
    <2>3. threads[items[j].id].last # items[j].row.last
      <3>1. threads[items[i].id].last <= threads[items[j].id].last
        BY <1>4, <1>7
      <3>2. /\ items[i].row.last \in Nat /\ threads[items[i].id].last \in Nat
            /\ items[j].row.last \in Nat /\ threads[items[j].id].last \in Nat
        BY <1>3
      <3> QED
        BY <2>1, <2>2, <3>1, <3>2
    <2>4. threads[items[j].id].last > items[k].row.last
      BY <2>3 DEF PageRanked
    <2> QED
      BY <1>4, <2>4
  <1>8. PageHangsTogether'
    BY <1>1, <1>2, <1>4, <1>5, <1>6, <1>7 DEF PageHangsTogether, ledger
  <1> QED
    BY <1>1, <1>4, <1>8 DEF PageInv, ledger

LEMMA PageStep ==
    ASSUME LedgerInv, ClientInv, PageInv, [Next]_vars
    PROVE  PageInv'
  <1>1. CASE Serve
    <2>1. stage' = stage
      BY <1>1 DEF Serve
    <2> QED
      BY <1>1, <2>1, PageStays, AnswerStays DEF PageInv, PageHangsTogether, Answered
  <1>2. CASE PageThreads
    <2>1. stage' = "rollup"
      BY <1>2 DEF PageThreads
    <2> QED
      BY <1>2, <2>1, PageIsRanked DEF PageInv, PageHangsTogether, Answered
  <1>3. CASE RollUp
    <2>1. stage = "rollup"
      BY <1>3 DEF RollUp
    <2> QED
      BY <1>3, <2>1, PageIsRolledUp DEF PageInv
  <1>4. CASE CountThreads \/ NextPage \/ CountFirst \/ CountSecond \/ \E f \in Filters : Ask(f)
    <2>1. stage' # "rollup" /\ stage' # "answered"
      BY <1>4 DEF CountThreads, NextPage, CountFirst, CountSecond, SummaryCount, Ask
    <2> QED
      BY <2>1 DEF PageInv, PageHangsTogether, Answered
  <1>5. CASE UNCHANGED vars
    BY <1>5 DEF vars, client, ledger, PageInv, PageRanked, PageHangsTogether, Answered
  <1> QED
    BY <1>1, <1>2, <1>3, <1>4, <1>5 DEF Next

-----------------------------------------------------------------------------
(* A walk from page to page *)

Asking == stage \in {"count", "page", "rollup", "answered"}

PageTaken == stage \in {"rollup", "answered"}

Place(t) == Rank(threads, Listed(threads, filter), t)

\* Where a thread that has kept still is: on a page the walk has seen, on the
\* page it is about to roll up, or among the places still to come.
Accounted(t) ==
    \/ t \in walked
    \/ stage = "rollup" /\ \E i \in 1 .. Len(items) : items[i].id = t
    \/ stage \in {"count", "page"} /\ Place(t) >= offset
    \/ PageTaken /\ Len(items) = Limit /\ Place(t) >= offset + Limit

Kept ==
    /\ Listed(begun, filter) \subseteq Listed(threads, filter)
    /\ \A t \in Listed(begun, filter) :
         /\ begun[t].last \in Nat
         /\ begun[t].last <= threads[t].last
         /\ begun[t].last = threads[t].last => Accounted(t)

Counts ==
    /\ stage = "page" => total <= Cardinality(Listed(threads, filter))
    /\ (PageTaken /\ Len(items) < Limit) => offset + Len(items) >= total

WalkInv == (Asking /\ ~left) => Kept /\ Counts

\* A listing no thread has left: what was listed still is, no newer thread has
\* become an older one, and so the places of the threads that kept still grew.
LEMMA PlacesGrow ==
    ASSUME LedgerInv, ClientInv, Asking, Serve, ~left'
    PROVE  /\ Listed(threads, filter) \subseteq Listed(threads, filter)'
           /\ Cardinality(Listed(threads, filter)) <= Cardinality(Listed(threads, filter)')
           /\ \A t \in Listed(threads, filter) :
                threads'[t].last = threads[t].last => Place(t) <= Place(t)'
  <1> DEFINE ids == Listed(threads, filter)
             next == Listed(threads', filter)
  <1>1. /\ KeysGrow /\ filter' = filter /\ left' = (left \/ SomebodyLeaves) /\ ListingsKeyed'
    BY ServeFacts, ListingsKeyedNext
  <1>2. Keyed(threads', next) /\ Keyed(threads, ids)
    BY <1>1, ListedKeyed DEF ListingsKeyed
  <1>3. filter # None
    BY ListingAssumption DEF ClientInv, Asking
  <1>4. \A t \in ids : t \in DOMAIN threads' /\ Matches(threads'[t], filter)
    BY <1>1, <1>3 DEF KeysGrow, SomebodyLeaves, Listed
  <1>5. ids \in SUBSET next
    BY <1>4 DEF Listed
  <1>6. Cardinality(ids) <= Cardinality(next)
    BY <1>2, <1>5, FS_Subset DEF Keyed
  <1>7. ASSUME NEW t \in ids, threads'[t].last = threads[t].last
        PROVE  Rank(threads, ids, t) <= Rank(threads', next, t)
    <2>1. \A u \in ids : threads'[u].last >= threads[u].last
      BY <1>1, <1>2, <1>5 DEF KeysGrow, Keyed, Listed
    <2>2. \A u \in ids : threads[u].last \in Nat /\ threads'[u].last \in Nat
      BY <1>2, <1>5 DEF Keyed
    <2>3. Ahead(threads, ids, t) \in SUBSET Ahead(threads', next, t)
      BY <1>5, <1>7, <2>1, <2>2 DEF Ahead
    <2>4. IsFiniteSet(Ahead(threads', next, t))
      BY <1>2, <1>5, RankType
    <2> QED
      BY <2>3, <2>4, FS_Subset DEF Rank
  <1> QED
    BY <1>1, <1>5, <1>6, <1>7 DEF Place

LEMMA PlaceIsNat ==
    ASSUME LedgerInv, NEW t \in Listed(threads, filter)
    PROVE  Place(t) \in 0 .. Cardinality(Listed(threads, filter)) - 1
  <1>1. Keyed(threads, Listed(threads, filter))
    BY ListedKeyed
  <1> QED
    BY <1>1, RankType DEF Place

LEMMA CountIsNat ==
    ASSUME LedgerInv
    PROVE  Cardinality(Listed(threads, filter)) \in Nat
  <1>1. Keyed(threads, Listed(threads, filter))
    BY ListedKeyed
  <1> QED
    BY <1>1, FS_CardinalityType DEF Keyed

LEMMA CountIsNatNext ==
    ASSUME LedgerInv'
    PROVE  Cardinality(Listed(threads, filter)') \in Nat
  <1>1. Keyed(threads', Listed(threads', filter'))
    BY ListingsKeyedNext DEF ListingsKeyed
  <1> QED
    BY <1>1, FS_CardinalityType DEF Keyed

LEMMA ServeWalk ==
    ASSUME LedgerInv, ClientInv, WalkInv, Asking, ~left', Serve
    PROVE  Kept' /\ Counts'
  <1>1. /\ LedgerInv' /\ KeysGrow /\ ~left
        /\ UNCHANGED <<stage, filter, offset, total, items, walked, begun>>
    BY ServeFacts
  <1>2. Kept /\ Counts
    BY <1>1 DEF WalkInv
  <1>3. /\ Listed(threads, filter) \subseteq Listed(threads, filter)'
        /\ Cardinality(Listed(threads, filter)) <= Cardinality(Listed(threads, filter)')
        /\ \A t \in Listed(threads, filter) :
             threads'[t].last = threads[t].last => Place(t) <= Place(t)'
    BY PlacesGrow
  <1>4. /\ Cardinality(Listed(threads, filter)) \in Nat
        /\ Cardinality(Listed(threads, filter)') \in Nat
    BY <1>1, CountIsNat, CountIsNatNext
  <1>5. Counts'
    BY <1>1, <1>2, <1>3, <1>4 DEF Counts, PageTaken, ClientInv
  <1>6. Listed(begun, filter)' = Listed(begun, filter)
    BY <1>1
  <1>7. ASSUME NEW t \in Listed(begun, filter)
        PROVE  /\ begun[t].last <= threads'[t].last
               /\ begun[t].last = threads'[t].last => Accounted(t)'
    <2>1. /\ t \in Listed(threads, filter) /\ begun[t].last \in Nat
          /\ begun[t].last <= threads[t].last
          /\ begun[t].last = threads[t].last => Accounted(t)
      BY <1>2 DEF Kept
    <2>2. t \in DOMAIN threads /\ t \in DOMAIN threads'
      BY <1>1, <2>1 DEF Listed, KeysGrow
    <2>3. threads[t].last \in Nat /\ threads'[t].last \in Nat
      BY <1>1, <2>2 DEF LedgerInv, LedgerTypeOK, Thread
    <2>4. threads[t].last <= threads'[t].last
      BY <1>1, <2>2, <2>3 DEF KeysGrow
    <2>5. ASSUME begun[t].last = threads'[t].last
          PROVE  Accounted(t)'
      <3>1. threads'[t].last = threads[t].last
        BY <2>1, <2>3, <2>4, <2>5
      <3>2. Accounted(t) /\ Place(t) <= Place(t)'
        BY <1>3, <2>1, <2>5, <3>1
      <3>3. Place(t) \in Nat
        BY <2>1, <1>4, PlaceIsNat
      <3>4. Place(t)' \in Nat
        <4>1. Keyed(threads', Listed(threads', filter'))
          BY <1>1, ListingsKeyedNext DEF ListingsKeyed
        <4>2. t \in Listed(threads', filter')
          BY <1>3, <2>1
        <4>3. Rank(threads', Listed(threads', filter'), t)
                \in 0 .. Cardinality(Listed(threads', filter')) - 1
          BY <4>1, <4>2, RankType
        <4> QED
          BY <4>3 DEF Place
      <3>5. offset \in Nat /\ Limit \in Nat
        BY ListingAssumption DEF ClientInv
      <3> QED
        BY <1>1, <3>2, <3>3, <3>4, <3>5 DEF Accounted, PageTaken
    <2> QED
      BY <2>1, <2>3, <2>4, <2>5
  <1>8. Kept'
    BY <1>1, <1>2, <1>3, <1>6, <1>7 DEF Kept
  <1> QED
    BY <1>5, <1>8

LEMMA PageWalk ==
    ASSUME LedgerInv, ClientInv, Kept, Counts, PageThreads
    PROVE  Kept' /\ Counts'
  <1> DEFINE ids == Listed(threads, filter)
  <1>1. /\ stage = "page" /\ stage' = "rollup"
        /\ UNCHANGED <<threads, filter, offset, total, walked, begun>>
    BY DEF PageThreads, ledger
  <1>2. /\ PageSeq'
        /\ Len(items') = Limit \/ offset + Len(items') >= Cardinality(ids)
        /\ \A t \in ids :
             \/ Place(t) < offset
             \/ \E i \in 1 .. Len(items') : items'[i].id = t
             \/ Place(t) >= offset + Limit /\ Len(items') = Limit
    BY PageFacts DEF Place
  <1>3. Cardinality(ids) \in Nat /\ \A t \in ids : Place(t) \in 0 .. Cardinality(ids) - 1
    BY CountIsNat, PlaceIsNat
  <1>4. offset \in Nat /\ total \in Nat /\ Len(items') \in 0 .. Limit /\ Limit \in Nat
    BY <1>2, ListingAssumption DEF ClientInv, PageSeq
  <1>5. Counts'
    BY <1>1, <1>2, <1>3, <1>4 DEF Counts, PageTaken
  <1>6. ASSUME NEW t \in Listed(begun, filter), begun[t].last = threads[t].last
        PROVE  Accounted(t)'
    <2>1. t \in ids /\ Accounted(t)
      BY <1>6 DEF Kept
    <2>2. t \in walked \/ Place(t) >= offset
      BY <1>1, <2>1 DEF Accounted, PageTaken
    <2>3. Place(t)' = Place(t)
      BY <1>1 DEF Place
    <2>4. Place(t) \in Nat
      BY <1>3, <2>1
    <2> QED
      BY <1>1, <1>2, <1>4, <2>1, <2>2, <2>3, <2>4 DEF Accounted, PageTaken
  <1> QED
    BY <1>1, <1>5, <1>6 DEF Kept

LEMMA WalkStep ==
    ASSUME LedgerInv, ClientInv, WalkInv, [Next]_vars
    PROVE  WalkInv'
  <1> SUFFICES ASSUME Asking', ~left'
               PROVE  Kept' /\ Counts'
    BY DEF WalkInv
  <1>1. CASE Serve
    <2>1. Asking
      BY <1>1 DEF Serve, Asking
    <2> QED
      BY <1>1, <2>1, ServeWalk
  <1>2. ASSUME NEW f \in Filters, Ask(f)
        PROVE  Kept' /\ Counts'
    <2>1. /\ stage = "idle" /\ stage' = "count" /\ filter' = f /\ begun' = threads
          /\ threads' = threads /\ offset' = offset /\ offset = 0
      BY <1>2 DEF Ask, ClientInv, ledger
    <2>2. \A t \in Listed(threads, f) :
             /\ threads[t].last \in Nat
             /\ Rank(threads, Listed(threads, f), t) \in Nat
      <3>1. Keyed(threads, Listed(threads, f))
        BY ListedKeyed
      <3> QED
        BY <3>1, RankType, FS_CardinalityType DEF Keyed
    <2>3. \A t \in Listed(threads, f) : Accounted(t)'
      BY <2>1, <2>2 DEF Accounted, Place
    <2>4. Kept'
      BY <2>1, <2>2, <2>3 DEF Kept
    <2> QED
      BY <2>1, <2>4 DEF Counts, PageTaken
  <1>3. CASE CountThreads
    <2>1. /\ stage = "count" /\ stage' = "page" /\ total' = Cardinality(Listed(threads, filter))
          /\ UNCHANGED <<threads, filter, offset, items, walked, begun, left>>
      BY <1>3 DEF CountThreads, ledger
    <2>2. Kept
      BY <2>1 DEF WalkInv, Asking
    <2>3. \A t : Accounted(t) => Accounted(t)'
      BY <2>1 DEF Accounted, PageTaken, Place
    <2>4. Kept'
      BY <2>1, <2>2, <2>3 DEF Kept
    <2> QED
      BY <2>1, <2>4, CountIsNat DEF Counts, PageTaken
  <1>4. CASE PageThreads
    <2>1. Kept /\ Counts
      BY <1>4 DEF PageThreads, WalkInv, Asking
    <2> QED
      BY <1>4, <2>1, PageWalk
  <1>5. CASE RollUp
    <2>1. /\ Len(items') = Len(items) /\ stage = "rollup" /\ stage' = "answered"
          /\ walked' = walked \cup {items[i].id : i \in 1 .. Len(items)}
          /\ UNCHANGED <<threads, filter, offset, total, begun, left>>
      BY <1>5, RollUpFacts DEF ledger
    <2>2. Kept /\ Counts
      BY <2>1 DEF WalkInv, Asking
    <2>3. \A t : Accounted(t) => Accounted(t)'
      BY <2>1 DEF Accounted, PageTaken, Place
    <2>4. Kept'
      BY <2>1, <2>2, <2>3 DEF Kept
    <2> QED
      BY <2>1, <2>2, <2>4 DEF Counts, PageTaken
  <1>6. CASE NextPage
    <2>1. /\ stage = "answered" /\ stage' = "count" /\ offset' = offset + Limit
          /\ Len(items) = Limit
          /\ UNCHANGED <<threads, filter, walked, begun, left>>
      BY <1>6 DEF NextPage, ledger
    <2>2. Kept
      BY <2>1 DEF WalkInv, Asking
    <2>3. \A t : Accounted(t) => Accounted(t)'
      BY <2>1 DEF Accounted, PageTaken, Place
    <2>4. Kept'
      BY <2>1, <2>2, <2>3 DEF Kept
    <2> QED
      BY <2>1, <2>4 DEF Counts, PageTaken
  <1>7. CASE CountFirst \/ CountSecond
    BY <1>7 DEF CountFirst, CountSecond, SummaryCount, Asking
  <1>8. CASE UNCHANGED vars
    <2>1. UNCHANGED <<threads, stage, filter, offset, total, items, walked, begun, left>>
      BY <1>8 DEF vars, client, ledger
    <2>2. Kept /\ Counts
      BY <2>1 DEF WalkInv, Asking
    <2>3. \A t : Accounted(t) => Accounted(t)'
      BY <2>1 DEF Accounted, PageTaken, Place
    <2> QED
      BY <2>1, <2>2, <2>3 DEF Kept, Counts, PageTaken
  <1> QED
    BY <1>1, <1>2, <1>3, <1>4, <1>5, <1>6, <1>7, <1>8 DEF Next

-----------------------------------------------------------------------------
ListingInv == LedgerInv /\ SummaryInv /\ ClientInv /\ PageInv /\ WalkInv

LEMMA ListingInitInv == Init => ListingInv
  <1> SUFFICES ASSUME Init PROVE ListingInv
    OBVIOUS
  <1>1. LedgerInv
    BY LedgerInitInv DEF Init
  <1>2. SummaryInv
    BY DEF Init, SummaryInv, NoSummary
  <1>3. ClientInv
    <2>1. PageSeq
      BY ListingAssumption DEF Init, PageSeq
    <2>2. Len(items) = 0
      BY DEF Init
    <2> QED
      BY <2>1, <2>2 DEF Init, ClientInv
  <1>4. PageInv
    BY DEF Init, PageInv, PageHangsTogether, Answered
  <1>5. WalkInv
    BY DEF Init, WalkInv, Asking
  <1> QED
    BY <1>1, <1>2, <1>3, <1>4, <1>5 DEF ListingInv

LEMMA ListingStep ==
    ASSUME ListingInv, [Next]_vars
    PROVE  ListingInv'
  <1>1. [LedgerNext]_ledger
    BY DEF Next, Serve, Ask, CountThreads, PageThreads, RollUp, NextPage, CountFirst,
           CountSecond, SummaryCount, vars
  <1>2. LedgerInv'
    BY <1>1, LedgerStepKeepsInv DEF ListingInv
  <1> QED
    BY <1>2, SummaryStep, ClientStep, PageStep, WalkStep DEF ListingInv

LEMMA ListingInvHolds == Spec => []ListingInv
  BY ListingInitInv, ListingStep, PTL DEF Spec

\* What the answers are made of, in every instance: pages of at most Limit
\* items, each with the row of a thread and a complete rollup or none yet.
THEOREM ListingTypes == Spec => []ListingTypeOK
  <1>1. ListingInv => ListingTypeOK
    <2> SUFFICES ASSUME ListingInv PROVE ListingTypeOK
      OBVIOUS
    <2>1. DOMAIN items = 1 .. Len(items) /\ Len(items) \in 0 .. Limit
      BY DEF ListingInv, ClientInv, PageSeq
    <2>2. DOMAIN items \subseteq 1 .. Limit
      BY <2>1, ListingAssumption
    <2>3. \A table \in {"threads", "messages"} : summary[table] \in Nat \cup {None}
      BY DEF ListingInv, SummaryInv
    <2> QED
      BY <2>1, <2>2, <2>3 DEF ListingInv, ClientInv, LedgerInv, ListingTypeOK
  <1> QED
    BY <1>1, ListingInvHolds, PTL

\* However many threads are opened and posted to between the statements of a
\* walk, and whatever its page size: it misses no listed thread that kept
\* still, unless a thread left the filter meanwhile.
THEOREM WalksAreComplete == Spec => []WalkMissesNoQuietThread
  <1>1. ListingInv => WalkMissesNoQuietThread
    <2> SUFFICES ASSUME ListingInv, Answered, Len(items) < Limit, ~left,
                        NEW t \in Listed(begun, filter), threads[t] = begun[t]
                 PROVE  t \in walked
      BY DEF WalkMissesNoQuietThread
    <2>1. Kept
      BY DEF ListingInv, WalkInv, Asking, Answered
    <2>2. Accounted(t)
      BY <2>1 DEF Kept
    <2>3. Len(items) # Limit
      BY ListingAssumption DEF ListingInv, ClientInv, PageSeq
    <2> QED
      BY <2>2, <2>3 DEF Accounted, Answered
  <1> QED
    BY <1>1, ListingInvHolds, PTL

\* A page made of two snapshots hangs together, item by item and in its order.
THEOREM PagesHangTogether == Spec => []PageHangsTogether
  <1>1. ListingInv => PageHangsTogether
    BY DEF ListingInv, PageInv
  <1> QED
    BY <1>1, ListingInvHolds, PTL

\* A walk that ended in a short page has been given total rows.
THEOREM TotalsAreReached == Spec => []TotalIsReached
  <1>1. ListingInv => TotalIsReached
    BY DEF ListingInv, WalkInv, Asking, Counts, PageTaken, Answered, TotalIsReached
  <1> QED
    BY <1>1, ListingInvHolds, PTL

\* A project never shows more threads than messages.
THEOREM SummariesAddUp == Spec => []SummaryHasProposes
  <1>1. ListingInv => SummaryHasProposes
    BY DEF ListingInv, SummaryInv, SummaryHasProposes
  <1> QED
    BY <1>1, ListingInvHolds, PTL

=============================================================================
