-------------------------- MODULE ReadCursorProofs --------------------------
(***************************************************************************)
(* Proofs about read cursors, for any number of markers, identities and    *)
(* requests: a cursor stands on a message of its own thread, the audit log *)
(* knows where it is even when requests of one identity race, the inbox    *)
(* hides nothing, and while an identity has one request in flight its      *)
(* cursor only moves forward and its answers are true.                     *)
(*                                                                         *)
(* The invariant behind it: the position a handler has resolved is in its  *)
(* thread, which only grows; and what a lone handler has read of its       *)
(* cursor is still there when it commits.                                  *)
(***************************************************************************)
EXTENDS ReadCursor, LedgerProofs, SequenceTheorems

Mark == [key : Author \X ThreadId, from : Nat \cup {None}, to : Nat]

Handling == {"resolve", "read", "upsert", "commit"}

Current(m) == IF Key(m) \in DOMAIN cursors THEN cursors[Key(m)] ELSE None

\* Where every handler is, whoever else is about.
HandlerInv(m) ==
    /\ at[m] = "absent" => answer[m] = None
    /\ at[m] \in Handling =>
         /\ ask[m] \in [thread : ThreadId, up_to : Positions]
         /\ ask[m].thread \in DOMAIN threads
         /\ answer[m] = None
    /\ at[m] \in {"read", "upsert", "commit"} =>
         target[m] \in Nums(InThread(messages, ask[m].thread))

\* What holds besides of a client that is alone with its identity.
LoneInv(m) ==
    Alone(WhoOf[m]) =>
        /\ at[m] \in {"upsert", "commit"} =>
             seen[m] = Current(m) /\ ShouldAdvance(seen[m], target[m])
        /\ answer[m] \in {"advanced", "unchanged"} =>
             /\ Key(m) \in DOMAIN cursors
             /\ target[m] \in Nat
             /\ cursors[Key(m)] >= target[m]
             /\ cursors[Key(m)] = IF answer[m] = "advanced" THEN target[m] ELSE seen[m]

CursorInv ==
    /\ LedgerInv
    /\ CursorTypeOK
    /\ CursorInThread
    /\ CursorsReplayMarks
    /\ \A m \in Marker : HandlerInv(m)
    /\ \A m \in Marker : LoneInv(m)

-----------------------------------------------------------------------------
(* Lemmas *)

\* The newest message of a thread is in it.
LEMMA LatestIsInThread ==
    ASSUME LedgerInv, NEW t \in DOMAIN threads
    PROVE  LatestIn(t) \in Nums(InThread(messages, t))
  <1>1. threads[t].last \in Nums(InThread(messages, t))
    BY DEF LedgerInv, ActivityKeyExact
  <1> QED
    BY <1>1, NewestOfThread DEF LatestIn

-----------------------------------------------------------------------------
(* Steps of one marker *)

\* Who is about does not change, so neither does who is alone.
LEMMA AloneStays ==
    ASSUME CursorTypeOK, NEW m \in Marker, at[m] # "absent",
           NEW x, x # "absent", at' = [at EXCEPT ![m] = x], NEW who
    PROVE  Alone(who)' <=> Alone(who)
  <1>1. \A a \in Marker : at'[a] = "absent" <=> at[a] = "absent"
    BY DEF CursorTypeOK
  <1> QED
    BY <1>1 DEF Alone

\* What a step of m that touches no table has to show.
LEMMA QuietMarkerStep ==
    ASSUME CursorInv, NEW m \in Marker, at[m] # "absent",
           NEW x \in Handling \cup {"idle"}, at' = [at EXCEPT ![m] = x],
           UNCHANGED <<ledger, cursors, marks>>, CursorTypeOK',
           \A a \in Marker \ {m} : /\ ask'[a] = ask[a] /\ target'[a] = target[a]
                                   /\ seen'[a] = seen[a] /\ answer'[a] = answer[a],
           HandlerInv(m)', LoneInv(m)'
    PROVE  CursorInv'
  <1>1. threads' = threads /\ messages' = messages /\ events' = events
    BY DEF ledger
  <1>2. LedgerInv'
    BY StutterPreserves DEF CursorInv
  <1>3. CursorInThread' /\ CursorsReplayMarks'
    BY <1>1 DEF CursorInv, CursorInThread, CursorsReplayMarks
  <1>4. x # "absent"
    BY DEF Handling
  <1>5. ASSUME NEW a \in Marker, a # m
        PROVE  HandlerInv(a)' /\ LoneInv(a)'
    <2>1. at'[a] = at[a]
      BY <1>5 DEF CursorInv, CursorTypeOK
    <2>2. /\ ask'[a] = ask[a] /\ target'[a] = target[a]
          /\ seen'[a] = seen[a] /\ answer'[a] = answer[a]
      BY <1>5
    <2>3. Alone(WhoOf[a])' <=> Alone(WhoOf[a])
      BY <1>4, AloneStays DEF CursorInv
    <2>4. HandlerInv(a)'
      BY <1>1, <2>1, <2>2 DEF CursorInv, HandlerInv
    <2>5. LoneInv(a)'
      BY <1>1, <2>1, <2>2, <2>3 DEF CursorInv, LoneInv, Current, Key
    <2> QED
      BY <2>4, <2>5
  <1> QED
    BY <1>2, <1>3, <1>5 DEF CursorInv

LEMMA AskStep ==
    ASSUME CursorInv, NEW m \in Marker, NEW t \in ThreadId, NEW p \in Positions, Ask(m, t, p)
    PROVE  CursorInv'
  <1>1. \E x \in {"resolve", "idle"} : at' = [at EXCEPT ![m] = x]
    BY DEF Ask, Answered
  <1>2. PICK x \in {"resolve", "idle"} : at' = [at EXCEPT ![m] = x]
    BY <1>1
  <1>3. /\ at[m] = "idle"
        /\ sent' = [sent EXCEPT ![m] = @ + 1] /\ sent[m] < MaxMarks
        /\ ask' = [ask EXCEPT ![m] = [thread |-> t, up_to |-> p]]
        /\ target' = [target EXCEPT ![m] = None]
        /\ seen' = [seen EXCEPT ![m] = None]
        /\ UNCHANGED <<ledger, cursors, marks>>
    BY DEF Ask
  <1>4. /\ answer' \in {[answer EXCEPT ![m] = None], [answer EXCEPT ![m] = "not_found"]}
        /\ x = "resolve" => answer' = [answer EXCEPT ![m] = None] /\ t \in DOMAIN threads
    BY <1>2 DEF Ask, Answered, CursorInv, CursorTypeOK
  <1>5. threads' = threads /\ messages' = messages /\ events' = events
    BY <1>3 DEF ledger
  <1>6. CursorTypeOK'
    <2>1. LedgerTypeOK'
      BY <1>5 DEF CursorInv, CursorTypeOK, LedgerTypeOK
    <2>2. at' \in [Marker -> {"absent", "idle", "resolve", "read", "upsert", "commit"}]
      BY <1>2 DEF CursorInv, CursorTypeOK
    <2>3. ask' \in [Marker -> [thread : ThreadId, up_to : Positions] \cup {None}]
      BY <1>3 DEF CursorInv, CursorTypeOK
    <2>4. target' \in [Marker -> Nat \cup {None}] /\ seen' \in [Marker -> Nat \cup {None}]
      BY <1>3 DEF CursorInv, CursorTypeOK
    <2>5. answer' \in [Marker -> Outcome \cup {None}]
      BY <1>4 DEF CursorInv, CursorTypeOK, Outcome
    <2>6. sent' \in [Marker -> 0 .. MaxMarks]
      BY <1>3, MarkerAssumption DEF CursorInv, CursorTypeOK
    <2> QED
      BY <1>3, <2>1, <2>2, <2>3, <2>4, <2>5, <2>6 DEF CursorInv, CursorTypeOK
  <1>7. at'[m] = x /\ answer'[m] \in {None, "not_found"} /\ (x = "resolve" => answer'[m] = None)
    BY <1>2, <1>4 DEF CursorInv, CursorTypeOK
  <1>8. HandlerInv(m)'
    BY <1>3, <1>4, <1>5, <1>7 DEF HandlerInv, Handling, CursorInv, CursorTypeOK
  <1>9. LoneInv(m)'
    BY <1>7, MarkerAssumption DEF LoneInv, Outcome
  <1>10. \A a \in Marker \ {m} : /\ ask'[a] = ask[a] /\ target'[a] = target[a]
                                  /\ seen'[a] = seen[a] /\ answer'[a] = answer[a]
    BY <1>3, <1>4 DEF CursorInv, CursorTypeOK
  <1> QED
    BY <1>2, <1>3, <1>6, <1>8, <1>9, <1>10, QuietMarkerStep DEF Handling

LEMMA ResolveStep ==
    ASSUME CursorInv, NEW m \in Marker, Resolve(m)
    PROVE  CursorInv'
  <1> DEFINE p == ask[m].up_to
             t == ask[m].thread
             n == IF p = None THEN LatestIn(t) ELSE p
  <1>1. /\ at[m] = "resolve" /\ at' = [at EXCEPT ![m] = "read"]
        /\ p = None \/ p \in Nums(InThread(messages, t))
        /\ target' = [target EXCEPT ![m] = n]
        /\ UNCHANGED <<ledger, cursors, marks, ask, seen, answer, sent>>
    BY DEF Resolve
  <1>2. threads' = threads /\ messages' = messages /\ events' = events
    BY <1>1 DEF ledger
  <1>3. /\ ask[m] \in [thread : ThreadId, up_to : Positions]
        /\ t \in DOMAIN threads /\ answer[m] = None
    BY <1>1 DEF CursorInv, HandlerInv, Handling
  <1>4. n \in Nums(InThread(messages, t))
    BY <1>1, <1>3, LatestIsInThread DEF CursorInv
  <1>5. n \in Nat
    BY <1>4, NumsAreNumbers DEF CursorInv
  <1> HIDE DEF n
  <1>6. at'[m] = "read" /\ target'[m] = n
    BY <1>1 DEF CursorInv, CursorTypeOK
  <1>7. CursorTypeOK'
    <2>1. LedgerTypeOK'
      BY <1>2 DEF CursorInv, CursorTypeOK, LedgerTypeOK
    <2>2. at' \in [Marker -> {"absent", "idle", "resolve", "read", "upsert", "commit"}]
      BY <1>1 DEF CursorInv, CursorTypeOK
    <2>3. target' \in [Marker -> Nat \cup {None}]
      BY <1>1, <1>5 DEF CursorInv, CursorTypeOK
    <2> QED
      BY <1>1, <2>1, <2>2, <2>3 DEF CursorInv, CursorTypeOK
  <1>8. HandlerInv(m)'
    BY <1>1, <1>2, <1>3, <1>4, <1>6 DEF HandlerInv, Handling
  <1>9. LoneInv(m)'
    BY <1>1, <1>3, <1>6, MarkerAssumption DEF LoneInv, Outcome
  <1>10. \A a \in Marker \ {m} : /\ ask'[a] = ask[a] /\ target'[a] = target[a]
                                  /\ seen'[a] = seen[a] /\ answer'[a] = answer[a]
    BY <1>1 DEF CursorInv, CursorTypeOK
  <1> QED
    BY <1>1, <1>7, <1>8, <1>9, <1>10, QuietMarkerStep DEF Handling

\* A handler that is over with an outcome that is not about a cursor.
LEMMA OverStep ==
    ASSUME CursorInv, NEW m \in Marker, at[m] \in Handling,
           NEW outcome \in {"integrity", "lost"}, Answered(m, outcome),
           UNCHANGED <<ledger, cursors, marks, ask, target, seen, sent>>
    PROVE  CursorInv'
  <1>1. threads' = threads /\ messages' = messages /\ events' = events
    BY DEF ledger
  <1>2. at' = [at EXCEPT ![m] = "idle"] /\ answer' = [answer EXCEPT ![m] = outcome]
    BY DEF Answered
  <1>3. at'[m] = "idle" /\ answer'[m] = outcome
    BY <1>2 DEF CursorInv, CursorTypeOK
  <1>4. CursorTypeOK'
    <2>1. LedgerTypeOK'
      BY <1>1 DEF CursorInv, CursorTypeOK, LedgerTypeOK
    <2>2. at' \in [Marker -> {"absent", "idle", "resolve", "read", "upsert", "commit"}]
      BY <1>2 DEF CursorInv, CursorTypeOK
    <2>3. answer' \in [Marker -> Outcome \cup {None}]
      BY <1>2 DEF CursorInv, CursorTypeOK, Outcome
    <2> QED
      BY <2>1, <2>2, <2>3 DEF CursorInv, CursorTypeOK
  <1>5. HandlerInv(m)' /\ LoneInv(m)'
    BY <1>3 DEF HandlerInv, LoneInv, Handling
  <1>6. \A a \in Marker \ {m} : answer'[a] = answer[a]
    BY <1>2 DEF CursorInv, CursorTypeOK
  <1> QED
    BY <1>2, <1>4, <1>5, <1>6, QuietMarkerStep DEF Handling

LEMMA CurrentType ==
    ASSUME CursorInv, NEW m \in Marker
    PROVE  Current(m) \in Nat \cup {None}
  BY DEF CursorInv, CursorTypeOK, Current

LEMMA ReadStep ==
    ASSUME CursorInv, NEW m \in Marker, ReadExisting(m)
    PROVE  CursorInv'
  <1> DEFINE advance == ShouldAdvance(Current(m), target[m])
             x == IF advance THEN "upsert" ELSE "idle"
  <1>1. /\ at[m] = "read"
        /\ seen' = [seen EXCEPT ![m] = Current(m)]
        /\ at' = [at EXCEPT ![m] = x]
        /\ answer' = IF advance THEN answer ELSE [answer EXCEPT ![m] = "unchanged"]
        /\ UNCHANGED <<ledger, cursors, marks, ask, target, sent>>
    BY DEF ReadExisting, Current, Answered
  <1>2. threads' = threads /\ messages' = messages /\ events' = events
    BY <1>1 DEF ledger
  <1>3. /\ ask[m] \in [thread : ThreadId, up_to : Positions]
        /\ ask[m].thread \in DOMAIN threads /\ answer[m] = None
        /\ target[m] \in Nums(InThread(messages, ask[m].thread))
    BY <1>1 DEF CursorInv, HandlerInv, Handling
  <1>4. target[m] \in Nat /\ Current(m) \in Nat \cup {None}
    BY <1>3, NumsAreNumbers, CurrentType DEF CursorInv
  <1>5. /\ at'[m] = x /\ seen'[m] = Current(m)
        /\ answer'[m] = IF advance THEN None ELSE "unchanged"
    BY <1>1, <1>3 DEF CursorInv, CursorTypeOK
  <1>6. Current(m)' = Current(m) /\ Key(m)' = Key(m)
    BY <1>1 DEF Current, Key
  <1>7. ~advance => /\ Current(m) # None /\ Key(m) \in DOMAIN cursors
                    /\ cursors[Key(m)] = Current(m) /\ Current(m) >= target[m]
    BY <1>4 DEF ShouldAdvance, Current
  <1>8. CursorTypeOK'
    <2>1. LedgerTypeOK'
      BY <1>2 DEF CursorInv, CursorTypeOK, LedgerTypeOK
    <2>2. at' \in [Marker -> {"absent", "idle", "resolve", "read", "upsert", "commit"}]
      BY <1>1 DEF CursorInv, CursorTypeOK
    <2>3. seen' \in [Marker -> Nat \cup {None}]
      BY <1>1, <1>4 DEF CursorInv, CursorTypeOK
    <2>4. answer' \in [Marker -> Outcome \cup {None}]
      BY <1>1 DEF CursorInv, CursorTypeOK, Outcome
    <2> QED
      BY <1>1, <2>1, <2>2, <2>3, <2>4 DEF CursorInv, CursorTypeOK
  <1>9. HandlerInv(m)'
    BY <1>1, <1>2, <1>3, <1>5 DEF HandlerInv, Handling
  <1>10. LoneInv(m)'
    <2>1. ASSUME at'[m] \in {"upsert", "commit"}
          PROVE  seen'[m] = Current(m)' /\ ShouldAdvance(seen'[m], target'[m])
      BY <1>1, <1>5, <1>6, <2>1
    <2>2. ASSUME answer'[m] \in {"advanced", "unchanged"}
          PROVE  /\ Key(m)' \in DOMAIN cursors'
                 /\ target'[m] \in Nat
                 /\ cursors'[Key(m)'] >= target'[m]
                 /\ answer'[m] = "unchanged" /\ cursors'[Key(m)'] = seen'[m]
      <3>1. ~advance
        BY <1>5, <2>2, MarkerAssumption DEF Outcome
      <3> HIDE DEF advance
      <3> QED
        BY <1>1, <1>4, <1>5, <1>6, <1>7, <3>1
    <2> QED
      BY <2>1, <2>2 DEF LoneInv
  <1>11. \A a \in Marker \ {m} : /\ ask'[a] = ask[a] /\ target'[a] = target[a]
                                  /\ seen'[a] = seen[a] /\ answer'[a] = answer[a]
    BY <1>1 DEF CursorInv, CursorTypeOK
  <1>12. x \in Handling \cup {"idle"} /\ at[m] # "absent"
    BY <1>1 DEF Handling
  <1> HIDE DEF x
  <1> QED
    BY <1>1, <1>8, <1>9, <1>10, <1>11, <1>12, QuietMarkerStep

LEMMA UpsertStep ==
    ASSUME CursorInv, NEW m \in Marker, Upsert(m)
    PROVE  CursorInv'
  <1>1. /\ at[m] = "upsert" /\ at' = [at EXCEPT ![m] = "commit"]
        /\ UNCHANGED <<ledger, cursors, marks, ask, target, seen, answer, sent>>
    BY DEF Upsert
  <1>2. threads' = threads /\ messages' = messages /\ events' = events
    BY <1>1 DEF ledger
  <1>3. at'[m] = "commit"
    BY <1>1 DEF CursorInv, CursorTypeOK
  <1>4. Alone(WhoOf[m])' <=> Alone(WhoOf[m])
    BY <1>1, AloneStays DEF CursorInv
  <1>5. CursorTypeOK'
    <2>1. LedgerTypeOK'
      BY <1>2 DEF CursorInv, CursorTypeOK, LedgerTypeOK
    <2>2. at' \in [Marker -> {"absent", "idle", "resolve", "read", "upsert", "commit"}]
      BY <1>1 DEF CursorInv, CursorTypeOK
    <2> QED
      BY <1>1, <2>1, <2>2 DEF CursorInv, CursorTypeOK
  <1>6. HandlerInv(m)'
    BY <1>1, <1>2, <1>3 DEF CursorInv, HandlerInv, Handling
  <1>7. LoneInv(m)'
    BY <1>1, <1>3, <1>4 DEF CursorInv, LoneInv, Current, Key
  <1> QED
    BY <1>1, <1>5, <1>6, <1>7, QuietMarkerStep DEF Handling

LEMMA CursorPut ==
    ASSUME NEW key, NEW n, cursors' = Put(cursors, key, n)
    PROVE  /\ DOMAIN cursors' = DOMAIN cursors \cup {key}
           /\ cursors'[key] = n
           /\ \A k \in DOMAIN cursors : k # key => cursors'[k] = cursors[k]
  BY DEF Put

LEMMA CommitStep ==
    ASSUME CursorInv, NEW m \in Marker, CommitMark(m)
    PROVE  CursorInv'
  <1> DEFINE row == [key |-> Key(m), from |-> seen[m], to |-> target[m]]
  <1>1. /\ at[m] = "commit" /\ at' = [at EXCEPT ![m] = "idle"]
        /\ answer' = [answer EXCEPT ![m] = "advanced"]
        /\ cursors' = Put(cursors, Key(m), target[m])
        /\ marks' = Append(marks, row)
        /\ UNCHANGED <<ledger, ask, target, seen, sent>>
    BY DEF CommitMark, Answered
  <1>2. threads' = threads /\ messages' = messages /\ events' = events
    BY <1>1 DEF ledger
  <1>3. /\ ask[m] \in [thread : ThreadId, up_to : Positions]
        /\ target[m] \in Nums(InThread(messages, ask[m].thread))
    BY <1>1 DEF CursorInv, HandlerInv, Handling
  <1>4. target[m] \in Nat
    BY <1>3, NumsAreNumbers DEF CursorInv
  <1>5. Key(m) \in Author \X ThreadId /\ Key(m)[2] = ask[m].thread /\ Key(m)[1] = WhoOf[m]
    BY <1>3, MarkerAssumption DEF Key
  <1>6. /\ DOMAIN cursors' = DOMAIN cursors \cup {Key(m)}
        /\ cursors'[Key(m)] = target[m]
        /\ \A k \in DOMAIN cursors : k # Key(m) => cursors'[k] = cursors[k]
    BY <1>1, CursorPut
  <1>7. row \in Mark
    BY <1>4, <1>5 DEF CursorInv, CursorTypeOK, Mark
  <1>8. marks \in Seq(Mark)
    BY DEF CursorInv, CursorTypeOK, Mark
  <1>9. /\ marks' \in Seq(Mark)
        /\ Len(marks) \in Nat
        /\ DOMAIN marks = 1 .. Len(marks)
        /\ DOMAIN marks' = 1 .. (Len(marks) + 1)
        /\ \A i \in DOMAIN marks : marks'[i] = marks[i]
        /\ marks'[Len(marks) + 1] = row
    <2>1. /\ marks' \in Seq(Mark) /\ Len(marks') = Len(marks) + 1
          /\ \A i \in 1 .. Len(marks) : marks'[i] = marks[i]
          /\ marks'[Len(marks) + 1] = row
      BY <1>1, <1>7, <1>8, AppendProperties
    <2> QED
      BY <1>8, <2>1, LenProperties
  <1>10. row.key = Key(m) /\ row.to = target[m]
    OBVIOUS
  <1> HIDE DEF row
  <1>11. LedgerInv'
    BY <1>1, StutterPreserves DEF CursorInv
  <1>12. CursorTypeOK'
    <2>1. LedgerTypeOK'
      BY <1>2 DEF CursorInv, CursorTypeOK, LedgerTypeOK
    <2>2. at' \in [Marker -> {"absent", "idle", "resolve", "read", "upsert", "commit"}]
      BY <1>1 DEF CursorInv, CursorTypeOK
    <2>3. answer' \in [Marker -> Outcome \cup {None}]
      BY <1>1 DEF CursorInv, CursorTypeOK, Outcome
    <2>4. /\ DOMAIN cursors' \subseteq Author \X ThreadId
          /\ \A k \in DOMAIN cursors' : cursors'[k] \in Nat
      BY <1>4, <1>5, <1>6 DEF CursorInv, CursorTypeOK
    <2>5. marks' \in Seq([key : Author \X ThreadId, from : Nat \cup {None}, to : Nat])
      BY <1>9 DEF Mark
    <2> QED
      BY <1>1, <2>1, <2>2, <2>3, <2>4, <2>5 DEF CursorInv, CursorTypeOK
  <1>13. CursorInThread'
    BY <1>2, <1>3, <1>5, <1>6 DEF CursorInv, CursorInThread
  <1>14. CursorsReplayMarks'
    <2> DEFINE of(k) == {i \in DOMAIN marks : marks[i].key = k}
               ofNow(k) == {i \in DOMAIN marks' : marks'[i].key = k}
    <2>1. ASSUME NEW k \in Author \X ThreadId, k # Key(m)
          PROVE  ofNow(k) = of(k)
      BY <1>9, <1>10, <2>1
    <2>2. /\ Len(marks) + 1 \in ofNow(Key(m))
          /\ marks'[Len(marks) + 1].to = target[m]
          /\ \A j \in ofNow(Key(m)) : j <= Len(marks) + 1
      BY <1>9, <1>10
    <2>3. ASSUME NEW k \in Author \X ThreadId
          PROVE  IF k \in DOMAIN cursors'
                 THEN \E i \in ofNow(k) : marks'[i].to = cursors'[k] /\ \A j \in ofNow(k) : j <= i
                 ELSE ofNow(k) = {}
      <3>1. CASE k = Key(m)
        BY <1>6, <2>2, <3>1
      <3>2. CASE k # Key(m)
        <4>1. IF k \in DOMAIN cursors
              THEN \E i \in of(k) : marks[i].to = cursors[k] /\ \A j \in of(k) : j <= i
              ELSE of(k) = {}
          BY DEF CursorInv, CursorsReplayMarks
        <4>2. \A i \in of(k) : marks'[i] = marks[i]
          BY <1>9
        <4> QED
          BY <1>6, <2>1, <3>2, <4>1, <4>2
      <3> QED
        BY <3>1, <3>2
    <2> QED
      BY <2>3 DEF CursorsReplayMarks
  <1>15. \A a \in Marker : Key(a)' = Key(a)
    BY <1>1 DEF Key
  <1>16. ASSUME NEW a \in Marker
         PROVE  HandlerInv(a)' /\ LoneInv(a)'
    <2>1. CASE a = m
      <3>1. at'[m] = "idle" /\ answer'[m] = "advanced"
        BY <1>1 DEF CursorInv, CursorTypeOK
      <3> QED
        BY <1>1, <1>4, <1>6, <1>15, <2>1, <3>1 DEF HandlerInv, LoneInv, Handling
    <2>2. CASE a # m
      <3>1. at'[a] = at[a] /\ answer'[a] = answer[a]
        BY <1>1, <2>2 DEF CursorInv, CursorTypeOK
      <3>2. HandlerInv(a)'
        BY <1>1, <1>2, <3>1 DEF CursorInv, HandlerInv
      <3>3. ASSUME Alone(WhoOf[a])',
                   at[a] \in {"upsert", "commit"} \/ answer[a] \in {"advanced", "unchanged"}
            PROVE  Key(a) # Key(m)
        <4>1. Alone(WhoOf[a])
          BY <1>1, <3>3, AloneStays DEF CursorInv
        <4>2. at[a] # "absent"
          BY <3>3, MarkerAssumption DEF CursorInv, HandlerInv, Outcome
        <4>3. WhoOf[a] # WhoOf[m]
          BY <1>1, <2>2, <4>1, <4>2 DEF Alone
        <4> QED
          BY <4>3 DEF Key
      <3>4. LoneInv(a)'
        <4>1. Alone(WhoOf[a])' => Alone(WhoOf[a])
          BY <1>1, AloneStays DEF CursorInv
        <4>2. Key(a) # Key(m) => /\ Key(a) \in DOMAIN cursors' <=> Key(a) \in DOMAIN cursors
                                 /\ Key(a) \in DOMAIN cursors => cursors'[Key(a)] = cursors[Key(a)]
          BY <1>6
        <4> QED
          BY <1>1, <1>15, <3>1, <3>3, <4>1, <4>2 DEF CursorInv, LoneInv, Current
      <3> QED
        BY <3>2, <3>4
    <2> QED
      BY <2>1, <2>2
  <1> QED
    BY <1>11, <1>12, <1>13, <1>14, <1>16 DEF CursorInv

LEMMA WrittenStep ==
    ASSUME CursorInv, [LedgerNext]_ledger, UNCHANGED <<cursors, marks, markers>>
    PROVE  CursorInv'
  <1>1. /\ cursors' = cursors /\ marks' = marks /\ at' = at /\ ask' = ask
        /\ target' = target /\ seen' = seen /\ answer' = answer /\ sent' = sent
    BY DEF markers
  <1>2. LedgerInv'
    BY LedgerStepKeepsInv DEF CursorInv
  <1>3. messages \subseteq messages' /\ DOMAIN threads \subseteq DOMAIN threads'
    BY LedgerStepGrows DEF CursorInv
  <1>4. \A t : Nums(InThread(messages, t)) \subseteq Nums(InThread(messages', t))
    BY <1>3, MessagesStay
  <1>5. CursorTypeOK'
    BY <1>1, <1>2 DEF CursorInv, CursorTypeOK, LedgerInv
  <1>6. CursorInThread'
    BY <1>1, <1>4 DEF CursorInv, CursorInThread
  <1>7. CursorsReplayMarks'
    BY <1>1 DEF CursorInv, CursorsReplayMarks
  <1>8. \A m \in Marker : HandlerInv(m)'
    BY <1>1, <1>3, <1>4 DEF CursorInv, HandlerInv
  <1>9. \A m \in Marker : LoneInv(m)'
    BY <1>1 DEF CursorInv, LoneInv, Alone, Current, Key
  <1> QED
    BY <1>2, <1>5, <1>6, <1>7, <1>8, <1>9 DEF CursorInv

LEMMA CursorStep ==
    ASSUME CursorInv, [Next]_vars
    PROVE  CursorInv'
  <1>1. ASSUME NEW m \in Marker, NEW t \in ThreadId, NEW p \in Positions, Ask(m, t, p)
        PROVE  CursorInv'
    BY <1>1, AskStep
  <1>2. ASSUME NEW m \in Marker, MarkStep(m)
        PROVE  CursorInv'
    <2>1. CASE ResolveRefused(m)
      BY <2>1, OverStep DEF ResolveRefused, Handling
    <2> QED
      BY <1>2, <2>1, ResolveStep, ReadStep, UpsertStep, CommitStep DEF MarkStep
  <1>3. ASSUME NEW m \in Marker, CrashMark(m)
        PROVE  CursorInv'
    <2>1. at[m] \in Handling
      BY <1>3 DEF CrashMark, CursorInv, CursorTypeOK, Handling
    <2> QED
      BY <1>3, <2>1, OverStep DEF CrashMark
  <1>4. CASE Written
    BY <1>4, WrittenStep DEF Written
  <1>5. CASE UNCHANGED vars
    BY <1>5, WrittenStep DEF vars
  <1> QED
    BY <1>1, <1>2, <1>3, <1>4, <1>5 DEF Next, Quiet

LEMMA CursorInit == Init => CursorInv
  <1> SUFFICES ASSUME Init PROVE CursorInv
    OBVIOUS
  <1>1. LedgerInv
    BY LedgerInitInv DEF Init
  <1>2. /\ DOMAIN cursors = {} /\ marks = <<>>
        /\ at \in [Marker -> {"absent", "idle"}]
        /\ ask = [m \in Marker |-> None] /\ target = [m \in Marker |-> None]
        /\ seen = [m \in Marker |-> None] /\ answer = [m \in Marker |-> None]
        /\ sent = [m \in Marker |-> 0]
    BY DEF Init, NoCursors
  <1>3. CursorTypeOK
    <2>1. marks \in Seq([key : Author \X ThreadId, from : Nat \cup {None}, to : Nat])
      BY <1>2, EmptySeq
    <2>2. 0 \in 0 .. MaxMarks
      BY MarkerAssumption
    <2> QED
      BY <1>1, <1>2, <2>1, <2>2 DEF CursorTypeOK, LedgerInv
  <1>4. CursorInThread /\ CursorsReplayMarks
    BY <1>2 DEF CursorInThread, CursorsReplayMarks
  <1>5. \A m \in Marker : HandlerInv(m) /\ LoneInv(m)
    BY <1>2, MarkerAssumption DEF HandlerInv, LoneInv, Handling, Outcome
  <1> QED
    BY <1>1, <1>3, <1>4, <1>5 DEF CursorInv

LEMMA CursorInvHolds == Spec => []CursorInv
  <1>1. CursorInv /\ [Next]_vars => CursorInv'
    BY CursorStep
  <1> QED
    BY <1>1, CursorInit, PTL DEF Spec

-----------------------------------------------------------------------------
(* The theorems *)

\* All the state of the cursors and of their handlers keeps its types.
THEOREM CursorTypes == Spec => []CursorTypeOK
  <1>1. CursorInv => CursorTypeOK
    BY DEF CursorInv
  <1> QED
    BY <1>1, CursorInvHolds, PTL

\* A cursor stands on a message of its own thread, though requests race.
THEOREM CursorStaysInThread == Spec => []CursorInThread
  <1>1. CursorInv => CursorInThread
    BY DEF CursorInv
  <1> QED
    BY <1>1, CursorInvHolds, PTL

\* The newest mark_read event of an identity in a thread is where its cursor
\* is, though requests race.
THEOREM MarksReplayed == Spec => []CursorsReplayMarks
  <1>1. CursorInv => CursorsReplayMarks
    BY DEF CursorInv
  <1> QED
    BY <1>1, CursorInvHolds, PTL

\* A thread with a message past an identity's cursor is in its inbox.
THEOREM InboxHidesNothing == Spec => []InboxComplete
  <1>1. CursorInv => InboxComplete
    <2> SUFFICES ASSUME CursorInv, NEW who \in Author, NEW t \in DOMAIN threads,
                        Unread(who, t) # {}
                 PROVE  threads[t].last > CursorOf(who, t)
      BY DEF InboxComplete, Inbox
    <2>1. PICK m \in InThread(messages, t) : m.num > CursorOf(who, t)
      BY DEF Unread
    <2>2. m.num \in Nums(InThread(messages, t))
      BY <2>1 DEF Nums
    <2>3. m.num <= threads[t].last
      BY <2>2 DEF CursorInv, LedgerInv, ActivityKeyExact
    <2>4. m.num \in Nat /\ threads[t].last \in Nat /\ CursorOf(who, t) \in Nat
      BY <2>1 DEF CursorInv, LedgerInv, LedgerTypeOK, Message, Thread, InThread,
                  CursorTypeOK, CursorOf
    <2> QED
      BY <2>1, <2>3, <2>4
  <1> QED
    BY <1>1, CursorInvHolds, PTL

\* A client that is alone with its identity is told the truth.
THEOREM AnswersAreTrue == Spec => []AnswersTruthful
  <1>1. CursorInv => AnswersTruthful
    BY DEF CursorInv, LoneInv, AnswersTruthful
  <1> QED
    BY <1>1, CursorInvHolds, PTL

\* The cursor of an identity with one request in flight only moves forward.
THEOREM LoneCursorMovesForward == Spec => CursorForwardAlone
  <1>1. CursorInv /\ [Next]_vars => [\A k \in DOMAIN cursors : Alone(k[1]) => Forward(k)]_vars
    <2> SUFFICES ASSUME CursorInv, [Next]_vars, NEW k \in DOMAIN cursors, Alone(k[1])
                 PROVE  Forward(k)
      OBVIOUS
    <2>1. cursors[k] \in Nat
      BY DEF CursorInv, CursorTypeOK
    <2>2. CASE cursors' = cursors
      BY <2>1, <2>2 DEF Forward
    <2>3. ASSUME NEW m \in Marker, CommitMark(m)
          PROVE  Forward(k)
      <3>1. cursors' = Put(cursors, Key(m), target[m]) /\ at[m] = "commit"
        BY <2>3 DEF CommitMark
      <3>2. /\ DOMAIN cursors' = DOMAIN cursors \cup {Key(m)}
            /\ cursors'[Key(m)] = target[m]
            /\ k # Key(m) => cursors'[k] = cursors[k]
        BY <3>1, CursorPut
      <3>3. CASE k = Key(m)
        <4>1. Alone(WhoOf[m])
          BY <3>3 DEF Key
        <4>2. seen[m] = cursors[k] /\ ShouldAdvance(seen[m], target[m])
          BY <3>1, <3>3, <4>1 DEF CursorInv, LoneInv, Current
        <4>3. target[m] \in Nat
          BY <3>1, NumsAreNumbers DEF CursorInv, HandlerInv
        <4>4. cursors[k] # None
          BY <2>1, NoneAssumption
        <4> QED
          BY <2>1, <3>2, <3>3, <4>2, <4>3, <4>4 DEF Forward, ShouldAdvance
      <3> QED
        BY <2>1, <3>2, <3>3 DEF Forward
    <2> QED
      BY <2>2, <2>3 DEF Next, vars, Ask, MarkStep, Resolve, ResolveRefused, ReadExisting,
                        Upsert, CrashMark, Written, Quiet
  <1> QED
    BY <1>1, CursorInvHolds, PTL DEF Spec, CursorForwardAlone
=============================================================================
