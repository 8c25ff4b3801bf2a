------------------------- MODULE LoopControlProofs -------------------------
(***************************************************************************)
(* The two handlers of the loop control implement the board, for any       *)
(* number of operators and loops, and the log names the setting in effect. *)
(*                                                                         *)
(* The invariant behind it: whoever has gone past the upsert holds the     *)
(* row, so what it carries is the committed row with its own half          *)
(* replaced, and the id of its history row is above every committed one.   *)
(***************************************************************************)
EXTENDS LoopControl, TLAPS

NewRow(c) == [id |-> lastId, state |-> ask[c], actor |-> c, at |-> stamp[c]]

HandlerInv(c) ==
    /\ pc[c] # "idle" => ask[c] \in ControlState /\ stamp[c] \in Time
    /\ pc[c] \in {"log", "commit"} => lock = c /\ row[c] = Upserted(c)
    /\ pc[c] = "log" => c \in Operator
    /\ pc[c] = "commit" /\ c \in Operator =>
         /\ logged[c] = {NewRow(c)}
         /\ lastId \in Id
         /\ \A h \in history : h.id < lastId
    /\ (pc[c] # "commit" \/ c \notin Operator) => logged[c] = {}

\* What a client was told of its last request.
AnswerInv(c) ==
    reply[c] # None =>
        /\ pc[c] = "idle"
        /\ c \in Operator => /\ reply[c].desired = Sent(c)
                             /\ \E h \in history : Logs(h, Sent(c))
        /\ c \in Loop => reply[c].observed = Sent(c)

BoardTypeOK ==
    /\ desired \in Setting \cup {None}
    /\ observed \in Setting \cup {None}
    /\ history \subseteq HistoryRow

HandlerTypeOK ==
    /\ lastId \in Nat
    /\ clock \in Time
    /\ lock \in Client \cup {None}
    /\ pc \in [Client -> {"idle", "upsert", "log", "commit"}]
    /\ DOMAIN ask = Client
    /\ DOMAIN stamp = Client
    /\ DOMAIN row = Client
    /\ DOMAIN logged = Client
    /\ DOMAIN reply = Client
    /\ DOMAIN seen = Client

ControlInv ==
    /\ BoardTypeOK
    /\ HandlerTypeOK
    /\ \A h \in history : h.id <= lastId
    /\ \A c \in Client : HandlerInv(c)

-----------------------------------------------------------------------------
(* The board *)

LEMMA BoardStepTypes == BoardTypeOK /\ [BoardNext]_board => BoardTypeOK'
  <1> SUFFICES ASSUME BoardTypeOK, [BoardNext]_board
               PROVE  BoardTypeOK'
    OBVIOUS
  <1>1. ASSUME NEW s \in ControlState, NEW t \in Time, NEW o \in Operator,
               NEW id \in Id, SetDesired(o, s, t, id)
        PROVE  BoardTypeOK'
    <2>1. [state |-> s, actor |-> o, at |-> t] \in Setting
      BY DEF Setting
    <2>2. [id |-> id, state |-> s, actor |-> o, at |-> t] \in HistoryRow
      BY DEF HistoryRow
    <2> QED
      BY <1>1, <2>1, <2>2 DEF SetDesired, BoardTypeOK
  <1>2. ASSUME NEW s \in ControlState, NEW t \in Time, NEW l \in Loop,
               ReportObserved(l, s, t)
        PROVE  BoardTypeOK'
    <2>1. [state |-> s, actor |-> l, at |-> t] \in Setting
      BY DEF Setting
    <2> QED
      BY <1>2, <2>1 DEF ReportObserved, BoardTypeOK
  <1>3. ASSUME UNCHANGED board
        PROVE  BoardTypeOK'
    BY <1>3 DEF board, BoardTypeOK
  <1> QED
    BY <1>1, <1>2, <1>3 DEF BoardNext

\* A new entry of the log is above all others, so it is the one logged last.
LEMMA BoardStepLogs ==
    BoardTypeOK /\ DesiredIsLoggedLast /\ [BoardNext]_board => DesiredIsLoggedLast'
  <1> SUFFICES ASSUME BoardTypeOK, DesiredIsLoggedLast, [BoardNext]_board
               PROVE  DesiredIsLoggedLast'
    OBVIOUS
  <1>1. ASSUME NEW s \in ControlState, NEW t \in Time, NEW o \in Operator,
               NEW id \in Id, SetDesired(o, s, t, id)
        PROVE  DesiredIsLoggedLast'
    <2> DEFINE new == [id |-> id, state |-> s, actor |-> o, at |-> t]
    <2>1. desired' # None
      <3>1. desired' \in Setting
        BY <1>1 DEF SetDesired, Setting
      <3> QED
        BY <3>1, BoardAssumption
    <2>2. new \in history' /\ Logs(new, desired')
      BY <1>1 DEF SetDesired, Logs
    <2>3. \A g \in history' : g.id <= new.id
      <3>1. \A g \in history : g.id \in Nat
        BY BoardAssumption DEF BoardTypeOK, HistoryRow
      <3>2. id \in Nat
        BY BoardAssumption
      <3> QED
        BY <1>1, <3>1, <3>2 DEF SetDesired
    <2> QED
      BY <2>1, <2>2, <2>3 DEF DesiredIsLoggedLast, Logs
  <1>2. ASSUME desired' = desired, history' = history
        PROVE  DesiredIsLoggedLast'
    BY <1>2 DEF DesiredIsLoggedLast, Logs
  <1> QED
    BY <1>1, <1>2 DEF BoardNext, ReportObserved, board

\* Of the board: the setting in effect is the one logged last, and a project
\* is configured exactly when its log has an entry.
THEOREM BoardDesiredIsLoggedLast == BoardSpec => []DesiredIsLoggedLast
  <1>1. BoardInit => BoardTypeOK /\ DesiredIsLoggedLast
    BY DEF BoardInit, BoardTypeOK, DesiredIsLoggedLast
  <1> QED
    BY <1>1, BoardStepTypes, BoardStepLogs, PTL DEF BoardSpec

-----------------------------------------------------------------------------
(* The handlers *)

LEMMA ControlInit == Init => ControlInv /\ \A c \in Client : AnswerInv(c)
  <1> SUFFICES ASSUME Init
               PROVE  ControlInv /\ \A c \in Client : AnswerInv(c)
    OBVIOUS
  <1>1. BoardTypeOK /\ HandlerTypeOK /\ \A h \in history : h.id <= lastId
    BY DEF Init, BoardInit, BoardTypeOK, HandlerTypeOK
  <1>2. ASSUME NEW c \in Client
        PROVE  HandlerInv(c) /\ AnswerInv(c)
    BY DEF Init, HandlerInv, AnswerInv
  <1> QED
    BY <1>1, <1>2 DEF ControlInv

LEMMA SentIsSetting ==
    ASSUME NEW c \in Client, ask[c] \in ControlState, stamp[c] \in Time
    PROVE  Sent(c) \in Setting /\ Sent(c) # None
  BY BoardAssumption DEF Sent, Setting, Client

\* What a commit does to the tables is one step of the board.
LEMMA CommitIsBoardStep ==
    ASSUME ControlInv, NEW c \in Client, Commit(c)
    PROVE  BoardNext
  <1>1. /\ ask[c] \in ControlState /\ stamp[c] \in Time
        /\ row[c] = Upserted(c)
    BY DEF ControlInv, HandlerInv, Commit
  <1>2. CASE c \in Operator
    <2>1. logged[c] = {NewRow(c)} /\ lastId \in Id /\ \A h \in history : h.id < lastId
      BY <1>2 DEF ControlInv, HandlerInv, Commit
    <2>2. row[c] = [desired |-> Sent(c), observed |-> observed]
      BY <1>1, <1>2 DEF Upserted
    <2>3. SetDesired(c, ask[c], stamp[c], lastId)
      BY <2>1, <2>2 DEF Commit, SetDesired, NewRow, Sent
    <2> QED
      BY <1>1, <1>2, <2>1, <2>3 DEF BoardNext
  <1>3. CASE c \in Loop
    <2>1. c \notin Operator
      BY <1>3, BoardAssumption
    <2>2. logged[c] = {}
      BY <2>1 DEF ControlInv, HandlerInv
    <2>3. row[c] = [desired |-> desired, observed |-> Sent(c)]
      BY <1>1, <2>1 DEF Upserted
    <2>4. ReportObserved(c, ask[c], stamp[c])
      BY <2>2, <2>3 DEF Commit, ReportObserved, Sent
    <2> QED
      BY <1>1, <1>3, <2>4 DEF BoardNext
  <1> QED
    BY <1>2, <1>3 DEF Client

LEMMA StepIsBoardStep == ControlInv /\ [Next]_vars => [BoardNext]_board
  <1> SUFFICES ASSUME ControlInv, [Next]_vars
               PROVE  [BoardNext]_board
    OBVIOUS
  <1>1. ASSUME NEW c \in Client, Commit(c)
        PROVE  BoardNext
    BY <1>1, CommitIsBoardStep
  <1>2. ASSUME NEW c \in Client,
               (\E s \in ControlState : Receive(c, s)) \/ Upsert(c) \/ LogSetting(c) \/ Crash(c)
        PROVE  UNCHANGED board
    BY <1>2 DEF Receive, Upsert, LogSetting, Crash
  <1>3. Tick \/ UNCHANGED vars => UNCHANGED board
    BY DEF Tick, vars
  <1> QED
    BY <1>1, <1>2, <1>3 DEF Next

-----------------------------------------------------------------------------
LEMMA StepKeepsTypes ==
    ControlInv /\ [Next]_vars =>
        BoardTypeOK' /\ HandlerTypeOK' /\ \A h \in history' : h.id <= lastId'
  <1> SUFFICES ASSUME ControlInv, [Next]_vars
               PROVE  /\ BoardTypeOK'
                      /\ HandlerTypeOK'
                      /\ \A h \in history' : h.id <= lastId'
    OBVIOUS
  <1>1. BoardTypeOK'
    BY StepIsBoardStep, BoardStepTypes DEF ControlInv
  <1>2. HandlerTypeOK'
    <2> USE DEF ControlInv, HandlerTypeOK
    <2>1. CASE Tick
      BY <2>1 DEF Tick, handlers
    <2>2. ASSUME NEW c \in Client, NEW s \in ControlState, Receive(c, s)
          PROVE  HandlerTypeOK'
      BY <2>2 DEF Receive
    <2>3. ASSUME NEW c \in Client, Upsert(c)
          PROVE  HandlerTypeOK'
      BY <2>3 DEF Upsert
    <2>4. ASSUME NEW c \in Client, LogSetting(c)
          PROVE  HandlerTypeOK'
      BY <2>4 DEF LogSetting
    <2>5. ASSUME NEW c \in Client, NEW answer, End(c, answer)
          PROVE  HandlerTypeOK'
      BY <2>5 DEF End
    <2>6. CASE UNCHANGED vars
      BY <2>6 DEF vars, handlers
    <2> QED
      BY <2>1, <2>2, <2>3, <2>4, <2>5, <2>6 DEF Next, Commit, Crash
  <1>3. \A h \in history : h.id \in Nat /\ h.id <= lastId
    BY BoardAssumption DEF ControlInv, BoardTypeOK, HistoryRow
  <1>4. lastId \in Nat /\ (lastId' = lastId \/ lastId' = lastId + 1)
    BY DEF ControlInv, HandlerTypeOK, Next, vars, handlers, Tick, Receive, Upsert,
           LogSetting, Commit, Crash, End
  <1>5. ASSUME NEW c \in Client, Commit(c)
        PROVE  \A h \in history' : h.id <= lastId'
    <2>1. logged[c] \subseteq {NewRow(c)}
      BY DEF ControlInv, HandlerInv
    <2>2. history' = history \cup logged[c] /\ lastId' = lastId
      BY <1>5 DEF Commit, End
    <2> QED
      BY <1>3, <1>4, <2>1, <2>2 DEF NewRow
  <1>6. (\A c \in Client : ~Commit(c)) => history' = history
    BY DEF Next, vars, board, Tick, Receive, Upsert, LogSetting, Crash
  <1> QED
    BY <1>1, <1>2, <1>3, <1>4, <1>5, <1>6

\* What no step of another client can disturb while this one holds the row.
LEMMA OthersKeepHandler ==
    ASSUME ControlInv, NEW c \in Client, NEW d \in Client, d # c,
           \/ \E s \in ControlState : Receive(d, s)
           \/ Upsert(d) \/ LogSetting(d) \/ Commit(d) \/ Crash(d)
    PROVE  HandlerInv(c)'
  <1> USE DEF ControlInv, HandlerTypeOK
  <1>1. /\ pc'[c] = pc[c] /\ ask'[c] = ask[c] /\ stamp'[c] = stamp[c]
        /\ row'[c] = row[c] /\ logged'[c] = logged[c]
    BY DEF Receive, Upsert, LogSetting, Commit, Crash, End
  <1>2. lock = c => lock' = c
    <2>1. c # None
      BY BoardAssumption DEF Client
    <2> QED
      BY <2>1 DEF Receive, Upsert, LogSetting, Commit, Crash, End
  <1>3. lock = c => UNCHANGED <<board, lastId>>
    <2>1. c # None
      BY BoardAssumption DEF Client
    <2>2. lock = c => pc[d] \notin {"log", "commit"}
      BY DEF HandlerInv
    <2> QED
      BY <2>1, <2>2 DEF Receive, Upsert, LogSetting, Commit, Crash, End
  <1>4. lock = c => Upserted(c)' = Upserted(c) /\ NewRow(c)' = NewRow(c)
    BY <1>1, <1>3 DEF Upserted, Sent, NewRow, board
  <1>5. HandlerInv(c)
    OBVIOUS
  <1> QED
    BY <1>1, <1>2, <1>3, <1>4, <1>5 DEF HandlerInv, board

LEMMA OwnStepKeepsHandler ==
    ASSUME ControlInv, NEW c \in Client,
           \/ \E s \in ControlState : Receive(c, s)
           \/ Upsert(c) \/ LogSetting(c) \/ Commit(c) \/ Crash(c)
    PROVE  HandlerInv(c)'
  <1> USE DEF ControlInv, HandlerTypeOK
  <1>0. HandlerInv(c)
    OBVIOUS
  <1>1. ASSUME NEW s \in ControlState, Receive(c, s)
        PROVE  HandlerInv(c)'
    <2>1. pc'[c] = "upsert" /\ ask'[c] = s /\ stamp'[c] = clock /\ logged'[c] = logged[c]
      BY <1>1 DEF Receive
    <2>2. s \in ControlState /\ clock \in Time /\ logged[c] = {}
      BY <1>0, <1>1 DEF HandlerInv, Receive
    <2> QED
      BY <2>1, <2>2 DEF HandlerInv
  <1>2. CASE Upsert(c)
    <2>1. /\ pc'[c] = IF c \in Operator THEN "log" ELSE "commit"
          /\ ask'[c] = ask[c] /\ stamp'[c] = stamp[c]
          /\ lock' = c /\ row'[c] = Upserted(c) /\ logged'[c] = logged[c]
      BY <1>2 DEF Upsert
    <2>2. Upserted(c)' = Upserted(c)
      BY <1>2 DEF Upserted, Sent, Upsert, board
    <2>3. pc[c] = "upsert" /\ logged[c] = {}
      BY <1>0, <1>2 DEF HandlerInv, Upsert
    <2> QED
      BY <1>0, <2>1, <2>2, <2>3 DEF HandlerInv
  <1>3. CASE LogSetting(c)
    <2>1. /\ pc'[c] = "commit" /\ ask'[c] = ask[c] /\ stamp'[c] = stamp[c]
          /\ lock' = lock /\ row'[c] = row[c] /\ logged'[c] = {NewRow(c)'}
          /\ lastId' = lastId + 1 /\ lastId' \in Id /\ history' = history
      BY <1>3 DEF LogSetting, NewRow, board
    <2>2. Upserted(c)' = Upserted(c)
      BY <1>3 DEF Upserted, Sent, LogSetting, board
    <2>3. pc[c] = "log"
      BY <1>3 DEF LogSetting
    <2>4. \A h \in history : h.id < lastId + 1
      <3>1. \A h \in history : h.id \in Nat
        BY BoardAssumption DEF BoardTypeOK, HistoryRow
      <3> QED
        BY <3>1
    <2> QED
      BY <1>0, <2>1, <2>2, <2>3, <2>4 DEF HandlerInv
  <1>4. CASE Commit(c) \/ Crash(c)
    <2>1. pc'[c] = "idle" /\ logged'[c] = {}
      BY <1>4 DEF Commit, Crash, End
    <2> QED
      BY <2>1 DEF HandlerInv
  <1> QED
    BY <1>1, <1>2, <1>3, <1>4

LEMMA IdleStepKeepsHandler ==
    ASSUME ControlInv, NEW c \in Client, Tick \/ UNCHANGED vars
    PROVE  HandlerInv(c)'
  <1>1. UNCHANGED <<board, lastId, lock, handlers>>
    BY DEF Tick, vars
  <1>2. HandlerInv(c)
    BY DEF ControlInv
  <1> QED
    BY <1>1, <1>2 DEF HandlerInv, Upserted, Sent, NewRow, board, handlers

LEMMA ControlStep == ControlInv /\ [Next]_vars => ControlInv'
  <1> SUFFICES ASSUME ControlInv, [Next]_vars
               PROVE  ControlInv'
    OBVIOUS
  <1>1. ASSUME NEW c \in Client
        PROVE  HandlerInv(c)'
    BY OthersKeepHandler, OwnStepKeepsHandler, IdleStepKeepsHandler DEF Next
  <1> QED
    BY <1>1, StepKeepsTypes DEF ControlInv

\* The log only grows.
LEMMA BoardStepAppends == [BoardNext]_board => history \subseteq history'
  BY DEF BoardNext, SetDesired, ReportObserved, board

LEMMA AnswerStep ==
    ASSUME ControlInv, [Next]_vars, NEW c \in Client, AnswerInv(c)
    PROVE  AnswerInv(c)'
  <1> USE DEF ControlInv, HandlerTypeOK
  <1>1. history \subseteq history'
    BY StepIsBoardStep, BoardStepAppends
  <1>2. CASE /\ pc'[c] = pc[c] /\ reply'[c] = reply[c]
             /\ ask'[c] = ask[c] /\ stamp'[c] = stamp[c]
    <2>1. Sent(c)' = Sent(c)
      BY <1>2 DEF Sent
    <2>2. \A h : Logs(h, Sent(c))' <=> Logs(h, Sent(c))
      BY <2>1 DEF Logs
    <2> QED
      BY <1>1, <1>2, <2>1, <2>2 DEF AnswerInv
  <1>3. CASE Commit(c)
    <2>1. /\ pc'[c] = "idle" /\ reply'[c] \in {row[c], None}
          /\ Sent(c)' = Sent(c)
      BY <1>3 DEF Commit, End, Sent
    <2>2. pc[c] = "commit" /\ row[c] = Upserted(c)
      BY <1>3 DEF Commit, HandlerInv
    <2>3. CASE c \in Operator
      <3>1. row[c].desired = Sent(c)
        BY <2>2, <2>3 DEF Upserted
      <3>2. NewRow(c) \in history'
        BY <1>3, <2>2, <2>3 DEF Commit, HandlerInv
      <3>3. Logs(NewRow(c), Sent(c)')
        BY <2>1 DEF Logs, NewRow, Sent
      <3>4. c \notin Loop
        BY <2>3, BoardAssumption
      <3> QED
        BY <2>1, <3>1, <3>2, <3>3, <3>4 DEF AnswerInv, Logs
    <2>4. CASE c \notin Operator
      <3>1. row[c].observed = Sent(c)
        BY <2>2, <2>4 DEF Upserted
      <3> QED
        BY <2>1, <2>4, <3>1 DEF AnswerInv
    <2> QED
      BY <2>3, <2>4
  <1>4. CASE (\E s \in ControlState : Receive(c, s)) \/ Crash(c)
    <2>1. reply'[c] = None
      BY <1>4 DEF Receive, Crash, End
    <2> QED
      BY <2>1 DEF AnswerInv
  <1>5. CASE Upsert(c) \/ LogSetting(c)
    <2>1. pc[c] # "idle" /\ reply'[c] = reply[c]
      BY <1>5 DEF Upsert, LogSetting
    <2> QED
      BY <2>1 DEF AnswerInv
  <1>6. ASSUME NEW d \in Client, d # c,
               \/ \E s \in ControlState : Receive(d, s)
               \/ Upsert(d) \/ LogSetting(d) \/ Commit(d) \/ Crash(d)
        PROVE  /\ pc'[c] = pc[c] /\ reply'[c] = reply[c]
               /\ ask'[c] = ask[c] /\ stamp'[c] = stamp[c]
    BY <1>6 DEF Receive, Upsert, LogSetting, Commit, Crash, End
  <1>7. ASSUME Tick \/ UNCHANGED vars
        PROVE  /\ pc'[c] = pc[c] /\ reply'[c] = reply[c]
               /\ ask'[c] = ask[c] /\ stamp'[c] = stamp[c]
    BY <1>7 DEF Tick, vars, handlers
  <1> QED
    BY <1>2, <1>3, <1>4, <1>5, <1>6, <1>7 DEF Next

-----------------------------------------------------------------------------
(* The theorems *)

LEMMA ControlInvHolds == Spec => []ControlInv
  <1>1. Init => ControlInv
    BY ControlInit
  <1> QED
    BY <1>1, ControlStep, PTL DEF Spec

\* The handlers implement the board: each commit is one whole request, and
\* neither half of the row ever moves with the other.
THEOREM LoopControlImplementsBoard == Spec => BoardSpec
  <1>1. Init => BoardInit
    BY DEF Init
  <1> QED
    BY <1>1, ControlInvHolds, StepIsBoardStep, PTL DEF Spec, BoardSpec

\* So the setting in effect is the one logged last, however the requests
\* interleave and wherever they crash.
THEOREM ControlDesiredIsLoggedLast == Spec => []DesiredIsLoggedLast
  BY LoopControlImplementsBoard, BoardDesiredIsLoggedLast, PTL

\* Every answer is about the request it answers.
THEOREM ControlAnswersOwnRequest == Spec => []AnswersOwnRequest
  <1> DEFINE Inv == ControlInv /\ \A c \in Client : AnswerInv(c)
  <1>1. Init => Inv
    BY ControlInit
  <1>2. Inv /\ [Next]_vars => Inv'
    BY ControlStep, AnswerStep
  <1>3. Inv => AnswersOwnRequest
    BY DEF AnswerInv, AnswersOwnRequest
  <1> QED
    BY <1>1, <1>2, <1>3, PTL DEF Spec

-----------------------------------------------------------------------------
(* The order of the history *)

\* Nothing is stamped ahead of the clock, so what was in the log when a request
\* arrived was not stamped later than the request.
OrderInv ==
    /\ \A h \in history : h.at <= clock
    /\ \A c \in Client : seen[c] \subseteq history
    /\ \A c \in Client : pc[c] # "idle" =>
         stamp[c] <= clock /\ \A g \in seen[c] : g.at <= stamp[c]
    /\ after \subseteq history \X history
    /\ HistoryInOrder

LEMMA OrderInit == Init => OrderInv
  BY DEF Init, BoardInit, OrderInv, HistoryInOrder

LEMMA StampsAreNumbers ==
    ASSUME ControlInv
    PROVE  /\ clock \in Nat
           /\ \A c \in Client : pc[c] # "idle" => stamp[c] \in Nat
           /\ \A h \in history : h.at \in Nat /\ h.id \in Nat
  BY BoardAssumption DEF ControlInv, HandlerTypeOK, HandlerInv, BoardTypeOK, HistoryRow

LEMMA CommitKeepsOrder ==
    ASSUME ControlInv, OrderInv, NEW c \in Client, Commit(c)
    PROVE  OrderInv'
  <1>1. /\ pc[c] = "commit" /\ history' = history \cup logged[c]
        /\ after' = after \cup (seen[c] \X logged[c])
        /\ clock' = clock /\ stamp' = stamp
        /\ pc' = [pc EXCEPT ![c] = "idle"] /\ seen' = [seen EXCEPT ![c] = {}]
    BY DEF Commit, End
  <1>2. stamp[c] <= clock /\ seen[c] \subseteq history /\ \A g \in seen[c] : g.at <= stamp[c]
    BY <1>1 DEF OrderInv
  <1>3. ASSUME NEW h \in logged[c]
        PROVE  h.at <= clock /\ \A g \in seen[c] : ShownBefore(h, g)
    <2>1. c \in Operator
      BY <1>1, <1>3 DEF ControlInv, HandlerInv
    <2>2. h = NewRow(c) /\ lastId \in Nat /\ \A g \in history : g.id < lastId
      BY <1>1, <1>3, <2>1, BoardAssumption DEF ControlInv, HandlerInv
    <2>3. h.at = stamp[c] /\ h.id = lastId
      BY <2>2 DEF NewRow
    <2> QED
      BY <1>1, <1>2, <2>2, <2>3, StampsAreNumbers DEF ShownBefore
  <1>4. \A h \in history' : h.at <= clock'
    BY <1>1, <1>3 DEF OrderInv
  <1>5. \A d \in Client :
          /\ seen'[d] \subseteq history'
          /\ pc'[d] # "idle" => stamp'[d] <= clock' /\ \A g \in seen'[d] : g.at <= stamp'[d]
    BY <1>1 DEF OrderInv, ControlInv, HandlerTypeOK
  <1>6. after' \subseteq history' \X history'
    BY <1>1, <1>2 DEF OrderInv
  <1>7. ASSUME NEW p \in after'
        PROVE  ShownBefore(p[2], p[1])
    <2>1. CASE p \in after
      BY <2>1 DEF OrderInv, HistoryInOrder
    <2>2. CASE p \in seen[c] \X logged[c]
      BY <1>3, <2>2
    <2> QED
      BY <1>1, <2>1, <2>2
  <1> QED
    BY <1>4, <1>5, <1>6, <1>7 DEF OrderInv, HistoryInOrder, ShownBefore

LEMMA OrderStep == ControlInv /\ OrderInv /\ [Next]_vars => OrderInv'
  <1> SUFFICES ASSUME ControlInv, OrderInv, [Next]_vars
               PROVE  OrderInv'
    OBVIOUS
  <1> USE DEF OrderInv, HistoryInOrder, ShownBefore
  <1>1. CASE Tick
    <2>1. /\ clock' = clock + 1
          /\ UNCHANGED <<history, pc, stamp, seen, after>>
      BY <1>1 DEF Tick, board, handlers
    <2> QED
      BY <2>1, StampsAreNumbers
  <1>2. ASSUME NEW c \in Client, NEW s \in ControlState, Receive(c, s)
        PROVE  OrderInv'
    <2>1. /\ stamp' = [stamp EXCEPT ![c] = clock] /\ seen' = [seen EXCEPT ![c] = history]
          /\ pc' = [pc EXCEPT ![c] = "upsert"]
          /\ UNCHANGED <<history, clock, after>>
      BY <1>2 DEF Receive, board
    <2>2. \A d \in Client : pc'[d] # "idle" =>
            stamp'[d] <= clock' /\ \A g \in seen'[d] : g.at <= stamp'[d]
      BY <2>1, StampsAreNumbers DEF ControlInv, HandlerTypeOK
    <2> QED
      BY <2>1, <2>2 DEF ControlInv, HandlerTypeOK
  <1>3. ASSUME NEW c \in Client, Upsert(c) \/ LogSetting(c)
        PROVE  OrderInv'
    <2>1. /\ UNCHANGED <<history, clock, stamp, seen, after>>
          /\ pc[c] # "idle" /\ \A d \in Client : d # c => pc'[d] = pc[d]
      BY <1>3 DEF Upsert, LogSetting, board, ControlInv, HandlerTypeOK
    <2> QED
      BY <2>1
  <1>4. ASSUME NEW c \in Client, Crash(c)
        PROVE  OrderInv'
    <2>1. /\ UNCHANGED <<history, clock, stamp, after>>
          /\ pc' = [pc EXCEPT ![c] = "idle"] /\ seen' = [seen EXCEPT ![c] = {}]
      BY <1>4 DEF Crash, End, board
    <2> QED
      BY <2>1 DEF ControlInv, HandlerTypeOK
  <1>5. CASE UNCHANGED vars
    BY <1>5 DEF vars, board, handlers
  <1> QED
    BY <1>1, <1>2, <1>3, <1>4, <1>5, CommitKeepsOrder DEF Next

LEMMA OrderHolds == Spec => [](ControlInv /\ OrderInv)
  <1>1. Init => ControlInv /\ OrderInv
    BY ControlInit, OrderInit
  <1>2. ControlInv /\ OrderInv /\ [Next]_vars => ControlInv' /\ OrderInv'
    BY ControlStep, OrderStep
  <1> QED
    BY <1>1, <1>2, PTL DEF Spec

\* The history shows a setting above every one that was in the log when it was
\* asked for, also if the clock stands still between them.
THEOREM ControlHistoryInOrder == Spec => []HistoryInOrder
  <1>1. OrderInv => HistoryInOrder
    BY DEF OrderInv
  <1> QED
    BY <1>1, OrderHolds, PTL

-----------------------------------------------------------------------------
(* What a handler holds *)

Settings == [desired : Setting \cup {None}, observed : Setting \cup {None}]

HeldTypeOK ==
    /\ sent \in [Client -> 0 .. MaxRequests]
    /\ ask \in [Client -> ControlState \cup {None}]
    /\ stamp \in [Client -> Time \cup {None}]
    /\ row \in [Client -> Settings \cup {None}]
    /\ reply \in [Client -> Settings \cup {None}]

LEMMA UpsertedType ==
    ASSUME ControlInv, NEW c \in Client, pc[c] # "idle"
    PROVE  Upserted(c) \in Settings
  BY SentIsSetting DEF ControlInv, HandlerInv, BoardTypeOK, Upserted, Settings

LEMMA HeldStep == ControlInv /\ HeldTypeOK /\ [Next]_vars => HeldTypeOK'
  <1> SUFFICES ASSUME ControlInv, HeldTypeOK, [Next]_vars
               PROVE  HeldTypeOK'
    OBVIOUS
  <1>1. CASE Tick \/ UNCHANGED vars
    BY <1>1 DEF Tick, vars, handlers, HeldTypeOK
  <1>2. ASSUME NEW c \in Client, NEW s \in ControlState, Receive(c, s)
        PROVE  HeldTypeOK'
    <2>1. clock \in Time
      BY DEF ControlInv, HandlerTypeOK
    <2>2. sent[c] + 1 \in 0 .. MaxRequests
      BY <1>2, LoopAssumption DEF Receive, HeldTypeOK
    <2> QED
      BY <1>2, <2>1, <2>2 DEF Receive, HeldTypeOK
  <1>3. ASSUME NEW c \in Client, Upsert(c)
        PROVE  HeldTypeOK'
    <2>1. Upserted(c) \in Settings
      BY <1>3, UpsertedType DEF Upsert
    <2> QED
      BY <1>3, <2>1 DEF Upsert, HeldTypeOK
  <1>4. ASSUME NEW c \in Client, LogSetting(c)
        PROVE  HeldTypeOK'
    BY <1>4 DEF LogSetting, HeldTypeOK
  <1>5. ASSUME NEW c \in Client, NEW answer \in Settings \cup {None}, End(c, answer)
        PROVE  HeldTypeOK'
    BY <1>5 DEF End, HeldTypeOK
  <1>6. ASSUME NEW c \in Client, Commit(c) \/ Crash(c)
        PROVE  HeldTypeOK'
    BY <1>5, <1>6 DEF Commit, Crash, HeldTypeOK
  <1> QED
    BY <1>1, <1>2, <1>3, <1>4, <1>6 DEF Next

\* The columns, the log and what every handler holds have their types.
THEOREM ControlTypes == Spec => []ControlTypeOK
  <1> DEFINE Inv == ControlInv /\ HeldTypeOK /\ OrderInv
  <1>1. Init => Inv
    <2>1. Init => HeldTypeOK
      BY LoopAssumption DEF Init, HeldTypeOK
    <2> QED
      BY <2>1, ControlInit, OrderInit
  <1>2. Inv /\ [Next]_vars => Inv'
    BY ControlStep, HeldStep, OrderStep
  <1>3. Inv => ControlTypeOK
    <2> SUFFICES ASSUME Inv PROVE ControlTypeOK
      OBVIOUS
    <2>1. \A c \in Client : logged[c] \subseteq HistoryRow
      <3>1. ASSUME NEW c \in Client, logged[c] # {}
            PROVE  logged[c] \subseteq HistoryRow
        BY <3>1 DEF ControlInv, HandlerInv, NewRow, HistoryRow
      <3> QED
        BY <3>1
    <2>2. after \subseteq history \X history /\ \A c \in Client : seen[c] \subseteq history
      BY DEF OrderInv
    <2> QED
      BY <2>1, <2>2 DEF ControlInv, BoardTypeOK, HandlerTypeOK, HeldTypeOK, ControlTypeOK, Settings
  <1> HIDE DEF Inv
  <1> QED
    BY <1>1, <1>2, <1>3, PTL DEF Spec

=============================================================================
