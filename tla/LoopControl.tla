---------------------------- MODULE LoopControl ----------------------------
(***************************************************************************)
(* The handlers of api/control.py, statement by statement: the clock is    *)
(* read before the transaction, the upsert holds the row of the project    *)
(* until the commit, a setting adds its history row, and the answer is the *)
(* row as the transaction sees it.  A client sends one request after       *)
(* another and is an operator or the loop.                                 *)
(***************************************************************************)
EXTENDS ControlBoard

CONSTANTS Asked,        \* which clients send which states
          MaxRequests   \* bound on the requests of one client

ASSUME LoopAssumption ==
    /\ Asked \subseteq (Operator \cup Loop) \X ControlState
    /\ MaxRequests \in Nat

VARIABLES clock,    \* the server's clock, taken not to go back
          lastId,   \* the sequence of history ids, which no rollback resets
          lock,     \* who holds the row of project_control
          pc,       \* the next statement of a client's handler
          sent,     \* how many requests a client has sent
          ask,      \* the state in its request
          stamp,    \* now, read by its handler
          row,      \* project_control as its transaction sees it
          logged,   \* the history row it has inserted
          reply,    \* its last answer; None if there was none
          seen,     \* not in the code: the log when its request arrived
          after     \* not in the code: the pairs of logged settings of which the
                    \* second was asked for when the first was in the log

Client == Operator \cup Loop

handlers == <<pc, sent, ask, stamp, row, logged, reply, seen>>
vars == <<board, clock, lastId, lock, handlers, after>>

Init ==
    /\ BoardInit
    /\ clock \in Time /\ \A t \in Time : clock <= t
    /\ lastId = 0
    /\ lock = None
    /\ pc = [c \in Client |-> "idle"]
    /\ sent = [c \in Client |-> 0]
    /\ ask = [c \in Client |-> None]
    /\ stamp = [c \in Client |-> None]
    /\ row = [c \in Client |-> None]
    /\ logged = [c \in Client |-> {}]
    /\ reply = [c \in Client |-> None]
    /\ seen = [c \in Client |-> {}]
    /\ after = {}

Tick ==
    /\ clock + 1 \in Time
    /\ clock' = clock + 1
    /\ UNCHANGED <<board, lastId, lock, handlers, after>>

\* now = datetime.now(...), before session.begin()
Receive(c, s) ==
    /\ <<c, s>> \in Asked
    /\ pc[c] = "idle" /\ sent[c] < MaxRequests
    /\ pc' = [pc EXCEPT ![c] = "upsert"]
    /\ sent' = [sent EXCEPT ![c] = @ + 1]
    /\ ask' = [ask EXCEPT ![c] = s]
    /\ stamp' = [stamp EXCEPT ![c] = clock]
    /\ reply' = [reply EXCEPT ![c] = None]
    /\ seen' = [seen EXCEPT ![c] = history]
    /\ UNCHANGED <<board, clock, lastId, lock, row, logged, after>>

Sent(c) == [state |-> ask[c], actor |-> c, at |-> stamp[c]]

\* Mistake: the columns a request does not name are overwritten with NULL.
UpsertedWhole(c) ==
    IF c \in Operator THEN [desired |-> Sent(c), observed |-> None]
    ELSE [desired |-> None, observed |-> Sent(c)]

\* INSERT ... ON CONFLICT DO UPDATE of one half of the columns.
Upserted(c) ==
    IF c \in Operator THEN [desired |-> Sent(c), observed |-> observed]
    ELSE [desired |-> desired, observed |-> Sent(c)]

\* Mistake: reads and writes the row without holding it.
UpsertUnlocked(c) ==
    /\ pc[c] = "upsert"
    /\ row' = [row EXCEPT ![c] = Upserted(c)]
    /\ pc' = [pc EXCEPT ![c] = IF c \in Operator THEN "log" ELSE "commit"]
    /\ UNCHANGED <<board, clock, lastId, lock, sent, ask, stamp, logged, reply, seen, after>>

\* The upsert waits for the transaction that holds the row, or that is about
\* to insert it, and then takes its half from the row that was committed.
Upsert(c) ==
    /\ pc[c] = "upsert" /\ lock = None
    /\ lock' = c
    /\ row' = [row EXCEPT ![c] = Upserted(c)]
    /\ pc' = [pc EXCEPT ![c] = IF c \in Operator THEN "log" ELSE "commit"]
    /\ UNCHANGED <<board, clock, lastId, sent, ask, stamp, logged, reply, seen, after>>

\* set_control only: the history row, flushed by the query that follows.
LogSetting(c) ==
    /\ pc[c] = "log" /\ lastId + 1 \in Id
    /\ lastId' = lastId + 1
    /\ logged' = [logged EXCEPT ![c] =
          {[id |-> lastId + 1, state |-> ask[c], actor |-> c, at |-> stamp[c]]}]
    /\ pc' = [pc EXCEPT ![c] = "commit"]
    /\ UNCHANGED <<board, clock, lock, sent, ask, stamp, row, reply, seen, after>>

End(c, answer) ==
    /\ pc' = [pc EXCEPT ![c] = "idle"]
    /\ lock' = IF lock = c THEN None ELSE lock
    /\ row' = [row EXCEPT ![c] = None]
    /\ logged' = [logged EXCEPT ![c] = {}]
    /\ reply' = [reply EXCEPT ![c] = answer]
    /\ seen' = [seen EXCEPT ![c] = {}]
    /\ UNCHANGED <<clock, lastId, sent, ask, stamp>>

\* Mistake: answers with the row as it was before the upsert.
CommitAnswersOld(c) ==
    /\ pc[c] = "commit"
    /\ desired' = row[c].desired
    /\ observed' = row[c].observed
    /\ history' = history \cup logged[c]
    /\ after' = after \cup (seen[c] \X logged[c])
    /\ \E answer \in {[desired |-> desired, observed |-> observed], None} : End(c, answer)

\* The answer may be lost after the commit.
Commit(c) ==
    /\ pc[c] = "commit"
    /\ desired' = row[c].desired
    /\ observed' = row[c].observed
    /\ history' = history \cup logged[c]
    /\ after' = after \cup (seen[c] \X logged[c])
    /\ \E answer \in {row[c], None} : End(c, answer)

\* The connection or the process is gone before the commit.
Crash(c) ==
    /\ pc[c] # "idle"
    /\ End(c, None)
    /\ UNCHANGED <<board, after>>

Next ==
    \/ Tick
    \/ \E c \in Client :
         \/ \E s \in ControlState : Receive(c, s)
         \/ Upsert(c)
         \/ LogSetting(c)
         \/ Commit(c)
         \/ Crash(c)

Spec == Init /\ [][Next]_vars

-----------------------------------------------------------------------------
ControlTypeOK ==
    /\ desired \in Setting \cup {None}
    /\ observed \in Setting \cup {None}
    /\ history \subseteq HistoryRow
    /\ clock \in Time
    /\ lastId \in Nat
    /\ lock \in Client \cup {None}
    /\ pc \in [Client -> {"idle", "upsert", "log", "commit"}]
    /\ sent \in [Client -> 0 .. MaxRequests]
    /\ ask \in [Client -> ControlState \cup {None}]
    /\ stamp \in [Client -> Time \cup {None}]
    /\ \A c \in Client : logged[c] \subseteq HistoryRow
    /\ \A c \in Client : {row[c], reply[c]} \subseteq
         [desired : Setting \cup {None}, observed : Setting \cup {None}] \cup {None}
    /\ \A c \in Client : seen[c] \subseteq history
    /\ after \subseteq history \X history

\* An answered PUT tells the operator that his own setting is in effect, and
\* the log holds it, whoever set something else at the same time; an answered
\* report tells the loop its own report.
AnswersOwnRequest ==
    \A c \in Client : reply[c] # None =>
        /\ c \in Operator => /\ reply[c].desired = Sent(c)
                             /\ \E h \in history : Logs(h, Sent(c))
        /\ c \in Loop => reply[c].observed = Sent(c)

\* The history comes newest first (the summary of get_control_history, and
\* "two PUTs inside the same clock tick are still ordered by insertion"): a
\* setting stands above every one that was in the log when it was asked for.
\* set_control reads the clock before it waits for the row, so settings that
\* were asked for at the same time may stand either way, and only one of those
\* can stand above the setting in effect.
HistoryInOrder == \A p \in after : ShownBefore(p[2], p[1])
=============================================================================
