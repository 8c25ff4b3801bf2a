---------------------------- MODULE ControlBoard ----------------------------
(***************************************************************************)
(* The loop control of a project as its users see it: operators set what   *)
(* the loop should do, the loop reports what it saw, and every setting is  *)
(* logged.  Each request is one step.  Module LoopControl has the          *)
(* statements of the two handlers and implements this.                     *)
(***************************************************************************)
EXTENDS Naturals

CONSTANTS Operator,   \* who sends PUT /control
          Loop,       \* who sends POST /control/observed
          Time,       \* readings of the server's clock
          Id,         \* ids of history rows
          None        \* SQL NULL

ControlState == {"run", "supervised", "hold"}

\* Three columns of project_control, desired_* or observed_*.
Setting == [state : ControlState, actor : Operator \cup Loop, at : Time]

\* A row of project_control_history; note is left out.
HistoryRow == [id : Id, state : ControlState, actor : Operator, at : Time]

ASSUME BoardAssumption ==
    /\ Time \subseteq Nat
    /\ Id \subseteq Nat
    /\ Operator \cap Loop = {}
    /\ None \notin Setting \cup Operator \cup Loop \cup ControlState

VARIABLES desired,    \* the desired_* columns; None if no operator set them
          observed,   \* the observed_* columns; None before the first report
          history     \* rows of project_control_history

board == <<desired, observed, history>>

BoardInit ==
    /\ desired = None
    /\ observed = None
    /\ history = {}

\* PUT /control
SetDesired(o, s, t, id) ==
    /\ \A h \in history : h.id < id
    /\ desired' = [state |-> s, actor |-> o, at |-> t]
    /\ history' = history \cup {[id |-> id, state |-> s, actor |-> o, at |-> t]}
    /\ UNCHANGED observed

\* POST /control/observed
ReportObserved(l, s, t) ==
    /\ observed' = [state |-> s, actor |-> l, at |-> t]
    /\ UNCHANGED <<desired, history>>

BoardNext ==
    \E s \in ControlState, t \in Time :
        \/ \E o \in Operator, id \in Id : SetDesired(o, s, t, id)
        \/ \E l \in Loop : ReportObserved(l, s, t)

BoardSpec == BoardInit /\ [][BoardNext]_board

-----------------------------------------------------------------------------
Logs(h, setting) ==
    /\ h.state = setting.state
    /\ h.actor = setting.actor
    /\ h.at = setting.at

\* The setting in effect is the one logged last, and a project is configured
\* exactly when its log has an entry: no report of the loop, no crash and no
\* racing operator separates the two (api/control.py).
DesiredIsLoggedLast ==
    IF desired = None THEN history = {}
    ELSE \E h \in history : Logs(h, desired) /\ \A g \in history : g.id <= h.id

\* Mistake: the tie of one clock tick is broken the wrong way.
ShownBeforeReversed(h, g) == h.at > g.at \/ (h.at = g.at /\ h.id < g.id)

\* ORDER BY changed_at DESC, id DESC
ShownBefore(h, g) == h.at > g.at \/ (h.at = g.at /\ h.id > g.id)
=============================================================================
