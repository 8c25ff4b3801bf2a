------------------------------ MODULE ChatLog ------------------------------
(***************************************************************************)
(* The chat room as somebody sees it who reads everything: one log that    *)
(* only grows, in which every thread is opened once, by its first entry,   *)
(* and nothing is said in a thread behind the entry that closed it.  This  *)
(* is all that a client of the server has to know; module Ledger has the   *)
(* tables, numbers and statuses that make it true.                         *)
(***************************************************************************)
EXTENDS Sequences, Naturals

CONSTANTS Thread, Author

VARIABLE log

Part == {"opens", "says", "closes"}

Entry == [thread : Thread, author : Author, part : Part]

Opened(t) == \E i \in DOMAIN log : log[i].thread = t

Closed(t) == \E i \in DOMAIN log : log[i].thread = t /\ log[i].part = "closes"

Init == log = <<>>

Say(e) ==
    /\ IF e.part = "opens" THEN ~Opened(e.thread)
       ELSE Opened(e.thread) /\ ~Closed(e.thread)
    /\ log' = Append(log, e)

Next == \E e \in Entry : Say(e)

Spec == Init /\ [][Next]_log
=============================================================================
