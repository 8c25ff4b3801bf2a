----------------------------- MODULE LedgerLog -----------------------------
(***************************************************************************)
(* The messages of the ledger as its clients read them, in the order of    *)
(* their numbers: a log that ChatLog specifies.                            *)
(***************************************************************************)
EXTENDS Ledger

MessageNo(n) == CHOOSE m \in messages : m.num = n

Spoken(m) ==
    [thread |-> m.thread, author |-> m.author,
     part |-> IF m.type = "propose" THEN "opens"
              ELSE IF m.closes # None THEN "closes" ELSE "says"]

ReadAloud == [n \in 1 .. NextNum(messages) - 1 |-> Spoken(MessageNo(n))]

Room == INSTANCE ChatLog WITH Thread <- ThreadId, log <- ReadAloud

\* However requests race, refuse and crash, what clients read is a log in
\* which a thread starts with its one opening entry and ends with its close:
\* the write path implements ChatLog, with the messages in the order of their
\* numbers as the log.
RoomSpec == Room!Spec
=============================================================================
