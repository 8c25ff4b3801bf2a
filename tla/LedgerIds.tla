----------------------------- MODULE LedgerIds -----------------------------
(***************************************************************************)
(* The ids of the ledger's messages as the texts the table stores, for     *)
(* which the ledger has numbers: MsgIds specifies how the next one is made.*)
(***************************************************************************)
EXTENDS Ledger, MsgIdText

Ids == INSTANCE MsgIds WITH ids <- {Format(n) : n \in Nums(messages)}

\* The numbers of the models stand for the texts of the table: making the next
\* id from the texts that are stored, whatever their widths, is the same as
\* counting on (msg-1000 comes after msg-999 and before msg-1001, although it
\* sorts in front of both as a text).
IdSpec == Ids!Spec
=============================================================================
