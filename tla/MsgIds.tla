------------------------------- MODULE MsgIds -------------------------------
(***************************************************************************)
(* The allocator of message ids as a specification of its own: the next id *)
(* is made from the texts that are stored (services/msg_id_allocator.py),  *)
(* which differ in width once the padding is used up.                      *)
(***************************************************************************)
EXTENDS MsgIdText

VARIABLE ids   \* the texts in messages.msg_id

\* The order of texts, which decides nothing.
Before(a, b) ==
    \/ Len(a) < Len(b) /\ a = SubSeq(b, 1, Len(a))
    \/ \E i \in DOMAIN a \cap DOMAIN b :
         SubSeq(a, 1, i - 1) = SubSeq(b, 1, i - 1) /\ a[i] < b[i]

\* Mistake: ORDER BY msg_id DESC.
NewestByText == CHOOSE a \in ids : \A b \in ids : a = b \/ Before(b, a)

\* ORDER BY the number DESC LIMIT 1
Newest == CHOOSE a \in ids : \A b \in ids : Number(b) <= Number(a)

\* allocate_next_msg_id, and the INSERT that follows it
Allocate == ids' = ids \cup {Format(IF ids = {} THEN 1 ELSE Number(Newest) + 1)}

Init == ids = {}

Spec == Init /\ [][Allocate]_ids
=============================================================================
