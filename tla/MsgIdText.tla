----------------------------- MODULE MsgIdText -----------------------------
(***************************************************************************)
(* The text of a message id behind "msg-": a number padded to MinPad       *)
(* digits, and longer where it does not fit (services/msg_id_allocator.py).*)
(* A text is a sequence of digits.                                         *)
(***************************************************************************)
EXTENDS Naturals, Sequences

CONSTANTS Base,     \* 10 in the code
          MinPad    \* _MIN_PAD, 3 in the code

ASSUME PadAssumption == Base \in Nat \ {0, 1} /\ MinPad \in Nat \ {0}

\* parse_msg_id, and CAST(SUBSTRING(msg_id FROM 5) AS BIGINT)
Number(text) ==
    LET value[i \in 0 .. Len(text)] ==
          IF i = 0 THEN 0 ELSE value[i - 1] * Base + text[i]
    IN  value[Len(text)]

\* str(n)
Str[n \in Nat] ==
    IF n < Base THEN <<n>> ELSE Append(Str[n \div Base], n % Base)

Zeros(k) == [i \in 1 .. k |-> 0]

\* format_msg_id: as wide as str(n), or MinPad.
Format(n) == Zeros(MinPad - Len(Str[n])) \o Str[n]
=============================================================================
