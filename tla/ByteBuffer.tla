----------------------------- MODULE ByteBuffer -----------------------------
(***************************************************************************)
(* The field readers of cByteBuffer that the packet handlers of both ends *)
(* use, and the HANDLE_READ macro both ends define.  A packet's bytes are *)
(* a sequence; a reader returns whether it succeeded, the value and the   *)
(* unread rest.  cByteBuffer.h is not in the sources: the readers follow   *)
(* spec.md section 4.1.                                                    *)
(***************************************************************************)
EXTENDS Packets

Drop(s, n) == SubSeq(s, n + 1, Len(s))

(* A read that lacks bytes fails without consuming.  The packet buffer    *)
(* carries one extra NUL byte, so a read may run one byte past the body.  *)
(* Intermediate results are passed as operator arguments rather than     *)
(* named in a LET.                                                        *)

Failed(bb) == [ok |-> FALSE, val |-> 0, rest |-> bb]

\* ReadVarInt32 once the length n of the varint at the head is known.
VarIntRead(bb, n) ==
    IF n \in 1..5 THEN [ok |-> TRUE, val |-> VarIntValue(bb, n), rest |-> Drop(bb, n)]
                  ELSE Failed(bb)

ReadVarInt32(bb) == VarIntRead(bb, VarIntLen(bb))

\* ReadVarUTF8String once its length prefix h has been read.
StringAfter(bb, h) ==
    IF h.ok /\ h.val >= 0 /\ h.val <= Len(h.rest)
    THEN [ok |-> TRUE, val |-> SubSeq(h.rest, 1, h.val), rest |-> Drop(h.rest, h.val)]
    ELSE Failed(bb)

ReadVarUTF8String(bb) == StringAfter(bb, ReadVarInt32(bb))

ReadBEInt32(bb) ==
    IF Len(bb) >= 4 THEN [ok |-> TRUE, val |-> BE32Value(SubSeq(bb, 1, 4)), rest |-> Drop(bb, 4)]
                    ELSE Failed(bb)

ReadBEInt64(bb) ==
    IF Len(bb) >= 8
    THEN [ok |-> TRUE, val |-> <<BE32Value(SubSeq(bb, 1, 4)), BE32Value(SubSeq(bb, 5, 8))>>,
          rest |-> Drop(bb, 8)]
    ELSE Failed(bb)

ReadField(kind, bb) ==
    CASE kind = "var"  -> ReadVarInt32(bb)
      [] kind = "str"  -> ReadVarUTF8String(bb)
      [] kind = "be32" -> ReadBEInt32(bb)
      [] kind = "be64" -> ReadBEInt64(bb)

\* A run of HANDLE_READ lines: the handler returns at the first failure.
RECURSIVE HandleReads(_, _)

ReadsAfter(fmt, r) ==
    IF ~r.ok THEN [ok |-> FALSE, vals |-> <<>>, rest |-> r.rest]
    ELSE [HandleReads(Tail(fmt), r.rest) EXCEPT !.vals = <<r.val>> \o @]

HandleReads(fmt, bb) ==
    IF fmt = <<>> THEN [ok |-> TRUE, vals |-> <<>>, rest |-> bb]
    ELSE ReadsAfter(fmt, ReadField(Head(fmt), bb))

=============================================================================
