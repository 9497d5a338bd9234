------------------------------- MODULE VarInt -------------------------------
(***************************************************************************)
(* The wire codecs of cByteBuffer / cPacketizer, shared by the server     *)
(* (cProtocol_impl) and the client (PeerConnectionClient): the 7-bit      *)
(* varint, the big-endian fixed-width integers and the varint-prefixed    *)
(* string.  cByteBuffer.h and Packetizer.h are not part of the sources,   *)
(* so these operators follow spec.md section 4.1 and section 6.           *)
(*                                                                         *)
(* TLC integers are 32-bit signed, so a 32-bit word (UInt32 or int) is    *)
(* represented by its two's-complement signed value: the UInt32           *)
(* 0xFFFFFFFF is -1.  Every shift below is the logical shift of that bit  *)
(* pattern, so no intermediate value leaves the 32-bit range.             *)
(***************************************************************************)
EXTENDS Integers, Sequences

Byte == 0..255

\* The word 2^31 as a signed 32-bit value (the literal 2^31 overflows TLC).
MinInt32 == -2147483647 - 1

\* v >> 7 on the unsigned bit pattern of the 32-bit word v.
ShiftRight7(v) == IF v < 0 THEN v \div 128 + 33554432 ELSE v \div 128

\* cByteBuffer::WriteVarInt32: low 7 bits first, the high bit of a byte
\* says that another byte follows; the loop stops when the rest is zero.
RECURSIVE VarIntEncode(_)
VarIntEncode(v) ==
    LET b    == v % 128
        rest == ShiftRight7(v)
    IN  IF rest = 0 THEN <<b>> ELSE <<b + 128>> \o VarIntEncode(rest)

\* cByteBuffer::ReadVarInt: the number of bytes of the varint at the head
\* of s, or 0 when s ends before a byte without the continuation bit (the
\* read fails and the caller rewinds with ResetRead).
VarIntLen(s) ==
    IF \A k \in 1..Len(s) : s[k] >= 128 THEN 0
    ELSE CHOOSE k \in 1..Len(s) : s[k] < 128 /\ \A j \in 1..(k - 1) : s[j] >= 128

\* The value of the n-byte varint at the head of s, accumulated as
\* Value |= (b & 0x7f) << Shift into a UInt32: of the fifth byte only the
\* low four bits survive.  Defined for n <= 5, the longest WriteVarInt32
\* produces.
VarIntValue(s, n) ==
    LET RECURSIVE Low(_)
        Low(k) == IF k = 0 THEN 0 ELSE Low(k - 1) + (s[k] % 128) * 128^(k - 1)
        top    == IF n = 5 THEN s[5] % 16 ELSE 0
    IN  Low(IF n = 5 THEN 4 ELSE n)
          + (IF top >= 8 THEN (top - 16) ELSE top) * 268435456

\* WriteBEInt32 / WriteBEUInt32: the four bytes of the word, high first.
BE32Encode(v) ==
    <<(v \div 16777216) % 256, (v \div 65536) % 256, (v \div 256) % 256, v % 256>>

\* ReadBEInt32 of four bytes, as a signed int.
BE32Value(s) ==
    (IF s[1] >= 128 THEN s[1] - 256 ELSE s[1]) * 16777216
      + s[2] * 65536 + s[3] * 256 + s[4]

\* WriteVarUTF8String: varint byte length, then the bytes, no terminator.
StrEncode(str) == VarIntEncode(Len(str)) \o str

=============================================================================
