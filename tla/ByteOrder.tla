----------------------------- MODULE ByteOrder ------------------------------
(***************************************************************************)
(* The big-endian readers of protocols/itch50/itch50_messages.hpp and the  *)
(* writers of examples/itch_generator.cpp.  A byte is a number below 256,  *)
(* a shift by 8 * k a k-fold multiplication or division by 256; the parts  *)
(* that the readers join with | have no bit in common, so | is +.          *)
(***************************************************************************)
EXTENDS Integers, Sequences

Byte == 0 .. 255

(***************************************************************************)
(* value >> 8.                                                             *)
(***************************************************************************)
Shifted(v) == v \div 256

LowByte(v) == v % 256

read_u16_be(data) == 256 * data[1] + data[2]

read_u32_be(data) == 256 * (256 * (256 * data[1] + data[2]) + data[3]) + data[4]

read_u64_be(data) ==
  256 * (256 * (256 * (256 * read_u32_be(data) + data[5]) + data[6]) + data[7]) + data[8]

write_u16_be(v) == <<LowByte(Shifted(v)), LowByte(v)>>

write_u32_be(v) ==
  <<LowByte(Shifted(Shifted(Shifted(v)))), LowByte(Shifted(Shifted(v))),
    LowByte(Shifted(v)), LowByte(v)>>

write_u64_be(v) ==
  LET high == Shifted(Shifted(Shifted(Shifted(v))))
  IN  <<LowByte(Shifted(Shifted(Shifted(high)))), LowByte(Shifted(Shifted(high))),
        LowByte(Shifted(high)), LowByte(high),
        LowByte(Shifted(Shifted(Shifted(v)))), LowByte(Shifted(Shifted(v))),
        LowByte(Shifted(v)), LowByte(v)>>

(***************************************************************************)
(* Where pieces of the given widths end when they follow each other        *)
(* without padding; the next one starts there.                             *)
(***************************************************************************)
Offsets(widths) ==
  LET at[i \in 0 .. Len(widths)] == IF i = 0 THEN 0 ELSE at[i - 1] + widths[i]
  IN  at

(***************************************************************************)
(* The function f extended by g where f is not defined.                    *)
(***************************************************************************)
f ++ g == [x \in DOMAIN f \cup DOMAIN g |-> IF x \in DOMAIN f THEN f[x] ELSE g[x]]
=============================================================================
