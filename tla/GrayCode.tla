------------------------------ MODULE GrayCode ------------------------------
(***************************************************************************)
(* cdc_fifo.sv with the code it uses: the reflected gray code as           *)
(* arithmetic on PW-bit numbers, and what a flop can capture of a vector   *)
(* that changes while it samples.                                          *)
(***************************************************************************)
EXTENDS CdcFifo, FiniteSets, FiniteSetsExt

CONSTANT AddrBits      \* AW = $clog2(DEPTH); a pointer has PW = AW + 1 bits

ASSUME AddrBitsAssumption == AddrBits \in Nat /\ AddrBits >= 2

Bits          == 0..AddrBits
Word          == 0..(2 ^ (AddrBits + 1) - 1)
BitOf(v, i)   == (v \div 2 ^ i) % 2
Spell(bit(_)) == MapThenSumSet(LAMBDA i : bit(i) * 2 ^ i, Bits)

(* b ^ (b >> 1)                                                            *)
Bin2Gray(b) == Spell(LAMBDA i : (BitOf(b, i) + BitOf(b, i + 1)) % 2)

(* The loop t[i] = t[i+1] ^ g[i], top bit first: t[i] is the parity of the *)
(* bits from i up.                                                         *)
Gray2Bin(g) == Spell(LAMBDA i : Cardinality({j \in Bits : j >= i /\ BitOf(g, j) = 1}) % 2)

(* {~g[PW-1:PW-2], g[PW-3:0]}                                              *)
FlipTopTwo(g) ==
    Spell(LAMBDA i : IF i >= AddrBits - 1 THEN 1 - BitOf(g, i) ELSE BitOf(g, i))

(* Every bit is captured, on its own, from before or from after the edge.  *)
BitwiseCaptures(old, new) ==
    {v \in Word : \A i \in Bits : BitOf(v, i) \in {BitOf(old, i), BitOf(new, i)}}

(******************* the instance that is model-checked ********************)

(* Depth 4 is the least for which the full comparison has a bit below the  *)
(* top two, and the pointers wrap.  The table form of the operators is     *)
(* evaluated once.                                                         *)
GrayOf    == [b \in Word |-> Bin2Gray(b)]
BinOf     == [g \in Word |-> Gray2Bin(g)]
FlipOf    == [g \in Word |-> FlipTopTwo(g)]
CaptureOf == [old, new \in Word |-> BitwiseCaptures(old, new)]

MCEncode(b)          == GrayOf[b]
MCDecode(g)          == BinOf[g]
MCTopFlipped(g)      == FlipOf[g]
MCCaptures(old, new) == CaptureOf[old, new]

ASSUME DepthIsPowerOfTwo == Depth = 2 ^ AddrBits
=============================================================================
