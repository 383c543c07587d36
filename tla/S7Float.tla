------------------------------ MODULE S7Float -------------------------------
(***************************************************************************)
(* FloatField and DoubleField: a floating-point variable of the PLC (REAL,  *)
(* 32 bits, or LREAL, 64 bits) that the program of the PLC sets, and that a *)
(* client reads into a Double and writes from one.                          *)
(*                                                                         *)
(* The widths are constants.  E32 = 8, M32 = 23, E64 = 11, MH = 20, ML = 32 *)
(* are those of the code; a Double of the host is an LREAL of the PLC, so   *)
(* that its precision is MH + ML.  A finite Double other than zero is       *)
(* (-1)^neg * m / 2^P * 2^e with m in 2^P .. 2^(P+1) - 1.                   *)
(***************************************************************************)
EXTENDS Integers

CONSTANTS
  E32, M32,     \* exponent and mantissa bits of a REAL
  E64,          \* exponent bits of an LREAL
  MH, ML        \* mantissa bits in its high and in its low 32-bit word

ASSUME WidthsAssumption ==
  /\ {E32, M32, E64, MH, ML} \subseteq Nat \ {0}
  /\ E32 > 1
  /\ M32 < MH + ML
  /\ E32 < E64

P == MH + ML
\* Powers of two, as a recursive function: lemmas can be proved about it.
TwoTo[k \in Nat] == IF k = 0 THEN 1 ELSE 2 * TwoTo[k - 1]
Bias(expBits) == TwoTo[expBits - 1] - 1

Types == {"REAL", "LREAL"}
ExpBits(t) == IF t = "REAL" THEN E32 ELSE E64
ManBits(t) == IF t = "REAL" THEN M32 ELSE P
Bits(t) ==
  [neg : BOOLEAN, exp : 0 .. TwoTo[ExpBits(t)] - 1, man : 0 .. TwoTo[ManBits(t)] - 1]

\* Subnormal LREALs are left out: reading one rounds on the host.
IsZero(b) == b.exp = 0 /\ b.man = 0
IsSpecial(t, b) == b.exp = TwoTo[ExpBits(t)] - 1
IsSubnormal(b) == b.exp = 0 /\ b.man # 0
Variables(t) == {b \in Bits(t) : t = "LREAL" => ~IsSubnormal(b)}

Zero == [kind |-> "zero"]
Infinity(neg) == [kind |-> "infinity", neg |-> neg]
Finite(neg, m, e) == [kind |-> "finite", neg |-> neg, m |-> m, e |-> e]

\* The Doubles an application may write: the normal ones.
Doubles ==
  {Zero} \cup {Infinity(neg) : neg \in BOOLEAN}
    \cup {Finite(neg, m, e) : neg \in BOOLEAN, m \in TwoTo[P] .. TwoTo[P + 1] - 1,
                              e \in 1 - Bias(E64) .. Bias(E64)}

-----------------------------------------------------------------------------
\* A quotient below 1 is what the low word makes negative: one doubling
\* normalises it, for the low word has at most half the mantissa.
Normal(neg, m, e) ==
  IF m < TwoTo[P] THEN Finite(neg, 2 * m, e - 1) ELSE Finite(neg, m, e)

\* Mutation: subnormals are flushed to zero.
f32_flushed(b) ==
  CASE b.exp = 0 -> Zero
    [] IsSpecial("REAL", b) -> Infinity(b.neg)
    [] OTHER -> Finite(b.neg, TwoTo[P] + b.man * TwoTo[P - M32], b.exp - Bias(E32))

f32_from_bytes(b) ==
  CASE IsZero(b) -> Zero
    [] IsSpecial("REAL", b) -> Infinity(b.neg)
    [] OTHER -> Finite(b.neg, TwoTo[P] + b.man * TwoTo[P - M32], b.exp - Bias(E32))

\* lo is a signed Int: a set top bit makes it negative.
SignedLow(lo) == IF lo >= TwoTo[ML - 1] THEN lo - TwoTo[ML] ELSE lo

f64_from_bytes(b) ==
  CASE IsZero(b) -> Zero
    [] IsSpecial("LREAL", b) -> Infinity(b.neg)
    [] OTHER -> Normal(b.neg,
                       TwoTo[P] + (b.man \div TwoTo[ML]) * TwoTo[ML] + SignedLow(b.man % TwoTo[ML]),
                       b.exp - Bias(E64))

(***************************************************************************)
(* f32_to_bytes and f64_to_bytes, given the n that ilog2_floor returned.    *)
(* The biased exponent is shifted into a 32-bit word unchecked: one bit of  *)
(* what does not fit lands in the sign.                                     *)
(***************************************************************************)
Rounded(x, d) == (2 * x + d) \div (2 * d)     \* x / d, halves up

Packed(t, neg, eb, man) ==
  [neg |-> neg \/ eb % TwoTo[ExpBits(t) + 1] >= TwoTo[ExpBits(t)],
   exp |-> eb % TwoTo[ExpBits(t)],
   man |-> man]

\* Mutation: the mantissa is truncated.
f32_truncated(d, n) ==
  Packed("REAL", d.neg, n + Bias(E32), (d.m - TwoTo[P]) \div TwoTo[P - M32])

f32_to_bytes(d, n) ==
  Packed("REAL", d.neg, n + Bias(E32), Rounded(d.m - TwoTo[P], TwoTo[P - M32]) % TwoTo[M32])

f64_to_bytes(d, n) == Packed("LREAL", d.neg, n + Bias(E64), d.m - TwoTo[P])

ZeroBytes == [neg |-> FALSE, exp |-> 0, man |-> 0]

-----------------------------------------------------------------------------
VARIABLES
  type,     \* the type of the variable
  bits,     \* what the PLC stores
  value,    \* the Double of the client
  loop,     \* "idle", or "log" in the loops of ilog2_floor
  v, n,     \* their variables: the exponent of v (it stays what it is when
            \* v is an infinity), and n
  relation, \* history: bits and value are related by a "read" or a "write"
  before    \* history: what bits was when value was read from it

floatVars == <<type, bits, value, loop, v, n, relation, before>>

Nothing == [kind |-> "nothing"]
FloatInit ==
  /\ type \in Types
  /\ bits = ZeroBytes
  /\ value = Zero
  /\ loop = "idle" /\ v = 0 /\ n = 0
  /\ relation = "none" /\ before = Nothing

\* The program of the PLC, or another client, sets the variable.
Program(b) ==
  /\ loop = "idle"
  /\ bits' = b
  /\ relation' = "none" /\ before' = Nothing
  /\ UNCHANGED <<type, value, loop, v, n>>

\* FloatField::new, DoubleField::new on the bytes that were read.
ReadField ==
  /\ loop = "idle" /\ bits \in Variables(type)
  /\ value' = IF type = "REAL" THEN f32_from_bytes(bits) ELSE f64_from_bytes(bits)
  /\ relation' = "read" /\ before' = bits
  /\ UNCHANGED <<type, bits, loop, v, n>>

\* The application computes another Double to write.
Compute(d) ==
  /\ loop = "idle"
  /\ value' = d
  /\ relation' = "none" /\ before' = Nothing
  /\ UNCHANGED <<type, bits, loop, v, n>>

-----------------------------------------------------------------------------
(***************************************************************************)
(* to_bytes of the field (or f32_to_bytes, f64_to_bytes of the Double), and *)
(* the write of what it returns.                                            *)
(***************************************************************************)
ToBytesOfZero ==
  /\ loop = "idle" /\ value = Zero
  /\ bits' = ZeroBytes
  /\ relation' = "write"
  /\ UNCHANGED <<type, value, loop, v, n, before>>

ToBytes ==
  /\ loop = "idle" /\ value # Zero
  /\ loop' = "log"
  /\ v' = IF value.kind = "finite" THEN value.e ELSE 0
  /\ n' = 0
  /\ relation' = "none"
  /\ UNCHANGED <<type, bits, value, before>>

IsInfinity == value.kind = "infinity"

\* while v >= 2.0: half of an infinity is an infinity (n counts on, unseen).
Halve ==
  /\ loop = "log"
  /\ v >= 1 \/ IsInfinity
  /\ IF IsInfinity THEN UNCHANGED <<v, n>> ELSE v' = v - 1 /\ n' = n + 1
  /\ UNCHANGED <<type, bits, value, loop, relation, before>>

\* while v < 1.0
Twice ==
  /\ loop = "log" /\ ~IsInfinity
  /\ v < 0
  /\ v' = v + 1 /\ n' = n - 1
  /\ UNCHANGED <<type, bits, value, loop, relation, before>>

Write ==
  /\ loop = "log" /\ ~IsInfinity
  /\ v = 0
  /\ bits' = IF type = "REAL" THEN f32_to_bytes(value, n) ELSE f64_to_bytes(value, n)
  /\ loop' = "idle"
  /\ relation' = "write"
  /\ UNCHANGED <<type, value, v, n, before>>

FloatNext ==
  \/ \E b \in Variables(type) : Program(b)
  \/ ReadField
  \/ \E d \in Doubles : Compute(d)
  \/ ToBytesOfZero
  \/ ToBytes
  \/ Halve
  \/ Twice
  \/ Write

-----------------------------------------------------------------------------
(***************************************************************************)
(* What IEEE 754 says that the stored bits mean, for the PLC.               *)
(***************************************************************************)
IsNormal(t, b) == b.exp \in 1 .. TwoTo[ExpBits(t)] - 2

Meaning(t, b) ==
  CASE IsNormal(t, b) ->
         Finite(b.neg, (TwoTo[ManBits(t)] + b.man) * TwoTo[P - ManBits(t)],
                b.exp - Bias(ExpBits(t)))
    [] IsZero(b) -> Zero
    [] IsSpecial(t, b) /\ b.man = 0 -> Infinity(b.neg)
    [] OTHER -> Nothing     \* not a number, or a subnormal

LowIsPositive(b) == type = "LREAL" => b.man % TwoTo[ML] < TwoTo[ML - 1]

\* The distance of two numbers of the same sign, in units of the smallest.
Magnitude(d) == d.m * TwoTo[d.e + Bias(E64)]
Distance(x, y) ==
  IF Magnitude(x) > Magnitude(y) THEN Magnitude(x) - Magnitude(y)
                                 ELSE Magnitude(y) - Magnitude(x)

\* The written number is normal in the type, and rounds to one that is.
InRange ==
  /\ value.kind = "finite"
  /\ value.e \in 1 - Bias(ExpBits(type)) .. Bias(ExpBits(type))
  /\ value.e = Bias(ExpBits(type)) =>
       2 * (TwoTo[P + 1] - value.m) > TwoTo[P - ManBits(type)]

\* Rounding to nearest carries into the exponent.
Carries == 2 * (TwoTo[P + 1] - value.m) <= TwoTo[P - ManBits(type)] /\ type = "REAL"

Nearest ==
  /\ IsNormal(type, bits) /\ bits.neg = value.neg
  /\ \A b \in Bits(type) : IsNormal(type, b) =>
       Distance(Meaning(type, bits), value) <= Distance(Meaning(type, b), value)

(***************************************************************************)
(* A number that is read is the number that the PLC stored, for each        *)
(* combination of bits but the subnormal ones, not-a-number, and an LREAL   *)
(* whose low word has the top bit (f64_from_bytes makes it negative).       *)
(* What is written is a nearest number of the type, for every number in its *)
(* range whose rounding stays in its binade (f32_to_bytes masks the carry   *)
(* away): the loops of ilog2_floor, the bias and the rounding fit together. *)
(* README.md and field.mbt make neither exception.                          *)
(***************************************************************************)
NumbersKeepTheirValue ==
  /\ relation = "read" /\ Meaning(type, bits) # Nothing /\ LowIsPositive(bits) =>
       value = Meaning(type, bits)
  /\ relation = "write" /\ InRange /\ ~Carries => Nearest

(***************************************************************************)
(* Reading a field and writing it back unchanged, as for a collection of    *)
(* FieldValues, leaves the bits of the PLC alone, subnormal REALs included; *)
(* a negative zero and the LREALs with a top bit there are the exceptions.  *)
(***************************************************************************)
WriteBackKeeps ==
  relation = "write" /\ before # Nothing /\ LowIsPositive(before) =>
    bits = before \/ IsZero(before)

=============================================================================
