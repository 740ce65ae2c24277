---------------------------- MODULE JsonNumbers ----------------------------
(***************************************************************************)
(* Integer properties through JsonSerializer: serializeQVariant writes one *)
(* to a JSON number, deserializeQVariant reads one back.                   *)
(*                                                                         *)
(* Widths are scaled down: an int has IntBits bits, a long long LongBits,  *)
(* and a double holds every integer of up to DoubleBits bits.  QJsonValue  *)
(* keeps an integer as such, toInt() answers 0 for one that is no int, and *)
(* toDouble() rounds.  A cast of a double that does not fit its unsigned   *)
(* or 64-bit target is undefined: `junk' is the value that comes out.      *)
(***************************************************************************)
EXTENDS Integers

CONSTANTS ShortBits, IntBits, LongBits, DoubleBits

\* 16, 32, 53 and 64 in the code.
ASSUME JsonNumbersAssumption ==
    /\ {ShortBits, IntBits, LongBits, DoubleBits} \subseteq Nat \ {0}
    /\ ShortBits < IntBits /\ IntBits < DoubleBits /\ DoubleBits + 1 < LongBits

\* The powers of two.
TwoTo[n \in Nat] == IF n = 0 THEN 1 ELSE 2 * TwoTo[n - 1]

Signed(bits)   == -TwoTo[bits - 1] .. (TwoTo[bits - 1] - 1)
Unsigned(bits) == 0 .. (TwoTo[bits] - 1)

RangeOf == [short  |-> Signed(ShortBits), ushort |-> Unsigned(ShortBits),
            int    |-> Signed(IntBits),   uint   |-> Unsigned(IntBits),
            long   |-> Signed(LongBits),  ulong  |-> Unsigned(LongBits)]
Types == DOMAIN RangeOf

\* n as a signed and as an unsigned number of that many bits.
ToUnsigned(n, bits) == n % TwoTo[bits]
ToSigned(n, bits) ==
    LET m == n % TwoTo[bits] IN IF m >= TwoTo[bits - 1] THEN m - TwoTo[bits] ELSE m

\* Round n to `bits' significant bits, ties to even.
Abs(n) == IF n < 0 THEN -n ELSE n
Rounded(n, bits) ==
    LET unit == TwoTo[CHOOSE k \in 0..LongBits :
                         /\ Abs(n) < TwoTo[bits + k]
                         /\ k > 0 => Abs(n) >= TwoTo[bits + k - 1]]
        q == Abs(n) \div unit
        r == Abs(n) % unit
        m == IF 2 * r > unit \/ (2 * r = unit /\ q % 2 = 1) THEN q + 1 ELSE q
    IN  IF n < 0 THEN -(m * unit) ELSE m * unit

\* QJsonValue::toDouble.
ToDouble(n) == Rounded(n, DoubleBits)

\* QJsonValue::toInt.
ToInt(n) == IF n \in RangeOf["int"] THEN n ELSE 0

\* static_cast of a double to the type; what is undefined is junk of its range.
Cast(x, type, junk) ==
    IF x \in RangeOf[type] THEN x
    ELSE IF type = "long" THEN ToSigned(junk, LongBits)
    ELSE ToUnsigned(junk, IF type = "uint" THEN IntBits ELSE LongBits)

\* serializeQVariant.
Written(type, v) ==
    CASE type \in {"short", "int"}   -> v
      [] type \in {"ushort", "uint"} -> ToSigned(v, IntBits)
      [] type = "long"               -> v
      [] type = "ulong"              -> ToSigned(v, LongBits)

\* Mutant: 64-bit properties read as an int.
ReadThroughInt(type, n, junk) ==
    CASE type = "short"  -> ToSigned(ToInt(n), ShortBits)
      [] type = "ushort" -> ToUnsigned(Cast(ToDouble(n), "uint", junk), ShortBits)
      [] type = "uint"   -> Cast(ToDouble(n), "uint", junk)
      [] OTHER           -> ToInt(n)

\* deserializeQVariant, then QMetaProperty::write, which narrows to short.
Read(type, n, junk) ==
    CASE type = "int"    -> ToInt(n)
      [] type = "short"  -> ToSigned(ToInt(n), ShortBits)
      [] type = "ushort" -> ToUnsigned(Cast(ToDouble(n), "uint", junk), ShortBits)
      [] OTHER           -> Cast(ToDouble(n), type, junk)

---------------------------------------------------------------------------
\* A number that is in an int, or a 64-bit one that a double holds, is kept as it is;
\* a long beyond that as nearly as a double can, unless the nearest one does not fit.
KeptExactly(type, v, w) ==
    v \in RangeOf["int"] \/ (type \in {"long", "ulong"} /\ Abs(v) <= TwoTo[DoubleBits])
        => w = v
KeptNearly(type, v, w) ==
    type = "long" /\ Rounded(v, DoubleBits) \in RangeOf["long"]
        => 2 * Abs(w - v) <= TwoTo[LongBits - 1 - DoubleBits]
=============================================================================
