------------------------------- MODULE BinProt -------------------------------
(***************************************************************************)
(* The C stubs of Bin_prot: how values are written to a bigstring in the   *)
(* binary protocol and read back (write_stubs.c, read_stubs.c and the      *)
(* byte-order operations of common_stubs.h), on a 64-bit little-endian     *)
(* machine.                                                                *)
(*                                                                         *)
(* A byte is a number below Byte (256 in the code).  All thresholds of the *)
(* code are powers of 256 or halves of one and become powers of Byte.      *)
(* A pointer into the buffer is an offset from its start: the number of    *)
(* bytes before it.                                                        *)
(***************************************************************************)
EXTENDS Integers, Sequences, SequencesExt

CONSTANTS
  Byte,       \* the number of values of a byte: even, and large enough for four
              \* integer codes besides the small integers and the other negatives
  Max_wosize  \* the most words that a block of OCaml's heap may have

ASSUME ByteAssumption == Byte \in Nat /\ Byte >= 10 /\ Byte % 2 = 0
ASSUME WosizeAssumption == Max_wosize \in Nat \ {0}

-----------------------------------------------------------------------------
(* Integers of w bytes, little-endian and big-endian. *)

\* The w low bytes of n in two's complement, lowest first (le16enc ...).
LE(w, n) == [i \in 1..w |-> (n \div Byte^(i - 1)) % Byte]

BE(w, n) == Reverse(LE(w, n))

\* The number that the bytes s stand for: unsigned, and as a signed type.
Unsigned(s) ==
  LET top[n \in 0..Len(s)] == \* of the n highest bytes
        IF n = 0 THEN 0 ELSE top[n - 1] * Byte + s[Len(s) - n + 1]
  IN  top[Len(s)]

Signed(s) ==
  IF s[Len(s)] >= Byte \div 2 THEN Unsigned(s) - Byte^Len(s) ELSE Unsigned(s)

\* The OCaml ints, which have one bit less than a long.
FitsInt(n) == -(Byte^8 \div 4) <= n /\ n < Byte^8 \div 4

\* A number read from bytes, little-endian unless said otherwise; "raw"
\* bytes are the value themselves.
Decoded(as, s) ==
  CASE as = "signed"      -> Signed(s)
    [] as = "unsigned"    -> Unsigned(s)
    [] as = "BE signed"   -> Signed(Reverse(s))
    [] as = "BE unsigned" -> Unsigned(Reverse(s))
    [] as = "raw"         -> s

\* The codes that announce a wider integer: the bytes -1 to -4.
CODE_NEG_INT8 == Byte - 1
CODE_INT16    == Byte - 2
CODE_INT32    == Byte - 3
CODE_INT64    == Byte - 4

-----------------------------------------------------------------------------
(* Writing.  A writer's cursor is a record of the buffer, the position and *)
(* whether Buffer_short was raised; once it was, nothing more is written.  *)

Cursor(buf, pos) == [buf |-> buf, pos |-> pos, short |-> FALSE]

\* What every write stub does with the bytes of its value: raise
\* Buffer_short unless they fit before the end, else store them.
Store(w, bytes) ==
  IF w.short \/ w.pos + Len(bytes) > Len(w.buf)
  THEN [w EXCEPT !.short = TRUE]
  ELSE [buf   |-> [i \in DOMAIN w.buf |->
                     IF i \in w.pos + 1 .. w.pos + Len(bytes)
                     THEN bytes[i - w.pos] ELSE w.buf[i]],
        pos   |-> w.pos + Len(bytes),
        short |-> FALSE]

SmallInt(n) == <<n>>
NegInt8(n)  == <<CODE_NEG_INT8>> \o LE(1, n)
Int16(n)    == <<CODE_INT16>> \o LE(2, n)
Int32(n)    == <<CODE_INT32>> \o LE(4, n)
Int64(n)    == <<CODE_INT64>> \o LE(8, n)

IntNat0Unsigned16(n) ==  \* mutant of IntNat0
  IF n < Byte \div 2 THEN SmallInt(n)
  ELSE IF n < Byte^2 THEN Int16(n)
  ELSE IF n >= Byte^4 \div 2 THEN Int64(n)
  ELSE Int32(n)
IntNat0(n) ==
  IF n < Byte \div 2 THEN SmallInt(n)
  ELSE IF n < Byte^2 \div 2 THEN Int16(n)
  ELSE IF n >= Byte^4 \div 2 THEN Int64(n)
  ELSE Int32(n)

IntNegative(n) ==
  IF n >= -(Byte \div 2) THEN NegInt8(n)
  ELSE IF n >= -(Byte^2 \div 2) THEN Int16(n)
  ELSE IF n < -(Byte^4 \div 2) THEN Int64(n)
  ELSE Int32(n)

\* write_int: the encoding of int, int32, int64 and nativeint.
WriteInt(n) == IF n >= 0 THEN IntNat0(n) ELSE IntNegative(n)

\* write_nat0: the encoding of sizes, whose 16 and 32 bits are unsigned.
Nat0(n) ==
  IF n < Byte \div 2 THEN SmallInt(n)
  ELSE IF n < Byte^2 THEN Int16(n)
  ELSE IF n >= Byte^4 THEN Int64(n)
  ELSE Int32(n)

\* write_string: the length, then the characters, in one check for space.
String(s) == Nat0(Len(s)) \o s

\* write_area and write_float_array: the number of elements, then their
\* bytes.  An element is a sequence of bytes, es a sequence of elements.
Area(n, es) == Nat0(n) \o FlattenSeq(es)

\* write_<kind>_mat: the first dimension has a check for space of its own,
\* so it may have been stored when the elements turn out not to fit.
Mat(w, m) == Store(Store(w, Nat0(m.dim1)), Area(m.dim2, m.els))

\* The types whose values are written as one small int, as an int, and as a
\* fixed number of bytes in the machine's or in network order.
SmallTypes == {"unit", "bool", "option", "char"}
IntTypes   == {"int", "int32", "int64", "nativeint"}
AreaTypes  == {"float_array", "bigstring", "float32_vec", "float64_vec"}
MatTypes   == {"float32_mat", "float64_mat"}

LEWidth ==
  [variant_tag |-> 4, int_8bit |-> 1, int_16bit |-> 2, int_32bit |-> 4,
   int_64bit |-> 8, int64_bits |-> 8]

BEWidth ==
  [network16_int |-> 2, network32_int |-> 4, network32_int32 |-> 4,
   network64_int |-> 8, network64_int64 |-> 8]

\* The stub of type t writes v at the cursor w.  A float is its 8 bytes, a
\* polymorphic variant its tag as an odd number, a raw string its bytes.
WriteStub(t, w, v) ==
  CASE t \in SmallTypes      -> Store(w, SmallInt(v))
    [] t \in IntTypes        -> Store(w, WriteInt(v))
    [] t = "nat0"            -> Store(w, Nat0(v))
    [] t = "string"          -> Store(w, String(v))
    [] t \in AreaTypes       -> Store(w, Area(Len(v), v))
    [] t \in MatTypes        -> Mat(w, v)
    [] t \in {"float", "raw_string"} -> Store(w, v)
    [] t \in DOMAIN LEWidth  -> Store(w, LE(LEWidth[t], v))
    [] t \in DOMAIN BEWidth  -> Store(w, BE(BEWidth[t], v))

\* The ML writer: its result is the next position, or Buffer_short.
MLWrite(t, buf, pos, v) == WriteStub(t, Cursor(buf, pos), v)

-----------------------------------------------------------------------------
(* Reading.  The end of the buffer is the end of the sequence buf.  An     *)
(* answer is a value, Buffer_short or a Read_error, with the position the  *)
(* stub leaves its pointer at.                                             *)

Ok(v, pos)    == [res |-> "ok", val |-> v, pos |-> pos]
Short(pos)    == [res |-> "Buffer_short", val |-> <<>>, pos |-> pos]
Error(e, pos) == [res |-> e, val |-> <<>>, pos |-> pos]

\* memcpy of n elements of w bytes, if all of them have arrived.
ElementsAndOne(buf, pos, n, w) ==  \* mutant of Elements
  IF pos + n * w >= Len(buf) THEN Short(pos)
  ELSE Ok([i \in 1..n |-> SubSeq(buf, pos + (i - 1) * w + 1, pos + i * w)],
          pos + n * w)
Elements(buf, pos, n, w) ==
  IF pos + n * w > Len(buf) THEN Short(pos)
  ELSE Ok([i \in 1..n |-> SubSeq(buf, pos + (i - 1) * w + 1, pos + i * w)],
          pos + n * w)

\* The same for one element, which is then decoded.
First(e, as) == IF e.res = "ok" THEN Ok(Decoded(as, e.val[1]), e.pos) ELSE e
Fixed(buf, pos, w, as) == First(Elements(buf, pos, 1, w), as)

\* The checks of a number that was read.
Good(check, n) ==
  CASE check = "none"     -> TRUE
    [] check = "negative" -> n < 0
    [] check = "int"      -> FitsInt(n)

\* An answer that fails its check is an error.
Checked(e, check, err, pos) ==
  IF e.res = "ok" /\ ~Good(check, e.val) THEN Error(err, pos) ELSE e

\* A fixed-size integer that must fit an OCaml int; the pointer stays.
FixedInt(buf, pos, w, as) ==
  Checked(Fixed(buf, pos, w, as), "int", "Int_overflow", pos)

\* safe_read_<int>: the rest of an integer, after its code at pos - 1; an
\* error is at the place of the code.
SafeRead(buf, pos, w, as, check, err) ==
  Checked(Fixed(buf, pos, w, as), check, err, pos - 1)

\* The signed integer that code announces; checked if it is an OCaml int.
SafeInt(buf, pos, code, check) ==
  CASE code = CODE_NEG_INT8 -> SafeRead(buf, pos, 1, "signed", "negative", "Neg_int8")
    [] code = CODE_INT16    -> SafeRead(buf, pos, 2, "signed", "none", "")
    [] code = CODE_INT32    -> SafeRead(buf, pos, 4, "signed", "none", "")
    [] code = CODE_INT64    -> SafeRead(buf, pos, 8, "signed", check, "Int_overflow")

SafeNat0(buf, pos, code) ==
  CASE code = CODE_INT16 -> SafeRead(buf, pos, 2, "unsigned", "none", "")
    [] code = CODE_INT32 -> SafeRead(buf, pos, 4, "unsigned", "none", "")
    [] code = CODE_INT64 -> SafeRead(buf, pos, 8, "unsigned", "int", "Nat0_overflow")

\* The first byte of an integer: a small int, a code that may follow, or
\* an error.
Code(buf, pos, codes, err) ==
  IF pos >= Len(buf) THEN Short(pos)
  ELSE LET code == buf[pos + 1]
       IN  IF code < Byte \div 2 THEN Ok(code, pos + 1)
           ELSE IF code \in codes THEN [Ok(code, pos + 1) EXCEPT !.res = "code"]
           ELSE Error(err, pos)

Codes32 == {CODE_NEG_INT8, CODE_INT16, CODE_INT32}
Codes64 == Codes32 \cup {CODE_INT64}

ReadInt(buf, pos) ==
  LET c == Code(buf, pos, Codes64, "Int_code")
  IN  IF c.res = "code" THEN SafeInt(buf, c.pos, c.val, "int") ELSE c

ReadNat0(buf, pos) ==
  LET c == Code(buf, pos, Codes64 \ {CODE_NEG_INT8}, "Nat0_code")
  IN  IF c.res = "code" THEN SafeNat0(buf, c.pos, c.val) ELSE c

ReadInt32(buf, pos) ==
  LET c == Code(buf, pos, Codes32, "Int32_code")
  IN  IF c.res = "code" THEN SafeInt(buf, c.pos, c.val, "none") ELSE c

ReadInt64(buf, pos) ==
  LET c == Code(buf, pos, Codes64, "Int64_code")
  IN  IF c.res = "code" THEN SafeInt(buf, c.pos, c.val, "none") ELSE c

ReadNativeint(buf, pos) ==
  LET c == Code(buf, pos, Codes64, "Nativeint_code")
  IN  IF c.res = "code" THEN SafeInt(buf, c.pos, c.val, "none") ELSE c

\* One byte below n, or an error at that byte.
ReadBelow(buf, pos, n, err) ==
  IF pos >= Len(buf) THEN Short(pos)
  ELSE IF buf[pos + 1] < n THEN Ok(buf[pos + 1], pos + 1)
  ELSE Error(err, pos)

ReadUnit(buf, pos)   == ReadBelow(buf, pos, 1, "Unit_code")
ReadBool(buf, pos)   == ReadBelow(buf, pos, 2, "Bool_code")
ReadOption(buf, pos) == ReadBelow(buf, pos, 2, "Option_code")
ReadChar(buf, pos)   == ReadBelow(buf, pos, Byte, "")

\* A size, then that many elements of w bytes.  The sizes of what a writer
\* wrote fit in a long; the code's products may wrap for others.
SizedElements(buf, n, w) ==
  IF n.res = "ok" THEN Elements(buf, n.pos, n.val, w) ELSE n
ReadArea(buf, pos, w) == SizedElements(buf, ReadNat0(buf, pos), w)

\* A string or an array of floats is a block of the heap: a size beyond max
\* is refused, with the pointer back at pos, before any element is looked at.
BlockElements(buf, pos, n, w, max, err) ==
  IF n.res = "ok" /\ n.val > max THEN Error(err, pos) ELSE SizedElements(buf, n, w)
ReadFloatArray(buf, pos) ==
  BlockElements(buf, pos, ReadNat0(buf, pos), 8, Max_wosize, "Array_too_long")

\* The length is followed by the characters; a block has a byte to spare.
Characters(s) == IF s.res = "ok" THEN [s EXCEPT !.val = FlattenSeq(@)] ELSE s
ReadString(buf, pos) ==
  Characters(BlockElements(buf, pos, ReadNat0(buf, pos), 1, 8 * Max_wosize - 1,
                           "String_too_long"))

\* Both dimensions, then the elements; the first of the three answers that
\* is not ok is the answer.  (The product of the dimensions of a matrix that
\* was written fits in a long, too.)
MatOf(d1, d2, es) ==
  IF es.res = "ok" THEN Ok([dim1 |-> d1.val, dim2 |-> d2.val, els |-> es.val], es.pos)
  ELSE es
MatElements(buf, d1, d2, w) ==
  IF d2.res = "ok" THEN MatOf(d1, d2, Elements(buf, d2.pos, d1.val * d2.val, w)) ELSE d2
SecondDim(buf, d1, w) ==
  IF d1.res = "ok" THEN MatElements(buf, d1, ReadNat0(buf, d1.pos), w) ELSE d1
ReadMat(buf, pos, w) == SecondDim(buf, ReadNat0(buf, pos), w)

\* The tag of a polymorphic variant is an odd number: an immediate value.
ReadVariantTag(buf, pos) ==
  LET n == Fixed(buf, pos, 4, "signed")
  IN  IF n.res = "ok" /\ n.val % 2 = 0 THEN Error("Variant_tag", pos) ELSE n

\* A raw string has no length of its own: len is the caller's.
ReadRawString(buf, pos, len) == Fixed(buf, pos, len, "raw")

ReadStub(t, buf, pos) ==
  CASE t = "int"         -> ReadInt(buf, pos)
    [] t = "nat0"        -> ReadNat0(buf, pos)
    [] t = "int32"       -> ReadInt32(buf, pos)
    [] t = "int64"       -> ReadInt64(buf, pos)
    [] t = "nativeint"   -> ReadNativeint(buf, pos)
    [] t = "unit"        -> ReadUnit(buf, pos)
    [] t = "bool"        -> ReadBool(buf, pos)
    [] t = "option"      -> ReadOption(buf, pos)
    [] t \in {"char", "int_8bit"} -> ReadChar(buf, pos)
    [] t = "string"      -> ReadString(buf, pos)
    [] t = "bigstring"   -> ReadArea(buf, pos, 1)
    [] t = "float32_vec" -> ReadArea(buf, pos, 4)
    [] t = "float_array" -> ReadFloatArray(buf, pos)
    [] t = "float64_vec" -> ReadArea(buf, pos, 8)
    [] t = "float32_mat" -> ReadMat(buf, pos, 4)
    [] t = "float64_mat" -> ReadMat(buf, pos, 8)
    [] t = "float"       -> ReadRawString(buf, pos, 8)
    [] t = "variant_tag" -> ReadVariantTag(buf, pos)
    [] t = "int_16bit"   -> Fixed(buf, pos, 2, "unsigned")
    [] t = "int_32bit"   -> Fixed(buf, pos, 4, "unsigned")
    [] t = "int_64bit"   -> FixedInt(buf, pos, 8, "signed")
    [] t = "int64_bits"  -> Fixed(buf, pos, 8, "signed")
    [] t = "network16_int"   -> Fixed(buf, pos, 2, "BE unsigned")
    [] t = "network32_int"   -> Fixed(buf, pos, 4, "BE unsigned")
    [] t = "network32_int32" -> Fixed(buf, pos, 4, "BE signed")
    [] t = "network64_int"   -> FixedInt(buf, pos, 8, "BE signed")
    [] t = "network64_int64" -> Fixed(buf, pos, 8, "BE signed")

\* The ML reader: pos_ref moves to the stub's pointer only on success; an
\* error is raised with the pointer as its position.
PosRef(a, pos) ==
  [res |-> a.res, val |-> a.val, pos_ref |-> IF a.res = "ok" THEN a.pos ELSE pos,
   err_pos |-> a.pos]
MLRead(t, buf, pos) == PosRef(ReadStub(t, buf, pos), pos)

-----------------------------------------------------------------------------
(* The sizes that callers reserve (size.ml), computed apart from writing.  *)

SizeInt(n) ==
  IF n >= 0
  THEN IF n < Byte \div 2 THEN 1
       ELSE IF n < Byte^2 \div 2 THEN 3
       ELSE IF n >= Byte^4 \div 2 THEN 9 ELSE 5
  ELSE IF n >= -(Byte \div 2) THEN 2
       ELSE IF n >= -(Byte^2 \div 2) THEN 3
       ELSE IF n < -(Byte^4 \div 2) THEN 9 ELSE 5

SizeNat0(n) ==
  IF n < Byte \div 2 THEN 1
  ELSE IF n < Byte^2 THEN 3
  ELSE IF n >= Byte^4 THEN 9 ELSE 5

ElementSize ==
  [float_array |-> 8, bigstring |-> 1, float32_vec |-> 4, float64_vec |-> 8,
   float32_mat |-> 4, float64_mat |-> 8]

BinSize(t, v) ==
  CASE t \in SmallTypes     -> 1
    [] t \in IntTypes       -> SizeInt(v)
    [] t = "nat0"           -> SizeNat0(v)
    [] t = "string"         -> SizeNat0(Len(v)) + Len(v)
    [] t \in AreaTypes      -> SizeNat0(Len(v)) + ElementSize[t] * Len(v)
    [] t \in MatTypes       -> SizeNat0(v.dim1) + SizeNat0(v.dim2)
                                 + ElementSize[t] * v.dim1 * v.dim2
    [] t \in {"float", "raw_string"} -> Len(v)
    [] t \in DOMAIN LEWidth -> LEWidth[t]
    [] t \in DOMAIN BEWidth -> BEWidth[t]
=============================================================================
