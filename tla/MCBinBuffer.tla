----------------------------- MODULE MCBinBuffer -----------------------------
\* Model values for TLC: a byte has ten values, so that eight bytes fit TLC's
\* integers, and numbers lie at the edges of every range of the encodings.
EXTENDS BinBuffer

M(wt, rt, v) == [wt |-> wt, rt |-> rt, val |-> v]

Edges8  == {-24999999 - 1, -5001, -5000, -51, -50, -6, -5, -1,
            0, 4, 5, 49, 50, 4999, 5000, 24999999}
Beyond  == {-50000000, -25000001, 25000000, 49999999}
Edges4  == {-5000, -51, -6, -1, 4, 5, 50, 4999}
Sizes   == {0, 4, 5, 49, 50, 99, 100, 4999, 5000, 9999, 10000, 24999999}

El(n, w) == [i \in 1..n |-> [j \in 1..w |-> (3 * i + j) % 10]]

IntMessages ==
  {M("int", r, v) : r \in IntTypes, v \in Edges8}
    \cup {M(w, r, v) : w \in {"int64", "nativeint"}, r \in {"int", "int32", "int64"}, v \in Beyond}
    \cup {M("int32", r, v) : r \in {"int32", "int"}, v \in Edges4}
    \cup {M("nat0", "nat0", v) : v \in Sizes}
    \cup {M("int", "nat0", -1), M("int64", "nat0", 25000000)}
    \cup {M("nat0", "float_array", v) : v \in {1001, 24999999}}
    \cup {M("nat0", "string", v) : v \in {8000, 24999999}}

FixedMessages ==
  {M(t, t, v) : t \in {"int_64bit", "int64_bits", "network64_int", "network64_int64"},
                v \in {-24999999 - 1, -1, 0, 24999999}}
    \cup {M("int64_bits", "int_64bit", v) : v \in Beyond}
    \cup {M("network64_int64", "network64_int", v) : v \in Beyond}
    \cup {M("network32_int32", "network32_int32", v) : v \in {-5000, -1, 0, 4999}}
    \cup {M(t, t, v) : t \in {"int_32bit", "network32_int"}, v \in {0, 1234, 9999}}
    \cup {M(t, t, v) : t \in {"int_16bit", "network16_int"}, v \in {0, 12, 99}}
    \cup {M("variant_tag", "variant_tag", v) : v \in {-4999, -1, 1, 4999}}

DataMessages ==
  {M("unit", "unit", 0), M("bool", "bool", 1), M("option", "option", 1),
   M("char", "char", 9), M("int_8bit", "int_8bit", 8),
   M("string", "string", <<>>), M("string", "string", <<1, 9, 6, 7, 8>>),
   M("float", "float", <<1, 2, 3, 4, 5, 6, 7, 9>>),
   M("float_array", "float_array", El(1, 8)), M("float64_vec", "float64_vec", El(1, 8)),
   M("float32_vec", "float32_vec", El(2, 4)), M("bigstring", "bigstring", El(6, 1)),
   M("float32_mat", "float32_mat", [dim1 |-> 1, dim2 |-> 2, els |-> El(2, 4)]),
   M("float64_mat", "float64_mat", [dim1 |-> 1, dim2 |-> 1, els |-> El(1, 8)]),
   M("float32_mat", "float32_mat", [dim1 |-> 5, dim2 |-> 0, els |-> <<>>])}

MCMessages == IntMessages \cup FixedMessages \cup DataMessages

\* Every message before an integer, and a few after one and in threes.
Few ==
  {M("int", "int", -51), M("nat0", "nat0", 100), M("bool", "bool", 1),
   M("int64", "int", 25000000),
   M("float32_mat", "float32_mat", [dim1 |-> 1, dim2 |-> 2, els |-> El(2, 4)])}

MCPrograms ==
  {<<m, M("int", "int", -51)>> : m \in MCMessages}
    \cup {<<M("int", "int", -51), m>> : m \in DataMessages}
    \cup {<<m, n, o>> : m \in Few, n \in Few, o \in Few}
=============================================================================
