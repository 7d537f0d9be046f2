--------------------------- MODULE MCNumberColumns ---------------------------
(* Small instances of NumberColumns. *)
EXTENDS NumberColumns

MinusZero == -1000

ChunksOf(type, numbers, n, nullmaps) ==
    {[type |-> type, src |-> s, nulls |-> m] : s \in [1..n -> numbers], m \in nullmaps}

\* No null row, null rows before, between and after others, and only null rows.
NullmapsOf3 == {{}, {1}, {2}, {2, 3}, {1, 2, 3}}

\* Both ends of the type's range, both zeros, and doubles that convert with
\* exponent 0, with exponent 1 and not at all.
DeepInputs ==
    ChunksOf("INTEGER", {-4, 0, 3}, 3, NullmapsOf3) \cup
    ChunksOf("BIGINT", {-32, 6}, 3, NullmapsOf3) \cup
    ChunksOf("DOUBLE", {NegZero, 0, 3, 7}, 3, {{}, {2}})

\* Chunks of unequal length, which fit into a part together.
ShortInputs ==
    ChunksOf("INTEGER", {0, 3}, 1, {{}}) \cup
    {[type |-> "INTEGER", src |-> <<0, 3>>, nulls |-> {}], [type |-> "INTEGER", src |-> <<3, 0>>, nulls |-> {1}]}

Chunks == DeepInputs \cup ShortInputs
=============================================================================
