--------------------------- MODULE MCSchemePicker ---------------------------
(***************************************************************************)
(* Small pools and callers for SchemePicker.  The order of a pool is the   *)
(* iteration order of its unordered_map, which the standard leaves open.   *)
(***************************************************************************)
EXTENDS SchemePicker

Required == <<"UNCOMPRESSED", "ONE_VALUE">>
Leaves   == [t \in Types |-> Required]

\* Integers with a split and a composite.
SplitPool ==
    [Leaves EXCEPT !["INTEGER"] = <<"RLE", "UNCOMPRESSED", "BP", "SUB_INT_SPLIT", "ONE_VALUE">>]

\* The 64-bit schemes over the 32-bit ones.
WidePool ==
    [Leaves EXCEPT !["INTEGER"] = <<"ONE_VALUE", "FOR", "BP", "SUB_INT_SPLIT", "UNCOMPRESSED", "RLE">>,
                   !["BIGINT"]  = <<"UNCOMPRESSED", "SUB_INT_SPLIT", "BP", "ONE_VALUE", "RLE">>]

\* Doubles and strings, which hand integer streams down, over integers with a split.
ColumnPool ==
    [Leaves EXCEPT !["INTEGER"] = <<"RLE", "UNCOMPRESSED", "BP", "DICT", "SUB_INT_SPLIT", "ONE_VALUE">>,
                   !["DOUBLE"]  = <<"PSEUDODECIMAL", "UNCOMPRESSED", "RLE", "FREQUENCY", "ONE_VALUE">>,
                   !["STRING"]  = <<"UNCOMPRESSED", "ONE_VALUE", "DICT", "FSST">>]

NoOverride    == {}
SplitOverride == {<<"INTEGER", "SUB_INT_SPLIT">>}
RleOverride   == {<<"INTEGER", "RLE">>, <<"INTEGER", "FOR">>}
StringOverride == {<<"STRING", "FSST">>, <<"DOUBLE", "PSEUDODECIMAL">>}
=============================================================================
