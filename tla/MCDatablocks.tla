----------------------------- MODULE MCDatablocks -----------------------------
(* Tables of up to thirteen rows: one string for all of them, few and many   *)
(* different strings, long and short runs, nulls, a skipped column, short    *)
(* rows and a cell that is no number.                                        *)
EXTENDS Datablocks

A == 901
B == 902
S(text) == [null |-> FALSE, text |-> text, number |-> 0, valid |-> FALSE]
N(n) == [null |-> FALSE, text |-> <<A>>, number |-> n, valid |-> TRUE]
Null == [null |-> TRUE, text |-> <<A>>, number |-> 0, valid |-> FALSE]

One(rows) == [types |-> <<"STRING">>, rows |-> [i \in DOMAIN rows |-> <<rows[i]>>]]
Strings(sq) == One([i \in DOMAIN sq |-> S(sq[i])])
x == <<A>>
yy == <<B, A>>
zzz == <<A, B, B>>

CsvTables ==
    {Strings(<<yy, yy, yy, yy, yy, yy, yy>>),
     Strings(<<x, x, x, x, yy, yy, yy, yy, x, x, x, x, x>>),
     Strings(<<zzz, yy, <<>>, x, zzz>>),
     One(<<S(yy), S(yy), S(yy), S(yy), Null, Null, Null, Null, S(zzz), S(zzz), S(zzz), S(zzz), S(zzz)>>),
     One(<<Null, S(<<>>), Null, Null, S(<<>>), Null, Null>>),
     One(<<S(<<>>), Null, S(<<>>), S(<<>>)>>),
     One(<<Null, S(x), S(yy), Null>>),
     One(<<Null, Null>>),
     [types |-> <<"INTEGER", "SKIP", "STRING", "STRING">>,
      rows |-> <<<<N(7), S(x), S(zzz), S(x)>>, <<Null, S(x), S(zzz), S(x)>>,
                 <<N(3), Null, S(zzz), S(x)>>, <<N(5), Null, S(zzz), S(x)>>,
                 <<N(5), Null, S(yy), S(zzz)>>, <<N(5), Null, S(yy), S(zzz)>>,
                 <<N(5), Null, S(yy), S(zzz)>>, <<N(5), Null, S(yy), S(zzz)>>>>],
     [types |-> <<"STRING", "INTEGER">>, rows |-> <<<<S(x), N(1)>>, <<S(yy)>>, <<S(x), N(2)>>>>],
     [types |-> <<"STRING", "INTEGER">>, rows |-> <<<<S(x), N(1)>>, <<S(yy), S(x)>>>>],
     [types |-> <<"SKIP">>, rows |-> <<<<N(1)>>>>]}

StringConfigs ==
    {[blockSize |-> n, enforced |-> e, forceFsst |-> f, allowFsst |-> TRUE] :
        n \in {5, 13}, e \in {"none", "DICT", "FSST"}, f \in BOOLEAN}
    \cup {[blockSize |-> 4, enforced |-> "UNCOMPRESSED", forceFsst |-> FALSE, allowFsst |-> FALSE]}
=============================================================================
