---------------------------- MODULE ColumnStream ----------------------------
(***************************************************************************)
(* What a directory of column files promises: a column is a sequence of    *)
(* chunks, extended at its end while the table is converted, and read from *)
(* the front, all columns in step, once the conversion has ended.  Parts,  *)
(* offsets, padding and counters are not visible here.                     *)
(*                                                                         *)
(* Nothing is promised of a directory whose last conversion was aborted or *)
(* asked for some of the columns or chunks only.                           *)
(***************************************************************************)
EXTENDS Naturals, Sequences

CONSTANT Columns

VARIABLES
    stream,      \* [Columns -> the chunks the column consists of]
    sealed,      \* the conversion has ended
    taken,       \* [Columns -> the chunks the reader got so far]
    promised     \* the directory is one this specification speaks about

vars == <<stream, sealed, taken, promised>>

Nothing == [c \in Columns |-> <<>>]

Init == stream = Nothing /\ sealed = FALSE /\ taken = Nothing /\ promised = TRUE

Add(c) ==
    /\ ~sealed
    /\ Len(stream'[c]) = Len(stream[c]) + 1
    /\ stream' = [stream EXCEPT ![c] = Append(@, stream'[c][Len(stream[c]) + 1])]
    /\ UNCHANGED <<sealed, taken>>

Seal ==
    /\ ~sealed /\ sealed'
    /\ \A c, d \in Columns : Len(stream[c]) = Len(stream[d])
    /\ UNCHANGED <<stream, taken>>

Take(c) ==
    /\ sealed
    /\ Len(taken[c]) < Len(stream[c])
    /\ \A d \in Columns : Len(taken[c]) <= Len(taken[d])
    /\ taken' = [taken EXCEPT ![c] = Append(@, stream[c][Len(@) + 1])]
    /\ UNCHANGED <<stream, sealed>>

\* The reader is started again.
Rewind == sealed /\ taken' = Nothing /\ UNCHANGED <<stream, sealed>>

\* Another table is converted into the directory.
Restart == stream' = Nothing /\ ~sealed' /\ taken' = Nothing

Next ==
    \/ ~promised'
    \/ Restart /\ promised'
    \/ /\ promised /\ promised'
       /\ \/ \E c \in Columns : Add(c) \/ Take(c)
          \/ Seal \/ Rewind

Spec == Init /\ [][Next]_vars
=============================================================================
