--------------------------- MODULE MCColumnFiles ---------------------------
(* Two tables, of three full chunks and a short one, and of one chunk, into *)
(* one directory: the second leaves parts of the first behind.              *)
EXTENDS ColumnFiles

Tables == <<7, 2>>
Flags == {[columns |-> {1, 2}, chunk |-> None], [columns |-> {2}, chunk |-> None],
          [columns |-> {1, 2}, chunk |-> 1]}
=============================================================================
