---------------------------- MODULE MCLineSearch ----------------------------
(***************************************************************************)
(* A line table with what is hard for the search: a line with several      *)
(* rows that another line interrupts, addresses out of order, two lines    *)
(* with a row at the same address (the end of one sequence and the start   *)
(* of the next), and gaps below, between and above the rows.  The listing  *)
(* then reads a file that ends in a newline, one that does not, and one    *)
(* with a line that the reader's buffer cannot hold, in windows that start *)
(* before the file, end after it, are empty, or do not reach the long line.*)
(***************************************************************************)
EXTENDS Listing

Row(addr, line) == [addr |-> addr, line |-> line, prologueEnd |-> FALSE]

TangledRows ==
  <<Row(8, 1), Row(10, 2), Row(14, 1), Row(16, 3),
    Row(2, 4), Row(4, 3), Row(6, 4), Row(8, 4)>>

SomeFiles ==
  {[newlines |-> 12, unended |-> FALSE, tooLong |-> {}],
   [newlines |-> 9, unended |-> TRUE, tooLong |-> {}],
   [newlines |-> 12, unended |-> FALSE, tooLong |-> {5}],
   [newlines |-> 4, unended |-> TRUE, tooLong |-> {5}]}
SomeLinenos == {-3, 0, 1, 2, 4, 9, 10, 20}
SomeRanges == {-1, 0, 1, 2}
=============================================================================
