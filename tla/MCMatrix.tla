------------------------------- MODULE MCMatrix -------------------------------
(***************************************************************************)
(* An instance of GfaMatrix for TLC over the field with three elements:    *)
(* small arrays of every shape in two variables, and matrices of order     *)
(* three whose elimination meets zeros, swaps and columns without a pivot. *)
(***************************************************************************)
EXTENDS GfaMatrix, TLC

MCTyped == {<<>>, <<2, 1>>, <<1, 2, 2, 0, 1, 1>>}

Array(rows, cols, at) == [rows |-> rows, cols |-> cols, is_matrix |-> FALSE, at |-> at]

Lines(R) == [i \in Indices(9) |-> R[(i \div 3) + 1][(i % 3) + 1]]
OfThree ==
  LET Rows == {<<0, 0, 0>>, <<0, 0, 2>>, <<0, 1, 1>>, <<1, 0, 2>>, <<2, 0, 1>>, <<2, 1, 0>>}
  IN  {Array(3, 3, Lines(R)) : R \in [1 .. 3 -> Rows]}

Pairs ==
  LET Small == {Array(2, 2, [i \in Indices(4) |-> (i * k + k) % 3]) : k \in 1 .. 2}
                 \cup {Array(2, 2, [i \in Indices(4) |-> IF i \in S THEN 1 ELSE 0]) :
                         S \in {{1, 2}, {1, 3}}}
                 \cup {Array(1, 2, [i \in Indices(2) |-> i + 1]),
                       Array(1, 4, [i \in Indices(4) |-> 1]),
                       Array(3, 2, [i \in Indices(6) |-> i % 3]), NoArray}
  IN  [Names -> Small]

MCInitial == Pairs \cup {("a" :> m @@ "b" :> NoArray) : m \in OfThree}
=============================================================================
