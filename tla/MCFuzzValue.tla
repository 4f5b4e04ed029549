---------------------------- MODULE MCFuzzValue -----------------------------
(***************************************************************************)
(* FuzzValue with narrow types that are ordered like those of the code: an *)
(* int of 4 bits, a mantissa of 6 and an unsigned long of 8.               *)
(***************************************************************************)
EXTENDS FuzzValue

Arg(type, value) == [value_type |-> type, value |-> value]

INT_MAX == 2^(IntBits - 1) - 1

\* Sequences whose number of values is an int.
Sequences1 ==
  {Arg(1, <<a, b, c>>) : <<a, b, c>> \in
     {s \in (-2 .. INT_MAX) \X (0 .. INT_MAX) \X (1 .. 3) :
        s[1] <= s[2] /\ (s[2] - s[1]) \div s[3] < INT_MAX}}

\* Powers whose largest value is exact as a double.
Powers ==
  {Arg(2, <<a, b, c, d>>) : <<a, b, c, d>> \in
     {s \in (2 .. 3) \X (0 .. 2) \X (0 .. 2) \X {1, 4} : s[2] <= s[3]}}

Strings == {Arg(4, [k \in 1 .. len |-> k]) : len \in 1 .. 6}

Plain == Sequences1 \cup Powers \cup Strings \cup {Arg(0, <<>>), Arg(3, <<1>>)}
=============================================================================
