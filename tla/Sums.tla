-------------------------------- MODULE Sums --------------------------------
(***************************************************************************)
(* The sum of the values of a function, which the components use to say    *)
(* that what several tasks, threads or datagrams hold adds up.             *)
(***************************************************************************)
EXTENDS Integers, Functions

Total(f) == FoldFunction(+, 0, f)

\* The sum of the first n values of a function on the positive numbers.
TotalTo(n, f) == Total([i \in 1 .. n |-> f[i]])
=============================================================================
