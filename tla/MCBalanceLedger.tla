--------------------------- MODULE MCBalanceLedger ---------------------------
(***************************************************************************)
(* A small instance of BalanceLedger: two addresses, four transaction ids *)
(* and the kinds of output lists that differ for the index.                *)
(***************************************************************************)
EXTENDS BalanceLedger, TLC

CONSTANTS A, B, t1, t2, t3, t4

Pay(a, n) == [to |-> a, amount |-> n]

\* One output; two for one address; change, and an output without address;
\* one of no value.
MCOutputLists == {<<Pay(A, 2)>>, <<Pay(A, 1), Pay(A, 1)>>, <<Pay(NoAddress, 1), Pay(B, 1)>>,
                  <<Pay(B, 0)>>}

\* Transaction ids only have to differ.
Symmetric == Permutations({t1, t2, t3, t4})
=============================================================================
