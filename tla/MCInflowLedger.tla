---------------------------- MODULE MCInflowLedger ----------------------------
(***************************************************************************)
(* A small instance of InflowLedger: two addresses and the kinds of output *)
(* lists that differ for the index.                                        *)
(***************************************************************************)
EXTENDS InflowLedger, TLC

CONSTANTS A, B

Pay(a, n) == [to |-> a, amount |-> n]

\* Two outputs for one address; one for each; nothing that counts.
MCOutputLists == {<<Pay(A, 1), Pay(A, 2)>>, <<Pay(A, 1), Pay(B, 1)>>,
                  <<Pay(B, 0), Pay(NoAddress, 1)>>}
=============================================================================
