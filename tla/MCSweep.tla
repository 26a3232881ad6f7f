------------------------------- MODULE MCSweep -------------------------------
(***************************************************************************)
(* A small instance of Sweep: a key with coins at two or three addresses,  *)
(* a coinbase that is one block too young at the start, and amounts that   *)
(* reach the small UINT64_MAX.                                             *)
(***************************************************************************)
EXTENDS Sweep

Coin(id, at, amount, coinbase, h) ==
    [id |-> id, at |-> at, amount |-> amount, coinbase |-> coinbase, height |-> h]
W1 == Coin("w1", "p2wpkh", 40000, FALSE, 1)
W2 == Coin("w2", "p2wpkh", 30000, TRUE, 2)
W3 == Coin("w3", "p2wpkh", 70000, FALSE, 3)
T1 == Coin("t1", "p2tr", 50000, FALSE, 1)
P1 == Coin("p1", "p2pkh", 45000, TRUE, 1)

MCLedgers  == {{W1, W2, T1}, {W1, W3, P1}}
MCArrival  == Coin("w4", "p2wpkh", 10000, FALSE, 101)
MCSilent   == {<<>>, <<<<"p2tr">>>>}
MCInputs   == {<<<<"p2wpkh", "p2tr">>>>, <<<<"p2pkh">>, <<"p2wpkh", "p2wpkh">>>>} \cup MCSilent
MCRates    == {Nothing, 2, 600}
MCFeerates == {Nothing, 499, 2500}
=============================================================================
