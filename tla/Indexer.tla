------------------------------- MODULE Indexer -------------------------------
(***************************************************************************)
(* What both indexes are told of a transaction's outputs:                  *)
(* effects_from_block (src/src/chain/indexer.cpp).  The parse thread calls *)
(* it on each block; BalanceDb::apply and InflowDb::apply get the result.  *)
(***************************************************************************)
EXTENDS Integers, Sequences

CONSTANTS Addresses,    \* what address_from_script can return
          NoAddress,    \* its nullopt: OP_RETURN, bare multisig, ...
          OutputLists   \* the output lists a transaction may have

Output  == [to : Addresses \cup {NoAddress}, amount : Nat]
Indexed == [to : Addresses, amount : Nat \ {0}]

ASSUME OutputsAssumption ==
    NoAddress \notin Addresses /\ \A outs \in OutputLists : outs \in Seq(Output)

\* Mutant: outputs of no value are kept.
Credited_ZeroKept(outs) == {i \in DOMAIN outs : outs[i].to \in Addresses}

\* The outputs that become credits: those with a value and an address.
Credited(outs) == {i \in DOMAIN outs : outs[i] \in Indexed}
=============================================================================
