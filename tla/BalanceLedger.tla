---------------------------- MODULE BalanceLedger ----------------------------
(***************************************************************************)
(* What the balance index stores and how a block changes it:               *)
(* BalanceDb::apply (src/src/chain/balance_db.cpp).                        *)
(*                                                                         *)
(* The database maps addresses to balances ("A" records) and outpoints to  *)
(* what they pay ("O" records).  apply reads the database as it was before *)
(* the block, keeps what the block makes of it in maps of its own and      *)
(* writes one batch at the end.  One turn of its loop over the block's     *)
(* transactions is one step here.  The reference is the set of unspent     *)
(* outputs that the node keeps (external: Bitcoin Core), changed one       *)
(* transaction after the other.                                            *)
(***************************************************************************)
EXTENDS Indexer, FiniteSets, FiniteSetsExt

CONSTANTS Txids,        \* ids; a model of few ids uses one again (see Unused)
          Deleted,      \* marks an outpoint that the batch deletes
          MaxInputs     \* bound: the inputs of a transaction

ASSUME DeletedAssumption == Deleted \notin Output
ASSUME InputsAssumption == MaxInputs \in Nat

VARIABLES utxo,      \* the node: outpoint -> output, after the last block applied
          working,   \* the same after the transactions of this block so far
          balance,   \* the "A" records; 0 where there is none
          outpoint,  \* the "O" records
          balances,  \* apply's map: what this block makes of each balance
          created,   \* apply's map: made in this block and still unspent
          batch      \* the batch's operations on "O" records, the last of each

dbVars   == <<balance, outpoint>>
loopVars == <<working, balances, created, batch>>
vars == <<utxo, dbVars, loopVars>>

Empty == [o \in {} |-> Deleted]
Without(f, S) == [o \in DOMAIN f \ S |-> f[o]]
With(f, g) == [o \in DOMAIN f \cup DOMAIN g |-> IF o \in DOMAIN g THEN g[o] ELSE f[o]]

\* What a map of outputs pays to an address.
Amounts(f) == [o \in DOMAIN f |-> f[o].amount]
PaidIn(f, a) == {o \in DOMAIN f : f[o].to = a}
Paid(f, a) == SumFunctionOnSet(Amounts(f), PaidIn(f, a))

Init ==
    /\ utxo = Empty /\ working = Empty
    /\ balance = [a \in Addresses |-> 0] /\ outpoint = Empty
    /\ balances = balance
    /\ created = Empty
    /\ batch = Empty
-----------------------------------------------------------------------------
\* An id is the hash of its transaction and never comes twice, but for the
\* two pairs of equal coinbases of 2010, which BIP 30 now rules out.  To the
\* model an id is as good as new when no output of it is unspent and none was
\* touched by this block.
Unused(id) == \A o \in DOMAIN working \cup DOMAIN utxo \cup DOMAIN batch : o[1] # id

\* The transactions that are valid next: they spend unspent outputs.
Transactions ==
    [id : {id \in Txids : Unused(id)},
     spends : UNION {kSubset(n, DOMAIN working) : n \in 0 .. MaxInputs},
     outs : OutputLists]

Outputs(tx) == [o \in {<<tx.id, vout>> : vout \in DOMAIN tx.outs} |-> tx.outs[o[2]]]

\* The credits of a transaction, by outpoint.
Credits(tx) ==
    [o \in {<<tx.id, vout>> : vout \in Credited(tx.outs)} |-> tx.outs[o[2]]]

\* Mutant: only the database is looked at.
Debits_NotFromBlock(tx) == [o \in tx.spends \cap DOMAIN outpoint |-> outpoint[o]]

\* What is known of the outputs it spends: from this block, or from before.
Debits(tx) ==
    [o \in tx.spends \cap (DOMAIN created \cup DOMAIN outpoint) |->
        IF o \in DOMAIN created THEN created[o] ELSE outpoint[o]]

\* A debit stops at 0.
Minus(cur, amount) == IF cur < amount THEN 0 ELSE cur - amount

\* Mutant: what is made and spent in one block is put and not deleted.
Queue_OnlyOldDeleted(ops, debits, credits) ==
    With(With(ops, [o \in DOMAIN debits \ DOMAIN created |-> Deleted]), credits)

\* The batch after the debits and the credits of a transaction, in this order.
Queue(ops, debits, credits) == With(With(ops, [o \in DOMAIN debits |-> Deleted]), credits)

\* One turn of the loop.
ApplyTx ==
    \E tx \in Transactions :
        LET debits  == Debits(tx)
            credits == Credits(tx)
        IN  /\ working' = With(Without(working, tx.spends), Outputs(tx))
            /\ balances' = [a \in Addresses |->
                                Minus(balances[a], Paid(debits, a)) + Paid(credits, a)]
            /\ created' = With(Without(created, DOMAIN debits), credits)
            /\ batch' = Queue(batch, debits, credits)
            /\ UNCHANGED <<utxo, dbVars>>

\* The maps of the next call of apply.
FreshMaps == created' = Empty /\ batch' = Empty

\* The batch is written, all of it: the block is applied.
Commit ==
    LET deletes == {o \in DOMAIN batch : batch[o] = Deleted}
    IN  /\ outpoint' = With(Without(outpoint, deletes), Without(batch, deletes))
        /\ balance' = balances
        /\ utxo' = working
        /\ FreshMaps
        /\ UNCHANGED <<working, balances>>

\* The write fails, or the process dies before it: the maps are lost, and
\* the next --sync asks for this block again, or for another one.
Abandon ==
    /\ working' = utxo
    /\ balances' = balance
    /\ FreshMaps
    /\ UNCHANGED <<utxo, dbVars>>

Next == ApplyTx \/ Commit \/ Abandon

Spec == Init /\ [][Next]_vars
-----------------------------------------------------------------------------
(***************************************************************************)
(* Properties                                                              *)
(***************************************************************************)

\* Balances are numbers of satoshi, and no record is kept of an output
\* without value or without an address.
TypeOK ==
    /\ \A a \in Addresses : balance[a] \in Nat /\ balances[a] \in Nat
    /\ \A o \in DOMAIN outpoint : outpoint[o] \in Indexed
    /\ \A o \in DOMAIN created : created[o] \in Indexed
    /\ \A o \in DOMAIN batch : batch[o] \in Indexed \cup {Deleted}

\* The answer of "btk balance": what the unspent outputs of an address are
\* worth together.  No debit is cut off at 0 and none is missed.
BalanceIsUnspent == \A a \in Addresses : balance[a] = Paid(utxo, a)

\* An "O" record is kept exactly for the unspent outputs that count.
OutpointsAreUnspent ==
    outpoint = [o \in {o \in DOMAIN utxo : utxo[o] \in Indexed} |-> utxo[o]]
=============================================================================
