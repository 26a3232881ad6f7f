----------------------------- MODULE InflowLedger -----------------------------
(***************************************************************************)
(* What the inflow index stores and how a block changes it:                *)
(* InflowDb::apply (src/src/chain/inflow_db.cpp) and the answer that       *)
(* cmd/inflow.cpp gives from it.                                           *)
(*                                                                         *)
(* The database has a row for each address that was ever paid.  apply      *)
(* keeps the rows it changes in a map and writes them in one batch; one    *)
(* turn of its loop over the block's transactions is one step here.  The   *)
(* reference is the sequence of the blocks that were applied.  Block times *)
(* are not in order: a block may be older than the one before it.  What    *)
(* BalanceLedger also has carries Inflow in its name here: LedgerProofs    *)
(* extends both.                                                           *)
(***************************************************************************)
EXTENDS Indexer, FiniteSets, FiniteSetsExt

CONSTANTS Times,        \* block times, in seconds; no block is from 1970
          MaxBlocks,    \* bound: blocks applied
          MaxTxs        \* bound: transactions of a block

ASSUME TimesAssumption == Times \subseteq Nat \ {0}
ASSUME BoundAssumption == MaxBlocks \in Nat /\ MaxTxs \in Nat

VARIABLES rows,      \* the "A" records; InflowRow's zeroes where there is none
          current,   \* the rows as this call of apply sees them
          block,     \* [time, txs]: the block, as far as apply has got
          history    \* the blocks that were applied (history)

inflowVars == <<rows, current, block, history>>

InflowRow == [sats : Nat, count : Nat, last : Nat]
NoRow     == [sats |-> 0, count |-> 0, last |-> 0]

NewBlock == [time : Times, txs : {<<>>}]

InflowInit ==
    /\ rows = [a \in Addresses |-> NoRow]
    /\ current = rows
    /\ block \in NewBlock
    /\ history = <<>>
-----------------------------------------------------------------------------
\* The outputs of a transaction that pay an address.
PaysTo(outs, a) == {i \in Credited(outs) : outs[i].to = a}

\* by_addr: all that one transaction pays to an address.
PaidBy(outs, a) == SumFunctionOnSet([i \in DOMAIN outs |-> outs[i].amount], PaysTo(outs, a))

\* Mutant: outputs are counted, not transactions.
RowAfter_PerOutput(row, outs, a, time) ==
    [sats  |-> row.sats + PaidBy(outs, a),
     count |-> row.count + Cardinality(PaysTo(outs, a)),
     last  |-> IF time > row.last THEN time ELSE row.last]

\* The row of an address that the transaction pays.
RowAfter(row, outs, a, time) ==
    [sats  |-> row.sats + PaidBy(outs, a),
     count |-> row.count + 1,
     last  |-> IF time > row.last THEN time ELSE row.last]

InflowApplyTx ==
    /\ Len(block.txs) < MaxTxs /\ Len(history) < MaxBlocks
    /\ \E outs \in OutputLists :
           /\ current' = [a \in Addresses |->
                             IF PaysTo(outs, a) = {} THEN current[a]
                             ELSE RowAfter(current[a], outs, a, block.time)]
           /\ block' = [block EXCEPT !.txs = Append(@, outs)]
    /\ UNCHANGED <<rows, history>>

InflowCommit ==
    /\ Len(history) < MaxBlocks
    /\ rows' = current
    /\ history' = Append(history, block)
    /\ block' \in NewBlock
    /\ UNCHANGED current

\* The write fails, or the process dies before it.
InflowAbandon ==
    /\ current' = rows
    /\ block' \in NewBlock
    /\ UNCHANGED <<rows, history>>

InflowNext == InflowApplyTx \/ InflowCommit \/ InflowAbandon

InflowSpec == InflowInit /\ [][InflowNext]_inflowVars
-----------------------------------------------------------------------------
\* The query with --since, for the time that it reaches back to: an address
\* that was not paid since then is reported with nothing.
Answer(a, cutoff) ==
    IF rows[a].last # 0 /\ rows[a].last < cutoff THEN [rows[a] EXCEPT !.sats = 0, !.count = 0]
    ELSE rows[a]
-----------------------------------------------------------------------------
(***************************************************************************)
(* Properties                                                              *)
(***************************************************************************)

\* The values the state may take; a row counts something if and only if it
\* has an amount and a time.
InflowTypeOK ==
    /\ rows \in [Addresses -> InflowRow] /\ current \in [Addresses -> InflowRow]
    /\ block.time \in Times /\ Len(block.txs) <= MaxTxs
    /\ \A a \in Addresses : (rows[a].count = 0) = (rows[a] = NoRow)
    /\ \A a \in Addresses : rows[a].count <= rows[a].sats

\* The payments of an address: the transactions of all blocks that pay it,
\* by block and place in it.
Tx(h, p)   == h[p[1]].txs[p[2]]
Time(h, p) == h[p[1]].time
Payments(h, a) ==
    {p \in UNION {{i} \X DOMAIN h[i].txs : i \in DOMAIN h} : PaysTo(Tx(h, p), a) # {}}

\* A row sums up the history: what the address was paid, by how many
\* transactions, and when the latest block that pays it was made, though
\* blocks are not in the order of their times and some were abandoned; and
\* "inflow --since" reports an amount exactly for the addresses that some
\* block made at that time or later pays.
RowsSumUpHistory ==
    \A a \in Addresses :
        LET P == Payments(history, a)
        IN  /\ rows[a].sats = SumFunctionOnSet([p \in P |-> PaidBy(Tx(history, p), a)], P)
            /\ rows[a].count = Cardinality(P)
            /\ P # {} => rows[a].last = Max({Time(history, p) : p \in P})
            /\ \A cutoff \in Times :
                   (Answer(a, cutoff).sats # 0) <=> \E p \in P : Time(history, p) >= cutoff
=============================================================================
