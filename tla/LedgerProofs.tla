---------------------------- MODULE LedgerProofs ----------------------------
(***************************************************************************)
(* Proofs about BalanceLedger and InflowLedger, for every set of           *)
(* addresses, ids, output lists and block times.                           *)
(*                                                                         *)
(* BalanceLedger: what the index will hold after the block so far is what  *)
(* the node's outputs so far ask for: that is said of single outpoints     *)
(* (Pending), so that a debit finds exactly the spent outputs that count,  *)
(* and of sums (balances), so that no debit is more than the balance.      *)
(*                                                                         *)
(* InflowLedger: the rows sum up the blocks that were applied, and the     *)
(* rows that apply has in hand sum up those and the part of the block that *)
(* it has seen: the same statement (Accounts) about two histories.         *)
(***************************************************************************)
EXTENDS BalanceLedger, InflowLedger, DataTheorems

\* Finitely many outputs.
Coins(f) == f \in [DOMAIN f -> Output] /\ IsFiniteSet(DOMAIN f)

\* Those that the index knows.
IndexedPart(f) == [o \in {o \in DOMAIN f : f[o] \in Indexed} |-> f[o]]

\* What the batch puts.
Puts(b) == [o \in {o \in DOMAIN b : b[o] # Deleted} |-> b[o]]

\* An outpoint that the batch deletes is spent, one that it puts is unspent,
\* and any other one has an "O" record if it is unspent and counts.
Pending ==
    /\ \A o \in DOMAIN batch :
           IF batch[o] = Deleted THEN o \notin DOMAIN working
           ELSE o \in DOMAIN working /\ working[o] = batch[o]
    /\ \A o \in (DOMAIN working \cup DOMAIN outpoint) \ DOMAIN batch :
           /\ o \in DOMAIN outpoint <=> o \in DOMAIN working /\ working[o] \in Indexed
           /\ o \in DOMAIN outpoint => outpoint[o] = working[o]

IInv ==
    /\ Coins(utxo) /\ Coins(working)
    /\ OutpointsAreUnspent
    /\ batch \in [DOMAIN batch -> Indexed \cup {Deleted}] /\ created = Puts(batch)
    /\ Pending
    /\ balance = [a \in Addresses |-> Paid(utxo, a)]
    /\ balances = [a \in Addresses |-> Paid(working, a)]
-----------------------------------------------------------------------------
(***************************************************************************)
(* Sums.                                                                   *)
(***************************************************************************)

LEMMA PaidIsNat ==
    ASSUME NEW f, Coins(f), NEW a
    PROVE  /\ Paid(f, a) \in Nat
           /\ IsFiniteSet(PaidIn(f, a)) /\ \A o \in PaidIn(f, a) : Amounts(f)[o] \in Nat
<1>1. IsFiniteSet(PaidIn(f, a))
  BY FS_Subset DEF Coins, PaidIn
<1>2. \A o \in PaidIn(f, a) : Amounts(f)[o] \in Nat
  BY DEF Coins, Amounts, PaidIn, Output
<1>3. Paid(f, a) \in Nat
  BY <1>1, <1>2, SumType DEF Paid
<1> QED BY <1>1, <1>2, <1>3

\* Outputs of no value do not matter.
LEMMA PaidIndexed ==
    ASSUME NEW f, Coins(f), NEW a \in Addresses
    PROVE  Paid(IndexedPart(f), a) = Paid(f, a)
<1> DEFINE P == PaidIn(f, a)
           Q == PaidIn(IndexedPart(f), a)
<1>1. /\ Q = {o \in P : f[o].amount # 0}
      /\ \A o \in Q : Amounts(IndexedPart(f))[o] = Amounts(f)[o]
  BY DEF Coins, PaidIn, Amounts, IndexedPart, Output, Indexed
<1>2. /\ Q \in SUBSET P /\ IsFiniteSet(P) /\ IsFiniteSet(Q) /\ IsFiniteSet(P \ Q)
      /\ \A o \in P : Amounts(f)[o] \in Int
  BY <1>1, PaidIsNat, FS_Subset
<1>3. \A o \in P \ Q : Amounts(f)[o] = 0
  BY <1>1 DEF PaidIn, Amounts
<1> HIDE DEF P, Q
<1>4. SumFunctionOnSet(Amounts(IndexedPart(f)), Q) = SumFunctionOnSet(Amounts(f), Q)
  BY <1>1, <1>2, SumSame
<1>5. SumFunctionOnSet(Amounts(f), P)
        = SumFunctionOnSet(Amounts(f), P \ Q) + SumFunctionOnSet(Amounts(f), Q)
  BY <1>2, SumWithout
<1>6. SumFunctionOnSet(Amounts(f), P \ Q) = 0
  BY <1>2, <1>3, SumZero
<1>7. SumFunctionOnSet(Amounts(f), Q) \in Int
  <2>1. \A o \in Q : Amounts(f)[o] \in Int
    BY <1>2
  <2> QED BY <2>1, <1>2, SumType
<1>8. SumFunctionOnSet(Amounts(IndexedPart(f)), Q) = SumFunctionOnSet(Amounts(f), P)
  BY <1>4, <1>5, <1>6, <1>7
<1> QED BY <1>8 DEF Paid, P, Q

\* Outputs are spent.
LEMMA PaidWithout ==
    ASSUME NEW f, Coins(f), NEW S, NEW a \in Addresses
    PROVE  LET spent == [o \in S \cap DOMAIN f |-> f[o]]
           IN  /\ Coins(spent) /\ Coins(Without(f, S))
               /\ Paid(f, a) = Paid(Without(f, S), a) + Paid(spent, a)
<1> DEFINE spent == [o \in S \cap DOMAIN f |-> f[o]]
           kept  == Without(f, S)
<1>1. Coins(spent) /\ Coins(kept)
  <2>1. IsFiniteSet(S \cap DOMAIN f) /\ IsFiniteSet(DOMAIN f \ S)
    BY FS_Subset DEF Coins
  <2> QED BY <2>1 DEF Coins, Without
<1>2. /\ PaidIn(spent, a) = PaidIn(f, a) \cap S /\ PaidIn(kept, a) = PaidIn(f, a) \ S
      /\ \A o \in PaidIn(spent, a) : Amounts(spent)[o] = Amounts(f)[o]
      /\ \A o \in PaidIn(kept, a) : Amounts(kept)[o] = Amounts(f)[o]
  BY DEF PaidIn, Amounts, Without
<1> HIDE DEF spent, kept
<1>3. Paid(spent, a) = SumFunctionOnSet(Amounts(f), PaidIn(spent, a))
  BY <1>1, <1>2, PaidIsNat, SumSame DEF Paid
<1>4. Paid(kept, a) = SumFunctionOnSet(Amounts(f), PaidIn(kept, a))
  BY <1>1, <1>2, PaidIsNat, SumSame DEF Paid
<1>5. /\ IsFiniteSet(PaidIn(f, a)) /\ PaidIn(spent, a) \in SUBSET PaidIn(f, a)
      /\ \A o \in PaidIn(f, a) : Amounts(f)[o] \in Int
      /\ PaidIn(kept, a) = PaidIn(f, a) \ PaidIn(spent, a)
  BY <1>2, PaidIsNat
<1>6. Paid(f, a) = Paid(kept, a) + Paid(spent, a)
  BY <1>3, <1>4, <1>5, SumWithout DEF Paid
<1> QED BY <1>1, <1>6 DEF spent, kept

\* Outputs are made.
LEMMA PaidWith ==
    ASSUME NEW f, Coins(f), NEW g, Coins(g), DOMAIN f \cap DOMAIN g = {}, NEW a \in Addresses
    PROVE  Coins(With(f, g)) /\ Paid(With(f, g), a) = Paid(f, a) + Paid(g, a)
<1> DEFINE h == With(f, g)
<1>1. Coins(h)
  <2>1. IsFiniteSet(DOMAIN f \cup DOMAIN g)
    BY FS_Union DEF Coins
  <2> QED BY <2>1 DEF Coins, With
<1>2. /\ PaidIn(h, a) = PaidIn(f, a) \cup PaidIn(g, a) /\ PaidIn(f, a) \cap PaidIn(g, a) = {}
      /\ \A o \in PaidIn(f, a) : Amounts(f)[o] = Amounts(h)[o]
      /\ \A o \in PaidIn(g, a) : Amounts(g)[o] = Amounts(h)[o]
  BY DEF PaidIn, Amounts, With
<1> HIDE DEF h
<1>3. Paid(f, a) = SumFunctionOnSet(Amounts(h), PaidIn(f, a))
  BY <1>1, <1>2, PaidIsNat, SumSame DEF Paid
<1>4. Paid(g, a) = SumFunctionOnSet(Amounts(h), PaidIn(g, a))
  BY <1>1, <1>2, PaidIsNat, SumSame DEF Paid
<1>5. /\ IsFiniteSet(PaidIn(f, a)) /\ IsFiniteSet(PaidIn(g, a))
      /\ \A o \in PaidIn(f, a) \cup PaidIn(g, a) : Amounts(h)[o] \in Int
  BY <1>1, <1>2, PaidIsNat
<1>6. Paid(h, a) = Paid(f, a) + Paid(g, a)
  BY <1>2, <1>3, <1>4, <1>5, SumUnion DEF Paid
<1> QED BY <1>1, <1>6 DEF h
-----------------------------------------------------------------------------
(***************************************************************************)
(* A transaction.                                                          *)
(***************************************************************************)

\* Its outputs are finitely many and are new.
LEMMA NewOutputs ==
    ASSUME NEW tx \in Transactions
    PROVE  /\ Coins(Outputs(tx)) /\ Credits(tx) = IndexedPart(Outputs(tx))
           /\ \A o \in DOMAIN Outputs(tx) :
                  o \notin DOMAIN working /\ o \notin DOMAIN utxo /\ o \notin DOMAIN batch
<1>1. tx.outs \in Seq(Output) /\ Unused(tx.id)
  BY OutputsAssumption DEF Transactions
<1> DEFINE f == [v \in 1 .. Len(tx.outs) |-> <<tx.id, v>>]
<1>2. DOMAIN tx.outs = 1 .. Len(tx.outs) /\ Len(tx.outs) \in Nat
  BY <1>1
<1>3. IsFiniteSet(DOMAIN Outputs(tx))
  <2>1. IsFiniteSet(1 .. Len(tx.outs))
    <3>1. 1 \in Int /\ Len(tx.outs) \in Int
      BY <1>2
    <3> QED BY <3>1, FS_Interval
  <2>2. f \in Surjection(1 .. Len(tx.outs), DOMAIN Outputs(tx))
    BY <1>2 DEF Surjection, Outputs
  <2> HIDE DEF f
  <2> QED BY <2>1, <2>2, FS_Surjection
<1>4. \A o \in DOMAIN Outputs(tx) : o[1] = tx.id /\ Outputs(tx)[o] \in Output
  BY <1>1, <1>2 DEF Outputs
<1>5. Outputs(tx) \in [DOMAIN Outputs(tx) -> Output]
  BY <1>4 DEF Outputs
<1>6. \A o \in DOMAIN Outputs(tx) :
          o \notin DOMAIN working /\ o \notin DOMAIN utxo /\ o \notin DOMAIN batch
  BY <1>1, <1>4 DEF Unused
<1>7. Credits(tx) = IndexedPart(Outputs(tx))
  <2>1. /\ DOMAIN Credits(tx) = {o \in DOMAIN Outputs(tx) : Outputs(tx)[o] \in Indexed}
        /\ \A o \in DOMAIN Credits(tx) : Credits(tx)[o] = Outputs(tx)[o]
    BY DEF Credits, Credited, Outputs
  <2>2. Credits(tx) = [o \in DOMAIN Credits(tx) |-> Credits(tx)[o]]
    BY DEF Credits
  <2> QED BY <2>1, <2>2 DEF IndexedPart
<1> QED BY <1>3, <1>5, <1>6, <1>7 DEF Coins

\* It spends unspent outputs, and the debits are those of them that count.
LEMMA SpentOutputs ==
    ASSUME IInv, NEW tx \in Transactions
    PROVE  /\ tx.spends \in SUBSET DOMAIN working
           /\ Debits(tx) = IndexedPart([o \in tx.spends \cap DOMAIN working |-> working[o]])
<1>1. tx.spends \in SUBSET DOMAIN working
  BY DEF Transactions, kSubset
<1>2. ASSUME NEW o \in tx.spends
      PROVE  /\ o \in DOMAIN created \cup DOMAIN outpoint <=> working[o] \in Indexed
             /\ o \in DOMAIN created => created[o] = working[o]
             /\ o \in DOMAIN outpoint /\ o \notin DOMAIN created => outpoint[o] = working[o]
  <2>1. o \in DOMAIN working
    BY <1>1
  <2>2. CASE o \in DOMAIN batch
    BY <2>1, <2>2 DEF IInv, Pending, Puts
  <2>3. CASE o \notin DOMAIN batch
    BY <2>1, <2>3 DEF IInv, Pending, Puts
  <2> QED BY <2>2, <2>3
<1> QED BY <1>1, <1>2 DEF Debits, IndexedPart
-----------------------------------------------------------------------------
(***************************************************************************)
(* The inductive invariant.                                                *)
(***************************************************************************)

LEMMA InitIInv == Init => IInv
<1> SUFFICES ASSUME Init PROVE IInv
  OBVIOUS
<1>1. DOMAIN Empty = {} /\ IsFiniteSet({})
  BY FS_EmptySet DEF Empty
<1>2. Coins(Empty) /\ Empty = IndexedPart(Empty) /\ Empty = Puts(Empty)
  BY <1>1 DEF Coins, Empty, IndexedPart, Puts
<1>3. ASSUME NEW a \in Addresses PROVE Paid(Empty, a) = 0
  <2>1. PaidIn(Empty, a) = {}
    BY <1>1 DEF PaidIn
  <2> QED BY <2>1, SumEmpty DEF Paid
<1>4. OutpointsAreUnspent
  BY <1>2 DEF Init, OutpointsAreUnspent, IndexedPart
<1>5. Pending
  BY <1>1 DEF Init, Pending
<1>6. batch \in [DOMAIN batch -> Indexed \cup {Deleted}]
  BY DEF Init, Empty
<1> QED BY <1>2, <1>3, <1>4, <1>5, <1>6 DEF Init, IInv

LEMMA ApplyTxPending ==
    ASSUME IInv, NEW tx \in Transactions,
           working' = With(Without(working, tx.spends), Outputs(tx)),
           created' = With(Without(created, DOMAIN Debits(tx)), Credits(tx)),
           batch' = Queue(batch, Debits(tx), Credits(tx)),
           outpoint' = outpoint
    PROVE  /\ Pending'
           /\ batch' \in [DOMAIN batch' -> Indexed \cup {Deleted}] /\ created' = Puts(batch')
<1> DEFINE new == Outputs(tx)
<1>n. /\ Coins(new) /\ Credits(tx) = IndexedPart(new)
      /\ \A o \in DOMAIN new : o \notin DOMAIN working /\ o \notin DOMAIN utxo
                                 /\ o \notin DOMAIN batch
  BY NewOutputs
<1>d. /\ tx.spends \in SUBSET DOMAIN working
      /\ DOMAIN Debits(tx) = {o \in tx.spends : working[o] \in Indexed}
  BY SpentOutputs DEF IndexedPart
<1>u. \A o \in DOMAIN new : o \notin DOMAIN outpoint
  BY <1>n DEF IInv, OutpointsAreUnspent
<1>b. batch \in [DOMAIN batch -> Indexed \cup {Deleted}] /\ created = Puts(batch) /\ Pending
  BY DEF IInv
<1>x. Deleted \notin Indexed
  BY DeletedAssumption DEF Indexed, Output
<1> DEFINE debits == DOMAIN Debits(tx)
           credits == IndexedPart(new)
<1>1. /\ DOMAIN batch' = DOMAIN batch \cup debits \cup DOMAIN credits
      /\ \A o \in DOMAIN batch' :
             batch'[o] = IF o \in DOMAIN credits THEN credits[o]
                         ELSE IF o \in debits THEN Deleted ELSE batch[o]
      /\ batch' = [o \in DOMAIN batch' |-> batch'[o]]
  BY <1>n DEF Queue, With
<1>2. /\ DOMAIN credits = {o \in DOMAIN new : new[o] \in Indexed}
      /\ \A o \in DOMAIN credits : credits[o] = new[o]
  BY DEF IndexedPart
<1>3. /\ DOMAIN working' = (DOMAIN working \ tx.spends) \cup DOMAIN new
      /\ \A o \in DOMAIN working' : working'[o] = IF o \in DOMAIN new THEN new[o] ELSE working[o]
  BY DEF With, Without
<1>4. created' = With(Without(created, debits), credits)
  BY <1>n
<1> HIDE DEF new, credits, debits
<1>5. batch' \in [DOMAIN batch' -> Indexed \cup {Deleted}]
  BY <1>1, <1>2, <1>b
<1>6. created' = Puts(batch')
  <2>1. /\ DOMAIN created = {o \in DOMAIN batch : batch[o] # Deleted}
        /\ \A o \in DOMAIN created : created[o] = batch[o]
    BY <1>b DEF Puts
  <2>2. /\ DOMAIN created' = (DOMAIN created \ debits) \cup DOMAIN credits
        /\ \A o \in DOMAIN created' :
               created'[o] = IF o \in DOMAIN credits THEN credits[o] ELSE created[o]
        /\ created' = [o \in DOMAIN created' |-> created'[o]]
    BY <1>4 DEF With, Without
  <2>3. \A o \in DOMAIN credits : credits[o] # Deleted
    BY <1>2, <1>x
  <2>4. DOMAIN created' = {o \in DOMAIN batch' : batch'[o] # Deleted}
    BY <2>1, <2>2, <2>3, <1>1
  <2>5. \A o \in DOMAIN created' : created'[o] = batch'[o]
    BY <2>1, <2>2, <2>3, <2>4, <1>1
  <2> QED BY <2>2, <2>4, <2>5 DEF Puts
<1>7. ASSUME NEW o \in DOMAIN batch'
      PROVE  IF batch'[o] = Deleted THEN o \notin DOMAIN working'
             ELSE o \in DOMAIN working' /\ working'[o] = batch'[o]
  <2>1. CASE o \in DOMAIN credits
    BY <2>1, <1>1, <1>2, <1>3, <1>x
  <2>2. CASE o \notin DOMAIN credits /\ o \in debits
    BY <2>2, <1>1, <1>2, <1>3, <1>d, <1>n DEF debits, new
  <2>3. CASE o \notin DOMAIN credits /\ o \notin debits
    <3>1. o \in DOMAIN batch /\ batch'[o] = batch[o] /\ o \notin DOMAIN new
      BY <2>3, <1>1, <1>n DEF new
    <3>2. CASE batch[o] = Deleted
      BY <3>1, <3>2, <1>3, <1>b DEF Pending
    <3>3. CASE batch[o] # Deleted
      <4>1. o \in DOMAIN working /\ working[o] = batch[o] /\ working[o] \in Indexed
        BY <3>1, <3>3, <1>b DEF Pending
      <4>2. o \notin tx.spends
        BY <4>1, <2>3, <1>d DEF debits
      <4> QED BY <4>1, <4>2, <3>1, <3>3, <1>3
    <3> QED BY <3>2, <3>3
  <2> QED BY <2>1, <2>2, <2>3
<1>8. ASSUME NEW o \in (DOMAIN working' \cup DOMAIN outpoint') \ DOMAIN batch'
      PROVE  /\ o \in DOMAIN outpoint' <=> o \in DOMAIN working' /\ working'[o] \in Indexed
             /\ o \in DOMAIN outpoint' => outpoint'[o] = working'[o]
  <2>1. o \notin DOMAIN batch /\ o \notin debits /\ o \notin DOMAIN credits
    BY <1>1
  <2>2. CASE o \in DOMAIN new
    BY <2>1, <2>2, <1>2, <1>3, <1>u DEF new
  <2>3. CASE o \notin DOMAIN new
    <3>1. CASE o \in tx.spends
      BY <3>1, <2>1, <2>3, <1>3, <1>d, <1>b DEF debits, Pending
    <3>2. CASE o \notin tx.spends
      BY <3>2, <2>1, <2>3, <1>3, <1>b DEF Pending
    <3> QED BY <3>1, <3>2
  <2> QED BY <2>2, <2>3
<1> QED BY <1>5, <1>6, <1>7, <1>8 DEF Pending

LEMMA ApplyTxSums ==
    ASSUME IInv, NEW tx \in Transactions,
           working' = With(Without(working, tx.spends), Outputs(tx)),
           balances' = [a \in Addresses |->
                            Minus(balances[a], Paid(Debits(tx), a)) + Paid(Credits(tx), a)]
    PROVE  Coins(working') /\ balances' = [a \in Addresses |-> Paid(working', a)]
<1> DEFINE kept  == Without(working, tx.spends)
           spent == [o \in tx.spends \cap DOMAIN working |-> working[o]]
           new   == Outputs(tx)
<1>1. /\ Coins(working) /\ Coins(new) /\ DOMAIN kept \cap DOMAIN new = {}
      /\ Debits(tx) = IndexedPart(spent) /\ Credits(tx) = IndexedPart(new)
  BY NewOutputs, SpentOutputs DEF IInv, Without
<1>2. ASSUME NEW a \in Addresses
      PROVE  /\ Coins(spent) /\ Coins(kept)
             /\ Paid(working, a) = Paid(kept, a) + Paid(spent, a)
  BY <1>1, PaidWithout
<1> HIDE DEF kept, new, spent
<1>3. Coins(kept)
  BY <1>1, FS_Subset DEF Coins, kept, Without
<1>4. Coins(With(kept, new))
  BY <1>1, <1>3, FS_Union DEF Coins, With
<1>5. ASSUME NEW a \in Addresses
      PROVE  balances'[a] = Paid(With(kept, new), a)
  <2>1. Paid(With(kept, new), a) = Paid(kept, a) + Paid(new, a)
    BY <1>1, <1>3, PaidWith
  <2>2. Paid(Debits(tx), a) = Paid(spent, a) /\ Paid(Credits(tx), a) = Paid(new, a)
    BY <1>1, <1>2, PaidIndexed
  <2>3. Paid(kept, a) \in Nat /\ Paid(spent, a) \in Nat /\ Paid(new, a) \in Nat
    BY <1>1, <1>2, PaidIsNat
  <2>4. balances[a] = Paid(kept, a) + Paid(spent, a)
    BY <1>2 DEF IInv
  <2>5. Minus(balances[a], Paid(Debits(tx), a)) = Paid(kept, a)
    BY <2>2, <2>3, <2>4 DEF Minus
  <2> QED BY <2>1, <2>2, <2>5
<1> QED BY <1>4, <1>5 DEF kept, new

LEMMA ApplyTxStep == IInv /\ ApplyTx => IInv'
<1> SUFFICES ASSUME IInv, ApplyTx PROVE IInv'
  OBVIOUS
<1>1. PICK tx \in Transactions :
        /\ working' = With(Without(working, tx.spends), Outputs(tx))
        /\ balances' = [a \in Addresses |->
                            Minus(balances[a], Paid(Debits(tx), a)) + Paid(Credits(tx), a)]
        /\ created' = With(Without(created, DOMAIN Debits(tx)), Credits(tx))
        /\ batch' = Queue(batch, Debits(tx), Credits(tx))
        /\ UNCHANGED <<utxo, dbVars>>
  BY DEF ApplyTx
<1>2. UNCHANGED <<utxo, balance, outpoint>>
  BY <1>1 DEF dbVars
<1>3. /\ Pending'
      /\ batch' \in [DOMAIN batch' -> Indexed \cup {Deleted}] /\ created' = Puts(batch')
  BY <1>1, <1>2, ApplyTxPending
<1>4. Coins(working') /\ balances' = [a \in Addresses |-> Paid(working', a)]
  BY <1>1, ApplyTxSums
<1> QED BY <1>2, <1>3, <1>4 DEF IInv, OutpointsAreUnspent

\* The batch turns the "O" records of the last block into those of this one.
LEMMA CommitStep == IInv /\ Commit => IInv'
<1> SUFFICES ASSUME IInv, Commit PROVE IInv'
  OBVIOUS
<1> DEFINE deletes == {o \in DOMAIN batch : batch[o] = Deleted}
<1>1. /\ outpoint' = With(Without(outpoint, deletes), Without(batch, deletes))
      /\ balance' = balances /\ utxo' = working /\ created' = Empty /\ batch' = Empty
      /\ UNCHANGED <<working, balances>>
  BY DEF Commit, FreshMaps
<1>2. DOMAIN outpoint' = {o \in DOMAIN working : working[o] \in Indexed}
  BY <1>1 DEF IInv, Pending, With, Without
<1>3. \A o \in DOMAIN outpoint' : outpoint'[o] = working[o]
  BY <1>1 DEF IInv, Pending, With, Without
<1>4. outpoint' = [o \in DOMAIN outpoint' |-> outpoint'[o]]
  BY <1>1 DEF With
<1>5. outpoint' = IndexedPart(working)
  BY <1>2, <1>3, <1>4 DEF IndexedPart
<1>6. /\ DOMAIN batch' = {} /\ batch' \in [DOMAIN batch' -> Indexed \cup {Deleted}]
      /\ created' = Puts(batch')
  BY <1>1 DEF Empty, Puts
<1>7. Pending'
  BY <1>1, <1>2, <1>3, <1>6 DEF Pending
<1> QED BY <1>1, <1>5, <1>6, <1>7 DEF IInv, OutpointsAreUnspent, IndexedPart

LEMMA AbandonStep == IInv /\ Abandon => IInv'
<1> SUFFICES ASSUME IInv, Abandon PROVE IInv'
  OBVIOUS
<1>1. /\ working' = utxo /\ balances' = balance /\ created' = Empty /\ batch' = Empty
      /\ UNCHANGED <<utxo, balance, outpoint>>
  BY DEF Abandon, FreshMaps, dbVars
<1>2. /\ DOMAIN batch' = {} /\ batch' \in [DOMAIN batch' -> Indexed \cup {Deleted}]
      /\ created' = Puts(batch')
  BY <1>1 DEF Empty, Puts
<1>3. Pending'
  BY <1>1, <1>2 DEF Pending, IInv, OutpointsAreUnspent
<1> QED BY <1>1, <1>2, <1>3 DEF IInv, OutpointsAreUnspent

LEMMA StepIInv == IInv /\ [Next]_vars => IInv'
<1> SUFFICES ASSUME IInv, [Next]_vars PROVE IInv'
  OBVIOUS
<1>1. CASE UNCHANGED vars
  BY <1>1 DEF vars, dbVars, loopVars, IInv, OutpointsAreUnspent, Pending
<1> QED BY <1>1, ApplyTxStep, CommitStep, AbandonStep DEF Next

LEMMA Inductive == Spec => []IInv
<1> QED BY InitIInv, StepIInv, PTL DEF Spec
-----------------------------------------------------------------------------
(***************************************************************************)
(* What follows.                                                           *)
(***************************************************************************)

\* The state has the types that the records of the database have: no balance
\* is negative, and no record is kept of an output without value or address.
THEOREM TypeCorrect == Spec => []TypeOK
<1>1. IInv => TypeOK
  <2> SUFFICES ASSUME IInv PROVE TypeOK
    OBVIOUS
  <2>1. \A a \in Addresses : balance[a] \in Nat /\ balances[a] \in Nat
    BY PaidIsNat DEF IInv
  <2>2. \A o \in DOMAIN outpoint : outpoint[o] \in Indexed
    BY DEF IInv, OutpointsAreUnspent
  <2>3. \A o \in DOMAIN batch : batch[o] \in Indexed \cup {Deleted}
    BY DEF IInv
  <2>4. \A o \in DOMAIN created : created[o] \in Indexed
    BY <2>3 DEF IInv, Puts
  <2> QED BY <2>1, <2>2, <2>3, <2>4 DEF TypeOK
<1> QED BY <1>1, Inductive, PTL

\* After every block the answer of "btk balance" is what the unspent outputs
\* of the address are worth together, whatever was spent in the block that
\* made it, whatever was abandoned, and though debits stop at 0.
THEOREM Balances == Spec => []BalanceIsUnspent
<1>1. IInv => BalanceIsUnspent
  BY DEF IInv, BalanceIsUnspent
<1> QED BY <1>1, Inductive, PTL

\* The index has a record of exactly those unspent outputs that have a value
\* and an address.
THEOREM Outpoints == Spec => []OutpointsAreUnspent
<1>1. IInv => OutpointsAreUnspent
  BY DEF IInv
<1> QED BY <1>1, Inductive, PTL
-----------------------------------------------------------------------------
(***************************************************************************)
(* The inflow index, of the same addresses and output lists.               *)
(***************************************************************************)
Block == [time : Times, txs : Seq(OutputLists)]

\* What each payment is worth, for sums.
Worth(h, a) == [p \in Payments(h, a) |-> PaidBy(Tx(h, p), a)]

\* The row r of an address sums up the history h.
SumsUpFor(r, h, a) ==
    /\ IsFiniteSet(Payments(h, a))
    /\ \A p \in Payments(h, a) : PaidBy(Tx(h, p), a) \in Nat \ {0}
    /\ r.sats = SumFunctionOnSet(Worth(h, a), Payments(h, a))
    /\ r.count = Cardinality(Payments(h, a))
    /\ r.count <= r.sats
    /\ \A p \in Payments(h, a) : Time(h, p) <= r.last
    /\ IF Payments(h, a) = {} THEN r.last = 0
       ELSE \E p \in Payments(h, a) : Time(h, p) = r.last

Accounts(rs, h) ==
    /\ rs \in [Addresses -> InflowRow]
    /\ \A a \in Addresses : SumsUpFor(rs[a], h, a)

InflowIInv ==
    /\ history \in Seq(Block)
    /\ block \in Block /\ Len(block.txs) <= MaxTxs
    /\ Accounts(rows, history)
    /\ Accounts(current, Append(history, block))
-----------------------------------------------------------------------------
(***************************************************************************)
(* What a transaction pays.                                                *)
(***************************************************************************)

LEMMA PaidByPositive ==
    ASSUME NEW outs \in OutputLists, NEW a \in Addresses, PaysTo(outs, a) # {}
    PROVE  PaidBy(outs, a) \in Nat \ {0}
<1> DEFINE w == [i \in DOMAIN outs |-> outs[i].amount]
           C == PaysTo(outs, a)
<1>1. outs \in Seq(Output) /\ DOMAIN outs = 1 .. Len(outs) /\ Len(outs) \in Nat
  BY OutputsAssumption
<1>2. IsFiniteSet(C)
  <2>1. 1 \in Int /\ Len(outs) \in Int
    BY <1>1
  <2>2. IsFiniteSet(1 .. Len(outs))
    BY <2>1, FS_Interval
  <2>3. C \in SUBSET (1 .. Len(outs))
    BY <1>1 DEF PaysTo, Credited
  <2> QED BY <2>2, <2>3, FS_Subset
<1>3. \A i \in C : w[i] \in Nat \ {0}
  <2>1. \A i \in C : outs[i] \in Output /\ outs[i].amount # 0 /\ w[i] = outs[i].amount
    BY <1>1 DEF PaysTo, Credited, Indexed, Output
  <2> QED BY <2>1 DEF Output
<1>4. PICK e : e \in C
  OBVIOUS
<1>5. PaidBy(outs, a) = SumFunctionOnSet(w, C)
  BY DEF PaidBy
<1> HIDE DEF w, C
<1>6. SumFunctionOnSet(w, C) = w[e] + SumFunctionOnSet(w, C \ {e})
  <2>1. \A i \in C : w[i] \in Int
    BY <1>3
  <2> QED BY <2>1, <1>2, <1>4, SumRemove
<1>7. SumFunctionOnSet(w, C \ {e}) \in Nat
  <2>1. IsFiniteSet(C \ {e}) /\ \A i \in C \ {e} : w[i] \in Nat
    BY <1>2, <1>3, FS_Subset
  <2> QED BY <2>1, SumType
<1>8. w[e] \in Nat \ {0}
  BY <1>3, <1>4
<1>9. w[e] + SumFunctionOnSet(w, C \ {e}) \in Nat \ {0}
  BY <1>7, <1>8
<1> QED BY <1>5, <1>6, <1>9
-----------------------------------------------------------------------------
(***************************************************************************)
(* Payments.                                                               *)
(***************************************************************************)

LEMMA PaymentsAre ==
    ASSUME NEW h, NEW a
    PROVE  \A p : p \in Payments(h, a) <=>
               \E i \in DOMAIN h : \E j \in DOMAIN h[i].txs :
                   p = <<i, j>> /\ PaysTo(h[i].txs[j], a) # {}
BY DEF Payments, Tx

\* A block without transactions pays nobody.
LEMMA EmptyBlock ==
    ASSUME NEW h \in Seq(Block), NEW b \in Block, b.txs = <<>>, NEW r, NEW a,
           SumsUpFor(r, h, a)
    PROVE  SumsUpFor(r, Append(h, b), a)
<1> DEFINE g == Append(h, b)
           P == Payments(h, a)
<1>1. /\ DOMAIN g = DOMAIN h \cup {Len(h) + 1}
      /\ \A i \in DOMAIN h : g[i] = h[i] /\ g[Len(h) + 1] = b
  OBVIOUS
<1>2. g[Len(h) + 1] = b
  OBVIOUS
<1>3. DOMAIN b.txs = {}
  OBVIOUS
<1> HIDE DEF g
<1>4. Payments(g, a) = P
  <2>1. ASSUME NEW p \in Payments(g, a) PROVE p \in P
    <3>1. PICK i, j : /\ i \in DOMAIN g /\ j \in DOMAIN g[i].txs
                    /\ p = <<i, j>> /\ PaysTo(g[i].txs[j], a) # {}
      BY PaymentsAre
    <3>2. i \in DOMAIN h /\ g[i] = h[i]
      BY <3>1, <1>1, <1>2, <1>3
    <3> QED BY <3>1, <3>2, PaymentsAre
  <2>2. ASSUME NEW p \in P PROVE p \in Payments(g, a)
    <3>1. PICK i, j : /\ i \in DOMAIN h /\ j \in DOMAIN h[i].txs
                    /\ p = <<i, j>> /\ PaysTo(h[i].txs[j], a) # {}
      BY PaymentsAre
    <3>2. i \in DOMAIN g /\ g[i] = h[i]
      BY <3>1, <1>1
    <3> QED BY <3>1, <3>2, PaymentsAre
  <2> QED BY <2>1, <2>2
<1>5. \A p \in P : Tx(g, p) = Tx(h, p) /\ Time(g, p) = Time(h, p)
  BY <1>1, PaymentsAre DEF Tx, Time
<1>6. Worth(g, a) = Worth(h, a)
  BY <1>4, <1>5 DEF Worth
<1> HIDE DEF P
<1>7. SumsUpFor(r, g, a)
  BY <1>4, <1>5, <1>6 DEF SumsUpFor, P
<1> QED BY <1>7 DEF g

\* A transaction that pays the address nothing.
LEMMA NoPayment ==
    ASSUME NEW h \in Seq(Block), NEW b \in Block, NEW outs \in OutputLists, NEW a,
           PaysTo(outs, a) = {}, NEW r, SumsUpFor(r, Append(h, b), a)
    PROVE  SumsUpFor(r, Append(h, [b EXCEPT !.txs = Append(@, outs)]), a)
<1> DEFINE f == Append(h, b)
           c == [b EXCEPT !.txs = Append(@, outs)]
           g == Append(h, c)
           n == Len(h) + 1
           m == Len(b.txs) + 1
<1>0. b.txs \in Seq(OutputLists) /\ c.txs = Append(b.txs, outs) /\ c.time = b.time
  BY DEF Block
<1>1. /\ DOMAIN g = DOMAIN f /\ \A i \in DOMAIN f : i # n => g[i] = f[i]
      /\ n \in DOMAIN f /\ f[n] = b /\ g[n] = c
  OBVIOUS
<1>2. /\ DOMAIN c.txs = DOMAIN b.txs \cup {m} /\ \A j \in DOMAIN b.txs : c.txs[j] = b.txs[j]
      /\ c.txs[m] = outs
  BY <1>0
<1> HIDE DEF f, g, c, n, m
<1>3. Payments(g, a) = Payments(f, a)
  <2>1. ASSUME NEW p \in Payments(g, a) PROVE p \in Payments(f, a)
    <3>1. PICK i, j : /\ i \in DOMAIN g /\ j \in DOMAIN g[i].txs
                    /\ p = <<i, j>> /\ PaysTo(g[i].txs[j], a) # {}
      BY PaymentsAre
    <3>2. i \in DOMAIN f /\ j \in DOMAIN f[i].txs /\ g[i].txs[j] = f[i].txs[j]
      BY <3>1, <1>1, <1>2
    <3> QED BY <3>1, <3>2, PaymentsAre
  <2>2. ASSUME NEW p \in Payments(f, a) PROVE p \in Payments(g, a)
    <3>1. PICK i, j : /\ i \in DOMAIN f /\ j \in DOMAIN f[i].txs
                    /\ p = <<i, j>> /\ PaysTo(f[i].txs[j], a) # {}
      BY PaymentsAre
    <3>2. i \in DOMAIN g /\ j \in DOMAIN g[i].txs /\ g[i].txs[j] = f[i].txs[j]
      BY <3>1, <1>1, <1>2
    <3> QED BY <3>1, <3>2, PaymentsAre
  <2> QED BY <2>1, <2>2
<1>4. ASSUME NEW p \in Payments(f, a) PROVE Tx(g, p) = Tx(f, p) /\ Time(g, p) = Time(f, p)
  <2>1. PICK i, j : i \in DOMAIN f /\ j \in DOMAIN f[i].txs /\ p = <<i, j>>
    BY PaymentsAre
  <2> QED BY <2>1, <1>0, <1>1, <1>2 DEF Tx, Time
<1>5. Worth(g, a) = Worth(f, a)
  BY <1>3, <1>4 DEF Worth
<1>6. SumsUpFor(r, f, a)
  BY DEF f
<1>7. SumsUpFor(r, g, a)
  BY <1>3, <1>4, <1>5, <1>6 DEF SumsUpFor
<1> QED BY <1>7 DEF g, c

\* A transaction that pays the address: one payment more.
LEMMA OnePayment ==
    ASSUME NEW h \in Seq(Block), NEW b \in Block, NEW outs \in OutputLists,
           NEW a \in Addresses, PaysTo(outs, a) # {},
           NEW r \in InflowRow, SumsUpFor(r, Append(h, b), a)
    PROVE  SumsUpFor(RowAfter(r, outs, a, b.time),
                     Append(h, [b EXCEPT !.txs = Append(@, outs)]), a)
<1> DEFINE f == Append(h, b)
           c == [b EXCEPT !.txs = Append(@, outs)]
           g == Append(h, c)
           n == Len(h) + 1
           m == Len(b.txs) + 1
           new == <<n, m>>
           P == Payments(f, a)
           s == RowAfter(r, outs, a, b.time)
<1>0. b.txs \in Seq(OutputLists) /\ c.txs = Append(b.txs, outs) /\ c.time = b.time
  BY DEF Block
<1>1. /\ DOMAIN g = DOMAIN f /\ \A i \in DOMAIN f : i # n => g[i] = f[i]
      /\ n \in DOMAIN f /\ f[n] = b /\ g[n] = c
  OBVIOUS
<1>2. /\ DOMAIN c.txs = DOMAIN b.txs \cup {m} /\ \A j \in DOMAIN b.txs : c.txs[j] = b.txs[j]
      /\ c.txs[m] = outs /\ m \notin DOMAIN b.txs
  BY <1>0
<1> HIDE DEF f, g, c, n, m, P, s
<1>3. Payments(g, a) = P \cup {new}
  <2>1. ASSUME NEW p \in Payments(g, a), p # new PROVE p \in P
    <3>1. PICK i, j : /\ i \in DOMAIN g /\ j \in DOMAIN g[i].txs
                    /\ p = <<i, j>> /\ PaysTo(g[i].txs[j], a) # {}
      BY PaymentsAre
    <3>2. i \in DOMAIN f /\ j \in DOMAIN f[i].txs /\ g[i].txs[j] = f[i].txs[j]
      BY <2>1, <3>1, <1>1, <1>2
    <3> QED BY <3>1, <3>2, PaymentsAre DEF P
  <2>2. ASSUME NEW p \in P PROVE p \in Payments(g, a)
    <3>1. PICK i, j : /\ i \in DOMAIN f /\ j \in DOMAIN f[i].txs
                    /\ p = <<i, j>> /\ PaysTo(f[i].txs[j], a) # {}
      BY PaymentsAre DEF P
    <3>2. i \in DOMAIN g /\ j \in DOMAIN g[i].txs /\ g[i].txs[j] = f[i].txs[j]
      BY <3>1, <1>1, <1>2
    <3> QED BY <3>1, <3>2, PaymentsAre
  <2>3. new \in Payments(g, a)
    BY <1>1, <1>2, PaymentsAre
  <2> QED BY <2>1, <2>2, <2>3
<1>4. new \notin P
  BY <1>1, <1>2, PaymentsAre DEF P
<1>5. ASSUME NEW p \in P PROVE Tx(g, p) = Tx(f, p) /\ Time(g, p) = Time(f, p)
  <2>1. PICK i, j : i \in DOMAIN f /\ j \in DOMAIN f[i].txs /\ p = <<i, j>>
    BY PaymentsAre DEF P
  <2> QED BY <2>1, <1>0, <1>1, <1>2 DEF Tx, Time
<1>6. Tx(g, new) = outs /\ Time(g, new) = b.time
  BY <1>0, <1>1, <1>2 DEF Tx, Time
<1> HIDE DEF new
<1>7. SumsUpFor(r, f, a)
  BY DEF f
<1>8. PaidBy(outs, a) \in Nat \ {0}
  BY PaidByPositive
<1>9. /\ IsFiniteSet(P) /\ IsFiniteSet(P \cup {new})
      /\ Cardinality(P) \in Nat /\ Cardinality(P \cup {new}) = Cardinality(P) + 1
  BY <1>4, <1>7, FS_AddElement, FS_CardinalityType DEF SumsUpFor, P
<1>10. \A p \in P \cup {new} : /\ PaidBy(Tx(g, p), a) \in Nat \ {0}
                               /\ Worth(g, a)[p] = PaidBy(Tx(g, p), a)
  BY <1>3, <1>5, <1>6, <1>7, <1>8 DEF SumsUpFor, P, Worth
<1>11. SumFunctionOnSet(Worth(g, a), P \cup {new})
         = SumFunctionOnSet(Worth(f, a), P) + PaidBy(outs, a)
  <2>1. \A p \in P \cup {new} : Worth(g, a)[p] \in Int
    BY <1>10
  <2>2. SumFunctionOnSet(Worth(g, a), P \cup {new})
          = SumFunctionOnSet(Worth(g, a), P) + Worth(g, a)[new]
    <3> DEFINE w == Worth(g, a)
    <3>1. \A p \in P \cup {new} : w[p] \in Int
      BY <2>1
    <3>2. IsFiniteSet(P)
      BY <1>9
    <3> HIDE DEF w
    <3>3. SumFunctionOnSet(w, P \cup {new}) = SumFunctionOnSet(w, P) + w[new]
      BY <3>1, <3>2, <1>4, SumAdd
    <3> QED BY <3>3 DEF w
  <2>3. \A p \in P : Worth(g, a)[p] = Worth(f, a)[p]
    BY <1>5, <1>10 DEF Worth, P
  <2>4. SumFunctionOnSet(Worth(g, a), P) = SumFunctionOnSet(Worth(f, a), P)
    BY <2>3, <1>9, SumSame
  <2>5. Worth(g, a)[new] = PaidBy(outs, a)
    BY <1>6, <1>10
  <2> QED BY <2>2, <2>4, <2>5
<1>12. /\ s.sats = r.sats + PaidBy(outs, a) /\ s.count = r.count + 1
       /\ s.last = IF b.time > r.last THEN b.time ELSE r.last
       /\ r.sats \in Nat /\ r.count \in Nat /\ r.last \in Nat
       /\ b.time \in Nat \ {0}
  BY TimesAssumption DEF s, RowAfter, InflowRow, Block
<1>13. s.count <= s.sats
  <2>1. r.count <= r.sats
    BY <1>7 DEF SumsUpFor
  <2> QED BY <2>1, <1>8, <1>12
<1>14. /\ s.sats = SumFunctionOnSet(Worth(g, a), P \cup {new})
       /\ s.count = Cardinality(P \cup {new})
  BY <1>7, <1>9, <1>11, <1>12 DEF SumsUpFor, P
<1>15. ASSUME NEW p \in P \cup {new} PROVE Time(g, p) <= s.last
  <2>1. CASE p = new
    BY <2>1, <1>6, <1>12
  <2>2. CASE p \in P
    <3>1. Time(f, p) <= r.last /\ Time(f, p) \in Nat
      <4>1. PICK i, j : i \in DOMAIN f /\ j \in DOMAIN f[i].txs /\ p = <<i, j>>
        BY <2>2, PaymentsAre DEF P
      <4>2. f \in Seq(Block)
        BY DEF f
      <4>3. f[i] \in Block
        BY <4>1, <4>2
      <4>4. Time(f, p) \in Nat
        BY <4>1, <4>3, TimesAssumption DEF Time, Block
      <4> QED BY <2>2, <4>4, <1>7 DEF SumsUpFor, P
    <3> QED BY <2>2, <3>1, <1>5, <1>12
  <2> QED BY <2>1, <2>2
<1>16. \E p \in P \cup {new} : Time(g, p) = s.last
  <2>1. CASE b.time > r.last
    BY <2>1, <1>6, <1>12
  <2>2. CASE ~(b.time > r.last)
    <3>1. P # {}
      BY <2>2, <1>7, <1>12 DEF SumsUpFor, P
    <3>2. PICK p \in P : Time(f, p) = r.last
      BY <3>1, <1>7 DEF SumsUpFor, P
    <3> QED BY <2>2, <3>2, <1>5, <1>12
  <2> QED BY <2>1, <2>2
<1>17. SumsUpFor(s, g, a)
  BY <1>3, <1>9, <1>10, <1>13, <1>14, <1>15, <1>16 DEF SumsUpFor
<1> QED BY <1>17 DEF s, g, c
-----------------------------------------------------------------------------
(***************************************************************************)
(* The inductive invariant.                                                *)
(***************************************************************************)

LEMMA NothingPaid ==
    ASSUME NEW a
    PROVE  SumsUpFor(NoRow, <<>>, a)
<1>1. Payments(<<>>, a) = {}
  BY PaymentsAre
<1>2. IsFiniteSet({}) /\ Cardinality({}) = 0
  BY FS_EmptySet
<1>3. SumFunctionOnSet(Worth(<<>>, a), {}) = 0
  BY SumEmpty
<1>4. NoRow.sats = 0 /\ NoRow.count = 0 /\ NoRow.last = 0
  BY DEF NoRow
<1>5. /\ IsFiniteSet(Payments(<<>>, a)) /\ Cardinality(Payments(<<>>, a)) = 0
      /\ SumFunctionOnSet(Worth(<<>>, a), Payments(<<>>, a)) = 0
  BY <1>1, <1>2, <1>3
<1> QED BY <1>1, <1>4, <1>5 DEF SumsUpFor

\* The rows in hand when a block has just begun.
LEMMA FreshBlock ==
    ASSUME NEW h \in Seq(Block), NEW b \in Block, b.txs = <<>>, NEW rs, Accounts(rs, h)
    PROVE  Accounts(rs, Append(h, b))
BY EmptyBlock DEF Accounts

LEMMA NewBlocks ==
    ASSUME NEW b \in NewBlock
    PROVE  b \in Block /\ b.txs = <<>> /\ Len(b.txs) = 0
<1>1. b \in [time : Times, txs : {<<>>}]
  BY DEF NewBlock
<1>2. b = [time |-> b.time, txs |-> b.txs] /\ b.time \in Times /\ b.txs = <<>>
  BY <1>1
<1>3. b.txs \in Seq(OutputLists) /\ Len(b.txs) = 0
  BY <1>2
<1>4. b \in [time : Times, txs : Seq(OutputLists)]
  BY <1>2, <1>3
<1> QED BY <1>2, <1>3, <1>4 DEF Block

LEMMA InflowInitIInv == InflowInit => InflowIInv
<1> SUFFICES ASSUME InflowInit PROVE InflowIInv
  OBVIOUS
<1>1. block \in Block /\ block.txs = <<>> /\ Len(block.txs) <= MaxTxs
  BY NewBlocks, BoundAssumption DEF InflowInit
<1>2. Accounts(rows, <<>>)
  <2>1. rows \in [Addresses -> InflowRow] /\ \A a \in Addresses : rows[a] = NoRow
    BY DEF InflowInit, InflowRow, NoRow
  <2> QED BY <2>1, NothingPaid DEF Accounts
<1>3. <<>> \in Seq(Block)
  OBVIOUS
<1>4. Accounts(rows, Append(<<>>, block))
  BY <1>1, <1>2, <1>3, FreshBlock
<1> QED BY <1>1, <1>2, <1>3, <1>4 DEF InflowIInv, InflowInit

LEMMA InflowApplyTxStep == InflowIInv /\ InflowApplyTx => InflowIInv'
<1> SUFFICES ASSUME InflowIInv, InflowApplyTx PROVE InflowIInv'
  OBVIOUS
<1>1. PICK outs \in OutputLists :
        /\ current' = [a \in Addresses |->
                          IF PaysTo(outs, a) = {} THEN current[a]
                          ELSE RowAfter(current[a], outs, a, block.time)]
        /\ block' = [block EXCEPT !.txs = Append(@, outs)]
  BY DEF InflowApplyTx
<1>2. rows' = rows /\ history' = history /\ Len(block.txs) < MaxTxs
  BY DEF InflowApplyTx
<1>3. history \in Seq(Block) /\ block \in Block /\ current \in [Addresses -> InflowRow]
  BY DEF InflowIInv, Accounts
<1>4. block' \in Block /\ Len(block'.txs) <= MaxTxs
  <2>1. block.txs \in Seq(OutputLists) /\ block'.txs = Append(block.txs, outs)
    BY <1>1, <1>3 DEF Block
  <2>2. Len(block'.txs) = Len(block.txs) + 1 /\ Len(block.txs) \in Nat
    BY <2>1
  <2>3. block' \in Block
    <3>1. block = [time |-> block.time, txs |-> block.txs] /\ block.time \in Times
      BY <1>3 DEF Block
    <3>2. block' = [time |-> block.time, txs |-> block'.txs]
      BY <1>1, <2>1, <3>1
    <3>3. block'.txs \in Seq(OutputLists)
      BY <2>1
    <3> QED BY <3>1, <3>2, <3>3 DEF Block
  <2> QED BY <1>2, <2>2, <2>3, BoundAssumption DEF InflowIInv
<1>5. ASSUME NEW a \in Addresses
      PROVE  current'[a] \in InflowRow /\ SumsUpFor(current'[a], Append(history, block'), a)
  <2>1. current[a] \in InflowRow /\ SumsUpFor(current[a], Append(history, block), a)
    BY <1>3 DEF InflowIInv, Accounts
  <2>2. CASE PaysTo(outs, a) = {}
    <3>1. current'[a] = current[a]
      BY <1>1, <2>2
    <3> QED BY <1>1, <1>3, <2>1, <2>2, <3>1, NoPayment
  <2>3. CASE PaysTo(outs, a) # {}
    <3>1. current'[a] = RowAfter(current[a], outs, a, block.time)
      BY <1>1, <2>3
    <3>2. PaidBy(outs, a) \in Nat
      BY <2>3, PaidByPositive
    <3>3. current'[a] \in InflowRow
      <4>1. /\ current[a].sats \in Nat /\ current[a].count \in Nat /\ current[a].last \in Nat
            /\ block.time \in Nat
        BY <1>3, <2>1, TimesAssumption DEF InflowIInv, InflowRow, Block
      <4>2. /\ current[a].sats + PaidBy(outs, a) \in Nat /\ current[a].count + 1 \in Nat
            /\ (IF block.time > current[a].last THEN block.time ELSE current[a].last) \in Nat
        BY <3>2, <4>1
      <4> QED BY <3>1, <4>2 DEF RowAfter, InflowRow
    <3> QED BY <1>1, <1>3, <2>1, <2>3, <3>1, <3>3, OnePayment DEF InflowIInv
  <2> QED BY <2>2, <2>3
<1>6. current' \in [Addresses -> InflowRow]
  BY <1>1, <1>5
<1> QED BY <1>2, <1>4, <1>5, <1>6 DEF InflowIInv, Accounts

LEMMA InflowCommitStep == InflowIInv /\ InflowCommit => InflowIInv'
<1> SUFFICES ASSUME InflowIInv, InflowCommit PROVE InflowIInv'
  OBVIOUS
<1>1. /\ rows' = current /\ history' = Append(history, block) /\ current' = current
      /\ block' \in NewBlock
  BY DEF InflowCommit
<1>2. history' \in Seq(Block) /\ Accounts(rows', history')
  BY <1>1 DEF InflowIInv
<1>3. block' \in Block /\ block'.txs = <<>> /\ Len(block'.txs) <= MaxTxs
  BY <1>1, NewBlocks, BoundAssumption DEF InflowIInv
<1>4. Accounts(current', Append(history', block'))
  BY <1>1, <1>2, <1>3, FreshBlock
<1> QED BY <1>2, <1>3, <1>4 DEF InflowIInv

LEMMA InflowAbandonStep == InflowIInv /\ InflowAbandon => InflowIInv'
<1> SUFFICES ASSUME InflowIInv, InflowAbandon PROVE InflowIInv'
  OBVIOUS
<1>1. /\ current' = rows /\ UNCHANGED <<rows, history>>
      /\ block' \in NewBlock
  BY DEF InflowAbandon
<1>2. block' \in Block /\ block'.txs = <<>> /\ Len(block'.txs) <= MaxTxs
  BY <1>1, NewBlocks, BoundAssumption DEF InflowIInv
<1>3. history \in Seq(Block) /\ Accounts(rows, history)
  BY DEF InflowIInv
<1>4. Accounts(rows, Append(history, block'))
  BY <1>2, <1>3, FreshBlock
<1> QED BY <1>1, <1>2, <1>3, <1>4 DEF InflowIInv

LEMMA InflowStep == InflowIInv /\ [InflowNext]_inflowVars => InflowIInv'
<1> SUFFICES ASSUME InflowIInv, [InflowNext]_inflowVars PROVE InflowIInv'
  OBVIOUS
<1>1. CASE UNCHANGED inflowVars
  BY <1>1 DEF inflowVars, InflowIInv
<1> QED BY <1>1, InflowApplyTxStep, InflowCommitStep, InflowAbandonStep DEF InflowNext

LEMMA InflowInductive == InflowSpec => []InflowIInv
<1> QED BY InflowInitIInv, InflowStep, PTL DEF InflowSpec
-----------------------------------------------------------------------------
(***************************************************************************)
(* What follows.                                                           *)
(***************************************************************************)

LEMMA MaxIs ==
    ASSUME NEW S \in SUBSET Int, NEW m \in S, \A x \in S : m >= x
    PROVE  Max(S) = m
<1>1. \E x \in S : \A y \in S : x >= y
  OBVIOUS
<1>2. Max(S) \in S /\ \A y \in S : Max(S) >= y
  BY <1>1, Zenon DEF Max
<1>3. m >= Max(S) /\ Max(S) >= m /\ m \in Int /\ Max(S) \in Int
  BY <1>2
<1> QED BY <1>3

\* Whoever was paid has an amount, and nobody else.
LEMMA PaidHaveSats ==
    ASSUME NEW r \in InflowRow, NEW h, NEW a, SumsUpFor(r, h, a)
    PROVE  /\ r.sats # 0 <=> Payments(h, a) # {}
           /\ r.count = 0 <=> r = NoRow
<1>1. r.count = 0 <=> Payments(h, a) = {}
  BY FS_EmptySet DEF SumsUpFor
<1>2. CASE Payments(h, a) = {}
  <2>1. r.sats = 0 /\ r.last = 0 /\ r.count = 0
    BY <1>1, <1>2, SumEmpty DEF SumsUpFor
  <2> QED BY <2>1, <1>2 DEF InflowRow, NoRow
<1>3. CASE Payments(h, a) # {}
  <2>1. r.count # 0 /\ r.count <= r.sats /\ r.count \in Nat /\ r.sats \in Nat
    BY <1>1, <1>3 DEF SumsUpFor, InflowRow
  <2> QED BY <2>1, <1>3 DEF NoRow
<1> QED BY <1>2, <1>3

\* The state has its types; a row is all zeroes or counts something, and the
\* number of payments is at most the number of satoshi.
THEOREM InflowTypes == InflowSpec => []InflowTypeOK
<1>1. InflowIInv => InflowTypeOK
  <2> SUFFICES ASSUME InflowIInv PROVE InflowTypeOK
    OBVIOUS
  <2>1. \A a \in Addresses : (rows[a].count = 0) = (rows[a] = NoRow)
    BY PaidHaveSats DEF InflowIInv, Accounts
  <2>2. \A a \in Addresses : rows[a].count <= rows[a].sats
    BY DEF InflowIInv, Accounts, SumsUpFor
  <2> QED BY <2>1, <2>2 DEF InflowIInv, InflowTypeOK, Accounts, Block
<1> QED BY <1>1, InflowInductive, PTL

\* A row sums up the blocks that were applied, in whatever order their times
\* are, and --since finds exactly the addresses that were paid at that time or
\* later.
THEOREM RowsAreSums == InflowSpec => []RowsSumUpHistory
<1>1. InflowIInv => RowsSumUpHistory
  <2> SUFFICES ASSUME InflowIInv, NEW a \in Addresses
               PROVE  LET P == Payments(history, a)
                      IN  /\ rows[a].sats
                               = SumFunctionOnSet([p \in P |-> PaidBy(Tx(history, p), a)], P)
                          /\ rows[a].count = Cardinality(P)
                          /\ P # {} => rows[a].last = Max({Time(history, p) : p \in P})
                          /\ \A cutoff \in Times :
                                 (Answer(a, cutoff).sats # 0)
                                     <=> \E p \in P : Time(history, p) >= cutoff
    BY DEF RowsSumUpHistory
  <2> DEFINE P == Payments(history, a)
             T == {Time(history, p) : p \in P}
  <2>1. SumsUpFor(rows[a], history, a) /\ rows[a] \in InflowRow /\ history \in Seq(Block)
    BY DEF InflowIInv, Accounts
  <2>2. \A p \in P : Time(history, p) \in Nat \ {0}
    <3> SUFFICES ASSUME NEW p \in P PROVE Time(history, p) \in Nat \ {0}
      OBVIOUS
    <3>1. PICK i, j : i \in DOMAIN history /\ p = <<i, j>>
      BY PaymentsAre
    <3>2. history[i] \in Block
      BY <2>1, <3>1
    <3> QED BY <3>1, <3>2, TimesAssumption DEF InflowIInv, Time, Block
  <2>3. rows[a].last \in Nat /\ rows[a].sats \in Nat
    BY <2>1 DEF InflowRow
  <2>4. \A p \in P : Time(history, p) <= rows[a].last
    BY <2>1 DEF SumsUpFor
  <2>5. P # {} => \E p \in P : Time(history, p) = rows[a].last
    BY <2>1 DEF SumsUpFor
  <2>6. P # {} => rows[a].last = Max(T)
    <3> SUFFICES ASSUME P # {} PROVE rows[a].last = Max(T)
      OBVIOUS
    <3>1. T \in SUBSET Int /\ rows[a].last \in T /\ \A x \in T : rows[a].last >= x
      BY <2>2, <2>3, <2>4, <2>5
    <3> HIDE DEF T
    <3> QED BY <3>1, MaxIs
  <2>7. rows[a].sats # 0 <=> P # {}
    BY <2>1, PaidHaveSats
  <2>8. P = {} => rows[a].last = 0
    BY <2>1 DEF SumsUpFor
  <2>9. ASSUME NEW cutoff \in Times
        PROVE  (Answer(a, cutoff).sats # 0) <=> \E p \in P : Time(history, p) >= cutoff
    <3>1. cutoff \in Nat
      BY TimesAssumption DEF InflowIInv
    <3>2. Answer(a, cutoff).sats
            = IF rows[a].last # 0 /\ rows[a].last < cutoff THEN 0 ELSE rows[a].sats
      BY <2>1 DEF Answer, InflowRow
    <3> HIDE DEF P
    <3>3. CASE P = {}
      BY <3>3, <3>2, <2>7
    <3>4. CASE P # {}
      <4>1. PICK p \in P : Time(history, p) = rows[a].last
        BY <3>4, <2>5
      <4>2. rows[a].last # 0 /\ rows[a].sats # 0
        BY <4>1, <2>2, <2>7
      <4>3. (\E q \in P : Time(history, q) >= cutoff) <=> rows[a].last >= cutoff
        BY <4>1, <2>2, <2>3, <2>4, <3>1
      <4> QED BY <4>2, <4>3, <3>1, <3>2, <2>3
    <3> QED BY <3>3, <3>4
  <2>10. /\ rows[a].sats = SumFunctionOnSet([p \in P |-> PaidBy(Tx(history, p), a)], P)
         /\ rows[a].count = Cardinality(P)
    BY <2>1 DEF SumsUpFor, Worth
  <2> HIDE DEF P, T
  <2> QED BY <2>6, <2>9, <2>10 DEF P, T
<1> QED BY <1>1, InflowInductive, PTL
=============================================================================
