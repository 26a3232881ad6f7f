------------------------------ MODULE WireFormat ------------------------------
(***************************************************************************)
(* Transactions and blocks as bytes: src/src/chain/compactsize.cpp and     *)
(* transaction.cpp.  Bytes are 0 .. 255.  A field that is copied as it is  *)
(* (a hash, a value, a sequence number) stays the bytes it was read from.  *)
(*                                                                         *)
(* A reader gets the bytes and an offset, and returns what it read and the *)
(* offset behind it, or Fail, which stands for the exception.              *)
(***************************************************************************)
EXTENDS Integers, Sequences, SequencesExt

Fail == [ok |-> FALSE, value |-> <<>>, off |-> 0]
Got(value, off) == [ok |-> TRUE, value |-> value, off |-> off]
Then(read, next(_)) == IF read.ok THEN next(read) ELSE Fail

\* Cursor::need and bytes.
Take(data, off, n) == IF off + n > Len(data) THEN Fail ELSE Got(SubSeq(data, off + 1, off + n), off + n)
-----------------------------------------------------------------------------
\* Compact sizes; those above 2^31 - 1 are read as Huge, more than any input
\* is long, and not written.
Huge == 2147483647

WriteCompact(n) ==
    IF n < 253 THEN <<n>>
    ELSE IF n <= 65535 THEN <<253, n % 256, n \div 256>>
    ELSE <<254, n % 256, (n \div 256) % 256, (n \div 65536) % 256, n \div 16777216>>

Width(first)  == CASE first = 253 -> 2 [] first = 254 -> 4 [] first = 255 -> 8 [] OTHER -> 0
\* The value of 2, 4 or 8 bytes does not fit in the next shorter form.
Minimal_NotChecked(bytes) == TRUE           \* mutant: any form is taken
Minimal(bytes) ==
    CASE Len(bytes) = 2 -> bytes[1] + 256 * bytes[2] >= 253
      [] Len(bytes) = 4 -> bytes[3] # 0 \/ bytes[4] # 0
      [] Len(bytes) = 8 -> \E i \in 5 .. 8 : bytes[i] # 0
ValueOf(bytes) ==
    CASE Len(bytes) = 2 -> bytes[1] + 256 * bytes[2]
      [] Len(bytes) = 4 /\ bytes[4] < 128 ->
            bytes[1] + 256 * bytes[2] + 65536 * bytes[3] + 16777216 * bytes[4]
      [] OTHER -> Huge
ReadCompact(data, off) ==
    Then(Take(data, off, 1), LAMBDA f :
        IF Width(f.value[1]) = 0 THEN Got(f.value[1], f.off)
        ELSE Then(Take(data, f.off, Width(f.value[1])), LAMBDA r :
                 IF Minimal(r.value) THEN Got(ValueOf(r.value), r.off) ELSE Fail))
-----------------------------------------------------------------------------
\* A length or a count that is larger than the input is refused before
\* anything is allocated for it.
VarBytes(data, off) ==
    Then(ReadCompact(data, off), LAMBDA n :
        IF n.value > Len(data) THEN Fail ELSE Take(data, n.off, n.value))
Many(n, off, read(_)) ==
    FoldLeft(LAMBDA done, i : Then(done, LAMBDA d :
                 Then(read(d.off), LAMBDA r : Got(Append(d.value, r.value), r.off))),
             Got(<<>>, off), [i \in 1 .. n |-> i])
Counted(data, off, read(_)) ==
    Then(ReadCompact(data, off), LAMBDA n :
        IF n.value > Len(data) - n.off THEN Fail ELSE Many(n.value, n.off, read))

ReadTxIn(data, off) ==
    Then(Take(data, off, 36), LAMBDA p : Then(VarBytes(data, p.off), LAMBDA s :
        Then(Take(data, s.off, 4), LAMBDA q :
            Got([prevout |-> p.value, script |-> s.value, sequence |-> q.value], q.off))))
ReadTxOut(data, off) ==
    Then(Take(data, off, 8), LAMBDA v : Then(VarBytes(data, v.off), LAMBDA s :
        Got([amount |-> v.value, script |-> s.value], s.off)))
ReadStack(data, off) == Counted(data, off, LAMBDA o : VarBytes(data, o))

\* A 0 where the count of the inputs would be announces witnesses; of the
\* flag behind it only the lowest bit counts.
Segwit(data)  == data[5] = 0
BadFlag(data) == Segwit(data) /\ (Len(data) < 6 \/ data[6] % 2 = 0)
ReadTx(data) ==
    IF Len(data) < 10 \/ BadFlag(data) THEN Fail
    ELSE Then(Counted(data, IF Segwit(data) THEN 6 ELSE 4, LAMBDA o : ReadTxIn(data, o)), LAMBDA ins :
         Then(Counted(data, ins.off, LAMBDA o : ReadTxOut(data, o)), LAMBDA outs :
         Then(IF Segwit(data) THEN Many(Len(ins.value), outs.off, LAMBDA o : ReadStack(data, o))
              ELSE Got([i \in DOMAIN ins.value |-> <<>>], outs.off), LAMBDA wit :
         Then(Take(data, wit.off, 4), LAMBDA lock :
            Got([version |-> SubSeq(data, 1, 4), witness |-> Segwit(data), vin |-> ins.value,
                 vout |-> outs.value, stacks |-> wit.value, locktime |-> lock.value], lock.off)))))
\* A transaction alone is all of the input.
Whole(data, read) == IF read.ok /\ read.off # Len(data) THEN Fail ELSE read
ParseTx(data) == Whole(data, ReadTx(data))

\* The 80 bytes of the header are copied; the transactions fill the rest.
ParseBlock(data) ==
    IF Len(data) < 81 THEN Fail
    ELSE Whole(data, Then(ReadCompact(data, 80), LAMBDA n :
             IF n.value > Len(data) - n.off THEN Fail
             ELSE Then(Many(n.value, n.off, LAMBDA o :
                           Then(ReadTx(SubSeq(data, o + 1, Len(data))), LAMBDA t : Got(t.value, o + t.off))),
                       LAMBDA txs : Got([header |-> SubSeq(data, 1, 80), txs |-> txs.value], txs.off))))
-----------------------------------------------------------------------------
Prefixed(bytes) == WriteCompact(Len(bytes)) \o bytes
ListOf(items)   == WriteCompact(Len(items)) \o FlattenSeq(items)
SerializeTx(tx, include_witness) ==
    LET wit == include_witness /\ tx.witness IN
    tx.version \o (IF wit THEN <<0, 1>> ELSE <<>>)
        \o ListOf([i \in DOMAIN tx.vin |->
               tx.vin[i].prevout \o Prefixed(tx.vin[i].script) \o tx.vin[i].sequence])
        \o ListOf([i \in DOMAIN tx.vout |-> tx.vout[i].amount \o Prefixed(tx.vout[i].script)])
        \o (IF wit THEN FlattenSeq([i \in DOMAIN tx.stacks |->
               ListOf([j \in DOMAIN tx.stacks[i] |-> Prefixed(tx.stacks[i][j])])]) ELSE <<>>)
        \o tx.locktime
\* What txid hashes.
Stripped(tx) == [tx EXCEPT !.witness = FALSE, !.stacks = [i \in DOMAIN tx.vin |-> <<>>]]
=============================================================================
