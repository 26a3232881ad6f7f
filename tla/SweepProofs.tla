----------------------------- MODULE SweepProofs -----------------------------
(***************************************************************************)
(* Proofs about Sweep, for any coins, any inputs and any answers of the    *)
(* node.                                                                   *)
(*                                                                         *)
(* The inductive invariant follows a coin from the scan to the broadcast:  *)
(* the call in progress is the one that sweep_one waits for (Asked), a     *)
(* good answer means what it says (Told), the coins that are carried from  *)
(* the scan to the fee are different coins of the style that are old       *)
(* enough (Carried), and a transaction on its way is valid, not only with  *)
(* the coins that are left but with all there have ever been               *)
(* (ValidForEver): that cannot be undone by a block.                       *)
(***************************************************************************)
EXTENDS Sweep, DataTheorems

Waits == {"scan", "fee", "send"}

Wires ==
    /\ g_stop \in BOOLEAN /\ RpcShape
    /\ request \in Requests \cup {Nothing} /\ orphans \subseteq Requests
    /\ rpc # "read" => pending = Nothing /\ answer = Nothing
    /\ reply # Nothing => rpc = "idle"

\* How many objects the first items have.
Lengths    == [i \in DOMAIN arguments.items |-> Len(arguments.items[i])]
Written(n) == SumFunctionOnSet(Lengths, 1 .. n)

Places ==
    /\ arguments \in Arguments /\ runs \in 1 .. MaxRuns
    /\ pc \in Waits \cup {"item", "end"}
    /\ item \in 0 .. Len(arguments.items) /\ spend \in Nat \ {0}
    /\ height \in FirstTip .. MaxTip
    /\ utxos \in Seq(AllCoins) /\ (utxos = <<>> <=> pc \notin {"fee", "send"})
    /\ tx \in Objects \cup {Nothing} /\ (tx = Nothing <=> pc # "send")
    /\ exit \in {Nothing, "0", "1", "killed"} /\ (exit = Nothing <=> pc # "end")
    /\ out \in Seq(Objects) /\ printed \in Seq(Objects)

\* How far the input has been swept.
Progress ==
    /\ pc \in Waits =>
           /\ item \in 1 .. Len(arguments.items) /\ spend \in 1 .. Len(arguments.items[item])
           /\ Len(out) = spend - 1 /\ Len(printed) = Written(item - 1)
    /\ pc \notin Waits => out = <<>>
    /\ pc = "item" \/ exit = "0" => Len(printed) = Written(item)
    /\ exit = "0" => item = Len(arguments.items)
    /\ arguments.dry_run => pc # "send"

Nodes ==
    /\ tip \in FirstTip .. MaxTip /\ ledger \subseteq AllCoins /\ mempool \subseteq accepted

Asked ==
    /\ rpc # "idle" => pc \in Waits
    /\ rpc # "idle" /\ pc = "scan" => request = ScanRequest(Style)
    /\ rpc # "idle" /\ pc = "fee"  => request = EstimateRequest
    /\ rpc # "idle" /\ pc = "send" => request = SendRequest(tx.tx)

\* Different coins of one style.
Coins(us, style) ==
    /\ us \in Seq(AllCoins) /\ \A i \in DOMAIN us : us[i].at = style
    /\ \A i, j \in DOMAIN us : us[i] = us[j] => i = j

\* What a result means where sweep_one is.
Means(v) ==
    /\ pc = "scan" => v.height \in FirstTip .. tip /\ Coins(v.unspents, Style)
    /\ pc = "fee"  => v.feerate \in Feerates
    /\ pc = "send" => tx.tx \in accepted
Told ==
    /\ answer # Nothing /\ answer.status = 200 /\ ~answer.error => Means(answer.result)
    /\ reply # Nothing /\ reply.ok => Means(reply.value)

Ripe(us, style, h) ==
    /\ Coins(us, style) /\ us # <<>> /\ \A i \in DOMAIN us : Mature(us[i], h)
    /\ Amounts(us) <= MaxUint
Carried == pc = "fee" => Ripe(utxos, Style, height) /\ height \in FirstTip .. tip

ValidForEver == \A r \in Sending : IsValid(r.tx, AllCoins, tip)

Honest == \A o \in ElementsOf(printed) \cup ElementsOf(out) : o.broadcast => o.tx \in accepted

IInv ==
    /\ Wires /\ Places /\ Progress /\ Nodes
    /\ Asked /\ Told /\ Carried /\ ValidForEver /\ Honest
-----------------------------------------------------------------------------
(***************************************************************************)
(* The coins of a scan, and what is kept of them.                          *)
(***************************************************************************)

LEMMA CoinsAre ==
    /\ IsFiniteSet(AllCoins)
    /\ \A c \in AllCoins : /\ c.at \in Styles /\ c.amount \in Nat
                           /\ c.coinbase \in BOOLEAN /\ c.height \in Nat
    /\ \A c, d \in AllCoins : c.id = d.id => c = d
BY CoinsAssumption

\* The recursion of Spendable, up to the n-th coin.
Keeps(kept, us, h, n) ==
    kept = [i \in 0 .. n |-> IF i = 0 THEN <<>>
                             ELSE kept[i - 1] \o (IF Mature(us[i], h) THEN <<us[i]>> ELSE <<>>)]

LEMMA KeepsExists ==
    ASSUME NEW us, NEW h, NEW m \in Nat
    PROVE  \E kept : Keeps(kept, us, h, m)
<1> DEFINE Bad == {n \in 0 .. m : ~\E kept : Keeps(kept, us, h, n)}
<1>1. SUFFICES ASSUME Bad # {} PROVE FALSE
  OBVIOUS
<1>2. PICK n \in Bad : \A j \in 0 .. n - 1 : j \notin Bad
  <2>1. Bad \in SUBSET (0 .. m)
    OBVIOUS
  <2> HIDE DEF Bad
  <2> QED BY <2>1, <1>1, Least
<1>3. n \in 0 .. m
  OBVIOUS
<1>4. CASE n = 0
  <2> DEFINE g == [i \in 0 .. 0 |-> <<>>]
  <2>1. \A i \in 0 .. 0 : i = 0
    OBVIOUS
  <2>2. g = [i \in 0 .. 0 |-> IF i = 0 THEN <<>>
                 ELSE g[i - 1] \o (IF Mature(us[i], h) THEN <<us[i]>> ELSE <<>>)]
    BY <2>1
  <2>3. Keeps(g, us, h, 0)
    BY <2>2 DEF Keeps
  <2> QED BY <1>4, <2>3
<1>5. CASE n # 0
  <2>1. n - 1 \in 0 .. n - 1 /\ n - 1 \in 0 .. m
    BY <1>3, <1>5
  <2>2. PICK f : Keeps(f, us, h, n - 1)
    BY <2>1, <1>2
  <2> DEFINE More(x) == x \o (IF Mature(us[n], h) THEN <<us[n]>> ELSE <<>>)
             g == [i \in 0 .. n |-> IF i = n THEN More(f[n - 1]) ELSE f[i]]
             Step(i) == IF i = 0 THEN <<>>
                        ELSE g[i - 1] \o (IF Mature(us[i], h) THEN <<us[i]>> ELSE <<>>)
  <2>3. ASSUME NEW i \in 0 .. n PROVE g[i] = Step(i)
    <3>1. CASE i = n
      <4>1. g[n] = More(f[n - 1])
        <5>1. n \in 0 .. n
          BY <1>3
        <5> QED BY <5>1
      <4>2. g[n - 1] = f[n - 1]
        BY <2>1, <1>3
      <4> QED BY <4>1, <4>2, <3>1, <1>5
    <3>2. CASE i # n
      <4>1. i \in 0 .. n - 1
        BY <3>2, <1>3
      <4>2. g[i] = f[i] /\ (i # 0 => g[i - 1] = f[i - 1])
        BY <4>1, <1>3
      <4>3. f[i] = IF i = 0 THEN <<>>
                   ELSE f[i - 1] \o (IF Mature(us[i], h) THEN <<us[i]>> ELSE <<>>)
        BY <4>1, <2>2 DEF Keeps
      <4> HIDE DEF g
      <4> QED BY <4>2, <4>3
    <3> QED BY <3>1, <3>2
  <2>4. g = [i \in 0 .. n |-> g[i]]
    OBVIOUS
  <2> HIDE DEF g
  <2>5. g = [i \in 0 .. n |-> Step(i)]
    BY <2>3, <2>4
  <2>6. Keeps(g, us, h, n)
    BY <2>5 DEF Keeps
  <2> QED BY <2>6
<1> QED BY <1>4, <1>5

\* One more at the end.
LEMMA OneMore ==
    ASSUME NEW S, NEW s \in Seq(S), NEW e \in S
    PROVE  /\ s \o <<>> = s
           /\ s \o <<e>> \in Seq(S) /\ Len(s \o <<e>>) = Len(s) + 1
           /\ \A k \in 1 .. Len(s) : (s \o <<e>>)[k] = s[k]
           /\ (s \o <<e>>)[Len(s) + 1] = e
<1>1. <<e>> \in Seq(S) /\ Len(<<e>>) = 1 /\ <<e>>[1] = e
  OBVIOUS
<1>2. Len(s) \in Nat
  BY LenProperties
<1>3. /\ s \o <<e>> \in Seq(S) /\ Len(s \o <<e>>) = Len(s) + Len(<<e>>)
      /\ \A i \in 1 .. Len(s) + Len(<<e>>) :
             (s \o <<e>>)[i] = IF i <= Len(s) THEN s[i] ELSE <<e>>[i - Len(s)]
  BY <1>1, ConcatProperties
<1>4. s \o <<>> = s
  BY ConcatEmptySeq
<1>5. \A k \in 1 .. Len(s) : (s \o <<e>>)[k] = s[k]
  BY <1>1, <1>2, <1>3
<1>6. (s \o <<e>>)[Len(s) + 1] = e
  <2>1. (s \o <<e>>)[Len(s) + 1] = <<e>>[Len(s) + 1 - Len(s)]
    BY <1>1, <1>2, <1>3
  <2>2. Len(s) + 1 - Len(s) = 1
    BY <1>2
  <2> QED BY <2>1, <2>2, <1>1
<1> QED BY <1>1, <1>3, <1>4, <1>5, <1>6

\* What is kept are coins of the scan, each once, and old enough.
LEMMA SpendableAre ==
    ASSUME NEW us, NEW style, NEW h, Coins(us, style)
    PROVE  LET left == Spendable(us, h) IN
           Coins(left, style) /\ \A k \in DOMAIN left : Mature(left[k], h)
<1> DEFINE f == CHOOSE kept : Keeps(kept, us, h, Len(us))
           From(s, i) == \A k \in 1 .. Len(s) : \E j \in 1 .. i : s[k] = us[j] /\ Mature(us[j], h)
           Once(s) == \A k, l \in 1 .. Len(s) : s[k] = s[l] => k = l
           Bad == {i \in 0 .. Len(us) : ~(f[i] \in Seq(AllCoins) /\ From(f[i], i) /\ Once(f[i]))}
<1>1. Len(us) \in Nat /\ DOMAIN us = 1 .. Len(us) /\ \A i \in 1 .. Len(us) : us[i] \in AllCoins
  BY LenProperties, ElementOfSeq DEF Coins
<1>2. Keeps(f, us, h, Len(us))
  BY <1>1, KeepsExists
<1>3. Spendable(us, h) = f[Len(us)]
  BY DEF Spendable, Keeps
<1> HIDE DEF f
<1>4. Bad = {}
  <2>1. SUFFICES ASSUME Bad # {} PROVE FALSE
    OBVIOUS
  <2>2. PICK i \in Bad : \A j \in 0 .. i - 1 : j \notin Bad
    <3>1. Bad \in SUBSET (0 .. Len(us))
      OBVIOUS
    <3> HIDE DEF Bad
    <3> QED BY <3>1, <2>1, <1>1, Least
  <2>3. i \in 0 .. Len(us) /\ ~(f[i] \in Seq(AllCoins) /\ From(f[i], i) /\ Once(f[i]))
    OBVIOUS
  <2>4. CASE i = 0
    <3>1. f[i] = <<>>
      BY <2>3, <2>4, <1>2 DEF Keeps
    <3> QED BY <3>1, <2>3
  <2>5. CASE i # 0
    <3> DEFINE s == f[i - 1]
               c == us[i]
    <3>1. i - 1 \in 0 .. i - 1 /\ i - 1 \in 0 .. Len(us) /\ i \in 1 .. Len(us)
      BY <1>1, <2>3, <2>5
    <3>2. s \in Seq(AllCoins) /\ From(s, i - 1) /\ Once(s)
      BY <3>1, <2>2
    <3>3. c \in AllCoins
      BY <3>1, <1>1
    <3>4. f[i] = s \o (IF Mature(c, h) THEN <<c>> ELSE <<>>)
      BY <2>3, <2>5, <1>2 DEF Keeps
    <3> HIDE DEF s
    <3>5. CASE ~Mature(c, h)
      <4>1. f[i] = s
        BY <3>2, <3>3, <3>4, <3>5, OneMore
      <4>2. \A j \in 1 .. i - 1 : j \in 1 .. i
        BY <3>1
      <4> QED BY <4>1, <4>2, <3>2, <2>3
    <3>6. CASE Mature(c, h)
      <4>1. /\ f[i] \in Seq(AllCoins) /\ Len(f[i]) = Len(s) + 1
            /\ \A k \in 1 .. Len(s) : f[i][k] = s[k]
            /\ f[i][Len(s) + 1] = c
        BY <3>2, <3>3, <3>4, <3>6, OneMore
      <4>2. Len(s) \in Nat
        BY <3>2, LenProperties
      <4>3. \A k \in 1 .. Len(s) + 1 : k \in 1 .. Len(s) \/ k = Len(s) + 1
        BY <4>2
      <4>4. From(f[i], i)
        <5>1. i \in 1 .. i /\ \A j \in 1 .. i - 1 : j \in 1 .. i
          BY <3>1
        <5> QED BY <5>1, <4>1, <4>3, <3>2, <3>6
      <4>5. \A k \in 1 .. Len(s) : s[k] # c
        <5> SUFFICES ASSUME NEW k \in 1 .. Len(s) PROVE s[k] # c
          OBVIOUS
        <5>1. PICK j \in 1 .. i - 1 : s[k] = us[j]
          BY <3>2
        <5>2. j \in 1 .. Len(us) /\ j # i
          BY <3>1, <1>1
        <5> QED BY <5>1, <5>2, <3>1, <1>1 DEF Coins
      <4>6. Once(f[i])
        BY <4>1, <4>3, <4>5, <3>2
      <4> QED BY <4>1, <4>4, <4>6, <2>3
    <3> QED BY <3>5, <3>6
  <2> QED BY <2>4, <2>5
<1> DEFINE s == f[Len(us)]
<1>5. s \in Seq(AllCoins) /\ From(s, Len(us)) /\ Once(s)
  <2>1. Len(us) \in 0 .. Len(us)
    BY <1>1
  <2> QED BY <2>1, <1>4
<1> HIDE DEF s
<1>6. DOMAIN s = 1 .. Len(s)
  BY <1>5, LenProperties
<1>7. \A k \in DOMAIN s : s[k].at = style /\ Mature(s[k], h)
  BY <1>1, <1>5, <1>6 DEF Coins
<1>8. Coins(s, style) /\ \A k \in DOMAIN s : Mature(s[k], h)
  BY <1>5, <1>6, <1>7 DEF Coins
<1> QED BY <1>3, <1>8 DEF s

\* The answer to a scan: different coins of the style that was asked for.
LEMMA CoinsAtAre ==
    ASSUME NEW style, ledger \subseteq AllCoins
    PROVE  Coins(CoinsAt(style), style)
<1> DEFINE S == {c \in ledger : c.at = style}
           n == Cardinality(S)
<1>1. IsFiniteSet(S)
  BY CoinsAre, FS_Subset
<1>2. n \in Nat /\ ExistsBijection(1 .. n, S)
  BY <1>1, FS_CardinalityType
<1>3. \E f \in [1 .. n -> S] : IsInjective(f)
  BY <1>2 DEF ExistsBijection, Bijection, Injection
<1>4. CoinsAt(style) \in [1 .. n -> S] /\ IsInjective(CoinsAt(style))
  <2>1. CoinsAt(style) = CHOOSE f \in [1 .. n -> S] : IsInjective(f)
    BY DEF CoinsAt, SetToSeq
  <2> HIDE DEF S, n
  <2> QED BY <2>1, <1>3
<1>5. CoinsAt(style) \in Seq(S) /\ CoinsAt(style) \in Seq(AllCoins)
  <2>1. CoinsAt(style) \in Seq(S)
    <3> HIDE DEF S, n
    <3> QED BY <1>2, <1>4, SeqDef
  <2>2. S \subseteq AllCoins
    OBVIOUS
  <2> HIDE DEF S
  <2> QED BY <2>1, <2>2, SeqMonotonic
<1> QED BY <1>4, <1>5 DEF Coins, IsInjective

-----------------------------------------------------------------------------
(***************************************************************************)
(* Sizes.  Only the ECDSA signatures differ from the dummies, and they are *)
(* no longer.                                                              *)
(***************************************************************************)

\* What a signature of this size adds to the base and to the witness.
LEMMA InputSizes ==
    ASSUME NEW style \in Styles, NEW a \in 1 .. DummyEcdsa
    PROVE  /\ 40 + Prefixed(ScriptSig(style, a)) =
                  IF style = "p2pkh" THEN 76 + a ELSE 41
           /\ Witness(style, a) = IF style = "p2pkh" THEN 0
                                  ELSE IF style = "p2wpkh" THEN 36 + a ELSE 66
<1>1. a \in Nat /\ a <= 73
  BY DEF DummyEcdsa
<1>2. ScriptSig(style, a) = IF style = "p2pkh" THEN a + 35 ELSE 0
  BY <1>1 DEF ScriptSig, PubkeyLen
<1>3. Prefixed(0) = 1 /\ Prefixed(a + 35) = a + 36
  BY <1>1 DEF Prefixed, CompactSize
<1>4. Prefixed(a) = a + 1 /\ Prefixed(33) = 34 /\ Prefixed(64) = 65
  BY <1>1 DEF Prefixed, CompactSize
<1>5. 40 + Prefixed(ScriptSig(style, a)) = IF style = "p2pkh" THEN 76 + a ELSE 41
  BY <1>1, <1>2, <1>3
<1>6. CASE style = "p2pkh"
  BY <1>5, <1>6 DEF Witness
<1>7. CASE style = "p2wpkh"
  <2>1. Witness(style, a) = 1 + Prefixed(a) + Prefixed(33)
    BY <1>7 DEF Witness, PubkeyLen
  <2> QED BY <2>1, <1>1, <1>4, <1>5, <1>7
<1>8. CASE style = "p2tr"
  <2>1. Witness(style, a) = 1 + Prefixed(64)
    BY <1>8 DEF Witness, Schnorr
  <2> QED BY <2>1, <1>4, <1>5, <1>8
<1> QED BY <1>6, <1>7, <1>8 DEF Styles

\* The parts of a size that depend on the signatures.
Scripts(style, n, sig)   == Total([i \in 1 .. n |-> 40 + Prefixed(ScriptSig(style, sig[i]))])
Witnesses(style, n, sig) == Total([i \in 1 .. n |-> Witness(style, sig[i])])
Rest(n, to) == 4 + CompactSize(n) + 1 + 8 + Prefixed(ScriptLen[to]) + 4

LEMMA RestIs == ASSUME NEW n \in Nat, NEW to \in DOMAIN dust_sats PROVE Rest(n, to) \in Nat
<1>1. ScriptLen[to] \in {25, 23, 22, 34}
  BY DEF dust_sats, ScriptLen
<1>2. Prefixed(ScriptLen[to]) \in Nat
  BY <1>1 DEF Prefixed, CompactSize
<1>3. CompactSize(n) \in {1, 3, 5}
  BY DEF CompactSize
<1> QED BY <1>2, <1>3 DEF Rest

LEMMA SizeParts ==
    ASSUME NEW style \in Styles, NEW n \in Nat, NEW sig \in [1 .. n -> 1 .. DummyEcdsa],
           NEW to \in DOMAIN dust_sats
    PROVE  /\ Scripts(style, n, sig) \in Nat /\ Witnesses(style, n, sig) \in Nat
           /\ TxVsize(style, n, sig, to) =
                  LET base == Rest(n, to) + Scripts(style, n, sig) IN
                  IF style = "p2pkh" THEN base
                  ELSE (4 * base + 2 + Witnesses(style, n, sig) + 3) \div 4
<1> DEFINE v == [i \in 1 .. n |-> 40 + Prefixed(ScriptSig(style, sig[i]))]
           w == [i \in 1 .. n |-> Witness(style, sig[i])]
<1>1. IsFiniteSet(1 .. n) /\ DOMAIN v = 1 .. n /\ DOMAIN w = 1 .. n
  BY FS_Interval
<1>2. ASSUME NEW i \in 1 .. n PROVE v[i] \in Nat /\ w[i] \in Nat
  <2>1. sig[i] \in 1 .. DummyEcdsa
    OBVIOUS
  <2>2. sig[i] \in Nat
    <3>1. \A a \in 1 .. DummyEcdsa : a \in Nat
      BY DEF DummyEcdsa
    <3> QED BY <2>1, <3>1
  <2>3. v[i] = (IF style = "p2pkh" THEN 76 + sig[i] ELSE 41)
    BY <2>1, InputSizes
  <2>4. w[i] = (IF style = "p2pkh" THEN 0 ELSE IF style = "p2wpkh" THEN 36 + sig[i] ELSE 66)
    BY <2>1, InputSizes
  <2> HIDE DEF v, w
  <2> QED BY <2>2, <2>3, <2>4
<1>3. SumFunctionOnSet(v, 1 .. n) \in Nat /\ SumFunctionOnSet(w, 1 .. n) \in Nat
  <2> HIDE DEF v, w
  <2> QED BY <1>1, <1>2, SumType
<1>4. Scripts(style, n, sig) \in Nat /\ Witnesses(style, n, sig) \in Nat
  BY <1>1, <1>3 DEF Scripts, Witnesses, Total
<1> HIDE DEF v, w
<1> DEFINE r == Rest(n, to)
           s == Scripts(style, n, sig)
           t == Witnesses(style, n, sig)
           base == 4 + CompactSize(n) + s + 1 + 8 + Prefixed(ScriptLen[to]) + 4
<1>5. CompactSize(n) \in Nat /\ Prefixed(ScriptLen[to]) \in Nat
  <2>1. ScriptLen[to] \in {25, 23, 22, 34}
    BY DEF dust_sats, ScriptLen
  <2>2. Prefixed(ScriptLen[to]) \in Nat
    BY <2>1 DEF Prefixed, CompactSize
  <2> QED BY <2>2 DEF CompactSize
<1>6. base = r + s /\ r \in Nat
  <2>1. r = 4 + CompactSize(n) + 1 + 8 + Prefixed(ScriptLen[to]) + 4
    BY DEF Rest
  <2>2. s \in Nat
    BY <1>4
  <2> HIDE DEF r, s
  <2> QED BY <1>5, <2>1, <2>2
<1>7. TxVsize(style, n, sig, to) =
          IF style = "p2pkh" THEN base ELSE (3 * base + (base + 2 + t) + 3) \div 4
  BY DEF TxVsize, Scripts, Witnesses
<1> HIDE DEF r, s, t, base
<1>8. s \in Nat /\ t \in Nat
  BY <1>4 DEF s, t
<1>9. 3 * base + (base + 2 + t) + 3 = 4 * (r + s) + 2 + t + 3
  BY <1>6, <1>8
<1> QED BY <1>4, <1>6, <1>7, <1>9 DEF r, s, t

LEMMA Quarters ==
    /\ \A a \in Nat : a \div 4 \in Nat
    /\ \A a, b \in Nat : a <= b => a \div 4 <= b \div 4
    /\ \A a, b, c \in Nat : a <= b + 4 * c => a \div 4 <= (b \div 4) + c
OBVIOUS

\* The estimate is no less than the size of what is signed, and with
\* signatures of the usual sizes it is at most three bytes an input more.
LEMMA EstimateIs ==
    ASSUME NEW style \in Styles, NEW n \in Nat, NEW sig \in [1 .. n -> 1 .. DummyEcdsa],
           NEW to \in DOMAIN dust_sats
    PROVE  /\ TxVsize(style, n, sig, to) \in Nat /\ EstimateVsize(style, n, to) \in Nat
           /\ TxVsize(style, n, sig, to) <= EstimateVsize(style, n, to)
           /\ (\A i \in 1 .. n : DummyEcdsa - 3 <= sig[i]) =>
                  EstimateVsize(style, n, to) <= TxVsize(style, n, sig, to) + 3 * n
<1> DEFINE dummy == [i \in 1 .. n |-> DummyEcdsa]
           v1 == [i \in 1 .. n |-> 40 + Prefixed(ScriptSig(style, sig[i]))]
           v2 == [i \in 1 .. n |-> 40 + Prefixed(ScriptSig(style, dummy[i]))]
           w1 == [i \in 1 .. n |-> Witness(style, sig[i])]
           w2 == [i \in 1 .. n |-> Witness(style, dummy[i])]
           s1 == Scripts(style, n, sig)
           s2 == Scripts(style, n, dummy)
           t1 == Witnesses(style, n, sig)
           t2 == Witnesses(style, n, dummy)
           r  == Rest(n, to)
           Usual == \A i \in 1 .. n : DummyEcdsa - 3 <= sig[i]
<1>1. DummyEcdsa \in 1 .. DummyEcdsa /\ \A a \in 1 .. DummyEcdsa : a \in Nat
  BY DEF DummyEcdsa
<1>2. dummy \in [1 .. n -> 1 .. DummyEcdsa]
  BY <1>1
<1>3. IsFiniteSet(1 .. n) /\ Cardinality(1 .. n) = n
  BY FS_Interval
<1>4. ASSUME NEW i \in 1 .. n
      PROVE  /\ v1[i] = (IF style = "p2pkh" THEN 76 + sig[i] ELSE 41)
             /\ v2[i] = (IF style = "p2pkh" THEN 76 + DummyEcdsa ELSE 41)
             /\ w1[i] = (IF style = "p2pkh" THEN 0 ELSE IF style = "p2wpkh" THEN 36 + sig[i] ELSE 66)
             /\ w2[i] = (IF style = "p2pkh" THEN 0 ELSE IF style = "p2wpkh" THEN 36 + DummyEcdsa ELSE 66)
  <2>1. sig[i] \in 1 .. DummyEcdsa /\ dummy[i] = DummyEcdsa
    OBVIOUS
  <2>2. /\ v1[i] = 40 + Prefixed(ScriptSig(style, sig[i])) /\ w1[i] = Witness(style, sig[i])
        /\ v2[i] = 40 + Prefixed(ScriptSig(style, DummyEcdsa)) /\ w2[i] = Witness(style, DummyEcdsa)
    BY <2>1
  <2> HIDE DEF dummy, v1, v2, w1, w2
  <2> QED BY <1>1, <2>1, <2>2, InputSizes
<1>5. s1 \in Nat /\ s2 \in Nat /\ t1 \in Nat /\ t2 \in Nat /\ r \in Nat
  <2> HIDE DEF dummy
  <2> QED BY <1>2, SizeParts, RestIs
<1>6. /\ s1 = SumFunctionOnSet(v1, 1 .. n) /\ s2 = SumFunctionOnSet(v2, 1 .. n)
      /\ t1 = SumFunctionOnSet(w1, 1 .. n) /\ t2 = SumFunctionOnSet(w2, 1 .. n)
  BY DEF Scripts, Witnesses, Total
<1>7. /\ TxVsize(style, n, sig, to) =
             LET base == r + s1 IN
             IF style = "p2pkh" THEN base ELSE (4 * base + 2 + t1 + 3) \div 4
      /\ EstimateVsize(style, n, to) =
             LET base == r + s2 IN
             IF style = "p2pkh" THEN base ELSE (4 * base + 2 + t2 + 3) \div 4
  <2>1. EstimateVsize(style, n, to) = TxVsize(style, n, dummy, to)
    BY DEF EstimateVsize
  <2> HIDE DEF dummy
  <2> QED BY <1>2, <2>1, SizeParts
<1> HIDE DEF v1, v2, w1, w2, s1, s2, t1, t2, r, dummy
<1>8. ASSUME NEW i \in 1 .. n
      PROVE  /\ v1[i] \in Int /\ v2[i] \in Int /\ w1[i] \in Int /\ w2[i] \in Int
             /\ v1[i] <= v2[i] /\ w1[i] <= w2[i]
             /\ style # "p2pkh" => v2[i] <= v1[i]
             /\ Usual => v2[i] <= v1[i] + 3 /\ w2[i] <= w1[i] + 3
  <2>1. sig[i] \in Nat /\ sig[i] <= 73 /\ DummyEcdsa = 73
    <3>1. \A a \in 1 .. DummyEcdsa : a <= 73 /\ DummyEcdsa = 73
      BY DEF DummyEcdsa
    <3>2. sig[i] \in 1 .. DummyEcdsa
      OBVIOUS
    <3> QED BY <1>1, <3>1, <3>2
  <2>2. Usual => DummyEcdsa - 3 <= sig[i]
    OBVIOUS
  <2> HIDE DEF Usual
  <2>3. CASE style = "p2pkh"
    BY <1>4, <2>1, <2>2, <2>3
  <2>4. CASE style = "p2wpkh"
    <3>1. v1[i] = 41 /\ v2[i] = 41 /\ w1[i] = 36 + sig[i] /\ w2[i] = 36 + DummyEcdsa
      BY <1>4, <2>4
    <3> QED BY <3>1, <2>1, <2>2
  <2>5. CASE style = "p2tr"
    BY <1>4, <2>1, <2>2, <2>5
  <2> QED BY <2>3, <2>4, <2>5 DEF Styles
<1>9. s1 <= s2 /\ t1 <= t2
  BY <1>3, <1>6, <1>8, SumMonotone
<1>10. style # "p2pkh" => s2 <= s1
  BY <1>3, <1>6, <1>8, SumMonotone
<1>11. Usual => s2 <= s1 + 3 * n /\ t2 <= t1 + 3 * n
  <2> DEFINE k == 3
  <2> SUFFICES ASSUME Usual PROVE s2 <= s1 + k * n /\ t2 <= t1 + k * n
    OBVIOUS
  <2>1. k \in Int /\ \A i \in 1 .. n : /\ v1[i] \in Int /\ v2[i] \in Int /\ v2[i] <= v1[i] + k
                                       /\ w1[i] \in Int /\ w2[i] \in Int /\ w2[i] <= w1[i] + k
    BY <1>8
  <2> HIDE DEF k, Usual
  <2>2. SumFunctionOnSet(v2, 1 .. n) <= SumFunctionOnSet(v1, 1 .. n) + k * Cardinality(1 .. n)
    BY <1>3, <2>1, SumWithin
  <2>3. SumFunctionOnSet(w2, 1 .. n) <= SumFunctionOnSet(w1, 1 .. n) + k * Cardinality(1 .. n)
    BY <1>3, <2>1, SumWithin
  <2> QED BY <1>3, <1>6, <2>2, <2>3
<1> HIDE DEF Usual
<1> DEFINE x1 == 4 * (r + s1) + 2 + t1 + 3
           x2 == 4 * (r + s2) + 2 + t2 + 3
<1>12. /\ x1 \in Nat /\ x2 \in Nat /\ x1 <= x2
       /\ style # "p2pkh" /\ Usual => x2 <= x1 + 4 * (3 * n)
  BY <1>5, <1>9, <1>10, <1>11
<1>13. CASE style = "p2pkh"
  BY <1>5, <1>7, <1>9, <1>11, <1>13 DEF Usual
<1>14. CASE style # "p2pkh"
  <2>1. /\ TxVsize(style, n, sig, to) = x1 \div 4
        /\ EstimateVsize(style, n, to) = x2 \div 4
    BY <1>7, <1>14
  <2> DEFINE m == 3 * n
  <2>2. m \in Nat
    OBVIOUS
  <2> HIDE DEF x1, x2, m
  <2>3. Usual => x2 <= x1 + 4 * m
    BY <1>12, <1>14 DEF m
  <2>4. x1 \div 4 \in Nat /\ x2 \div 4 \in Nat /\ x1 \div 4 <= x2 \div 4
    BY <1>12, Quarters
  <2>5. Usual => x2 \div 4 <= (x1 \div 4) + m
    BY <1>12, <2>2, <2>3, Quarters
  <2> QED BY <2>1, <2>4, <2>5 DEF Usual, m
<1> QED BY <1>13, <1>14

-----------------------------------------------------------------------------
(***************************************************************************)
(* What sweep_one signs.                                                   *)
(***************************************************************************)

LEMMA AmountsAre == ASSUME NEW us \in Seq(AllCoins) PROVE Amounts(us) \in Nat
<1> DEFINE v == [i \in DOMAIN us |-> us[i].amount]
<1>1. DOMAIN us = 1 .. Len(us) /\ Len(us) \in Nat /\ \A i \in DOMAIN us : us[i] \in AllCoins
  BY LenProperties, ElementOfSeq
<1>2. IsFiniteSet(DOMAIN us)
  BY <1>1, FS_Interval
<1>3. \A i \in DOMAIN us : v[i] \in Nat
  BY <1>1, CoinsAre
<1>4. SumFunctionOnSet(v, DOMAIN us) \in Nat
  <2> HIDE DEF v
  <2> QED BY <1>2, <1>3, SumType
<1> QED BY <1>4 DEF Amounts, Total

\* The coins that the inputs of a transaction name.
Named(vin) == [i \in DOMAIN vin |-> CoinOf(vin[i], AllCoins)]

\* The inputs of a transaction that spends these coins name them again.
LEMMA NamedAgain ==
    ASSUME NEW us \in Seq(AllCoins), NEW to, NEW sats, NEW h
    PROVE  /\ Skeleton(us, to, sats, h).vin \in Seq({c.id : c \in AllCoins})
           /\ DOMAIN Skeleton(us, to, sats, h).vin = DOMAIN us
           /\ Len(Skeleton(us, to, sats, h).vin) = Len(us)
           /\ Named(Skeleton(us, to, sats, h).vin) = us
<1> DEFINE vin == [i \in DOMAIN us |-> us[i].id]
           Ids == {c.id : c \in AllCoins}
<1>1. Skeleton(us, to, sats, h).vin = vin
  BY DEF Skeleton
<1>2. DOMAIN us = 1 .. Len(us) /\ Len(us) \in Nat /\ \A i \in DOMAIN us : us[i] \in AllCoins
  BY LenProperties, ElementOfSeq
<1>3. vin \in [1 .. Len(us) -> Ids]
  BY <1>2
<1>4. vin \in Seq(Ids) /\ Len(vin) = Len(us)
  <2> HIDE DEF vin, Ids
  <2>1. vin \in Seq(Ids)
    BY <1>2, <1>3, SeqDef
  <2> QED BY <2>1, <1>2, <1>3, LenProperties
<1>5. ASSUME NEW i \in DOMAIN us PROVE CoinOf(vin[i], AllCoins) = us[i]
  <2>1. us[i] \in AllCoins /\ vin[i] = us[i].id
    BY <1>2
  <2>2. \A c \in AllCoins : c.id = us[i].id => c = us[i]
    BY <2>1, CoinsAre
  <2> HIDE DEF vin
  <2> QED BY <2>1, <2>2 DEF CoinOf
<1>6. Named(vin) = us
  <2>1. DOMAIN vin = DOMAIN us
    OBVIOUS
  <2>2. us = [i \in DOMAIN us |-> us[i]]
    BY <1>2
  <2> HIDE DEF vin
  <2> QED BY <2>1, <2>2, <1>5 DEF Named
<1> QED BY <1>1, <1>4, <1>6 DEF vin, Ids

LEMMA NoneTwice ==
    ASSUME NEW us, NEW style, Coins(us, style), NEW to, NEW sats, NEW h
    PROVE  LET vin == Skeleton(us, to, sats, h).vin IN Cardinality(ElementsOf(vin)) = Len(us)
<1> DEFINE vin == Skeleton(us, to, sats, h).vin
           n == Len(us)
<1>1. us \in Seq(AllCoins)
  BY DEF Coins
<1>2. n \in Nat /\ DOMAIN us = 1 .. n /\ \A i \in DOMAIN us : us[i] \in AllCoins
  BY <1>1, LenProperties, ElementOfSeq
<1>3. vin = [i \in 1 .. n |-> us[i].id]
  BY <1>2 DEF Skeleton
<1>4. \A i, j \in 1 .. n : vin[i] = vin[j] => i = j
  BY <1>2, <1>3, CoinsAre DEF Coins
<1>5. ElementsOf(vin) = {vin[i] : i \in 1 .. n}
  BY <1>3 DEF ElementsOf
<1> HIDE DEF vin, n
<1>6. vin \in [1 .. n -> ElementsOf(vin)]
  BY <1>3, <1>5
<1>7. vin \in Bijection(1 .. n, ElementsOf(vin))
  BY <1>4, <1>5, <1>6 DEF Bijection, Injection, Surjection, IsInjective
<1>8. ExistsBijection(1 .. n, ElementsOf(vin))
  BY <1>7 DEF ExistsBijection
<1> QED BY <1>2, <1>8, FS_CountingElements DEF vin, n

LEMMA SighashIs ==
    ASSUME NEW us \in Seq(AllCoins), NEW style \in Styles, NEW skeleton \in Skeletons,
           NEW i \in DOMAIN us
    PROVE  Sighash(style, skeleton, us, i) \in Sighashes
<1> DEFINE coins == [k \in DOMAIN us |-> <<us[k].at, us[k].amount>>]
           Pairs == Styles \X Nat
<1>1. /\ DOMAIN us = 1 .. Len(us) /\ Len(us) \in Nat /\ i \in Nat
      /\ \A k \in DOMAIN us : us[k].at \in Styles /\ us[k].amount \in Nat
  BY LenProperties, ElementOfSeq, CoinsAre
<1>2. coins \in Seq(Pairs)
  <2>1. coins \in [1 .. Len(us) -> Pairs]
    BY <1>1
  <2> HIDE DEF coins, Pairs
  <2> QED BY <1>1, <2>1, SeqDef
<1>3. CASE style = "p2pkh"
  <2>1. Sighash(style, skeleton, us, i) = [tx |-> skeleton, input |-> i, code |-> us[i].at]
    BY <1>3 DEF Sighash
  <2>2. Sighash(style, skeleton, us, i) \in [tx : Skeletons, input : Nat, code : Styles]
    BY <1>1, <2>1
  <2> QED BY <2>2 DEF Sighashes
<1>4. CASE style = "p2wpkh"
  <2>1. Sighash(style, skeleton, us, i) =
            [tx |-> skeleton, input |-> i, code |-> us[i].at, amount |-> us[i].amount]
    BY <1>4 DEF Sighash
  <2>2. Sighash(style, skeleton, us, i) \in
            [tx : Skeletons, input : Nat, code : Styles, amount : Nat]
    BY <1>1, <2>1
  <2> QED BY <2>2 DEF Sighashes
<1>5. CASE style = "p2tr"
  <2>1. Sighash(style, skeleton, us, i) = [tx |-> skeleton, input |-> i, coins |-> coins]
    BY <1>5 DEF Sighash
  <2> HIDE DEF coins
  <2>2. Sighash(style, skeleton, us, i) \in [tx : Skeletons, input : Nat, coins : Seq(Pairs)]
    BY <1>1, <1>2, <2>1
  <2> QED BY <2>2 DEF Sighashes
<1> QED BY <1>3, <1>4, <1>5 DEF Styles

LEMMA SignedType ==
    ASSUME NEW us \in Seq(AllCoins), NEW style \in Styles, NEW sats \in Nat, NEW h \in Nat,
           NEW sizes \in [DOMAIN us -> SigSizes]
    PROVE  SignSweep(style, us, To, sats, h, sizes) \in Transactions
<1> DEFINE skeleton == Skeleton(us, To, sats, h)
           sigs == [i \in DOMAIN us |-> Sighash(style, skeleton, us, i)]
           Ids == {c.id : c \in AllCoins}
<1>1. Len(us) \in Nat /\ DOMAIN us = 1 .. Len(us)
  BY LenProperties
<1>2. skeleton \in Skeletons
  <2>1. skeleton.vin \in Seq(Ids)
    BY NamedAgain
  <2>2. skeleton = [vin |-> skeleton.vin, to |-> To, sats |-> sats, locktime |-> h]
    BY DEF Skeleton
  <2>3. To \in DOMAIN dust_sats
    BY ArgumentsAssumption
  <2> HIDE DEF skeleton
  <2> QED BY <2>1, <2>2, <2>3 DEF Skeletons
<1>3. sigs \in Seq(Sighashes)
  <2>1. sigs \in [1 .. Len(us) -> Sighashes]
    BY <1>1, <1>2, SighashIs
  <2> HIDE DEF sigs
  <2> QED BY <1>1, <2>1, SeqDef
<1>4. sizes \in Seq(SigSizes)
  BY <1>1, SeqDef
<1>5. SignSweep(style, us, To, sats, h, sizes) =
          [skeleton |-> skeleton, from |-> style, sizes |-> sizes, sigs |-> sigs]
  BY DEF SignSweep
<1> HIDE DEF skeleton, sigs
<1> QED BY <1>2, <1>3, <1>4, <1>5 DEF Transactions

LEMMA DustIs == \A to \in DOMAIN dust_sats : dust_sats[to] \in Nat
BY DEF dust_sats

LEMMA NoLess == \A a \in Nat : \A b \in Nat \ {0} : a * b \in Nat /\ a <= a * b
<1> SUFFICES ASSUME NEW a \in Nat, NEW b \in Nat \ {0} PROVE a * b \in Nat /\ a <= a * b
  OBVIOUS
<1>1. PICK c \in Nat : b = c + 1
  <2>1. b - 1 \in Nat /\ b = (b - 1) + 1
    OBVIOUS
  <2> QED BY <2>1
<1>2. a * b = a * c + a
  BY <1>1
<1>3. a * c \in Nat
  OBVIOUS
<1> QED BY <1>2, <1>3

\* A signed transaction is valid with the coins it was made from, and pays
\* the fee.  The height is that of the scan.
LEMMA SignedIsValid ==
    ASSUME NEW style \in Styles, NEW us, NEW h \in FirstTip .. tip, Ripe(us, style, h), tip \in Nat,
           NEW rate \in Nat \ {0}, NEW fee, fee = EstimateVsize(style, Len(us), To) * rate,
           EstimateVsize(style, Len(us), To) <= MaxVsize,
           fee < Amounts(us), dust_sats[To] <= Amounts(us) - fee,
           NEW sizes \in [DOMAIN us -> SigSizes]
    PROVE  LET t == SignSweep(style, us, To, Amounts(us) - fee, h, sizes) IN
           /\ t \in Transactions /\ IsValid(t, AllCoins, tip)
           /\ Amounts(us) - fee \in Nat /\ fee \in Nat
<1> DEFINE sats == Amounts(us) - fee
           t == SignSweep(style, us, To, sats, h, sizes)
           vin == Skeleton(us, To, sats, h).vin
           n == Len(us)
<1>1. us \in Seq(AllCoins) /\ us # <<>> /\ Coins(us, style)
  BY DEF Ripe, Coins
<1>2. n \in Nat /\ n # 0 /\ DOMAIN us = 1 .. n /\ \A i \in DOMAIN us : us[i] \in AllCoins
  BY <1>1, LenProperties, ElementOfSeq, EmptySeq
<1>3. h \in Nat /\ h <= tip
  BY BoundsAssumption
<1>4. To \in DOMAIN dust_sats
  BY ArgumentsAssumption
<1>5. sizes \in [1 .. n -> 1 .. DummyEcdsa]
  BY <1>2, SizesAssumption
<1>6. /\ TxVsize(style, n, sizes, To) \in Nat /\ EstimateVsize(style, n, To) \in Nat
      /\ TxVsize(style, n, sizes, To) <= EstimateVsize(style, n, To)
  <2> HIDE DEF n
  <2> QED BY <1>2, <1>4, <1>5, EstimateIs
<1>7. fee \in Nat /\ EstimateVsize(style, n, To) <= fee
  BY <1>6, NoLess
<1>8. sats \in Nat
  <2>1. Amounts(us) \in Nat
    BY <1>1, AmountsAre
  <2> QED BY <2>1, <1>7
<1>9. t \in Transactions
  <2> HIDE DEF sats
  <2> QED BY <1>1, <1>3, <1>8, SignedType
<1>10. /\ t.skeleton = Skeleton(us, To, sats, h) /\ t.skeleton.vin = vin
       /\ t.skeleton.to = To /\ t.skeleton.sats = sats /\ t.skeleton.locktime = h
       /\ t.from = style /\ t.sizes = sizes
       /\ t.sigs = [i \in DOMAIN us |-> Sighash(style, t.skeleton, us, i)]
  BY DEF SignSweep, Skeleton
<1> HIDE DEF t, sats
<1>11. /\ DOMAIN vin = DOMAIN us /\ Len(vin) = n /\ vin \in Seq({c.id : c \in AllCoins})
       /\ Named(vin) = us
  <2>1. vin \in Seq({c.id : c \in AllCoins}) /\ DOMAIN vin = DOMAIN us
    BY <1>1, NamedAgain
  <2>2. Len(vin) = Len(us)
    <3> DEFINE Ids == {c.id : c \in AllCoins}
    <3>1. vin \in Seq(Ids)
      BY <2>1
    <3> HIDE DEF vin, Ids, n
    <3> QED BY <2>1, <3>1, <1>1, LenProperties
  <2>3. Named(vin) = us
    BY <1>1, NamedAgain
  <2> HIDE DEF vin
  <2> QED BY <2>1, <2>2, <2>3
<1>12. vin # <<>> /\ Cardinality(SpentBy(t)) = Len(vin)
  <2>1. Cardinality(ElementsOf(vin)) = n
    BY <1>1, NoneTwice
  <2>2. vin # <<>>
    <3> HIDE DEF vin
    <3> QED BY <1>2, <1>11, EmptySeq
  <2> HIDE DEF vin
  <2> QED BY <2>1, <2>2, <1>10, <1>11 DEF SpentBy
<1> HIDE DEF vin
<1>13. FeeOf(t, AllCoins) = fee
  <2>1. FeeOf(t, AllCoins) = Amounts(us) - sats
    BY <1>10, <1>11 DEF FeeOf, Named
  <2>2. Amounts(us) \in Nat
    BY <1>1, AmountsAre
  <2> QED BY <2>1, <2>2, <1>7 DEF sats
<1>14. Vsize(t) = TxVsize(style, n, sizes, To)
  BY <1>10, <1>11 DEF Vsize
<1>15. Vsize(t) \in Nat /\ fee >= Vsize(t) /\ Vsize(t) <= MaxVsize
  BY <1>6, <1>7, <1>14, BoundsAssumption
<1>16. ASSUME NEW i \in DOMAIN us
       PROVE  /\ t.sigs[i] = Sighash(us[i].at, t.skeleton, us, i)
              /\ us[i].coinbase => tip + 1 - us[i].height >= 100
  <2>1. us[i].at = style /\ Mature(us[i], h)
    BY DEF Ripe, Coins
  <2>2. us[i].height \in Nat
    BY <1>2, CoinsAre
  <2>3. us[i].coinbase => h - us[i].height + 1 >= 100
    BY <2>1 DEF Mature
  <2> QED BY <2>1, <2>2, <2>3, <1>3, <1>10
<1>17. h < tip + 1 /\ sats >= dust_sats[To]
  <2>1. dust_sats[To] \in Nat
    BY <1>4, DustIs
  <2> QED BY <2>1, <1>3, <1>8 DEF sats
<1>18. IsValid(t, AllCoins, tip)
  <2>1. \A i \in DOMAIN us :
            /\ t.sigs[i] = Sighash(us[i].at, t.skeleton, us, i)
            /\ us[i].coinbase => tip + 1 - us[i].height >= 100
    BY <1>16
  <2>2. [i \in DOMAIN t.skeleton.vin |-> CoinOf(t.skeleton.vin[i], AllCoins)] = us
    BY <1>10, <1>11 DEF Named
  <2>3. /\ t.skeleton.vin # <<>> /\ Cardinality(SpentBy(t)) = Len(t.skeleton.vin)
        /\ t.skeleton.locktime < tip + 1 /\ t.skeleton.sats >= dust_sats[t.skeleton.to]
        /\ FeeOf(t, AllCoins) >= Vsize(t) /\ Vsize(t) <= MaxVsize
    BY <1>10, <1>12, <1>13, <1>15, <1>17
  <2> QED BY <2>1, <2>2, <2>3 DEF IsValid
<1> QED BY <1>7, <1>8, <1>9, <1>18 DEF t, sats

-----------------------------------------------------------------------------
(***************************************************************************)
(* What time does not undo.                                                *)
(***************************************************************************)

\* A valid transaction stays valid: coins grow older, lock times pass.
LEMMA ValidLater ==
    ASSUME NEW t \in Transactions, NEW h \in Nat, NEW k \in Nat, h <= k, IsValid(t, AllCoins, h)
    PROVE  IsValid(t, AllCoins, k)
<1> DEFINE vin == t.skeleton.vin
           coins == [i \in DOMAIN vin |-> CoinOf(vin[i], AllCoins)]
           Ids == {c.id : c \in AllCoins}
<1>1. vin \in Seq(Ids) /\ t.skeleton.locktime \in Nat
  BY DEF Transactions, Skeletons
<1>2. ASSUME NEW i \in DOMAIN coins PROVE coins[i].height \in Nat
  <2>1. i \in DOMAIN vin /\ coins[i] = CoinOf(vin[i], AllCoins)
    OBVIOUS
  <2>2. \E c \in AllCoins : c.id = vin[i]
    <3>1. vin[i] \in Ids
      <4> HIDE DEF vin, Ids, coins
      <4> QED BY <1>1, <2>1, ElementOfSeq, LenProperties
    <3> QED BY <3>1
  <2>3. CoinOf(vin[i], AllCoins) \in AllCoins
    BY <2>2 DEF CoinOf
  <2> HIDE DEF coins, vin
  <2> QED BY <2>1, <2>3, CoinsAre
<1>3. /\ \A i \in DOMAIN coins :
             /\ t.sigs[i] = Sighash(coins[i].at, t.skeleton, coins, i)
             /\ coins[i].coinbase => h + 1 - coins[i].height >= 100
      /\ t.skeleton.locktime < h + 1
  BY DEF IsValid
<1>4. ASSUME NEW i \in DOMAIN coins, coins[i].coinbase
      PROVE  k + 1 - coins[i].height >= 100
  <2>1. coins[i].height \in Nat /\ h + 1 - coins[i].height >= 100
    BY <1>2, <1>3, <1>4
  <2> QED BY <2>1
<1>5. t.skeleton.locktime < k + 1
  BY <1>1, <1>3
<1>6. \A i \in DOMAIN coins :
          /\ t.sigs[i] = Sighash(coins[i].at, t.skeleton, coins, i)
          /\ coins[i].coinbase => k + 1 - coins[i].height >= 100
  BY <1>3, <1>4
<1> QED BY <1>5, <1>6 DEF IsValid

\* What has been sent is a transaction.
LEMMA SentAre == ASSUME Wires PROVE Sending \subseteq [method : {"sendrawtransaction"}, tx : Transactions]
<1> SUFFICES ASSUME NEW r \in Sending
             PROVE  r \in [method : {"sendrawtransaction"}, tx : Transactions]
  OBVIOUS
<1>1. r \in Requests /\ r.method = "sendrawtransaction"
  BY DEF Sending, Wires, RpcShape
<1>2. r \notin [method : {"scantxoutset"}, at : Styles] /\ r \notin [method : {"estimatesmartfee"}]
  BY <1>1
<1> QED BY <1>1, <1>2 DEF Requests

\* Nothing that the process keeps changes; the node may have gone on.
Onward ==
    /\ UNCHANGED sweepVars
    /\ Nodes' /\ tip <= tip' /\ accepted \subseteq accepted'

LEMMA MeansLater ==
    ASSUME Onward, Nodes, NEW v, Means(v) PROVE Means(v)'
<1>1. FirstTip \in Nat /\ MaxTip \in Nat /\ tip \in Int /\ tip' \in Int /\ tip <= tip'
  BY BoundsAssumption DEF Onward, Nodes
<1>2. \A n \in FirstTip .. tip : n \in FirstTip .. tip'
  BY <1>1
<1>3. pc' = pc /\ tx' = tx /\ Style' = Style /\ accepted \subseteq accepted'
  BY DEF Onward, sweepVars, Style
<1> QED BY <1>2, <1>3 DEF Means

LEMMA Later ==
    ASSUME IInv, Onward, Wires', Asked', Told', Sending' \subseteq Sending PROVE IInv'
<1>1. /\ arguments' = arguments /\ runs' = runs /\ pc' = pc /\ item' = item /\ spend' = spend
      /\ utxos' = utxos /\ height' = height /\ tx' = tx /\ out' = out
      /\ printed' = printed /\ exit' = exit
  BY DEF Onward, sweepVars
<1>2. FirstTip \in Nat /\ MaxTip \in Nat /\ tip \in FirstTip .. MaxTip
      /\ tip' \in FirstTip .. MaxTip /\ tip <= tip' /\ accepted \subseteq accepted'
  BY BoundsAssumption DEF IInv, Onward, Nodes
<1>3. Places'
  BY <1>1 DEF IInv, Places
<1>4. Progress'
  BY <1>1 DEF IInv, Progress, Written, Lengths
<1>5. Carried'
  <2>1. \A n \in FirstTip .. tip : n \in FirstTip .. tip'
    BY <1>2
  <2> QED BY <2>1, <1>1 DEF IInv, Carried, Style
<1>6. ValidForEver'
  <2> SUFFICES ASSUME NEW r \in Sending' PROVE IsValid(r.tx, AllCoins, tip')
    BY DEF ValidForEver
  <2>1. r.tx \in Transactions /\ IsValid(r.tx, AllCoins, tip)
    BY SentAre DEF IInv, ValidForEver
  <2>2. tip \in Nat /\ tip' \in Nat
    BY <1>2
  <2> QED BY <1>2, <2>1, <2>2, ValidLater
<1>7. Honest'
  BY <1>1, <1>2 DEF IInv, Honest
<1> QED BY <1>3, <1>4, <1>5, <1>6, <1>7 DEF IInv, Onward

-----------------------------------------------------------------------------
(***************************************************************************)
(* The steps of a call, of the connection and of the signal.               *)
(***************************************************************************)

Still == UNCHANGED <<sweepVars, nodeVars>>

LEMMA StillOn ==
    ASSUME Still, IInv PROVE Onward /\ \A v : Means(v) => Means(v)'
<1>1. tip' = tip /\ accepted' = accepted /\ UNCHANGED sweepVars /\ Nodes'
  BY DEF Still, nodeVars, IInv, Nodes
<1>2. tip \in Int
  BY BoundsAssumption DEF IInv, Nodes
<1>3. Onward
  BY <1>1, <1>2 DEF Onward
<1> QED BY <1>3, MeansLater DEF IInv

\* The call is over: what it returns, if good, means what it says.
LEMMA Returns ==
    ASSUME IInv, Still, rpc # "idle", NEW outcome, Return(outcome),
           outcome.ok => Means(outcome.value)
    PROVE  IInv'
<1>1. /\ rpc' = "idle" /\ request' = Nothing /\ reply' = outcome /\ addresses' = 0
      /\ conn' = "none" /\ pending' = Nothing /\ answer' = Nothing /\ sent' = 0
      /\ orphans' = (IF pending = Nothing THEN orphans ELSE orphans \cup {pending})
      /\ g_stop' = g_stop
  BY DEF Return, Hangup
<1>2. pending # Nothing => pending = request /\ pending \in Requests
  BY DEF IInv, Wires, RpcShape
<1>3. orphans' \subseteq Requests
  BY <1>1, <1>2 DEF IInv, Wires
<1>4. Wires'
  <2>1. RpcShape'
    BY <1>1, MaxAddressesAssumption DEF RpcShape
  <2>2. g_stop' \in BOOLEAN
    BY <1>1 DEF IInv, Wires
  <2> QED BY <1>1, <1>3, <2>1, <2>2 DEF Wires
<1>5. Asked'
  BY <1>1 DEF Asked
<1>6. Told'
  <2>1. outcome.ok => Means(outcome.value)'
    BY StillOn
  <2> QED BY <1>1, <2>1 DEF Told
<1>7. Sending' \subseteq Sending
  BY <1>1 DEF Sending
<1> QED BY <1>4, <1>5, <1>6, <1>7, StillOn, Later

LEMMA Fails ==
    ASSUME IInv, Still, rpc # "idle", NEW why, Return(Failure(why)) PROVE IInv'
<1>1. ~Failure(why).ok
  BY DEF Failure
<1> QED BY <1>1, Returns

\* The result of a complete answer is the one that is returned.
LEMMA ReplyMeans ==
    ASSUME IInv, NEW outcome, outcome = ReplyOf(answer, sent), outcome.ok
    PROVE  Means(outcome.value)
<1>1. \A why : ~Failure(why).ok
  BY DEF Failure
<1>2. /\ sent # 0 /\ answer.status = 200 /\ ~answer.error /\ outcome = Success(answer.result)
  <2>1. ASSUME NEW why PROVE outcome # Failure(why)
    BY <1>1
  <2>2. sent # 0
    BY <2>1 DEF ReplyOf
  <2>3. ReplyOf(answer, sent) =
            IF answer.status = 401 THEN Failure("rpc authentication failed")
            ELSE IF answer.status # 200 THEN Failure("rpc request failed")
            ELSE IF sent = 1 THEN Failure("invalid JSON")
            ELSE IF answer.error THEN Failure("rpc request failed")
            ELSE IF answer.result = Nothing THEN Failure("invalid rpc response")
            ELSE Success(answer.result)
    BY <2>2, Zenon DEF ReplyOf
  <2>4. answer.status # 401
    BY <2>1, <2>3, Zenon
  <2>5. answer.status = 200
    BY <2>1, <2>3, <2>4, Zenon
  <2>6. ReplyOf(answer, sent) =
            IF sent = 1 THEN Failure("invalid JSON")
            ELSE IF answer.error THEN Failure("rpc request failed")
            ELSE IF answer.result = Nothing THEN Failure("invalid rpc response")
            ELSE Success(answer.result)
    BY <2>3, <2>4, <2>5, Zenon
  <2>7. sent # 1
    BY <2>1, <2>6, Zenon
  <2>8. ReplyOf(answer, sent) =
            IF answer.error THEN Failure("rpc request failed")
            ELSE IF answer.result = Nothing THEN Failure("invalid rpc response")
            ELSE Success(answer.result)
    BY <2>6, <2>7
  <2>9. ~answer.error
    BY <2>1, <2>8, Zenon
  <2>10. outcome = Success(answer.result)
    BY <2>1, <2>8, <2>9, Zenon
  <2> QED BY <2>2, <2>5, <2>9, <2>10
<1>3. answer # Nothing
  BY <1>2 DEF IInv, Wires, RpcShape
<1>4. outcome.value = answer.result
  BY <1>2 DEF Success
<1> QED BY <1>2, <1>3, <1>4 DEF IInv, Told

LEMMA CallKeeps == ASSUME IInv, CallSteps, Still PROVE IInv'
<1>1. CASE TryNext
  <2>1. Wires'
    BY <1>1, MaxAddressesAssumption DEF TryNext, wireVars, IInv, Wires, RpcShape
  <2>2. Asked' /\ Told' /\ Sending' \subseteq Sending
    BY <1>1, StillOn
       DEF TryNext, wireVars, IInv, Asked, Told, Still, sweepVars, Style, Sending
  <2> QED BY <2>1, <2>2, StillOn, Later
<1>2. CASE CannotConnect
  BY <1>2, Fails DEF CannotConnect
<1>3. CASE Connected
  <2>1. Wires'
    BY <1>3 DEF Connected, IInv, Wires, RpcShape
  <2>2. Asked' /\ Told' /\ Sending' \subseteq Sending
    BY <1>3, StillOn DEF Connected, IInv, Asked, Told, Still, sweepVars, Style, Sending
  <2> QED BY <2>1, <2>2, StillOn, Later
<1>4. CASE Interrupted
  <2>1. rpc # "idle"
    BY <1>4 DEF Interrupted, Waiting
  <2> QED BY <1>4, <2>1, Fails DEF Interrupted
<1>5. CASE TimedOut
  <2>1. rpc # "idle"
    BY <1>5 DEF TimedOut, Waiting
  <2> QED BY <1>5, <2>1, Fails DEF TimedOut
<1>6. CASE Write
  <2>1. request # Nothing /\ answer = Nothing
    BY <1>6 DEF Write, IInv, Wires, RpcShape
  <2>2. Wires'
    BY <1>6, <2>1 DEF Write, IInv, Wires, RpcShape
  <2>3. Asked' /\ Told' /\ Sending' \subseteq Sending
    BY <1>6, StillOn DEF Write, IInv, Asked, Told, Still, sweepVars, Style, Sending
  <2> QED BY <2>2, <2>3, StillOn, Later
<1>7. CASE WriteFails
  <2>1. rpc # "idle"
    BY <1>7 DEF WriteFails
  <2> QED BY <1>7, <2>1, Fails DEF WriteFails
<1>8. CASE ReadEnd
  <2>1. rpc # "idle"
    BY <1>8 DEF ReadEnd
  <2> QED BY <1>8, <2>1, ReplyMeans, Returns DEF ReadEnd
<1>9. CASE ReadFails
  <2>1. rpc # "idle"
    BY <1>9 DEF ReadFails
  <2> QED BY <1>9, <2>1, Fails DEF ReadFails
<1> QED BY <1>1, <1>2, <1>3, <1>4, <1>5, <1>6, <1>7, <1>8, <1>9 DEF CallSteps

LEMMA OutsideKeeps == ASSUME IInv, Outside PROVE IInv'
<1>1. Still
  BY DEF Outside, Still
<1>2. CASE SendPart
  <2>1. Wires'
    <3>1. sent \in 0 .. 2 /\ \A k \in 0 .. 2 : k + 1 .. 2 \subseteq 0 .. 2
      BY DEF IInv, Wires, RpcShape
    <3>2. sent' \in 0 .. 2
      BY <1>2, <3>1 DEF SendPart
    <3> QED BY <1>2, <3>2 DEF SendPart, callVars, IInv, Wires, RpcShape
  <2>2. Asked' /\ Told' /\ Sending' \subseteq Sending
    BY <1>1, <1>2, StillOn
       DEF SendPart, callVars, IInv, Asked, Told, Still, sweepVars, Style, Sending
  <2> QED BY <1>1, <2>1, <2>2, StillOn, Later
<1>3. CASE CloseConn
  <2>1. orphans' \subseteq Requests
    BY <1>3 DEF CloseConn, IInv, Wires, RpcShape
  <2>2. Wires'
    BY <1>3, <2>1 DEF CloseConn, callVars, IInv, Wires, RpcShape
  <2>3. Asked' /\ Told' /\ Sending' \subseteq Sending
    BY <1>1, <1>3, StillOn
       DEF CloseConn, callVars, IInv, Asked, Told, Still, sweepVars, Style, Sending
  <2> QED BY <1>1, <2>2, <2>3, StillOn, Later
<1>4. CASE Trickle
  <2>1. Wires'
    BY <1>4 DEF Trickle, callVars, IInv, Wires, RpcShape
  <2>2. Asked' /\ Told' /\ Sending' \subseteq Sending
    BY <1>1, <1>4, StillOn
       DEF Trickle, callVars, IInv, Asked, Told, Still, sweepVars, Style, Sending
  <2> QED BY <1>1, <2>1, <2>2, StillOn, Later
<1>5. CASE RequestStop
  <2>1. Wires'
    BY <1>5 DEF RequestStop, callVars, wireVars, IInv, Wires, RpcShape
  <2>2. Asked' /\ Told' /\ Sending' \subseteq Sending
    BY <1>1, <1>5, StillOn
       DEF RequestStop, callVars, wireVars, IInv, Asked, Told, Still, sweepVars, Style, Sending
  <2> QED BY <1>1, <2>1, <2>2, StillOn, Later
<1> QED BY <1>2, <1>3, <1>4, <1>5 DEF Outside, Wire

-----------------------------------------------------------------------------
(***************************************************************************)
(* The steps of the node.                                                  *)
(***************************************************************************)

\* An answer that means what it says.
LEMMA Answers ==
    ASSUME IInv, Onward, NEW r, Answer(r),
           r.status = 200 /\ ~r.error => Means(r.result)'
    PROVE  IInv'
<1>1. rpc = "read" /\ request = pending /\ pending \in Requests
  BY DEF Answer, IInv, Wires, RpcShape
<1>2. reply = Nothing /\ answer = Nothing /\ sent = 0
  BY <1>1 DEF Answer, IInv, Wires, RpcShape
<1>3. Wires'
  BY <1>1, <1>2 DEF Answer, callVars, IInv, Wires, RpcShape
<1>4. Asked'
  BY DEF Answer, callVars, IInv, Asked, Onward, sweepVars, Style
<1>5. Told'
  BY <1>2 DEF Answer, callVars, Told
<1>6. Sending' \subseteq Sending
  BY DEF Answer, callVars, Sending
<1> QED BY <1>3, <1>4, <1>5, <1>6, Later

\* The request that the node has is the one that sweep_one waits for.
LEMMA PendingIs ==
    ASSUME IInv, pending # Nothing
    PROVE  /\ \/ pc = "scan" /\ pending = ScanRequest(Style)
              \/ pc = "fee" /\ pending = EstimateRequest
              \/ pc = "send" /\ pending = SendRequest(tx.tx)
           /\ rpc = "read" /\ pending \in Requests
<1>1. rpc = "read" /\ request = pending /\ pending \in Requests
  BY DEF IInv, Wires, RpcShape
<1>2. rpc # "idle"
  BY <1>1
<1>3. pc \in {"scan", "fee", "send"}
  BY <1>2 DEF IInv, Asked, Waits
<1>4. /\ pc = "scan" => pending = ScanRequest(Style)
      /\ pc = "fee"  => pending = EstimateRequest
      /\ pc = "send" => pending = SendRequest(tx.tx)
  BY <1>1, <1>2 DEF IInv, Asked
<1> QED BY <1>1, <1>3, <1>4

\* What is accepted.
LEMMA AcceptIs ==
    ASSUME IInv, NEW t, Accept(t), UNCHANGED sweepVars
    PROVE  Onward /\ t \in accepted'
<1>1. tip' = tip /\ ledger' = ledger /\ accepted' = accepted \cup {t}
  BY DEF Accept
<1>2. mempool' \subseteq accepted'
  BY DEF Accept, IInv, Nodes
<1>3. tip \in Int
  BY BoundsAssumption DEF IInv, Nodes
<1> QED BY <1>1, <1>2, <1>3 DEF Onward, IInv, Nodes

LEMMA NodeKeeps == ASSUME IInv, Node PROVE IInv'
<1>1. CASE NodeRefuses
  <2>1. PICK r \in {RpcError, Denied} : Answer(r) /\ UNCHANGED <<sweepVars, nodeVars>>
    BY <1>1 DEF NodeRefuses
  <2>2. r.status # 200
    BY DEF RpcError, Denied
  <2> QED BY <2>1, <2>2, StillOn, Answers DEF Still
<1>2. CASE NodeScans
  <2>1. pending # Nothing /\ pending.method = "scantxoutset" /\ Still
    BY <1>2 DEF NodeScans, Still
  <2>2. PICK ok \in BOOLEAN :
            Answer(Reply200([success |-> ok, height |-> tip, unspents |-> CoinsAt(pending.at)]))
    BY <1>2 DEF NodeScans
  <2>3. pc = "scan" /\ pending = ScanRequest(Style)
    BY <2>1, PendingIs DEF EstimateRequest, SendRequest
  <2>0. PICK v : v = [success |-> ok, height |-> tip, unspents |-> CoinsAt(pending.at)]
    OBVIOUS
  <2>4. pending.at = Style
    BY <2>3 DEF ScanRequest
  <2>5. v.height \in FirstTip .. tip
    BY <2>0, BoundsAssumption DEF IInv, Nodes
  <2>6. Coins(v.unspents, Style)
    <3>1. ledger \subseteq AllCoins
      BY DEF IInv, Nodes
    <3>2. Coins(CoinsAt(Style), Style)
      BY <3>1, CoinsAtAre
    <3> QED BY <3>2, <2>0, <2>4
  <2>7. Means(v)
    BY <2>3, <2>5, <2>6 DEF Means
  <2>8. Means(v)' /\ Onward
    BY <2>1, <2>7, StillOn
  <2>9. Reply200(v).result = v
    BY DEF Reply200
  <2>10. Answer(Reply200(v))
    BY <2>2, <2>0
  <2> QED BY <2>8, <2>9, <2>10, Answers
<1>3. CASE NodeEstimates
  <2>1. pending # Nothing /\ pending.method = "estimatesmartfee" /\ Still
    BY <1>3 DEF NodeEstimates, Still
  <2>2. PICK f \in Feerates : Answer(Reply200([feerate |-> f]))
    BY <1>3 DEF NodeEstimates
  <2>3. pc = "fee"
    BY <2>1, PendingIs DEF ScanRequest, SendRequest
  <2> DEFINE v == [feerate |-> f]
  <2>4. v.feerate \in Feerates
    OBVIOUS
  <2>5. Answer(Reply200(v))
    BY <2>2
  <2> HIDE DEF v
  <2>6. Means(v)
    BY <2>3, <2>4 DEF Means
  <2>7. Means(v)' /\ Onward
    BY <2>1, <2>6, StillOn
  <2>8. Reply200(v).result = v
    BY DEF Reply200
  <2> QED BY <2>5, <2>7, <2>8, Answers
<1>4. CASE NodeAccepts
  <2>1. /\ pending # Nothing /\ pending.method = "sendrawtransaction" /\ Accept(pending.tx)
        /\ Answer(Reply200("txid")) /\ UNCHANGED sweepVars
    BY <1>4 DEF NodeAccepts
  <2>2. pc = "send" /\ pending = SendRequest(tx.tx)
    BY <2>1, PendingIs DEF ScanRequest, EstimateRequest
  <2>3. pending.tx = tx.tx
    BY <2>2 DEF SendRequest
  <2>4. Onward /\ tx.tx \in accepted'
    BY <2>1, <2>3, AcceptIs
  <2>5. pc' = "send" /\ tx' = tx
    BY <2>1, <2>2 DEF sweepVars
  <2>6. \A v : Means(v)'
    BY <2>4, <2>5 DEF Means
  <2> QED BY <2>1, <2>4, <2>6, Answers
<1>5. CASE OrphanEnds
  <2>1. PICK r \in orphans :
            /\ orphans' = orphans \ {r}
            /\ Accept(r.tx) \/ UNCHANGED nodeVars
            /\ UNCHANGED <<g_stop, callVars, conn, pending, answer, sent, sweepVars>>
    BY <1>5 DEF OrphanEnds
  <2>2. UNCHANGED sweepVars
    BY <2>1
  <2>3. Onward
    <3>1. CASE Accept(r.tx)
      BY <2>2, <3>1, AcceptIs
    <3>2. CASE UNCHANGED nodeVars
      BY <2>2, <3>2, StillOn DEF Still
    <3> QED BY <2>1, <3>1, <3>2
  <2>4. \A v : Means(v) => Means(v)'
    BY <2>3, MeansLater DEF IInv
  <2>5. Wires'
    BY <2>1 DEF callVars, IInv, Wires, RpcShape
  <2>6. Asked' /\ Told' /\ Sending' \subseteq Sending
    BY <2>1, <2>4 DEF callVars, sweepVars, IInv, Asked, Told, Style, Sending
  <2> QED BY <2>3, <2>5, <2>6, Later
<1>6. CASE Mine
  <2>1. PICK elsewhere \in {{}} \cup {{c} : c \in ledger}, taken \in {mempool, {}} :
            /\ tip < MaxTip /\ tip' = tip + 1
            /\ ledger' = {c \in ledger : c.id \notin UNION {SpentBy(t) : t \in taken}
                                          /\ c \notin elsewhere}
                            \cup (IF tip = FirstTip THEN {Arrival} ELSE {})
            /\ mempool' = {t \in mempool \ taken : SpentBy(t) \cap IdsIn(elsewhere) = {}}
            /\ UNCHANGED <<rpcVars, sweepVars, accepted>>
    BY <1>6 DEF Mine
  <2>2. tip \in FirstTip .. MaxTip /\ FirstTip \in Nat /\ MaxTip \in Nat
    BY BoundsAssumption DEF IInv, Nodes
  <2>3. tip' \in FirstTip .. MaxTip /\ tip <= tip'
    BY <2>1, <2>2
  <2>4. ledger' \subseteq AllCoins
    <3>1. Arrival \in AllCoins
      BY DEF AllCoins
    <3>2. ledger \subseteq AllCoins
      BY DEF IInv, Nodes
    <3> QED BY <2>1, <3>1, <3>2
  <2>5. mempool' \subseteq accepted'
    BY <2>1 DEF IInv, Nodes
  <2>6. Onward
    BY <2>1, <2>3, <2>4, <2>5 DEF Onward, Nodes
  <2>7. \A v : Means(v) => Means(v)'
    BY <2>6, MeansLater DEF IInv
  <2>8. Wires'
    BY <2>1 DEF rpcVars, callVars, wireVars, IInv, Wires, RpcShape
  <2>9. Asked' /\ Told' /\ Sending' \subseteq Sending
    BY <2>1, <2>7 DEF rpcVars, callVars, wireVars, sweepVars, IInv, Asked, Told, Style, Sending
  <2> QED BY <2>6, <2>8, <2>9, Later
<1> QED BY <1>1, <1>2, <1>3, <1>4, <1>5, <1>6 DEF Node

-----------------------------------------------------------------------------
(***************************************************************************)
(* The steps of sweep_one and of the loop over stdin.                      *)
(***************************************************************************)

\* The objects of one more item.
LEMMA ItemsAre ==
    ASSUME arguments \in Arguments
    PROVE  /\ arguments.items \in Seq(Seq(Styles) \ {<<>>}) /\ Len(arguments.items) \in Nat
           /\ DOMAIN arguments.items = 1 .. Len(arguments.items)
           /\ \A i \in 1 .. Len(arguments.items) :
                 /\ arguments.items[i] \in Seq(Styles)
                 /\ Len(arguments.items[i]) \in Nat /\ Len(arguments.items[i]) >= 1
                 /\ \A s \in 1 .. Len(arguments.items[i]) : arguments.items[i][s] \in Styles
<1> DEFINE items == arguments.items
           Item  == Seq(Styles) \ {<<>>}
<1>1. items \in Seq(Item)
  BY ArgumentsAssumption DEF Arguments
<1> HIDE DEF items, Item
<1>2. Len(items) \in Nat /\ DOMAIN items = 1 .. Len(items)
  BY <1>1, LenProperties
<1>3. ASSUME NEW i \in 1 .. Len(items)
      PROVE  /\ items[i] \in Seq(Styles) /\ Len(items[i]) \in Nat /\ Len(items[i]) >= 1
             /\ \A s \in 1 .. Len(items[i]) : items[i][s] \in Styles
  <2>1. items[i] \in Item
    BY <1>1, <1>2, ElementOfSeq
  <2>2. items[i] \in Seq(Styles) /\ items[i] # <<>>
    BY <2>1 DEF Item
  <2>3. Len(items[i]) \in Nat /\ Len(items[i]) # 0
    BY <2>2, LenProperties, EmptySeq
  <2>4. \A s \in 1 .. Len(items[i]) : items[i][s] \in Styles
    BY <2>2, ElementOfSeq
  <2> QED BY <2>2, <2>3, <2>4
<1> QED BY <1>1, <1>2, <1>3 DEF items, Item

LEMMA WrittenIs ==
    ASSUME arguments \in Arguments
    PROVE  /\ Written(0) = 0
           /\ \A n \in 1 .. Len(arguments.items) :
                 /\ Written(n - 1) \in Nat
                 /\ Written(n) = Written(n - 1) + Len(arguments.items[n])
           /\ Written(Len(arguments.items)) = Total(Lengths)
<1> DEFINE m == Len(arguments.items)
           w == Lengths
<1>1. m \in Nat /\ DOMAIN w = 1 .. m
  BY ItemsAre DEF Lengths
<1>2. \A i \in 1 .. m : w[i] = Len(arguments.items[i]) /\ w[i] \in Nat
  BY ItemsAre DEF Lengths
<1>3. Written(0) = 0
  <2>1. 1 .. 0 = {}
    OBVIOUS
  <2> QED BY <2>1, SumEmpty DEF Written
<1>4. ASSUME NEW n \in 1 .. m
      PROVE  Written(n - 1) \in Nat /\ Written(n) = Written(n - 1) + w[n]
  <2> HIDE DEF m, w
  <2>1. n \in Nat /\ n - 1 \in Nat /\ n \notin 1 .. n - 1 /\ 1 .. n = (1 .. n - 1) \cup {n}
    BY <1>1
  <2>2. \A i \in 1 .. n : i \in 1 .. m
    BY <1>1
  <2>3. IsFiniteSet(1 .. n - 1)
    BY <2>1, FS_Interval
  <2>4. \A i \in (1 .. n - 1) \cup {n} : w[i] \in Nat /\ w[i] \in Int
    BY <2>1, <2>2, <1>2
  <2> DEFINE S == 1 .. n - 1
  <2>5. SumFunctionOnSet(w, S) \in Nat
    <3> HIDE DEF S
    <3>1. IsFiniteSet(S) /\ \A i \in S : w[i] \in Nat
      BY <2>3, <2>4 DEF S
    <3> QED BY <3>1, SumType
  <2>6. SumFunctionOnSet(w, S \cup {n}) = SumFunctionOnSet(w, S) + w[n]
    <3>1. n \notin S /\ IsFiniteSet(S) /\ \A i \in S \cup {n} : w[i] \in Int
      BY <2>1, <2>3, <2>4
    <3> HIDE DEF S
    <3> QED BY <3>1, SumAdd
  <2> QED BY <2>1, <2>5, <2>6 DEF Written, w
<1>5. Written(m) = Total(w)
  BY <1>1 DEF Written, Total
<1> QED BY <1>2, <1>3, <1>4, <1>5

\* A call begins: nothing is under way but what was and the new request.
LEMMA Calls ==
    ASSUME Wires, rpc = "idle", NEW r \in Requests, Call(r)
    PROVE  /\ Wires' /\ rpc' # "idle" /\ request' = r
           /\ reply' = Nothing /\ answer' = Nothing
           /\ \A q \in Sending' : \/ q \in Sending
                                  \/ q = r /\ r.method = "sendrawtransaction"
<1>1. r # Nothing
  BY NothingAssumption
<1>2. pending = Nothing /\ answer = Nothing /\ conn = "none" /\ sent = 0
  BY DEF Wires, RpcShape
<1>3. /\ rpc' = "connect" /\ request' = r /\ reply' = Nothing
      /\ addresses' \in 0 .. MaxAddresses
      /\ g_stop' = g_stop /\ conn' = conn /\ pending' = pending /\ orphans' = orphans
      /\ answer' = answer /\ sent' = sent
  BY DEF Call, wireVars
<1>4. RpcShape'
  BY <1>1, <1>2, <1>3 DEF RpcShape
<1>5. Wires'
  BY <1>2, <1>3, <1>4 DEF Wires
<1>6. ASSUME NEW q \in Sending'
      PROVE  \/ q \in Sending
             \/ q = r /\ r.method = "sendrawtransaction"
  <2>1. q # Nothing /\ q.method = "sendrawtransaction" /\ q \in {r, pending} \cup orphans
    BY <1>3 DEF Sending
  <2> QED BY <2>1 DEF Sending
<1> QED BY <1>2, <1>3, <1>5, <1>6

\* A reply has been used.
LEMMA Consumes ==
    ASSUME Wires, reply # Nothing, Consume
    PROVE  Wires' /\ rpc = "idle" /\ Asked' /\ Told' /\ Sending' = Sending
<1>1. /\ rpc = "idle" /\ rpc' = rpc /\ request' = request /\ addresses' = addresses
      /\ reply' = Nothing /\ g_stop' = g_stop /\ conn' = conn /\ pending' = pending
      /\ orphans' = orphans /\ answer' = answer /\ sent' = sent
  BY DEF Consume, wireVars, Wires
<1>2. answer = Nothing
  BY <1>1 DEF Wires
<1>3. Wires'
  BY <1>1 DEF Wires, RpcShape
<1>4. Asked' /\ Told' /\ Sending' = Sending
  BY <1>1, <1>2 DEF Asked, Told, Sending
<1> QED BY <1>1, <1>3, <1>4

\* Where the replies of a call are used.
AtReply == IInv /\ pc \in Waits /\ reply # Nothing /\ UNCHANGED nodeVars

LEMMA AtReplyIs ==
    ASSUME AtReply
    PROVE  /\ rpc = "idle" /\ Nodes' /\ tip' = tip /\ accepted' = accepted
           /\ Style \in Styles /\ arguments \in Arguments
           /\ item \in 1 .. Len(arguments.items) /\ spend \in 1 .. Len(arguments.items[item])
           /\ Len(out) = spend - 1 /\ Len(printed) = Written(item - 1)
<1>1. item \in 1 .. Len(arguments.items) /\ spend \in 1 .. Len(arguments.items[item])
      /\ Len(out) = spend - 1 /\ Len(printed) = Written(item - 1) /\ arguments \in Arguments
  BY DEF AtReply, IInv, Progress, Places
<1>2. Style \in Styles
  BY <1>1, ItemsAre DEF Style
<1>3. rpc = "idle"
  BY DEF AtReply, IInv, Wires
<1>4. Nodes' /\ tip' = tip /\ accepted' = accepted
  BY DEF AtReply, nodeVars, IInv, Nodes
<1> QED BY <1>1, <1>2, <1>3, <1>4

LEMMA DieKeeps ==
    ASSUME AtReply, NEW status \in {"1", "killed"}, Die(status) PROVE IInv'
<1>1. Wires' /\ Asked' /\ Told' /\ Sending' = Sending
  BY Consumes DEF Die, AtReply, IInv
<1>2. Nodes' /\ tip' = tip /\ accepted' = accepted
  BY AtReplyIs
<1>3. /\ pc' = "end" /\ exit' = status /\ out' = <<>> /\ utxos' = <<>> /\ tx' = Nothing
      /\ arguments' = arguments /\ runs' = runs /\ item' = item /\ spend' = spend
      /\ height' = height /\ printed' = printed
  BY DEF Die
<1>4. status # Nothing /\ status # "0"
  BY NothingAssumption
<1>5. Places'
  <2>1. <<>> \in Seq(AllCoins) /\ <<>> \in Seq(Objects)
    BY EmptySeq
  <2> QED BY <1>3, <1>4, <2>1 DEF AtReply, IInv, Places
<1>6. Progress'
  BY <1>3, <1>4 DEF Progress, Waits
<1>7. Carried'
  BY <1>3 DEF Carried
<1>8. ValidForEver'
  BY <1>1, <1>2 DEF AtReply, IInv, ValidForEver
<1>9. Honest'
  BY <1>2, <1>3 DEF AtReply, IInv, Honest, ElementsOf
<1> QED BY <1>1, <1>2, <1>5, <1>6, <1>7, <1>8, <1>9 DEF IInv

\* One more object.
LEMMA Appended ==
    ASSUME NEW s \in Seq(Objects), NEW o \in Objects
    PROVE  /\ Append(s, o) \in Seq(Objects) /\ Len(Append(s, o)) = Len(s) + 1
           /\ ElementsOf(Append(s, o)) \subseteq ElementsOf(s) \cup {o}
<1> DEFINE t == Append(s, o)
<1>1. Len(s) \in Nat /\ DOMAIN s = 1 .. Len(s)
  BY LenProperties
<1>2. /\ t \in Seq(Objects) /\ Len(t) = Len(s) + 1
      /\ \A i \in 1 .. Len(s) : t[i] = s[i]
      /\ t[Len(s) + 1] = o
  BY AppendProperties
<1> HIDE DEF t
<1>3. DOMAIN t = 1 .. Len(s) + 1
  BY <1>2, LenProperties
<1>4. ASSUME NEW i \in DOMAIN t PROVE t[i] \in ElementsOf(s) \cup {o}
  <2>1. i \in 1 .. Len(s) \/ i = Len(s) + 1
    BY <1>1, <1>3
  <2> QED BY <2>1, <1>1, <1>2 DEF ElementsOf
<1> QED BY <1>2, <1>4 DEF ElementsOf, t

LEMMA Concatenated ==
    ASSUME NEW s \in Seq(Objects), NEW r \in Seq(Objects)
    PROVE  /\ s \o r \in Seq(Objects) /\ Len(s \o r) = Len(s) + Len(r)
           /\ ElementsOf(s \o r) \subseteq ElementsOf(s) \cup ElementsOf(r)
<1> DEFINE t == s \o r
<1>1. /\ Len(s) \in Nat /\ DOMAIN s = 1 .. Len(s)
      /\ Len(r) \in Nat /\ DOMAIN r = 1 .. Len(r)
  BY LenProperties
<1>2. /\ t \in Seq(Objects) /\ Len(t) = Len(s) + Len(r)
      /\ \A i \in 1 .. Len(s) + Len(r) : t[i] = IF i <= Len(s) THEN s[i] ELSE r[i - Len(s)]
  BY ConcatProperties
<1> HIDE DEF t
<1>3. DOMAIN t = 1 .. Len(s) + Len(r)
  BY <1>2, LenProperties
<1>4. ASSUME NEW i \in DOMAIN t PROVE t[i] \in ElementsOf(s) \cup ElementsOf(r)
  <2>1. CASE i <= Len(s)
    <3>1. t[i] = s[i] /\ i \in DOMAIN s
      BY <1>1, <1>2, <1>3, <2>1
    <3> QED BY <3>1 DEF ElementsOf
  <2>2. CASE ~(i <= Len(s))
    <3>1. t[i] = r[i - Len(s)] /\ i - Len(s) \in DOMAIN r
      BY <1>1, <1>2, <1>3, <2>2
    <3> QED BY <3>1 DEF ElementsOf
  <2> QED BY <2>1, <2>2
<1> QED BY <1>2, <1>4 DEF ElementsOf, t

\* The next address is scanned.
LEMMA ScanKeeps ==
    ASSUME IInv, rpc = "idle", UNCHANGED nodeVars, NEW i \in 1 .. Len(arguments.items),
           NEW s \in 1 .. Len(arguments.items[i]),
           Call(ScanRequest(arguments.items[i][s])), pc' = "scan", item' = i, spend' = s,
           UNCHANGED <<arguments, runs, height, printed, exit>>,
           exit = Nothing, utxos' = <<>>, tx' = Nothing,
           out' \in Seq(Objects), Len(out') = s - 1, Len(printed) = Written(i - 1), Honest'
    PROVE  IInv'
<1>1. arguments \in Arguments /\ i \in 0 .. Len(arguments.items) /\ s \in Nat \ {0}
  BY ItemsAre DEF IInv, Places
<1>2. arguments.items[i][s] \in Styles
  BY <1>1, ItemsAre
<1> DEFINE r == ScanRequest(arguments.items[i][s])
<1>3. r \in Requests /\ r.method # "sendrawtransaction"
  BY <1>2 DEF ScanRequest, Requests
<1>4. /\ Wires' /\ rpc' # "idle" /\ request' = r /\ reply' = Nothing /\ answer' = Nothing
      /\ Sending' \subseteq Sending
  <2>1. Call(r)
    OBVIOUS
  <2> HIDE DEF r
  <2> QED BY <2>1, <1>3, Calls DEF IInv
<1>5. arguments' = arguments /\ runs' = runs /\ height' = height /\ printed' = printed /\ exit' = exit
  OBVIOUS
<1>6. Places'
  <2>1. <<>> \in Seq(AllCoins)
    BY EmptySeq
  <2> QED BY <1>1, <1>5, <2>1 DEF IInv, Places, Waits
<1>7. Progress'
  <2>1. exit' # "0"
    BY <1>5, NothingAssumption
  <2>2. Written(i - 1)' = Written(i - 1)
    BY <1>5 DEF Written, Lengths
  <2> QED BY <1>5, <2>1, <2>2 DEF Progress, Waits, Written, Lengths
<1>8. Nodes' /\ tip' = tip
  BY DEF nodeVars, IInv, Nodes
<1>9. Asked' /\ Told' /\ Carried'
  BY <1>4, <1>5 DEF Asked, Told, Carried, Waits, Style
<1>10. ValidForEver'
  BY <1>4, <1>8 DEF IInv, ValidForEver
<1> QED BY <1>4, <1>6, <1>7, <1>8, <1>9, <1>10 DEF IInv

LEMMA StartKeeps == ASSUME IInv, StartItem PROVE IInv'
<1>1. /\ pc = "item" /\ item < Len(arguments.items) /\ item' = item + 1 /\ spend' = 1
      /\ out' = <<>> /\ pc' = "scan" /\ Call(ScanRequest(arguments.items[item + 1][1]))
      /\ UNCHANGED <<arguments, runs, utxos, height, tx, printed, exit, nodeVars>>
  BY DEF StartItem
<1>2. /\ rpc = "idle" /\ utxos = <<>> /\ tx = Nothing /\ exit = Nothing
      /\ item \in 0 .. Len(arguments.items) /\ arguments \in Arguments
      /\ Len(printed) = Written(item)
  BY <1>1 DEF IInv, Asked, Waits, Places, Progress
<1> DEFINE i == item + 1
           s == 1
<1>3. i \in 1 .. Len(arguments.items) /\ i - 1 = item
  BY <1>1, <1>2, ItemsAre
<1>4. s \in 1 .. Len(arguments.items[i])
  <2> HIDE DEF i
  <2> QED BY <1>2, <1>3, ItemsAre
<1>5. out' \in Seq(Objects) /\ Len(out') = s - 1
  <2>1. <<>> \in Seq(Objects) /\ Len(<<>>) = 0
    BY EmptySeq
  <2> QED BY <2>1, <1>1
<1>6. Honest'
  <2>1. accepted' = accepted /\ printed' = printed
    BY <1>1 DEF nodeVars
  <2> QED BY <1>1, <2>1 DEF IInv, Honest, ElementsOf
<1>7. Len(printed) = Written(i - 1)
  BY <1>2, <1>3
<1>8. Call(ScanRequest(arguments.items[i][s])) /\ item' = i /\ spend' = s
  BY <1>1
<1>9. UNCHANGED nodeVars /\ UNCHANGED <<arguments, runs, height, printed, exit>>
      /\ utxos' = <<>> /\ tx' = Nothing /\ pc' = "scan"
  BY <1>1, <1>2
<1> HIDE DEF i, s
<1> QED BY <1>2, <1>3, <1>4, <1>5, <1>6, <1>7, <1>8, <1>9, ScanKeeps

LEMMA EndKeeps == ASSUME IInv, EndOfInput PROVE IInv'
<1>1. /\ pc = "item" /\ item = Len(arguments.items) /\ pc' = "end" /\ exit' = "0"
      /\ g_stop' = g_stop /\ UNCHANGED callVars /\ UNCHANGED wireVars
      /\ arguments' = arguments /\ runs' = runs /\ item' = item /\ spend' = spend
      /\ utxos' = utxos /\ height' = height /\ tx' = tx /\ out' = out /\ printed' = printed
      /\ UNCHANGED nodeVars
  BY DEF EndOfInput, rpcVars
<1>2. /\ rpc = "idle" /\ answer = Nothing
  BY <1>1 DEF IInv, Asked, Wires, Waits
<1>3. Wires' /\ Asked' /\ Sending' = Sending
  BY <1>1, <1>2 DEF callVars, wireVars, IInv, Wires, RpcShape, Asked, Sending
<1>4. Told'
  BY <1>1, <1>2 DEF callVars, wireVars, Told, Means
<1>5. Places'
  BY <1>1, NothingAssumption DEF IInv, Places
<1>6. Progress'
  BY <1>1 DEF IInv, Progress, Waits, Written, Lengths
<1>7. Nodes' /\ tip' = tip /\ accepted' = accepted
  BY <1>1 DEF nodeVars, IInv, Nodes
<1>8. Carried' /\ ValidForEver' /\ Honest'
  BY <1>1, <1>3, <1>7 DEF IInv, Carried, ValidForEver, Honest
<1> QED BY <1>3, <1>4, <1>5, <1>6, <1>7, <1>8 DEF IInv

LEMMA DoneKeeps ==
    ASSUME AtReply, NEW object \in Objects, object.broadcast => object.tx \in accepted,
           Done(object)
    PROVE  IInv'
<1>1. /\ rpc = "idle" /\ Nodes' /\ tip' = tip /\ accepted' = accepted /\ arguments \in Arguments
      /\ item \in 1 .. Len(arguments.items) /\ spend \in 1 .. Len(arguments.items[item])
      /\ Len(out) = spend - 1 /\ Len(printed) = Written(item - 1)
  BY AtReplyIs
<1>2. /\ out \in Seq(Objects) /\ printed \in Seq(Objects) /\ exit = Nothing /\ IInv
      /\ UNCHANGED nodeVars
  BY DEF AtReply, IInv, Places, Waits
<1>3. /\ utxos' = <<>> /\ tx' = Nothing /\ arguments' = arguments /\ runs' = runs
      /\ item' = item /\ height' = height /\ exit' = exit
  BY DEF Done
<1> DEFINE more == Append(out, object)
<1>4. /\ more \in Seq(Objects) /\ Len(more) = Len(out) + 1
      /\ ElementsOf(more) \subseteq ElementsOf(out) \cup {object}
  BY <1>2, Appended
<1>5. Len(arguments.items) \in Nat /\ Len(arguments.items[item]) \in Nat
  BY <1>1, ItemsAre
<1>6. \A o \in ElementsOf(printed) \cup ElementsOf(out) \cup {object} :
          o.broadcast => o.tx \in accepted
  BY <1>2 DEF IInv, Honest
<1>7. CASE spend < Len(arguments.items[item])
  <2>1. /\ spend' = spend + 1 /\ out' = more /\ pc' = "scan" /\ printed' = printed
        /\ Call(ScanRequest(arguments.items[item][spend + 1]))
    BY <1>7 DEF Done
  <2> HIDE DEF more
  <2> DEFINE s == spend + 1
  <2>2. s \in 1 .. Len(arguments.items[item])
    BY <1>1, <1>5, <1>7
  <2>3. Len(out') = s - 1
    BY <1>1, <1>4, <1>5, <2>1
  <2>4. Honest'
    BY <1>1, <1>4, <1>6, <2>1 DEF Honest
  <2>5. spend' = s /\ Call(ScanRequest(arguments.items[item][s])) /\ out' \in Seq(Objects)
    BY <1>4, <2>1
  <2>6. UNCHANGED <<arguments, runs, height, printed, exit>>
    BY <1>3, <2>1
  <2> HIDE DEF s
  <2> QED BY <1>1, <1>2, <1>3, <2>1, <2>2, <2>3, <2>4, <2>5, <2>6, ScanKeeps
<1>8. CASE ~(spend < Len(arguments.items[item]))
  <2>1. /\ out' = <<>> /\ printed' = printed \o more /\ pc' = "item" /\ spend' = spend /\ Consume
    BY <1>8 DEF Done
  <2>2. Wires' /\ Asked' /\ Told' /\ Sending' = Sending
    BY <2>1, Consumes DEF AtReply, IInv
  <2> HIDE DEF more
  <2>3. /\ printed' \in Seq(Objects) /\ Len(printed') = Len(printed) + Len(more)
        /\ ElementsOf(printed') \subseteq ElementsOf(printed) \cup ElementsOf(more)
    BY <1>2, <1>4, <2>1, Concatenated
  <2>4. ElementsOf(<<>>) = {}
    BY DEF ElementsOf
  <2>5. Honest'
    BY <1>1, <1>4, <1>6, <2>1, <2>3, <2>4 DEF Honest
  <2>6. Places'
    <3>1. <<>> \in Seq(AllCoins) /\ <<>> \in Seq(Objects)
      BY EmptySeq
    <3> QED BY <1>2, <1>3, <2>1, <2>3, <3>1 DEF IInv, Places, Waits
  <2>7. Len(printed') = Written(item)
    <3>1. Len(more) = Len(arguments.items[item])
      BY <1>1, <1>4, <1>5, <1>8
    <3>2. Written(item) = Written(item - 1) + Len(arguments.items[item])
      BY <1>1, WrittenIs
    <3> QED BY <1>1, <2>3, <3>1, <3>2
  <2>8. Progress'
    <3>1. exit' # "0" /\ Written(item)' = Written(item)
      BY <1>2, <1>3, NothingAssumption DEF Written, Lengths
    <3> QED BY <1>3, <2>1, <2>7, <3>1 DEF Progress, Waits, Written, Lengths
  <2>9. Carried' /\ ValidForEver'
    BY <1>1, <1>2, <2>1, <2>2 DEF IInv, Carried, ValidForEver
  <2> QED BY <1>1, <2>2, <2>5, <2>6, <2>8, <2>9 DEF IInv
<1> QED BY <1>7, <1>8

\* The one transaction of the coins: it is printed, or sent.
LEMMA SpendKeeps ==
    ASSUME AtReply, NEW us, NEW h \in FirstTip .. tip, NEW rate \in Nat \ {0},
           Ripe(us, Style, h), Spend(us, h, rate)
    PROVE  IInv'
<1> DEFINE vsize == EstimateVsize(Style, Len(us), To)
           fee   == vsize * rate
           total == Amounts(us)
           t(sizes) == SignSweep(Style, us, To, total - fee, h, sizes)
           Refused  == \/ vsize > MaxVsize \/ vsize > MaxUint \div rate
                       \/ fee >= total \/ total - fee < dust_sats[To]
<1>1. CASE Refused
  <2>1. Die("1")
    BY <1>1 DEF Spend
  <2> QED BY <2>1, DieKeeps
<1>2. CASE ~Refused
  <2>1. PICK sizes \in [DOMAIN us -> SigSizes] :
            IF arguments.dry_run THEN Done(Object(t(sizes), fee, FALSE))
            ELSE /\ tx' = Object(t(sizes), fee, TRUE) /\ utxos' = us /\ height' = h
                 /\ pc' = "send" /\ Call(SendRequest(t(sizes)))
                 /\ UNCHANGED <<arguments, runs, item, spend, out, printed, exit>>
    BY <1>2 DEF Spend
  <2>2. /\ rpc = "idle" /\ Nodes' /\ tip' = tip /\ accepted' = accepted
        /\ Style \in Styles /\ tip \in Nat /\ tip <= MaxTip /\ us \in Seq(AllCoins) /\ Len(us) \in Nat
    <3>1. us \in Seq(AllCoins) /\ Len(us) \in Nat
      BY LenProperties DEF Ripe, Coins
    <3>2. tip \in Nat /\ tip <= MaxTip
      BY BoundsAssumption DEF AtReply, IInv, Nodes
    <3> QED BY <3>1, <3>2, AtReplyIs
  <2>3. vsize \in Nat /\ fee \in Nat /\ total \in Nat /\ vsize <= MaxVsize /\ fee < total
        /\ dust_sats[To] <= total - fee
    <3>1. vsize \in Nat
      <4>1. DOMAIN us = 1 .. Len(us) /\ sizes \in [1 .. Len(us) -> 1 .. DummyEcdsa]
        BY <2>2, LenProperties, SizesAssumption
      <4>2. To \in DOMAIN dust_sats
        BY ArgumentsAssumption
      <4> QED BY <2>2, <4>1, <4>2, EstimateIs
    <3>2. total \in Nat
      BY <2>2, AmountsAre
    <3>3. dust_sats[To] \in Nat
      BY ArgumentsAssumption, DustIs
    <3> HIDE DEF vsize, total
    <3>4. fee \in Nat
      BY <3>1, NoLess
    <3> HIDE DEF fee
    <3> QED BY <1>2, <3>1, <3>2, <3>3, <3>4, BoundsAssumption
  <2> DEFINE s == t(sizes)
  <2>4. s \in Transactions /\ IsValid(s, AllCoins, tip) /\ total - fee \in Nat /\ s.skeleton.sats = total - fee
    <3>1. s.skeleton.sats = total - fee
      BY DEF SignSweep, Skeleton
    <3>2. s \in Transactions /\ IsValid(s, AllCoins, tip) /\ total - fee \in Nat
      BY <2>2, <2>3, SignedIsValid
    <3> QED BY <3>1, <3>2
  <2> HIDE DEF t, s, fee, total, vsize
  <2>5. ASSUME NEW b \in BOOLEAN PROVE Object(s, fee, b) \in Objects
    BY <2>3, <2>4 DEF Object, Objects
  <2>6. CASE arguments.dry_run
    <3>1. Done(Object(s, fee, FALSE))
      BY <2>1, <2>6 DEF s
    <3>2. Object(s, fee, FALSE) \in Objects /\ ~Object(s, fee, FALSE).broadcast
      BY <2>5 DEF Object
    <3> QED BY <3>1, <3>2, DoneKeeps
  <2>7. CASE ~arguments.dry_run
    <3>1. /\ tx' = Object(s, fee, TRUE) /\ utxos' = us /\ height' = h
          /\ pc' = "send" /\ Call(SendRequest(s))
          /\ arguments' = arguments /\ runs' = runs /\ item' = item /\ spend' = spend
          /\ out' = out /\ printed' = printed /\ exit' = exit
      BY <2>1, <2>7 DEF s
    <3>2. tx' \in Objects /\ tx'.tx = s
      BY <2>5, <3>1 DEF Object
    <3>3. SendRequest(s) \in Requests /\ SendRequest(s).tx = s
      BY <2>4 DEF SendRequest, Requests
    <3>4. /\ Wires' /\ rpc' # "idle" /\ request' = SendRequest(s)
          /\ reply' = Nothing /\ answer' = Nothing
          /\ \A q \in Sending' : q \in Sending \/ q = SendRequest(s)
      <4>1. Call(SendRequest(s)) /\ Wires
        BY <3>1 DEF AtReply, IInv
      <4> QED BY <2>2, <3>3, <4>1, Calls
    <3>5. Places'
      <4>1. tx' # Nothing /\ us # <<>>
        BY <3>2, NothingAssumption DEF Ripe
      <4>2. h \in FirstTip .. MaxTip
        BY <2>2, BoundsAssumption
      <4>3. pc # "end" /\ pc # "item"
        BY DEF AtReply, Waits
      <4> QED BY <2>2, <3>1, <3>2, <4>1, <4>2, <4>3 DEF AtReply, IInv, Places, Waits
    <3>6. Progress'
      <4>1. exit # "0"
        BY NothingAssumption DEF AtReply, IInv, Places, Waits
      <4> QED BY <2>7, <3>1, <4>1 DEF AtReply, IInv, Progress, Waits, Written, Lengths
    <3>7. Asked' /\ Told' /\ Carried'
      BY <3>1, <3>2, <3>4 DEF Asked, Told, Carried, Waits
    <3>8. ValidForEver'
      BY <2>2, <2>4, <3>3, <3>4 DEF AtReply, IInv, ValidForEver
    <3>9. Honest'
      BY <2>2, <3>1 DEF AtReply, IInv, Honest
    <3> QED BY <2>2, <3>4, <3>5, <3>6, <3>7, <3>8, <3>9 DEF IInv
  <2> QED BY <2>6, <2>7
<1> QED BY <1>1, <1>2

\* Every sum of a prefix was looked at, the sum of all too.
LEMMA NoneOverflows ==
    ASSUME NEW us \in Seq(AllCoins), us # <<>>, ~Overflows(us) PROVE Amounts(us) <= MaxUint
<1>1. Len(us) \in Nat /\ Len(us) # 0 /\ DOMAIN us = 1 .. Len(us)
  BY LenProperties, EmptySeq
<1>2. Len(us) \in DOMAIN us
  BY <1>1
<1>3. SubSeq(us, 1, Len(us)) = us
  BY SubSeqFull
<1>4. ~(Amounts(us) > MaxUint)
  BY <1>2, <1>3 DEF Overflows
<1>5. Amounts(us) \in Nat /\ MaxUint \in Nat
  BY AmountsAre, BoundsAssumption
<1> QED BY <1>4, <1>5

LEMMA ScanReturnsKeeps == ASSUME IInv, ScanReturns PROVE IInv'
<1> DEFINE v  == reply.value
           us == Spendable(v.unspents, v.height)
<1>1. pc = "scan" /\ AtReply /\ reply.ok
  BY DEF ScanReturns, Replied, AtReply, Waits
<1>2. v.height \in FirstTip .. tip /\ Coins(v.unspents, Style)
  BY <1>1 DEF AtReply, IInv, Told, Means
<1>3. Coins(us, Style) /\ \A k \in DOMAIN us : Mature(us[k], v.height)
  BY <1>2, SpendableAre
<1>4. IF ~v.success \/ Overflows(us) \/ us = <<>> THEN Die("1")
      ELSE IF arguments.rate # Nothing THEN Spend(us, v.height, arguments.rate)
      ELSE /\ utxos' = us /\ height' = v.height
           /\ pc' = "fee" /\ Call(EstimateRequest)
           /\ UNCHANGED <<arguments, runs, item, spend, tx, out, printed, exit>>
  BY DEF ScanReturns
<1> HIDE DEF us
<1>5. CASE ~v.success \/ Overflows(us) \/ us = <<>>
  BY <1>1, <1>4, <1>5, DieKeeps
<1>6. CASE ~(~v.success \/ Overflows(us) \/ us = <<>>)
  <2>1. Ripe(us, Style, v.height)
    <3>1. us \in Seq(AllCoins)
      BY <1>3 DEF Coins
    <3>2. Amounts(us) <= MaxUint
      BY <1>6, <3>1, NoneOverflows
    <3> QED BY <1>3, <1>6, <3>2 DEF Ripe
  <2>2. CASE arguments.rate # Nothing
    <3>1. arguments.rate \in Nat \ {0}
      BY <2>2, ArgumentsAssumption DEF IInv, Places, Arguments
    <3>2. Spend(us, v.height, arguments.rate)
      BY <1>4, <1>6, <2>2
    <3> QED BY <1>1, <1>2, <2>1, <3>1, <3>2, SpendKeeps
  <2>3. CASE arguments.rate = Nothing
    <3>1. /\ utxos' = us /\ height' = v.height /\ pc' = "fee" /\ Call(EstimateRequest)
          /\ arguments' = arguments /\ runs' = runs /\ item' = item /\ spend' = spend
          /\ tx' = tx /\ out' = out /\ printed' = printed /\ exit' = exit
      BY <1>4, <1>6, <2>3
    <3>2. EstimateRequest \in Requests /\ EstimateRequest.method # "sendrawtransaction"
      BY DEF EstimateRequest, Requests
    <3>3. rpc = "idle" /\ Nodes' /\ tip' = tip /\ accepted' = accepted
      BY <1>1, AtReplyIs
    <3>4. /\ Wires' /\ rpc' # "idle" /\ request' = EstimateRequest
          /\ reply' = Nothing /\ answer' = Nothing /\ Sending' \subseteq Sending
      BY <3>1, <3>2, <3>3, Calls DEF IInv
    <3>5. Places'
      <4>1. us # <<>> /\ us \in Seq(AllCoins)
        BY <2>1 DEF Ripe, Coins
      <4>2. v.height \in FirstTip .. MaxTip
        BY <1>2, BoundsAssumption DEF IInv, Nodes
      <4> HIDE DEF v
      <4> QED BY <1>1, <3>1, <4>1, <4>2 DEF IInv, Places, Waits
    <3>6. Progress'
      <4>1. exit # "0"
        BY <1>1, NothingAssumption DEF IInv, Places
      <4> QED BY <1>1, <3>1, <4>1 DEF IInv, Progress, Waits, Written, Lengths
    <3>7. Asked' /\ Told'
      BY <3>1, <3>4 DEF Asked, Told, Waits
    <3>8. Carried'
      <4>1. Style' = Style
        BY <3>1 DEF Style
      <4>2. Ripe(utxos', Style', height')
        <5> HIDE DEF v
        <5> QED BY <2>1, <3>1, <4>1
      <4>3. height' \in FirstTip .. tip'
        BY <1>2, <3>1, <3>3
      <4> QED BY <4>2, <4>3 DEF Carried
    <3>9. ValidForEver' /\ Honest'
      BY <3>1, <3>3, <3>4 DEF IInv, ValidForEver, Honest
    <3> QED BY <3>3, <3>4, <3>5, <3>6, <3>7, <3>8, <3>9 DEF IInv
  <2> QED BY <2>2, <2>3
<1> QED BY <1>5, <1>6

LEMMA RateIs == \A f \in Nat : SatPerVbyte(f) \in Nat \ {0}
<1> SUFFICES ASSUME NEW f \in Nat PROVE SatPerVbyte(f) \in Nat \ {0}
  OBVIOUS
<1>1. ~(f < 500) => (f + 500) \div 1000 \in Nat \ {0}
  OBVIOUS
<1> QED BY <1>1 DEF SatPerVbyte

LEMMA FeeReturnsKeeps == ASSUME IInv, FeeReturns PROVE IInv'
<1>1. pc = "fee" /\ AtReply /\ reply # Nothing /\ reply.ok
  BY DEF FeeReturns, Replied, AtReply, Waits
<1>2. reply.value.feerate \in Feerates
  BY <1>1 DEF IInv, Told, Means
<1>3. CASE reply.value.feerate = Nothing
  <2>1. Die("1")
    BY <1>3 DEF FeeReturns
  <2> QED BY <1>1, <2>1, DieKeeps
<1>4. CASE reply.value.feerate # Nothing
  <2>1. reply.value.feerate \in Nat
    BY <1>2, <1>4, ArgumentsAssumption
  <2>2. Spend(utxos, height, SatPerVbyte(reply.value.feerate))
    BY <1>4 DEF FeeReturns
  <2>3. Ripe(utxos, Style, height) /\ height \in FirstTip .. tip
    BY <1>1 DEF IInv, Carried
  <2> QED BY <1>1, <2>1, <2>2, <2>3, RateIs, SpendKeeps
<1> QED BY <1>3, <1>4

LEMMA SendReturnsKeeps == ASSUME IInv, SendReturns PROVE IInv'
<1>1. pc = "send" /\ AtReply /\ reply # Nothing /\ reply.ok /\ Done(tx)
  BY DEF SendReturns, Replied, AtReply, Waits
<1>2. tx \in Objects /\ tx.tx \in accepted
  BY <1>1 DEF IInv, Places, Told, Means
<1> QED BY <1>1, <1>2, DoneKeeps

LEMMA FailedKeeps == ASSUME IInv, NEW step \in Waits, Failed(step) PROVE IInv'
<1>1. AtReply
  BY DEF Failed, Replied, AtReply
<1>2. PICK status \in {"1", "killed"} : Die(status)
  BY DEF Failed
<1> QED BY <1>1, <1>2, DieKeeps

LEMMA RunAgainKeeps == ASSUME IInv, RunAgain PROVE IInv'
<1>1. /\ pc = "end" /\ runs < MaxRuns /\ runs' = runs + 1 /\ arguments' = arguments
      /\ pc' = "item" /\ item' = 0 /\ spend' = 1 /\ printed' = <<>> /\ exit' = Nothing
      /\ g_stop' = FALSE /\ UNCHANGED callVars /\ UNCHANGED wireVars
      /\ utxos' = utxos /\ height' = height /\ tx' = tx /\ out' = out
      /\ UNCHANGED nodeVars
  BY DEF RunAgain
<1>2. rpc = "idle" /\ out = <<>> /\ arguments \in Arguments
  BY <1>1 DEF IInv, Asked, Progress, Places, Waits
<1>3. Wires' /\ Asked' /\ Sending' = Sending
  BY <1>1, <1>2 DEF callVars, wireVars, IInv, Wires, RpcShape, Asked, Sending
<1>4. Told'
  BY <1>1 DEF Told, Means
<1>5. runs' \in 1 .. MaxRuns /\ Len(arguments.items) \in Nat
  BY <1>1, <1>2, ItemsAre, BoundsAssumption DEF IInv, Places
<1>6. <<>> \in Seq(Objects) /\ Len(<<>>) = 0 /\ ElementsOf(<<>>) = {}
  BY EmptySeq DEF ElementsOf
<1>7. Places'
  BY <1>1, <1>5, <1>6 DEF IInv, Places, Waits
<1>8. Progress'
  <2>1. Written(0) = 0
    BY <1>2, WrittenIs
  <2>2. exit' # "0" /\ Written(0)' = Written(0)
    BY <1>1, NothingAssumption DEF Written, Lengths
  <2> QED BY <1>1, <1>2, <1>6, <2>1, <2>2 DEF Progress, Waits
<1>9. Nodes' /\ tip' = tip /\ accepted' = accepted
  BY <1>1 DEF nodeVars, IInv, Nodes
<1>10. Carried' /\ ValidForEver' /\ Honest'
  BY <1>1, <1>2, <1>3, <1>6, <1>9 DEF IInv, Carried, ValidForEver, Honest
<1> QED BY <1>3, <1>4, <1>7, <1>8, <1>9, <1>10 DEF IInv

-----------------------------------------------------------------------------
(***************************************************************************)
(* The theorems.                                                           *)
(***************************************************************************)

LEMMA InitHolds == Init => IInv
<1> SUFFICES ASSUME Init PROVE IInv
  OBVIOUS
<1>1. <<>> \in Seq(AllCoins) /\ <<>> \in Seq(Objects) /\ Len(<<>>) = 0 /\ ElementsOf(<<>>) = {}
  BY EmptySeq DEF ElementsOf
<1>2. /\ g_stop = FALSE /\ rpc = "idle" /\ request = Nothing /\ reply = Nothing /\ addresses = 0
      /\ conn = "none" /\ pending = Nothing /\ orphans = {} /\ answer = Nothing /\ sent = 0
  BY DEF Init, RpcInit
<1>3. /\ arguments \in Arguments /\ runs = 1 /\ pc = "item" /\ item = 0 /\ spend = 1
      /\ utxos = <<>> /\ height = FirstTip /\ tx = Nothing
      /\ out = <<>> /\ printed = <<>> /\ exit = Nothing
      /\ tip = FirstTip /\ ledger \in Ledgers /\ mempool = {} /\ accepted = {}
  BY DEF Init
<1>4. Wires
  <2>1. addresses \in 0 .. MaxAddresses /\ sent \in 0 .. 2
    BY <1>2, MaxAddressesAssumption
  <2>2. RpcShape
    BY <1>2, <2>1 DEF RpcShape
  <2> QED BY <1>2, <2>2 DEF Wires
<1>5. Places
  <2>1. runs \in 1 .. MaxRuns /\ height \in FirstTip .. MaxTip
    BY <1>3, BoundsAssumption
  <2>2. item \in 0 .. Len(arguments.items)
    BY <1>3, ItemsAre
  <2> QED BY <1>1, <1>3, <2>1, <2>2 DEF Places, Waits
<1>6. Progress
  <2>1. Written(0) = 0 /\ exit # "0"
    BY <1>3, WrittenIs, NothingAssumption
  <2> QED BY <1>1, <1>3, <2>1 DEF Progress, Waits
<1>7. Nodes
  <2>1. ledger \subseteq AllCoins
    BY <1>3 DEF AllCoins
  <2> QED BY <1>3, <2>1, BoundsAssumption DEF Nodes
<1>8. Asked /\ Told /\ Carried
  BY <1>2, <1>3 DEF Asked, Told, Carried
<1>9. ValidForEver /\ Honest
  BY <1>1, <1>2, <1>3 DEF ValidForEver, Sending, Honest
<1> QED BY <1>4, <1>5, <1>6, <1>7, <1>8, <1>9 DEF IInv

LEMMA NextKeeps == IInv /\ [Next]_vars => IInv'
<1> SUFFICES ASSUME IInv, [Next]_vars PROVE IInv'
  OBVIOUS
<1>1. CASE UNCHANGED vars
  <2>1. Still
    BY <1>1 DEF vars, Still
  <2>2. UNCHANGED rpcVars
    BY <1>1 DEF vars
  <2>3. Wires' /\ Asked' /\ Told' /\ Sending' \subseteq Sending
    <3>1. Wires'
      BY <2>2 DEF rpcVars, callVars, wireVars, IInv, Wires, RpcShape
    <3> QED BY <2>1, <2>2, <3>1, StillOn
            DEF rpcVars, callVars, wireVars, IInv, Asked, Told, Still, sweepVars, Style, Sending
  <2> QED BY <2>1, <2>3, StillOn, Later
<1>2. CASE Rpc
  BY <1>2, CallKeeps DEF Rpc, Still
<1>3. CASE StartItem
  BY <1>3, StartKeeps
<1>4. CASE EndOfInput
  BY <1>4, EndKeeps
<1>5. CASE ScanReturns
  BY <1>5, ScanReturnsKeeps
<1>6. CASE FeeReturns
  BY <1>6, FeeReturnsKeeps
<1>7. CASE SendReturns
  BY <1>7, SendReturnsKeeps
<1>8. CASE \E step \in {"scan", "fee", "send"} : Failed(step)
  BY <1>8, FailedKeeps DEF Waits
<1>9. CASE Node
  BY <1>9, NodeKeeps
<1>10. CASE Outside
  BY <1>10, OutsideKeeps
<1>11. CASE RunAgain
  BY <1>11, RunAgainKeeps
<1> QED BY <1>1, <1>2, <1>3, <1>4, <1>5, <1>6, <1>7, <1>8, <1>9, <1>10, <1>11
        DEF Next, Process

\* What the invariant says at every moment of every behaviour.
LEMMA Invariance == Spec => []IInv
<1> QED BY InitHolds, NextKeeps, PTL DEF Spec

\* Every variable has its type, in every behaviour: what the call knows fits
\* where sweep_one is, coins are carried only between the scan and the
\* broadcast, and a transaction only while it is broadcast.
THEOREM TypeCorrect == Spec => []TypeOK
<1>1. IInv => TypeOK
  <2> SUFFICES ASSUME IInv PROVE TypeOK
    OBVIOUS
  <2>1. /\ g_stop \in BOOLEAN /\ RpcShape /\ request \in Requests \cup {Nothing}
        /\ orphans \subseteq Requests
    BY DEF IInv, Wires
  <2>2. /\ (tx = Nothing) = (pc # "send") /\ (utxos = <<>>) = (pc \notin {"fee", "send"})
        /\ (exit = Nothing) = (pc # "end")
    BY DEF IInv, Places
  <2>3. rpc # "idle" => pc \in {"scan", "fee", "send"}
    BY DEF IInv, Asked, Waits
  <2>4. tip \in FirstTip .. MaxTip /\ ledger \subseteq AllCoins /\ mempool \subseteq accepted
    BY DEF IInv, Nodes
  <2>5. /\ utxos \in Seq(AllCoins) /\ tx \in Objects \cup {Nothing}
        /\ out \in Seq(Objects) /\ printed \in Seq(Objects)
        /\ arguments \in Arguments /\ runs \in 1 .. MaxRuns
        /\ pc \in {"item", "scan", "fee", "send", "end"}
        /\ item \in 0 .. Len(arguments.items) /\ spend \in Nat \ {0}
        /\ exit \in {Nothing, "0", "1", "killed"} /\ height \in FirstTip .. MaxTip
    BY DEF IInv, Places, Waits
  <2> QED BY <2>1, <2>2, <2>3, <2>4, <2>5 DEF TypeOK
<1> QED BY <1>1, Invariance, PTL

\* "broadcast": true, an exit with 0 and --dry-run mean what they say,
\* whatever the node answers and wherever the call breaks off.
THEOREM Reported == Spec => []ReportedIsAccepted
<1>1. IInv => ReportedIsAccepted
  <2> SUFFICES ASSUME IInv PROVE ReportedIsAccepted
    OBVIOUS
  <2>1. exit = "0" => Len(printed) = Total([i \in DOMAIN arguments.items |-> Len(arguments.items[i])])
    <3> SUFFICES ASSUME exit = "0" PROVE Len(printed) = Total(Lengths)
      BY DEF Lengths
    <3>1. arguments \in Arguments /\ item = Len(arguments.items) /\ Len(printed) = Written(item)
      BY DEF IInv, Progress, Places
    <3> QED BY <3>1, WrittenIs
  <2>2. arguments.dry_run => request = Nothing \/ request.method # "sendrawtransaction"
    <3> SUFFICES ASSUME arguments.dry_run, request # Nothing
                 PROVE  request.method # "sendrawtransaction"
      OBVIOUS
    <3>1. rpc # "idle" /\ pc # "send"
      BY DEF IInv, Progress, Wires, RpcShape
    <3>2. request = ScanRequest(Style) \/ request = EstimateRequest
      BY <3>1 DEF IInv, Asked, Waits
    <3> QED BY <3>2 DEF ScanRequest, EstimateRequest
  <2> QED BY <2>1, <2>2 DEF IInv, Honest, ReportedIsAccepted
<1> QED BY <1>1, Invariance, PTL

\* The coins that are left are the coins that the inputs name.
LEMMA ValidHere ==
    ASSUME IInv, NEW t \in Transactions, IsValid(t, AllCoins, tip),
           SpentBy(t) \subseteq IdsIn(ledger)
    PROVE  IsValid(t, ledger, tip)
<1> DEFINE vin == t.skeleton.vin
           here == [i \in DOMAIN vin |-> CoinOf(vin[i], ledger)]
           ever == [i \in DOMAIN vin |-> CoinOf(vin[i], AllCoins)]
<1>1. ledger \subseteq AllCoins
  BY DEF IInv, Nodes
<1>2. ASSUME NEW i \in DOMAIN vin PROVE CoinOf(vin[i], ledger) = CoinOf(vin[i], AllCoins)
  <2>1. vin[i] \in IdsIn(ledger)
    BY DEF SpentBy, ElementsOf
  <2>2. PICK c \in ledger : c.id = vin[i]
    BY <2>1 DEF IdsIn
  <2>3. c \in AllCoins /\ \A d \in AllCoins : d.id = vin[i] => d = c
    BY <1>1, <2>2, CoinsAre
  <2> HIDE DEF vin
  <2>4. CoinOf(vin[i], ledger) = c
    BY <1>1, <2>2, <2>3 DEF CoinOf
  <2>5. CoinOf(vin[i], AllCoins) = c
    BY <2>2, <2>3 DEF CoinOf
  <2> QED BY <2>4, <2>5
<1>3. here = ever
  BY <1>2
<1>4. FeeOf(t, ledger) = FeeOf(t, AllCoins)
  BY <1>3 DEF FeeOf
<1> QED BY <1>3, <1>4 DEF IsValid

\* A transaction under way is valid for as long as its coins are there, with
\* any coins, any rates and any heights, and whatever blocks come between
\* the scan and the broadcast.
THEOREM Sent == Spec => []SentIsValid
<1>1. IInv => SentIsValid
  <2> SUFFICES ASSUME IInv, NEW r \in Sending, SpentBy(r.tx) \subseteq IdsIn(ledger)
               PROVE  IsValid(r.tx, ledger, tip)
    BY DEF SentIsValid
  <2>1. r.tx \in Transactions /\ IsValid(r.tx, AllCoins, tip)
    BY SentAre DEF IInv, ValidForEver
  <2> QED BY <2>1, ValidHere
<1> QED BY <1>1, Invariance, PTL

\* What is known of the fee from the moment the transaction is signed.
Pays ==
    LET t == tx.tx  n == Len(utxos) IN
    /\ n = Len(t.skeleton.vin) /\ tx.sats + tx.fee = Amounts(utxos)
    /\ Amounts(utxos) <= MaxUint
    /\ arguments.rate # Nothing => /\ tx.fee >= arguments.rate * Vsize(t)
                                   /\ tx.fee <= arguments.rate * (Vsize(t) + 3 * n)

LEMMA Times ==
    ASSUME NEW a \in Nat, NEW b \in Nat, NEW r \in Nat, a <= b
    PROVE  a * r \in Nat /\ b * r \in Nat /\ a * r <= b * r
<1>1. PICK d \in Nat : b = a + d
  <2>1. b - a \in Nat /\ b = a + (b - a)
    OBVIOUS
  <2> QED BY <2>1
<1>2. b * r = a * r + d * r /\ d * r \in Nat /\ a * r \in Nat
  BY <1>1
<1> QED BY <1>2

\* Signatures have the size of the dummies, or up to three bytes less.
Usual == SigSizes \subseteq DummyEcdsa - 3 .. DummyEcdsa

LEMMA SpendPays ==
    ASSUME Usual, AtReply, NEW us, NEW h \in FirstTip .. tip, NEW rate \in Nat \ {0},
           Ripe(us, Style, h), Spend(us, h, rate), pc' = "send",
           arguments.rate # Nothing => rate = arguments.rate
    PROVE  Pays'
<1> DEFINE n     == Len(us)
           vsize == EstimateVsize(Style, n, To)
           fee   == vsize * rate
           total == Amounts(us)
           t(sizes) == SignSweep(Style, us, To, total - fee, h, sizes)
           Refused  == \/ vsize > MaxVsize \/ vsize > MaxUint \div rate
                       \/ fee >= total \/ total - fee < dust_sats[To]
<1>1. PICK sizes \in [DOMAIN us -> SigSizes] :
          /\ tx' = Object(t(sizes), fee, TRUE) /\ utxos' = us /\ arguments' = arguments
  <2>1. CASE Refused
    BY <2>1 DEF Spend, Die
  <2>2. CASE ~Refused
    <3>1. PICK sizes \in [DOMAIN us -> SigSizes] :
            IF arguments.dry_run THEN Done(Object(t(sizes), fee, FALSE))
            ELSE /\ tx' = Object(t(sizes), fee, TRUE) /\ utxos' = us
                 /\ arguments' = arguments
      BY <2>2 DEF Spend
    <3>2. \A o : Done(o) => pc' # "send"
      BY DEF Done
    <3> QED BY <3>1, <3>2
  <2> QED BY <2>1, <2>2
<1>2. /\ Style \in Styles /\ us \in Seq(AllCoins) /\ n \in Nat /\ DOMAIN us = 1 .. n
      /\ total \in Nat /\ To \in DOMAIN dust_sats /\ total <= MaxUint
  BY AtReplyIs, LenProperties, AmountsAre, ArgumentsAssumption DEF Ripe, Coins
<1>3. sizes \in [1 .. n -> 1 .. DummyEcdsa] /\ \A i \in 1 .. n : DummyEcdsa - 3 <= sizes[i]
  <2>1. \A s \in SigSizes : s \in 1 .. DummyEcdsa /\ DummyEcdsa - 3 <= s
    BY SizesAssumption DEF Usual, DummyEcdsa
  <2> QED BY <1>2, <2>1
<1> DEFINE k == TxVsize(Style, n, sizes, To)
<1>4. k \in Nat /\ vsize \in Nat /\ k <= vsize /\ vsize <= k + 3 * n
  <2> HIDE DEF n
  <2> QED BY <1>2, <1>3, EstimateIs
<1> DEFINE s == t(sizes)
<1>5. /\ s.skeleton.vin = Skeleton(us, To, total - fee, h).vin
      /\ s.skeleton.sats = total - fee /\ s.skeleton.to = To
      /\ s.from = Style /\ s.sizes = sizes
  BY DEF SignSweep, Skeleton
<1>6. Len(s.skeleton.vin) = n
  <2> DEFINE vin == Skeleton(us, To, total - fee, h).vin
             Ids == {c.id : c \in AllCoins}
  <2>1. vin \in Seq(Ids) /\ DOMAIN vin = DOMAIN us
    BY <1>2, NamedAgain
  <2>2. Len(vin) = n
    <3> HIDE DEF vin, Ids
    <3> QED BY <2>1, <1>2, LenProperties
  <2> QED BY <2>2, <1>5
<1>7. Vsize(s) = k
  <2> HIDE DEF s
  <2> QED BY <1>5, <1>6 DEF Vsize
<1>8. tx'.tx = s /\ tx'.sats = total - fee /\ tx'.fee = fee
  <2>1. tx' = [tx |-> s, sats |-> s.skeleton.sats, fee |-> fee, broadcast |-> TRUE]
    BY <1>1 DEF Object
  <2> HIDE DEF s, fee
  <2> QED BY <2>1, <1>5
<1> HIDE DEF s, k, t, vsize, total, n
<1>9. fee \in Nat
  BY <1>4
<1>10. tx'.sats + tx'.fee = total
  <2> HIDE DEF fee
  <2> QED BY <1>2, <1>8, <1>9
<1>11. fee >= rate * k /\ fee <= rate * (k + 3 * n)
  <2>1. k * rate <= vsize * rate /\ vsize * rate <= (k + 3 * n) * rate
    <3> DEFINE m == k + 3 * n
    <3>1. m \in Nat /\ vsize <= m
      BY <1>2, <1>4
    <3> HIDE DEF m
    <3>2. k * rate <= vsize * rate /\ vsize * rate <= m * rate
      BY <1>4, <3>1, Times
    <3> QED BY <3>2 DEF m
  <2>2. k * rate = rate * k /\ (k + 3 * n) * rate = rate * (k + 3 * n)
    <3> DEFINE m == k + 3 * n
    <3>1. m \in Nat
      BY <1>2, <1>4
    <3> HIDE DEF m
    <3>2. k * rate = rate * k /\ m * rate = rate * m
      BY <1>4, <3>1
    <3> QED BY <3>2 DEF m
  <2> QED BY <2>1, <2>2
<1> HIDE DEF fee
<1>12. Len(utxos') = n /\ Amounts(utxos') = total
  BY <1>1 DEF n, total
<1>13. Len(tx'.tx.skeleton.vin) = n /\ Vsize(tx'.tx) = k
  BY <1>6, <1>7, <1>8
<1> QED BY <1>1, <1>2, <1>8, <1>10, <1>11, <1>12, <1>13 DEF Pays

\* With a rate on the command line the node is never asked for one.
PaysInv ==
    /\ pc = "fee" => arguments.rate = Nothing
    /\ pc = "send" => Pays

\* Nothing but the reported fee is lost, nothing wraps, and the fee is what
\* the user asked for, within three bytes an input, as long as the
\* signatures have usual sizes.
THEOREM PaysForEver ==
    ASSUME SigSizes \subseteq DummyEcdsa - 3 .. DummyEcdsa
    PROVE  Spec => []PaysWhatItSays
<1>1. Init => PaysInv
  BY DEF Init, PaysInv
<1>2. ASSUME IInv, PaysInv, [Next]_vars PROVE PaysInv'
  <2>1. CASE UNCHANGED <<sweepVars>>
    BY <1>2, <2>1 DEF sweepVars, PaysInv, Pays
  <2>2. CASE ScanReturns
    <3> DEFINE v  == reply.value
               us == Spendable(v.unspents, v.height)
    <3>1. pc = "scan" /\ AtReply /\ reply # Nothing /\ reply.ok
      BY <1>2, <2>2 DEF ScanReturns, Replied, AtReply, Waits
    <3>2. v.height \in FirstTip .. tip /\ Coins(v.unspents, Style)
      BY <3>1 DEF AtReply, IInv, Told, Means
    <3>3. Coins(us, Style) /\ \A k \in DOMAIN us : Mature(us[k], v.height)
      BY <3>2, SpendableAre
    <3>4. IF ~v.success \/ Overflows(us) \/ us = <<>> THEN Die("1")
          ELSE IF arguments.rate # Nothing THEN Spend(us, v.height, arguments.rate)
          ELSE pc' = "fee" /\ arguments' = arguments
      BY <2>2 DEF ScanReturns
    <3> HIDE DEF us
    <3>5. CASE ~v.success \/ Overflows(us) \/ us = <<>>
      BY <3>4, <3>5 DEF Die, PaysInv
    <3>6. CASE ~(~v.success \/ Overflows(us) \/ us = <<>>) /\ arguments.rate # Nothing
      <4>1. Ripe(us, Style, v.height)
        <5>1. us \in Seq(AllCoins)
          BY <3>3 DEF Coins
        <5>2. Amounts(us) <= MaxUint
          BY <3>6, <5>1, NoneOverflows
        <5> QED BY <3>3, <3>6, <5>2 DEF Ripe
      <4>2. arguments.rate \in Nat \ {0}
        BY <3>6, <1>2, ArgumentsAssumption DEF IInv, Places, Arguments
      <4>3. Spend(us, v.height, arguments.rate)
        BY <3>4, <3>6
      <4>4. pc' = "send" => Pays'
        BY <3>1, <3>2, <4>1, <4>2, <4>3, SpendPays DEF Usual
      <4>5. pc' # "fee"
        BY <4>3 DEF Spend, Die, Done
      <4> QED BY <4>4, <4>5 DEF PaysInv
    <3>7. CASE ~(~v.success \/ Overflows(us) \/ us = <<>>) /\ arguments.rate = Nothing
      BY <3>4, <3>7 DEF PaysInv
    <3> QED BY <3>5, <3>6, <3>7
  <2>3. CASE FeeReturns
    <3>1. pc = "fee" /\ AtReply /\ reply # Nothing /\ reply.ok /\ arguments.rate = Nothing
      BY <1>2, <2>3 DEF FeeReturns, Replied, AtReply, Waits, PaysInv
    <3>2. CASE reply.value.feerate = Nothing
      BY <2>3, <3>2 DEF FeeReturns, Die, PaysInv
    <3>3. CASE reply.value.feerate # Nothing
      <4>1. reply.value.feerate \in Nat
        BY <3>1, <3>3, <1>2, ArgumentsAssumption DEF IInv, Told, Means
      <4>2. Spend(utxos, height, SatPerVbyte(reply.value.feerate))
        BY <2>3, <3>3 DEF FeeReturns
      <4>3. Ripe(utxos, Style, height) /\ height \in FirstTip .. tip
        BY <3>1, <1>2 DEF IInv, Carried
      <4>4. pc' = "send" => Pays'
        BY <3>1, <4>1, <4>2, <4>3, RateIs, SpendPays DEF Usual
      <4>5. pc' # "fee"
        BY <4>2 DEF Spend, Die, Done
      <4> QED BY <4>4, <4>5 DEF PaysInv
    <3> QED BY <3>2, <3>3
  <2>4. CASE SendReturns
    BY <2>4 DEF SendReturns, Done, PaysInv
  <2>5. CASE \E step \in {"scan", "fee", "send"} : Failed(step)
    BY <2>5 DEF Failed, Die, PaysInv
  <2>6. CASE StartItem \/ EndOfInput \/ RunAgain
    BY <2>6 DEF StartItem, EndOfInput, RunAgain, PaysInv
  <2>7. CASE Rpc \/ Node \/ Outside \/ UNCHANGED vars
    <3>1. UNCHANGED sweepVars
      BY <2>7 DEF Rpc, Outside, vars, Node, NodeRefuses, NodeScans, NodeEstimates,
                  NodeAccepts, OrphanEnds, Mine
    <3> QED BY <2>1, <3>1
  <2> QED BY <1>2, <2>2, <2>3, <2>4, <2>5, <2>6, <2>7 DEF Next, Process
<1>3. PaysInv => PaysWhatItSays
  BY DEF PaysInv, Pays, PaysWhatItSays
<1> QED BY <1>1, <1>2, <1>3, Invariance, PTL DEF Spec
=============================================================================
