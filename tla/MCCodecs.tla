------------------------------- MODULE MCCodecs -------------------------------
(***************************************************************************)
(* Samples at the boundaries of the formats, and damage to them.           *)
(***************************************************************************)
EXTENDS Codecs

Ramp(n, first, step) == [i \in 1 .. n |-> (first + step * i) % 256]
SumBy(w, p) ==
    LET sum[i \in 0 .. Len(p)] == IF i = 0 THEN w ELSE (sum[i - 1] * w + p[i] + i) % 251 IN sum[Len(p)]
MCChecksum(p) == <<SumBy(3, p), SumBy(5, p), SumBy(7, p), SumBy(11, p)>>
MCHash160(p)  == Ramp(20, SumBy(3, p), SumBy(5, p))

TxInOf(script) == [prevout |-> Ramp(36, 7, 3), script |-> script, sequence |-> <<255, 255, 255, 255>>]
TxOutOf(script) == [amount |-> <<0, 202, 154, 59, 0, 0, 0, 0>>, script |-> script]
TxOf(witness, scripts, outs, stacks) ==
    [version |-> <<2, 0, 0, 0>>, witness |-> witness, vin |-> [i \in DOMAIN scripts |-> TxInOf(scripts[i])],
     vout |-> [i \in DOMAIN outs |-> TxOutOf(outs[i])], stacks |-> stacks, locktime |-> <<0, 0, 0, 0>>]
H20 == Ramp(20, 200, 7)
H32 == Ramp(32, 100, 11)
Z20 == [H20 EXCEPT ![1] = 0, ![2] = 0]
Coinbase == TxOf(TRUE, <<Ramp(4, 1, 1)>>, <<Witness(0, H20), <<>>>>, <<<<H32>>>>)
Spending == TxOf(TRUE, <<<<>>, <<>>>>, <<Witness(1, H32)>>, <<<<Ramp(64, 1, 2)>>, <<<<>>, Ramp(33, 2, 1)>>>>)
Legacy   == TxOf(FALSE, <<Ramp(5, 1, 1)>>, <<P2pkh(H20), P2sh(H20)>>, <<<<>>>>)
Txs == {Coinbase, Spending, Legacy} \cup
       {TxOf(FALSE, <<Ramp(n, 1, 1)>>, <<Ramp(n, 3, 1)>>, <<<<>>>>) : n \in {252, 253}}
Block1 == [header |-> Ramp(80, 9, 5), txs |-> <<Coinbase, Legacy>>]

Sized(s, n) == [i \in 1 .. n - Len(s) |-> 0] \o s
\* Keys of eight bytes, the largest one and some with zeros in front.
MCOrder == <<255, 255, 255, 254, 186, 174, 220, 65>>
Secrets == {Sized(<<1>>, 8), Sized(Ramp(6, 11, 9), 8), Ramp(8, 100, 11), [MCOrder EXCEPT ![8] = 64]}
Scripts == {P2pkh(H20), P2pkh(Z20), P2sh(H20), Witness(0, H20), Witness(0, H32), Witness(1, H32),
            P2pk(<<2>> \o H32), P2pk(<<4>> \o Ramp(64, 5, 3))}
\* Ramp(32, 36, 11) has an address that ends with "p".
Programs == {[hrp |-> Bc, witver |-> 0, program |-> p] : p \in {H20, H32, Ramp(32, 36, 11)}} \cup
            {[hrp |-> Bc, witver |-> v, program |-> H32] : v \in {1, 16}}
Of(kind, values) == {[kind |-> kind, value |-> x] : x \in values}
MCSamples == Of("size", {0, 1, 252, 253, 254, 255, 256, 65535, 65536, 16777216}) \cup Of("tx", Txs) \cup Of("txid", Txs)
    \cup Of("block", {Block1}) \cup Of("script", Scripts) \cup Of("segwit", Programs)
    \cup Of("base58", {<<>>, <<0>>, <<0, 0, 1>>, H20, Z20, <<255, 255, 255>>})
    \cup Of("wif", {WifKey(n, s, c) : n \in {"mainnet", "testnet"}, s \in Secrets, c \in BOOLEAN})
    \cup Of("dec", Secrets)

\* Everywhere in short texts; around both ends of the long ones.
Spots(t) == IF Len(t) <= 330 THEN DOMAIN t ELSE 1 .. 12 \cup Len(t) - 5 .. Len(t)
MCCuts(t) == (Spots(t) \cup {0}) \ {Len(t)}
MCPlaces(t) == Spots(t)
MCInstead(kind) ==
    CASE kind \in Binary -> {0, 1, 3, 252, 253, 254, 255}
      [] kind = "dec" -> {47, 48, 49, 57, 58}
      [] kind = "segwit" -> {113, 112, 108, 55, 49, 81}
      [] OTHER -> {49, 50, 48, 122, 113}
=============================================================================
