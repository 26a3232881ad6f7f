-------------------------------- MODULE Sweep --------------------------------
(***************************************************************************)
(* btk sweep (src/src/cmd/sweep.cpp, src/src/chain/sign.cpp): for every    *)
(* key on stdin and every address style asked for, list the confirmed      *)
(* coins of the address (scantxoutset), get a fee rate (--fee-rate or      *)
(* estimatesmartfee), spend all the coins in one signed transaction to one *)
(* destination, and hand it to the node (sendrawtransaction).              *)
(*                                                                         *)
(* An item of stdin is the sequence of the styles that its key is swept    *)
(* for; which styles and addresses those are is the subject of             *)
(* KeyCommands.  The node is Bitcoin Core as sweep uses it: confirmed      *)
(* coins, a tip, a mempool with replacement, and a scan that cannot be     *)
(* started while another one runs.                                         *)
(*                                                                         *)
(* A signature is what it commits to.  Sizes are those of the real         *)
(* serialization; amounts are small, with a small UINT64_MAX.              *)
(***************************************************************************)
EXTENDS JsonRpc, Sequences, FiniteSets, SequencesExt, Functions

CONSTANTS Ledgers,    \* the sets of confirmed coins the node may start with
          Arrival,    \* a coin that the next block may pay
          Inputs,     \* what may come on stdin: sequences of items
          Silent,     \* those of them after which not even the end comes
          Rates,      \* fee rates on the command line, Nothing for none
          Feerates,   \* estimates of the node, in sat/kvB; Nothing for none
          To,         \* the style of the destination
          SigSizes,   \* sizes of an ECDSA signature with its sighash byte
          FirstTip, MaxTip,   \* the height of the node, and its bound
          MaxRuns,            \* bound: how often the command is run
          MaxUint,            \* UINT64_MAX
          MaxVsize            \* 100000 in the code

VARIABLES
    arguments,     \* [items, rate, dry_run]
    runs,          \* how often the command has been started
    pc,            \* what sweep_one waits for
    item, spend,   \* the item of stdin, and the style of it
    utxos, height, \* the spendable coins of the scan, and its tip
    tx,            \* the transaction that was built
    out, printed,  \* the objects of this item, and those on stdout
    exit,          \* the exit status
    tip, ledger, mempool,   \* the node
    accepted       \* history: the transactions the node has ever accepted

sweepVars == <<arguments, runs, pc, item, spend, utxos, height, tx, out, printed, exit>>
nodeVars  == <<tip, ledger, mempool, accepted>>
vars      == <<rpcVars, sweepVars, nodeVars>>

ElementsOf(s) == {s[i] : i \in DOMAIN s}
Total(numbers) == SumFunctionOnSet(numbers, DOMAIN numbers)
Amounts(us) == Total([i \in DOMAIN us |-> us[i].amount])

\* What a key can spend.
Styles == {"p2pkh", "p2wpkh", "p2tr"}
\* Every coin there is or will be.
AllCoins == (UNION Ledgers) \cup {Arrival}
-----------------------------------------------------------------------------
\* Sizes (chain/transaction.cpp, chain/compactsize.cpp, chain/script.cpp).

CompactSize(n) == IF n < 253 THEN 1 ELSE IF n <= 65535 THEN 3 ELSE 5
Prefixed(n)    == CompactSize(n) + n
ScriptLen  == [p2pkh |-> 25, p2sh |-> 23, p2wpkh |-> 22, p2wsh |-> 34, p2tr |-> 34]
dust_sats  == [p2pkh |-> 546, p2sh |-> 540, p2wpkh |-> 294, p2wsh |-> 330, p2tr |-> 330]
PubkeyLen  == 33
Schnorr    == 64
DummyEcdsa == 73

\* One input: its script in the base part, its stack in the witness.
ScriptSig(style, sig) == IF style = "p2pkh" THEN 1 + sig + 1 + PubkeyLen ELSE 0
Witness(style, sig) ==
    CASE style = "p2pkh"  -> 0
      [] style = "p2wpkh" -> 1 + Prefixed(sig) + Prefixed(PubkeyLen)
      [] style = "p2tr"   -> 1 + Prefixed(Schnorr)
TxVsize(style, n, sig, to) ==
    LET base == 4 + CompactSize(n)
                  + Total([i \in 1 .. n |-> 40 + Prefixed(ScriptSig(style, sig[i]))])
                  + 1 + 8 + Prefixed(ScriptLen[to]) + 4
        full == base + 2 + Total([i \in 1 .. n |-> Witness(style, sig[i])]) IN
    IF style = "p2pkh" THEN base ELSE (3 * base + full + 3) \div 4
EstimateVsize_Small(style, n, to) ==       \* mutant: the dummy is a short signature
    TxVsize(style, n, [i \in 1 .. n |-> DummyEcdsa - 3], to)
EstimateVsize(style, n, to) == TxVsize(style, n, [i \in 1 .. n |-> DummyEcdsa], to)
-----------------------------------------------------------------------------
\* Signing (chain/sign.cpp).

Skeleton(us, to, sats, locktime) ==
    [vin |-> [i \in DOMAIN us |-> us[i].id], to |-> to, sats |-> sats, locktime |-> locktime]

\* What the three signature hashes commit to besides the skeleton.
Sighash(style, skeleton, us, i) ==
    CASE style = "p2pkh"  -> [tx |-> skeleton, input |-> i, code |-> us[i].at]
      [] style = "p2wpkh" -> [tx |-> skeleton, input |-> i, code |-> us[i].at,
                              amount |-> us[i].amount]
      [] style = "p2tr"   -> [tx |-> skeleton, input |-> i,
                              coins |-> [k \in DOMAIN us |-> <<us[k].at, us[k].amount>>]]

\* Every signature of the ECDSA styles has a size of its own.
SignSweep(style, us, to, sats, locktime, sizes) ==
    LET skeleton == Skeleton(us, to, sats, locktime) IN
    [skeleton |-> skeleton, from |-> style, sizes |-> sizes,
     sigs |-> [i \in DOMAIN us |-> Sighash(style, skeleton, us, i)]]
Vsize(t)   == TxVsize(t.from, Len(t.skeleton.vin), t.sizes, t.skeleton.to)
SpentBy(t) == ElementsOf(t.skeleton.vin)

Skeletons == [vin : Seq({c.id : c \in AllCoins}), to : DOMAIN dust_sats, sats : Nat, locktime : Nat]
Sighashes == [tx : Skeletons, input : Nat, code : Styles]
               \cup [tx : Skeletons, input : Nat, code : Styles, amount : Nat]
               \cup [tx : Skeletons, input : Nat, coins : Seq(Styles \X Nat)]
Transactions == [skeleton : Skeletons, from : Styles, sizes : Seq(SigSizes), sigs : Seq(Sighashes)]
-----------------------------------------------------------------------------
\* The node.

IdsIn(S)      == {c.id : c \in S}
CoinOf(id, S) == CHOOSE c \in S : c.id = id
FeeOf(t, S)   == Amounts([i \in DOMAIN t.skeleton.vin |-> CoinOf(t.skeleton.vin[i], S)])
                   - t.skeleton.sats

\* Consensus and relay rules for a transaction of which every input is there.
IsValid(t, S, h) ==
    LET coins == [i \in DOMAIN t.skeleton.vin |-> CoinOf(t.skeleton.vin[i], S)] IN
    /\ t.skeleton.vin # <<>> /\ Cardinality(SpentBy(t)) = Len(t.skeleton.vin)
    /\ \A i \in DOMAIN coins :
          /\ t.sigs[i] = Sighash(coins[i].at, t.skeleton, coins, i)
          /\ coins[i].coinbase => h + 1 - coins[i].height >= 100
    /\ t.skeleton.locktime < h + 1
    /\ t.skeleton.sats >= dust_sats[t.skeleton.to]
    /\ FeeOf(t, S) >= Vsize(t) /\ Vsize(t) <= MaxVsize
Conflicts(t, pool) == {m \in pool \ {t} : SpentBy(m) \cap SpentBy(t) # {}}
Acceptable(t) ==
    /\ SpentBy(t) \subseteq IdsIn(ledger) /\ IsValid(t, ledger, tip)
    /\ \A m \in Conflicts(t, mempool) : FeeOf(m, ledger) < FeeOf(t, ledger)

Reply200(v) == [status |-> 200, error |-> FALSE, result |-> v]
RpcError    == [status |-> 500, error |-> TRUE, result |-> "null"]
Denied      == [status |-> 401, error |-> FALSE, result |-> "null"]
CoinsAt(style) == SetToSeq({c \in ledger : c.at = style})
ScanRuns == \E r \in orphans : r.method = "scantxoutset"

NodeRefuses == \E r \in {RpcError, Denied} : Answer(r) /\ UNCHANGED <<sweepVars, nodeVars>>
NodeScans ==
    /\ pending # Nothing /\ pending.method = "scantxoutset"
    /\ ~ScanRuns
    /\ \E ok \in BOOLEAN :
          Answer(Reply200([success |-> ok, height |-> tip, unspents |-> CoinsAt(pending.at)]))
    /\ UNCHANGED <<sweepVars, nodeVars>>
NodeEstimates ==
    /\ pending # Nothing /\ pending.method = "estimatesmartfee"
    /\ \E f \in Feerates : Answer(Reply200([feerate |-> f]))
    /\ UNCHANGED <<sweepVars, nodeVars>>
Accept(t) ==
    /\ mempool' = (mempool \ Conflicts(t, mempool)) \cup {t}
    /\ accepted' = accepted \cup {t}
    /\ UNCHANGED <<tip, ledger>>
NodeAccepts ==
    /\ pending # Nothing /\ pending.method = "sendrawtransaction"
    /\ Acceptable(pending.tx) /\ Accept(pending.tx)
    /\ Answer(Reply200("txid")) /\ UNCHANGED sweepVars
\* A request that nobody waits for any more comes to its end.
OrphanEnds == \E r \in orphans :
    /\ orphans' = orphans \ {r}
    /\ \/ r.method = "sendrawtransaction" /\ Acceptable(r.tx) /\ Accept(r.tx)
       \/ UNCHANGED nodeVars
    /\ UNCHANGED <<g_stop, callVars, conn, pending, answer, sent, sweepVars>>
\* A block: the mempool or nothing of it, the arrival, and a coin that its
\* owner has spent elsewhere.
Mine == \E elsewhere \in {{}} \cup {{c} : c \in ledger}, taken \in {mempool, {}} :
    /\ tip < MaxTip /\ tip' = tip + 1
    /\ elsewhere # {} => taken = {}
    /\ LET spent == UNION {SpentBy(t) : t \in taken} IN
       ledger' = {c \in ledger : c.id \notin spent /\ c \notin elsewhere}
                      \cup (IF tip = FirstTip THEN {Arrival} ELSE {})
    /\ mempool' = {t \in mempool \ taken : SpentBy(t) \cap IdsIn(elsewhere) = {}}
    /\ UNCHANGED <<rpcVars, sweepVars, accepted>>
Node == NodeRefuses \/ NodeScans \/ NodeEstimates \/ NodeAccepts \/ OrphanEnds \/ Mine
-----------------------------------------------------------------------------
\* The process.

ScanRequest(style) == [method |-> "scantxoutset", at |-> style]
EstimateRequest    == [method |-> "estimatesmartfee"]
SendRequest(t)     == [method |-> "sendrawtransaction", tx |-> t]
Requests == [method : {"scantxoutset"}, at : Styles] \cup [method : {"estimatesmartfee"}]
              \cup [method : {"sendrawtransaction"}, tx : Transactions]

Style == arguments.items[item][spend]
Consume == reply' = Nothing /\ UNCHANGED <<g_stop, rpc, request, addresses, wireVars>>

\* The loop over stdin waits until an item or the end has come.  It never
\* looks at the flag, and a signal does not end the read (signal() restarts
\* it): after the last item of a Silent input nothing but death ends it.
WaitsForever ==
    pc = "item" /\ item = Len(arguments.items) /\ arguments.items \in Silent

\* handle() of run_transformer: the objects of an item are written when the
\* item is done, and never if one of its spends fails.
StartItem ==
    /\ pc = "item" /\ item < Len(arguments.items)
    /\ item' = item + 1 /\ spend' = 1 /\ out' = <<>>
    /\ pc' = "scan" /\ Call(ScanRequest(arguments.items[item + 1][1]))
    /\ UNCHANGED <<arguments, runs, utxos, height, tx, printed, exit, nodeVars>>
EndOfInput ==
    /\ pc = "item" /\ item = Len(arguments.items) /\ ~WaitsForever
    /\ pc' = "end" /\ exit' = "0"
    /\ UNCHANGED <<rpcVars, arguments, runs, item, spend, utxos, height, tx, out, printed, nodeVars>>
Die(status) ==
    /\ pc' = "end" /\ exit' = status /\ out' = <<>> /\ utxos' = <<>> /\ tx' = Nothing
    /\ Consume /\ UNCHANGED <<arguments, runs, item, spend, height, printed>>
Done(object) ==
    /\ utxos' = <<>> /\ tx' = Nothing
    /\ IF spend < Len(arguments.items[item])
       THEN /\ spend' = spend + 1 /\ out' = Append(out, object)
            /\ pc' = "scan" /\ Call(ScanRequest(arguments.items[item][spend + 1]))
            /\ UNCHANGED printed
       ELSE /\ out' = <<>> /\ printed' = printed \o Append(out, object)
            /\ pc' = "item" /\ Consume /\ UNCHANGED spend
    /\ UNCHANGED <<arguments, runs, item, height, exit>>
Object(t, fee, broadcast) ==
    [tx |-> t, sats |-> t.skeleton.sats, fee |-> fee, broadcast |-> broadcast]
Objects == [tx : Transactions, sats : Nat, fee : Nat, broadcast : BOOLEAN]

Mature_Early(u, h) ==                      \* mutant: one block too soon
    u.coinbase => h >= u.height /\ h - u.height + 2 >= 100
Mature(u, h) == u.coinbase => h >= u.height /\ h - u.height + 1 >= 100
\* What may be spent of the coins of a scan, in its order.
Spendable(us, h) ==
    LET kept[i \in 0 .. Len(us)] ==
            IF i = 0 THEN <<>>
            ELSE kept[i - 1] \o (IF Mature(us[i], h) THEN <<us[i]>> ELSE <<>>)
    IN  kept[Len(us)]
Overflows(us) == \E k \in DOMAIN us : Amounts(SubSeq(us, 1, k)) > MaxUint

\* The end of sweep_one: fee, dust, signature, broadcast.
Spend(us, h, rate) ==
    LET vsize == EstimateVsize(Style, Len(us), To)
        fee   == vsize * rate
        total == Amounts(us) IN
    IF \/ vsize > MaxVsize \/ vsize > MaxUint \div rate
       \/ fee >= total \/ total - fee < dust_sats[To]
    THEN Die("1")
    ELSE \E sizes \in [DOMAIN us -> SigSizes] :
         LET t == SignSweep(Style, us, To, total - fee, h, sizes) IN
         IF arguments.dry_run THEN Done(Object(t, fee, FALSE))
         ELSE /\ tx' = Object(t, fee, TRUE) /\ utxos' = us /\ height' = h
              /\ pc' = "send" /\ Call(SendRequest(t))
              /\ UNCHANGED <<arguments, runs, item, spend, out, printed, exit>>

SendReturns_Unchecked ==                   \* mutant: any end of the call will do
    pc = "send" /\ reply # Nothing /\ Done(tx) /\ UNCHANGED nodeVars

Replied(step) == pc = step /\ reply # Nothing
Failed(step) ==
    /\ Replied(step) /\ ~reply.ok
    /\ Die(IF reply.value = Killed THEN "killed" ELSE "1")
    /\ UNCHANGED nodeVars
ScanReturns ==
    /\ Replied("scan") /\ reply.ok
    /\ LET us == Spendable(reply.value.unspents, reply.value.height) IN
       IF ~reply.value.success \/ Overflows(us) \/ us = <<>> THEN Die("1")
       ELSE IF arguments.rate # Nothing THEN Spend(us, reply.value.height, arguments.rate)
       ELSE /\ utxos' = us /\ height' = reply.value.height
            /\ pc' = "fee" /\ Call(EstimateRequest)
            /\ UNCHANGED <<arguments, runs, item, spend, tx, out, printed, exit>>
    /\ UNCHANGED nodeVars
\* BTC/kvB to sat/vB: rounded to the nearest, and at least one.
SatPerVbyte(f) == IF f < 500 THEN 1 ELSE (f + 500) \div 1000
FeeReturns ==
    /\ Replied("fee") /\ reply.ok
    /\ IF reply.value.feerate = Nothing THEN Die("1")
       ELSE Spend(utxos, height, SatPerVbyte(reply.value.feerate))
    /\ UNCHANGED nodeVars
SendReturns ==
    /\ Replied("send") /\ reply.ok
    /\ Done(tx) /\ UNCHANGED nodeVars
-----------------------------------------------------------------------------
ASSUME CoinsAssumption ==
    /\ \A c \in AllCoins : /\ c.at \in Styles /\ c.amount \in Nat
                           /\ c.coinbase \in BOOLEAN /\ c.height \in Nat
    /\ \A c, d \in AllCoins : c.id = d.id => c = d
    /\ IsFiniteSet(AllCoins)
\* Every key has at least one style; a fee rate is at least one.
ASSUME ArgumentsAssumption ==
    /\ Inputs \subseteq Seq(Seq(Styles) \ {<<>>}) /\ Silent \subseteq Inputs /\ To \in DOMAIN dust_sats
    /\ Rates \subseteq (Nat \ {0}) \cup {Nothing} /\ Feerates \subseteq Nat \cup {Nothing}
ASSUME SizesAssumption == SigSizes \subseteq 1 .. DummyEcdsa
ASSUME BoundsAssumption ==
    /\ FirstTip \in Nat /\ MaxTip \in Nat /\ FirstTip <= MaxTip
    /\ MaxRuns \in Nat \ {0} /\ MaxUint \in Nat /\ MaxVsize \in Nat
ASSUME NothingAssumption ==
    /\ Nothing \notin Requests /\ Nothing \notin Objects
    /\ Nothing \notin Nat /\ Nothing \notin {"0", "1", "killed"}

\* A command that failed may be given again, with the same input.
Arguments == [items : Inputs, rate : Rates, dry_run : BOOLEAN]

Init ==
    /\ RpcInit
    /\ arguments \in Arguments /\ runs = 1
    /\ pc = "item" /\ item = 0 /\ spend = 1
    /\ utxos = <<>> /\ height = FirstTip /\ tx = Nothing
    /\ out = <<>> /\ printed = <<>> /\ exit = Nothing
    /\ tip = FirstTip /\ ledger \in Ledgers /\ mempool = {} /\ accepted = {}
RunAgain ==
    /\ pc = "end" /\ exit # "0" /\ runs < MaxRuns
    /\ runs' = runs + 1 /\ UNCHANGED arguments
    /\ pc' = "item" /\ item' = 0 /\ spend' = 1 /\ printed' = <<>> /\ exit' = Nothing
    /\ g_stop' = FALSE
    /\ UNCHANGED <<callVars, wireVars, utxos, height, tx, out, nodeVars>>

Rpc     == CallSteps /\ UNCHANGED <<sweepVars, nodeVars>>
Process == Rpc \/ StartItem \/ EndOfInput
               \/ ScanReturns \/ FeeReturns \/ SendReturns
               \/ \E step \in {"scan", "fee", "send"} : Failed(step)
Outside == /\ pc # "end" /\ (Wire \/ RequestStop)
           /\ UNCHANGED <<sweepVars, nodeVars>>
Next == Process \/ Node \/ Outside \/ RunAgain
Spec == Init /\ [][Next]_vars /\ WF_vars(Process)
-----------------------------------------------------------------------------
Sending == {r \in {request, pending} \cup orphans : r # Nothing /\ r.method = "sendrawtransaction"}

\* Every variable has its type; what call knows fits where sweep_one is.
TypeOK ==
    /\ g_stop \in BOOLEAN /\ RpcShape
    /\ request \in Requests \cup {Nothing} /\ orphans \subseteq Requests
    /\ utxos \in Seq(AllCoins) /\ tx \in Objects \cup {Nothing}
    /\ out \in Seq(Objects) /\ printed \in Seq(Objects)
    /\ arguments \in Arguments /\ runs \in 1 .. MaxRuns
    /\ pc \in {"item", "scan", "fee", "send", "end"}
    /\ item \in 0 .. Len(arguments.items) /\ spend \in Nat \ {0}
    /\ (tx = Nothing) = (pc # "send") /\ (utxos = <<>>) = (pc \notin {"fee", "send"})
    /\ rpc # "idle" => pc \in {"scan", "fee", "send"}
    /\ (exit = Nothing) = (pc # "end") /\ exit \in {Nothing, "0", "1", "killed"}
    /\ height \in FirstTip .. MaxTip /\ tip \in FirstTip .. MaxTip
    /\ ledger \subseteq AllCoins
    /\ mempool \subseteq accepted

\* A transaction that was sent is one the node can take for as long as its
\* coins are there, however long it is under way: the signatures commit to
\* the final amounts and the right coins, no coinbase is too young, the lock
\* time is reached, the output is no dust and the fee is relayed.
SentIsValid == \A r \in Sending :
    SpentBy(r.tx) \subseteq IdsIn(ledger) => IsValid(r.tx, ledger, tip)

\* What is sent spends all the coins of the scan, nothing is lost but the
\* fee that is reported, nothing wraps, and the fee is what the user asked
\* for: at least the rate times the size of the transaction as it was
\* signed, and at most three bytes an input more.
PaysWhatItSays == pc = "send" =>
    LET t == tx.tx  n == Len(utxos) IN
    /\ n = Len(t.skeleton.vin) /\ tx.sats + tx.fee = Amounts(utxos)
    /\ Amounts(utxos) <= MaxUint
    /\ arguments.rate # Nothing => /\ tx.fee >= arguments.rate * Vsize(t)
                                   /\ tx.fee <= arguments.rate * (Vsize(t) + 3 * n)

\* A transaction printed with "broadcast": true was accepted by the node, an
\* exit with 0 has printed one for every key and style, and --dry-run never
\* asks the node for more than a scan and a fee.
ReportedIsAccepted ==
    /\ \A o \in ElementsOf(printed) \cup ElementsOf(out) : o.broadcast => o.tx \in accepted
    /\ exit = "0" => Len(printed) = Total([i \in DOMAIN arguments.items |-> Len(arguments.items[i])])
    /\ arguments.dry_run => request = Nothing \/ request.method # "sendrawtransaction"

\* A call that is under way when a signal comes fails, even when the node
\* trickles its answer for ever, and a failed call is the end of the command.
\* At any other time the signal ends the command as well, at the next call,
\* unless there is none because no more input comes.
StopEndsSweep ==
    /\ [][g_stop /\ rpc # "idle" /\ reply' # Nothing => ~reply'.ok]_vars
    /\ g_stop ~> pc = "end" \/ WaitsForever
=============================================================================
