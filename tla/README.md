# Bitcoin Toolkit: a verification development in TLA+

`btk` is a command-line tool in C++: stateless transformers for keys and
addresses, a few commands that talk to a Bitcoin Core node, and two LevelDB
indexes of the whole chain (`btk balance`, `btk inflow`) that are built over days
by a multi-threaded program. The indexes are the part where order, concurrency
and failure matter most, so the modules begin there; then come the commands that
move money or keys: sweep, the RPC client below it, the key pipeline, and the
formats that everything is read from. Paths below are relative to the
repository; `sync.cpp:53` is a line of `src/src/chain/sync.cpp`.

## 1. Inventory

| component | code | state it keeps | operations |
|---|---|---|---|
| Block pipeline | `chain/sync.cpp`, `util/interrupt.cpp` | two bounded queues (mutex, condition variable, `closed_`, `err_`), four threads, the process-wide stop flag | `getblockcount`/`getblockhash` pre-check, fetch, parse, write, `push`, `pop`, `close`, `fail`, join |
| Index lifecycle | `chain/balance_db.cpp`, `cmd/balance.cpp`, `cmd/inflow.cpp` | the directory `~/.btk/balance`, LevelDB's lock file, `Mheight`, `Mtip` | `inspect_index`, `destroy_index`, `open`, `height`, `tip`, `do_sync`, query |
| Balance ledger | `chain/balance_db.cpp`, `chain/indexer.cpp` | "A" records (balances), "O" records (unspent outputs) | `effects_from_block`, `apply`, `get_sats` |
| Inflow ledger | `chain/inflow_db.cpp` | a row per address: satoshis received, count, last time | `apply`, `get_row` |
| Configuration file | `util/config.cpp`, `cmd/config.cpp` | `~/.btk/config.json` and one `.tmp` beside it | set, get, unset, dump, as read-modify-write and rename |
| Sweep | `cmd/sweep.cpp`, `chain/sign.cpp` | none of its own; the node's set of unspent outputs | scan, fee, sign, broadcast, once per key and address style |
| JSON-RPC client | `net/jsonrpc.cpp` | one socket per call | connect, write, read to the end, parse |
| P2P handshake | `net/p2p.cpp`, `cmd/node.cpp` | one socket, a read buffer | connect to one of several addresses, version message, framing |
| Transactions, blocks, scripts | `chain/transaction.cpp`, `compactsize.cpp`, `script.cpp` | a cursor into bytes | parse, serialize, classify |
| Command line | `cli/*` | the stream on standard input | generator and transformer loops, option parsing |
| Key commands | `cmd/privkey.cpp`, `pubkey.cpp`, `address.cpp` | none | choice of network and encoding |
| Encodings, cryptography | `core/*` | none (one secp256k1 context) | base58check, bech32, hex, hashes, keys |

How they interact. A command reads items (command line), may read the
configuration for the node's address, and calls the node through the JSON-RPC
client. `do_sync` (index lifecycle) inspects the directory, opens the database
and calls `walk_rpc_blocks` (block pipeline) with a callback that is
`BalanceDb::apply` (balance ledger) or `InflowDb::apply`; the parse thread turns
each block into the ledger's input. Queries open the same database. Different
processes meet at LevelDB's lock file, at the file system (`destroy_index`, the
temporary configuration file) and at the node.

What is hard, and what makes each part correct:

* **Block pipeline** - three threads with two queues in between; each may throw
  at any step; the stop flag may be set between any two steps; `push` drops its
  block when the queue is closed. Correct when the callback sees every missing
  height once, in order; "complete" is said only at the tip; every error reaches
  the caller; nobody sleeps for ever; no thread survives the function whose
  locals it uses.
* **Index lifecycle** - a directory that may hold anything, a process that dies
  at any time, a second process, a node that reorganises. Correct when the index
  is the record of one chain, the next `--sync` continues where the last one
  ended, and only `--force` discards.
* **Balance ledger** - a block both makes and spends outputs; reads see the
  database before the block, so the effects of the block are kept beside it and
  written at once. Correct when a balance is the worth of the unspent outputs.
* **Inflow ledger** - one count per transaction and address, not per output.
* **Configuration** - a shared temporary name and no lock. Correct when a reader
  never sees a half-written document, which needs writers that take turns: with
  two at once the model has runs in which updates are lost, in which a set that
  reports a failure is in effect, and in which the file stays unreadable.
* **Sweep** - the node's answers grow old between scan and broadcast, an answer
  to the broadcast may be lost, one of several styles may fail. Correct when what
  is sent is a transaction the node can take as long as the coins are there, its
  fee is the one that was asked for and reported, and "broadcast" is only said of
  what the node accepted.
* **JSON-RPC and P2P** - partial reads and writes, a timeout per read and not
  per call, lengths chosen by the peer. Correct when a reply or a report is made
  from a complete message only, and when the call or the handshake ends.
* **Command line** - several processes with bounded pipes between them, block
  reads, a buffer that is written at the end, a signal that only a generator
  looks at. Correct when no item is lost, doubled or overtaken, when a producer
  that never exits drives its consumers, and when the pipeline drains.
* **Key commands** - every command has its own precedence of WIF version byte,
  object field and option. Correct when what an object says of its key is true,
  over all stages, and an address that carries its key can be swept.
* **Codecs** - boundaries of compact sizes, truncated input, canonical forms.
  Correct when everything comes back, and damage is not read as something else.

`PROJECT.json` lists the hazards line by line.

## 2. Plan

| step | module | content | state |
|---|---|---|---|
| 1 | `SequentialWalk` | abstract: what a walk promises its caller | done |
| 2 | `BlockPipeline` | the threads and queues; implements 1 | done |
| 3 | `BlockPipelineProofs` | inductive invariant, safety, refinement | done |
| 4 | `IndexSync`, `IndexSyncProofs` | `do_sync` and query by several processes, with the walk of 1 inside | done, proved |
| 5 | `DataTheorems`, `Indexer`, `BalanceLedger`, `LedgerProofs` | `apply` against the set of unspent outputs; sums over finite sets | done, proved |
| 6 | `ConfigRegister`, `ConfigStore`, `ConfigStoreProofs` | abstract: a register; load, change, save through `.tmp` by several processes, with crashes | done, proved with the refinement |
| 7 | `InflowLedger` | rows against the history of payments | done, proved in `LedgerProofs` |
| 8 | `JsonRpc`, `Sweep` | one RPC call against a node that may fail in every way; scan, fee, sign, broadcast on top of it; `SweepProofs` | done, safety proved |
| 9 | `PeerHandshake`, `PeerHandshakeProofs` | connect, framing, time-outs, checks of the version message | done, safety proved |
| 10 | `KeyCommands`, `CommandLine`, `KeyPipeline`, `KeyPipelineProofs` | what a command makes of an item; processes and pipes; both together | done, safety proved |
| 11 | `WireFormat`, `AddressFormat`, `Codecs` | compact size, transactions, blocks, base58, bech32, keys and scripts: reading back what was written, and what was damaged | done |

Composition: 2 implements 1 by `INSTANCE`, and `ConfigStore` implements
`ConfigRegister`; 4 contains 1 with the blocks that are
fetched ahead; 5 and 7 show what the single "block applied" of 4 does to the
records, and both extend `Indexer`, what the parse thread hands to either.
`Sweep` extends `JsonRpc`: its steps start a call and take its reply,
and the node executes the requests. `KeyPipeline` puts the functions of
`KeyCommands` into the processes of `CommandLine` (an `INSTANCE` with the
operator that runs a stage). `AddressFormat` extends `WireFormat` (a reader's
result has the same form), `Codecs` runs both. Modules that are proved about use
no recursive operators, and their bounds are constants with named assumptions so
that the theorems hold for every value. `AddressFormat` has a recursive operator
and stays with TLC, and so does `Codecs`, which extends it.

Theorems: every safety property that holds is proved (section 6), but for those of
`Codecs` and the half of `StopEndsSweep` that speaks of steps: the
pipeline and its refinement, the index, both ledgers, the configuration and its
refinement, sweep over the calls of `JsonRpc`, the handshake, and the pipelines of
commands. What could follow: that `Spendable` keeps every mature coin and not only
mature ones (a fold whose value for every input needs induction), a version of
`BalanceLedger` in which ids may come back, and lemmas about the writers and readers
of `WireFormat`, one field at a time.

## 3. Modules

### SequentialWalk

The walk as its caller sees it: the tip becomes known, `apply` is called for the
next height as long as there is one, and the walk is reported complete (only at
the tip), failed, interrupted or stopped by a reorg.

### BlockPipeline

One variable per local of `walk_rpc_blocks` that matters. A block is its height.
`main`, `fetch`, `parse`, `write` say where each thread is; a thread inside
`push` or `pop` is at `push`/`pop` when it enters and at `push_wait`/`pop_wait`
while it sleeps. One critical section of a queue's mutex is one step.

* `BoundedQueue` (`sync.cpp:53-112`) is a set of operators on the variable that
  holds the queue: `PushSleeps`, `PushStops`, `PushThrows`, `PushDrops`,
  `PushAppends` and their counterparts for `pop`, one for each way through the
  code. The wait is timed (200 ms), so a sleeper may wake up at any time; the
  notifications are therefore left out, which only adds behaviours.
* `fail` sets `closed_` as well as `err_`. `failed` is the set of queues with
  `err_`; the text of the error is not kept.
* `FetchRpc` and `ParseBlock` succeed or throw; `WriteApply` and
  `WriteApplyThrows` likewise. The node may always throw, also `interrupted`.
* The order inside handlers is kept: the fetch thread fails `raw_q` and then
  `fx_q` in two steps; the write thread stores its error, then fails both.
* `applied` is a history variable, the argument list of the callback.

### IndexSync

Several processes run `do_sync` or a query on one directory, against one node.
A block is the chain that ends in it (its hash commits to its ancestors), so the
`Mtip` of an index is its last block and the comparison with `getblockhash` is a
comparison of chains. `dir` is what `inspect_index` tells apart. `lock` is
LevelDB's lock file: `DB::Open` and `DestroyDB` fail while another process holds
it. The walk is `SequentialWalk` with up to `MaxAhead` blocks fetched and not yet
applied. `Faults` chooses among failing calls, interrupts, the death of a
process, the loss of power (LevelDB is used without `sync`, so the newest batches
may vanish, whole) and reorganisations during a walk; between walks the node may
always reorganise. `Spec` starts without an index, `SpecIndexed` with one that a
sync has made.

`do_sync` of `inflow` is the same code over another class; it is not modelled a
second time.

### Indexer

`effects_from_block` (`indexer.cpp:5-41`), as far as both indexes need it: the
outputs of a transaction that become credits (`Credited`) have a value and an
address that `address_from_script` can name.

### BalanceLedger, MCBalanceLedger

One step is one turn of the loop in `apply` over the block's transactions:
debits first, then credits, on apply's own maps and batch; `Commit` is the one
write at the end, `Abandon` its failure or the death of the process. `utxo` is
Bitcoin Core's set of unspent outputs (external), the reference. The MC module
gives output lists that differ for the index: one output, two for one address,
change with an output that has no address, an output of no value.

### InflowLedger, MCInflowLedger

The rows of `~/.btk/inflow`, changed transaction by transaction in a map and
written at once, as in `BalanceLedger`. Names that both modules need begin with
`Inflow` here, so that `LedgerProofs` can extend the two. The reference is the
sequence of applied blocks, whose times are not in order. `Answer` is the query with
`--since`.

### ConfigRegister, ConfigStore, MCConfigStore

`ConfigRegister` is a register that holds a whole document and promises nothing
once two processes were at work at the same time. `ConfigStore` is the code:
`load_config_document`, the change of one key, `save_config_document` with
`open(O_TRUNC)`, `write`, `close` and `rename` of one temporary name. Files are
inodes, because that is where two writers meet: the second truncates the file
the first is writing, and the first one's rename makes it `config.json` while
the second still writes. A file is two halves, so a reader or a crash can come
in between.

`get` and `dump` only read, and what they read is `config` in some state.

`load_config_document` does not ask why it could not open `config.json`:
`LoadNoFile` may happen in any state of the file, and `denied` remembers when the
file was there. A document says of the fields that btk does not know whether there
are any, and whether one of them has a number that `emit_number` will round
(`"precise"`); `Emitted` is what a document is after it was printed, and what was
printed once is printed as it is from then on. `found` is what the process that is
alone at work has read. The properties claim what the code keeps
of the help's "preserved on rewrite", not the sentence as it stands (section 7).

### JsonRpc

`JsonRpc::call` with `connect_ipv4`, `write_all`, `read_all` and `wait_fd`. `rpc`
is where the call is: trying the addresses of the host, writing, reading.
`wait_fd` is the choice between `Interrupted`, `TimedOut` and going on. A
response is what the parser tells of it, in two parts, headers and body; the
connection may end after either (`ReplyOf` says what is then made of it: nothing
looks at `Content-Length`). The connection is `trickle` when the node sends for
ever and no timeout will fire. `orphans` are requests that the node has and that
nobody waits for any more: it may execute them at any later time, which is how an
answer to a broadcast gets lost. A write to a closed connection may also be the
end of the process (`Killed`): nothing in the code ignores SIGPIPE.

### Sweep, MCSweep

`Sweep` extends `JsonRpc`. `pc` is what `sweep_one` waits for (the scan, the fee,
the broadcast); `StartItem`, `ScanReturns`, `FeeReturns` and `SendReturns` are the
code between two calls. `Spend` is the end of `sweep_one` with its order of
checks. A signature is the record of what its hash commits to, so that a wrong
amount, script or output makes it invalid; sizes are those of the serialization,
byte by byte, because the fee depends on them. The node (external) has confirmed
coins, a tip, blocks, a mempool with replacement by fee, and refuses a scan while
another runs. Items come from standard input, which may stay silent
after any of them (`Silent`): then `WaitsForever` holds, because the loop over
stdin does not look at the flag and the read is restarted after a signal.
`accepted` is a history variable. `RunAgain` gives the command
again after it failed. MCSweep has a coinbase one block too young, coins that add
up to more than the small `MaxUint`, fee rates that leave dust, and two keys.
`Spendable` is the loop that drops immature coinbases, as a recursive function.
The constants are bound by named assumptions: an outpoint names one coin
(`CoinsAssumption`), every key has a style and every rate is at least one
(`ArgumentsAssumption`), no signature is longer than the dummy of 73 bytes with
which the size is estimated (`SizesAssumption`; DER with low S has at most 72).

### PeerHandshake, MCPeerHandshake

`handshake_version` and the parsing of `--host`. `off` is the local of
`write_exact` and `read_exact`, `arrived` the bytes that the peer's side has
delivered, in portions out of `Chunks`. A message is what its parser tells apart:
magic, command, checksum, declared length, width and length of the user agent,
relay flag, and how many bytes really follow. MCPeerHandshake has messages on
both sides of every limit: 84/85, 1024/1025, user agents of 252, 253, 256, 257
bytes, a length that is not canonical, a payload without room for the height.

### KeyCommands, CommandLine, KeyPipeline, MCKeyPipeline

`KeyCommands` has no state: `Privkey`, `Pubkey`, `Address` and `Sweep` are the
`run` of each command, a function of options and one item. A secret is a value, a
text is the record of what it encodes, a point or hash is known by what it was
computed from; a text of 64 decimal digits is both a hex and a decimal number.
The precedence rules are kept as the four files have them; they are not the same.
`Chain` is an item with its sources, each the source of the one before, down to
`MaxDepth` = 8: the limit of `find_privkey_object` in `sweep.cpp`.

`CommandLine` is the processes: `Generate` is a turn of `run_generator`, `Fetch`
and `Release` are the framing (`buffer` is what a stage has read of an incomplete
block, `Quota` the size of it: a prefix of 8 KiB, then 4 KiB, in auto mode; one
line otherwise), `Handle` a turn of `run_transformer`, `Write` and `Close` the
`OutputWriter` and its destructor. Pipes hold `Capacity` items; a pipe without a
reader kills its writer. `owed` is a history variable: the objects that the input
and the generator still owe to the last reader. `From(i, s)` is what the stages
from i on make of the values s, and `Flying` what they make of everything that is on
its way, the last stage first.

`KeyPipeline` is both together. MCKeyPipeline runs every encoding, network and
compression through one to three stages, one key at a time, and a few lines with
several keys for the streams, also with a second `privkey` that changes the
compression between the first key and the address. `LinesAssumption` says what a
command line may be: any options, text lines of any form, and on the first pipe
objects such as btk itself writes them (`Honest`); of an object that somebody else
made up nothing is claimed, because the commands take its fields as they are and do
not compare all of them. TLC evaluates it for every line of MCKeyPipeline.

### WireFormat, AddressFormat, Codecs, MCCodecs

`WireFormat` reads and writes compact sizes, transactions and blocks on sequences
of bytes; every reader returns the offset behind what it read, or `Fail`.
`AddressFormat` has base58 with its digit-by-digit conversion and the estimated
buffer size, base58check, bech32 with its checksum (a 30-bit word is six values
of five bits), segwit addresses, WIF, decimals, and the scripts of addresses.
`Codecs` encodes a sample, may cut, extend or change the result once or spell it in
capitals, and then reads it (`Read`); `Usual` lists what the formats leave free, the
capitals of a bech32 text among it; the bytes that make a transaction's id are only read, never damaged.
Checksums are parameters; MCCodecs uses small ones. Keys have eight bytes there
instead of 32 (`KeyLen`), with an order of the same shape; nothing in the
conversions depends on the number.

### DataTheorems and the modules of proofs

`DataTheorems` has what several proofs need of the library's data: sums over finite
sets (`SumFunctionOnSet`: of the empty set, of one element more or less, of a union,
of equal and of larger summands), the smallest set and the least number with a
property (`Smallest`, `Least`), sequences, and `FlattenSeq` (of parts one after the
other, of a longer first or last part, and of a value that moves from one part to its
neighbour). `BlockPipelineProofs`, `IndexSyncProofs`, `LedgerProofs`,
`ConfigStoreProofs`, `PeerHandshakeProofs`, `SweepProofs` and `KeyPipelineProofs`
each extend the modules they are about: section 6.

## 4. Runs

| run | what it shows | bounds |
|---|---|---|
| `pipeline` | all safety properties, the refinement of `SequentialWalk`, and liveness of the pipeline with any step failing and the signal at any time | heights 0-5, capacities 1 and 1 |
| `index` | two processes run sync, force and query, in turn or together, with interrupts, failing calls, crashes, power loss, and reorgs between walks. In turn: the index is always one chain and a complete walk ends at the announced tip. Together without `--force`: no height is skipped. Always: only a step of a forced process, or the loss of power, makes blocks vanish | chains to 3 blocks, 2 branches, 1 block ahead |
| `ledger` | balances and outpoint records are those of the unspent outputs after every block, abandoned ones included | 4 ids, 2 addresses, 2 inputs, 4 output lists |
| `inflow` | rows are the sums over the history, and `--since` answers by them (one property) | 3 blocks, 2 transactions each, 2 addresses, 3 times |
| `config` | the store implements the register while processes take turns; a failed save changes nothing; while every file that is there can be opened, unknown fields survive even concurrent writers, rounded once at most | 2 processes, 1 known key, 2 values, unknown fields absent, printed as read, or to be rounded |
| `sweep` | what is sent stays valid while it is under way; it spends the whole scan and pays the fee that was asked for; `"broadcast": true` is only printed of what was accepted, exit 0 means every style of every key, `--dry-run` sends nothing; a signal ends a call at once, and the command unless it waits for input for ever. Lost answers, calls that fail at each step, blocks, coins spent elsewhere, and a second run after a failed one | 2 ledgers, 2 inputs of 2 spends or 3, 3 fee rates and 3 estimates, 1 address, 2 heights, 2 runs, 2 inputs that end and 2 that stay silent, after none and after 1 item |
| `handshake` | a peer is reported exactly when a well formed message was read to its end, with its fields; every handshake ends | 21 messages, 5 hosts, 3 addresses, portions of 20 or 1024 bytes |
| `pipes` | nothing is lost, doubled or overtaken, across blocks, arrays, signal and failure; an endless producer drives its consumers; the pipeline drains; objects are true of their keys; an address printed with its key can be swept, exactly if the nearest private key among its sources has its compression | 3 stages, 2 secrets, prefix 3, block 2 and pipe 2 items, all encodings and flags |
| `codecs` | what is written is read back; damage shows; nothing has two encodings but for the freedoms of the formats (zeros before a decimal, the flag of a transaction, capitals in bech32) | 60 samples at the limits of the formats, every cut, insertion and replacement of a character near both ends of long texts, anywhere in short ones, every text in capitals |
| `reorg_mid_walk` | violated: section 7 | 3 blocks |
| `first_sync_interrupted` | violated: section 7 | 3 blocks |
| `sync_race` | violated: section 7 | 3 blocks, 2 processes, an index with the first block |

Why the bounds are enough. *Pipeline*: six heights are more than one full and
one empty phase of both queues (1 + 1 places, and one block in the hands of each
of the three threads), so fetch meets a full queue, apply an empty one, and both
wait at the same time; the proofs remove the bound for safety. *Index*: with
chains of three blocks and two branches an index can be behind, level, ahead of
the node, and on another branch that forks at any of these heights; every step of
do_sync is interleaved with every step of a second process, and the history
variable `company` tells runs in which processes took turns from the others. Two
processes are enough for the races on the lock, which has one holder.
*Ledger*: with four ids a block can contain a payment, its spending and the
spending of that, and the ids become free again for the next block. *Inflow*:
three blocks can be in any order of time. *Configuration*: two writers can meet
at each pair of steps; a third one only repeats what the second does; the other
keys behave as the unknown fields do, they are carried along. Processes, values,
branches and transaction ids are symmetric: nothing in the code orders them.

*Sweep*: two inputs cover several styles of one key, several keys, and the same
address twice (a conflict with one's own earlier transaction); two heights are
enough for a coinbase to mature and a lock time to be reached, two runs for a
repeated sweep while the first transaction is in the mempool or still an orphan.
*Handshake*: portions of 20 bytes end within the header and within the payload,
those of 1024 take everything at once; three addresses can fail in three
different ways. *Pipes*: a prefix of three and blocks of two items with pipes of
two make every block span two pipe fillings, and generators of two or three keys
end in the middle of a block. *Codecs*: the limits 252/253 and 65535/65536 of the
sizes, leading zero bytes, the largest key, a bech32 text that ends in "p" (where
an inserted "q" keeps the checksum valid).

The capacities 8 and 100 of the code differ from 1 only in how long it takes to
fill a queue.

Deadlock is checked in the runs of the pipeline, the index, the ledgers and the
configuration. `BlockPipeline` ends in `Terminated`, an explicit stutter of the
finished walk. `sweep`, `handshake`, `pipes` and `codecs` end when the command
has exited or the sample was read, so deadlock is not checked there; that they do
not stop earlier is what `StopEndsSweep`, `HandshakeEnds` and `Drains` say
(`codecs` has two steps, damage and reading).

## 5. Fairness

`BlockPipeline!Fairness`: the threads are scheduled, and a sleeper wakes up by
its timeout (`wait_for(200ms)`), so each thread has weak fairness. An RPC is
different. `wait_fd` looks at the stop flag every 200 ms and throws once it is
set, so a call returns after the flag; but without a signal the timeout restarts
with every read, and a node that keeps sending may hold the call for ever.
Therefore the fairness of `Main` and `Fetch` excludes a call in progress while no
signal has come (`Stalled`), and `WalkReturns` is stated with that alternative:
the walk returns or it is for ever inside a call. No signal is ever required to
arrive. `connect` does not look at the flag, but is bounded by its own timeout.

`Sweep`: weak fairness of the process, nothing of the node or the network. A call
that waits for a silent node always has `TimedOut` enabled, one that waits for a
trickling node has no step of its own until the signal comes, and then
`Interrupted` is enabled: the flag is read every 200 ms. `connect` does not read
the flag but its addresses are finitely many and each has its timeout. Nothing is
assumed of standard input: an input that is silent after its last item has no step,
with or without a signal, so `StopEndsSweep` says that the command ends or waits
there, and apart from that, of every step, that no call that is under way at the
signal returns a good answer.
`PeerHandshake`: the same, weak fairness of the process; no portion is empty and
every wait has its 15 s. `CommandLine`: weak fairness of each process, which is
scheduled by itself; a process that waits for a full or empty pipe has no step
enabled and is owed none. The fairness is stated on the variables of the system,
without the history `owed`.

The other modules state safety only and assume no fairness.

## 6. Proofs

Every theorem below is checked by TLAPS from the modules as TLC runs them; no
obligation is taken on trust, and the constants are bound only by the named
assumptions of the modules, which TLC evaluates on every run.

| module | theorem | property |
|---|---|---|
| `BlockPipelineProofs` | `TypeCorrect`, `InOrder`, `Complete`, `ErrorsReported`, `ThreadsJoined`, `BoundedMemory` | `TypeOK`, `AppliedInOrder`, `CompleteMeansTip`, `ErrorIsReported`, `NoThreadOutlivesWalk`, `Backpressure` |
| | `Implements` | `ImplementsWalk`: the refinement of `SequentialWalk` |
| `IndexSyncProofs` | `TypeCorrect`, `EveryHeight`, `OneChain` | `TypeOK`, `NoHeightMissing`, `SingleChain` |
| | `Synced`, `ForceDiscards` | the action properties `CompleteIsSynced`, `OnlyForceDiscards` |
| `LedgerProofs` | `TypeCorrect`, `Balances`, `Outpoints` | `TypeOK`, `BalanceIsUnspent`, `OutpointsAreUnspent` |
| | `InflowTypes`, `RowsAreSums` | `InflowTypeOK`, `RowsSumUpHistory` of `InflowLedger` |
| `ConfigStoreProofs` | `TypeCorrect`, `FailureIsHarmless`, `Unknown` | `TypeOK`, `FailureChangesNothing`, `UnknownKept` |
| | `Implements` | `ImplementsRegister`: the refinement of `ConfigRegister` |
| `PeerHandshakeProofs` | `TypeCorrect`, `Reported` | `TypeOK`, `ReportedIsComplete` |
| `SweepProofs` | `TypeCorrect`, `Sent`, `PaysForEver`, `Reported` | `TypeOK`, `SentIsValid`, `PaysWhatItSays`, `ReportedIsAccepted` |
| `KeyPipelineProofs` | `TypeCorrect`, `Conservation`, `Agreement`, `Sweeping` | `TypeOK`, `NothingLost`, `KeysAgree`, `Sweepable` |
| | `Invariant` | the inductive invariant these rest on |

Two theorems assume more than their module does. `OneChain` needs
`"reorg" \notin Faults`: with a reorganisation in the middle of a walk the
property is false, and the run `reorg_mid_walk` shows it (section 7).
`PaysForEver` needs `SigSizes \subseteq DummyEcdsa - 3 .. DummyEcdsa`: the fee is
computed from dummies of 73 bytes, so "at most three bytes an input more" is true
of signatures of 70 to 73 bytes; shorter ones exist, a few in
2^16, and overpay by as many bytes more. `Sent` has no such assumption: a
transaction is never larger than the estimate.

### The pipeline

The theorems hold for every `MaxHeight`, `RawCap` and `FxCap` that
`MaxHeightAssumption` and `CapAssumption` allow.

None of the properties is inductive. The invariant `IInv` says in addition
where every block is: the heights that were applied, the one in the hands of
write, those in `fx_q`, the one in the hands of parse, those in `raw_q` and the
one fetch is at are consecutive. `Run(s, n)` says that a queue holds
n, n + 1, ...; each step moves one height over one boundary. A block may be
dropped by `push`, so the chain of heights is claimed only as long as the queue
behind it is still open, and for a queue that closed without a failure and
without a signal `CleanEnd` says why: fetch went beyond the tip, parse saw the end
of `raw_q`, and the tip is in `fx_q` or applied. `Failures` ties `failed` to the
thread that caused it and to `worker_err`, which gives `ErrorsReported`.
Each step of the inductiveness proof is one action; the part of `IInv` about
runs of heights is used through lemmas on `Run` (append, head and tail, last).

For the refinement every step is a step of `SequentialWalk` or a stutter: the
end of the pre-check is `LearnTip`, `WriteApply` is `ApplyNext`, `Finish` is
`Complete` or `GiveUp`.

### The index

The invariant comes in four parts, each preserved with the help of those before
it. `Shape` holds whatever processes do to each other: only a database has blocks,
a process inside the walk holds no more than `MaxAhead` of them, and the blocks it
holds have the heights that follow those it has left. `HeightsKept` is what the
lock gives as long as no `--force` runs beside another process: a process that
relies on the metadata holds the lock, and every height below one that was
announced, or that a walk has passed, is in the index. `Alone` adds that, when
processes take turns, the metadata in hand are those of the database and a walk
is exactly one block behind the next. `Linked` adds that the index ends, and the
walk goes on, on the node's chain. None of the properties is inductive without
these: `NoHeightMissing` says nothing of a process that has read `Mheight` and not
yet written, which is just where a second process can hurt. `Synced` and
`ForceDiscards` are proved of every step, from `Alone` and from `Shape`.

### The ledgers

For `BalanceLedger`, `IInv` says what the index will be once the batch is
written: an outpoint that the batch deletes is spent, one that it puts is unspent,
and any other has a record exactly if it is unspent and counts; and every balance
in apply's map is the sum over the outputs of the block so far. The first part is
needed for the second: a debit must find the outputs that count and no others,
and a balance is never made negative because what is taken out is a part of the
sum. For `InflowLedger` (`InflowIInv`) one statement, `Accounts`, is made of two
pairs: the rows in the database against the applied blocks, and the rows in hand
against those and the part of the block that was seen.

The sums are `SumFunctionOnSet`, a fold whose recursion picks an arbitrary element.
The library's induction theorems take an operator as a parameter and are of no use
to the installed provers, so `DataTheorems` argues by a smallest counterexample
instead: among the finite sets for which an equation fails there is one all of
whose parts satisfy it (`Smallest`, from the well-foundedness of finite subsets),
and that one is refuted. `Least` is the same for numbers, and gives the recursive
functions `Spendable`, `Chain` and `Through` their existence and their steps.

### The configuration

`Shape` (an inode has at most one name, a process has a file open exactly while it
writes) holds for any writers. `UnknownIs` says of every document that is stored or
in hand that it has the same unknown fields, as they were or printed, as long as no
open was denied (`SameUnknown`); `PreciseIsOld` that a number still to be rounded is
in no file that btk has written, and in no inode but that of `config.json`, so that
what was rounded does not come back. Neither needs to know who else writes, which
is why `Unknown` also covers writers that overlap. `TakesTurns` is claimed until two processes were at work at once:
the writer's file is the one behind the temporary name and not `config.json`, what
it has written is its document, and `config.json` still holds what it read. With it
`rename` is the one step of `set` and `unset` that changes the register: `SetKey`,
`UnsetKey`, or `Replace` if the process could not open the file it replaces
(`Prepared`). An open that is denied is `Deny`, and every other step, failures and
deaths included, is a stutter of it.

### The handshake

`Progress` says how far the message has been read at each place. Reading stops at
the length in the header, and a header with a length outside 85 to 1024 or another
magic or command never gets to the payload; so what is parsed is as long as it was
declared, for any portions.

### Sweep

`Asked`: the call in progress is the one that `sweep_one` waits for. `Told`: a good
answer, and a good reply, mean what they say at this place (coins of the style
asked for, each once; a feerate; the transaction is accepted). Without them a
reply would be a value of unknown origin. `Carried`: the coins kept from the scan to
the fee are different, of one style, mature at the height of the scan, and their
sum does not wrap. `ValidForEver`: a transaction that was sent, also one whose
caller has given up, is valid with all the coins there have ever been. That is the
inductive form of `SentIsValid`, which speaks of the coins that are left: blocks
take coins away, but never make a coin younger (`ValidLater`). The step that signs
is `SignedIsValid`; it rests on `EstimateIs` (what is signed is no larger than the
estimate), `NamedAgain` (the inputs name the coins that were summed up) and
`NoneTwice`. `Progress` counts the objects: those of the finished items, a sum over
the input, and those of the styles of the present one. The steps of a call are
proved once, for any place (`CallKeeps`); `Returns` is the only way out of it.

### The pipelines of commands

The theorems hold for any number of stages, any options, any input that
`LinesAssumption` allows, and any `Prefix`, `Block` and `Capacity`.

None of the four properties is inductive. `TypeOK` does not say what is in a
buffer; `NothingLost` compares what was delivered with what is owed, which a step
keeps only if each stage will make of a value the same whether it stands on the
pipe, in the block, among the items to handle or in the hands of the writer;
`KeysAgree` and `Sweepable` look at objects, and a command makes good objects of
good items only. `IInv` has five parts:

* `Shape`: the functions of the state have the stages as their domain.
* `Holds`: what stands at a stage is of a kind that the stage before it writes.
  Whether a pipe carries objects, arrays or lines is known from the command line,
  and a stage in mode "objects" gets some. Every object is honest.
* `Within`: no more than fits into a block or a pipe, and an array is kept back
  only by a writer that keeps one.
* `Done`: a stage that ends well has read its input to the end.
* `Conserved`: unless a stage has failed, or the input was mixed, `owed` is
  `Flying`.

For `Conserved` the values under way are a sequence of loads, one for each stage,
from the last to the first: what the rest of the pipeline will make of what stands
there (`From`). `From` of a concatenation is the concatenation (`ThroughConcat`), so
a step inside one stage leaves its load as it is, and a step over a pipe takes a
value from the end of one load and puts it at the beginning of the next; either way
the flattened sequence is the same (`FlatMove`). Delivery takes from the first load
what the last reader gets, a turn of the generator puts into the last one what
`owed` grows by. `ConserveFailed` covers steps of a stage that fails, `HereAlone`
those that no other stage sees.

The data come first in the module. An object is honest if it is true of its data and
so is everything in its chain of sources, each about the secret of the one below;
`Makes` says of every command, each way it may read its item and all its options
that it makes honest objects of an honest item, or fails (`RunMakes`). From this
`HonestAgrees` follows for `KeysAgree`. For `Sweepable`, `FoundNearest` shows that the
search of `sweep` ends at the nearest private key, or with none within eight sources.

### Only model-checked

Liveness (`WalkReturns`, `StopEndsWalk`, `StopEndsSweep`, `HandshakeEnds`,
`ProducerDrives`, `Drains`) is beyond the prover. `RoundTrip`, `DamageShows` and
`OneEncoding` of `Codecs` are checked on their instances: they speak of what
digit-by-digit conversions compute for every input, which needs induction over data,
and `AddressFormat` has a recursive operator, for which the prover has no backend.
What the recursive functions of the proved modules compute for every input, beyond
what the theorems need, is not proved either.

## 7. Where the code and its documentation differ

* **A reorg during the walk** (`reorg_mid_walk`). `src/README.md:132`: "A reorg
  refuses to proceed until you pass `--sync --force`". Only the tip of the index
  is compared, once, before the walk; blocks are then asked for by height and no
  block is compared with its predecessor. A walk takes days the first time.
* **A first sync interrupted before block 0** (`first_sync_interrupted`).
  `cmd/balance.cpp:41-42`: "the next --sync continues from the last saved
  height". The database is created before the node is called; without `Mheight`
  it is junk to the next `--sync`, which refuses it.
* **Two syncs** (`sync_race`). `cmd/balance.cpp:38-39`: "walk Mheight+1...tip".
  The database is closed after `Mheight` was read and opened again for the walk.
  Two processes on one index may both read the same `Mheight` before either walks;
  then the second one applies the blocks that the first has applied again. (The run
  starts from an index. On a missing directory the same happens to two first syncs,
  which both find nothing and walk from 0, one after the other.)

Seen while modelling, and not runs of their own:

* **Unknown fields of the configuration.** `cmd/config.cpp:29-30`: "Unknown on-disk
  fields are ignored and preserved on rewrite". Numbers are read as doubles and
  printed with six digits unless they are integers from 0 to 2^53 - 1
  (`json_io.cpp:130-136`). And a failed open counts as a missing file
  (`config.cpp:140`): the rename needs only the directory, so `set` replaces a
  `config.json` that it may not read by a document with one key. `ConfigStore` has
  both, and `UnknownKept` says what is left of the sentence.
* **An address in capitals.** `cmd/balance.cpp:24-30` says that a query takes bech32
  addresses. `BC1Q...` is accepted (`bech32.cpp:132-156`, and
  `test/unit/bech32_test.cpp:50-58` wants it to be the same program as `bc1q...`),
  but looked up as typed (`cmd/balance.cpp:246`), while the index has the small
  letters of `segwit_encode`: `sats` is 0. `inflow` takes its items in the same way.
  `Codecs` has the two spellings (`Capitalise`), not the query.
* **A signal at the prompt.** The loops over standard input do not look at the stop
  flag, and a read is restarted after a signal (`dispatcher.cpp:190`): a
  transformer that waits for its next item does not end before the input does.
  `Sweep` has the wait (`WaitsForever`).
* **A busy index.** `cmd/balance.cpp:38-40`: a valid database is walked on, a
  rebuild is for junk or a reorg. A database that another process holds open
  looks like junk to `inspect_index` (`balance_db.cpp:171`), so `--sync` advises a
  rebuild. `IndexSync` has the step (`RefuseJunk` after `InspectOpen`).
* **Framing on a pipe.** `src/README.md:73-75` says that output is flushed so that
  a streaming producer can drive a consumer that is still running. It does, but
  auto mode reads a prefix of 8 KiB before the first item and blocks of 4 KiB
  after it (`io.cpp:120`, `io.cpp:229-231`), so a consumer is behind by a block;
  with a slow producer the first result comes late. `ProducerDrives` says what
  holds.
* **A sweep that fails in the middle.** `sweep.cpp:466-470` collects the objects of
  an item and the dispatcher writes them when the item is done: if a later style
  fails, an earlier transaction of the same key was broadcast and is not printed.
* **Objects, then bare lines** on one standard input: the loop over objects stops
  at the first character that is not `{` (`io.cpp:185-196`), the rest is not read
  and the exit status is 0.
* **Network of a WIF.** `src/README.md:107-109` says that the version byte wins
  over the flag. For `pubkey`, `address` and `sweep` it does; `privkey --network`
  writes the key for the other network, as its help says; and for an object the
  `network` field wins over a WIF in `pubkey` but not in `address`
  (`pubkey.cpp:236`, `address.cpp:211`).
* **The key of an address.** `sweep` takes the nearest private key among the sources
  of an object, at most eight up (`find_privkey_object`). Where a later `pubkey` has
  changed the compression, the address belongs to another form of the key than that
  private key, and the sweep refuses it, also if a private key further up, from
  before a `privkey` that changed the compression as well, would fit.
  `Sweepable` says exactly when it works.
* A decimal of exactly 64 digits is read as hex unless `--from dec` is given; the
  relay flag counts as false for a peer that does not send it.

## 8. Not modelled

* Option parsing (`cli/options.cpp`), `--in json`, `--from file` and binary
  standard input of `privkey`, and a stage with `--out json` before one that reads
  `ndjson` or plain lines (the array spans several lines, which such a reader
  refuses).
* Objects that were edited by hand: on the first pipe of `KeyPipeline` an object is
  as btk writes it. Broken text, other text and lines that do not parse are modelled.
* Hex, the random source, hash functions, elliptic curves and taproot tweaks:
  stateless, or beyond model checking. Signatures are what they commit to,
  checksums are parameters.
* `Errors`: prefixes of messages only.
* Progress lines, wording of errors, JSON layout.
* What LevelDB does inside: a batch is atomic, a lock is exclusive, a process
  that dies frees its lock. A directory in which LevelDB had only begun to create
  its files is treated as junk by `inspect_index`, like a database without
  metadata, and is not told apart from it. What an attempt to open a missing
  database leaves behind on disk is not modelled.
* The loss of power before the data of `config.json` reach the disk, and what else a
  rewrite does to JSON that btk does not know: white space, the order of keys, keys
  that occur twice.
* Equal transaction ids: the two pairs of coinbases of 2010 break the assumption
  that an id is new; the ledger assumes it (`Unused`).
* Elliptic curves and hashes: a hash is taken to identify what was hashed.
