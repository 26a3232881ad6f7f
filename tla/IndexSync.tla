------------------------------ MODULE IndexSync ------------------------------
(***************************************************************************)
(* "btk balance --sync" from end to end: several processes run do_sync     *)
(* (src/src/cmd/balance.cpp) or a query on the one index directory         *)
(* ~/.btk/balance, against a node whose chain grows and may be             *)
(* reorganised; a process may be interrupted or die, a call to the node    *)
(* may fail.  do_sync of "btk inflow" is the same code.                    *)
(*                                                                         *)
(* A block's hash commits to all its ancestors, so a block is represented  *)
(* by the chain that ends in it: a sequence of branch names, one for each  *)
(* height.  The index is represented by the blocks apply wrote, in order:  *)
(* apply is one batch, with Mheight and Mtip in it.  The threads of the    *)
(* walk are modelled in BlockPipeline; here a walk is what that module     *)
(* implements (SequentialWalk), with the blocks that were fetched ahead.   *)
(***************************************************************************)
EXTENDS Integers, Sequences, SequencesExt, FiniteSets

CONSTANTS Procs,       \* the processes
          Nobody,      \* no process
          Modes,       \* what they are started for: some of AllModes
          Faults,      \* what may happen to them: some of AllFaults
          Branches,    \* names that tell apart blocks of one height
          MaxBlocks,   \* bound: the longest chain the node has
          MaxAhead     \* bound: blocks fetched and not yet applied (110 in the code)

AllModes  == {"sync", "force", "query"}
AllFaults == {"rpc", "interrupt", "crash", "power", "reorg"}

ASSUME ProcsAssumption  == Nobody \notin Procs
ASSUME ChoiceAssumption == Modes \subseteq AllModes /\ Faults \subseteq AllFaults
ASSUME BoundAssumption  == MaxBlocks \in Nat \ {0} /\ MaxAhead \in Nat \ {0}

VARIABLES
    chain,     \* the node's active chain
    dir,       \* "missing", "empty", "file", "junk" (no database) or "db"
    written,   \* the blocks in the database, in the order they were applied
    lock,      \* who holds the database's lock file
    pc, mode,  \* where each process is, and what it was started for
    from,      \* the block that Mheight and Mtip named when they were read;
               \* <<>> if there was none, and for a walk from genesis
    tip,       \* the length of the chain that getblockcount announced
    next,      \* the length of the block that is fetched next
    ahead,     \* the blocks fetched and not yet applied
    outcome,   \* how the process that ended last did end
    company    \* "none" while only one process at a time ran, "peaceful" while
               \* none of those that ran together was forced, "forced" (history)

diskVars == <<dir, written, lock>>
walkVars == <<from, tip, next, ahead>>
vars == <<chain, diskVars, pc, mode, walkVars, outcome, company>>

Chains == UNION {[1 .. n -> Branches] : n \in 1 .. MaxBlocks}

\* The block at this height, by the node's present chain.
BlockAt(len) == SubSeq(chain, 1, len)

\* What Mheight and Mtip name; <<>> if they are not there.
Meta  == IF written = <<>> THEN <<>> ELSE Last(written)
Valid == dir = "db" /\ Meta # <<>>
Free  == lock = Nobody

Walking(p) == pc[p] \in {"getblockcount", "getblockhash", "walk"}

Goto(p, label) == pc' = [pc EXCEPT ![p] = label]

Release(p) == lock' = IF lock = p THEN Nobody ELSE lock

\* The process ends, and closes the database if it has it open.
Exit(p, how) ==
    /\ Goto(p, "idle")
    /\ outcome' = how
    /\ mode' = [mode EXCEPT ![p] = "none"]
    /\ Release(p)
    /\ ahead' = [ahead EXCEPT ![p] = <<>>]
    /\ from' = [from EXCEPT ![p] = <<>>]
    /\ tip' = [tip EXCEPT ![p] = 0]
    /\ next' = [next EXCEPT ![p] = 0]

\* No process runs; the node has a block.
Idle ==
    /\ chain \in {c \in Chains : Len(c) = 1}
    /\ lock = Nobody
    /\ pc = [p \in Procs |-> "idle"]
    /\ mode = [p \in Procs |-> "none"]
    /\ from = [p \in Procs |-> <<>>]
    /\ tip = [p \in Procs |-> 0]
    /\ next = [p \in Procs |-> 0]
    /\ ahead = [p \in Procs |-> <<>>]
    /\ outcome = "none"
    /\ company = "none"

Init == Idle /\ dir \in {"missing", "empty", "file", "junk"} /\ written = <<>>

\* One sync has been here.
InitIndexed == Idle /\ dir = "db" /\ written = <<chain>>
-----------------------------------------------------------------------------
(***************************************************************************)
(* The node.                                                               *)
(***************************************************************************)

\* The chain grows, or gives way to a longer one.  Whether the latter may
\* happen while a walk is under way is for Faults to say.
NodeAdopts ==
    /\ \E c \in Chains :
           /\ Len(c) > Len(chain)
           /\ IsPrefix(chain, c) \/ "reorg" \in Faults \/ ~\E p \in Procs : Walking(p)
           /\ chain' = c
    /\ UNCHANGED <<diskVars, pc, mode, walkVars, outcome>>
-----------------------------------------------------------------------------
(***************************************************************************)
(* inspect_index, and the branches of do_sync.                             *)
(***************************************************************************)

\* The history variable after a process starts beside the others.
Joined(others, m) ==
    IF others = {} THEN company
    ELSE IF company = "forced" \/ "force" \in others \cup {m} THEN "forced"
    ELSE "peaceful"

Start(p) ==
    /\ pc[p] = "idle"
    /\ \E m \in Modes :
           /\ mode' = [mode EXCEPT ![p] = m]
           /\ Goto(p, IF m = "query" THEN "open" ELSE "inspect")
           /\ company' = Joined({mode[q] : q \in Procs} \ {"none"}, m)
    /\ UNCHANGED <<chain, diskVars, walkVars, outcome>>

\* Mutant: what is no valid index is rebuilt, with --force or without.
Decide_RebuildsJunk(p, found) ==
    IF mode[p] = "force" \/ found = "junk" THEN Goto(p, "destroy")
    ELSE Goto(p, IF found = "valid" THEN "open" ELSE "create")

\* What do_sync does with what it found.
Decide(p, found) ==
    IF mode[p] = "force" THEN Goto(p, "destroy")
    ELSE Goto(p, CASE found = "valid" -> "open"
                   [] found = "junk"  -> "exists"
                   [] OTHER           -> "create")

\* There is no directory, nothing in it, or it is not a directory or not a
\* database; or another process has the database open, and Open fails.
InspectOutside(p) ==
    /\ pc[p] = "inspect"
    /\ dir # "db" \/ ~Free
    /\ Decide(p, IF dir \in {"missing", "empty"} THEN dir ELSE "junk")
    /\ UNCHANGED <<chain, diskVars, mode, walkVars, outcome>>

\* Open succeeds: the lock is held while the metadata is read.
InspectOpen(p) ==
    /\ pc[p] = "inspect" /\ dir = "db" /\ Free
    /\ lock' = p
    /\ from' = [from EXCEPT ![p] = Meta]
    /\ Goto(p, "inspect_meta")
    /\ UNCHANGED <<chain, dir, written, mode, tip, next, ahead, outcome>>

InspectMeta(p) ==
    /\ pc[p] = "inspect_meta"
    /\ Decide(p, IF from[p] # <<>> THEN "valid" ELSE "junk")
    /\ from' = [from EXCEPT ![p] = <<>>]
    /\ Release(p)
    /\ UNCHANGED <<chain, dir, written, mode, tip, next, ahead, outcome>>

RefuseJunk(p) ==
    /\ pc[p] = "exists" /\ Exit(p, "failed")
    /\ UNCHANGED <<chain, dir, written>>
-----------------------------------------------------------------------------
(***************************************************************************)
(* destroy_index: DestroyDB under the lock, then whatever is left by name. *)
(***************************************************************************)

DestroyBusy(p) ==
    /\ pc[p] = "destroy" /\ ~Free
    /\ Exit(p, "failed")
    /\ UNCHANGED <<chain, dir, written>>

\* The first file goes: from here to DestroyEnd there is no database.
Destroy(p) ==
    /\ pc[p] = "destroy" /\ Free
    /\ dir' = IF dir = "db" THEN "junk" ELSE dir
    /\ written' = <<>>
    /\ lock' = p
    /\ Goto(p, "destroying")
    /\ UNCHANGED <<chain, mode, walkVars, outcome>>

\* Files that DestroyDB does not know stay.
DestroyEnd(p) ==
    /\ pc[p] = "destroying"
    /\ dir' \in (IF dir = "junk" THEN {"missing", "junk"} ELSE {dir})
    /\ Release(p)
    /\ Goto(p, "leftovers")
    /\ UNCHANGED <<chain, written, mode, walkVars, outcome>>

\* The loop over readdir does not take the lock.  A database that another
\* process has made meanwhile loses its files, the lock file among them: that
\* process writes on into unlinked files.
Leftovers(p) ==
    /\ pc[p] = "leftovers"
    /\ dir' = IF dir = "file" THEN "file" ELSE "missing"
    /\ written' = <<>>
    /\ lock' = Nobody
    /\ Goto(p, "create")
    /\ UNCHANGED <<chain, mode, walkVars, outcome>>
-----------------------------------------------------------------------------
(***************************************************************************)
(* BalanceDb::open, and the query's use of it.                             *)
(***************************************************************************)

OpenFails(p) ==
    /\ \/ pc[p] = "open" /\ (dir # "db" \/ ~Free)
       \/ pc[p] \in {"create", "reopen"} /\ (dir = "file" \/ ~Free)
    /\ Exit(p, "failed")
    /\ UNCHANGED <<chain, dir, written>>

OpenReadOnly(p) ==
    /\ pc[p] = "open" /\ dir = "db" /\ Free
    /\ lock' = p
    /\ from' = [from EXCEPT ![p] = Meta]
    /\ Goto(p, IF mode[p] = "query" THEN "answer" ELSE "read")
    /\ UNCHANGED <<chain, dir, written, mode, tip, next, ahead, outcome>>

\* A query keeps the database open as long as its input lasts.
Answer(p) ==
    /\ pc[p] = "answer"
    /\ Exit(p, IF from[p] = <<>> THEN "failed" ELSE "complete")
    /\ UNCHANGED <<chain, dir, written>>

\* height() and tip(), then db.reset(): the lock is given up before it is
\* taken again for the walk.
ReadMeta(p) ==
    /\ pc[p] = "read" /\ from[p] # <<>>
    /\ Release(p)
    /\ Goto(p, "reopen")
    /\ UNCHANGED <<chain, dir, written, mode, walkVars, outcome>>

ReadMetaFails(p) ==
    /\ pc[p] = "read" /\ from[p] = <<>>
    /\ Exit(p, "failed")
    /\ UNCHANGED <<chain, dir, written>>

\* create_if_missing, for a first walk and for an incremental one.
OpenWritable(p) ==
    /\ pc[p] \in {"create", "reopen"} /\ dir # "file" /\ Free
    /\ lock' = p
    /\ dir' = "db"
    /\ Goto(p, "getblockcount")
    /\ UNCHANGED <<chain, written, mode, walkVars, outcome>>
-----------------------------------------------------------------------------
(***************************************************************************)
(* walk_rpc_blocks.                                                        *)
(***************************************************************************)

GetBlockCount(p) ==
    /\ pc[p] = "getblockcount"
    /\ tip' = [tip EXCEPT ![p] = Len(chain)]
    /\ next' = [next EXCEPT ![p] = 1]
    /\ Goto(p, IF from[p] # <<>> THEN "getblockhash" ELSE "walk")
    /\ UNCHANGED <<chain, diskVars, mode, from, ahead, outcome>>

OnChain(p) == Len(from[p]) <= tip[p] /\ BlockAt(Len(from[p])) = from[p]

ReorgDetected(p) ==
    /\ pc[p] = "getblockhash" /\ ~OnChain(p)
    /\ Exit(p, "failed")
    /\ UNCHANGED <<chain, dir, written>>

Continue(p, first) ==
    /\ Goto(p, "walk")
    /\ next' = [next EXCEPT ![p] = first]
    /\ UNCHANGED <<chain, diskVars, mode, from, tip, ahead, outcome>>

\* Mutant: the height of the index's tip is compared, its hash is not.
ResumeAfterTip_HashIgnored(p) ==
    /\ pc[p] = "getblockhash" /\ Len(from[p]) <= tip[p]
    /\ Continue(p, Len(from[p]) + 1)
\* Mutant: one height too far.
ResumeAfterTip_OffByOne(p) ==
    /\ pc[p] = "getblockhash" /\ OnChain(p)
    /\ Continue(p, Len(from[p]) + 2)

\* An index that is up to date has nothing left to fetch.
ResumeAfterTip(p) ==
    /\ pc[p] = "getblockhash" /\ OnChain(p)
    /\ Continue(p, Len(from[p]) + 1)

FetchInto(p, room) ==
    /\ pc[p] = "walk"
    /\ next[p] <= tip[p] /\ Len(ahead[p]) < room
    /\ ahead' = [ahead EXCEPT ![p] = Append(@, BlockAt(next[p]))]
    /\ next' = [next EXCEPT ![p] = @ + 1]
    /\ UNCHANGED <<chain, diskVars, pc, mode, from, tip, outcome>>

\* Mutant: one block more than the queues hold.
Fetch_OffByOne(p) == FetchInto(p, MaxAhead + 1)

\* The blocks are asked for by height, one call after the other.
Fetch(p) == FetchInto(p, MaxAhead)

\* A process whose files were unlinked writes, and nobody will read it.
Apply(p) ==
    /\ pc[p] = "walk" /\ ahead[p] # <<>>
    /\ written' = IF lock = p THEN Append(written, Head(ahead[p])) ELSE written
    /\ ahead' = [ahead EXCEPT ![p] = Tail(@)]
    /\ UNCHANGED <<chain, dir, lock, pc, mode, from, tip, next, outcome>>

\* Mutant: complete as soon as everything is fetched.
Complete_QueueNotDrained(p) ==
    /\ pc[p] = "walk" /\ next[p] > tip[p]
    /\ Exit(p, "complete")
    /\ UNCHANGED <<chain, dir, written>>

Complete(p) ==
    /\ pc[p] = "walk" /\ next[p] > tip[p] /\ ahead[p] = <<>>
    /\ Exit(p, "complete")
    /\ UNCHANGED <<chain, dir, written>>

\* What was fetched and not applied is dropped.
Interrupted(p) ==
    /\ "interrupt" \in Faults /\ Walking(p)
    /\ Exit(p, "interrupted")
    /\ UNCHANGED <<chain, dir, written>>

RpcFails(p) ==
    /\ "rpc" \in Faults /\ Walking(p)
    /\ Exit(p, "failed")
    /\ UNCHANGED <<chain, dir, written>>
-----------------------------------------------------------------------------
\* The process dies; the kernel frees its lock and keeps what was written.
Crash(p) ==
    /\ "crash" \in Faults /\ pc[p] # "idle"
    /\ Exit(p, "failed")
    /\ UNCHANGED <<chain, dir, written>>

\* The machine dies.  Batches are written without sync: the last ones may be
\* gone, a batch is there or is not.
PowerLoss ==
    /\ "power" \in Faults
    /\ \E n \in 0 .. Len(written) : written' = SubSeq(written, 1, n)
    /\ lock' = Nobody
    /\ pc' = [p \in Procs |-> "idle"]
    /\ from' = [p \in Procs |-> <<>>]
    /\ tip' = [p \in Procs |-> 0]
    /\ next' = [p \in Procs |-> 0]
    /\ ahead' = [p \in Procs |-> <<>>]
    /\ mode' = [p \in Procs |-> "none"]
    /\ outcome' = "failed"
    /\ UNCHANGED <<chain, dir>>

Inspect(p) == InspectOutside(p) \/ InspectOpen(p) \/ InspectMeta(p) \/ RefuseJunk(p)
DestroyIndex(p) == DestroyBusy(p) \/ Destroy(p) \/ DestroyEnd(p) \/ Leftovers(p)
Open(p) == OpenFails(p) \/ OpenReadOnly(p) \/ OpenWritable(p)
Use(p) == Answer(p) \/ ReadMeta(p) \/ ReadMetaFails(p)
Walk(p) == \/ GetBlockCount(p) \/ ReorgDetected(p) \/ ResumeAfterTip(p) \/ Fetch(p)
           \/ Apply(p) \/ Complete(p) \/ Interrupted(p) \/ RpcFails(p)

Process(p) == Inspect(p) \/ DestroyIndex(p) \/ Open(p) \/ Use(p) \/ Walk(p) \/ Crash(p)

Next == \/ \E p \in Procs : Start(p)
        \/ /\ NodeAdopts \/ PowerLoss \/ \E p \in Procs : Process(p)
           /\ UNCHANGED company

Spec == Init /\ [][Next]_vars
SpecIndexed == InitIndexed /\ [][Next]_vars
-----------------------------------------------------------------------------
(***************************************************************************)
(* Properties                                                              *)
(***************************************************************************)

Labels == {"idle", "inspect", "inspect_meta", "exists", "destroy", "destroying", "leftovers",
           "create", "open", "read", "answer", "reopen", "getblockcount", "getblockhash", "walk"}

\* The values the state may take; only a database has blocks and a lock, but
\* for the one that is being destroyed.
TypeOK ==
    /\ chain \in Chains
    /\ dir \in {"missing", "empty", "file", "junk", "db"}
    /\ \A i \in 1 .. Len(written) : written[i] \in Chains
    /\ lock \in Procs \cup {Nobody}
    /\ pc \in [Procs -> Labels] /\ mode \in [Procs -> Modes \cup {"none"}]
    /\ outcome \in {"none", "complete", "failed", "interrupted"}
    /\ \A p \in Procs : /\ Len(ahead[p]) <= MaxAhead
                        /\ from[p] \in Chains \cup {<<>>}
                        /\ tip[p] \in 0 .. MaxBlocks /\ next[p] \in 0 .. MaxBlocks + 1
    /\ written # <<>> => dir = "db"
    /\ company \in {"none", "peaceful", "forced"}

\* The index holds one chain: every block once, in order, each the child of
\* the one before.  Otherwise balances count coins of two histories.  (As long
\* as processes took turns; sync_race shows what happens if not.)
SingleChain ==
    company = "none" =>
        \A i \in 1 .. Len(written) :
            Len(written[i]) = i /\ (i > 1 => Front(written[i]) = written[i - 1])

\* Every block below an indexed one is indexed, too, also when walks race for
\* the lock; a --force beside another walk is the exception.
NoHeightMissing ==
    company # "forced" =>
        \A i \in 1 .. Len(written) : \A len \in 1 .. Len(written[i]) :
            \E j \in 1 .. i : Len(written[j]) = len

\* "Valid DB: walk Mheight+1..tip" (cmd/balance.cpp:38-39): no height is applied a
\* second time to an index that is there (SpecIndexed).
EachHeightOnce ==
    \A i, j \in 1 .. Len(written) : i # j => Len(written[i]) # Len(written[j])

\* A walk that is reported complete leaves an index that ends at the tip the
\* node announced to it.  (As long as processes took turns.)
CompleteIsSynced ==
    [][\A p \in Procs :
          company = "none" /\ pc[p] = "walk" /\ pc'[p] = "idle" /\ outcome' = "complete" =>
              written' # <<>> /\ Len(Last(written')) = tip[p]]_vars

\* Blocks that are in the index stay there, whatever two processes do to each
\* other, unless it is a process with --force that takes the step, or the
\* machine loses its unsynced writes.
OnlyForceDiscards ==
    [][\/ IsPrefix(written, written') \/ PowerLoss
       \/ \E p \in Procs : mode[p] = "force" /\ pc'[p] # pc[p]]_vars

\* "Ctrl-C / SIGTERM abort ...; the next --sync continues from the last saved
\* height" (cmd/balance.cpp:41-42).
NextSyncContinues ==
    \A p \in Procs : pc[p] = "exists" => outcome # "interrupted"
=============================================================================
