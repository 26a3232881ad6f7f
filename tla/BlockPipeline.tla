---------------------------- MODULE BlockPipeline ----------------------------
(***************************************************************************)
(* walk_rpc_blocks and BoundedQueue of src/src/chain/sync.cpp: a main      *)
(* thread asks the node for its tip, then three threads move the missing   *)
(* blocks through two bounded queues,                                      *)
(*                                                                         *)
(*     fetch --raw_q--> parse --fx_q--> write --> apply                    *)
(*                                                                         *)
(* while a signal handler may set the process-wide stop flag at any time.  *)
(* A block is represented by its height: which bytes the node returned     *)
(* does not matter here, only whether the step that uses them succeeds.    *)
(* One critical section of a queue's mutex is one step.  wait_for(200ms)   *)
(* may return at any time, so a thread in a "_wait" state may wake up and  *)
(* look again whether or not it was notified.                              *)
(***************************************************************************)
EXTENDS Integers, Sequences

CONSTANTS MaxHeight,   \* bound: the highest height the node may announce
          RawCap,      \* capacity of raw_q (8 in the code)
          FxCap        \* capacity of fx_q (100 in the code)

ASSUME MaxHeightAssumption == MaxHeight \in Nat
ASSUME CapAssumption == /\ RawCap \in Nat \ {0}
                        /\ FxCap \in Nat \ {0}

VARIABLES
    incremental, start_height, tip,  \* the job; tip = -1 until it is known
    main, fetch, parse, write,       \* where each thread is
    h,             \* fetch's loop variable
    rb,            \* the height of the block parse has taken
    fx,            \* the height of the effects write has taken
    raw_q, fx_q,   \* the heights in each queue, front first
    closed,        \* the queues whose closed_ is set
    failed,        \* the queues whose err_ is set
    g_stop,        \* util/interrupt.cpp: 0, or 1 once a signal arrived
    worker_err,    \* "null", or "set" once the write thread caught an error
    last_applied,  \* the height the interrupted message prints
    applied,       \* the heights passed to apply so far (history)
    report         \* what the walk prints or throws at the end

jobVars    == <<incremental, start_height, tip>>
fetchVars  == <<fetch, h>>
parseVars  == <<parse, rb>>
writeVars  == <<write, fx, worker_err, applied>>
rawVars    == <<raw_q, closed, failed>>
fxVars     == <<fx_q, closed, failed>>
queueVars  == <<raw_q, fx_q, closed, failed>>
vars == <<jobVars, main, fetchVars, parseVars, writeVars, queueVars, g_stop, last_applied,
          report>>

Heights == 0 .. MaxHeight
Queues  == {"raw_q", "fx_q"}

\* The first height that the index lacks.
First == IF incremental THEN start_height + 1 ELSE 0

stop_requested == g_stop # 0

\* A thread whose location is the variable loc moves on.
Jump(loc, from, to) == loc = from /\ loc' = to
-----------------------------------------------------------------------------
(***************************************************************************)
(* BoundedQueue.  q is the variable with the queue's content and name the  *)
(* queue's name.  A thread enters at the label "push" or "pop" and sleeps  *)
(* in the wait loop at "push_wait" or "pop_wait".                          *)
(***************************************************************************)

\* Mutant: one block more than the capacity.
CanPush_OffByOne(q, name, max) == Len(q) <= max \/ name \in closed

\* The predicates of the wait loops (fail() sets closed_ beside err_), and the
\* test that leaves pop's loop after a wake-up.
CanPush(q, name, max) == Len(q) < max \/ name \in closed
CanPop(q, name)  == Len(q) > 0 \/ name \in closed
PopLeaves(q) == stop_requested /\ Len(q) = 0

Close(name) == closed' = closed \cup {name} /\ UNCHANGED failed
Fail(name)  == closed' = closed \cup {name} /\ failed' = failed \cup {name}

\* The loop is left: on entry, or after a wake-up that does not see the flag.
PushPasses(loc, q, name, max) ==
    CanPush(q, name, max) /\ (loc = "push" \/ (loc = "push_wait" /\ ~stop_requested))
PopPasses(loc, q, name) ==
    CanPop(q, name) /\ (loc = "pop" \/ (loc = "pop_wait" /\ ~PopLeaves(q)))

PushSleeps(loc, item, q, name, max) ==
    /\ Jump(loc, "push", "push_wait") /\ ~CanPush(q, name, max)
    /\ UNCHANGED <<item, q, closed, failed>>

\* Mutant: a sleeper that sees the flag leaves the queue open.
PushStops_LeavesOpen(loc, q, name, returned) ==
    loc = "push_wait" /\ stop_requested /\ returned /\ UNCHANGED <<q, closed, failed>>

\* A sleeper that sees the flag closes the queue and drops its item.
PushStops(loc, q, name, returned) ==
    loc = "push_wait" /\ stop_requested /\ returned /\ Close(name) /\ UNCHANGED q

PushThrows(loc, item, q, name, max, thrown) ==
    /\ PushPasses(loc, q, name, max) /\ name \in failed
    /\ loc' = thrown /\ UNCHANGED <<item, q, closed, failed>>

PushDrops(loc, q, name, max, returned) ==
    /\ PushPasses(loc, q, name, max) /\ name \in closed \ failed
    /\ returned /\ UNCHANGED <<q, closed, failed>>

PushAppends(loc, item, q, name, max, returned) ==
    /\ PushPasses(loc, q, name, max) /\ name \notin closed
    /\ returned /\ q' = Append(q, item) /\ UNCHANGED <<closed, failed>>

\* push(item); returned and thrown are what the thread does next.
Push(loc, item, q, name, max, returned, thrown) ==
    \/ PushSleeps(loc, item, q, name, max)
    \/ PushStops(loc, q, name, returned)
    \/ PushThrows(loc, item, q, name, max, thrown)
    \/ PushDrops(loc, q, name, max, returned)
    \/ PushAppends(loc, item, q, name, max, returned)

PopSleeps(loc, item, q, name) ==
    /\ Jump(loc, "pop", "pop_wait") /\ ~CanPop(q, name)
    /\ UNCHANGED <<item, q, closed, failed>>

PopStops(loc, item, q, name, over) ==
    Jump(loc, "pop_wait", over) /\ PopLeaves(q) /\ Close(name) /\ UNCHANGED <<item, q>>

PopThrows(loc, item, q, name, thrown) ==
    /\ PopPasses(loc, q, name) /\ name \in failed
    /\ loc' = thrown /\ UNCHANGED <<item, q, closed, failed>>

PopEnds(loc, item, q, name, over) ==
    /\ PopPasses(loc, q, name) /\ name \notin failed /\ Len(q) = 0
    /\ loc' = over /\ UNCHANGED <<item, q, closed, failed>>

PopTakes(loc, item, q, name, got) ==
    /\ PopPasses(loc, q, name) /\ name \notin failed /\ Len(q) > 0
    /\ loc' = got /\ item' = Head(q) /\ q' = Tail(q) /\ UNCHANGED <<closed, failed>>

\* pop(item): at got it returned true, at over it returned false.
Pop(loc, item, q, name, got, over, thrown) ==
    \/ PopSleeps(loc, item, q, name)
    \/ PopStops(loc, item, q, name, over)
    \/ PopThrows(loc, item, q, name, thrown)
    \/ PopEnds(loc, item, q, name, over)
    \/ PopTakes(loc, item, q, name, got)
-----------------------------------------------------------------------------
(***************************************************************************)
(* The main thread before the workers start, and after it joined them.     *)
(***************************************************************************)

Init ==
    /\ incremental \in BOOLEAN
    /\ start_height \in (IF incremental THEN Heights ELSE {0})
    /\ tip = -1
    /\ main = "getblockcount"
    /\ fetch = "unborn" /\ parse = "unborn" /\ write = "unborn"
    /\ h = 0 /\ rb = 0 /\ fx = 0
    /\ raw_q = <<>> /\ fx_q = <<>> /\ closed = {} /\ failed = {}
    /\ g_stop = 0
    /\ worker_err = "null" /\ last_applied = 0 /\ applied = <<>>
    /\ report = "walking"

\* The walk ends with this outcome.
Return(outcome) ==
    /\ main' = "done"
    /\ report' = outcome
    /\ UNCHANGED <<jobVars, fetchVars, parse, write, last_applied>>

\* Either RPC of the pre-check may throw; no thread exists yet.
PrecheckThrows ==
    /\ main = "getblockcount" \/ (main = "getblockhash" /\ start_height <= tip)
    /\ Return("failed")

GetBlockCount ==
    /\ Jump(main, "getblockcount", IF incremental THEN "getblockhash" ELSE "spawn")
    /\ tip' \in Heights
    /\ UNCHANGED <<incremental, start_height, fetchVars, parse, write, last_applied, report>>

\* start_height is above the tip, or the node has another block there (which
\* of the two hashes it answers with is the node's choice).
ReorgDetected == main = "getblockhash" /\ Return("reorg")

UpToDate == main = "getblockhash" /\ start_height = tip /\ Return("complete")

BlocksMissing ==
    /\ Jump(main, "getblockhash", "spawn")
    /\ start_height < tip
    /\ UNCHANGED <<jobVars, fetchVars, parse, write, last_applied, report>>

SpawnFrom(first, height) ==
    /\ Jump(main, "spawn", "join")
    /\ fetch' = "top" /\ parse' = "pop" /\ write' = "pop"
    /\ h' = first
    /\ last_applied' = height
    /\ UNCHANGED <<jobVars, report>>

\* Mutant: an incremental walk starts at the block the index already has.
Spawn_FromStartHeight == SpawnFrom(start_height, start_height)

Spawn == SpawnFrom(First, IF incremental THEN start_height ELSE 0)

\* After the joins: a worker's error first, then the stop flag.
FinishAfter(joined) ==
    /\ main = "join"
    /\ \A loc \in joined : loc = "done"
    /\ Return(IF worker_err # "null" THEN "failed"
              ELSE IF stop_requested THEN "interrupted"
              ELSE "complete")

\* Mutant: parse.join() is missing.
Finish_NoParseJoin == FinishAfter({fetch, write})

Finish == FinishAfter({fetch, parse, write})

Main == /\ \/ PrecheckThrows \/ GetBlockCount \/ ReorgDetected \/ UpToDate
           \/ BlocksMissing \/ Spawn \/ Finish
        /\ UNCHANGED <<rb, fx, queueVars, g_stop, worker_err, applied>>
-----------------------------------------------------------------------------
(***************************************************************************)
(* The fetch thread.                                                       *)
(***************************************************************************)

FetchTop ==
    /\ Jump(fetch, "top", IF stop_requested \/ h > tip THEN "close" ELSE "rpc")
    /\ UNCHANGED <<h, queueVars>>

\* getblockhash and getblock: a block, or an exception (a failed call, a
\* timeout, or "interrupted", which wait_fd throws only if the flag is set).
FetchRpc ==
    /\ \E outcome \in {"push", "catch"} : Jump(fetch, "rpc", outcome)
    /\ UNCHANGED <<h, queueVars>>

\* The end of the loop's body.
FetchPushed == \/ h = tip /\ fetch' = "close" /\ UNCHANGED h
               \/ h # tip /\ fetch' = "top" /\ h' = h + 1

FetchPush ==
    /\ Push(fetch, h, raw_q, "raw_q", RawCap, FetchPushed, "catch")
    /\ UNCHANGED fx_q

FetchClose ==
    Jump(fetch, "close", "done") /\ Close("raw_q") /\ UNCHANGED <<h, raw_q, fx_q>>

\* Mutant: an error ends the loop as if the tip had been reached.
FetchCatch_ClosesAlways == Jump(fetch, "catch", "close") /\ UNCHANGED <<h, queueVars>>
\* Mutant: the call is tried again, whatever was thrown.
FetchCatch_Retries == Jump(fetch, "catch", "rpc") /\ UNCHANGED <<h, queueVars>>

FetchCatch ==
    /\ Jump(fetch, "catch", IF stop_requested THEN "close" ELSE "fail_raw")
    /\ UNCHANGED <<h, queueVars>>

FetchFailRaw ==
    Jump(fetch, "fail_raw", "fail_fx") /\ Fail("raw_q") /\ UNCHANGED <<h, raw_q, fx_q>>
FetchFailFx ==
    Jump(fetch, "fail_fx", "done") /\ Fail("fx_q") /\ UNCHANGED <<h, raw_q, fx_q>>

Fetch == /\ \/ FetchTop \/ FetchRpc \/ FetchPush \/ FetchClose
            \/ FetchCatch \/ FetchFailRaw \/ FetchFailFx
         /\ UNCHANGED <<jobVars, main, parseVars, writeVars, g_stop, last_applied, report>>
-----------------------------------------------------------------------------
(***************************************************************************)
(* The parse thread.                                                       *)
(***************************************************************************)

ParsePop == Pop(parse, rb, raw_q, "raw_q", "parse", "close", "fail") /\ UNCHANGED fx_q

\* parse_block, the hash comparison and effects_from_block succeed or throw.
ParseBlock ==
    /\ \E outcome \in {"push", "fail"} : Jump(parse, "parse", outcome)
    /\ UNCHANGED <<rb, queueVars>>

ParsePushed == parse' = "pop" /\ UNCHANGED rb

ParsePush ==
    /\ Push(parse, rb, fx_q, "fx_q", FxCap, ParsePushed, "fail")
    /\ UNCHANGED raw_q

ParseClose ==
    Jump(parse, "close", "done") /\ Close("fx_q") /\ UNCHANGED <<rb, raw_q, fx_q>>

\* Only fx_q: a fetch thread asleep on a full raw_q is released by write.
ParseFail ==
    Jump(parse, "fail", "done") /\ Fail("fx_q") /\ UNCHANGED <<rb, raw_q, fx_q>>

Parse == /\ ParsePop \/ ParseBlock \/ ParsePush \/ ParseClose \/ ParseFail
         /\ UNCHANGED <<jobVars, main, fetchVars, writeVars, g_stop, last_applied, report>>
-----------------------------------------------------------------------------
(***************************************************************************)
(* The write thread.                                                       *)
(***************************************************************************)

WritePop ==
    /\ Pop(write, fx, fx_q, "fx_q", "apply", "done", "catch")
    /\ UNCHANGED <<raw_q, worker_err, last_applied, applied>>

\* apply writes its batch, or throws before it does.
WriteApply ==
    /\ Jump(write, "apply", "pop")
    /\ applied' = Append(applied, fx)
    /\ last_applied' = fx
    /\ UNCHANGED <<fx, queueVars, worker_err>>

WriteApplyThrows ==
    /\ Jump(write, "apply", "catch")
    /\ UNCHANGED <<fx, queueVars, worker_err, last_applied, applied>>

\* The handler: worker_err is kept for main, then both queues are failed.
CatchStep(from, to) ==
    Jump(write, from, to) /\ UNCHANGED <<fx, raw_q, fx_q, last_applied, applied>>

\* Mutant: the error is passed to the queues but not kept for main.
WriteCatch_ForgetsError ==
    CatchStep("catch", "fail_raw") /\ UNCHANGED <<worker_err, closed, failed>>

WriteCatch ==
    CatchStep("catch", "fail_raw") /\ worker_err' = "set" /\ UNCHANGED <<closed, failed>>

\* Mutant: only fx_q is failed.
WriteFailRaw_Skipped ==
    CatchStep("fail_raw", "fail_fx") /\ UNCHANGED <<worker_err, closed, failed>>

WriteFailRaw == CatchStep("fail_raw", "fail_fx") /\ Fail("raw_q") /\ UNCHANGED worker_err
WriteFailFx  == CatchStep("fail_fx", "done") /\ Fail("fx_q") /\ UNCHANGED worker_err

Write == /\ \/ WritePop \/ WriteApply \/ WriteApplyThrows
            \/ WriteCatch \/ WriteFailRaw \/ WriteFailFx
         /\ UNCHANGED <<jobVars, main, fetchVars, parseVars, g_stop, report>>
-----------------------------------------------------------------------------
\* A signal handler calls request_stop; nothing resets the flag.
RequestStop ==
    /\ g_stop = 0
    /\ g_stop' = 1
    /\ UNCHANGED <<jobVars, main, fetchVars, parseVars, writeVars, queueVars, last_applied,
                   report>>

Terminated == main = "done" /\ UNCHANGED vars

Next == Main \/ Fetch \/ Parse \/ Write \/ RequestStop \/ Terminated

\* A thread inside an RPC, and no signal yet.
InRpc   == fetch = "rpc" \/ main \in {"getblockcount", "getblockhash"}
Stalled == InRpc /\ ~stop_requested

\* Threads are scheduled and the waits are timed.  An RPC is only sure to
\* return once the stop flag is set: wait_fd looks at it every 200 ms, while a
\* node that keeps sending may hold a call for ever.  No signal has to arrive.
Fairness ==
    /\ WF_vars(Main /\ ~Stalled)
    /\ WF_vars(Fetch /\ ~Stalled)
    /\ WF_vars(Parse)
    /\ WF_vars(Write)

Spec == Init /\ [][Next]_vars /\ Fairness
-----------------------------------------------------------------------------
(***************************************************************************)
(* Properties                                                              *)
(***************************************************************************)

MainLabels  == {"getblockcount", "getblockhash", "spawn", "join", "done"}
FetchLabels == {"unborn", "top", "rpc", "push", "push_wait", "close", "catch", "fail_raw",
                "fail_fx", "done"}
ParseLabels == {"unborn", "pop", "pop_wait", "parse", "push", "push_wait", "close", "fail",
                "done"}
WriteLabels == {"unborn", "pop", "pop_wait", "apply", "catch", "fail_raw", "fail_fx", "done"}
Outcomes    == {"walking", "complete", "failed", "interrupted", "reorg"}

\* The values the state may take; a queue never exceeds its capacity.
TypeOK ==
    /\ incremental \in BOOLEAN
    /\ start_height \in Heights /\ tip \in Heights \cup {-1}
    /\ main \in MainLabels
    /\ fetch \in FetchLabels /\ parse \in ParseLabels /\ write \in WriteLabels
    /\ h \in Int /\ rb \in Int /\ fx \in Int
    /\ raw_q \in Seq(Int) /\ Len(raw_q) <= RawCap
    /\ fx_q \in Seq(Int) /\ Len(fx_q) <= FxCap
    /\ closed \subseteq Queues /\ failed \subseteq Queues
    /\ g_stop \in {0, 1}
    /\ worker_err \in {"null", "set"}
    /\ last_applied \in Int
    /\ applied \in Seq(Int)
    /\ report \in Outcomes

\* The height apply must see next.
NextHeight == First + Len(applied)

\* apply is called for First, First + 1, ... with no gap and no repetition,
\* never beyond the tip: the heights pass two queues and three threads, and
\* push silently drops a block when its queue is closed (sync.cpp:67-69).
AppliedInOrder ==
    /\ \A i \in 1 .. Len(applied) : applied[i] = First + i - 1
    /\ applied # <<>> => NextHeight <= tip + 1

\* "complete: height <tip>" is printed only when every block to the tip was
\* applied: no early end of a thread is mistaken for the end of the walk.
CompleteMeansTip == report = "complete" => NextHeight = tip + 1

\* Without a signal the outcome is decided by the errors alone: an error of
\* any thread reaches the caller, though it passes two queues and the other
\* threads may end first, and without one the walk is complete.
ErrorIsReported ==
    main = "done" /\ fetch # "unborn" /\ g_stop = 0 =>
        report = (IF failed = {} THEN "complete" ELSE "failed")

\* The lambdas capture main's locals by reference: none runs once main left.
NoThreadOutlivesWalk ==
    main # "join" => {fetch, parse, write} \subseteq {"unborn", "done"}

\* Memory is bounded by the queues: the block being fetched is never further
\* ahead of apply than both capacities and the block each later thread holds.
Backpressure ==
    fetch \in {"rpc", "push", "push_wait"} => h <= NextHeight + RawCap + FxCap + 2

\* Only a node that never answers can hold the walk: whatever fails, no
\* thread sleeps for ever on a queue whose other end has gone.
WalkReturns == <>(main = "done") \/ <>[]InRpc

\* A signal ends the walk even if the node never answers again.
StopEndsWalk == stop_requested ~> main = "done"

\* The walk with threads and queues implements the walk without them.
Walk == INSTANCE SequentialWalk WITH
            incremental <- incremental, start_height <- start_height, tip <- tip,
            applied <- applied, report <- report
ImplementsWalk == Walk!WalkSafety
=============================================================================
