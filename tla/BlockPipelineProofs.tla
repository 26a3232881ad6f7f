------------------------ MODULE BlockPipelineProofs -------------------------
(***************************************************************************)
(* Proofs about BlockPipeline for every MaxHeight, RawCap and FxCap.       *)
(*                                                                         *)
(* The argument follows the blocks backwards from apply to fetch: as long  *)
(* as nothing went wrong downstream, the blocks in write's hands, in fx_q, *)
(* in parse's hands, in raw_q and in fetch's hands are consecutive heights *)
(* (InFlight).  Without a signal a queue is closed and not failed only     *)
(* after the tip has passed it (CleanEnd), so threads that end without an  *)
(* error leave nothing behind.                                             *)
(***************************************************************************)
EXTENDS BlockPipeline, TLAPS

\* The life of the threads, and what main knows when they run.
Phases ==
    /\ main \in {"getblockcount", "getblockhash", "spawn"} =>
           fetch = "unborn" /\ parse = "unborn" /\ write = "unborn"
    /\ fetch = "unborn" <=> parse = "unborn"
    /\ fetch = "unborn" <=> write = "unborn"
    /\ fetch = "unborn" =>
           /\ applied = <<>> /\ raw_q = <<>> /\ fx_q = <<>>
           /\ closed = {} /\ failed = {} /\ worker_err = "null"
    /\ main = "join" => fetch # "unborn"
    /\ main = "getblockcount" => tip = -1
    /\ NoThreadOutlivesWalk
    /\ main \in {"getblockhash", "spawn", "join"} => tip # -1
    /\ main \in {"spawn", "join"} => First <= tip
    /\ main = "done" <=> report # "walking"
    /\ main = "getblockhash" => incremental
    /\ failed \subseteq closed
    /\ worker_err = "set" => write \in {"fail_raw", "fail_fx", "done"}
    /\ write \in {"fail_raw", "fail_fx"} => worker_err = "set"

\* A block that has left a queue and has not reached the next place.
WriteHolds == IF write = "apply" THEN 1 ELSE 0
ParseHolds == IF parse \in {"parse", "push", "push_wait"} THEN 1 ELSE 0
Fetching   == fetch \in {"top", "rpc", "push", "push_wait"}

\* The height that fx_q, and raw_q, must get next.
NextFx  == NextHeight + WriteHolds + Len(fx_q)
NextRaw == NextFx + ParseHolds + Len(raw_q)

\* The write thread has not met an error.
WriteLive == worker_err = "null" /\ write # "catch"

\* Neither has the parse thread, and fx_q still takes its blocks.
Live == WriteLive /\ parse # "fail" /\ "fx_q" \notin closed

\* The heights in s are n, n + 1, ...; none of them is above n.
Run(s, n)    == \A i \in 1 .. Len(s) : s[i] = n + i - 1
AtMost(s, n) == \A i \in 1 .. Len(s) : s[i] <= n

InFlight ==
    /\ Run(applied, First)
    /\ write = "apply" => fx = NextHeight
    /\ WriteLive => Run(fx_q, NextHeight + WriteHolds)
    /\ Live /\ ParseHolds = 1 => rb = NextFx
    /\ Live => Run(raw_q, NextFx + ParseHolds)
    /\ Live /\ "raw_q" \notin closed /\ Fetching => h = NextRaw

\* No block above the tip enters the pipeline.
BelowTip ==
    /\ Fetching => h <= tip
    /\ AtMost(raw_q, tip)
    /\ ParseHolds = 1 => rb <= tip
    /\ AtMost(fx_q, tip)
    /\ WriteHolds = 1 => fx <= tip
    /\ applied # <<>> => NextHeight <= tip + 1

CleanEnd == g_stop = 0 =>
    /\ fetch = "close" /\ Live /\ "raw_q" \notin closed => NextRaw = tip + 1
    /\ "raw_q" \in closed \ failed => fetch = "done" /\ (Live => NextRaw = tip + 1)
    /\ "fx_q" \in closed \ failed => parse = "done"
    /\ WriteLive /\ (parse = "close" \/ "fx_q" \in closed \ failed) =>
           failed = {} /\ fetch = "done" /\ NextFx = tip + 1
    /\ write = "done" /\ worker_err = "null" =>
           failed = {} /\ fetch = "done" /\ parse = "done" /\ NextHeight = tip + 1

\* Who failed a queue.
Failures ==
    /\ fetch = "fail_fx" => "raw_q" \in failed
    /\ WriteLive /\ "fx_q" \in failed => "raw_q" \in failed \/ parse = "done"
    /\ worker_err = "set" /\ write \in {"fail_fx", "done"} => failed # {}

Results == CompleteMeansTip /\ ErrorIsReported

\* How far fetch may be ahead of apply.
Ahead ==
    /\ g_stop = 0 /\ Fetching =>
           h <= NextHeight + Len(fx_q) + Len(raw_q)
                  + (IF write \in {"pop", "pop_wait"} THEN 0 ELSE 1)
                  + (IF parse \in {"pop", "pop_wait"} THEN 0 ELSE 1)
    /\ Backpressure

IInv == TypeOK /\ Phases /\ InFlight /\ BelowTip /\ CleanEnd /\ Failures /\ Results /\ Ahead
-----------------------------------------------------------------------------
(***************************************************************************)
(* Types.  A thread's step changes its own variables and the queues.       *)
(***************************************************************************)

LEMMA FetchTypes == TypeOK /\ Fetch => TypeOK'
<1> SUFFICES ASSUME TypeOK, Fetch PROVE TypeOK'
  OBVIOUS
<1>a. UNCHANGED <<jobVars, main, parseVars, writeVars, g_stop, last_applied, report>>
  BY DEF Fetch
<1> USE MaxHeightAssumption, CapAssumption DEF TypeOK, MainLabels, FetchLabels, ParseLabels,
       WriteLabels, Outcomes, Queues, jobVars, fetchVars, parseVars, writeVars, queueVars,
       Jump, Heights, Close, Fail, CanPush, CanPop, PopLeaves, PushPasses, PopPasses,
       stop_requested
<1>1. CASE FetchTop
  BY <1>a, <1>1 DEF FetchTop
<1>2. CASE FetchRpc
  BY <1>a, <1>2 DEF FetchRpc
<1>3. CASE PushSleeps(fetch, h, raw_q, "raw_q", RawCap) /\ UNCHANGED fx_q
  BY <1>a, <1>3 DEF PushSleeps
<1>4. CASE PushStops(fetch, raw_q, "raw_q", FetchPushed) /\ UNCHANGED fx_q
  BY <1>a, <1>4 DEF PushStops, FetchPushed
<1>5. CASE PushThrows(fetch, h, raw_q, "raw_q", RawCap, "catch") /\ UNCHANGED fx_q
  BY <1>a, <1>5 DEF PushThrows
<1>6. CASE PushDrops(fetch, raw_q, "raw_q", RawCap, FetchPushed) /\ UNCHANGED fx_q
  BY <1>a, <1>6 DEF PushDrops, FetchPushed
<1>7. CASE PushAppends(fetch, h, raw_q, "raw_q", RawCap, FetchPushed) /\ UNCHANGED fx_q
  BY <1>a, <1>7 DEF PushAppends, FetchPushed
<1>8. CASE FetchClose
  BY <1>a, <1>8 DEF FetchClose
<1>9. CASE FetchCatch
  BY <1>a, <1>9 DEF FetchCatch
<1>10. CASE FetchFailRaw
  BY <1>a, <1>10 DEF FetchFailRaw
<1>11. CASE FetchFailFx
  BY <1>a, <1>11 DEF FetchFailFx
<1> QED BY <1>1, <1>2, <1>3, <1>4, <1>5, <1>6, <1>7, <1>8, <1>9, <1>10, <1>11 DEF Fetch,
       FetchPush, Push

LEMMA ParseTypes == TypeOK /\ Parse => TypeOK'
<1> SUFFICES ASSUME TypeOK, Parse PROVE TypeOK'
  OBVIOUS
<1>a. UNCHANGED <<jobVars, main, fetchVars, writeVars, g_stop, last_applied, report>>
  BY DEF Parse
<1> USE MaxHeightAssumption, CapAssumption DEF TypeOK, MainLabels, FetchLabels, ParseLabels,
       WriteLabels, Outcomes, Queues, jobVars, fetchVars, parseVars, writeVars, queueVars,
       Jump, Heights, Close, Fail, CanPush, CanPop, PopLeaves, PushPasses, PopPasses,
       stop_requested
<1>1. CASE PopSleeps(parse, rb, raw_q, "raw_q") /\ UNCHANGED fx_q
  BY <1>a, <1>1 DEF PopSleeps
<1>2. CASE PopStops(parse, rb, raw_q, "raw_q", "close") /\ UNCHANGED fx_q
  BY <1>a, <1>2 DEF PopStops
<1>3. CASE PopThrows(parse, rb, raw_q, "raw_q", "fail") /\ UNCHANGED fx_q
  BY <1>a, <1>3 DEF PopThrows
<1>4. CASE PopEnds(parse, rb, raw_q, "raw_q", "close") /\ UNCHANGED fx_q
  BY <1>a, <1>4 DEF PopEnds
<1>5. CASE PopTakes(parse, rb, raw_q, "raw_q", "parse") /\ UNCHANGED fx_q
  BY <1>a, <1>5 DEF PopTakes
<1>6. CASE ParseBlock
  BY <1>a, <1>6 DEF ParseBlock
<1>7. CASE PushSleeps(parse, rb, fx_q, "fx_q", FxCap) /\ UNCHANGED raw_q
  BY <1>a, <1>7 DEF PushSleeps
<1>8. CASE PushStops(parse, fx_q, "fx_q", ParsePushed) /\ UNCHANGED raw_q
  BY <1>a, <1>8 DEF PushStops, ParsePushed
<1>9. CASE PushThrows(parse, rb, fx_q, "fx_q", FxCap, "fail") /\ UNCHANGED raw_q
  BY <1>a, <1>9 DEF PushThrows
<1>10. CASE PushDrops(parse, fx_q, "fx_q", FxCap, ParsePushed) /\ UNCHANGED raw_q
  BY <1>a, <1>10 DEF PushDrops, ParsePushed
<1>11. CASE PushAppends(parse, rb, fx_q, "fx_q", FxCap, ParsePushed) /\ UNCHANGED raw_q
  BY <1>a, <1>11 DEF PushAppends, ParsePushed
<1>12. CASE ParseClose
  BY <1>a, <1>12 DEF ParseClose
<1>13. CASE ParseFail
  BY <1>a, <1>13 DEF ParseFail
<1> QED BY <1>1, <1>2, <1>3, <1>4, <1>5, <1>6, <1>7, <1>8, <1>9, <1>10, <1>11, <1>12, <1>13
       DEF Parse, ParsePop, ParsePush, Push, Pop

LEMMA WriteTypes == TypeOK /\ Write => TypeOK'
<1> SUFFICES ASSUME TypeOK, Write PROVE TypeOK'
  OBVIOUS
<1>a. UNCHANGED <<jobVars, main, fetchVars, parseVars, g_stop, report>>
  BY DEF Write
<1> USE MaxHeightAssumption, CapAssumption DEF TypeOK, MainLabels, FetchLabels, ParseLabels,
       WriteLabels, Outcomes, Queues, jobVars, fetchVars, parseVars, writeVars, queueVars,
       Jump, Heights, Close, Fail, CanPush, CanPop, PopLeaves, PushPasses, PopPasses,
       stop_requested
<1>1. CASE /\ PopSleeps(write, fx, fx_q, "fx_q")
            /\ UNCHANGED <<raw_q, worker_err, last_applied, applied>>
  BY <1>a, <1>1 DEF PopSleeps
<1>2. CASE /\ PopStops(write, fx, fx_q, "fx_q", "done")
            /\ UNCHANGED <<raw_q, worker_err, last_applied, applied>>
  BY <1>a, <1>2 DEF PopStops
<1>3. CASE /\ PopThrows(write, fx, fx_q, "fx_q", "catch")
            /\ UNCHANGED <<raw_q, worker_err, last_applied, applied>>
  BY <1>a, <1>3 DEF PopThrows
<1>4. CASE /\ PopEnds(write, fx, fx_q, "fx_q", "done")
            /\ UNCHANGED <<raw_q, worker_err, last_applied, applied>>
  BY <1>a, <1>4 DEF PopEnds
<1>5. CASE /\ PopTakes(write, fx, fx_q, "fx_q", "apply")
            /\ UNCHANGED <<raw_q, worker_err, last_applied, applied>>
  BY <1>a, <1>5 DEF PopTakes
<1>6. CASE WriteApply
  BY <1>a, <1>6 DEF WriteApply
<1>7. CASE WriteApplyThrows
  BY <1>a, <1>7 DEF WriteApplyThrows
<1>8. CASE WriteCatch
  BY <1>a, <1>8 DEF WriteCatch, CatchStep
<1>9. CASE WriteFailRaw
  BY <1>a, <1>9 DEF WriteFailRaw, CatchStep
<1>10. CASE WriteFailFx
  BY <1>a, <1>10 DEF WriteFailFx, CatchStep
<1> QED BY <1>1, <1>2, <1>3, <1>4, <1>5, <1>6, <1>7, <1>8, <1>9, <1>10 DEF Write, WritePop,
       Pop

LEMMA MainTypes == TypeOK /\ Main => TypeOK'
BY MaxHeightAssumption
   DEF TypeOK, MainLabels, FetchLabels, ParseLabels, WriteLabels, Outcomes, jobVars, fetchVars,
       queueVars, Jump, Heights, Main, Return, PrecheckThrows, GetBlockCount, ReorgDetected,
       UpToDate, BlocksMissing, Spawn, SpawnFrom, First, Finish, FinishAfter

LEMMA TypesStep == TypeOK /\ [Next]_vars => TypeOK'
<1> SUFFICES ASSUME TypeOK, [Next]_vars PROVE TypeOK'
  OBVIOUS
<1>1. CASE RequestStop
  BY <1>1 DEF RequestStop, TypeOK, jobVars, fetchVars, parseVars, writeVars, queueVars, Heights
<1>2. CASE UNCHANGED vars
  BY <1>2 DEF vars, TypeOK, jobVars, fetchVars, parseVars, writeVars, queueVars, Heights
<1> QED  BY <1>1, <1>2, MainTypes, FetchTypes, ParseTypes, WriteTypes DEF Next, Terminated

-----------------------------------------------------------------------------
(***************************************************************************)
(* The inductive invariant.                                                *)
(***************************************************************************)

LEMMA InitIInv == Init => IInv
BY MaxHeightAssumption, CapAssumption
   DEF Init, Heights, Queues, MainLabels, FetchLabels, ParseLabels, WriteLabels, Outcomes, IInv,
       TypeOK, Phases, InFlight, BelowTip, CleanEnd, Failures, Results, Ahead, First, NextHeight,
       NoThreadOutlivesWalk, WriteHolds, ParseHolds, Fetching, WriteLive, Live, CompleteMeansTip,
       ErrorIsReported, Backpressure, Run, AtMost

LEMMA MainStep == IInv /\ TypeOK' /\ Main => IInv'
<1> SUFFICES ASSUME IInv, TypeOK', Main PROVE IInv'
  OBVIOUS
<1>a. UNCHANGED <<rb, fx, queueVars, g_stop, worker_err, applied>>
  BY DEF Main
<1> USE MaxHeightAssumption
    DEF IInv, TypeOK, Phases, InFlight, BelowTip, CleanEnd, Failures, Results, Ahead, First,
        NextHeight, NextFx, NextRaw, WriteHolds, ParseHolds, Fetching, WriteLive, Live, Heights,
        NoThreadOutlivesWalk, CompleteMeansTip, ErrorIsReported, Backpressure, Jump, MainLabels,
        jobVars, fetchVars, queueVars
<1>1. CASE PrecheckThrows
  BY <1>a, <1>1 DEF PrecheckThrows, Return
<1>2. CASE GetBlockCount
  BY <1>a, <1>2 DEF GetBlockCount, AtMost
<1>3. CASE ReorgDetected
  BY <1>a, <1>3 DEF ReorgDetected, Return
<1>4. CASE UpToDate
  BY <1>a, <1>4 DEF UpToDate, Return
<1>5. CASE BlocksMissing
  BY <1>a, <1>5 DEF BlocksMissing
<1>6. CASE Spawn
  BY <1>a, <1>6, CapAssumption DEF Spawn, SpawnFrom
<1>7. CASE Finish
  BY <1>a, <1>7 DEF Finish, FinishAfter, Return, stop_requested
<1> QED  BY <1>1, <1>2, <1>3, <1>4, <1>5, <1>6, <1>7 DEF Main

-----------------------------------------------------------------------------
(***************************************************************************)
(* Sequences of heights.                                                   *)
(***************************************************************************)

\* A run takes the next height at its end, and gives its first one at its front.
LEMMA RunAppend ==
    ASSUME NEW s \in Seq(Int), NEW n \in Int, Run(s, n)
    PROVE  /\ Run(Append(s, n + Len(s)), n)
           /\ Len(Append(s, n + Len(s))) = Len(s) + 1
BY DEF Run

LEMMA RunTail ==
    ASSUME NEW s \in Seq(Int), NEW n \in Int, Run(s, n), Len(s) > 0
    PROVE  /\ Head(s) = n
           /\ Run(Tail(s), n + 1)
           /\ Len(Tail(s)) = Len(s) - 1
BY DEF Run

LEMMA AtMostAppend ==
    ASSUME NEW s \in Seq(Int), NEW n \in Int, NEW e \in Int, AtMost(s, n), e <= n
    PROVE  AtMost(Append(s, e), n)
BY DEF AtMost

LEMMA AtMostTail ==
    ASSUME NEW s \in Seq(Int), NEW n \in Int, AtMost(s, n), Len(s) > 0
    PROVE  Head(s) <= n /\ AtMost(Tail(s), n)
BY DEF AtMost

LEMMA Numbers ==
    ASSUME TypeOK
    PROVE  /\ First \in Int /\ tip \in Int
           /\ Len(applied) \in Nat /\ Len(raw_q) \in Nat /\ Len(fx_q) \in Nat
BY MaxHeightAssumption DEF TypeOK, First, Heights

LEMMA FetchAppends ==
    ASSUME IInv, TypeOK', UNCHANGED fx_q,
           PushAppends(fetch, h, raw_q, "raw_q", RawCap, FetchPushed),
           UNCHANGED <<jobVars, main, parseVars, writeVars, g_stop, last_applied, report>>
    PROVE  IInv'
<1>0. /\ First \in Int /\ tip \in Int
      /\ Len(applied) \in Nat /\ Len(raw_q) \in Nat /\ Len(fx_q) \in Nat
  BY Numbers DEF IInv
<1>1. /\ fetch \in {"push", "push_wait"} /\ fetch' \in {"close", "top"}
      /\ h = tip => fetch' = "close" /\ h' = h
      /\ h # tip => fetch' = "top" /\ h' = h + 1
      /\ "raw_q" \notin closed
      /\ UNCHANGED <<closed, failed>>
  BY DEF PushAppends, PushPasses, FetchPushed
<1>2. /\ raw_q' = Append(raw_q, h) /\ Len(raw_q') = Len(raw_q) + 1
      /\ raw_q \in Seq(Int) /\ h \in Int
  BY DEF PushAppends, IInv, TypeOK
<1>len. Len(raw_q') = Len(raw_q) + 1
  BY <1>2
<1>3. UNCHANGED <<First, NextHeight, WriteHolds, ParseHolds, WriteLive, Live, NextFx>>
  BY <1>1 DEF First, NextHeight, WriteHolds, ParseHolds, WriteLive, Live, NextFx, jobVars,
              parseVars, writeVars
<1>4. NextFx \in Int /\ ParseHolds \in {0, 1} /\ WriteHolds \in {0, 1}
  BY <1>0 DEF NextFx, NextHeight, ParseHolds, WriteHolds, IInv
<1>5. Phases' /\ Failures' /\ Results'
  BY <1>1, <1>3 DEF IInv, TypeOK, FetchLabels, Phases, Failures, Results, WriteLive, First,
     NoThreadOutlivesWalk, CompleteMeansTip, ErrorIsReported, jobVars, parseVars, writeVars
<1>6. InFlight'
  <2>1. Live => Run(raw_q', NextFx + ParseHolds)
    <3> SUFFICES ASSUME Live PROVE Run(raw_q', NextFx + ParseHolds)
      OBVIOUS
    <3>1. Run(raw_q, NextFx + ParseHolds) /\ h = NextFx + ParseHolds + Len(raw_q)
      BY <1>1 DEF IInv, InFlight, Fetching, NextRaw
    <3> QED  BY <3>1, <1>2, <1>4, RunAppend
  <2>2. Live /\ Fetching' => h' = NextRaw'
    BY <1>1, <1>len, <1>3, <1>4, <1>0 DEF IInv, InFlight, NextRaw, Fetching
  <2> QED
    BY <1>1, <1>3, <2>1, <2>2 DEF IInv, InFlight, parseVars, writeVars
<1>7. BelowTip'
  <2>1. AtMost(raw_q', tip)
    BY <1>1, <1>2, <1>0, AtMostAppend DEF IInv, BelowTip, Fetching
  <2>2. Fetching' => h' <= tip
    BY <1>1, <1>2, <1>0 DEF IInv, BelowTip, Fetching
  <2> QED
    BY <1>3, <2>1, <2>2 DEF IInv, BelowTip, jobVars, parseVars, writeVars
<1>8. CleanEnd'
  BY <1>1, <1>2, <1>3, <1>4, <1>0
     DEF IInv, TypeOK, InFlight, CleanEnd, NextRaw, Fetching, jobVars, parseVars, writeVars
<1>9. Ahead'
  BY <1>1, <1>2, <1>3, <1>0
     DEF IInv, TypeOK, Ahead, Backpressure, Fetching, NextHeight, parseVars, writeVars
<1> QED  BY <1>5, <1>6, <1>7, <1>8, <1>9 DEF IInv

LEMMA ParseTakes ==
    ASSUME IInv, TypeOK', UNCHANGED fx_q,
           PopTakes(parse, rb, raw_q, "raw_q", "parse"),
           UNCHANGED <<jobVars, main, fetchVars, writeVars, g_stop, last_applied, report>>
    PROVE  IInv'
<1>0. /\ First \in Int /\ tip \in Int
      /\ Len(applied) \in Nat /\ Len(raw_q) \in Nat /\ Len(fx_q) \in Nat
  BY Numbers DEF IInv
<1>1. /\ parse \in {"pop", "pop_wait"} /\ parse' = "parse"
      /\ UNCHANGED <<closed, failed>>
  BY DEF PopTakes, PopPasses
<1>2. /\ raw_q' = Tail(raw_q) /\ rb' = Head(raw_q)
      /\ Len(raw_q) > 0 /\ Len(raw_q') = Len(raw_q) - 1 /\ raw_q \in Seq(Int)
  BY DEF PopTakes, IInv, TypeOK
<1>len. Len(raw_q') = Len(raw_q) - 1
  BY <1>2
<1>3. /\ UNCHANGED <<First, NextHeight, WriteHolds, WriteLive, Live, NextFx, Fetching>>
      /\ ParseHolds = 0 /\ ParseHolds' = 1
  BY <1>1 DEF First, NextHeight, WriteHolds, ParseHolds, WriteLive, Live, NextFx, Fetching, jobVars,
              fetchVars, writeVars
<1>4. NextFx \in Int /\ WriteHolds \in {0, 1}
  BY <1>0 DEF NextFx, NextHeight, WriteHolds, IInv
<1>5. Phases' /\ Failures' /\ Results'
  BY <1>1, <1>3 DEF IInv, TypeOK, ParseLabels, Phases, Failures, Results, WriteLive, First,
     NoThreadOutlivesWalk, CompleteMeansTip, ErrorIsReported, jobVars, fetchVars, writeVars
<1>6. InFlight'
  <2>1. Live => rb' = NextFx /\ Run(raw_q', NextFx + 1)
    BY <1>2, <1>3, <1>4, RunTail DEF IInv, InFlight
  <2>2. NextRaw' = NextRaw
    BY <1>len, <1>3, <1>4, <1>0 DEF NextRaw
  <2> QED
    BY <1>1, <1>3, <2>1, <2>2 DEF IInv, InFlight, fetchVars, writeVars
<1>7. BelowTip'
  <2>1. rb' <= tip /\ AtMost(raw_q', tip)
    BY <1>2, <1>0, AtMostTail DEF IInv, BelowTip
  <2> QED
    BY <1>3, <2>1 DEF IInv, BelowTip, jobVars, fetchVars, writeVars
<1>8. CleanEnd'
  BY <1>1, <1>2, <1>3, <1>4, <1>0, SMTT(20)
     DEF IInv, TypeOK, Phases, CleanEnd, NextRaw, jobVars, fetchVars, writeVars
<1>9. Ahead'
  BY <1>1, <1>2, <1>3, <1>0
     DEF IInv, TypeOK, Ahead, Backpressure, NextHeight, fetchVars, writeVars
<1> QED  BY <1>5, <1>6, <1>7, <1>8, <1>9 DEF IInv

LEMMA ParseAppends ==
    ASSUME IInv, TypeOK', UNCHANGED raw_q,
           PushAppends(parse, rb, fx_q, "fx_q", FxCap, ParsePushed),
           UNCHANGED <<jobVars, main, fetchVars, writeVars, g_stop, last_applied, report>>
    PROVE  IInv'
<1>0. /\ First \in Int /\ tip \in Int
      /\ Len(applied) \in Nat /\ Len(raw_q) \in Nat /\ Len(fx_q) \in Nat
  BY Numbers DEF IInv
<1>1. /\ parse \in {"push", "push_wait"} /\ parse' = "pop" /\ rb' = rb
      /\ "fx_q" \notin closed
      /\ UNCHANGED <<closed, failed>>
  BY DEF PushAppends, PushPasses, ParsePushed
<1>2. /\ fx_q' = Append(fx_q, rb) /\ Len(fx_q') = Len(fx_q) + 1
      /\ fx_q \in Seq(Int) /\ rb \in Int
  BY DEF PushAppends, IInv, TypeOK
<1>len. Len(fx_q') = Len(fx_q) + 1
  BY <1>2
<1>3. /\ UNCHANGED <<First, NextHeight, WriteHolds, WriteLive, Live, Fetching>>
      /\ ParseHolds = 1 /\ ParseHolds' = 0
  BY <1>1 DEF First, NextHeight, WriteHolds, ParseHolds, WriteLive, Live, Fetching, jobVars,
              fetchVars, writeVars
<1>4. /\ NextFx \in Int /\ WriteHolds \in {0, 1} /\ NextHeight \in Int
      /\ NextFx' = NextFx + 1 /\ NextRaw' = NextRaw
      /\ NextFx = NextHeight + WriteHolds + Len(fx_q)
  BY <1>len, <1>3, <1>0 DEF NextFx, NextRaw, NextHeight, WriteHolds, IInv
<1>5. Phases' /\ Failures' /\ Results'
  BY <1>1, <1>3 DEF IInv, TypeOK, ParseLabels, Phases, Failures, Results, WriteLive, First,
     NoThreadOutlivesWalk, CompleteMeansTip, ErrorIsReported, jobVars, fetchVars, writeVars
<1>6. InFlight'
  <2>1. Live <=> WriteLive /\ parse # "fail"
    BY <1>1 DEF Live
  <2>2. WriteLive => Run(fx_q', NextHeight + WriteHolds)
    <3> SUFFICES ASSUME WriteLive PROVE Run(fx_q', NextHeight + WriteHolds)
      OBVIOUS
    <3>1. Run(fx_q, NextHeight + WriteHolds) /\ rb = NextHeight + WriteHolds + Len(fx_q)
      BY <1>1, <1>3, <1>4, <2>1 DEF IInv, InFlight
    <3> QED  BY <3>1, <1>2, <1>4, RunAppend
  <2>3. NextFx + ParseHolds = NextFx' + ParseHolds'
    BY <1>3, <1>4
  <2> QED
    BY <1>1, <1>3, <1>4, <2>2, <2>3 DEF IInv, InFlight, fetchVars, writeVars
<1>7. BelowTip'
  <2>1. AtMost(fx_q', tip)
    BY <1>2, <1>3, <1>0, AtMostAppend DEF IInv, BelowTip
  <2> QED
    BY <1>3, <2>1 DEF IInv, BelowTip, jobVars, fetchVars, writeVars
<1>8. CleanEnd'
  BY <1>1, <1>3, <1>4, <1>0
     DEF IInv, TypeOK, Phases, CleanEnd, jobVars, fetchVars, writeVars
<1>9. Ahead'
  BY <1>1, <1>2, <1>3, <1>0
     DEF IInv, TypeOK, Ahead, Backpressure, NextHeight, fetchVars, writeVars
<1> QED  BY <1>5, <1>6, <1>7, <1>8, <1>9 DEF IInv

LEMMA ParseEnds ==
    ASSUME IInv, TypeOK', UNCHANGED fx_q,
           PopEnds(parse, rb, raw_q, "raw_q", "close"),
           UNCHANGED <<jobVars, main, fetchVars, writeVars, g_stop, last_applied, report>>
    PROVE  IInv'
<1>0. /\ First \in Int /\ tip \in Int
      /\ Len(applied) \in Nat /\ Len(raw_q) \in Nat /\ Len(fx_q) \in Nat
  BY Numbers DEF IInv
<1>1. /\ parse \in {"pop", "pop_wait"} /\ parse' = "close" /\ Len(raw_q) = 0
      /\ "raw_q" \in closed \ failed
      /\ UNCHANGED <<rb, raw_q, closed, failed>>
  BY DEF PopEnds, PopPasses, CanPop
<1>2. UNCHANGED <<First, NextHeight, WriteHolds, ParseHolds, WriteLive, Live, NextFx, NextRaw,
                  Fetching>>
  BY <1>1 DEF First, NextHeight, WriteHolds, ParseHolds, WriteLive, Live, NextFx, NextRaw,
              Fetching, jobVars, fetchVars, writeVars
<1>3. ParseHolds = 0 /\ NextFx \in Int /\ NextRaw = NextFx
  BY <1>1, <1>0 DEF ParseHolds, NextFx, NextRaw, NextHeight, WriteHolds, IInv
<1>4. Phases' /\ Failures' /\ Results'
  BY <1>1, <1>2 DEF IInv, TypeOK, ParseLabels, Phases, Failures, Results, WriteLive, First,
     NoThreadOutlivesWalk, CompleteMeansTip, ErrorIsReported, jobVars, fetchVars, writeVars
<1>5. InFlight' /\ BelowTip'
  BY <1>1, <1>2 DEF IInv, InFlight, BelowTip, jobVars, fetchVars, writeVars
<1>6. CleanEnd'
  \* fx_q is still open: a closed one would mean that parse is done.
  <2>1. g_stop = 0 /\ WriteLive => "fx_q" \notin closed /\ failed = {}
    BY <1>1 DEF IInv, TypeOK, Queues, Phases, CleanEnd, Failures
  <2> QED
    BY <1>1, <1>2, <1>3, <2>1 DEF IInv, CleanEnd, Live, jobVars, fetchVars, writeVars
<1>7. Ahead'
  BY <1>1, <1>2, <1>0
     DEF IInv, TypeOK, Phases, CleanEnd, Ahead, Backpressure, Fetching, NextHeight,
         fetchVars, writeVars
<1> QED  BY <1>4, <1>5, <1>6, <1>7 DEF IInv

LEMMA WriteTakes ==
    ASSUME IInv, TypeOK', UNCHANGED raw_q,
           PopTakes(write, fx, fx_q, "fx_q", "apply"),
           UNCHANGED <<jobVars, main, fetchVars, parseVars, g_stop, report>>,
           UNCHANGED <<worker_err, last_applied, applied>>
    PROVE  IInv'
<1>0. /\ First \in Int /\ tip \in Int
      /\ Len(applied) \in Nat /\ Len(raw_q) \in Nat /\ Len(fx_q) \in Nat
  BY Numbers DEF IInv
<1>1. /\ write \in {"pop", "pop_wait"} /\ write' = "apply"
      /\ UNCHANGED <<closed, failed>>
  BY DEF PopTakes, PopPasses
<1>2. /\ fx_q' = Tail(fx_q) /\ fx' = Head(fx_q)
      /\ Len(fx_q) > 0 /\ Len(fx_q') = Len(fx_q) - 1 /\ fx_q \in Seq(Int)
  BY DEF PopTakes, IInv, TypeOK
<1>len. Len(fx_q') = Len(fx_q) - 1
  BY <1>2
<1>3. /\ UNCHANGED <<First, NextHeight, ParseHolds, WriteLive, Live, Fetching>>
      /\ WriteHolds = 0 /\ WriteHolds' = 1
      /\ WriteLive
  BY <1>1 DEF First, NextHeight, WriteHolds, ParseHolds, WriteLive, Live, Fetching, jobVars,
              fetchVars, parseVars, IInv, TypeOK, Phases
<1>4. /\ NextHeight \in Int /\ NextFx \in Int /\ ParseHolds \in {0, 1}
      /\ NextFx' = NextFx /\ NextRaw' = NextRaw
  BY <1>len, <1>3, <1>0 DEF NextFx, NextRaw, NextHeight, ParseHolds, IInv
<1>5. Phases' /\ Failures' /\ Results'
  BY <1>1, <1>3 DEF IInv, TypeOK, WriteLabels, Phases, Failures, Results, WriteLive, First,
     NoThreadOutlivesWalk, CompleteMeansTip, ErrorIsReported, jobVars, fetchVars, parseVars
<1>6. InFlight'
  <2>1. fx' = NextHeight /\ Run(fx_q', NextHeight + 1)
    BY <1>2, <1>3, <1>4, RunTail DEF IInv, InFlight
  <2> QED
    BY <1>1, <1>3, <1>4, <2>1 DEF IInv, InFlight, fetchVars, parseVars
<1>7. BelowTip'
  <2>1. fx' <= tip /\ AtMost(fx_q', tip)
    BY <1>2, <1>0, AtMostTail DEF IInv, BelowTip
  <2> QED
    BY <1>3, <2>1 DEF IInv, BelowTip, NextHeight, jobVars, fetchVars, parseVars
<1>8. CleanEnd'
  BY <1>1, <1>3, <1>4
     DEF IInv, TypeOK, Phases, CleanEnd, jobVars, fetchVars, parseVars
<1>9. Ahead'
  BY <1>1, <1>2, <1>3, <1>0
     DEF IInv, TypeOK, Ahead, Backpressure, NextHeight, fetchVars, parseVars
<1> QED  BY <1>5, <1>6, <1>7, <1>8, <1>9 DEF IInv

LEMMA ParseChecks ==
    ASSUME IInv, TypeOK', ParseBlock,
           UNCHANGED <<jobVars, main, fetchVars, writeVars, g_stop, last_applied, report>>
    PROVE  IInv'
<1>1. parse = "parse" /\ parse' \in {"push", "fail"}
  BY DEF ParseBlock, Jump
<1>2. UNCHANGED <<jobVars, main, fetchVars, rb, writeVars, queueVars, g_stop, report>>
  BY DEF ParseBlock
<1>3. UNCHANGED <<First, NextHeight, WriteHolds, WriteLive, Fetching>> /\ (Live' => Live)
  BY <1>1, <1>2 DEF First, NextHeight, WriteHolds, WriteLive, Live, Fetching, jobVars, fetchVars,
     writeVars, queueVars
<1>4. ParseHolds = 1 /\ (parse' = "push" => ParseHolds' = 1) /\ ParseHolds' \in {0, 1}
  BY <1>1 DEF ParseHolds
<1>5. NextFx' = NextFx /\ (Live' => NextRaw' = NextRaw)
  BY <1>1, <1>2, <1>3, <1>4 DEF NextFx, NextRaw, Live, queueVars
<1>6. Phases' /\ Failures' /\ Results' /\ BelowTip'
  BY <1>1, <1>2, <1>3, <1>4 DEF IInv, Phases, Failures, Results, BelowTip, WriteLive,
     NoThreadOutlivesWalk, CompleteMeansTip, ErrorIsReported, jobVars, fetchVars, writeVars,
     queueVars
<1>7. InFlight'
  BY <1>1, <1>2, <1>3, <1>4, <1>5 DEF IInv, InFlight, Live, fetchVars, writeVars, queueVars
<1>8. CleanEnd'
  BY <1>1, <1>2, <1>3, <1>5 DEF IInv, CleanEnd, jobVars, fetchVars, writeVars, queueVars
<1>9. Ahead'
  BY <1>1, <1>2, <1>3 DEF IInv, Ahead, Backpressure, fetchVars, writeVars, queueVars
<1> QED  BY <1>6, <1>7, <1>8, <1>9 DEF IInv

LEMMA ParseDrops ==
    ASSUME IInv, TypeOK', UNCHANGED raw_q,
           PushDrops(parse, fx_q, "fx_q", FxCap, ParsePushed),
           UNCHANGED <<jobVars, main, fetchVars, writeVars, g_stop, last_applied, report>>
    PROVE  IInv'
<1>1. /\ parse \in {"push", "push_wait"} /\ parse' = "pop" /\ "fx_q" \in closed \ failed
      /\ UNCHANGED <<rb, queueVars>>
  BY DEF PushDrops, PushPasses, ParsePushed, queueVars
\* Without a signal nobody but parse itself closes fx_q and leaves it unfailed.
<1>2. g_stop # 0
  BY <1>1 DEF IInv, CleanEnd
<1>3. /\ UNCHANGED <<First, NextHeight, WriteHolds, WriteLive, Fetching>>
      /\ ~Live /\ ~Live' /\ ParseHolds' = 0
  BY <1>1 DEF First, NextHeight, WriteHolds, ParseHolds, WriteLive, Live, Fetching, jobVars,
     fetchVars, writeVars, queueVars
<1>4. Phases' /\ Failures' /\ Results' /\ BelowTip'
  BY <1>1, <1>3 DEF IInv, Phases, Failures, Results, BelowTip, WriteLive,
     NoThreadOutlivesWalk, CompleteMeansTip, ErrorIsReported, jobVars, fetchVars, writeVars,
     queueVars
<1>5. InFlight'
  BY <1>1, <1>3 DEF IInv, InFlight, writeVars, queueVars
<1>6. CleanEnd' /\ Ahead'
  BY <1>1, <1>2, <1>3 DEF IInv, CleanEnd, Ahead, Backpressure, fetchVars
<1> QED  BY <1>4, <1>5, <1>6 DEF IInv

LEMMA WriteEnds ==
    ASSUME IInv, TypeOK', PopEnds(write, fx, fx_q, "fx_q", "done"),
           UNCHANGED <<jobVars, main, fetchVars, parseVars, g_stop, report>>,
           UNCHANGED <<raw_q, worker_err, last_applied, applied>>
    PROVE  IInv'
<1>1. /\ write \in {"pop", "pop_wait"} /\ write' = "done" /\ Len(fx_q) = 0
      /\ "fx_q" \in closed \ failed
      /\ UNCHANGED <<fx, queueVars>>
  BY DEF PopEnds, PopPasses, CanPop, queueVars
<1>2. /\ UNCHANGED <<First, NextHeight, ParseHolds, WriteLive, Live, Fetching>>
      /\ WriteHolds = 0 /\ WriteHolds' = 0 /\ WriteLive
  BY <1>1 DEF First, NextHeight, WriteHolds, ParseHolds, WriteLive, Live, Fetching, jobVars,
     fetchVars, parseVars, queueVars, IInv, TypeOK, Phases
<1>3. UNCHANGED <<NextFx, NextRaw>>
  BY <1>1, <1>2 DEF NextFx, NextRaw, queueVars
<1>4. First \in Int /\ Len(applied) \in Nat /\ NextFx = NextHeight
  BY <1>1, <1>2, Numbers DEF NextFx, NextHeight, IInv
<1>5. Phases' /\ Failures' /\ Results' /\ BelowTip'
  BY <1>1, <1>2 DEF IInv, Phases, Failures, Results, BelowTip, WriteLive,
     NoThreadOutlivesWalk, CompleteMeansTip, ErrorIsReported, jobVars, fetchVars, parseVars,
     queueVars
<1>6. InFlight'
  BY <1>1, <1>2, <1>3 DEF IInv, InFlight, fetchVars, parseVars, queueVars
<1>7. CleanEnd'
  BY <1>1, <1>2, <1>3, <1>4 DEF IInv, CleanEnd, jobVars, fetchVars, parseVars, queueVars
<1>8. Ahead'
  <2>1. g_stop = 0 => fetch = "done"
    BY <1>1, <1>2 DEF IInv, CleanEnd
  <2> QED
    BY <1>1, <1>2, <2>1 DEF IInv, Ahead, Backpressure, Fetching, fetchVars
<1> QED  BY <1>5, <1>6, <1>7, <1>8 DEF IInv

LEMMA WriteApplies ==
    ASSUME IInv, TypeOK', WriteApply,
           UNCHANGED <<jobVars, main, fetchVars, parseVars, g_stop, report>>
    PROVE  IInv'
<1>1. /\ write = "apply" /\ write' = "pop"
      /\ UNCHANGED <<fx, queueVars, worker_err>>
  BY DEF WriteApply, Jump
<1>2. applied' = Append(applied, fx) /\ fx = First + Len(applied) /\ applied \in Seq(Int)
  BY <1>1 DEF WriteApply, IInv, TypeOK, InFlight, NextHeight
<1>3. First \in Int /\ tip \in Int /\ Len(applied) \in Nat /\ Len(fx_q) \in Nat
      /\ Len(raw_q) \in Nat /\ First' = First
  BY Numbers DEF IInv, First, jobVars
<1>4. Run(applied', First) /\ Len(applied') = Len(applied) + 1 /\ applied' # <<>>
  BY <1>2, <1>3, RunAppend DEF IInv, InFlight
<1>5. /\ NextHeight' = NextHeight + 1 /\ NextHeight \in Int /\ ParseHolds \in {0, 1}
      /\ WriteHolds = 1 /\ WriteHolds' = 0
  BY <1>1, <1>3, <1>4 DEF NextHeight, WriteHolds, ParseHolds
<1>6. UNCHANGED <<ParseHolds, WriteLive, Live, Fetching, NextFx, NextRaw>>
  BY <1>1, <1>3, <1>5 DEF ParseHolds, WriteLive, Live, Fetching, NextFx, NextRaw, fetchVars,
     parseVars, queueVars
<1>7. Phases' /\ Failures' /\ Results'
  BY <1>1 DEF IInv, TypeOK, MainLabels, Phases, Failures, Results, WriteLive, First,
     NoThreadOutlivesWalk, CompleteMeansTip, ErrorIsReported, jobVars, fetchVars, parseVars,
     queueVars
<1>8. InFlight'
  BY <1>1, <1>3, <1>4, <1>5, <1>6 DEF IInv, InFlight, fetchVars, parseVars, queueVars
<1>9. BelowTip'
  BY <1>1, <1>2, <1>3, <1>5, <1>6 DEF IInv, BelowTip, NextHeight, jobVars, fetchVars, parseVars,
     queueVars
<1>10. CleanEnd'
  BY <1>1, <1>3, <1>5, <1>6 DEF IInv, CleanEnd, jobVars, fetchVars, parseVars, queueVars
<1>11. Ahead'
  BY <1>1, <1>3, <1>5, <1>6, CapAssumption
     DEF IInv, TypeOK, Ahead, Backpressure, Fetching, fetchVars, parseVars, queueVars
<1> QED  BY <1>7, <1>8, <1>9, <1>10, <1>11 DEF IInv

LEMMA FetchDrops ==
    ASSUME IInv, TypeOK', UNCHANGED fx_q,
           PushDrops(fetch, raw_q, "raw_q", RawCap, FetchPushed),
           UNCHANGED <<jobVars, main, parseVars, writeVars, g_stop, last_applied, report>>
    PROVE  IInv'
<1>1. /\ fetch \in {"push", "push_wait"} /\ "raw_q" \in closed \ failed
      /\ UNCHANGED queueVars
  BY DEF PushDrops, PushPasses, queueVars
<1>2. \/ h = tip /\ fetch' = "close" /\ h' = h
      \/ h # tip /\ fetch' = "top" /\ h' = h + 1
  BY DEF PushDrops, FetchPushed
\* Without a signal nobody but fetch itself closes raw_q and leaves it unfailed.
<1>3. g_stop # 0 /\ g_stop' # 0
  BY <1>1 DEF IInv, CleanEnd
<1>4. UNCHANGED <<First, NextHeight, NextFx, WriteHolds, ParseHolds, WriteLive, Live>>
  BY <1>1 DEF First, NextHeight, NextFx, WriteHolds, ParseHolds, WriteLive, Live, jobVars,
     parseVars, writeVars, queueVars
<1>5. Phases' /\ Failures' /\ Results'
  BY <1>1, <1>2, <1>4 DEF IInv, Phases, Failures, Results, WriteLive,
     NoThreadOutlivesWalk, CompleteMeansTip, ErrorIsReported, jobVars, parseVars, writeVars,
     queueVars
<1>6. InFlight'
  BY <1>1, <1>4 DEF IInv, InFlight, parseVars, writeVars, queueVars
<1>7. BelowTip'
  <2>1. Fetching' => h' <= tip'
    <3>1. h \in Int /\ tip \in Int /\ tip' = tip /\ h <= tip
      BY <1>1, MaxHeightAssumption DEF IInv, TypeOK, Heights, BelowTip, Fetching, jobVars
    <3> QED BY <1>2, <3>1 DEF Fetching
  <2> QED BY <1>1, <1>4, <2>1 DEF IInv, BelowTip, jobVars, parseVars, writeVars, queueVars
<1>8. CleanEnd'
  BY <1>3 DEF CleanEnd
<1>9. Ahead'
  <2>1. fetch' \notin {"rpc", "push", "push_wait"}
    BY <1>2
  <2> QED BY <1>3, <2>1 DEF Ahead, Backpressure
<1> QED  BY <1>5, <1>6, <1>7, <1>8, <1>9 DEF IInv

LEMMA FetchStep == IInv /\ TypeOK' /\ Fetch => IInv'
<1> SUFFICES ASSUME IInv /\ TypeOK', Fetch PROVE IInv'
  OBVIOUS
<1>a. UNCHANGED <<jobVars, main, parseVars, writeVars, g_stop, last_applied, report>>
  BY DEF Fetch
<1>7. CASE PushAppends(fetch, h, raw_q, "raw_q", RawCap, FetchPushed) /\ UNCHANGED fx_q
  BY <1>a, <1>7, FetchAppends
<1>b. First \in Int /\ First' = First
  BY <1>a, MaxHeightAssumption DEF First, TypeOK, IInv, jobVars, Heights
<1>c. Len(applied) \in Nat /\ Len(raw_q) \in Nat /\ Len(fx_q) \in Nat
  BY DEF TypeOK, IInv
<1> USE MaxHeightAssumption, CapAssumption DEF TypeOK, MainLabels, FetchLabels, ParseLabels,
       WriteLabels, Outcomes, Queues, jobVars, fetchVars, parseVars, writeVars, queueVars,
       Jump, Heights, Close, Fail, CanPush, CanPop, PopLeaves, PushPasses, PopPasses,
       stop_requested, IInv, Phases, InFlight, BelowTip, CleanEnd, Failures, Results, Ahead,
       WriteLive, Live, Fetching, ParseHolds, WriteHolds, NextHeight, NextFx, NextRaw,
       NoThreadOutlivesWalk, CompleteMeansTip, ErrorIsReported, Backpressure
<1>1. CASE FetchTop
  <2>1. Phases' /\ InFlight' /\ BelowTip'
    BY <1>a, <1>b, <1>1 DEF FetchTop
  <2>2. CleanEnd'
    BY <1>a, <1>b, <1>c, <1>1 DEF FetchTop
  <2>3. Failures' /\ Results' /\ Ahead'
    BY <1>a, <1>b, <1>1 DEF FetchTop
  <2> QED  BY <2>1, <2>2, <2>3
<1>2. CASE FetchRpc
  BY <1>a, <1>b, <1>c, <1>2 DEF FetchRpc
<1>3. CASE PushSleeps(fetch, h, raw_q, "raw_q", RawCap) /\ UNCHANGED fx_q
  BY <1>a, <1>b, <1>c, <1>3 DEF PushSleeps
<1>4. CASE PushStops(fetch, raw_q, "raw_q", FetchPushed) /\ UNCHANGED fx_q
  BY <1>a, <1>b, <1>c, <1>4 DEF PushStops, FetchPushed
<1>5. CASE PushThrows(fetch, h, raw_q, "raw_q", RawCap, "catch") /\ UNCHANGED fx_q
  BY <1>a, <1>b, <1>c, <1>5 DEF PushThrows
<1>6. CASE PushDrops(fetch, raw_q, "raw_q", RawCap, FetchPushed) /\ UNCHANGED fx_q
  BY <1>a, <1>6, FetchDrops
<1>8. CASE FetchClose
  BY <1>a, <1>b, <1>c, <1>8 DEF FetchClose
<1>9. CASE FetchCatch
  BY <1>a, <1>b, <1>c, <1>9 DEF FetchCatch
<1>10. CASE FetchFailRaw
  BY <1>a, <1>b, <1>c, <1>10 DEF FetchFailRaw
<1>11. CASE FetchFailFx
  BY <1>a, <1>b, <1>c, <1>11 DEF FetchFailFx
<1> QED BY <1>1, <1>2, <1>3, <1>4, <1>5, <1>6, <1>7, <1>8, <1>9, <1>10, <1>11 DEF Fetch,
       FetchPush, Push

LEMMA ParseStep == IInv /\ TypeOK' /\ Parse => IInv'
<1> SUFFICES ASSUME IInv /\ TypeOK', Parse PROVE IInv'
  OBVIOUS
<1>a. UNCHANGED <<jobVars, main, fetchVars, writeVars, g_stop, last_applied, report>>
  BY DEF Parse
<1>4. CASE PopEnds(parse, rb, raw_q, "raw_q", "close") /\ UNCHANGED fx_q
  BY <1>a, <1>4, ParseEnds
<1>5. CASE PopTakes(parse, rb, raw_q, "raw_q", "parse") /\ UNCHANGED fx_q
  BY <1>a, <1>5, ParseTakes
<1>6. CASE ParseBlock
  BY <1>a, <1>6, ParseChecks
<1>10. CASE PushDrops(parse, fx_q, "fx_q", FxCap, ParsePushed) /\ UNCHANGED raw_q
  BY <1>a, <1>10, ParseDrops
<1>11. CASE PushAppends(parse, rb, fx_q, "fx_q", FxCap, ParsePushed) /\ UNCHANGED raw_q
  BY <1>a, <1>11, ParseAppends
<1>b. First \in Int /\ First' = First
  BY <1>a, MaxHeightAssumption DEF First, TypeOK, IInv, jobVars, Heights
<1>c. Len(applied) \in Nat /\ Len(raw_q) \in Nat /\ Len(fx_q) \in Nat
  BY DEF TypeOK, IInv
<1> USE MaxHeightAssumption, CapAssumption DEF TypeOK, MainLabels, FetchLabels, ParseLabels,
       WriteLabels, Outcomes, Queues, jobVars, fetchVars, parseVars, writeVars, queueVars,
       Jump, Heights, Close, Fail, CanPush, CanPop, PopLeaves, PushPasses, PopPasses,
       stop_requested, IInv, Phases, InFlight, BelowTip, CleanEnd, Failures, Results, Ahead,
       WriteLive, Live, Fetching, ParseHolds, WriteHolds, NextHeight, NextFx, NextRaw,
       NoThreadOutlivesWalk, CompleteMeansTip, ErrorIsReported, Backpressure
<1>1. CASE PopSleeps(parse, rb, raw_q, "raw_q") /\ UNCHANGED fx_q
  BY <1>a, <1>b, <1>c, <1>1 DEF PopSleeps
<1>2. CASE PopStops(parse, rb, raw_q, "raw_q", "close") /\ UNCHANGED fx_q
  BY <1>a, <1>b, <1>c, <1>2 DEF PopStops
<1>3. CASE PopThrows(parse, rb, raw_q, "raw_q", "fail") /\ UNCHANGED fx_q
  BY <1>a, <1>b, <1>c, <1>3 DEF PopThrows
<1>7. CASE PushSleeps(parse, rb, fx_q, "fx_q", FxCap) /\ UNCHANGED raw_q
  BY <1>a, <1>b, <1>c, <1>7, SMTT(20) DEF PushSleeps
<1>8. CASE PushStops(parse, fx_q, "fx_q", ParsePushed) /\ UNCHANGED raw_q
  BY <1>a, <1>b, <1>c, <1>8 DEF PushStops, ParsePushed
<1>9. CASE PushThrows(parse, rb, fx_q, "fx_q", FxCap, "fail") /\ UNCHANGED raw_q
  BY <1>a, <1>b, <1>c, <1>9 DEF PushThrows
<1>12. CASE ParseClose
  BY <1>a, <1>b, <1>c, <1>12 DEF ParseClose
<1>13. CASE ParseFail
  BY <1>a, <1>b, <1>c, <1>13 DEF ParseFail
<1> QED BY <1>1, <1>2, <1>3, <1>4, <1>5, <1>6, <1>7, <1>8, <1>9, <1>10, <1>11, <1>12, <1>13
       DEF Parse, ParsePop, ParsePush, Push, Pop

LEMMA WriteStep == IInv /\ TypeOK' /\ Write => IInv'
<1> SUFFICES ASSUME IInv /\ TypeOK', Write PROVE IInv'
  OBVIOUS
<1>a. UNCHANGED <<jobVars, main, fetchVars, parseVars, g_stop, report>>
  BY DEF Write
<1>4. CASE /\ PopEnds(write, fx, fx_q, "fx_q", "done")
            /\ UNCHANGED <<raw_q, worker_err, last_applied, applied>>
  BY <1>a, <1>4, WriteEnds
<1>5. CASE /\ PopTakes(write, fx, fx_q, "fx_q", "apply")
            /\ UNCHANGED <<raw_q, worker_err, last_applied, applied>>
  BY <1>a, <1>5, WriteTakes
<1>6. CASE WriteApply
  BY <1>a, <1>6, WriteApplies
<1>b. First \in Int /\ First' = First
  BY <1>a, MaxHeightAssumption DEF First, TypeOK, IInv, jobVars, Heights
<1>c. Len(applied) \in Nat /\ Len(raw_q) \in Nat /\ Len(fx_q) \in Nat
  BY DEF TypeOK, IInv
<1> USE MaxHeightAssumption, CapAssumption DEF TypeOK, MainLabels, FetchLabels, ParseLabels,
       WriteLabels, Outcomes, Queues, jobVars, fetchVars, parseVars, writeVars, queueVars,
       Jump, Heights, Close, Fail, CanPush, CanPop, PopLeaves, PushPasses, PopPasses,
       stop_requested, IInv, Phases, InFlight, BelowTip, CleanEnd, Failures, Results, Ahead,
       WriteLive, Live, Fetching, ParseHolds, WriteHolds, NextHeight, NextFx, NextRaw,
       NoThreadOutlivesWalk, CompleteMeansTip, ErrorIsReported, Backpressure
<1>1. CASE /\ PopSleeps(write, fx, fx_q, "fx_q")
            /\ UNCHANGED <<raw_q, worker_err, last_applied, applied>>
  BY <1>a, <1>b, <1>c, <1>1 DEF PopSleeps
<1>2. CASE /\ PopStops(write, fx, fx_q, "fx_q", "done")
            /\ UNCHANGED <<raw_q, worker_err, last_applied, applied>>
  BY <1>a, <1>b, <1>c, <1>2 DEF PopStops
<1>3. CASE /\ PopThrows(write, fx, fx_q, "fx_q", "catch")
            /\ UNCHANGED <<raw_q, worker_err, last_applied, applied>>
  BY <1>a, <1>b, <1>c, <1>3 DEF PopThrows
<1>7. CASE WriteApplyThrows
  BY <1>a, <1>b, <1>c, <1>7 DEF WriteApplyThrows
<1>8. CASE WriteCatch
  BY <1>a, <1>b, <1>c, <1>8 DEF WriteCatch, CatchStep
<1>9. CASE WriteFailRaw
  BY <1>a, <1>b, <1>c, <1>9 DEF WriteFailRaw, CatchStep
<1>10. CASE WriteFailFx
  BY <1>a, <1>b, <1>c, <1>10 DEF WriteFailFx, CatchStep
<1> QED BY <1>1, <1>2, <1>3, <1>4, <1>5, <1>6, <1>7, <1>8, <1>9, <1>10 DEF Write, WritePop,
       Pop

LEMMA SignalStep == IInv /\ TypeOK' /\ RequestStop => IInv'
<1> SUFFICES ASSUME IInv, TypeOK', RequestStop PROVE IInv'
  OBVIOUS
<1>1. g_stop' = 1 /\ UNCHANGED <<jobVars, main, fetchVars, parseVars, writeVars, queueVars,
                                 last_applied, report>>
  BY DEF RequestStop
<1> QED
  BY <1>1 DEF IInv, Phases, InFlight, BelowTip, CleanEnd, Failures, Results, Ahead, First,
     NextHeight, NextFx, NextRaw, WriteHolds, ParseHolds, Fetching, WriteLive, Live,
     NoThreadOutlivesWalk, CompleteMeansTip, ErrorIsReported, Backpressure, jobVars, fetchVars,
     parseVars, writeVars, queueVars

LEMMA StutterStep == IInv /\ TypeOK' /\ UNCHANGED vars => IInv'
BY DEF IInv, Phases, InFlight, BelowTip, CleanEnd, Failures, Results, Ahead, First,
   NextHeight, NextFx, NextRaw, WriteHolds, ParseHolds, Fetching, WriteLive, Live,
   NoThreadOutlivesWalk, CompleteMeansTip, ErrorIsReported, Backpressure, jobVars, fetchVars,
   parseVars, writeVars, queueVars, vars

LEMMA InductiveStep == IInv /\ [Next]_vars => IInv'
<1> SUFFICES ASSUME IInv, [Next]_vars PROVE IInv'
  OBVIOUS
<1>1. TypeOK'
  BY TypesStep DEF IInv
<1> QED
  BY <1>1, MainStep, FetchStep, ParseStep, WriteStep, SignalStep, StutterStep
     DEF Next, Terminated

\* The inductive invariant holds in every state of every behaviour of the pipeline,
\* whatever the order in which sync.cpp's main thread and its fetch, parse and write threads
\* take their steps, and wherever the interrupt falls.
THEOREM Inductive == Spec => []IInv
<1>1. Init => IInv
  BY InitIInv
<1>2. IInv /\ [Next]_vars => IInv'
  BY InductiveStep
<1> QED  BY <1>1, <1>2, PTL DEF Spec
-----------------------------------------------------------------------------
(***************************************************************************)
(* The properties that the run "pipeline" checks, for every capacity.      *)
(***************************************************************************)

\* Every variable keeps its type and no queue exceeds its capacity.
THEOREM TypeCorrect == Spec => []TypeOK
<1>1. IInv => TypeOK
  BY DEF IInv
<1> QED  BY <1>1, Inductive, PTL

\* apply sees every missing height once and in order, whatever fails and
\* whenever the signal arrives.
THEOREM InOrder == Spec => []AppliedInOrder
<1>1. IInv => AppliedInOrder
  BY DEF IInv, InFlight, BelowTip, Run, AppliedInOrder
<1> QED  BY <1>1, Inductive, PTL

\* A walk that is reported complete applied every block up to the tip.
THEOREM Complete == Spec => []CompleteMeansTip
<1>1. IInv => CompleteMeansTip
  BY DEF IInv, Results
<1> QED  BY <1>1, Inductive, PTL

\* Without a signal the report says "failed" exactly if a thread failed.
THEOREM ErrorsReported == Spec => []ErrorIsReported
<1>1. IInv => ErrorIsReported
  BY DEF IInv, Results
<1> QED  BY <1>1, Inductive, PTL

\* Main leaves, and its locals die, only after all three threads ended.
THEOREM ThreadsJoined == Spec => []NoThreadOutlivesWalk
<1>1. IInv => NoThreadOutlivesWalk
  BY DEF IInv, Phases
<1> QED  BY <1>1, Inductive, PTL

\* Fetch is never further ahead of apply than the queues and two blocks.
THEOREM BoundedMemory == Spec => []Backpressure
<1>1. IInv => Backpressure
  BY DEF IInv, Ahead
<1> QED  BY <1>1, Inductive, PTL
-----------------------------------------------------------------------------
(***************************************************************************)
(* The threads and the queues implement SequentialWalk: main's return and  *)
(* write's apply are its steps, everything else is a stutter.              *)
(***************************************************************************)

LEMMA MainWalks == IInv /\ IInv' /\ Main => [Walk!WalkNext]_Walk!walkVars
<1> SUFFICES ASSUME IInv, IInv', Main PROVE [Walk!WalkNext]_Walk!walkVars
  OBVIOUS
<1>a. UNCHANGED applied /\ (main # "done" => report = "walking")
  BY DEF Main, IInv, Phases, TypeOK, Outcomes
<1> USE DEF Walk!WalkNext, Walk!walkVars, jobVars, Jump
<1>1. CASE PrecheckThrows
  BY <1>a, <1>1 DEF PrecheckThrows, Return, Walk!GiveUp
<1>2. CASE GetBlockCount
  BY <1>a, <1>2 DEF GetBlockCount, Heights, Walk!LearnTip, Walk!Heights, IInv, Phases
<1>3. CASE ReorgDetected
  BY <1>a, <1>3 DEF ReorgDetected, Return, Walk!GiveUp
<1>4. CASE UpToDate
  <2>1. incremental /\ applied = <<>> /\ tip # -1 /\ start_height \in Int
    BY <1>4, MaxHeightAssumption DEF UpToDate, IInv, Phases, TypeOK, Heights
  <2> QED
    BY <1>a, <1>4, <2>1 DEF UpToDate, Return, Walk!Complete, Walk!NextHeight, Walk!First
<1>5. CASE BlocksMissing
  BY <1>a, <1>5 DEF BlocksMissing
<1>6. CASE Spawn
  BY <1>a, <1>6 DEF Spawn, SpawnFrom
<1>7. CASE Finish
  <2>1. /\ main = "join" /\ UNCHANGED jobVars
        /\ report' \in {"failed", "interrupted", "complete"}
    BY <1>7 DEF Finish, FinishAfter, Return
  <2>2. CASE report' = "complete"
    <3>1. First' + Len(applied') = tip' + 1 /\ First' = First
      BY <2>1, <2>2 DEF IInv, Results, CompleteMeansTip, NextHeight, First
    <3>2. tip # -1
      BY <2>1 DEF IInv, Phases
    <3> QED
      BY <1>a, <2>1, <2>2, <3>1, <3>2
         DEF Walk!Complete, Walk!NextHeight, Walk!First, First
  <2>3. CASE report' \in {"failed", "interrupted"}
    BY <1>a, <2>1, <2>3 DEF Walk!GiveUp
  <2> QED  BY <2>1, <2>2, <2>3
<1> QED  BY <1>1, <1>2, <1>3, <1>4, <1>5, <1>6, <1>7 DEF Main

LEMMA WriteWalks == IInv /\ Write => [Walk!WalkNext]_Walk!walkVars
<1> SUFFICES ASSUME IInv, Write PROVE [Walk!WalkNext]_Walk!walkVars
  OBVIOUS
<1>a. UNCHANGED <<jobVars, report>>
  BY DEF Write
<1> USE DEF Walk!walkVars, jobVars
<1>1. CASE WriteApply
  <2>1. write = "apply" /\ applied' = Append(applied, fx)
    BY <1>1 DEF WriteApply, Jump
  <2>2. fx = First + Len(applied) /\ fx <= tip
    BY <2>1 DEF IInv, InFlight, BelowTip, WriteHolds, NextHeight
  <2>3. report = "walking"
    BY <2>1 DEF IInv, Phases, NoThreadOutlivesWalk
  <2> QED
    BY <1>a, <2>1, <2>2, <2>3
       DEF Walk!WalkNext, Walk!ApplyNext, Walk!NextHeight, Walk!First, First
<1>2. CASE WritePop
  BY <1>a, <1>2 DEF WritePop
<1>3. CASE WriteApplyThrows \/ WriteCatch \/ WriteFailRaw \/ WriteFailFx
  BY <1>a, <1>3 DEF WriteApplyThrows, WriteCatch, WriteFailRaw, WriteFailFx, CatchStep
<1> QED  BY <1>1, <1>2, <1>3 DEF Write

\* The pipeline implements the walk without threads: every step applies the
\* next height, ends the walk as the walk may end, or is invisible.
THEOREM Implements == Spec => ImplementsWalk
<1>1. Init => Walk!WalkInit
  BY DEF Init, Heights, Walk!WalkInit, Walk!Heights
<1>2. IInv /\ IInv' /\ [Next]_vars => [Walk!WalkNext]_Walk!walkVars
  <2> SUFFICES ASSUME IInv, IInv', [Next]_vars PROVE [Walk!WalkNext]_Walk!walkVars
    OBVIOUS
  <2>1. CASE Fetch \/ Parse
    BY <2>1 DEF Fetch, Parse, writeVars, jobVars, Walk!walkVars
  <2>2. CASE RequestStop
    BY <2>2 DEF RequestStop, writeVars, jobVars, Walk!walkVars
  <2>3. CASE UNCHANGED vars
    BY <2>3 DEF vars, writeVars, jobVars, Walk!walkVars
  <2> QED  BY <2>1, <2>2, <2>3, MainWalks, WriteWalks DEF Next, Terminated
<1> QED  BY <1>1, <1>2, Inductive, PTL DEF Spec, ImplementsWalk, Walk!WalkSafety
=============================================================================
