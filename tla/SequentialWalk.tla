--------------------------- MODULE SequentialWalk ---------------------------
(***************************************************************************)
(* What walk_rpc_blocks (src/src/chain/sync.cpp) promises its caller, with *)
(* no threads and no queues: the callback "apply" is called once for every *)
(* height from the first one that is missing, in order and without a gap,  *)
(* and the walk is reported complete only when the tip that the node       *)
(* announced has been applied.  Interruptions and errors end it earlier.   *)
(*                                                                         *)
(* BlockPipeline is shown to implement this module.                        *)
(***************************************************************************)
EXTENDS Integers, Sequences

CONSTANTS MaxHeight    \* the highest block height the node may announce

VARIABLES incremental,   \* TRUE: continue an index; FALSE: walk from block 0
          start_height,  \* incremental: the height the index is at
          tip,           \* what getblockcount answered; -1 before it did
          applied,       \* the heights given to apply, in order
          report         \* how the walk ended

walkVars == <<incremental, start_height, tip, applied, report>>

Heights == 0 .. MaxHeight

\* The first height that the index lacks.
First == IF incremental THEN start_height + 1 ELSE 0

\* The height the next call of apply must be for.
NextHeight == First + Len(applied)

WalkInit ==
    /\ incremental \in BOOLEAN
    /\ start_height \in (IF incremental THEN Heights ELSE {0})
    /\ tip = -1
    /\ applied = <<>>
    /\ report = "walking"

LearnTip ==
    /\ report = "walking"
    /\ tip = -1
    /\ tip' \in Heights
    /\ UNCHANGED <<incremental, start_height, applied, report>>

ApplyNext ==
    /\ report = "walking"
    /\ NextHeight <= tip
    /\ applied' = Append(applied, NextHeight)
    /\ UNCHANGED <<incremental, start_height, tip, report>>

Complete ==
    /\ report = "walking"
    /\ NextHeight = tip + 1
    /\ tip # -1
    /\ report' = "complete"
    /\ UNCHANGED <<incremental, start_height, tip, applied>>

GiveUp ==
    /\ report = "walking"
    /\ report' \in {"failed", "interrupted", "reorg"}
    /\ UNCHANGED <<incremental, start_height, tip, applied>>

WalkNext == LearnTip \/ ApplyNext \/ Complete \/ GiveUp

WalkSafety == WalkInit /\ [][WalkNext]_walkVars
=============================================================================
