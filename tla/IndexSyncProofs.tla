--------------------------- MODULE IndexSyncProofs ---------------------------
(***************************************************************************)
(* Proofs about IndexSync, for any number of processes, branches and       *)
(* blocks.                                                                 *)
(*                                                                         *)
(* The inductive invariant has four parts, each proved with the help of    *)
(* those before it: what holds whatever the processes do to each other     *)
(* (Shape); what the lock gives as long as no --force runs beside another  *)
(* process (HeightsKept); what is added as long as processes take turns    *)
(* (Alone); and what is added if the node does not reorganise under a walk *)
(* (Linked), which the theorem that needs it assumes.                      *)
(***************************************************************************)
EXTENDS IndexSync, SequenceTheorems, TLAPS

Types ==
    /\ chain \in Chains
    /\ dir \in {"missing", "empty", "file", "junk", "db"}
    /\ written \in Seq(Chains)
    /\ lock \in Procs \cup {Nobody}
    /\ pc \in [Procs -> Labels] /\ mode \in [Procs -> Modes \cup {"none"}]
    /\ from \in [Procs -> Chains \cup {<<>>}]
    /\ tip \in [Procs -> 0 .. MaxBlocks] /\ next \in [Procs -> 0 .. MaxBlocks + 1]
    /\ ahead \in [Procs -> Seq(Chains)]
    /\ outcome \in {"none", "complete", "failed", "interrupted"}
    /\ company \in {"none", "peaceful", "forced"}

\* Where a process remembers what the metadata said.
Informed == {"inspect_meta", "read", "answer", "reopen", "getblockcount", "getblockhash", "walk"}

\* How many blocks there are below those that were fetched ahead.
Below(p) == next[p] - Len(ahead[p]) - 1

Own(p) ==
    /\ pc[p] = "idle" <=> mode[p] = "none"
    /\ pc[p] \in {"destroy", "destroying", "leftovers"} => mode[p] = "force"
    /\ pc[p] \notin Informed => from[p] = <<>>
    /\ pc[p] # "walk" => ahead[p] = <<>>
    /\ Len(ahead[p]) <= MaxAhead
    /\ pc[p] \in {"getblockhash", "walk"} => tip[p] \in 1 .. Len(chain)
    /\ pc[p] = "walk" => next[p] <= tip[p] + 1 /\ Below(p) >= 0
    /\ \A i \in 1 .. Len(ahead[p]) : Len(ahead[p][i]) = Below(p) + i
    /\ lock = p /\ Walking(p) => dir = "db"

Shape ==
    /\ Types
    /\ written # <<>> => dir = "db"
    /\ \A p \in Procs : Own(p)
-----------------------------------------------------------------------------
\* Where a process holds the lock.
Holding == {"inspect_meta", "destroying", "read", "answer", "getblockcount", "getblockhash", "walk"}

\* The height n is indexed.
Has(w, n) == \E j \in 1 .. Len(w) : Len(w[j]) = n

Downward(w) ==
    \A i \in 1 .. Len(w) : \A len \in 1 .. Len(w[i]) : \E j \in 1 .. i : Len(w[j]) = len

HeightsKept == company # "forced" =>
    /\ \A p \in Procs : pc[p] \in Holding => lock = p
    /\ \A p, q \in Procs : mode[p] = "force" /\ mode[q] # "none" => p = q
    /\ Downward(written)
    /\ \A p \in Procs : \A n \in 1 .. Len(from[p]) : Has(written, n)
    /\ \A p \in Procs : pc[p] = "walk" => \A n \in 1 .. Below(p) : Has(written, n)
-----------------------------------------------------------------------------
Alone == company = "none" =>
    /\ \A p, q \in Procs : mode[p] # "none" /\ mode[q] # "none" => p = q
    /\ \A i \in 1 .. Len(written) : Len(written[i]) = i
    /\ \A p \in Procs :
           /\ pc[p] \in Informed \ {"walk"} => from[p] = Meta
           /\ pc[p] = "create" => written = <<>>
           /\ pc[p] = "walk" => Below(p) = Len(written)
-----------------------------------------------------------------------------
\* The index ends, and a walk goes on, on the chain of the node.
Attached(p) ==
    /\ written # <<>> => Last(written) = BlockAt(Len(written))
    /\ \A i \in 1 .. Len(ahead[p]) : ahead[p][i] = BlockAt(Below(p) + i)

Linked == company = "none" =>
    /\ \A i \in 2 .. Len(written) : Front(written[i]) = written[i - 1]
    /\ \A p \in Procs : pc[p] = "walk" => Attached(p)
-----------------------------------------------------------------------------
(***************************************************************************)
(* Chains and blocks.                                                      *)
(***************************************************************************)

\* A chain is a sequence of branch names that is neither empty nor too long.
LEMMA ChainsAre ==
    \A c : c \in Chains <=> c \in Seq(Branches) /\ Len(c) \in 1 .. MaxBlocks
<1>1. ASSUME NEW c \in Chains PROVE c \in Seq(Branches) /\ Len(c) \in 1 .. MaxBlocks
  <2>1. PICK n \in 1 .. MaxBlocks : c \in [1 .. n -> Branches]
    BY DEF Chains
  <2>2. n \in Nat
    OBVIOUS
  <2>3. c \in Seq(Branches)
    BY <2>1, <2>2, SeqDef
  <2>4. Len(c) = n
    BY <2>1, <2>2, <2>3, LenProperties
  <2> QED BY <2>3, <2>4
<1>2. ASSUME NEW c \in Seq(Branches), Len(c) \in 1 .. MaxBlocks PROVE c \in Chains
  <2>1. c \in [1 .. Len(c) -> Branches]
    BY LenProperties
  <2> QED BY <1>2, <2>1 DEF Chains
<1> QED BY <1>1, <1>2

\* The block at a height of the chain ends a chain of that length, and its
\* parent is the block one height below.
LEMMA BlocksAre ==
    ASSUME NEW c \in Chains, NEW n \in 1 .. Len(c)
    PROVE  /\ SubSeq(c, 1, n) \in Chains /\ Len(SubSeq(c, 1, n)) = n
           /\ Front(SubSeq(c, 1, n)) = SubSeq(c, 1, n - 1)
<1>1. c \in Seq(Branches) /\ Len(c) \in 1 .. MaxBlocks
  BY ChainsAre
<1>2. \A i \in 1 .. n : c[i] \in Branches
  BY <1>1, ElementOfSeq
<1>3. SubSeq(c, 1, n) \in Seq(Branches) /\ Len(SubSeq(c, 1, n)) = n
  <2>1. 1 \in Int /\ n \in Int
    BY <1>1
  <2> QED BY <1>1, <1>2, <2>1, SubSeqProperties
<1>4. SubSeq(c, 1, n) \in Chains
  <2> DEFINE s == SubSeq(c, 1, n)
  <2>1. s \in Seq(Branches) /\ Len(s) \in 1 .. MaxBlocks
    BY <1>1, <1>3, BoundAssumption
  <2> HIDE DEF s
  <2>2. s \in Chains
    BY <2>1, ChainsAre
  <2> QED BY <2>2 DEF s
<1>5. Front(SubSeq(c, 1, n)) = SubSeq(c, 1, n - 1)
  <2> DEFINE s == SubSeq(c, 1, n)
             f == SubSeq(s, 1, n - 1)
             g == SubSeq(c, 1, n - 1)
  <2>1. /\ f \in Seq(Branches) /\ Len(f) = n - 1
        /\ \A i \in 1 .. n - 1 : f[i] = s[i]
    BY <1>1, <1>3
  <2>2. /\ g \in Seq(Branches) /\ Len(g) = n - 1
        /\ \A i \in 1 .. n - 1 : g[i] = c[i]
    BY <1>1
  <2>3. \A i \in 1 .. n : s[i] = c[i]
    BY <1>1
  <2>4. Front(s) = f
    BY <1>3 DEF Front
  <2>5. \A i \in 1 .. Len(f) : f[i] = g[i]
    BY <2>1, <2>2, <2>3, <1>1
  <2> HIDE DEF s, f, g
  <2>6. f = g
    BY <2>1, <2>2, <2>5, SeqEqual
  <2> QED BY <2>4, <2>6 DEF s, g
<1> QED BY <1>3, <1>4, <1>5

\* A longer chain has the same blocks at the heights of the shorter one.
\* The heights of what is fetched lie on the chain, and fetching one more
\* does not change what is below.
LEMMA HeightsFit ==
    ASSUME NEW w \in Nat, NEW a \in Nat, NEW n \in Nat, NEW c \in Nat, NEW t \in 1 .. c,
           n <= t + 1, w = n - a - 1
    PROVE  /\ w \in 0 .. c
           /\ \A i \in 1 .. a : w + i \in 0 .. c
OBVIOUS

LEMMA OneFurther ==
    ASSUME NEW n \in Nat, NEW a \in Nat
    PROVE  /\ (n + 1) - (a + 1) - 1 = n - a - 1
           /\ n - a - 1 \in Int
           /\ n = (n - a - 1) + a + 1
OBVIOUS

LEMMA SamePrefix ==
    ASSUME NEW c \in Chains, NEW d \in Chains, IsPrefix(c, d)
    PROVE  \A n \in 0 .. Len(c) : SubSeq(d, 1, n) = SubSeq(c, 1, n)
<1> SUFFICES ASSUME NEW n \in 0 .. Len(c) PROVE SubSeq(d, 1, n) = SubSeq(c, 1, n)
  OBVIOUS
<1> DEFINE s == SubSeq(d, 1, n)
           t == SubSeq(c, 1, n)
<1>1. /\ c \in Seq(Branches) /\ d \in Seq(Branches) /\ Len(c) \in Nat /\ Len(d) \in Nat
      /\ Len(c) <= Len(d) /\ n \in Nat /\ n <= Len(c)
  BY ChainsAre DEF IsPrefix
<1>2. \A i \in 1 .. Len(c) : c[i] = d[i]
  <2>1. SubSeq(c, 1, Len(c)) = SubSeq(d, 1, Len(c))
    BY DEF IsPrefix
  <2>2. \A i \in 1 .. Len(c) : SubSeq(c, 1, Len(c))[i] = c[i] /\ SubSeq(d, 1, Len(c))[i] = d[i]
    BY <1>1
  <2> QED BY <2>1, <2>2
<1>3. s \in Seq(Branches) /\ Len(s) = n /\ \A i \in 1 .. n : s[i] = d[i]
  BY <1>1
<1>4. t \in Seq(Branches) /\ Len(t) = n /\ \A i \in 1 .. n : t[i] = c[i]
  BY <1>1
<1> HIDE DEF s, t
<1>5. \A i \in 1 .. Len(s) : s[i] = t[i]
  BY <1>1, <1>2, <1>3, <1>4
<1>6. s = t
  BY <1>3, <1>4, <1>5, SeqEqual
<1> QED BY <1>6 DEF s, t

\* What Mheight and Mtip may name.
LEMMA MetaIs ==
    ASSUME written \in Seq(Chains)
    PROVE  Meta \in Chains \cup {<<>>} /\ (Meta = <<>> <=> written = <<>>)
<1>1. ASSUME written # <<>> PROVE Meta \in Chains /\ Meta # <<>>
  <2>1. Len(written) \in 1 .. Len(written)
    BY <1>1
  <2>2. Meta = written[Len(written)] /\ Meta \in Chains
    BY <1>1, <2>1 DEF Meta, Last
  <2>3. Len(Meta) # 0
    BY <2>2, ChainsAre
  <2> QED BY <2>2, <2>3
<1> QED BY <1>1 DEF Meta
-----------------------------------------------------------------------------
(***************************************************************************)
(* Shape.                                                                  *)
(***************************************************************************)

\* What belongs to the process q.
Same(q) ==
    /\ pc'[q] = pc[q] /\ mode'[q] = mode[q] /\ from'[q] = from[q]
    /\ tip'[q] = tip[q] /\ next'[q] = next[q] /\ ahead'[q] = ahead[q]

\* Nothing that q relies on has changed.
Undisturbed(q) ==
    /\ Same(q)
    /\ Len(chain) \in Nat /\ Len(chain') \in Nat /\ Len(chain) <= Len(chain')
    /\ lock' = q => lock = q /\ (dir = "db" => dir' = "db")

LEMMA OthersKeep ==
    ASSUME NEW q \in Procs, Types, Own(q), Undisturbed(q)
    PROVE  Own(q)'
<1>1. tip[q] \in Nat /\ next[q] \in Nat
  BY BoundAssumption DEF Types
<1>2. Below(q)' = Below(q) /\ (Walking(q)' <=> Walking(q))
  BY DEF Undisturbed, Same, Below, Walking
<1> QED BY <1>1, <1>2 DEF Own, Undisturbed, Same

\* The ends of a process.
Quits(p) ==
    /\ \E how \in {"complete", "failed", "interrupted"} : Exit(p, how)
    /\ UNCHANGED <<chain, dir, written>>

LEMMA ExitShape ==
    ASSUME Shape, NEW p \in Procs, Quits(p), UNCHANGED company
    PROVE  Shape'
<1> USE DEF Shape
<1>1. PICK how \in {"complete", "failed", "interrupted"} : Exit(p, how)
  BY DEF Quits
<1>2. chain' = chain /\ dir' = dir /\ written' = written
  BY DEF Quits
<1>3. Types'
  <2>1. "idle" \in Labels
    BY DEF Labels
  <2> QED BY <1>1, <1>2, <2>1, BoundAssumption DEF Types, Exit, Goto, Release
<1>4. ASSUME NEW q \in Procs, q # p PROVE Own(q)'
  <2>1. Undisturbed(q)
    BY <1>1, <1>2, <1>4, ChainsAre, ProcsAssumption DEF Types, Undisturbed, Same, Exit, Goto, Release
  <2> QED BY <2>1, OthersKeep
<1>5. Own(p)'
  <2>1. /\ pc'[p] = "idle" /\ mode'[p] = "none" /\ from'[p] = <<>> /\ ahead'[p] = <<>>
    BY <1>1 DEF Types, Exit, Goto
  <2>2. MaxAhead \in Nat
    BY BoundAssumption
  <2> QED BY <2>1, <2>2 DEF Own, Informed, Walking
<1> QED BY <1>2, <1>3, <1>4, <1>5

\* A step of p is checked by what it does to p, and that it spares the others.
LEMMA StepOf ==
    ASSUME Shape, NEW p \in Procs, Types', written' # <<>> => dir' = "db", Own(p)',
           \A q \in Procs \ {p} : Undisturbed(q)
    PROVE  Shape'
BY OthersKeep DEF Shape

\* A process that does not walk has nothing ahead.
LEMMA OutsideWalk ==
    ASSUME NEW p \in Procs, pc'[p] # "walk", ahead'[p] = <<>>,
           pc'[p] = "idle" <=> mode'[p] = "none",
           pc'[p] \in {"destroy", "destroying", "leftovers"} => mode'[p] = "force",
           pc'[p] \notin Informed => from'[p] = <<>>,
           pc'[p] = "getblockhash" => tip'[p] \in 1 .. Len(chain'),
           lock' = p /\ pc'[p] \in {"getblockcount", "getblockhash"} => dir' = "db"
    PROVE  Own(p)'
BY BoundAssumption DEF Own, Walking

LEMMA InitShape == Init => Shape
<1> SUFFICES ASSUME Init PROVE Shape
  OBVIOUS
<1> USE DEF Init, Idle
<1>1. Types
  <2>1. <<>> \in Seq(Chains) /\ "idle" \in Labels /\ 0 \in 0 .. MaxBlocks /\ 0 \in 0 .. MaxBlocks + 1
    BY BoundAssumption DEF Labels
  <2> QED BY <2>1 DEF Types
<1>2. ASSUME NEW p \in Procs PROVE Own(p)
  BY <1>2, BoundAssumption DEF Own, Informed, Walking
<1> QED BY <1>1, <1>2 DEF Shape

LEMMA StartShape == ASSUME Shape, NEW p \in Procs, Start(p) PROVE Shape'
<1> USE DEF Shape
<1>1. PICK m \in Modes : /\ mode' = [mode EXCEPT ![p] = m]
                         /\ Goto(p, IF m = "query" THEN "open" ELSE "inspect")
                         /\ company' = Joined({mode[q] : q \in Procs} \ {"none"}, m)
  BY DEF Start
<1>2. /\ pc[p] = "idle" /\ UNCHANGED <<chain, dir, written, lock, from, tip, next, ahead, outcome>>
  BY DEF Start, diskVars, walkVars
<1>3. m # "none"
  BY ChoiceAssumption DEF AllModes
<1>4. company' \in {"none", "peaceful", "forced"}
  BY <1>1 DEF Types, Joined
<1>5. Types'
  BY <1>1, <1>2, <1>4 DEF Types, Goto, Labels
<1>6. \A q \in Procs \ {p} : Undisturbed(q)
  BY <1>1, <1>2, ChainsAre DEF Types, Undisturbed, Same, Goto
<1>7. Own(p)'
  <2>1. ahead[p] = <<>>
    BY <1>1, <1>2, <1>3 DEF Own
  <2> QED BY <1>1, <1>2, <1>3, <2>1, OutsideWalk DEF Types, Own, Informed, Goto
<1> QED BY <1>2, <1>5, <1>6, <1>7, StepOf

LEMMA NodeAdoptsShape == ASSUME Shape, NodeAdopts, UNCHANGED company PROVE Shape'
<1> USE DEF Shape
<1>1. /\ chain' \in Chains /\ Len(chain') > Len(chain)
      /\ UNCHANGED <<dir, written, lock, pc, mode, from, tip, next, ahead, outcome>>
  BY DEF NodeAdopts, diskVars, walkVars
<1>2. Types'
  BY <1>1 DEF Types
<1>3. \A q \in Procs : Undisturbed(q)
  BY <1>1, ChainsAre DEF Types, Undisturbed, Same
<1> QED BY <1>1, <1>2, <1>3, OthersKeep

\* The processes are gone.
Dead ==
    /\ lock' = Nobody
    /\ pc' = [p \in Procs |-> "idle"] /\ mode' = [p \in Procs |-> "none"]
    /\ from' = [p \in Procs |-> <<>>] /\ ahead' = [p \in Procs |-> <<>>]

LEMMA PowerLossShape == ASSUME Shape, PowerLoss, UNCHANGED company PROVE Shape'
<1> USE DEF Shape
<1>1. PICK n \in 0 .. Len(written) : written' = SubSeq(written, 1, n)
  BY DEF PowerLoss
<1>2. /\ Dead /\ outcome' = "failed" /\ chain' = chain /\ dir' = dir
      /\ tip' = [p \in Procs |-> 0] /\ next' = [p \in Procs |-> 0]
  BY DEF PowerLoss, Dead
<1>3. written' \in Seq(Chains) /\ (written = <<>> => written' = <<>>)
  BY <1>1 DEF Types
<1>4. Types'
  <2>1. "idle" \in Labels /\ <<>> \in Seq(Chains)
    BY DEF Labels
  <2> QED BY <1>2, <1>3, <2>1, BoundAssumption DEF Types, Dead
<1>5. ASSUME NEW q \in Procs PROVE Own(q)'
  BY <1>2, BoundAssumption DEF Dead, Own, Informed, Walking
<1> QED BY <1>2, <1>3, <1>4, <1>5

LEMMA InspectOutsideShape ==
    ASSUME Shape, NEW p \in Procs, InspectOutside(p), UNCHANGED company PROVE Shape'
<1> USE DEF Shape, InspectOutside, diskVars, walkVars
<1>1. /\ pc[p] = "inspect" /\ UNCHANGED <<chain, dir, written, lock, mode, from, tip, next, ahead, outcome>>
      /\ \/ mode[p] = "force" /\ pc' = [pc EXCEPT ![p] = "destroy"]
         \/ \E l \in {"open", "exists", "create"} : pc' = [pc EXCEPT ![p] = l]
  BY DEF Decide, Goto
<1>2. Types'
  <2>1. pc' \in [Procs -> Labels]
    BY <1>1 DEF Types, Labels
  <2> QED BY <1>1, <2>1 DEF Types
<1>3. \A q \in Procs \ {p} : Undisturbed(q)
  BY <1>1, ChainsAre DEF Types, Undisturbed, Same
<1>4. Own(p)'
  <2>1. ahead[p] = <<>>
    BY <1>1 DEF Own
  <2>2. /\ ahead'[p] = <<>> /\ from'[p] = <<>>
        /\ pc'[p] \in {"destroy", "open", "exists", "create"}
        /\ mode'[p] # "none" /\ (pc'[p] = "destroy" => mode'[p] = "force")
    BY <1>1, <2>1 DEF Types, Own, Informed
  <2> QED BY <2>2, OutsideWalk DEF Informed
<1> QED BY <1>1, <1>2, <1>3, <1>4, StepOf

LEMMA InspectOpenShape ==
    ASSUME Shape, NEW p \in Procs, InspectOpen(p), UNCHANGED company PROVE Shape'
<1> USE DEF Shape, InspectOpen, Goto
<1>1. Types'
  BY MetaIs DEF Types, Labels
<1>2. \A q \in Procs \ {p} : Undisturbed(q)
  BY ChainsAre DEF Types, Undisturbed, Same
<1>3. Own(p)'
  <2>1. ahead[p] = <<>>
    BY DEF Own
  <2> QED BY <2>1, OutsideWalk DEF Types, Own, Informed
<1> QED BY <1>1, <1>2, <1>3, StepOf

LEMMA InspectMetaShape ==
    ASSUME Shape, NEW p \in Procs, InspectMeta(p), UNCHANGED company PROVE Shape'
<1> USE DEF Shape, InspectMeta, Release
<1>1. /\ pc[p] = "inspect_meta" /\ UNCHANGED <<chain, dir, written, mode, tip, next, ahead, outcome>>
      /\ from' = [from EXCEPT ![p] = <<>>]
      /\ \/ mode[p] = "force" /\ pc' = [pc EXCEPT ![p] = "destroy"]
         \/ \E l \in {"open", "exists"} : pc' = [pc EXCEPT ![p] = l]
  BY DEF Decide, Goto
<1>2. Types'
  <2>1. pc' \in [Procs -> Labels]
    BY <1>1 DEF Types, Labels
  <2>2. from' \in [Procs -> Chains \cup {<<>>}] /\ lock' \in Procs \cup {Nobody}
    BY <1>1 DEF Types
  <2> QED BY <1>1, <2>1, <2>2 DEF Types
<1>3. \A q \in Procs \ {p} : Undisturbed(q)
  BY <1>1, ProcsAssumption, ChainsAre DEF Types, Undisturbed, Same
<1>4. Own(p)'
  <2>1. ahead[p] = <<>>
    BY <1>1 DEF Own
  <2> QED BY <1>1, <2>1, OutsideWalk DEF Types, Own, Informed
<1> QED BY <1>1, <1>2, <1>3, <1>4, StepOf

LEMMA DestroyShape ==
    ASSUME Shape, NEW p \in Procs, Destroy(p), UNCHANGED company PROVE Shape'
<1> USE DEF Shape, Destroy, Goto, walkVars
<1>1. Types'
  BY DEF Types, Labels
<1>2. \A q \in Procs \ {p} : Undisturbed(q)
  BY ProcsAssumption, ChainsAre DEF Types, Undisturbed, Same, Free
<1>3. Own(p)'
  <2>1. ahead[p] = <<>>
    BY DEF Own
  <2> QED BY <2>1, OutsideWalk DEF Types, Own, Informed
<1> QED BY <1>1, <1>2, <1>3, StepOf

LEMMA DestroyEndShape ==
    ASSUME Shape, NEW p \in Procs, DestroyEnd(p), UNCHANGED company PROVE Shape'
<1> USE DEF Shape, DestroyEnd, Goto, walkVars, Release
<1>1. Types'
  BY DEF Types, Labels
<1>2. \A q \in Procs \ {p} : Undisturbed(q)
  BY ProcsAssumption, ChainsAre DEF Types, Undisturbed, Same
<1>3. Own(p)'
  <2>1. ahead[p] = <<>>
    BY DEF Own
  <2> QED BY <2>1, OutsideWalk DEF Types, Own, Informed
<1> QED BY <1>1, <1>2, <1>3, StepOf

LEMMA LeftoversShape ==
    ASSUME Shape, NEW p \in Procs, Leftovers(p), UNCHANGED company PROVE Shape'
<1> USE DEF Shape, Leftovers, Goto, walkVars
<1>1. Types'
  BY DEF Types, Labels
<1>2. \A q \in Procs \ {p} : Undisturbed(q)
  BY ProcsAssumption, ChainsAre DEF Types, Undisturbed, Same
<1>3. Own(p)'
  <2>1. ahead[p] = <<>>
    BY DEF Own
  <2> QED BY <2>1, OutsideWalk DEF Types, Own, Informed
<1> QED BY <1>1, <1>2, <1>3, StepOf

LEMMA OpenReadOnlyShape ==
    ASSUME Shape, NEW p \in Procs, OpenReadOnly(p), UNCHANGED company PROVE Shape'
<1> USE DEF Shape, OpenReadOnly, Goto
<1>1. Types'
  BY MetaIs DEF Types, Labels
<1>2. \A q \in Procs \ {p} : Undisturbed(q)
  BY ChainsAre DEF Types, Undisturbed, Same
<1>3. Own(p)'
  <2>1. ahead[p] = <<>>
    BY DEF Own
  <2> QED BY <2>1, OutsideWalk DEF Types, Own, Informed
<1> QED BY <1>1, <1>2, <1>3, StepOf

LEMMA ReadMetaShape ==
    ASSUME Shape, NEW p \in Procs, ReadMeta(p), UNCHANGED company PROVE Shape'
<1> USE DEF Shape
<1>0. /\ pc[p] = "read" /\ pc' = [pc EXCEPT ![p] = "reopen"]
      /\ lock' = IF lock = p THEN Nobody ELSE lock
      /\ UNCHANGED <<chain, dir, written, mode, from, tip, next, ahead, outcome>>
  BY DEF ReadMeta, Goto, walkVars, Release
<1>1. Types'
  BY <1>0 DEF Types, Labels
<1>2. \A q \in Procs \ {p} : Undisturbed(q)
  BY <1>0, ProcsAssumption, ChainsAre DEF Types, Undisturbed, Same
<1>3. Own(p)'
  <2>1. ahead[p] = <<>>
    BY <1>0 DEF Own
  <2> QED BY <1>0, <2>1, OutsideWalk DEF Types, Own, Informed
<1> QED BY <1>0, <1>1, <1>2, <1>3, StepOf

LEMMA OpenWritableShape ==
    ASSUME Shape, NEW p \in Procs, OpenWritable(p), UNCHANGED company PROVE Shape'
<1> USE DEF Shape, OpenWritable, Goto, walkVars
<1>1. Types'
  BY DEF Types, Labels
<1>2. \A q \in Procs \ {p} : Undisturbed(q)
  BY ChainsAre DEF Types, Undisturbed, Same
<1>3. Own(p)'
  <2>1. ahead[p] = <<>>
    BY DEF Own
  <2> QED BY <2>1, OutsideWalk DEF Types, Own, Informed
<1> QED BY <1>1, <1>2, <1>3, StepOf

LEMMA GetBlockCountShape ==
    ASSUME Shape, NEW p \in Procs, GetBlockCount(p), UNCHANGED company PROVE Shape'
<1> USE DEF Shape, GetBlockCount, Goto, diskVars
<1>1. Len(chain) \in 1 .. MaxBlocks /\ MaxBlocks \in Nat
  BY ChainsAre, BoundAssumption DEF Types
<1>2. Types'
  BY <1>1 DEF Types, Labels
<1>3. \A q \in Procs \ {p} : Undisturbed(q)
  BY <1>1 DEF Types, Undisturbed, Same
<1>4. Own(p)'
  <2>1. ahead[p] = <<>> /\ ahead'[p] = <<>> /\ next'[p] = 1 /\ tip'[p] = Len(chain)
    BY DEF Types, Own
  <2> QED BY <1>1, <2>1, BoundAssumption DEF Types, Own, Informed, Walking, Below
<1> QED BY <1>2, <1>3, <1>4, StepOf

LEMMA ResumeAfterTipShape ==
    ASSUME Shape, NEW p \in Procs, ResumeAfterTip(p), UNCHANGED company PROVE Shape'
<1> USE DEF Shape, ResumeAfterTip, Continue, Goto, diskVars
<1>1. Len(chain) \in 1 .. MaxBlocks /\ MaxBlocks \in Nat
  BY ChainsAre, BoundAssumption DEF Types
<1>2. Len(from[p]) \in Nat /\ Len(from[p]) <= tip[p] /\ tip[p] \in 1 .. Len(chain)
  BY ChainsAre DEF Types, OnChain, Own
<1>3. Types'
  BY <1>1, <1>2, SMTT(60) DEF Types, Labels
<1>4. \A q \in Procs \ {p} : Undisturbed(q)
  BY <1>1 DEF Types, Undisturbed, Same
<1>5. Own(p)'
  <2>1. ahead[p] = <<>> /\ ahead'[p] = <<>> /\ next'[p] = Len(from[p]) + 1 /\ tip'[p] = tip[p]
    BY DEF Types, Own
  <2> QED BY <1>1, <1>2, <2>1, BoundAssumption DEF Types, Own, Informed, Walking, Below
<1> QED BY <1>3, <1>4, <1>5, StepOf

LEMMA FetchShape ==
    ASSUME Shape, NEW p \in Procs, Fetch(p), UNCHANGED company PROVE Shape'
<1> USE DEF Shape, Fetch, FetchInto, diskVars
<1> DEFINE b == BlockAt(next[p])
<1>1. Len(chain) \in 1 .. MaxBlocks /\ MaxBlocks \in Nat
  BY ChainsAre, BoundAssumption DEF Types
<1>2. /\ pc[p] = "walk" /\ next[p] <= tip[p] /\ tip[p] \in 1 .. Len(chain)
      /\ ahead[p] \in Seq(Chains) /\ Len(ahead[p]) < MaxAhead /\ next[p] \in 0 .. MaxBlocks + 1
      /\ Below(p) >= 0
  BY DEF Types, Own
<1>3. next[p] \in 1 .. Len(chain) /\ next[p] + 1 \in 0 .. MaxBlocks + 1
  BY <1>1, <1>2 DEF Below
<1>4. b \in Chains /\ Len(b) = next[p]
  BY <1>3, BlocksAre DEF Types, BlockAt
<1> HIDE DEF b
<1>5. /\ ahead' = [ahead EXCEPT ![p] = Append(@, b)] /\ next' = [next EXCEPT ![p] = @ + 1]
      /\ UNCHANGED <<chain, dir, written, lock, pc, mode, from, tip, outcome>>
  BY DEF b
<1>6. ahead'[p] = Append(ahead[p], b) /\ next'[p] = next[p] + 1
  BY <1>5 DEF Types
<1>7. /\ ahead'[p] \in Seq(Chains) /\ Len(ahead'[p]) = Len(ahead[p]) + 1
      /\ \A i \in 1 .. Len(ahead[p]) : ahead'[p][i] = ahead[p][i]
      /\ ahead'[p][Len(ahead[p]) + 1] = b
  BY <1>2, <1>4, <1>6, AppendProperties
<1>8. Types'
  BY <1>3, <1>5, <1>7 DEF Types
<1>9. \A q \in Procs \ {p} : Undisturbed(q)
  BY <1>1, <1>5 DEF Types, Undisturbed, Same
<1>10. Own(p)'
  <2>1. Below(p)' = Below(p) /\ Len(b) = Below(p) + Len(ahead[p]) + 1
    <3>1. Below(p)' = (next[p] + 1) - (Len(ahead[p]) + 1) - 1
      BY <1>6, <1>7 DEF Below
    <3>2. next[p] \in Nat /\ Len(ahead[p]) \in Nat
      BY <1>2, BoundAssumption
    <3> QED BY <3>1, <3>2, <1>4, OneFurther DEF Below
  <2>2. \A i \in 1 .. Len(ahead'[p]) : Len(ahead'[p][i]) = Below(p)' + i
    <3>1. \A i \in 1 .. Len(ahead[p]) : Len(ahead[p][i]) = Below(p) + i
      BY DEF Own
    <3>2. Below(p) \in Int /\ Len(ahead[p]) \in Nat
      BY <1>2 DEF Below
    <3> QED BY <1>7, <2>1, <3>1, <3>2
  <2>3. Len(ahead'[p]) <= MaxAhead
    <3>1. Len(ahead[p]) \in Nat /\ Len(ahead[p]) < MaxAhead /\ MaxAhead \in Nat
      BY <1>2, BoundAssumption
    <3> QED BY <3>1, <1>7
  <2>4. next'[p] <= tip[p] + 1 /\ Below(p)' >= 0
    <3>1. next[p] \in Nat /\ tip[p] \in Nat
      BY <1>1, <1>2, BoundAssumption
    <3> QED BY <3>1, <1>2, <1>6, <2>1
  <2>5. pc'[p] = "walk" /\ mode'[p] # "none" /\ UNCHANGED <<chain, dir, lock, from, tip>>
    BY <1>2, <1>5 DEF Own
  <2>6. tip'[p] \in 1 .. Len(chain') /\ (lock' = p => dir' = "db")
    BY <1>2, <1>5 DEF Own, Walking
  <2> QED BY <2>2, <2>3, <2>4, <2>5, <2>6 DEF Own, Informed
<1> QED BY <1>5, <1>8, <1>9, <1>10, StepOf

LEMMA ApplyShape ==
    ASSUME Shape, NEW p \in Procs, Apply(p), UNCHANGED company PROVE Shape'
<1> USE DEF Shape, Apply
<1>1. /\ ahead[p] \in Seq(Chains) /\ ahead[p] # <<>> /\ pc[p] = "walk"
      /\ next[p] \in Nat /\ ahead'[p] = Tail(ahead[p])
      /\ UNCHANGED <<chain, dir, lock, pc, mode, from, tip, next, outcome>>
  BY BoundAssumption DEF Types
<1>2. /\ Head(ahead[p]) \in Chains /\ ahead'[p] \in Seq(Chains) /\ Len(ahead'[p]) = Len(ahead[p]) - 1
      /\ \A i \in 1 .. Len(ahead'[p]) : ahead'[p][i] = ahead[p][i + 1]
      /\ Len(ahead[p]) \in Nat /\ Len(ahead[p]) > 0
  <2> DEFINE a == ahead[p]
  <2>1. a \in Seq(Chains) /\ a # <<>> /\ ahead'[p] = Tail(a)
    BY <1>1
  <2> HIDE DEF a
  <2>2. Len(a) \in Nat /\ Len(a) > 0
    BY <2>1, EmptySeq
  <2>3. /\ Head(a) \in Chains /\ Tail(a) \in Seq(Chains) /\ Len(Tail(a)) = Len(a) - 1
        /\ \A i \in 1 .. Len(Tail(a)) : Tail(a)[i] = a[i + 1]
    BY <2>1, HeadTailProperties
  <2>4. /\ Head(a) \in Chains /\ ahead'[p] \in Seq(Chains) /\ Len(ahead'[p]) = Len(a) - 1
        /\ \A i \in 1 .. Len(ahead'[p]) : ahead'[p][i] = a[i + 1]
    BY <2>1, <2>3
  <2> QED BY <2>2, <2>4 DEF a
<1>3. written' \in Seq(Chains) /\ (lock # p => written' = written)
  BY <1>2 DEF Types
<1>4. Types'
  BY <1>1, <1>2, <1>3 DEF Types
<1>5. \A q \in Procs \ {p} : Undisturbed(q)
  BY <1>1, ChainsAre DEF Types, Undisturbed, Same
<1>6. Own(p)'
  <2>1. Below(p)' = Below(p) + 1
    BY <1>1, <1>2 DEF Below
  <2>2. \A i \in 1 .. Len(ahead'[p]) : Len(ahead'[p][i]) = Below(p)' + i
    <3>1. \A i \in 1 .. Len(ahead[p]) : Len(ahead[p][i]) = Below(p) + i
      BY DEF Own
    <3>2. Below(p) \in Int
      BY <1>1, <1>2 DEF Below
    <3>3. \A i \in 1 .. Len(ahead'[p]) : i + 1 \in 1 .. Len(ahead[p])
      BY <1>2
    <3> QED BY <1>2, <2>1, <3>1, <3>2, <3>3
  <2>3. Len(ahead'[p]) <= MaxAhead /\ Below(p)' >= 0
    <3>1. /\ Len(ahead[p]) \in Nat /\ Len(ahead[p]) <= MaxAhead /\ Below(p) >= 0
          /\ MaxAhead \in Nat /\ next[p] \in Nat /\ Len(ahead'[p]) = Len(ahead[p]) - 1
      BY <1>1, <1>2, BoundAssumption DEF Own
    <3>2. Below(p) \in Int
      BY <3>1 DEF Below
    <3> QED BY <3>1, <3>2, <2>1
  <2> QED BY <1>1, <2>2, <2>3 DEF Own, Walking
<1>7. written' # <<>> => dir' = "db"
  BY <1>1, <1>3 DEF Own, Walking
<1> QED BY <1>4, <1>5, <1>6, <1>7, StepOf

\* The steps of a process are ends or one of those above.
LEMMA ProcessSteps ==
    ASSUME NEW p \in Procs, Process(p)
    PROVE  \/ Quits(p)
           \/ InspectOutside(p) \/ InspectOpen(p) \/ InspectMeta(p)
           \/ Destroy(p) \/ DestroyEnd(p) \/ Leftovers(p)
           \/ OpenReadOnly(p) \/ ReadMeta(p) \/ OpenWritable(p)
           \/ GetBlockCount(p) \/ ResumeAfterTip(p) \/ Fetch(p) \/ Apply(p)
<1>1. ASSUME \/ RefuseJunk(p) \/ DestroyBusy(p) \/ OpenFails(p) \/ Answer(p) \/ ReadMetaFails(p)
             \/ ReorgDetected(p) \/ Complete(p) \/ Interrupted(p) \/ RpcFails(p) \/ Crash(p)
      PROVE  Quits(p)
  BY <1>1 DEF Quits, RefuseJunk, DestroyBusy, OpenFails, Answer, ReadMetaFails, ReorgDetected,
              Complete, Interrupted, RpcFails, Crash
<1> QED BY <1>1 DEF Process, Inspect, DestroyIndex, Open, Use, Walk

LEMMA StepShape == Shape /\ [Next]_vars => Shape'
<1> SUFFICES ASSUME Shape, [Next]_vars PROVE Shape'
  OBVIOUS
<1>1. CASE UNCHANGED vars
  BY <1>1 DEF vars, diskVars, walkVars, Shape, Types, Own, Below, Walking
<1>2. ASSUME NEW p \in Procs, Process(p), UNCHANGED company PROVE Shape'
  BY <1>2, ProcessSteps, ExitShape, InspectOutsideShape, InspectOpenShape, InspectMetaShape,
     DestroyShape, DestroyEndShape, LeftoversShape, OpenReadOnlyShape, ReadMetaShape,
     OpenWritableShape, GetBlockCountShape, ResumeAfterTipShape, FetchShape, ApplyShape
<1> QED BY <1>1, <1>2, StartShape, NodeAdoptsShape, PowerLossShape DEF Next

LEMMA ShapeHolds == Spec => []Shape
BY InitShape, StepShape, PTL DEF Spec

\* A step of p leaves what belongs to the others.
LEMMA OthersSame ==
    ASSUME Types, NEW p \in Procs, Process(p), NEW q \in Procs, q # p
    PROVE  Same(q)
<1> USE DEF Types, Same, Goto, diskVars, walkVars
<1>1. CASE Quits(p)
  BY <1>1 DEF Quits, Exit
<1>2. CASE InspectOutside(p) \/ InspectOpen(p) \/ InspectMeta(p)
  BY <1>2 DEF InspectOutside, InspectOpen, InspectMeta, Decide
<1>3. CASE Destroy(p) \/ DestroyEnd(p) \/ Leftovers(p)
  BY <1>3 DEF Destroy, DestroyEnd, Leftovers
<1>4. CASE OpenReadOnly(p) \/ ReadMeta(p) \/ OpenWritable(p)
  BY <1>4 DEF OpenReadOnly, ReadMeta, OpenWritable
<1>5. CASE GetBlockCount(p) \/ ResumeAfterTip(p)
  BY <1>5 DEF GetBlockCount, ResumeAfterTip, Continue
<1>6. CASE Fetch(p) \/ Apply(p)
  BY <1>6 DEF Fetch, FetchInto, Apply
<1> QED BY <1>1, <1>2, <1>3, <1>4, <1>5, <1>6, ProcessSteps
-----------------------------------------------------------------------------
(***************************************************************************)
(* HeightsKept.                                                            *)
(***************************************************************************)

\* What is indexed stays so when a block is added.
LEMMA HasAppend ==
    ASSUME NEW w \in Seq(Chains), NEW b \in Chains
    PROVE  /\ \A n : Has(w, n) => Has(Append(w, b), n)
           /\ Has(Append(w, b), Len(b))
<1>1. /\ Len(w) \in Nat /\ Len(Append(w, b)) = Len(w) + 1
      /\ \A i \in 1 .. Len(w) : Append(w, b)[i] = w[i] /\ Append(w, b)[Len(w) + 1] = b
      /\ Append(w, b)[Len(w) + 1] = b
  BY AppendProperties
<1> QED BY <1>1 DEF Has

\* A block may be added when all the heights below it are there.
LEMMA DownwardAppend ==
    ASSUME NEW w \in Seq(Chains), NEW b \in Chains, Downward(w),
           \A n \in 1 .. Len(b) - 1 : Has(w, n)
    PROVE  Downward(Append(w, b))
<1> DEFINE v == Append(w, b)
<1>1. /\ Len(w) \in Nat /\ Len(v) = Len(w) + 1 /\ v[Len(w) + 1] = b
      /\ \A i \in 1 .. Len(w) : v[i] = w[i]
  BY AppendProperties
<1>2. Len(b) \in Nat
  BY ChainsAre
<1> HIDE DEF v
<1>3. ASSUME NEW i \in 1 .. Len(v), NEW len \in 1 .. Len(v[i])
      PROVE  \E j \in 1 .. i : Len(v[j]) = len
  <2>1. CASE i \in 1 .. Len(w)
    <3>1. PICK j \in 1 .. i : Len(w[j]) = len
      BY <1>1, <1>3, <2>1 DEF Downward
    <3>2. j \in 1 .. Len(w)
      BY <1>1, <2>1, <3>1
    <3> QED BY <1>1, <3>1, <3>2
  <2>2. CASE i = Len(w) + 1
    <3>1. CASE len = Len(b)
      BY <1>1, <2>2, <3>1
    <3>2. CASE len # Len(b)
      <4>1. len \in 1 .. Len(b) - 1
        BY <1>1, <1>2, <1>3, <2>2, <3>2
      <4>2. PICK j \in 1 .. Len(w) : Len(w[j]) = len
        BY <4>1 DEF Has
      <4> QED BY <1>1, <2>2, <4>2
    <3> QED BY <3>1, <3>2
  <2> QED BY <1>1, <2>1, <2>2
<1> QED BY <1>3 DEF Downward, v

\* Every height up to the one that the metadata names is indexed.
LEMMA MetaHas ==
    ASSUME written \in Seq(Chains), Downward(written)
    PROVE  \A n \in 1 .. Len(Meta) : Has(written, n)
<1>1. CASE written = <<>>
  BY <1>1 DEF Meta
<1>2. CASE written # <<>>
  <2>1. Len(written) \in 1 .. Len(written) /\ Meta = written[Len(written)]
    BY <1>2 DEF Meta, Last
  <2> QED BY <2>1 DEF Downward, Has
<1> QED BY <1>1, <1>2

\* The block that is applied next is one level above those below it.
LEMMA FirstAhead ==
    ASSUME Shape, NEW p \in Procs, ahead[p] # <<>>, ahead'[p] = Tail(ahead[p]), UNCHANGED next
    PROVE  /\ Head(ahead[p]) \in Chains /\ Len(Head(ahead[p])) = Below(p) + 1
           /\ Below(p) \in Int /\ Below(p)' = Below(p) + 1
           /\ Len(ahead'[p]) = Len(ahead[p]) - 1 /\ Len(ahead[p]) \in Nat \ {0}
           /\ \A i \in 1 .. Len(ahead'[p]) : ahead'[p][i] = ahead[p][i + 1]
           /\ Head(ahead[p]) = ahead[p][1]
<1> USE DEF Shape
<1> DEFINE a == ahead[p]
           t == ahead'[p]
<1>1. a \in Seq(Chains) /\ a # <<>> /\ t = Tail(a) /\ next[p] \in Nat /\ next'[p] = next[p]
  BY BoundAssumption DEF Types
<1>2. \A i \in 1 .. Len(a) : Len(a[i]) = Below(p) + i
  BY DEF Own
<1>3. Below(p) = next[p] - Len(a) - 1 /\ Below(p)' = next[p] - Len(t) - 1
  BY <1>1 DEF Below
<1> HIDE DEF a, t
<1>4. /\ Len(a) \in Nat \ {0} /\ Head(a) = a[1] /\ Head(a) \in Chains /\ Len(t) = Len(a) - 1
      /\ \A i \in 1 .. Len(t) : t[i] = a[i + 1]
  BY <1>1, EmptySeq, HeadTailProperties
<1>5. Below(p) \in Int /\ Below(p)' = Below(p) + 1 /\ Len(Head(a)) = Below(p) + 1
  BY <1>1, <1>2, <1>3, <1>4
<1> QED BY <1>4, <1>5 DEF a, t

LEMMA InitHeights == Init => HeightsKept
BY DEF Init, Idle, HeightsKept, Holding, Downward

\* A step of p that leaves the blocks alone.
LEMMA HeightsFrom ==
    ASSUME Shape, HeightsKept, NEW p \in Procs, Process(p), UNCHANGED <<company, written>>,
           mode'[p] \in {mode[p], "none"},
           company # "forced" =>
               /\ pc'[p] \in Holding => lock' = p
               /\ \A q \in Procs \ {p} : lock = q => lock' = q
               /\ \A n \in 1 .. Len(from'[p]) : Has(written, n)
               /\ pc'[p] = "walk" => \A n \in 1 .. Below(p)' : Has(written, n)
    PROVE  HeightsKept'
<1> SUFFICES ASSUME company # "forced"
             PROVE  /\ \A q \in Procs : pc'[q] \in Holding => lock' = q
                    /\ \A q, r \in Procs : mode'[q] = "force" /\ mode'[r] # "none" => q = r
                    /\ Downward(written)
                    /\ \A q \in Procs : \A n \in 1 .. Len(from'[q]) : Has(written, n)
                    /\ \A q \in Procs : pc'[q] = "walk" => \A n \in 1 .. Below(q)' : Has(written, n)
  BY DEF HeightsKept
<1>1. \A q \in Procs : q # p => Same(q) /\ Below(q)' = Below(q)
  BY OthersSame DEF Shape, Same, Below
<1>2. \A q \in Procs : mode'[q] \in {mode[q], "none"}
  BY <1>1 DEF Same
<1> QED BY <1>1, <1>2 DEF HeightsKept, Same

LEMMA StepHeights == Shape /\ Shape' /\ HeightsKept /\ [Next]_vars => HeightsKept'
<1> SUFFICES ASSUME Shape, Shape', HeightsKept, [Next]_vars PROVE HeightsKept'
  OBVIOUS
<1> USE DEF Shape
<1>1. CASE UNCHANGED vars
  BY <1>1 DEF vars, diskVars, walkVars, HeightsKept, Below
<1>2. ASSUME NEW p \in Procs, Start(p) PROVE HeightsKept'
  <2> SUFFICES ASSUME company' # "forced" PROVE HeightsKept'
    BY DEF HeightsKept
  <2>1. PICK m \in Modes : /\ mode' = [mode EXCEPT ![p] = m]
                           /\ Goto(p, IF m = "query" THEN "open" ELSE "inspect")
                           /\ company' = Joined({mode[q] : q \in Procs} \ {"none"}, m)
    BY <1>2 DEF Start
  <2>2. /\ pc[p] = "idle" /\ UNCHANGED <<written, lock, from, next, ahead>>
    BY <1>2 DEF Start, diskVars, walkVars
  <2>3. company # "forced"
    BY <2>1 DEF Joined, Types
  <2>4. \/ m # "force" /\ (\A q \in Procs : mode[q] # "force")
        \/ \A q \in Procs : mode[q] = "none"
    <3>1. CASE {mode[q] : q \in Procs} \ {"none"} = {}
      BY <3>1
    <3>2. CASE {mode[q] : q \in Procs} \ {"none"} # {}
      <4>1. "force" \notin ({mode[q] : q \in Procs} \ {"none"}) \cup {m}
        BY <2>1, <3>2 DEF Joined
      <4> QED BY <4>1
    <3> QED BY <3>1, <3>2
  <2>5. \A q, r \in Procs : mode'[q] = "force" /\ mode'[r] # "none" => q = r
    BY <2>1, <2>4 DEF Types
  <2>6. \A q \in Procs : pc'[q] \in Holding => pc'[q] = pc[q]
    BY <2>1 DEF Goto, Types, Holding
  <2>7. \A q \in Procs : Below(q)' = Below(q)
    BY <2>2 DEF Below
  <2>8. \A q \in Procs : pc'[q] = "walk" => pc[q] = "walk"
    BY <2>6 DEF Holding
  <2> QED BY <2>2, <2>3, <2>5, <2>6, <2>7, <2>8 DEF HeightsKept
<1>3. ASSUME NodeAdopts, UNCHANGED company PROVE HeightsKept'
  BY <1>3 DEF NodeAdopts, diskVars, walkVars, HeightsKept, Below
<1>4. ASSUME PowerLoss, UNCHANGED company PROVE HeightsKept'
  <2> SUFFICES ASSUME company # "forced" PROVE HeightsKept'
    BY <1>4 DEF HeightsKept
  <2>1. PICK n \in 0 .. Len(written) : written' = SubSeq(written, 1, n)
    BY <1>4 DEF PowerLoss
  <2>2. Dead
    BY <1>4 DEF PowerLoss, Dead
  <2>3. Downward(written')
    <3>1. Len(written') = n /\ \A i \in 1 .. n : written'[i] = written[i]
      BY <2>1 DEF Types
    <3>2. n \in Nat /\ n <= Len(written) /\ Len(written) \in Nat
      BY DEF Types
    <3>3. Downward(written)
      BY DEF HeightsKept
    <3> QED BY <3>1, <3>2, <3>3 DEF Downward
  <2> QED BY <2>2, <2>3 DEF HeightsKept, Dead, Holding
<1>5. ASSUME NEW p \in Procs, Process(p), UNCHANGED company PROVE HeightsKept'
  <2> SUFFICES ASSUME company # "forced" PROVE HeightsKept'
    BY <1>5 DEF HeightsKept
  <2>1. \A q \in Procs : pc[q] \in Holding => lock = q
    BY DEF HeightsKept
  <2>2. Downward(written) /\ \A n \in 1 .. Len(Meta) : Has(written, n)
    BY MetaHas DEF HeightsKept, Types
  <2>3. \A n \in 1 .. Len(from[p]) : Has(written, n)
    BY DEF HeightsKept
  <2>4. pc[p] = "walk" => \A n \in 1 .. Below(p) : Has(written, n)
    BY DEF HeightsKept
  <2>5. pc' \in [Procs -> Labels] /\ mode' \in [Procs -> Modes \cup {"none"}]
    BY DEF Types
  <2>6. CASE Quits(p)
    <3>1. /\ pc'[p] = "idle" /\ mode'[p] = "none" /\ from'[p] = <<>> /\ written' = written
          /\ \A q \in Procs \ {p} : lock = q => lock' = q
      BY <2>6 DEF Quits, Exit, Goto, Release, Types
    <3> QED BY <1>5, <3>1, HeightsFrom DEF Holding
  <2>7. CASE InspectOutside(p)
    <3>1. /\ pc'[p] \in {"destroy", "open", "exists", "create"} /\ mode'[p] = mode[p]
          /\ UNCHANGED <<written, lock, from>>
      BY <2>7 DEF InspectOutside, Decide, Goto, diskVars, walkVars, Types
    <3> QED BY <1>5, <2>3, <3>1, HeightsFrom DEF Holding
  <2>8. CASE InspectOpen(p) \/ OpenReadOnly(p)
    <3>1. /\ pc'[p] \in {"inspect_meta", "read", "answer"} /\ mode'[p] = mode[p]
          /\ written' = written /\ lock' = p /\ lock = Nobody /\ from'[p] = Meta
      BY <2>8 DEF InspectOpen, OpenReadOnly, Goto, Types, Free
    <3> QED BY <1>5, <2>2, <3>1, HeightsFrom, ProcsAssumption DEF Holding
  <2>9. CASE InspectMeta(p)
    <3>1. /\ pc'[p] \in {"destroy", "open", "exists"} /\ mode'[p] = mode[p]
          /\ written' = written /\ from'[p] = <<>>
          /\ \A q \in Procs \ {p} : lock = q => lock' = q
      BY <2>9 DEF InspectMeta, Decide, Goto, Release, Types
    <3> QED BY <1>5, <3>1, HeightsFrom DEF Holding
  <2>10. CASE DestroyEnd(p) \/ ReadMeta(p)
    <3>1. /\ pc'[p] \in {"leftovers", "reopen"} /\ mode'[p] = mode[p]
          /\ UNCHANGED <<written, from>>
          /\ \A q \in Procs \ {p} : lock = q => lock' = q
      BY <2>10 DEF DestroyEnd, ReadMeta, Goto, Release, walkVars, Types
    <3> QED BY <1>5, <2>3, <3>1, HeightsFrom DEF Holding
  <2>11. CASE OpenWritable(p)
    <3>1. /\ pc'[p] = "getblockcount" /\ mode'[p] = mode[p]
          /\ UNCHANGED <<written, from>> /\ lock = Nobody /\ lock' = p
      BY <2>11 DEF OpenWritable, Goto, walkVars, Types, Free
    <3> QED BY <1>5, <2>3, <3>1, HeightsFrom, ProcsAssumption DEF Holding
  <2>12. CASE GetBlockCount(p)
    <3>1. /\ pc[p] = "getblockcount" /\ mode'[p] = mode[p] /\ UNCHANGED <<written, from, lock>>
          /\ next'[p] = 1 /\ ahead'[p] = <<>>
      BY <2>12 DEF GetBlockCount, diskVars, Types, Own
    <3>2. Below(p)' = 0
      <4>1. Len(ahead'[p]) = 0 /\ next'[p] = 1
        BY <3>1
      <4> QED BY <4>1 DEF Below
    <3>3. lock' = p /\ \A n \in 1 .. Below(p)' : Has(written, n)
      BY <2>1, <3>1, <3>2 DEF Holding
    <3> QED BY <1>5, <2>3, <3>1, <3>3, HeightsFrom
  <2>13. CASE ResumeAfterTip(p)
    <3>1. /\ pc[p] = "getblockhash" /\ mode'[p] = mode[p] /\ UNCHANGED <<written, from, lock>>
          /\ next'[p] = Len(from[p]) + 1 /\ ahead'[p] = <<>>
      BY <2>13 DEF ResumeAfterTip, Continue, diskVars, Types, Own
    <3>2. Below(p)' = Len(from[p])
      BY <3>1, ChainsAre DEF Below, Types
    <3>3. lock' = p
      BY <2>1, <3>1 DEF Holding
    <3> QED BY <1>5, <2>3, <3>1, <3>2, <3>3, HeightsFrom
  <2>14. CASE Fetch(p)
    <3>1. /\ pc[p] = "walk" /\ mode'[p] = mode[p] /\ UNCHANGED <<written, from, lock>>
          /\ next'[p] = next[p] + 1 /\ Len(ahead'[p]) = Len(ahead[p]) + 1
      BY <2>14 DEF Fetch, FetchInto, diskVars, Types
    <3>2. Below(p)' = Below(p)
      <4>1. next[p] \in Int /\ Len(ahead[p]) \in Int
        BY DEF Types
      <4> QED BY <3>1, <4>1 DEF Below
    <3>3. lock' = p
      BY <2>1, <3>1 DEF Holding
    <3> QED BY <1>5, <2>3, <2>4, <3>1, <3>2, <3>3, HeightsFrom
  <2>15. CASE Destroy(p) \/ Leftovers(p)
    <3>1. mode[p] = "force" /\ from[p] = <<>>
      BY <2>15 DEF Own, Destroy, Leftovers, Informed
    <3>2. \A q \in Procs : q # p => mode[q] = "none" /\ pc[q] = "idle" /\ from[q] = <<>>
      BY <3>1 DEF HeightsKept, Own, Informed
    <3>3. \A q \in Procs : q # p => mode'[q] = "none" /\ pc'[q] = "idle" /\ from'[q] = <<>>
      BY <1>5, <3>2, OthersSame DEF Same
    <3>4. /\ pc'[p] \in {"destroying", "create"} /\ (pc'[p] = "destroying" => lock' = p)
          /\ written' = <<>> /\ from'[p] = <<>>
      BY <2>15, <3>1 DEF Destroy, Leftovers, Goto, walkVars, Types
    <3>5. \A q \in Procs : from'[q] = <<>> /\ pc'[q] # "walk"
      BY <3>3, <3>4
    <3>6. \A q \in Procs : pc'[q] \in Holding => lock' = q
      BY <3>3, <3>4 DEF Holding
    <3> QED BY <3>3, <3>4, <3>5, <3>6 DEF HeightsKept, Downward
  <2>16. CASE Apply(p)
    <3> DEFINE b == Head(ahead[p])
    <3>1. /\ pc[p] = "walk" /\ ahead[p] \in Seq(Chains) /\ ahead[p] # <<>>
          /\ UNCHANGED <<lock, pc, mode, from, next>> /\ ahead'[p] = Tail(ahead[p])
      BY <2>16 DEF Apply, Types
    <3>2. lock = p
      BY <2>1, <3>1 DEF Holding
    <3>3. written' = Append(written, b)
      BY <2>16, <3>2 DEF Apply
    <3>4. b \in Chains /\ Len(b) = Below(p) + 1 /\ Below(p)' = Below(p) + 1
      BY <3>1, FirstAhead
    <3>5. Below(p) \in Nat
      <4>1. Below(p) \in Int
        BY <3>1, FirstAhead
      <4>2. Below(p) >= 0
        BY <3>1 DEF Own
      <4> QED BY <4>1, <4>2
    <3> HIDE DEF b
    <3>6. \A n \in 1 .. Len(b) - 1 : Has(written, n)
      BY <2>4, <3>1, <3>4, <3>5
    <3>7. /\ \A n : Has(written, n) => Has(written', n)
          /\ Has(written', Len(b)) /\ Downward(written')
      BY <2>2, <3>3, <3>4, <3>6, HasAppend, DownwardAppend DEF Types
    <3>8. \A n \in 1 .. Below(p)' : Has(written', n)
      BY <2>4, <3>1, <3>4, <3>5, <3>7
    <3>9. \A q \in Procs : q # p => Below(q)' = Below(q) /\ pc[q] # "walk"
      BY <2>1, <3>2, <1>5, OthersSame DEF Same, Below, Holding
    <3> QED BY <3>1, <3>7, <3>8, <3>9 DEF HeightsKept
  <2> QED BY <1>5, ProcessSteps, <2>6, <2>7, <2>8, <2>9, <2>10, <2>11, <2>12, <2>13, <2>14,
             <2>15, <2>16
<1> QED BY <1>1, <1>2, <1>3, <1>4, <1>5 DEF Next
-----------------------------------------------------------------------------
(***************************************************************************)
(* Alone.                                                                  *)
(***************************************************************************)

LEMMA InitAlone == Init => Alone
BY DEF Init, Idle, Alone, Informed

\* The only process takes a step: the others stay where they are.
LEMMA OthersIdle ==
    ASSUME Shape, Alone, NEW p \in Procs, Process(p), company = "none"
    PROVE  \A q \in Procs : q # p => mode'[q] = "none" /\ pc'[q] = "idle"
<1>1. mode[p] # "none"
  <2>1. pc[p] # "idle"
    BY DEF Process, Inspect, InspectOutside, InspectOpen, InspectMeta, RefuseJunk,
       DestroyIndex, DestroyBusy, Destroy, DestroyEnd, Leftovers, Open, OpenFails, OpenReadOnly,
       OpenWritable, Use, Answer, ReadMeta, ReadMetaFails, Walk, GetBlockCount, ReorgDetected,
       ResumeAfterTip, Fetch, FetchInto, Apply, Complete, Interrupted, RpcFails, Walking, Crash
  <2> QED BY <2>1 DEF Shape, Own
<1>2. \A q \in Procs : q # p => mode[q] = "none" /\ pc[q] = "idle"
  BY <1>1 DEF Alone, Shape, Own
<1> QED BY <1>2, OthersSame DEF Same, Shape

\* What a step of p has to keep while it is the only process.
LEMMA AloneFrom ==
    ASSUME Shape, Alone, NEW p \in Procs, Process(p), UNCHANGED company,
           mode'[p] \in {mode[p], "none"},
           company = "none" =>
               /\ \A i \in 1 .. Len(written') : Len(written'[i]) = i
               /\ pc'[p] \in Informed \ {"walk"} => from'[p] = Meta'
               /\ pc'[p] = "create" => written' = <<>>
               /\ pc'[p] = "walk" => Below(p)' = Len(written')
    PROVE  Alone'
<1> SUFFICES ASSUME company = "none"
             PROVE  /\ \A q, r \in Procs : mode'[q] # "none" /\ mode'[r] # "none" => q = r
                    /\ \A q \in Procs : q # p => pc'[q] = "idle"
  BY DEF Alone, Informed
<1> QED BY OthersIdle

LEMMA StepAlone ==
    Shape /\ Shape' /\ HeightsKept /\ Alone /\ [Next]_vars => Alone'
<1> SUFFICES ASSUME Shape, Shape', HeightsKept, Alone, [Next]_vars PROVE Alone'
  OBVIOUS
<1> USE DEF Shape
<1>1. CASE UNCHANGED vars
  BY <1>1 DEF vars, diskVars, walkVars, Alone, Below, Meta
<1>2. ASSUME NEW p \in Procs, Start(p) PROVE Alone'
  <2> SUFFICES ASSUME company' = "none" PROVE Alone'
    BY DEF Alone
  <2>1. PICK m \in Modes : /\ mode' = [mode EXCEPT ![p] = m]
                           /\ Goto(p, IF m = "query" THEN "open" ELSE "inspect")
                           /\ company' = Joined({mode[q] : q \in Procs} \ {"none"}, m)
    BY <1>2 DEF Start
  <2>2. /\ pc[p] = "idle" /\ UNCHANGED <<written, lock, from, next, ahead>>
    BY <1>2 DEF Start, diskVars, walkVars
  <2>3. company = "none" /\ {mode[q] : q \in Procs} \ {"none"} = {}
    BY <2>1 DEF Joined
  <2>4. \A q \in Procs : mode[q] = "none"
    BY <2>3
  <2>5. \A q \in Procs : q # p => mode'[q] = "none" /\ pc'[q] = "idle"
    BY <2>1, <2>4 DEF Goto, Types, Own
  <2>6. pc'[p] \in {"open", "inspect"}
    BY <2>1 DEF Goto, Types
  <2> QED BY <2>2, <2>3, <2>5, <2>6 DEF Alone, Informed
<1>3. ASSUME NodeAdopts, UNCHANGED company PROVE Alone'
  BY <1>3 DEF NodeAdopts, diskVars, walkVars, Alone, Below, Meta
<1>4. ASSUME PowerLoss, UNCHANGED company PROVE Alone'
  <2> SUFFICES ASSUME company = "none" PROVE Alone'
    BY <1>4 DEF Alone
  <2>1. PICK n \in 0 .. Len(written) : written' = SubSeq(written, 1, n)
    BY <1>4 DEF PowerLoss
  <2>2. Dead
    BY <1>4 DEF PowerLoss, Dead
  <2>3. \A i \in 1 .. Len(written') : Len(written'[i]) = i
    <3>1. Len(written') = n /\ \A i \in 1 .. n : written'[i] = written[i]
      BY <2>1 DEF Types
    <3>2. n \in Nat /\ n <= Len(written) /\ Len(written) \in Nat
      BY DEF Types
    <3> QED BY <3>1, <3>2 DEF Alone
  <2> QED BY <2>2, <2>3 DEF Alone, Dead, Informed
<1>5. ASSUME NEW p \in Procs, Process(p), UNCHANGED company PROVE Alone'
  <2> SUFFICES ASSUME company = "none" PROVE Alone'
    BY <1>5 DEF Alone
  <2>1. \A i \in 1 .. Len(written) : Len(written[i]) = i
    BY DEF Alone
  <2>2. /\ pc[p] \in Informed \ {"walk"} => from[p] = Meta
        /\ pc[p] = "create" => written = <<>>
        /\ pc[p] = "walk" => Below(p) = Len(written)
        /\ pc[p] \in Holding => lock = p
    BY DEF Alone, HeightsKept
  <2>3. Len(<<>>) = 0 /\ \A i \in 1 .. Len(<<>>) : FALSE
    OBVIOUS
  <2>4. Len(Meta) = Len(written)
    <3>1. CASE written = <<>>
      BY <3>1 DEF Meta
    <3>2. CASE written # <<>>
      <4>1. Len(written) \in 1 .. Len(written)
        BY <3>2 DEF Types
      <4> QED BY <2>1, <3>2, <4>1 DEF Meta, Last
    <3> QED BY <3>1, <3>2
  <2>5. CASE Quits(p) \/ DestroyEnd(p) \/ InspectMeta(p)
    <3>1. pc'[p] \in {"idle", "leftovers", "destroy", "open", "exists"} /\ written' = written
          /\ mode'[p] \in {mode[p], "none"}
      BY <2>5 DEF Quits, Exit, DestroyEnd, InspectMeta, Decide, Goto, Types
    <3> QED BY <1>5, <2>1, <3>1, AloneFrom DEF Informed
  <2>6. CASE InspectOutside(p)
    <3>1. /\ pc'[p] \in {"destroy", "open", "exists", "create"} /\ mode'[p] = mode[p]
          /\ pc'[p] = "create" => dir # "db"
          /\ written' = written
      BY <2>6 DEF InspectOutside, Decide, Goto, diskVars, Types
    <3> QED BY <1>5, <2>1, <3>1, AloneFrom DEF Informed
  <2>7. CASE InspectOpen(p) \/ OpenReadOnly(p)
    <3>1. /\ pc'[p] \in {"inspect_meta", "read", "answer"} /\ mode'[p] = mode[p]
          /\ written' = written /\ from'[p] = Meta /\ Meta' = Meta
      BY <2>7 DEF InspectOpen, OpenReadOnly, Goto, Types, Meta
    <3> QED BY <1>5, <2>1, <3>1, AloneFrom DEF Informed
  <2>8. CASE ReadMeta(p)
    <3>1. /\ pc[p] = "read" /\ pc'[p] = "reopen" /\ mode'[p] = mode[p]
          /\ UNCHANGED <<written, from>> /\ Meta' = Meta
      BY <2>8 DEF ReadMeta, Goto, walkVars, Types, Meta
    <3> QED BY <1>5, <2>1, <2>2, <3>1, AloneFrom DEF Informed
  <2>9. CASE OpenWritable(p)
    <3>1. /\ pc[p] \in {"create", "reopen"} /\ pc'[p] = "getblockcount" /\ mode'[p] = mode[p]
          /\ UNCHANGED <<written, from>> /\ Meta' = Meta
      BY <2>9 DEF OpenWritable, Goto, walkVars, Types, Meta
    <3>2. pc[p] = "create" => from[p] = <<>> /\ Meta = <<>>
      BY <2>2 DEF Own, Informed, Meta
    <3>3. from'[p] = Meta'
      BY <2>2, <3>1, <3>2 DEF Informed
    <3> QED BY <1>5, <2>1, <3>1, <3>3, AloneFrom
  <2>10. CASE GetBlockCount(p)
    <3>1. /\ pc[p] = "getblockcount" /\ mode'[p] = mode[p] /\ UNCHANGED <<written, from>>
          /\ pc'[p] = IF from[p] # <<>> THEN "getblockhash" ELSE "walk"
          /\ next'[p] = 1 /\ Meta' = Meta
      BY <2>10 DEF GetBlockCount, Goto, diskVars, Types, Meta
    <3>2. from[p] = Meta
      BY <2>2, <3>1 DEF Informed
    <3>3. Below(p)' = 0
      <4>1. Len(ahead'[p]) = 0 /\ next'[p] = 1
        BY <2>10, <3>1 DEF GetBlockCount, Own
      <4> QED BY <4>1 DEF Below
    <3>4. Meta = <<>> => Len(written) = 0
      BY <2>3, <2>4
    <3> QED BY <1>5, <2>1, <3>1, <3>2, <3>3, <3>4, AloneFrom
  <2>11. CASE ResumeAfterTip(p)
    <3>1. /\ pc[p] = "getblockhash" /\ pc'[p] = "walk" /\ mode'[p] = mode[p]
          /\ UNCHANGED <<written, from>>
          /\ next'[p] = Len(from[p]) + 1 /\ ahead'[p] = <<>>
      BY <2>11 DEF ResumeAfterTip, Continue, Goto, diskVars, Types, Own
    <3>2. Below(p)' = Len(from[p])
      BY <3>1, ChainsAre DEF Below, Types
    <3>3. from[p] = Meta
      BY <2>2, <3>1 DEF Informed
    <3> QED BY <1>5, <2>1, <2>4, <3>1, <3>2, <3>3, AloneFrom
  <2>12. CASE Fetch(p)
    <3>1. /\ pc[p] = "walk" /\ pc'[p] = "walk" /\ mode'[p] = mode[p] /\ written' = written
          /\ next'[p] = next[p] + 1 /\ Len(ahead'[p]) = Len(ahead[p]) + 1
      BY <2>12 DEF Fetch, FetchInto, diskVars, Types
    <3>2. Below(p)' = Below(p)
      <4>1. next[p] \in Int /\ Len(ahead[p]) \in Int
        BY DEF Types
      <4> QED BY <3>1, <4>1 DEF Below
    <3> QED BY <1>5, <2>1, <2>2, <3>1, <3>2, AloneFrom
  <2>13. CASE Destroy(p) \/ Leftovers(p)
    <3>1. /\ pc'[p] \in {"destroying", "create"} /\ mode'[p] = mode[p] /\ written' = <<>>
      BY <2>13 DEF Destroy, Leftovers, Goto, Types
    <3> QED BY <1>5, <2>3, <3>1, AloneFrom DEF Informed
  <2>14. CASE Apply(p)
    <3> DEFINE b == Head(ahead[p])
    <3>1. /\ pc[p] = "walk" /\ ahead[p] \in Seq(Chains) /\ ahead[p] # <<>>
          /\ UNCHANGED <<pc, mode, next>> /\ ahead'[p] = Tail(ahead[p])
      BY <2>14 DEF Apply, Types
    <3>2. lock = p
      BY <2>2, <3>1 DEF Holding
    <3>3. written' = Append(written, b)
      BY <2>14, <3>2 DEF Apply
    <3>4. b \in Chains /\ Len(b) = Below(p) + 1 /\ Below(p)' = Below(p) + 1
      BY <3>1, FirstAhead
    <3>5. Below(p) = Len(written)
      BY <2>2, <3>1
    <3> HIDE DEF b
    <3>6. /\ Len(written') = Len(written) + 1 /\ written'[Len(written) + 1] = b
          /\ \A i \in 1 .. Len(written) : written'[i] = written[i]
          /\ Len(written) \in Nat
      <4>1. written \in Seq(Chains)
        BY DEF Types
      <4> QED BY <3>3, <3>4, <4>1, AppendProperties
    <3>7. \A i \in 1 .. Len(written') : Len(written'[i]) = i
      BY <2>1, <3>4, <3>5, <3>6
    <3> QED BY <1>5, <3>1, <3>4, <3>5, <3>6, <3>7, AloneFrom
  <2> QED BY <1>5, ProcessSteps, <2>5, <2>6, <2>7, <2>8, <2>9, <2>10, <2>11, <2>12, <2>13, <2>14
<1> QED BY <1>1, <1>2, <1>3, <1>4, <1>5 DEF Next
-----------------------------------------------------------------------------
(***************************************************************************)
(* Linked.                                                                 *)
(***************************************************************************)

LEMMA InitLinked == Init => Linked
BY DEF Init, Idle, Linked

\* A step of p that adds no block.
LEMMA LinkedFrom ==
    ASSUME Shape, Alone, Linked, NEW p \in Procs, Process(p), UNCHANGED company,
           written' \in {written, <<>>},
           company = "none" /\ pc'[p] = "walk" => Attached(p)'
    PROVE  Linked'
<1> SUFFICES ASSUME company = "none" PROVE Linked'
  BY DEF Linked
<1>1. \A q \in Procs : q # p => pc'[q] = "idle"
  BY OthersIdle
<1>2. \A i \in 2 .. Len(written') : Front(written'[i]) = written'[i - 1]
  <2>1. CASE written' = written
    BY <2>1 DEF Linked
  <2>2. CASE written' = <<>>
    <3>1. Len(<<>>) = 0
      OBVIOUS
    <3> QED BY <2>2, <3>1
  <2> QED BY <2>1, <2>2
<1> QED BY <1>1, <1>2 DEF Linked

LEMMA StepLinked ==
    ASSUME "reorg" \notin Faults, Shape, Shape', HeightsKept, Alone, Linked, [Next]_vars
    PROVE  Linked'
<1> USE DEF Shape
<1>1. CASE UNCHANGED vars
  BY <1>1 DEF vars, diskVars, walkVars, Linked, Attached, Below, BlockAt
<1>2. ASSUME NEW p \in Procs, Start(p) PROVE Linked'
  <2>1. pc[p] = "idle" /\ UNCHANGED <<chain, written, lock, from, next, ahead>>
    BY <1>2 DEF Start, diskVars, walkVars
  <2>2. \A q \in Procs : pc'[q] = "walk" => pc[q] = "walk"
    BY <1>2 DEF Start, Goto, Types
  <2>3. company' = "none" => company = "none"
    BY <1>2 DEF Start, Joined
  <2> QED BY <2>1, <2>2, <2>3 DEF Linked, Attached, Below, BlockAt
<1>3. ASSUME NodeAdopts, UNCHANGED company PROVE Linked'
  <2>1. /\ chain' \in Chains /\ UNCHANGED <<written, pc, next, ahead>>
        /\ IsPrefix(chain, chain') \/ \A p \in Procs : ~Walking(p)
    BY <1>3 DEF NodeAdopts, diskVars, walkVars
  <2>2. CASE \A p \in Procs : ~Walking(p)
    <3>1. \A p \in Procs : pc'[p] # "walk"
      BY <2>1, <2>2 DEF Walking
    <3> QED BY <1>3, <2>1, <3>1 DEF Linked
  <2>3. CASE IsPrefix(chain, chain')
    <3>1. \A n \in 0 .. Len(chain) : SubSeq(chain', 1, n) = SubSeq(chain, 1, n)
      BY <2>1, <2>3, SamePrefix DEF Types
    <3>2. ASSUME NEW p \in Procs, pc[p] = "walk", company = "none"
          PROVE  Attached(p)'
      <4>1. /\ next[p] <= tip[p] + 1 /\ tip[p] \in 1 .. Len(chain) /\ next[p] \in Nat
            /\ Len(chain) \in Nat /\ ahead[p] \in Seq(Chains) /\ Len(written) \in Nat
        <5>1. Len(chain) \in Nat /\ ahead[p] \in Seq(Chains) /\ written \in Seq(Chains)
              /\ next[p] \in 0 .. MaxBlocks + 1
          BY ChainsAre DEF Types
        <5>2. next[p] <= tip[p] + 1 /\ tip[p] \in 1 .. Len(chain)
          BY <3>2 DEF Own
        <5> QED BY <5>1, <5>2, BoundAssumption
      <4>2. /\ Len(ahead[p]) \in Nat
            /\ Below(p) = Len(written) /\ Below(p) = next[p] - Len(ahead[p]) - 1
        BY <3>2, <4>1 DEF Alone, Below
      <4>3. /\ Len(written) \in 0 .. Len(chain)
            /\ \A i \in 1 .. Len(ahead[p]) : Len(written) + i \in 0 .. Len(chain)
        <5> DEFINE w == Len(written)
                   a == Len(ahead[p])
                   n == next[p]
                   c == Len(chain)
                   t == tip[p]
        <5>1. /\ w \in Nat /\ a \in Nat /\ n \in Nat /\ c \in Nat /\ t \in 1 .. c
              /\ n <= t + 1 /\ w = n - a - 1
          BY <4>1, <4>2
        <5>2. w \in 0 .. c /\ \A i \in 1 .. a : w + i \in 0 .. c
          <6> HIDE DEF w, a, n, c, t
          <6> QED BY <5>1, HeightsFit
        <5> QED BY <5>2
      <4>4. Attached(p) /\ Below(p)' = Below(p)
        BY <2>1, <3>2 DEF Linked, Below
      <4>5. /\ written # <<>> => Last(written) = SubSeq(chain', 1, Len(written))
            /\ \A i \in 1 .. Len(ahead[p]) : ahead[p][i] = SubSeq(chain', 1, Len(written) + i)
        BY <3>1, <4>2, <4>3, <4>4 DEF Attached, BlockAt
      <4> QED BY <2>1, <4>2, <4>4, <4>5 DEF Attached, BlockAt
    <3> QED BY <1>3, <2>1, <3>2 DEF Linked
  <2> QED BY <2>1, <2>2, <2>3
<1>4. ASSUME PowerLoss, UNCHANGED company PROVE Linked'
  <2> SUFFICES ASSUME company = "none" PROVE Linked'
    BY <1>4 DEF Linked
  <2>1. PICK n \in 0 .. Len(written) : written' = SubSeq(written, 1, n)
    BY <1>4 DEF PowerLoss
  <2>2. Dead
    BY <1>4 DEF PowerLoss, Dead
  <2>3. \A i \in 2 .. Len(written') : Front(written'[i]) = written'[i - 1]
    <3>1. Len(written') = n /\ \A i \in 1 .. n : written'[i] = written[i]
      BY <2>1 DEF Types
    <3>2. n \in Nat /\ n <= Len(written) /\ Len(written) \in Nat
      BY DEF Types
    <3>3. \A i \in 2 .. Len(written) : Front(written[i]) = written[i - 1]
      BY DEF Linked
    <3> QED BY <3>1, <3>2, <3>3
  <2> QED BY <2>2, <2>3 DEF Linked, Dead
<1>5. ASSUME NEW p \in Procs, Process(p), UNCHANGED company PROVE Linked'
  <2> SUFFICES ASSUME company = "none" PROVE Linked'
    BY <1>5 DEF Linked
  <2>1. /\ pc[p] \in Informed \ {"walk"} => from[p] = Meta
        /\ pc[p] = "walk" => Below(p) = Len(written)
        /\ pc[p] \in Holding => lock = p
    BY DEF Alone, HeightsKept
  <2>2. Len(<<>>) = 0
    OBVIOUS
  <2>3. ASSUME \/ Quits(p) \/ InspectOutside(p) \/ InspectOpen(p) \/ InspectMeta(p)
               \/ Destroy(p) \/ DestroyEnd(p) \/ Leftovers(p)
               \/ OpenReadOnly(p) \/ ReadMeta(p) \/ OpenWritable(p)
        PROVE  pc'[p] # "walk" /\ written' \in {written, <<>>}
    <3> USE DEF Types, Goto, diskVars
    <3>1. CASE Quits(p)
      BY <3>1 DEF Quits, Exit
    <3>2. CASE InspectOutside(p) \/ InspectOpen(p) \/ InspectMeta(p)
      BY <3>2 DEF InspectOutside, InspectOpen, InspectMeta, Decide
    <3>3. CASE Destroy(p) \/ DestroyEnd(p) \/ Leftovers(p)
      BY <3>3 DEF Destroy, DestroyEnd, Leftovers
    <3>4. CASE OpenReadOnly(p) \/ ReadMeta(p) \/ OpenWritable(p)
      BY <3>4 DEF OpenReadOnly, ReadMeta, OpenWritable
    <3> QED BY <2>3, <3>1, <3>2, <3>3, <3>4
  <2>4. CASE GetBlockCount(p)
    <3>1. /\ pc[p] = "getblockcount" /\ written' = written /\ Len(ahead'[p]) = 0
          /\ pc'[p] = IF from[p] # <<>> THEN "getblockhash" ELSE "walk"
      BY <2>2, <2>4 DEF GetBlockCount, Goto, diskVars, Types, Own
    <3>2. from[p] = Meta
      BY <2>1, <3>1 DEF Informed
    <3>3. pc'[p] = "walk" => written = <<>>
      BY <3>1, <3>2, MetaIs DEF Types
    <3>4. pc'[p] = "walk" => Attached(p)'
      <4>1. \A i \in 1 .. Len(ahead'[p]) : FALSE
        BY <3>1
      <4> QED BY <3>1, <3>3, <4>1 DEF Attached
    <3> QED BY <1>5, <3>1, <3>4, LinkedFrom
  <2>5. CASE ResumeAfterTip(p)
    <3>1. /\ pc[p] = "getblockhash" /\ UNCHANGED <<chain, written>> /\ Len(ahead'[p]) = 0
          /\ BlockAt(Len(from[p])) = from[p]
      BY <2>2, <2>5 DEF ResumeAfterTip, OnChain, Continue, diskVars, Types, Own
    <3>2. from[p] = Meta
      BY <2>1, <3>1 DEF Informed
    <3>3. written # <<>> => Last(written) = BlockAt(Len(written))
      <4> SUFFICES ASSUME written # <<>> PROVE Last(written) = BlockAt(Len(written))
        OBVIOUS
      <4>1. Len(written) \in 1 .. Len(written)
        BY DEF Types
      <4>2. Len(Last(written)) = Len(written) /\ Meta = Last(written)
        BY <4>1 DEF Alone, Last, Meta
      <4> QED BY <3>1, <3>2, <4>2
    <3>4. Attached(p)'
      <4>1. \A i \in 1 .. Len(ahead'[p]) : FALSE
        BY <3>1
      <4> QED BY <3>1, <3>3, <4>1 DEF Attached, BlockAt
    <3> QED BY <1>5, <3>1, <3>4, LinkedFrom
  <2>6. CASE Fetch(p)
    <3> DEFINE b == BlockAt(next[p])
    <3>1. /\ pc[p] = "walk" /\ UNCHANGED <<chain, written>>
          /\ ahead'[p] = Append(ahead[p], b) /\ next'[p] = next[p] + 1
          /\ ahead[p] \in Seq(Chains) /\ next[p] \in Nat
      BY <2>6, BoundAssumption DEF Fetch, FetchInto, diskVars, Types
    <3>2. b \in Chains
      <4>1. next[p] \in 1 .. Len(chain)
        <5>1. /\ next[p] <= tip[p] /\ tip[p] \in 1 .. Len(chain) /\ Len(chain) \in Nat
              /\ Below(p) >= 0 /\ Len(ahead[p]) \in Nat
          BY <2>6, <3>1, ChainsAre DEF Fetch, FetchInto, Own, Types
        <5> QED BY <3>1, <5>1 DEF Below
      <4> QED BY <4>1, BlocksAre DEF Types, BlockAt
    <3> HIDE DEF b
    <3>3. /\ Len(ahead'[p]) = Len(ahead[p]) + 1 /\ Len(ahead[p]) \in Nat
          /\ \A i \in 1 .. Len(ahead[p]) : ahead'[p][i] = ahead[p][i]
          /\ ahead'[p][Len(ahead[p]) + 1] = b
      <4> DEFINE a == ahead[p]
      <4>1. a \in Seq(Chains) /\ ahead'[p] = Append(a, b)
        BY <3>1
      <4> HIDE DEF a
      <4>2. /\ Len(Append(a, b)) = Len(a) + 1 /\ Len(a) \in Nat
            /\ \A i \in 1 .. Len(a) : Append(a, b)[i] = a[i]
            /\ Append(a, b)[Len(a) + 1] = b
        BY <3>2, <4>1, AppendProperties
      <4>3. /\ Len(ahead'[p]) = Len(a) + 1
            /\ \A i \in 1 .. Len(a) : ahead'[p][i] = a[i]
            /\ ahead'[p][Len(a) + 1] = b
        BY <4>1, <4>2
      <4> QED BY <4>2, <4>3 DEF a
    <3>4. Below(p)' = Below(p) /\ Below(p) \in Int /\ next[p] = Below(p) + Len(ahead[p]) + 1
      <4>1. Below(p)' = (next[p] + 1) - (Len(ahead[p]) + 1) - 1
        BY <3>1, <3>3 DEF Below
      <4>2. next[p] \in Nat /\ Len(ahead[p]) \in Nat
        BY <3>1, <3>3
      <4> QED BY <4>1, <4>2, OneFurther DEF Below
    <3>5. Attached(p)
      BY <3>1 DEF Linked
    <3>6. ASSUME NEW i \in 1 .. Len(ahead'[p])
          PROVE  ahead'[p][i] = SubSeq(chain, 1, Below(p) + i)
      <4>1. CASE i \in 1 .. Len(ahead[p])
        BY <3>3, <3>5, <4>1 DEF Attached, BlockAt
      <4>2. CASE i = Len(ahead[p]) + 1
        <5>1. Below(p) + i = next[p]
          BY <3>3, <3>4, <4>2
        <5> QED BY <3>3, <4>2, <5>1 DEF b, BlockAt
      <4> QED BY <3>3, <4>1, <4>2
    <3>7. Attached(p)'
      BY <3>1, <3>4, <3>5, <3>6 DEF Attached, BlockAt
    <3> QED BY <1>5, <3>1, <3>7, LinkedFrom
  <2>7. CASE Apply(p)
    <3> DEFINE b == Head(ahead[p])
               n == Len(written)
    <3>1. /\ pc[p] = "walk" /\ ahead[p] # <<>> /\ ahead'[p] = Tail(ahead[p])
          /\ UNCHANGED <<pc, chain, next>> /\ lock = p
      BY <2>1, <2>7 DEF Apply, Types, Holding
    <3>2. written' = Append(written, b) /\ written \in Seq(Chains)
      BY <2>7, <3>1 DEF Apply, Types
    <3>3. /\ b \in Chains /\ b = ahead[p][1] /\ Below(p)' = Below(p) + 1
          /\ Len(ahead'[p]) = Len(ahead[p]) - 1 /\ Len(ahead[p]) \in Nat \ {0}
          /\ \A i \in 1 .. Len(ahead'[p]) : ahead'[p][i] = ahead[p][i + 1]
      BY <3>1, FirstAhead
    <3>4. Below(p) = n /\ n \in Nat
      BY <2>1, <3>1 DEF Types
    <3>5. /\ written # <<>> => Last(written) = BlockAt(n)
          /\ \A i \in 1 .. Len(ahead[p]) : ahead[p][i] = BlockAt(n + i)
      BY <3>1, <3>4 DEF Linked, Attached
    <3> HIDE DEF b
    <3>6. /\ Len(written') = n + 1 /\ written'[n + 1] = b
          /\ \A i \in 1 .. n : written'[i] = written[i]
      BY <3>2, <3>3, AppendProperties
    <3>7. b = BlockAt(n + 1)
      BY <3>3, <3>5
    <3>8. n # 0 => Front(b) = written[n]
      <4> SUFFICES ASSUME n # 0 PROVE Front(b) = written[n]
        OBVIOUS
      <4>1. n + 1 \in 1 .. Len(chain)
        <5>1. /\ next[p] <= tip[p] + 1 /\ tip[p] \in 1 .. Len(chain) /\ next[p] \in Nat
              /\ Len(chain) \in Nat
          BY <3>1, ChainsAre, BoundAssumption DEF Own, Types
        <5>2. next[p] = n + Len(ahead[p]) + 1
          <6>1. Below(p) = next[p] - Len(ahead[p]) - 1 /\ Len(ahead[p]) \in Nat
            BY <3>3 DEF Below
          <6> QED BY <3>4, <5>1, <6>1
        <5> QED BY <3>3, <3>4, <5>1, <5>2
      <4>2. Front(b) = BlockAt(n)
        <5>1. Front(SubSeq(chain, 1, n + 1)) = SubSeq(chain, 1, (n + 1) - 1)
          BY <4>1, BlocksAre DEF Types
        <5>2. (n + 1) - 1 = n
          BY <3>4
        <5> QED BY <3>7, <5>1, <5>2 DEF BlockAt
      <4>3. written # <<>> /\ Last(written) = written[n]
        BY <3>4 DEF Last
      <4> QED BY <3>5, <4>2, <4>3
    <3>9. \A i \in 2 .. Len(written') : Front(written'[i]) = written'[i - 1]
      <4>1. \A i \in 2 .. n : Front(written[i]) = written[i - 1]
        BY DEF Linked
      <4> QED BY <3>4, <3>6, <3>8, <4>1
    <3>10. Last(written') = SubSeq(chain, 1, Len(written'))
      BY <3>6, <3>7 DEF Last, BlockAt
    <3>11. \A i \in 1 .. Len(ahead'[p]) : ahead'[p][i] = SubSeq(chain, 1, n + 1 + i)
      <4>1. ASSUME NEW i \in 1 .. Len(ahead'[p])
            PROVE  ahead'[p][i] = BlockAt(n + 1 + i)
        <5>1. i + 1 \in 1 .. Len(ahead[p]) /\ n + (i + 1) = n + 1 + i
          <6>1. i \in 1 .. Len(ahead[p]) - 1 /\ Len(ahead[p]) \in Nat
            BY <3>3
          <6> QED BY <3>4, <6>1
        <5> QED BY <3>3, <3>5, <5>1
      <4> QED BY <4>1 DEF BlockAt
    <3>12. \A q \in Procs : q # p => pc'[q] = "idle"
      BY <1>5, OthersIdle
    <3>13. Attached(p)'
      BY <3>1, <3>3, <3>4, <3>10, <3>11 DEF Attached, BlockAt
    <3> QED BY <3>9, <3>12, <3>13 DEF Linked
  <2>8. ASSUME pc'[p] # "walk" /\ written' \in {written, <<>>} PROVE Linked'
    BY <1>5, <2>8, LinkedFrom
  <2> QED BY <1>5, ProcessSteps, <2>3, <2>4, <2>5, <2>6, <2>7, <2>8
<1> QED BY <1>1, <1>2, <1>3, <1>4, <1>5 DEF Next
-----------------------------------------------------------------------------
(***************************************************************************)
(* What follows.                                                           *)
(***************************************************************************)

LEMMA HeightsHold == Spec => [](Shape /\ HeightsKept)
BY InitShape, StepShape, InitHeights, StepHeights, PTL DEF Spec

LEMMA AloneHolds == Spec => [](Shape /\ HeightsKept /\ Alone)
<1>1. Shape /\ HeightsKept /\ [Next]_vars => Shape' /\ HeightsKept'
  BY StepShape, StepHeights
<1>2. Init => Shape /\ HeightsKept /\ Alone
  BY InitShape, InitHeights, InitAlone
<1>3. Shape /\ HeightsKept /\ Alone /\ [Next]_vars => (Shape /\ HeightsKept /\ Alone)'
  BY <1>1, StepAlone
<1> QED BY <1>2, <1>3, PTL DEF Spec

\* The state has its types; only a database has blocks, whoever destroys or
\* makes it, and no walk holds more blocks than the queues have room for.
THEOREM TypeCorrect == Spec => []TypeOK
<1>1. Shape => TypeOK
  <2> SUFFICES ASSUME Shape PROVE TypeOK
    OBVIOUS
  <2>1. \A i \in 1 .. Len(written) : written[i] \in Chains
    BY DEF Shape, Types
  <2> QED BY <2>1 DEF Shape, Types, Own, TypeOK
<1> QED BY <1>1, ShapeHolds, PTL

\* Every height below an indexed one is indexed, whatever processes race for
\* the lock, die, or follow a reorganisation of the node, as long as no --force
\* runs beside another process.
THEOREM EveryHeight == Spec => []NoHeightMissing
<1>1. HeightsKept => NoHeightMissing
  BY DEF HeightsKept, Downward, NoHeightMissing
<1> QED BY <1>1, HeightsHold, PTL

\* When processes take turns and the node does not reorganise under a walk, the
\* index holds one chain, also over reorganisations between the walks.
THEOREM OneChain == ASSUME "reorg" \notin Faults PROVE Spec => []SingleChain
<1>1. Init => Shape /\ HeightsKept /\ Alone /\ Linked
  BY InitShape, InitHeights, InitAlone, InitLinked
<1>2. Shape /\ HeightsKept /\ Alone /\ Linked /\ [Next]_vars
        => (Shape /\ HeightsKept /\ Alone /\ Linked)'
  BY StepShape, StepHeights, StepAlone, StepLinked
<1>3. Shape /\ Alone /\ Linked => SingleChain
  <2> SUFFICES ASSUME Shape, Alone, Linked, company = "none", NEW i \in 1 .. Len(written)
               PROVE  Len(written[i]) = i /\ (i > 1 => Front(written[i]) = written[i - 1])
    BY DEF SingleChain
  <2>1. i > 1 => i \in 2 .. Len(written)
    BY DEF Shape, Types
  <2> QED BY <2>1 DEF Alone, Linked
<1> QED BY <1>1, <1>2, <1>3, PTL DEF Spec

\* A walk that is reported complete has brought the index to the tip that the
\* node announced to it, when processes take turns; a reorganisation makes no
\* difference.
THEOREM Synced == Spec => CompleteIsSynced
<1> DEFINE Ended(p) == company = "none" /\ pc[p] = "walk" /\ pc'[p] = "idle" /\ outcome' = "complete"
<1>1. Shape /\ HeightsKept /\ Alone /\ [Next]_vars =>
        \A p \in Procs : Ended(p) => written' # <<>> /\ Len(Last(written')) = tip[p]
  <2> SUFFICES ASSUME Shape, HeightsKept, Alone, [Next]_vars, NEW p \in Procs, Ended(p)
               PROVE  written' # <<>> /\ Len(Last(written')) = tip[p]
    OBVIOUS
  <2> USE DEF Shape
  <2>1. Complete(p)
    <3>1. ~UNCHANGED vars
      BY DEF vars
    <3>2. ~NodeAdopts /\ ~PowerLoss
      BY DEF NodeAdopts, PowerLoss
    <3>3. \A q \in Procs : ~Start(q)
      BY DEF Start, Goto, Types
    <3>4. PICK q \in Procs : Process(q)
      BY <3>1, <3>2, <3>3 DEF Next
    <3>5. q = p
      BY <3>4, OthersSame DEF Same
    <3>6. ~Interrupted(p) /\ ~RpcFails(p) /\ ~Crash(p)
      BY DEF Interrupted, RpcFails, Crash, Exit
    <3>7. ~GetBlockCount(p) /\ ~ReorgDetected(p) /\ ~ResumeAfterTip(p) /\ ~Fetch(p) /\ ~Apply(p)
      BY DEF GetBlockCount, ReorgDetected, ResumeAfterTip, Fetch, FetchInto, Apply
    <3>8. ~Inspect(p) /\ ~DestroyIndex(p) /\ ~Open(p) /\ ~Use(p)
      BY DEF Inspect, InspectOutside, InspectOpen, InspectMeta, RefuseJunk, DestroyIndex,
         DestroyBusy, Destroy, DestroyEnd, Leftovers, Open, OpenFails, OpenReadOnly,
         OpenWritable, Use, Answer, ReadMeta, ReadMetaFails
    <3> QED BY <3>4, <3>5, <3>6, <3>7, <3>8 DEF Process, Walk
  <2>2. /\ next[p] > tip[p] /\ ahead[p] = <<>> /\ written' = written
    BY <2>1 DEF Complete
  <2>3. /\ next[p] <= tip[p] + 1 /\ tip[p] \in 1 .. Len(chain) /\ next[p] \in 0 .. MaxBlocks + 1
        /\ Below(p) = Len(written) /\ Len(chain) \in Nat /\ Len(written) \in Nat
    <3>1. pc[p] = "walk" /\ company = "none"
      OBVIOUS
    <3> QED BY <3>1, ChainsAre DEF Own, Types, Alone
  <2>4. Len(written) = tip[p] /\ tip[p] # 0
    <3>1. Len(ahead[p]) = 0
      BY <2>2
    <3>2. next[p] = tip[p] + 1
      BY <2>2, <2>3, BoundAssumption
    <3> QED BY <2>3, <3>1, <3>2 DEF Below
  <2>5. Len(written) \in 1 .. Len(written) /\ written # <<>>
    BY <2>3, <2>4
  <2>6. Len(Last(written)) = Len(written)
    BY <2>5 DEF Alone, Last
  <2> QED BY <2>2, <2>4, <2>5, <2>6
<1>2. Shape /\ HeightsKept /\ Alone /\ [Next]_vars =>
        [\A p \in Procs : Ended(p) => written' # <<>> /\ Len(Last(written')) = tip[p]]_vars
  BY <1>1
<1>3. (Spec => [][\A p \in Procs : Ended(p) => written' # <<>> /\ Len(Last(written')) = tip[p]]_vars)
  BY <1>2, AloneHolds, PTL DEF Spec
<1> QED BY <1>3 DEF CompleteIsSynced

\* No step takes blocks out of the index but those of a process with --force and
\* the loss of power, whatever processes do to each other.
THEOREM ForceDiscards == Spec => OnlyForceDiscards
<1> DEFINE Kept == \/ IsPrefix(written, written') \/ PowerLoss
                   \/ \E p \in Procs : mode[p] = "force" /\ pc'[p] # pc[p]
<1>1. Shape /\ [Next]_vars => Kept
  <2> SUFFICES ASSUME Shape, [Next]_vars PROVE Kept
    OBVIOUS
  <2> USE DEF Shape
  <2>1. written \in Seq(Chains)
    BY DEF Types
  <2>2. ASSUME written' = written PROVE Kept
    BY <2>1, <2>2 DEF IsPrefix
  <2>3. ASSUME UNCHANGED vars \/ NodeAdopts \/ \E p \in Procs : Start(p) PROVE Kept
    <3>1. written' = written
      BY <2>3 DEF vars, diskVars, NodeAdopts, Start
    <3> QED BY <2>2, <3>1
  <2>4. ASSUME NEW p \in Procs, Process(p) PROVE Kept
    <3>1. CASE Destroy(p) \/ Leftovers(p)
      <4>1. mode[p] = "force" /\ pc'[p] # pc[p]
        BY <3>1 DEF Own, Destroy, Leftovers, Goto, Types
      <4> QED BY <4>1
    <3>2. CASE Apply(p)
      <4> DEFINE b == Head(ahead[p])
      <4>1. written' \in {written, Append(written, b)} /\ b \in Chains
        BY <3>2 DEF Apply, Types
      <4> HIDE DEF b
      <4>2. IsPrefix(written, Append(written, b))
        <5> DEFINE w == Append(written, b)
                   s == SubSeq(w, 1, Len(written))
        <5>1. w \in Seq(Chains) /\ Len(w) = Len(written) + 1 /\ Len(written) \in Nat
              /\ \A i \in 1 .. Len(written) : w[i] = written[i]
          BY <2>1, <4>1, AppendProperties
        <5> HIDE DEF w
        <5>2. s \in Seq(Chains) /\ Len(s) = Len(written) /\ \A i \in 1 .. Len(written) : s[i] = w[i]
          BY <5>1
        <5> HIDE DEF s
        <5>3. \A i \in 1 .. Len(s) : s[i] = written[i]
          BY <5>1, <5>2
        <5>4. s = written
          BY <2>1, <5>2, <5>3, SeqEqual
        <5>5. SubSeq(written, 1, Len(written)) = written
          BY <2>1, SubSeqFull
        <5> QED BY <5>1, <5>4, <5>5 DEF IsPrefix, s, w
      <4> QED BY <2>2, <4>1, <4>2
    <3>3. CASE \/ Quits(p) \/ InspectOutside(p) \/ InspectOpen(p) \/ InspectMeta(p) \/ DestroyEnd(p)
               \/ OpenReadOnly(p) \/ ReadMeta(p) \/ OpenWritable(p)
               \/ GetBlockCount(p) \/ ResumeAfterTip(p) \/ Fetch(p)
      <4>1. written' = written
        BY <3>3 DEF Quits, InspectOutside, InspectOpen, InspectMeta, DestroyEnd, OpenReadOnly,
           ReadMeta, OpenWritable, GetBlockCount, ResumeAfterTip, Continue, Fetch, FetchInto,
           diskVars
      <4> QED BY <2>2, <4>1
    <3> QED BY <2>4, ProcessSteps, <3>1, <3>2, <3>3
  <2> QED BY <2>3, <2>4 DEF Next
<1>2. Shape /\ [Next]_vars => [Kept]_vars
  BY <1>1
<1>3. Spec => [][Kept]_vars
  BY <1>2, ShapeHolds, PTL DEF Spec
<1> QED BY <1>3 DEF OnlyForceDiscards
=============================================================================
