-------------------------- MODULE ConfigStoreProofs --------------------------
(***************************************************************************)
(* Proofs about ConfigStore, for any finite set of processes and any keys  *)
(* and values.                                                             *)
(*                                                                         *)
(* Until two processes were at work at the same time a process that writes *)
(* has the inode of the temporary name open, which is not the inode of     *)
(* config.json, and config.json holds what the process has read.  As long  *)
(* as config.json could be opened every document has the unknown fields of *)
(* the first one, as they were or printed once, and those with a number to *)
(* round are in no inode but the one that config.json had at first, also   *)
(* when processes overlap.                                                 *)
(***************************************************************************)
EXTENDS ConfigStore, DataTheorems

Writing == {"write", "write_rest", "rename"}

Types ==
    /\ path \in Inodes \cup {Nothing} /\ tmp \in Inodes \cup {Nothing}
    /\ path # Nothing => path # tmp
    /\ overlapped \in BOOLEAN /\ denied \in BOOLEAN
    /\ files \in [Inodes -> Contents]
    /\ fd \in [Procs -> Inodes \cup {Nothing}] /\ pc \in [Procs -> Labels]
    /\ verb \in [Procs -> {"none", "set", "unset"}]
    /\ key \in [Procs -> Keys \cup {Nothing}] /\ value \in [Procs -> Values \cup {Nothing}]
    /\ doc \in [Procs -> Documents \cup {Nothing}]
    /\ found \in Documents \cup {Nothing, NoFile, Invalid}

\* What a process has in hand where it is.
Own(p) ==
    /\ fd[p] # Nothing <=> pc[p] \in Writing
    /\ pc[p] \in Writing \cup {"open"} => doc[p] \in Documents
    /\ pc[p] # "idle" => /\ key[p] \in Keys /\ verb[p] \in {"set", "unset"}
                         /\ verb[p] = "set" => value[p] \in Values

Shape == Types /\ \A p \in Procs : Own(p)

\* What p saves: a new document, because it could not open config.json, or the
\* one that it has read.
Prepared(p) ==
    \/ /\ verb[p] = "set" /\ doc[p] = Changed(p, NewDocument)
       /\ denied \/ config = NoFile
    \/ /\ config \in Documents /\ doc[p] = Changed(p, config)
       /\ verb[p] = "unset" => config.rpc[key[p]] # Absent

\* What p relies on while it is the only one at work.
Exclusive(p) ==
    /\ pc[p] \in Writing => fd[p] = tmp
    /\ pc[p] \in {"write_rest", "rename"} => files[fd[p]][1] = Emitted(doc[p])
    /\ pc[p] = "rename" => files[fd[p]][2] = Emitted(doc[p])
    /\ pc[p] \in Writing \cup {"open"} => found = config /\ Prepared(p)

TakesTurns == ~overlapped =>
    /\ \A p, q \in Procs : pc[p] # "idle" /\ pc[q] # "idle" => p = q
    /\ \A p \in Procs : Exclusive(p)

Unknowns == {"none", "plain", "precise"}
Printed(u) == IF u = "precise" THEN "plain" ELSE u

\* Every document that is stored or in hand has the unknown fields u, or has
\* them as they are printed.
UnknownIs(u) ==
    /\ \A i \in Inodes : \A half \in 1 .. 2 :
           files[i][half] # Nothing => files[i][half].unknown \in {u, Printed(u)}
    /\ \A p \in Procs : doc[p] # Nothing => doc[p].unknown \in {u, Printed(u)}
    /\ path = Nothing => u = "none"

SameUnknown == ~denied => \E u \in Unknowns : UnknownIs(u)

\* Numbers that are still to be rounded are in no file that btk has written.
PreciseIsOld ==
    \A i \in Inodes : \A half \in 1 .. 2 :
        files[i][half] # Nothing /\ files[i][half].unknown = "precise" =>
            i = path /\ \A p \in Procs : fd[p] # i
-----------------------------------------------------------------------------
(***************************************************************************)
(* Documents, inodes and what a reader finds.                              *)
(***************************************************************************)

\* A finite set of integers that is not empty has a least element, and Min is it.
LEMMA MinIs ==
    ASSUME NEW S, IsFiniteSet(S), S \subseteq Int, S # {}
    PROVE  Min(S) \in S
<1> DEFINE Bad == {T \in SUBSET S : T # {} /\ ~\E x \in T : \A y \in T : x <= y}
<1>1. Bad = {}
  <2>1. SUFFICES ASSUME Bad # {} PROVE FALSE
    OBVIOUS
  <2>2. PICK T \in Bad : \A U \in SUBSET T : U # T => U \notin Bad
    <3>1. Bad \in SUBSET SUBSET S
      OBVIOUS
    <3> HIDE DEF Bad
    <3> QED BY <2>1, <3>1, Smallest
  <2>3. PICK x \in T : TRUE
    OBVIOUS
  <2>4. CASE T \ {x} = {}
    BY <2>3, <2>4
  <2>5. CASE T \ {x} # {}
    <3>1. T \ {x} \in SUBSET T /\ T \ {x} # T
      BY <2>3
    <3>2. PICK m \in T \ {x} : \A y \in T \ {x} : m <= y
      BY <2>2, <2>5, <3>1
    <3>3. x \in Int /\ m \in Int /\ \A y \in T : y \in Int
      BY <2>3, <3>2
    <3>4. CASE m <= x
      <4>1. \A y \in T : m <= y
        BY <3>2, <3>4
      <4> QED BY <4>1, <3>2
    <3>5. CASE x <= m
      <4>1. \A y \in T : x <= y
        BY <3>2, <3>3, <3>5
      <4> QED BY <4>1, <2>3
    <3> QED BY <3>3, <3>4, <3>5
  <2> QED BY <2>4, <2>5
<1>2. \E x \in S : \A y \in S : x <= y
  BY <1>1
<1> QED BY <1>2, Zenon DEF Min

LEMMA Markers ==
    /\ Nothing \notin Documents /\ NoFile \notin Documents /\ Invalid \notin Documents
    /\ NoFile # Invalid /\ Absent \notin Values
    /\ Nothing \notin Inodes /\ Inodes \subseteq Nat /\ IsFiniteSet(Inodes)
<1>1. Cardinality(Procs) \in Nat
  BY ProcsAssumption, FS_CardinalityType
<1>2. Inodes \subseteq Nat
  BY <1>1 DEF Inodes
<1>3. IsFiniteSet(Inodes)
  <2>1. 1 \in Int /\ Cardinality(Procs) + 2 \in Int
    BY <1>1
  <2> QED BY <2>1, FS_Interval DEF Inodes
<1>4. Nothing \notin Inodes
  BY <1>2, MarkersAssumption
<1> QED BY <1>2, <1>3, <1>4, MarkersAssumption

LEMMA GoneIs == Gone \in Contents /\ Gone[1] = Nothing /\ Gone[2] = Nothing
BY DEF Gone, Contents

\* A change of a key leaves a document and its unknown fields; a document is
\* printed as ConfigRegister says.
LEMMA ChangedIs ==
    ASSUME NEW p \in Procs, NEW d \in Documents, Own(p), pc[p] # "idle"
    PROVE  /\ Changed(p, d) \in Documents /\ Changed(p, d).unknown = d.unknown
           /\ Emitted(Changed(p, d)) = Register!Rewritten(d, key[p], NewValue(p))
<1>1. NewValue(p) \in Values \cup {Absent} /\ key[p] \in Keys
  BY DEF Own, NewValue
<1>2. [d.rpc EXCEPT ![key[p]] = NewValue(p)] \in [Keys -> Values \cup {Absent}]
  BY <1>1 DEF Documents
<1>3. Changed(p, d) = [d EXCEPT !.rpc = [d.rpc EXCEPT ![key[p]] = NewValue(p)]]
  BY DEF Changed, Documents
<1>4. Changed(p, d) \in Documents /\ Changed(p, d).unknown = d.unknown
  BY <1>2, <1>3 DEF Documents
<1>5. Changed(p, d).rpc = [d.rpc EXCEPT ![key[p]] = NewValue(p)]
  BY <1>3 DEF Documents
<1>6. Emitted(Changed(p, d)) = [rpc |-> Changed(p, d).rpc, unknown |-> Printed(d.unknown)]
  BY <1>4 DEF Emitted, Documents, Printed
<1> QED BY <1>4, <1>5, <1>6 DEF Register!Rewritten, Printed

LEMMA EmittedIs ==
    ASSUME NEW d \in Documents
    PROVE  /\ Emitted(d) \in Documents /\ Emitted(d).unknown = Printed(d.unknown)
           /\ Emitted(d).unknown # "precise"
BY DEF Emitted, Documents, Printed

LEMMA NewDocumentIs == NewDocument \in Documents /\ NewDocument.unknown = "none"
BY DEF NewDocument, Documents

\* What config.json holds.
ConfigIs ==
    /\ config \in Documents \cup {NoFile, Invalid}
    /\ config = NoFile <=> path = Nothing
    /\ config \in Documents =>
           path \in Inodes /\ files[path][1] = config /\ files[path][2] = config

LEMMA ConfigTypes == Types => ConfigIs
<1> SUFFICES ASSUME Types PROVE ConfigIs
  OBVIOUS
<1>1. CASE path = Nothing
  BY <1>1, Markers DEF ConfigIs, config
<1>2. CASE path # Nothing
  <2>1. path \in Inodes /\ files[path] \in Contents
    BY <1>2 DEF Types
  <2>2. files[path][1] \in Documents \cup {Nothing} /\ files[path][2] \in Documents \cup {Nothing}
    BY <2>1 DEF Contents
  <2>3. CASE Whole(files[path])
    <3>1. config = files[path][1] /\ files[path][1] \in Documents /\ files[path][2] = config
      BY <1>2, <2>2, <2>3 DEF config, Whole
    <3> QED BY <3>1, <2>1, <1>2, Markers DEF ConfigIs
  <2>4. CASE ~Whole(files[path])
    <3>1. config = Invalid
      BY <1>2, <2>4 DEF config
    <3> QED BY <3>1, <1>2, Markers DEF ConfigIs
  <2> QED BY <2>3, <2>4
<1> QED BY <1>1, <1>2

\* If neither the name nor what is in the file changes readers see no difference.
LEMMA SameConfig ==
    ASSUME path' = path, path # Nothing => files'[path] = files[path]
    PROVE  config' = config
BY DEF config, Whole

\* There is an inode for a process that needs one: each of the others has at
\* most one open, and one is config.json.
LEMMA FreeInode ==
    ASSUME Types, tmp = Nothing, NEW p \in Procs
    PROVE  Min({i \in Inodes : Free(i)}) \in {i \in Inodes : Free(i)}
<1> DEFINE F == {i \in Inodes : Free(i)}
           Open == {fd[q] : q \in Procs}
<1>1. IsFiniteSet(Open) /\ Cardinality(Open) <= Cardinality(Procs)
  <2>1. fd \in Surjection(Procs, Open)
    BY DEF Types, Surjection
  <2> HIDE DEF Open
  <2> QED BY <2>1, ProcsAssumption, FS_Surjection
<1>2. /\ IsFiniteSet(Open \cup {path})
      /\ Cardinality(Open \cup {path}) <= Cardinality(Procs) + 1
      /\ Cardinality(Open \cup {path}) \in Nat /\ Cardinality(Procs) \in Nat
  <2>1. IsFiniteSet(Open \cup {path})
    BY <1>1, FS_AddElement
  <2>2. Cardinality(Open \cup {path}) \in {Cardinality(Open), Cardinality(Open) + 1}
    BY <1>1, FS_AddElement
  <2>3. /\ Cardinality(Open) \in Nat /\ Cardinality(Procs) \in Nat
        /\ Cardinality(Open \cup {path}) \in Nat
    BY <1>1, <2>1, ProcsAssumption, FS_CardinalityType
  <2> HIDE DEF Open
  <2> QED BY <1>1, <2>1, <2>2, <2>3
<1>3. Cardinality(Inodes) = Cardinality(Procs) + 2
  <2>1. 1 \in Int /\ Cardinality(Procs) + 2 \in Int
    BY <1>2
  <2> QED BY <1>2, <2>1, FS_Interval DEF Inodes
<1>4. F # {}
  <2>1. SUFFICES ASSUME F = {} PROVE FALSE
    OBVIOUS
  <2>2. Inodes \in SUBSET (Open \cup {path})
    BY <2>1, Markers DEF Free
  <2>3. Cardinality(Inodes) <= Cardinality(Open \cup {path})
    BY <1>2, <2>2, FS_Subset
  <2> HIDE DEF Open
  <2> QED BY <2>3, <1>2, <1>3
<1>5. IsFiniteSet(F) /\ F \subseteq Int
  <2>1. F \in SUBSET Inodes
    OBVIOUS
  <2>2. IsFiniteSet(Inodes) /\ Inodes \subseteq Nat
    BY Markers
  <2> HIDE DEF F
  <2>3. IsFiniteSet(F)
    BY <2>1, <2>2, FS_Subset
  <2> QED BY <2>1, <2>2, <2>3
<1> HIDE DEF F
<1>6. Min(F) \in F
  BY <1>4, <1>5, MinIs
<1> QED BY <1>6 DEF F
-----------------------------------------------------------------------------
(***************************************************************************)
(* The steps.  A process is told to do something, it loads the document    *)
(* and has the one that it saves, it opens the temporary file, writes a    *)
(* half, or is done, in whatever way.                                      *)
(***************************************************************************)

Loads(p) == (LoadNoFile(p) \/ Load(p)) /\ UNCHANGED overlapped

Opens(p) == OpenTmp(p) /\ UNCHANGED <<overlapped, denied>>

Writes(p) == Write(p) /\ UNCHANGED <<overlapped, denied>>

\* rename has given config.json the inode of the temporary name.
Renames(p) == pc[p] = "rename" /\ tmp # Nothing /\ path' = tmp /\ tmp' = Nothing

Quits(p) ==
    /\ pc[p] # "idle" /\ Exit(p) /\ UNCHANGED overlapped
    /\ \/ UNCHANGED <<path, tmp>> /\ (UNCHANGED denied \/ OpensNothing)
       \/ UNCHANGED <<path, denied>> /\ tmp' = Nothing
       \/ Renames(p) /\ UNCHANGED denied

Step(p) == Start(p) \/ Loads(p) \/ Opens(p) \/ Writes(p) \/ Quits(p)

LEMMA Steps == Next => \E p \in Procs : Step(p)
<1> SUFFICES ASSUME Next PROVE \E p \in Procs : Step(p)
  OBVIOUS
<1>1. PICK p \in Procs : \/ Start(p)
                         \/ LoadConfig(p) /\ UNCHANGED overlapped
                         \/ (SaveConfig(p) \/ Crash(p)) /\ UNCHANGED <<overlapped, denied>>
  BY DEF Next
<1>2. CASE Start(p)
  BY <1>2 DEF Step
<1>3. CASE LoadConfig(p) /\ UNCHANGED overlapped
  <2>1. CASE LoadNoFile(p) \/ Load(p)
    BY <1>3, <2>1 DEF Step, Loads
  <2>2. CASE LoadInvalid(p)
    BY <1>3, <2>2 DEF Step, Quits, LoadInvalid
  <2>3. CASE NoSuchKey(p)
    BY <1>3, <2>3 DEF Step, Quits, NoSuchKey
  <2> QED BY <1>3, <2>1, <2>2, <2>3 DEF LoadConfig
<1>4. CASE (SaveConfig(p) \/ Crash(p)) /\ UNCHANGED <<overlapped, denied>>
  <2>1. CASE OpenTmp(p)
    BY <1>4, <2>1 DEF Step, Opens
  <2>2. CASE Write(p)
    BY <1>4, <2>2 DEF Step, Writes
  <2>3. CASE OpenFails(p) \/ Crash(p)
    BY <1>4, <2>3 DEF Step, Quits, OpenFails, Crash
  <2>4. CASE WriteFails(p)
    BY <1>4, <2>4 DEF Step, Quits, WriteFails
  <2>5. CASE Rename(p)
    BY <1>4, <2>5 DEF Step, Quits, Rename, Renames
  <2> QED BY <1>4, <2>1, <2>2, <2>3, <2>4, <2>5 DEF SaveConfig
<1> QED BY <1>1, <1>2, <1>3, <1>4

\* What a process has in hand stays as it is while another one acts.
Kept(q) ==
    /\ pc'[q] = pc[q] /\ fd'[q] = fd[q] /\ verb'[q] = verb[q] /\ key'[q] = key[q]
    /\ value'[q] = value[q] /\ doc'[q] = doc[q]

LEMMA StepOf ==
    ASSUME Shape, NEW p \in Procs, Types', Own(p)', \A q \in Procs \ {p} : Kept(q)
    PROVE  Shape'
<1>1. ASSUME NEW q \in Procs, q # p PROVE Own(q)'
  BY <1>1 DEF Shape, Own, Kept
<1> QED BY <1>1 DEF Shape

LEMMA OthersKeep ==
    ASSUME Types, NEW p \in Procs, Step(p), NEW q \in Procs \ {p}
    PROVE  Kept(q)
<1>1. CASE Start(p)
  BY <1>1 DEF Kept, Types, Start, Goto, fileVars
<1>2. CASE Loads(p)
  BY <1>2 DEF Kept, Types, Loads, LoadNoFile, Load, Save, Goto, fileVars, argVars
<1>3. CASE Opens(p)
  BY <1>3 DEF Kept, Types, Opens, OpenTmp, OpenInode, Goto, argVars
<1>4. CASE Writes(p)
  BY <1>4 DEF Kept, Types, Writes, Write, WriteHalf, Goto, argVars
<1>5. CASE Quits(p)
  BY <1>5 DEF Kept, Types, Quits, Exit, Goto
<1> QED BY <1>1, <1>2, <1>3, <1>4, <1>5 DEF Step
-----------------------------------------------------------------------------
(***************************************************************************)
(* Types.                                                                  *)
(***************************************************************************)

LEMMA StartShape ==
    ASSUME Shape, NEW p \in Procs, Start(p)
    PROVE  Types' /\ Own(p)'
<1>1. Types /\ Own(p)
  BY DEF Shape
<1>2. PICK k \in Keys :
          /\ key' = [key EXCEPT ![p] = k]
          /\ \/ /\ verb' = [verb EXCEPT ![p] = "set"]
                /\ \E v \in Values : value' = [value EXCEPT ![p] = v]
             \/ verb' = [verb EXCEPT ![p] = "unset"] /\ UNCHANGED value
  BY DEF Start
<1>3. /\ pc[p] = "idle" /\ pc' = [pc EXCEPT ![p] = "load"]
      /\ found' = Nothing /\ UNCHANGED <<path, tmp, files, fd, doc, denied>>
      /\ overlapped' = (overlapped \/ \E q \in Procs : pc[q] # "idle")
  BY DEF Start, Goto, fileVars
<1>4. /\ pc' \in [Procs -> Labels] /\ verb' \in [Procs -> {"none", "set", "unset"}]
      /\ key' \in [Procs -> Keys \cup {Nothing}] /\ overlapped' \in BOOLEAN
  BY <1>1, <1>2, <1>3 DEF Types, Labels
<1>5. value' \in [Procs -> Values \cup {Nothing}]
  BY <1>1, <1>2 DEF Types
<1>6. Types'
  BY <1>1, <1>3, <1>4, <1>5 DEF Types
<1>7. Own(p)'
  BY <1>1, <1>2, <1>3 DEF Own, Types, Writing
<1> QED BY <1>6, <1>7

\* What a process that gets to open its file has found.
LEMMA LoadsDocument ==
    ASSUME NEW p \in Procs, Loads(p)
    PROVE  /\ pc[p] = "load" /\ UNCHANGED overlapped
           /\ \E d \in Documents :
                  /\ Save(p, d)
                  /\ \/ d = NewDocument /\ verb[p] = "set" /\ OpensNothing
                     \/ /\ d = config /\ UNCHANGED denied
                        /\ verb[p] = "unset" => config.rpc[key[p]] # Absent
<1>1. CASE LoadNoFile(p)
  BY <1>1, NewDocumentIs DEF Loads, LoadNoFile
<1>2. CASE Load(p)
  BY <1>2 DEF Loads, Load
<1> QED BY <1>1, <1>2 DEF Loads

LEMMA LoadShape ==
    ASSUME Shape, NEW p \in Procs, Loads(p)
    PROVE  Types' /\ Own(p)'
<1>1. Types /\ Own(p) /\ ConfigIs
  BY ConfigTypes DEF Shape
<1>2. PICK d \in Documents : Save(p, d) /\ (OpensNothing \/ UNCHANGED denied)
  BY LoadsDocument
<1>3. /\ pc[p] = "load" /\ pc' = [pc EXCEPT ![p] = "open"]
      /\ doc' = [doc EXCEPT ![p] = Changed(p, d)]
      /\ found' = IF overlapped THEN Nothing ELSE config
      /\ UNCHANGED <<path, tmp, files, fd, verb, key, value, overlapped>>
  BY <1>2, LoadsDocument DEF Save, Goto, fileVars, argVars
<1>4. Changed(p, d) \in Documents
  BY <1>1, <1>3, ChangedIs
<1>5. found' \in Documents \cup {Nothing, NoFile, Invalid} /\ denied' \in BOOLEAN
  BY <1>1, <1>2, <1>3 DEF Types, ConfigIs, OpensNothing
<1>6. pc' \in [Procs -> Labels] /\ doc' \in [Procs -> Documents \cup {Nothing}]
  BY <1>1, <1>3, <1>4 DEF Types, Labels
<1>7. Types'
  BY <1>1, <1>3, <1>5, <1>6 DEF Types
<1>8. Own(p)'
  BY <1>1, <1>3, <1>4 DEF Own, Types, Writing
<1> QED BY <1>7, <1>8

\* The inode that OpenTmp gives the temporary name.
LEMMA OpensInode ==
    ASSUME Types, NEW p \in Procs, Opens(p)
    PROVE  \E i \in Inodes : /\ OpenInode(p, i) /\ tmp' = i /\ i # path
                             /\ tmp # Nothing => i = tmp
                             /\ tmp = Nothing => Free(i)
<1> DEFINE F == {i \in Inodes : Free(i)}
           j == IF tmp # Nothing THEN tmp ELSE Min(F)
<1>1. OpenInode(p, j) /\ tmp' = j
  BY DEF Opens, OpenTmp
<1>2. CASE tmp # Nothing
  BY <1>1, <1>2 DEF Types
<1>3. CASE tmp = Nothing
  <2>1. Min(F) \in F
    BY <1>3, FreeInode
  <2>2. j = Min(F)
    BY <1>3
  <2> HIDE DEF j
  <2>3. j \in Inodes /\ Free(j)
    BY <2>1, <2>2
  <2> QED BY <1>1, <1>3, <2>3 DEF Free
<1> QED BY <1>2, <1>3

LEMMA OpenShape ==
    ASSUME Shape, NEW p \in Procs, Opens(p)
    PROVE  Types' /\ Own(p)'
<1>1. Types /\ Own(p)
  BY DEF Shape
<1>2. PICK i \in Inodes : OpenInode(p, i) /\ tmp' = i /\ i # path
  BY <1>1, OpensInode
<1>3. /\ pc[p] = "open" /\ pc' = [pc EXCEPT ![p] = "write"]
      /\ files' = [files EXCEPT ![i] = Gone] /\ fd' = [fd EXCEPT ![p] = i]
      /\ UNCHANGED <<path, verb, key, value, doc, found, overlapped, denied>>
  BY <1>2 DEF Opens, OpenTmp, OpenInode, Goto, argVars
<1>4. files' \in [Inodes -> Contents] /\ fd' \in [Procs -> Inodes \cup {Nothing}]
  BY <1>1, <1>3, GoneIs DEF Types
<1>5. pc' \in [Procs -> Labels]
  BY <1>1, <1>3 DEF Types, Labels
<1>6. Types'
  BY <1>1, <1>2, <1>3, <1>4, <1>5 DEF Types
<1>7. Own(p)'
  BY <1>1, <1>3, Markers DEF Own, Types, Writing
<1> QED BY <1>6, <1>7

\* A half of the document is in the file, and the other half is as it was.
LEMMA WritesHalf ==
    ASSUME Shape, NEW p \in Procs, Writes(p)
    PROVE  \E half \in 1 .. 2 :
               /\ pc[p] = IF half = 1 THEN "write" ELSE "write_rest"
               /\ pc' = [pc EXCEPT ![p] = IF half = 1 THEN "write_rest" ELSE "rename"]
               /\ files' = [files EXCEPT ![fd[p]] = [files[fd[p]] EXCEPT ![half] = Emitted(doc[p])]]
               /\ UNCHANGED <<path, tmp, fd, verb, key, value, doc, found, overlapped, denied>>
<1>1. Types /\ Own(p)
  BY DEF Shape
<1>2. CASE WriteHalf(p, "write", 1, "write_rest")
  BY <1>1, <1>2 DEF Writes, WriteHalf, Goto, argVars
<1>3. CASE WriteHalf(p, "write_rest", 2, "rename")
  BY <1>1, <1>3 DEF Writes, WriteHalf, Goto, argVars
<1> QED BY <1>2, <1>3 DEF Writes, Write

LEMMA WriteShape ==
    ASSUME Shape, NEW p \in Procs, Writes(p)
    PROVE  Types' /\ Own(p)'
<1>1. Types /\ Own(p)
  BY DEF Shape
<1>2. PICK half \in 1 .. 2 :
          /\ pc[p] = IF half = 1 THEN "write" ELSE "write_rest"
          /\ pc' = [pc EXCEPT ![p] = IF half = 1 THEN "write_rest" ELSE "rename"]
          /\ files' = [files EXCEPT ![fd[p]] = [files[fd[p]] EXCEPT ![half] = Emitted(doc[p])]]
          /\ UNCHANGED <<path, tmp, fd, verb, key, value, doc, found, overlapped, denied>>
  BY WritesHalf
<1>3. fd[p] \in Inodes /\ Emitted(doc[p]) \in Documents
  BY <1>1, <1>2, EmittedIs DEF Own, Types, Writing
<1>4. files[fd[p]] \in Contents
  BY <1>1, <1>3 DEF Types
<1>5. [files[fd[p]] EXCEPT ![half] = Emitted(doc[p])] \in Contents
  BY <1>3, <1>4 DEF Contents
<1>6. files' \in [Inodes -> Contents]
  BY <1>1, <1>2, <1>5 DEF Types
<1>7. pc' \in [Procs -> Labels]
  BY <1>1, <1>2 DEF Types, Labels
<1>8. Types'
  BY <1>1, <1>2, <1>6, <1>7 DEF Types
<1>9. Own(p)'
  BY <1>1, <1>2 DEF Own, Types, Writing
<1> QED BY <1>8, <1>9

LEMMA QuitShape ==
    ASSUME Shape, NEW p \in Procs, Quits(p)
    PROVE  Types' /\ Own(p)'
<1>1. Types /\ Own(p)
  BY DEF Shape
<1>2. /\ pc' = [pc EXCEPT ![p] = "idle"] /\ verb' = [verb EXCEPT ![p] = "none"]
      /\ key' = [key EXCEPT ![p] = Nothing] /\ value' = [value EXCEPT ![p] = Nothing]
      /\ found' = Nothing /\ doc' = [doc EXCEPT ![p] = Nothing]
      /\ fd' = [fd EXCEPT ![p] = Nothing] /\ UNCHANGED overlapped
      /\ files' = [i \in Inodes |-> IF Free(i)' THEN Gone ELSE files[i]]
  BY DEF Quits, Exit, Goto
<1>3. files' \in [Inodes -> Contents]
  BY <1>1, <1>2, GoneIs DEF Types
<1>4. /\ path' \in Inodes \cup {Nothing} /\ tmp' \in Inodes \cup {Nothing}
      /\ path' # Nothing => path' # tmp'
  BY <1>1 DEF Quits, Renames, Types
<1>5. pc' \in [Procs -> Labels] /\ verb' \in [Procs -> {"none", "set", "unset"}]
  BY <1>1, <1>2 DEF Types, Labels
<1>6. /\ key' \in [Procs -> Keys \cup {Nothing}] /\ value' \in [Procs -> Values \cup {Nothing}]
      /\ fd' \in [Procs -> Inodes \cup {Nothing}]
  BY <1>1, <1>2 DEF Types
<1>7. doc' \in [Procs -> Documents \cup {Nothing}] /\ denied' \in BOOLEAN
  BY <1>1, <1>2 DEF Types, Quits, OpensNothing
<1>8. Types'
  BY <1>1, <1>2, <1>3, <1>4, <1>5, <1>6, <1>7 DEF Types
<1>9. Own(p)'
  BY <1>1, <1>2 DEF Own, Types, Writing
<1> QED BY <1>8, <1>9

LEMMA ShapeInit == Init => Shape
<1> SUFFICES ASSUME Init PROVE Shape
  OBVIOUS
<1>1. Cardinality(Procs) \in Nat
  BY ProcsAssumption, FS_CardinalityType
<1>2. 1 \in Inodes /\ 2 \in Inodes
  BY <1>1 DEF Inodes
<1>3. files \in [Inodes -> Contents]
  <2>1. PICK d \in Documents : \E rest \in {d, Nothing} :
            files = [i \in Inodes |-> IF i = path THEN <<d, rest>> ELSE Gone]
    BY DEF Init
  <2>2. PICK rest \in {d, Nothing} :
            files = [i \in Inodes |-> IF i = path THEN <<d, rest>> ELSE Gone]
    BY <2>1
  <2>3. <<d, rest>> \in Contents
    BY DEF Contents
  <2> QED BY <2>2, <2>3, GoneIs
<1>4. Types
  <2>1. path \in Inodes \cup {Nothing} /\ tmp \in Inodes \cup {Nothing}
    BY <1>2 DEF Init
  <2>2. path # Nothing => path # tmp
    BY DEF Init
  <2>3. overlapped \in BOOLEAN /\ denied \in BOOLEAN /\ pc \in [Procs -> Labels] /\ fd \in [Procs -> Inodes \cup {Nothing}]
    BY DEF Init, Labels
  <2>4. /\ verb \in [Procs -> {"none", "set", "unset"}]
        /\ key \in [Procs -> Keys \cup {Nothing}] /\ value \in [Procs -> Values \cup {Nothing}]
    BY DEF Init
  <2>5. doc \in [Procs -> Documents \cup {Nothing}] /\ found = Nothing
    BY DEF Init
  <2> QED BY <1>3, <2>1, <2>2, <2>3, <2>4, <2>5 DEF Types
<1>5. \A p \in Procs : Own(p)
  BY DEF Init, Own, Writing
<1> QED BY <1>4, <1>5 DEF Shape

LEMMA ShapeStep == Shape /\ [Next]_vars => Shape'
<1> SUFFICES ASSUME Shape, [Next]_vars PROVE Shape'
  OBVIOUS
<1>1. CASE Next
  <2>1. PICK p \in Procs : Step(p)
    BY <1>1, Steps
  <2>2. \A q \in Procs \ {p} : Kept(q)
    BY <2>1, OthersKeep DEF Shape
  <2>3. Types' /\ Own(p)'
    BY <2>1, StartShape, LoadShape, OpenShape, WriteShape, QuitShape DEF Step
  <2> QED BY <2>2, <2>3, StepOf
<1>2. CASE UNCHANGED vars
  BY <1>2 DEF vars, fileVars, argVars, Shape, Types, Own
<1> QED BY <1>1, <1>2

\* Every variable has its type, an inode has one name, and a process has a file
\* open exactly while it writes, also when processes overlap, fail and die.
THEOREM TypeCorrect == Spec => []TypeOK
<1>1. Spec => []Shape
  BY ShapeInit, ShapeStep, PTL DEF Spec
<1>2. Shape => TypeOK
  BY DEF Shape, Types, Own, TypeOK, Writing
<1> QED BY <1>1, <1>2, PTL
-----------------------------------------------------------------------------
(***************************************************************************)
(* Unknown fields.                                                         *)
(***************************************************************************)

LEMMA UnknownInit == Init => SameUnknown /\ PreciseIsOld
<1> SUFFICES ASSUME Init PROVE (\E u \in Unknowns : UnknownIs(u)) /\ PreciseIsOld
  BY DEF SameUnknown
<1>1. PICK d \in Documents : \E rest \in {d, Nothing} :
          files = [i \in Inodes |-> IF i = path THEN <<d, rest>> ELSE Gone]
  BY DEF Init
<1>2. PICK rest \in {d, Nothing} :
          files = [i \in Inodes |-> IF i = path THEN <<d, rest>> ELSE Gone]
  BY <1>1
<1>3. d.unknown \in Unknowns
  BY DEF Documents, Unknowns
<1>4. \A p \in Procs : doc[p] = Nothing /\ fd[p] = Nothing
  BY DEF Init
<1>5. ASSUME NEW i \in Inodes, NEW half \in 1 .. 2, files[i][half] # Nothing
      PROVE  i = path /\ files[i][half] = d
  <2>1. CASE i = path
    <3>1. files[i] = <<d, rest>>
      BY <1>2, <2>1
    <3> QED BY <3>1, <2>1, <1>5
  <2>2. CASE i # path
    BY <1>2, <1>5, <2>2, GoneIs
  <2> QED BY <2>1, <2>2
<1>6. PreciseIsOld
  BY <1>4, <1>5, Markers DEF PreciseIsOld
<1>7. CASE path = Nothing
  <2>1. UnknownIs("none")
    BY <1>4, <1>5, <1>7, Markers DEF UnknownIs
  <2> QED BY <2>1, <1>6 DEF Unknowns
<1>8. CASE path # Nothing
  <2>1. UnknownIs(d.unknown)
    BY <1>4, <1>5, <1>8 DEF UnknownIs
  <2> QED BY <2>1, <1>3, <1>6
<1> QED BY <1>7, <1>8

\* What a step leaves in the files: what was there, nothing, or a document that
\* a process had in hand, as it is printed.
StoredBy(p) ==
    \A i \in Inodes, half \in 1 .. 2 :
        \/ files'[i][half] \in {files[i][half], Nothing}
        \/ doc[p] \in Documents /\ files'[i][half] = Emitted(doc[p])

LEMMA Stores ==
    ASSUME Shape, NEW p \in Procs, Step(p)
    PROVE  StoredBy(p)
<1>1. Types /\ Own(p)
  BY DEF Shape
<1>2. CASE Start(p)
  BY <1>2 DEF Start, fileVars, StoredBy
<1>3. CASE Loads(p)
  <2>1. UNCHANGED files
    BY <1>3, LoadsDocument DEF Save, fileVars
  <2> QED BY <2>1 DEF StoredBy
<1>4. CASE Opens(p)
  <2>1. PICK i \in Inodes : files' = [files EXCEPT ![i] = Gone]
    BY <1>1, <1>4, OpensInode DEF OpenInode
  <2>2. \A j \in Inodes : files'[j] = files[j] \/ files'[j] = Gone
    BY <1>1, <2>1 DEF Types
  <2> QED BY <2>2, GoneIs DEF StoredBy
<1>5. CASE Writes(p)
  <2>1. PICK half \in 1 .. 2 :
            /\ pc[p] = IF half = 1 THEN "write" ELSE "write_rest"
            /\ files' = [files EXCEPT ![fd[p]] = [files[fd[p]] EXCEPT ![half] = Emitted(doc[p])]]
    BY <1>5, WritesHalf
  <2>2. doc[p] \in Documents
    BY <1>1, <2>1 DEF Own, Writing
  <2>3. \A j \in Inodes : files[j] \in Contents
    BY <1>1 DEF Types
  <2> HIDE DEF Emitted
  <2> QED BY <1>1, <2>1, <2>2, <2>3 DEF Types, Contents, StoredBy
<1>6. CASE Quits(p)
  <2>1. \A j \in Inodes : files'[j] = files[j] \/ files'[j] = Gone
    BY <1>6 DEF Quits, Exit
  <2> QED BY <2>1, GoneIs DEF StoredBy
<1> QED BY <1>2, <1>3, <1>4, <1>5, <1>6 DEF Step

\* No step forgets that an open was denied.
LEMMA DeniedStays == ASSUME Shape, [Next]_vars, ~denied' PROVE ~denied
<1>1. denied \in BOOLEAN
  BY DEF Shape, Types
<1>2. CASE UNCHANGED vars
  BY <1>2 DEF vars
<1>3. CASE Next
  <2>1. PICK p \in Procs : Step(p)
    BY <1>3, Steps
  <2>2. CASE Loads(p)
    <3>1. UNCHANGED denied \/ OpensNothing
      BY <2>2, LoadsDocument
    <3> QED BY <3>1, <1>1 DEF OpensNothing
  <2>3. CASE Start(p) \/ Opens(p) \/ Writes(p)
    BY <2>3 DEF Start, Opens, Writes
  <2>4. CASE Quits(p)
    BY <1>1, <2>4 DEF Quits, OpensNothing
  <2> QED BY <2>1, <2>2, <2>3, <2>4 DEF Step
<1> QED BY <1>2, <1>3

LEMMA UnknownStep ==
    ASSUME Shape, [Next]_vars, ~denied', NEW u \in Unknowns, UnknownIs(u)
    PROVE  UnknownIs(u)'
<1>1. CASE UNCHANGED vars
  BY <1>1 DEF vars, fileVars, UnknownIs
<1>2. CASE Next
  <2>1. PICK p \in Procs : Step(p)
    BY <1>2, Steps
  <2>2. Types /\ Own(p) /\ ConfigIs
    BY ConfigTypes DEF Shape
  <2>3. ASSUME NEW i \in Inodes, NEW half \in 1 .. 2, files'[i][half] # Nothing
        PROVE  files'[i][half].unknown \in {u, Printed(u)}
    <3>1. CASE files'[i][half] = files[i][half]
      BY <2>3, <3>1 DEF UnknownIs
    <3>2. CASE doc[p] \in Documents /\ files'[i][half] = Emitted(doc[p])
      <4>1. doc[p].unknown \in {u, Printed(u)}
        BY <3>2, Markers DEF UnknownIs
      <4>2. Emitted(doc[p]).unknown = Printed(doc[p].unknown)
        BY <3>2, EmittedIs
      <4> QED BY <3>2, <4>1, <4>2 DEF Printed
    <3>3. StoredBy(p)
      BY <2>1, Stores
    <3> QED BY <2>3, <3>1, <3>2, <3>3 DEF StoredBy
  <2>4. CASE Loads(p)
    <3>1. PICK d \in Documents :
              /\ Save(p, d)
              /\ \/ d = NewDocument /\ OpensNothing
                 \/ d = config
      BY <2>4, LoadsDocument
    <3>2. UNCHANGED <<path, files>> /\ doc' = [doc EXCEPT ![p] = Changed(p, d)]
      BY <3>1 DEF Save, fileVars
    <3>3. d.unknown \in {u, Printed(u)}
      <4>1. CASE d = NewDocument /\ OpensNothing
        <5>1. config = NoFile
          BY <4>1 DEF OpensNothing
        <5> QED BY <2>2, <4>1, <5>1, NewDocumentIs DEF ConfigIs, UnknownIs
      <4>2. CASE d = config
        <5>1. path \in Inodes /\ files[path][1] = d
          BY <2>2, <4>2 DEF ConfigIs
        <5> QED BY <5>1, Markers DEF UnknownIs
      <4> QED BY <3>1, <4>1, <4>2
    <3>4. Changed(p, d).unknown \in {u, Printed(u)}
      <4>1. pc[p] # "idle"
        BY <2>4, LoadsDocument
      <4> QED BY <2>2, <3>3, <4>1, ChangedIs
    <3>5. \A q \in Procs : doc'[q] = doc[q] \/ doc'[q] = Changed(p, d)
      BY <2>2, <3>2 DEF Types
    <3> QED BY <2>3, <3>2, <3>4, <3>5 DEF UnknownIs
  <2>5. CASE ~Loads(p)
    <3>1. \A q \in Procs : doc'[q] = doc[q] \/ doc'[q] = Nothing
      <4>1. CASE Quits(p)
        BY <2>2, <4>1 DEF Quits, Exit, Types
      <4>2. CASE Start(p) \/ Opens(p) \/ Writes(p)
        BY <4>2 DEF Start, Opens, OpenTmp, OpenInode, Writes, Write, WriteHalf
      <4> QED BY <2>1, <2>5, <4>1, <4>2 DEF Step
    <3>2. path' = Nothing => path = Nothing
      <4>1. CASE Quits(p)
        BY <4>1 DEF Quits, Renames
      <4>2. CASE Start(p) \/ Opens(p) \/ Writes(p)
        BY <4>2 DEF Start, fileVars, Opens, OpenTmp, OpenInode, Writes, Write, WriteHalf
      <4> QED BY <2>1, <2>5, <4>1, <4>2 DEF Step
    <3> QED BY <2>3, <3>1, <3>2 DEF UnknownIs
  <2> QED BY <2>4, <2>5
<1> QED BY <1>1, <1>2

\* An inode with numbers to round stays what it is until it loses its name, and
\* is gone then, because nobody has it open.
LEMMA PreciseStep ==
    ASSUME Shape, PreciseIsOld, [Next]_vars
    PROVE  PreciseIsOld'
<1>1. CASE UNCHANGED vars
  BY <1>1 DEF vars, fileVars, PreciseIsOld
<1>2. CASE Next
  <2>1. PICK p \in Procs : Step(p)
    BY <1>2, Steps
  <2>2. Types /\ Own(p)
    BY DEF Shape
  <2> SUFFICES ASSUME NEW i \in Inodes, NEW half \in 1 .. 2,
                      files'[i][half] # Nothing, files'[i][half].unknown = "precise"
               PROVE  i = path' /\ \A q \in Procs : fd'[q] # i
    BY DEF PreciseIsOld
  <2>3. files'[i][half] = files[i][half]
    <3>1. StoredBy(p)
      BY <2>1, Stores
    <3> QED BY <3>1, EmittedIs DEF StoredBy
  <2>4. i = path /\ \A q \in Procs : fd[q] # i
    BY <2>3 DEF PreciseIsOld
  <2>5. CASE Start(p)
    BY <2>4, <2>5 DEF Start, fileVars
  <2>6. CASE Loads(p)
    <3>1. UNCHANGED <<path, fd>>
      BY <2>6, LoadsDocument DEF Save, fileVars
    <3> QED BY <2>4, <3>1
  <2>7. CASE Opens(p)
    <3>1. PICK j \in Inodes : OpenInode(p, j) /\ j # path
      BY <2>2, <2>7, OpensInode
    <3>2. path' = path /\ fd' = [fd EXCEPT ![p] = j]
      BY <3>1 DEF OpenInode
    <3> QED BY <2>2, <2>4, <3>1, <3>2 DEF Types
  <2>8. CASE Writes(p)
    <3>1. UNCHANGED <<path, fd>>
      BY <2>8, WritesHalf
    <3> QED BY <2>4, <3>1
  <2>9. CASE Quits(p)
    <3>1. fd' = [fd EXCEPT ![p] = Nothing] /\ (Free(i)' => files'[i] = Gone)
      BY <2>9 DEF Quits, Exit
    <3>2. \A q \in Procs : fd'[q] # i
      BY <2>2, <2>4, <3>1, Markers DEF Types
    <3>3. CASE path' = path
      BY <2>4, <3>2, <3>3
    <3>4. CASE Renames(p)
      <4>1. path' # i /\ tmp' # i
        BY <2>2, <2>4, <3>4, Markers DEF Renames, Types
      <4>2. Free(i)'
        BY <3>2, <4>1 DEF Free
      <4> QED BY <3>1, <4>2, GoneIs
    <3> QED BY <2>9, <3>3, <3>4 DEF Quits
  <2> QED BY <2>1, <2>5, <2>6, <2>7, <2>8, <2>9 DEF Step
<1> QED BY <1>1, <1>2

\* As long as every config.json that is there can be opened, unknown fields
\* survive every rewrite that leaves a document, whoever else writes at the same
\* time, and what json_pretty rounds it rounds once.
THEOREM Unknown == Spec => UnknownKept
<1>1. SameUnknown /\ Shape /\ [Next]_vars => SameUnknown'
  <2> SUFFICES ASSUME SameUnknown, Shape, [Next]_vars, ~denied'
               PROVE  \E u \in Unknowns : UnknownIs(u)'
    BY DEF SameUnknown
  <2>1. PICK u \in Unknowns : UnknownIs(u)
    BY DeniedStays DEF SameUnknown
  <2>2. UnknownIs(u)'
    BY <2>1, UnknownStep
  <2> QED BY <2>2
<1>2. (Types => ConfigIs)'
  BY ConfigTypes, PTL
<1>3. ASSUME Shape, Shape', SameUnknown, PreciseIsOld, Next, ~denied',
             {config, config'} \subseteq Documents
      PROVE  config'.unknown \in {config.unknown, Emitted(config).unknown}
  <2>1. PICK u \in Unknowns : UnknownIs(u)
    BY <1>3, DeniedStays DEF SameUnknown
  <2>2. UnknownIs(u)'
    BY <1>3, <2>1, UnknownStep
  <2>3. path \in Inodes /\ files[path][1] = config
    BY <1>3, ConfigTypes DEF Shape, ConfigIs
  <2>4. path' \in Inodes /\ files'[path'][1] = config'
    BY <1>2, <1>3 DEF Shape, ConfigIs
  <2>5. config.unknown \in {u, Printed(u)} /\ config # Nothing
    BY <2>1, <2>3, <1>3, Markers DEF UnknownIs
  <2>6. config'.unknown \in {u, Printed(u)} /\ config' # Nothing
    BY <2>2, <2>4, <1>3, Markers DEF UnknownIs
  <2>7. config'.unknown = "precise" => config.unknown = "precise"
    <3>1. SUFFICES ASSUME config'.unknown = "precise" PROVE config.unknown = "precise"
      OBVIOUS
    <3>2. PICK p \in Procs : StoredBy(p)
      BY <1>3, Steps, Stores
    <3>3. files'[path'][1] = files[path'][1]
      BY <2>4, <2>6, <3>1, <3>2, EmittedIs DEF StoredBy
    <3>4. path' = path
      BY <2>4, <2>6, <3>1, <3>3, <1>3 DEF PreciseIsOld
    <3> QED BY <2>3, <2>4, <3>1, <3>3, <3>4
  <2>8. Emitted(config).unknown = Printed(config.unknown)
    BY <1>3, EmittedIs
  <2> QED BY <2>5, <2>6, <2>7, <2>8 DEF Printed, Unknowns
<1>4. Shape /\ Shape' /\ SameUnknown /\ PreciseIsOld /\ [Next]_vars
          => [~denied' /\ {config, config'} \subseteq Documents =>
                  config'.unknown \in {config.unknown, Emitted(config).unknown}]_vars
  BY <1>3
<1>5. Shape /\ PreciseIsOld /\ [Next]_vars => PreciseIsOld'
  BY PreciseStep
<1> QED BY <1>1, <1>4, <1>5, ShapeInit, ShapeStep, UnknownInit, PTL DEF Spec, UnknownKept
-----------------------------------------------------------------------------
(***************************************************************************)
(* Taking turns.                                                           *)
(***************************************************************************)

\* A process that leaves config.json its inode leaves it as it is: only files
\* without a name that nobody has open are gone.
LEMMA ExitKeeps ==
    ASSUME Types, NEW p \in Procs, Exit(p), path' = path
    PROVE  config' = config
<1>1. path # Nothing => files'[path] = files[path]
  BY DEF Exit, Free, Types
<1> QED BY <1>1, SameConfig

\* Only rename changes what readers find.
LEMMA OnlyRename ==
    ASSUME Shape, TakesTurns, ~overlapped, NEW p \in Procs, Step(p)
    PROVE  config' = config \/ (Quits(p) /\ Renames(p))
<1>1. Types /\ Own(p) /\ Exclusive(p)
  BY DEF Shape, TakesTurns
<1>2. CASE Start(p)
  BY <1>2, SameConfig DEF Start, fileVars
<1>3. CASE Loads(p)
  <2>1. UNCHANGED <<path, files>>
    BY <1>3, LoadsDocument DEF Save, fileVars
  <2> QED BY <2>1, SameConfig
<1>4. CASE Opens(p)
  <2>1. PICK i \in Inodes : OpenInode(p, i) /\ i # path
    BY <1>1, <1>4, OpensInode
  <2>2. path' = path /\ files' = [files EXCEPT ![i] = Gone]
    BY <2>1 DEF OpenInode
  <2>3. path # Nothing => files'[path] = files[path]
    BY <1>1, <2>1, <2>2 DEF Types
  <2> QED BY <2>2, <2>3, SameConfig
<1>5. CASE Writes(p)
  <2>1. PICK half \in 1 .. 2 :
            /\ pc[p] = IF half = 1 THEN "write" ELSE "write_rest"
            /\ files' = [files EXCEPT ![fd[p]] = [files[fd[p]] EXCEPT ![half] = Emitted(doc[p])]]
            /\ UNCHANGED path
    BY <1>5, WritesHalf
  <2>2. path # Nothing => fd[p] # path
    BY <1>1, <2>1 DEF Exclusive, Writing, Types
  <2>3. path # Nothing => files'[path] = files[path]
    BY <1>1, <2>1, <2>2 DEF Types
  <2> QED BY <2>1, <2>3, SameConfig
<1>6. CASE Quits(p)
  BY <1>1, <1>6, ExitKeeps DEF Quits
<1> QED BY <1>2, <1>3, <1>4, <1>5, <1>6 DEF Step

\* It is enough to look at the process that acts, the others being idle.
LEMMA TurnOf ==
    ASSUME Shape, TakesTurns, NEW p \in Procs, Step(p),
           ~overlapped' => ~overlapped /\ \A q \in Procs \ {p} : pc[q] = "idle",
           ~overlapped' => Exclusive(p)'
    PROVE  TakesTurns'
<1> SUFFICES ASSUME ~overlapped'
             PROVE  /\ \A q, r \in Procs : pc'[q] # "idle" /\ pc'[r] # "idle" => q = r
                    /\ \A q \in Procs : Exclusive(q)'
  BY DEF TakesTurns
<1>1. \A q \in Procs \ {p} : pc'[q] = "idle"
  BY OthersKeep DEF Shape, Kept
<1>2. ASSUME NEW q \in Procs \ {p} PROVE Exclusive(q)'
  BY <1>1 DEF Exclusive, Writing
<1> QED BY <1>1, <1>2

LEMMA TurnsStep == Shape /\ TakesTurns /\ [Next]_vars => TakesTurns'
<1> SUFFICES ASSUME Shape, TakesTurns, [Next]_vars PROVE TakesTurns'
  OBVIOUS
<1>1. CASE UNCHANGED vars
  <2>1. config' = config
    BY <1>1, SameConfig DEF vars, fileVars
  <2> QED BY <1>1, <2>1 DEF vars, fileVars, argVars, TakesTurns, Exclusive, Prepared,
                            Changed, NewValue
<1>2. CASE Next
  <2>1. PICK p \in Procs : Step(p)
    BY <1>2, Steps
  <2>2. Types /\ Own(p) /\ ConfigIs
    BY ConfigTypes DEF Shape
  <2>3. CASE Start(p)
    <3>1. ~overlapped' => ~overlapped /\ \A q \in Procs : pc[q] = "idle"
      BY <2>3 DEF Start
    <3>2. Exclusive(p)'
      BY <2>2, <2>3 DEF Start, Goto, Types, Exclusive, Writing
    <3> QED BY <2>1, <2>3, <3>1, <3>2, TurnOf
  <2>4. ASSUME ~Start(p), ~overlapped
        PROVE  /\ pc[p] # "idle" /\ overlapped' = overlapped /\ Exclusive(p)
               /\ \A q \in Procs \ {p} : pc[q] = "idle"
    <3>1. pc[p] # "idle" /\ overlapped' = overlapped
      BY <2>1, <2>4, LoadsDocument DEF Step, Opens, OpenTmp, Writes, Write, WriteHalf, Quits
    <3> QED BY <2>4, <3>1 DEF TakesTurns
  <2>5. CASE overlapped
    <3>1. overlapped'
      BY <2>1, <2>5 DEF Step, Start, Loads, Opens, Writes, Quits
    <3> QED BY <3>1 DEF TakesTurns
  <2>6. ASSUME Loads(p), ~overlapped PROVE Exclusive(p)'
    <3>1. PICK d \in Documents :
              /\ Save(p, d)
              /\ \/ d = NewDocument /\ verb[p] = "set" /\ OpensNothing
                 \/ /\ d = config /\ UNCHANGED denied
                    /\ verb[p] = "unset" => config.rpc[key[p]] # Absent
      BY <2>6, LoadsDocument
    <3>2. /\ pc' = [pc EXCEPT ![p] = "open"] /\ doc' = [doc EXCEPT ![p] = Changed(p, d)]
          /\ found' = config /\ UNCHANGED <<path, files, verb, key, value>>
      BY <2>6, <3>1 DEF Save, Goto, fileVars, argVars
    <3>3. config' = config
      BY <3>2, SameConfig
    <3>4. pc'[p] = "open" /\ doc'[p] = Changed(p, d)
      BY <2>2, <3>2 DEF Types
    <3>5. Changed(p, d)' = Changed(p, d) /\ Changed(p, NewDocument)' = Changed(p, NewDocument)
      BY <3>2 DEF Changed, NewValue, NewDocument
    <3>6. Prepared(p)'
      <4>1. CASE d = NewDocument /\ verb[p] = "set" /\ OpensNothing
        <5>1. denied' \/ config' = NoFile
          BY <3>3, <4>1 DEF OpensNothing
        <5>2. verb'[p] = "set" /\ doc'[p] = Changed(p, NewDocument)'
          BY <3>2, <3>4, <3>5, <4>1
        <5> QED BY <5>1, <5>2 DEF Prepared, NewDocument
      <4>2. CASE /\ d = config
                 /\ verb[p] = "unset" => config.rpc[key[p]] # Absent
        <5>1. config' \in Documents /\ doc'[p] = Changed(p, config)'
          BY <3>2, <3>3, <3>4, <4>2 DEF Changed, NewValue
        <5>2. verb'[p] = "unset" => config'.rpc[key'[p]] # Absent
          BY <3>2, <3>3, <4>2
        <5> QED BY <5>1, <5>2 DEF Prepared
      <4> QED BY <3>1, <4>1, <4>2
    <3> QED BY <3>2, <3>3, <3>4, <3>6 DEF Exclusive, Writing
  <2>7. ASSUME Opens(p), ~overlapped PROVE Exclusive(p)'
    <3>1. PICK i \in Inodes : OpenInode(p, i) /\ tmp' = i
      BY <2>2, <2>7, OpensInode
    <3>2. /\ pc[p] = "open" /\ pc' = [pc EXCEPT ![p] = "write"] /\ fd' = [fd EXCEPT ![p] = i]
          /\ UNCHANGED <<verb, key, value, doc, found, denied>>
      BY <2>7, <3>1 DEF Opens, OpenTmp, OpenInode, Goto, argVars
    <3>3. config' = config
      BY <2>1, <2>7, <3>2, OnlyRename DEF Renames
    <3>4. Prepared(p) => Prepared(p)'
      BY <3>2, <3>3 DEF Prepared, Changed, NewValue, NewDocument
    <3>5. pc'[p] = "write" /\ fd'[p] = tmp'
      BY <2>2, <3>1, <3>2 DEF Types
    <3>6. Exclusive(p) /\ ~Start(p)
      BY <2>4, <2>7, <3>2 DEF Start
    <3> QED BY <3>2, <3>3, <3>4, <3>5, <3>6 DEF Exclusive, Writing
  <2>8. ASSUME Writes(p), ~overlapped PROVE Exclusive(p)'
    <3>1. PICK half \in 1 .. 2 :
              /\ pc[p] = IF half = 1 THEN "write" ELSE "write_rest"
              /\ pc' = [pc EXCEPT ![p] = IF half = 1 THEN "write_rest" ELSE "rename"]
              /\ files' = [files EXCEPT ![fd[p]] = [files[fd[p]] EXCEPT ![half] = Emitted(doc[p])]]
              /\ UNCHANGED <<path, tmp, fd, verb, key, value, doc, found, overlapped, denied>>
      BY <2>8, WritesHalf
    <3>2. Exclusive(p)
      BY <2>4, <2>8, <3>1 DEF Start
    <3>3. config' = config
      BY <2>1, <2>8, <3>1, OnlyRename DEF Renames
    <3>4. Prepared(p) => Prepared(p)'
      BY <3>1, <3>3 DEF Prepared, Changed, NewValue, NewDocument
    <3>5. fd[p] \in Inodes /\ files[fd[p]] \in Contents
      BY <2>2, <3>1 DEF Own, Types, Writing
    <3>6. files'[fd[p]] = [files[fd[p]] EXCEPT ![half] = Emitted(doc[p])]
      BY <2>2, <3>1, <3>5 DEF Types
    <3>7. /\ files'[fd[p]][half] = Emitted(doc[p])
          /\ half = 2 => files'[fd[p]][1] = files[fd[p]][1]
      BY <3>5, <3>6 DEF Contents
    <3>8. CASE half = 1
      <4>1. pc'[p] = "write_rest" /\ pc[p] = "write"
        BY <2>2, <3>1, <3>8 DEF Types
      <4> QED BY <3>1, <3>2, <3>3, <3>4, <3>7, <3>8, <4>1 DEF Exclusive, Writing, Emitted
    <3>9. CASE half = 2
      <4>1. pc'[p] = "rename" /\ pc[p] = "write_rest"
        BY <2>2, <3>1, <3>9 DEF Types
      <4> QED BY <3>1, <3>2, <3>3, <3>4, <3>7, <3>9, <4>1 DEF Exclusive, Writing, Emitted
    <3> QED BY <3>8, <3>9
  <2>9. ASSUME Quits(p) PROVE Exclusive(p)'
    <3>1. pc'[p] = "idle"
      BY <2>2, <2>9 DEF Quits, Exit, Goto, Types
    <3> QED BY <3>1 DEF Exclusive, Writing
  <2>10. ASSUME ~Start(p), ~overlapped PROVE TakesTurns'
    <3>1. Exclusive(p)'
      BY <2>1, <2>6, <2>7, <2>8, <2>9, <2>10 DEF Step
    <3> QED BY <2>1, <2>4, <2>10, <3>1, TurnOf
  <2> QED BY <2>3, <2>5, <2>10
<1> QED BY <1>1, <1>2

LEMMA TurnsInit == Init => TakesTurns
BY DEF Init, TakesTurns, Exclusive, Writing

LEMMA Turns == Spec => [](Shape /\ TakesTurns)
BY ShapeInit, ShapeStep, TurnsInit, TurnsStep, PTL DEF Spec

\* As long as processes take turns a set or unset that says "cannot write config
\* file" has left config.json as it found it.
THEOREM FailureIsHarmless == Spec => FailureChangesNothing
<1>1. ASSUME Shape, TakesTurns, NEW p \in Procs, ~overlapped, OpenFails(p) \/ WriteFails(p)
      PROVE  config' = found
  <2>1. pc[p] \in Writing \cup {"open"} /\ Exit(p) /\ path' = path
    BY <1>1 DEF OpenFails, WriteFails, Writing
  <2>2. config' = config
    BY <1>1, <2>1, ExitKeeps DEF Shape
  <2>3. config = found
    BY <1>1, <2>1 DEF TakesTurns, Exclusive
  <2> QED BY <2>2, <2>3
<1>2. Shape /\ TakesTurns /\ [Next]_vars
          => [\A p \in Procs :
                 ~overlapped /\ (OpenFails(p) \/ WriteFails(p)) => config' = found]_vars
  BY <1>1
<1> QED BY <1>2, Turns, PTL DEF Spec, FailureChangesNothing
-----------------------------------------------------------------------------
(***************************************************************************)
(* The register.                                                           *)
(***************************************************************************)

\* rename puts the document of its process in place, whole.
LEMMA RenameChanges ==
    ASSUME Shape, TakesTurns, ~overlapped, NEW p \in Procs, Quits(p), Renames(p)
    PROVE  /\ config' = Emitted(doc[p]) /\ Prepared(p)
           /\ Own(p) /\ pc[p] = "rename" /\ UNCHANGED denied
<1>1. Types /\ Own(p) /\ Exclusive(p) /\ pc[p] = "rename" /\ tmp # Nothing /\ path' = tmp
  BY DEF Shape, TakesTurns, Renames
<1>2. /\ doc[p] \in Documents /\ fd[p] = tmp /\ Prepared(p)
      /\ files[tmp][1] = Emitted(doc[p]) /\ files[tmp][2] = Emitted(doc[p])
  BY <1>1 DEF Own, Exclusive, Writing
<1>3. files'[tmp] = files[tmp]
  BY <1>1 DEF Quits, Exit, Free, Types
<1>4. Emitted(doc[p]) \in Documents
  BY <1>2, EmittedIs
<1>5. config' = Emitted(doc[p])
  BY <1>1, <1>2, <1>3, <1>4, Markers DEF config, Whole
<1>6. UNCHANGED denied
  BY <1>1, Markers DEF Quits, Types
<1> QED BY <1>1, <1>2, <1>5, <1>6

RegisterNext == Register!SetKey \/ Register!UnsetKey \/ Register!Deny \/ Register!Replace
                    \/ Register!Overlap

LEMMA RenameRegisters ==
    ASSUME Shape, TakesTurns, ~overlapped, UNCHANGED overlapped,
           NEW p \in Procs, Quits(p), Renames(p)
    PROVE  RegisterNext
<1>1. Register!NewDocument = NewDocument /\ Register!Documents = Documents
  BY DEF Register!NewDocument, NewDocument, Register!Documents, Documents
<1>2. /\ config' = Emitted(doc[p]) /\ Prepared(p) /\ UNCHANGED denied
      /\ Own(p) /\ pc[p] = "rename"
  BY RenameChanges
<1>3. key[p] \in Keys /\ verb[p] \in {"set", "unset"} /\ (verb[p] = "set" => value[p] \in Values)
  BY <1>2 DEF Own
<1>4. ASSUME NEW d \in Documents, doc[p] = Changed(p, d)
      PROVE  config' = Register!Rewritten(d, key[p], IF verb[p] = "set" THEN value[p] ELSE Absent)
  BY <1>2, <1>4, ChangedIs DEF NewValue
<1>5. CASE doc[p] = Changed(p, NewDocument) /\ verb[p] = "set" /\ denied
  <2>1. config' = Register!Rewritten(NewDocument, key[p], value[p])
    BY <1>4, <1>5, NewDocumentIs
  <2>2. Register!Replace
    BY <1>1, <1>2, <1>3, <1>5, <2>1 DEF Register!Replace
  <2> QED BY <2>2 DEF RegisterNext
<1>6. CASE doc[p] = Changed(p, NewDocument) /\ verb[p] = "set" /\ config = NoFile
  <2>1. config' = Register!Rewritten(NewDocument, key[p], value[p])
    BY <1>4, <1>6, NewDocumentIs
  <2>2. config # Invalid
    BY <1>6, Markers
  <2>3. Register!SetKey
    BY <1>1, <1>2, <1>3, <1>6, <2>1, <2>2 DEF Register!SetKey
  <2> QED BY <2>3 DEF RegisterNext
<1>7. CASE config \in Documents /\ doc[p] = Changed(p, config) /\ verb[p] = "set"
  <2>1. config' = Register!Rewritten(config, key[p], value[p])
    BY <1>4, <1>7
  <2>2. config # Invalid /\ config # NoFile
    BY <1>7, Markers
  <2>3. Register!SetKey
    BY <1>2, <1>3, <1>7, <2>1, <2>2 DEF Register!SetKey
  <2> QED BY <2>3 DEF RegisterNext
<1>8. CASE /\ config \in Documents /\ doc[p] = Changed(p, config) /\ verb[p] = "unset"
           /\ config.rpc[key[p]] # Absent
  <2>1. config' = Register!Rewritten(config, key[p], Absent)
    BY <1>4, <1>8
  <2>2. Register!UnsetKey
    BY <1>1, <1>2, <1>3, <1>8, <2>1 DEF Register!UnsetKey
  <2> QED BY <2>2 DEF RegisterNext
<1> QED BY <1>2, <1>3, <1>5, <1>6, <1>7, <1>8 DEF Prepared

LEMMA StepRegisters ==
    ASSUME Shape, TakesTurns, Shape', ConfigIs', [Next]_vars
    PROVE  [RegisterNext]_Register!registerVars
<1>1. /\ overlapped \in BOOLEAN /\ denied \in BOOLEAN
      /\ overlapped' \in BOOLEAN /\ denied' \in BOOLEAN
  BY DEF Shape, Types
<1>2. CASE UNCHANGED vars
  <2>1. config' = config /\ overlapped' = overlapped /\ denied' = denied
    BY <1>2, SameConfig DEF vars, fileVars
  <2> QED BY <2>1 DEF Register!registerVars
<1>3. CASE overlapped'
  <2>1. overlapped' = TRUE /\ config' \in Register!Documents \cup {NoFile, Invalid}
    BY <1>1, <1>3 DEF ConfigIs, Register!Documents, Documents
  <2>2. Register!Overlap
    BY <1>1, <2>1 DEF Register!Overlap
  <2> QED BY <2>2 DEF RegisterNext
<1>4. CASE Next /\ ~overlapped'
  <2>1. PICK p \in Procs : Step(p)
    BY <1>4, Steps
  <2>2. overlapped' = overlapped /\ ~overlapped
    <3>1. CASE Start(p)
      <4>1. overlapped' = (overlapped \/ \E q \in Procs : pc[q] # "idle")
        BY <3>1 DEF Start
      <4> QED BY <1>1, <1>4, <4>1
    <3>2. CASE ~Start(p)
      <4>1. overlapped' = overlapped
        BY <2>1, <3>2, LoadsDocument DEF Step, Opens, Writes, Quits
      <4> QED BY <1>4, <4>1
    <3> QED BY <3>1, <3>2
  <2>3. CASE config' = config
    <3>1. CASE denied' = denied
      BY <2>2, <2>3, <3>1 DEF Register!registerVars
    <3>2. CASE denied' # denied
      <4>1. denied' = TRUE
        BY <1>1, <1>4, <3>2, DeniedStays
      <4>2. Register!Deny
        BY <2>2, <2>3, <4>1 DEF Register!Deny
      <4> QED BY <4>2 DEF RegisterNext
    <3> QED BY <3>1, <3>2
  <2>4. CASE Quits(p) /\ Renames(p)
    BY <2>2, <2>4, RenameRegisters
  <2> QED BY <2>1, <2>2, <2>3, <2>4, OnlyRename
<1> QED BY <1>2, <1>3, <1>4

\* The configuration is a register as long as processes take turns: the steps of
\* set and unset, with their failures and crashes, do what ConfigRegister says or
\* leave config.json as it is.
THEOREM Implements == Spec => ImplementsRegister
<1>1. Init => Register!RegisterInit
  <2> SUFFICES ASSUME Init PROVE Register!RegisterInit
    OBVIOUS
  <2>1. ConfigIs /\ overlapped = FALSE /\ denied = FALSE
    BY ShapeInit, ConfigTypes DEF Shape, Init
  <2> QED BY <2>1 DEF Register!RegisterInit, ConfigIs, Register!Documents, Documents
<1>2. (Types => ConfigIs)'
  BY ConfigTypes, PTL
<1>3. Shape /\ TakesTurns /\ Shape' /\ [Next]_vars => [RegisterNext]_Register!registerVars
  BY <1>2, StepRegisters DEF Shape
<1> QED BY <1>1, <1>3, Turns, PTL DEF Spec, ImplementsRegister, Register!RegisterSpec, RegisterNext
=============================================================================
