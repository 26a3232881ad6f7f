----------------------------- MODULE ConfigStore -----------------------------
(***************************************************************************)
(* "btk config set" and "unset": cmd/config.cpp reads config.json, changes *)
(* a key and saves the document through util/config.cpp, which writes the  *)
(* file config.json.tmp and renames it.  Every process uses the same name  *)
(* for the temporary file and no lock is taken.  A process may die and any *)
(* of its system calls on the temporary file may fail, and so may the open *)
(* of config.json for reading, which the code takes for "no file".         *)
(*                                                                         *)
(* A file is an inode with the two halves of what was written into it: a   *)
(* write may be short and a reader may come in between.  What is left of   *)
(* it after O_TRUNC is Nothing.  A file can be read as a document if both  *)
(* halves are of one.  get and dump read only, in one step: what they see  *)
(* is what config.json holds in some state.                                *)
(***************************************************************************)
EXTENDS Integers, FiniteSetsExt

CONSTANTS Procs,     \* the processes
          Keys,      \* the keys that set and unset know
          Values,    \* the values of a key
          Absent,    \* no value
          Nothing,   \* not written, no file or no document
          NoFile,    \* what a reader finds: no config.json, or one that is
          Invalid    \*   not a document

\* The keys with their values, and what the document has of fields that btk
\* does not know: none, some that are printed as they were read, or some with a
\* number in them that is not.
Documents == [rpc : [Keys -> Values \cup {Absent}],
              unknown : {"none", "plain", "precise"}]
NewDocument == [rpc |-> [k \in Keys |-> Absent], unknown |-> "none"]

\* json_pretty: integers from 0 to 2^53 - 1 are printed in full, any other number
\* with six digits.
Emitted(d) == [d EXCEPT !.unknown = IF @ = "precise" THEN "plain" ELSE @]

Contents  == [1 .. 2 -> Documents \cup {Nothing}]

ASSUME ProcsAssumption == IsFiniteSet(Procs)
ASSUME MarkersAssumption ==
    /\ Absent \notin Values /\ NoFile # Invalid /\ {Nothing, NoFile, Invalid} \cap Documents = {}
    /\ Nothing \notin Nat  \* it is no inode

\* Enough inodes for both names and for one that each process still has open.
Inodes == 1 .. Cardinality(Procs) + 2

VARIABLES
    path, tmp,  \* the inodes of config.json and of config.json.tmp, or Nothing
    files,      \* what is in each inode
    fd,         \* the inode that a process has open for writing, or Nothing
    pc,         \* where each process is
    verb, key, value,  \* its command line
    doc,        \* the document it saves
    found,      \* what a process that is alone at work has found (history)
    overlapped, \* two processes were at work at the same time (history)
    denied      \* a config.json that was there could not be opened (history)

fileVars == <<path, tmp, files, fd>>
argVars  == <<verb, key, value>>
vars == <<fileVars, pc, argVars, doc, found, overlapped, denied>>

Whole(content) == content[1] = content[2] /\ content[1] # Nothing

\* What a reader finds.
config == IF path = Nothing THEN NoFile
          ELSE IF Whole(files[path]) THEN files[path][1] ELSE Invalid

Gone == <<Nothing, Nothing>>

Free(inode) == inode # path /\ inode # tmp /\ \A p \in Procs : fd[p] # inode

\* Somebody may have edited config.json; a temporary file may be left over.
Init ==
    /\ path \in {1, Nothing} /\ tmp \in {2, Nothing}
    /\ \E d \in {d \in Documents : d.unknown # "none"} : \E rest \in {d, Nothing} :
           files = [i \in Inodes |-> IF i = path THEN <<d, rest>> ELSE Gone]
    /\ fd = [p \in Procs |-> Nothing]
    /\ pc = [p \in Procs |-> "idle"]
    /\ verb = [p \in Procs |-> "none"]
    /\ key = [p \in Procs |-> Nothing] /\ value = [p \in Procs |-> Nothing]
    /\ doc = [p \in Procs |-> Nothing]
    /\ found = Nothing /\ overlapped = FALSE /\ denied = FALSE
-----------------------------------------------------------------------------
Goto(p, label) == pc' = [pc EXCEPT ![p] = label]

\* An inode that has lost its name and is not open any more is gone.
Exit(p) ==
    /\ Goto(p, "idle")
    /\ verb' = [verb EXCEPT ![p] = "none"]
    /\ key' = [key EXCEPT ![p] = Nothing] /\ value' = [value EXCEPT ![p] = Nothing]
    /\ found' = Nothing
    /\ doc' = [doc EXCEPT ![p] = Nothing]
    /\ fd' = [fd EXCEPT ![p] = Nothing]
    /\ files' = [i \in Inodes |-> IF Free(i)' THEN Gone ELSE files[i]]

Start(p) ==
    /\ pc[p] = "idle"
    /\ Goto(p, "load")
    /\ overlapped' = (overlapped \/ \E q \in Procs : pc[q] # "idle")
    /\ \E k \in Keys :
           /\ key' = [key EXCEPT ![p] = k]
           /\ \/ /\ verb' = [verb EXCEPT ![p] = "set"]
                 /\ \E v \in Values : value' = [value EXCEPT ![p] = v]
              \/ verb' = [verb EXCEPT ![p] = "unset"] /\ UNCHANGED value
    /\ found' = Nothing
    /\ UNCHANGED <<fileVars, doc, denied>>

\* What do_set and do_unset store.
NewValue(p) == IF verb[p] = "set" THEN value[p] ELSE Absent

\* Mutant: a new object takes the place of the one on disk.
Changed_FreshObject(p, d) == [rpc |-> [d.rpc EXCEPT ![key[p]] = NewValue(p)], unknown |-> "none"]

Changed(p, d) == [d EXCEPT !.rpc[key[p]] = NewValue(p)]

Save(p, d) ==
    /\ doc' = [doc EXCEPT ![p] = Changed(p, d)]
    /\ found' = IF overlapped THEN Nothing ELSE config
    /\ Goto(p, "open")
    /\ UNCHANGED <<fileVars, argVars>>

\* load_config_document finds no file, or has one that it cannot open, for want
\* of a permission or a descriptor: to the code that is the same.
OpensNothing == denied' = (denied \/ config # NoFile)

LoadNoFile(p) ==
    /\ pc[p] = "load" /\ verb[p] = "set"
    /\ OpensNothing
    /\ Save(p, NewDocument)

LoadInvalid(p) ==
    /\ pc[p] = "load" /\ config = Invalid
    /\ UNCHANGED <<path, tmp, denied>>
    /\ Exit(p)  \* "invalid config file"

Load(p) ==
    /\ pc[p] = "load" /\ config \in Documents
    /\ verb[p] = "set" \/ config.rpc[key[p]] # Absent
    /\ Save(p, config)
    /\ UNCHANGED denied

NoSuchKey(p) ==
    /\ pc[p] = "load" /\ verb[p] = "unset"
    /\ \/ OpensNothing
       \/ config \in Documents /\ config.rpc[key[p]] = Absent /\ UNCHANGED denied
    /\ UNCHANGED <<path, tmp>>
    /\ Exit(p)  \* "no such key"
-----------------------------------------------------------------------------
(***************************************************************************)
(* save_config_document.                                                   *)
(***************************************************************************)

OpenInode(p, i) ==
    /\ files' = [files EXCEPT ![i] = Gone]
    /\ fd' = [fd EXCEPT ![p] = i]
    /\ Goto(p, "write")
    /\ UNCHANGED <<path, argVars, doc, found>>

\* Mutant: config.json itself is opened and truncated.
OpenTmp_InPlace(p) ==
    /\ pc[p] = "open" /\ path # Nothing
    /\ OpenInode(p, path) /\ UNCHANGED tmp

\* O_CREAT | O_TRUNC: a temporary file that is there is used, whoever made it.
OpenTmp(p) ==
    /\ pc[p] = "open"
    /\ LET i == IF tmp # Nothing THEN tmp ELSE Min({i \in Inodes : Free(i)})
       IN  OpenInode(p, i) /\ tmp' = i

OpenFails(p) ==
    /\ pc[p] = "open"
    /\ UNCHANGED <<path, tmp>>
    /\ Exit(p)  \* "cannot write config file"

WriteHalf(p, from, half, to) ==
    /\ pc[p] = from
    /\ files' = [files EXCEPT ![fd[p]][half] = Emitted(doc[p])]
    /\ Goto(p, to)
    /\ UNCHANGED <<path, tmp, fd, argVars, doc, found>>

Write(p) == WriteHalf(p, "write", 1, "write_rest") \/ WriteHalf(p, "write_rest", 2, "rename")

\* Mutant: the configuration is unlinked, not the temporary file.
WriteFails_UnlinksConfig(p) ==
    /\ pc[p] \in {"write", "write_rest", "rename"}
    /\ path' = Nothing
    /\ UNCHANGED tmp
    /\ Exit(p)  \* "cannot write config file"

\* fchmod, write, close or rename fails: whatever has the temporary name then
\* is unlinked.
WriteFails(p) ==
    /\ pc[p] \in {"write", "write_rest", "rename"}
    /\ tmp' = Nothing
    /\ UNCHANGED path
    /\ Exit(p)  \* "cannot write config file"

\* Mutant: the temporary file gets a second name and keeps its own.
Rename_KeepsTmp(p) ==
    /\ pc[p] = "rename" /\ tmp # Nothing
    /\ path' = tmp
    /\ UNCHANGED tmp
    /\ Exit(p)

\* Whatever has the temporary name becomes config.json.  (If nothing has it,
\* rename fails: WriteFails.)
Rename(p) ==
    /\ pc[p] = "rename" /\ tmp # Nothing
    /\ path' = tmp
    /\ tmp' = Nothing
    /\ Exit(p)

\* The process dies and leaves the temporary file as it is.
Crash(p) ==
    /\ pc[p] # "idle"
    /\ UNCHANGED <<path, tmp>>
    /\ Exit(p)

LoadConfig(p) == LoadNoFile(p) \/ LoadInvalid(p) \/ Load(p) \/ NoSuchKey(p)
SaveConfig(p) == OpenTmp(p) \/ OpenFails(p) \/ Write(p) \/ WriteFails(p) \/ Rename(p)

Next == \E p \in Procs :
            \/ Start(p)
            \/ LoadConfig(p) /\ UNCHANGED overlapped
            \/ (SaveConfig(p) \/ Crash(p)) /\ UNCHANGED <<overlapped, denied>>

Spec == Init /\ [][Next]_vars
-----------------------------------------------------------------------------
(***************************************************************************)
(* Properties                                                              *)
(***************************************************************************)

Labels == {"idle", "load", "open", "write", "write_rest", "rename"}

\* The values the state may take; an inode has one name, and a process that
\* writes has a file open.
TypeOK ==
    /\ path \in Inodes \cup {Nothing} /\ tmp \in Inodes \cup {Nothing}
    /\ path # Nothing => path # tmp
    /\ overlapped \in BOOLEAN /\ denied \in BOOLEAN
    /\ files \in [Inodes -> Contents]
    /\ fd \in [Procs -> Inodes \cup {Nothing}] /\ pc \in [Procs -> Labels]
    /\ \A p \in Procs : (fd[p] # Nothing) = (pc[p] \in {"write", "write_rest", "rename"})
    /\ found \in Documents \cup {Nothing, NoFile, Invalid}
    /\ \A p \in Procs : doc[p] \in Documents \cup {Nothing}

\* As long as processes take turns config.json changes from one whole document
\* to the next, in one step, though the document is written in pieces, calls
\* fail, and processes die and leave a temporary file for the next one.
Register == INSTANCE ConfigRegister
                WITH config <- config, overlapped <- overlapped, denied <- denied
ImplementsRegister == Register!RegisterSpec

\* As long as processes take turns "cannot write config file" means that
\* config.json is as it was when the process read it.
FailureChangesNothing ==
    [][\A p \in Procs :
          ~overlapped /\ (OpenFails(p) \/ WriteFails(p)) => config' = found]_vars

\* "Unknown on-disk fields are ignored and preserved on rewrite"
\* (cmd/config.cpp:29-30), as far as it is so: as long as every config.json that
\* is there can be opened they are in every later document as well, and a number
\* of theirs is rounded once at most, also when several processes write the same
\* file at the same time.
UnknownKept ==
    [][~denied' /\ {config, config'} \subseteq Documents =>
           config'.unknown \in {config.unknown, Emitted(config).unknown}]_vars
=============================================================================
