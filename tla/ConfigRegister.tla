---------------------------- MODULE ConfigRegister ----------------------------
(***************************************************************************)
(* What "btk config" promises as long as its users take turns: the         *)
(* configuration is a register that holds a whole document, set and unset  *)
(* replace it in one step, whatever happens to the process, and what can   *)
(* be opened and is not a document is never overwritten.  A configuration  *)
(* that cannot be opened may be replaced by a new document.  Once two      *)
(* processes were at work at the same time nothing is promised.            *)
(*                                                                         *)
(* ConfigStore is shown to implement this module.                          *)
(***************************************************************************)
CONSTANTS Keys,      \* the keys that set and unset know
          Values,    \* the values of a key
          Absent,    \* no value
          NoFile,    \* there is no configuration
          Invalid    \* there is one, and it cannot be read

VARIABLES config,     \* a document, NoFile or Invalid
          overlapped, \* two processes were at work at the same time
          denied      \* a configuration that is there could not be opened

Documents == [rpc : [Keys -> Values \cup {Absent}],
              unknown : {"none", "plain", "precise"}]

\* What set works on when there is no file.
NewDocument == [rpc |-> [k \in Keys |-> Absent], unknown |-> "none"]

registerVars == <<config, overlapped, denied>>

RegisterInit ==
    /\ config \in Documents \cup {NoFile, Invalid}
    /\ overlapped = FALSE /\ denied = FALSE

\* A document with a key changed.  Unknown fields stay, but for numbers that
\* json_pretty rounds to six digits.
Rewritten(d, k, v) ==
    [rpc |-> [d.rpc EXCEPT ![k] = v],
     unknown |-> IF d.unknown = "precise" THEN "plain" ELSE d.unknown]

SetKey ==
    /\ config # Invalid /\ UNCHANGED <<overlapped, denied>>
    /\ \E k \in Keys, v \in Values :
           config' = Rewritten(IF config = NoFile THEN NewDocument ELSE config, k, v)

UnsetKey ==
    /\ config \in Documents /\ UNCHANGED <<overlapped, denied>>
    /\ \E k \in Keys :
           /\ config.rpc[k] # Absent
           /\ config' = Rewritten(config, k, Absent)

Deny == denied' = TRUE /\ UNCHANGED <<config, overlapped>>

\* A set after the configuration could not be opened.
Replace ==
    /\ denied /\ UNCHANGED <<overlapped, denied>>
    /\ \E k \in Keys, v \in Values : config' = Rewritten(NewDocument, k, v)

Overlap ==
    /\ overlapped' = TRUE /\ denied' \in BOOLEAN
    /\ config' \in Documents \cup {NoFile, Invalid}

RegisterSpec ==
    RegisterInit /\ [][SetKey \/ UnsetKey \/ Deny \/ Replace \/ Overlap]_registerVars
=============================================================================
