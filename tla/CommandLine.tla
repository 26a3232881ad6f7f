----------------------------- MODULE CommandLine -----------------------------
(***************************************************************************)
(* Processes of btk in a pipeline: run_generator and run_transformer of    *)
(* src/src/cli/dispatcher.cpp, the framing of stdin in io.cpp, and the     *)
(* writer of output.cpp.  Stage i reads pipe i-1 and writes pipe i; the    *)
(* last stage writes to a terminal or a file, and what is on the first     *)
(* pipe was put there by somebody else, who has closed it.                 *)
(*                                                                         *)
(* A transformer with --in auto on a pipe does not see what has arrived:   *)
(* it reads 8 KiB before the first item, and 4 KiB at a time after that,   *)
(* or to the end.  Items are the unit of both here.                        *)
(***************************************************************************)
EXTENDS Integers, Sequences, SequencesExt

CONSTANTS Nothing,
          Lines,          \* the command lines: [generates, input, stages]
          Fresh(_),       \* the objects that one run of a generator may make
          Run(_, _),      \* what a stage makes of an item
          IsObject(_),    \* an item is a JSON object, not a bare line
          MaxStages,      \* bound: how many stages a line has
          Prefix, Block,  \* how many items are 8 KiB, and 4 KiB
          Capacity        \* how many items are in a pipe at most

VARIABLES
    line,      \* the command line
    stop,      \* the signal, which every process of the pipeline gets
    count,     \* how often run of the generator may still be called
    pipe,      \* the pipes
    buffer,    \* what a stage has read of a block that is not complete
    mode,      \* what its first item was: an object or a line
    ready,     \* what the framing has given out and run has not seen
    todo,      \* what run made and write has not written
    held,      \* --out json: what is kept until the end
    status,    \* of a stage: Nothing, closing with 0 or 1, or its end
    owed       \* history: what the input and the generator still owe to
               \*   the reader of the last stage
sys  == <<line, stop, count, pipe, buffer, mode, ready, todo, held, status>>
vars == <<sys, owed>>

Stages  == DOMAIN line.stages
LastOf  == Len(line.stages)
Options(i)     == line.stages[i].options
IsGenerator(i) == i = 1 /\ line.generates
Infinite == line.generates /\ Options(1).stream /\ Options(1).count = Nothing

Running(i) == status[i] = Nothing
Alive(i)   == status[i] \in {Nothing, "closing 0", "closing 1"}
Ended(i)   == ~Alive(i)
\* Nobody will write to the pipe that stage i reads.
Eof(i)     == pipe[i - 1] = <<>> /\ \A j \in Stages : j = i - 1 => Ended(j)
Idle(i)    == Running(i) /\ todo[i] = <<>>
\* --out json ends in one value, an array if there are more objects than one.
Array(objects) == [array |-> objects]
Items(values)  == FlattenSeq([j \in DOMAIN values |->
                     IF "array" \in DOMAIN values[j] THEN values[j].array ELSE <<values[j]>>])
-----------------------------------------------------------------------------
\* run_generator: the flag is looked at before each run.
Generate(i) ==
    /\ IsGenerator(i) /\ Idle(i) /\ ~stop /\ count > 0
    /\ count' = IF Infinite THEN count ELSE count - 1
    /\ \E objects \in Fresh(line.stages[i]) : todo' = [todo EXCEPT ![i] = objects]
    /\ UNCHANGED <<line, stop, pipe, buffer, mode, ready, held, status>>

\* The framing.  Line by line an item is there when it is written; in auto
\* mode when its block is complete or the input has ended.
IsAuto(i) == Options(i).in = "auto"
Quota(i) == IF ~IsAuto(i) THEN 1 ELSE IF mode[i] = Nothing THEN Prefix ELSE Block
Fetch(i) ==
    /\ ~IsGenerator(i) /\ Idle(i) /\ ready[i] = <<>> /\ pipe[i - 1] # <<>>
    /\ Len(buffer[i]) < Quota(i)
    /\ buffer' = [buffer EXCEPT ![i] = Append(@, Head(pipe[i - 1]))]
    /\ pipe' = [pipe EXCEPT ![i - 1] = Tail(@)]
    /\ UNCHANGED <<line, stop, count, mode, ready, todo, held, status>>
Complete_AtEof(i) ==             \* mutant: auto mode reads all of stdin first
    Eof(i) \/ (~IsAuto(i) /\ Len(buffer[i]) >= Quota(i))
Complete(i) == Eof(i) \/ Len(buffer[i]) >= Quota(i)
Release(i) ==
    /\ ~IsGenerator(i) /\ Idle(i) /\ ready[i] = <<>> /\ buffer[i] # <<>>
    /\ Complete(i)
    /\ ready' = [ready EXCEPT ![i] = Items(buffer[i])]
    /\ buffer' = [buffer EXCEPT ![i] = <<>>]
    /\ mode' = [mode EXCEPT ![i] = IF @ # Nothing THEN @
                     ELSE IF IsObject(Head(ready'[i])) THEN "objects" ELSE "lines"]
    /\ UNCHANGED <<line, stop, count, pipe, todo, held, status>>

\* The destructor of the writer finishes it when run throws.
Close_AtTheEnd(i, with) ==       \* mutant: a command that fails writes no array
    /\ status' = [status EXCEPT ![i] = with]
    /\ IF with = "closing 1" THEN todo' = [todo EXCEPT ![i] = <<>>] /\ UNCHANGED held
       ELSE todo' = [todo EXCEPT ![i] = held[i]] /\ held' = [held EXCEPT ![i] = <<>>]
Close(i, with) ==
    /\ status' = [status EXCEPT ![i] = with]
    /\ todo' = [todo EXCEPT ![i] = IF Len(held[i]) > 1 THEN <<Array(held[i])>> ELSE held[i]]
    /\ held' = [held EXCEPT ![i] = <<>>]
\* After an object for_each_auto takes objects only, and leaves the rest.
LeavesRest(i) == /\ ready[i] # <<>> /\ IsAuto(i)
                 /\ mode[i] = "objects" /\ ~IsObject(Head(ready[i]))
Handle(i) ==
    /\ Idle(i) /\ ready[i] # <<>> /\ ~LeavesRest(i)
    /\ ready' = [ready EXCEPT ![i] = Tail(@)]
    /\ LET made == Run(line.stages[i], Head(ready[i])) IN
       IF made.ok THEN todo' = [todo EXCEPT ![i] = made.objects] /\ UNCHANGED <<held, status>>
                  ELSE Close(i, "closing 1")
    /\ UNCHANGED <<line, stop, count, pipe, buffer, mode>>

\* The end of the input, of the count, or the signal for a generator.
AllDone_Signal(i) ==             \* mutant: the signal ends every stage
    \/ stop
    \/ IF IsGenerator(i) THEN count = 0 ELSE ready[i] = <<>> /\ buffer[i] = <<>> /\ Eof(i)
AllDone(i) == IF IsGenerator(i) THEN stop \/ count = 0
              ELSE LeavesRest(i) \/ (ready[i] = <<>> /\ buffer[i] = <<>> /\ Eof(i))
Finish(i) ==
    /\ Idle(i) /\ AllDone(i) /\ Close(i, "closing 0")
    /\ UNCHANGED <<line, stop, count, pipe, buffer, mode, ready>>

\* A pipe without a reader kills the writer, a full one makes it wait.
KeepsJson(i) == Running(i) /\ Options(i).out = "json" /\ ~Options(i).stream
Write(i) ==
    /\ Alive(i) /\ todo[i] # <<>>
    /\ todo' = [todo EXCEPT ![i] = Tail(@)]
    /\ IF KeepsJson(i) THEN held' = [held EXCEPT ![i] = Append(@, Head(todo[i]))] /\ UNCHANGED pipe
       ELSE IF i = LastOf THEN UNCHANGED <<pipe, held>>
       ELSE /\ Alive(i + 1) /\ Len(pipe[i]) < Capacity
            /\ pipe' = [pipe EXCEPT ![i] = Append(@, Head(todo[i]))] /\ UNCHANGED held
    /\ UNCHANGED <<line, stop, count, buffer, mode, ready, status>>
SigPipe_Ignored(i) ==            \* mutant: the signal is ignored
    FALSE /\ UNCHANGED vars
SigPipe(i) ==
    /\ Alive(i) /\ todo[i] # <<>> /\ ~KeepsJson(i) /\ i < LastOf /\ Ended(i + 1)
    /\ status' = [status EXCEPT ![i] = "killed"]
    /\ UNCHANGED <<line, stop, count, pipe, buffer, mode, ready, todo, held>>
Exit(i) ==
    /\ Alive(i) /\ ~Running(i) /\ todo[i] = <<>>
    /\ status' = [status EXCEPT ![i] = IF @ = "closing 0" THEN "0" ELSE "1"]
    /\ UNCHANGED <<line, stop, count, pipe, buffer, mode, ready, todo, held>>

Signal ==
    /\ ~stop /\ stop' = TRUE
    /\ UNCHANGED <<line, count, pipe, buffer, mode, ready, todo, held, status>>
-----------------------------------------------------------------------------
\* What a stage makes of a sequence of items, and what the stages from i on
\* make of what is on a pipe.
Outputs(stage, items) == FlattenSeq([j \in DOMAIN items |-> Run(stage, items[j]).objects])
Through(stages, i, values) ==
    LET through[k \in 0 .. Len(stages)] ==
            IF k < i THEN Items(values) ELSE Outputs(stages[k], through[k - 1])
    IN  through[Len(stages)]
From(i, values) == Through(line.stages, i, values)
Init ==
    /\ line \in Lines /\ stop = FALSE
    /\ count = IF line.generates /\ Options(1).count # Nothing THEN Options(1).count ELSE 1
    /\ pipe = [i \in 0 .. LastOf - 1 |-> IF i = 0 THEN line.input ELSE <<>>]
    /\ buffer = [i \in Stages |-> <<>>] /\ ready = buffer /\ todo = buffer /\ held = buffer
    /\ mode = [i \in Stages |-> Nothing] /\ status = [i \in Stages |-> Nothing]
    /\ owed = From(1, line.input)
Step(i) == /\ i \in Stages
           /\ \/ Generate(i) \/ Fetch(i) \/ Release(i) \/ Handle(i)
              \/ Finish(i) \/ Write(i) \/ SigPipe(i) \/ Exit(i)
\* What a step adds to what is owed, and what it pays.
Owes(i) == owed' =
    IF IsGenerator(i) /\ Idle(i) /\ status' = status THEN owed \o From(2, todo'[i])
    ELSE IF i = LastOf /\ Len(todo'[i]) < Len(todo[i]) /\ held' = held
    THEN SubSeq(owed, 1 + Len(Items(<<Head(todo[i])>>)), Len(owed))
    ELSE owed

Next == \/ Signal /\ UNCHANGED owed
        \/ \E i \in 1 .. MaxStages : Step(i) /\ Owes(i)
\* The scheduler runs every process that can go on; owed is only a record.
Fairness == \A i \in 1 .. MaxStages : WF_sys(Step(i))
Spec == Init /\ [][Next]_vars /\ Fairness
-----------------------------------------------------------------------------
\* Every variable has its type, and a stage that has ended did so in order.
TypeOK ==
    /\ line \in Lines /\ stop \in BOOLEAN /\ count \in Nat
    /\ \A i \in Stages :
          /\ status[i] \in {Nothing, "closing 0", "closing 1", "0", "1", "killed"}
          /\ mode[i] \in {Nothing, "objects", "lines"}
          /\ Len(buffer[i]) <= Quota(i)
          /\ i > 1 => Len(pipe[i - 1]) <= Capacity
          /\ held[i] # <<>> => KeepsJson(i)
          /\ status[i] = "0" => todo[i] = <<>> /\ held[i] = <<>>

\* What is on its way to the reader, the items nearest to it first, as it
\* will look when it arrives.
At(i)  == From(i + 1, held[i] \o todo[i]) \o From(i, ready[i] \o buffer[i] \o pipe[i - 1])
Flying == FlattenSeq([n \in Stages |-> At(LastOf + 1 - n)])
Mixed == \E i, j \in DOMAIN line.input : IsObject(line.input[i]) # IsObject(line.input[j])

\* Nothing is lost, doubled or overtaken between the generator and the
\* reader of the last stage, through pipes, blocks and the buffer of --out
\* json, and whenever the signal comes: as long as no stage has failed, what
\* is owed is exactly what is on its way, and at the end nothing is.
NothingLost ==
    (~Mixed /\ \A i \in Stages : status[i] \notin {"closing 1", "1", "killed"}) =>
        /\ owed = Flying
        /\ (\A i \in Stages : status[i] = "0") => owed = <<>>

\* A producer that never exits drives its consumers, although they read
\* whole blocks (without --match, which may keep nothing at all).
Unfiltered == \A i \in Stages : Options(i).match = Nothing
ProducerDrives ==
    Infinite /\ Unfiltered =>
        []<>(todo[LastOf] # <<>> \/ stop \/ \E i \in Stages : ~Running(i))

\* A pipeline whose input ends, that got the signal, or in which a stage has
\* ended (of those that keep everything) drains and ends.
Drains == (stop \/ ~Infinite \/ (Unfiltered /\ \E i \in Stages : Ended(i)))
             ~> \A i \in Stages : Ended(i)
=============================================================================
