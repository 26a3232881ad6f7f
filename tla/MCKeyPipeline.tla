--------------------------- MODULE MCKeyPipeline ---------------------------
(***************************************************************************)
(* Command lines and inputs for KeyPipeline: every way to write a key down *)
(* and to read it, one key at a time, and a few pipelines with more of     *)
(* them, where blocks, arrays, the signal and failures matter.             *)
(***************************************************************************)
EXTENDS KeyPipeline, TLC

CONSTANT Vanity     \* the secrets whose addresses --match keeps

Default == [encoding |-> Nothing, network |-> Nothing, from |-> Nothing,
            compressed |-> FALSE, uncompressed |-> FALSE, source |-> FALSE,
            types |-> <<"p2wpkh">>, skip |-> FALSE, match |-> Nothing,
            in |-> "auto", out |-> "ndjson", count |-> Nothing, stream |-> FALSE]
Stage(command, given) == [command |-> command, options |-> given @@ Default]
Line(generates, input, stages) == [generates |-> generates, input |-> input, stages |-> stages]

s1 == CHOOSE s \in Secrets : TRUE
s2 == CHOOSE s \in Secrets \ {s1} : TRUE

Flags == [compressed : BOOLEAN, uncompressed : BOOLEAN, source : BOOLEAN]
Networks == {Nothing, Test}
Texts == {Wif(Key(s1, net, c)) : net \in {Main, Test}, c \in BOOLEAN}
            \cup {Hex(s1), Dec(s1), Digits64(s1, s2), PubHex(s1, TRUE), PubHex(s1, FALSE),
                  Phrase("a phrase"), BadWif}

\* One key: made or converted in every encoding, with and without its source.
Encoders == {Stage("privkey", f @@ [encoding |-> e, network |-> n, count |-> Nothing]) :
                f \in Flags, e \in {"wif", "hex", "dec"}, n \in Networks}
Addressers == {Stage("address", [types |-> <<"p2pkh", "p2wpkh", "p2tr">>, skip |-> TRUE, source |-> s]) :
                  s \in BOOLEAN}
Pubkeyers == {Stage("pubkey", f @@ [network |-> n]) : f \in Flags, n \in Networks}
Converted ==
    {Line(TRUE, <<>>, <<e, a>>) : e \in Encoders, a \in Addressers} \cup
    {Line(TRUE, <<>>, <<e, p, Stage("address", [types |-> <<"p2pkh">>, source |-> TRUE])>>) :
        e \in {x \in Encoders : x.options.source = x.options.compressed}, p \in Pubkeyers}
\* One line of text, read by each command, with and without --from.
Froms(command) == IF command = "address" THEN {Nothing} ELSE {Nothing, "wif", "hex", "dec"}
Reading(command, from) == [from |-> from, source |-> TRUE, in |-> IF from = Nothing THEN "auto" ELSE "plain"]
Read == UNION {{Line(FALSE, <<Bare(t)>>, <<Stage(c, Reading(c, f) @@ [network |-> n]),
                                             Stage(IF c = "privkey" THEN "pubkey" ELSE "address", [source |-> TRUE])>>) :
                  t \in Texts, f \in Froms(c), n \in Networks} : c \in {"privkey", "pubkey"}}

\* Pipelines of several keys.
New(given) == Stage("privkey", given)
Forever == New([stream |-> TRUE])
Wif1 == Wif(Key(s1, Main, TRUE))
Streams ==
    {Line(TRUE, <<>>, <<Forever, Stage("address", [in |-> f, match |-> m])>>) :
        f \in {"auto", "ndjson"}, m \in {Nothing, Vanity}} \cup
    {Line(TRUE, <<>>, <<New([stream |-> TRUE, out |-> "plain"]), Stage("pubkey", [in |-> f])>>) :
        f \in {"auto", "plain"}} \cup
    {Line(TRUE, <<>>, <<New([count |-> 3, out |-> o]), Stage("pubkey", [source |-> TRUE]),
                        Stage("address", [out |-> p])>>) :
        o \in {"ndjson", "json"}, p \in {"ndjson", "json"}} \cup
    {Line(TRUE, <<>>, <<New(n @@ [uncompressed |-> TRUE]), Stage("address", [out |-> "json"])>>) :
        n \in {[count |-> 3], [stream |-> TRUE]}} \cup
    {Line(TRUE, <<>>, <<New([count |-> 2, out |-> "json", stream |-> TRUE]),
                        Stage("address", [types |-> <<"p2pkh", "p2tr">>, out |-> "json"])>>)} \cup
    {Line(FALSE, input, <<Stage("pubkey", [out |-> o]), Stage("address", <<>>)>>) :
        o \in {"ndjson", "json"},
        input \in {<<Bare(Wif1), Bare(Hex(s2)), Bare(BadWif), Bare(Dec(s1))>>,
                   <<Bare(Wif1), PrivkeyObject(Key(s2, Main, TRUE), "hex", Nothing)>>,
                   <<PrivkeyObject(Key(s2, Main, TRUE), "hex", Nothing), Bare(Wif1)>>}} \cup
    {Line(FALSE, <<PrivkeyObject(Key(s1, Main, TRUE), "wif", Nothing)>>,
          <<Stage("privkey", [uncompressed |-> TRUE, source |-> TRUE]),
            Stage("pubkey", [compressed |-> c, source |-> TRUE]),
            Stage("address", [types |-> <<"p2pkh">>, source |-> TRUE])>>) : c \in BOOLEAN}

MCLines == Converted \cup Read \cup Streams
=============================================================================
