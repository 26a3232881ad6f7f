----------------------------- MODULE KeyPipeline -----------------------------
(***************************************************************************)
(* The key commands in a pipeline, as the README of btk uses them: keys    *)
(* from btk privkey or from a file go through btk pubkey and btk address,  *)
(* and may end in btk sweep.                                               *)
(***************************************************************************)
EXTENDS KeyCommands

CONSTANTS Secrets, Lines, MaxStages, Prefix, Block, Capacity

VARIABLES line, stop, count, pipe, buffer, mode, ready, todo, held, status, owed

\* The secrets that --new may draw.
Drawn(stage) == {Shown(stage.options, PrivkeyNew(stage.options, s)).objects : s \in Secrets}
NotBare(item) == item.type # "bare"

INSTANCE CommandLine WITH Run <- RunCommand, Fresh <- Drawn, IsObject <- NotBare
-----------------------------------------------------------------------------
\* The objects on their way.
Objects == {o \in UNION {ToSet(Items(s)) :
               s \in UNION {{pipe[i - 1], todo[i], held[i], ready[i], buffer[i]} : i \in Stages}} :
               o.type \in {"privkey", "pubkey", "address"}}
KeyOf(o) == CASE o.type = "privkey" -> Key(PrivkeyFromObject(o).secret, o.network, o.compressed)
              [] o.type = "pubkey"  -> Key(o.data.secret, o.network, o.data.compressed)
              [] o.type = "address" -> o.data.key
\* A text that may stand on the first pipe, and a stage of a command line.
IsKey(k)   == /\ k = Key(k.secret, k.network, k.compressed)
              /\ k.network \in {Main, Test} /\ k.compressed \in BOOLEAN
IsText(t)  == /\ t.form = "wif" => IsKey(t.key)
              /\ t.form = "pubhex" => t = PubHex(t.secret, t.compressed) /\ t.compressed \in BOOLEAN
              /\ "decimal" \in DOMAIN t => t.form = "hex"
IsStage(s) == /\ s.command \in {"privkey", "pubkey", "address"}
              /\ s.options.encoding \in {Nothing, "wif", "hex", "dec"}
              /\ s.options.network \in {Nothing, Main, Test}
              /\ s.options.types \in Seq(Styles)

\* An object whose fields are true of its data, and that its source is about
\* the same key; an honest one has only such objects among its sources.
KeyTypes == {"privkey", "pubkey"}
Types    == KeyTypes \cup {"address"}
True(o) ==
    /\ o.type = "address" =>
          /\ o = AddressObject(o.data.key, o.style, o.source) /\ IsKey(o.data.key)
          /\ NeedsCompressed(o.style) => o.data.key.compressed
    /\ o.type \in KeyTypes =>
          /\ o = Object(o.type, o.encoding, o.network, o.compressed, o.data, o.source)
          /\ IsText(o.data) /\ IsKey(KeyOf(o))
    /\ o.type = "privkey" => o.encoding \in {"wif", "hex", "dec"} /\ PrivkeyFromObject(o) = KeyOf(o)
    /\ o.type = "pubkey"  => o.data = PubHex(o.data.secret, o.compressed)
Linked(o, source) ==
    /\ source.type \in KeyTypes \cup {"origin", "none"}
    /\ source.type \in KeyTypes =>
          /\ KeyOf(source).secret = KeyOf(o).secret
          /\ o.type # "privkey" => source.network = o.network
          /\ o.type = "address" => source.compressed = KeyOf(o).compressed
Follows(o, source) ==
    IF o.type \in Types THEN Linked(o, source) ELSE source = NoItem
Honest(o) ==
    /\ o.type \in Types
    /\ \A d \in 0 .. MaxDepth : Chain(o)[d].type \in Types => True(Chain(o)[d])
    /\ \A d \in 1 .. MaxDepth : Follows(Chain(o)[d - 1], Chain(o)[d])
IsItem(v) == (v = Bare(v.data) /\ IsText(v.data)) \/ Honest(v)

\* Nothing is none of the values that it may stand for.
ASSUME NothingAssumption ==
    /\ Nothing \notin BOOLEAN
    /\ Nothing \notin {Main, Test, "wif", "hex", "dec", "objects", "lines",
                       "closing 0", "closing 1", "0", "1", "killed"}
\* A pipeline begins with btk privkey --new, or with lines and objects that
\* somebody else put on the pipe; objects are such as btk makes them.
ASSUME LinesAssumption == \A l \in Lines :
    /\ l.stages \in Seq(ToSet(l.stages)) /\ l.stages # <<>>
    /\ \A i \in DOMAIN l.stages : IsStage(l.stages[i])
    /\ l.stages[1].options.count = Nothing \/ l.stages[1].options.count \in Nat
    /\ l.generates \in BOOLEAN
    /\ l.generates => l.stages[1].command = "privkey" /\ l.input = <<>>
    /\ l.input \in Seq(ToSet(l.input)) /\ \A v \in ToSet(l.input) : IsItem(v)
ASSUME BoundsAssumption ==
    /\ MaxStages \in Nat /\ Prefix \in Nat /\ Block \in Nat /\ Capacity \in Nat

Ancestors(o) == {a \in {Chain(o)[d] : d \in 1 .. MaxDepth} : a.type \in {"privkey", "pubkey"}}
Plain == [compressed |-> FALSE, uncompressed |-> FALSE, source |-> TRUE, network |-> Nothing,
          types |-> <<"p2pkh">>, skip |-> FALSE, match |-> Nothing, from |-> Nothing]

\* What an object says of itself is what its data is, its sources are about
\* the same secret, and it does not matter whether address reads a private
\* key or the public key that pubkey makes of it.
KeysAgree == \A o \in Objects :
    /\ o.type = "pubkey" => o.compressed = o.data.compressed
    /\ o.type = "privkey" => PrivkeyFromObject(o) = KeyOf(o)
    /\ o.type = "address" => o.network = o.data.key.network
    /\ \A a \in Ancestors(o) : KeyOf(a).secret = KeyOf(o).secret
    /\ o.type = "address" /\ Ancestors(o) # {} =>
          KeyOf(o.source).compressed = KeyOf(o).compressed
    /\ o.type = "privkey" =>
          Address(Plain, Pubkey(Plain, o).objects[1]).objects[1].data = Address(Plain, o).objects[1].data

\* An address that was printed with its private key can be swept with it:
\* sweep finds the key, and derives the very address from it.  Without the
\* key, off mainnet, or after pubkey has changed the compression it refuses,
\* even if a key further up would do.
Sweepable == \A o \in Objects : o.type = "address" =>
    LET source(d) == Chain(o)[d]
        swept == Sweep(Plain, o) IN
    /\ swept.ok <=> /\ o.network = Main
                    /\ \E d \in 1 .. MaxDepth :
                          /\ source(d).type = "privkey"
                          /\ \A nearer \in 1 .. d - 1 : source(nearer).type # "privkey"
                          /\ KeyOf(source(d)).compressed = KeyOf(o).compressed
    /\ swept.ok => /\ swept.objects[1].from = o.data
                   /\ swept.objects[1].key.secret = KeyOf(o).secret
=============================================================================
