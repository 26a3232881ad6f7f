----------------------------- MODULE KeyCommands -----------------------------
(***************************************************************************)
(* What btk privkey, pubkey and address make of one item of stdin          *)
(* (src/src/cmd/privkey.cpp, pubkey.cpp, address.cpp and the key part of   *)
(* sweep.cpp), and the rules of src/src/core for keys and addresses.       *)
(*                                                                         *)
(* Bytes are abstracted: a secret is a value of its own, a text is the     *)
(* record of what it encodes, and a hash or a point is known by what it    *)
(* was computed from.  A text that is no key is hashed into a secret.      *)
(*                                                                         *)
(* A command gets an item and its options, and returns a sequence of       *)
(* objects, or an error, which ends the process.                           *)
(***************************************************************************)
EXTENDS Integers, Sequences, SequencesExt

CONSTANT Nothing    \* a field or an option that is absent

Main == "mainnet"
Test == "testnet"
Styles == {"p2pkh", "p2wpkh", "p2tr"}

Key(secret, network, compressed) ==
    [secret |-> secret, network |-> network, compressed |-> compressed]

\* What a line of text may be.
Wif(k)         == [form |-> "wif", key |-> k]
BadWif         == [form |-> "badwif"]
Hex(s)         == [form |-> "hex", secret |-> s]
Dec(s)         == [form |-> "dec", secret |-> s]
\* 64 digits: one number as hex, and another one as a decimal.
Digits64(s, t) == [form |-> "hex", secret |-> s, decimal |-> t]
PubHex(s, c)   == [form |-> "pubhex", secret |-> s, compressed |-> c]
Phrase(t)      == [form |-> "phrase", text |-> t]
Sha256(text)   == <<"sha256", text>>

Ok(objects) == [ok |-> TRUE, objects |-> objects]
Fail(why)   == [ok |-> FALSE, objects |-> <<>>, why |-> why]
FailedKey(why) == [fail |-> why]
Is(k)          == "fail" \notin DOMAIN k

Bare(text) == [type |-> "bare", data |-> text]
Object(type, encoding, network, compressed, data, source) ==
    [type |-> type, encoding |-> encoding, network |-> network,
     compressed |-> compressed, data |-> data, source |-> source]

LooksLikePrivkey(text) == text.form \in {"wif", "badwif", "hex", "dec"}
CompressionModes(opts, fallback) ==
    IF opts.compressed /\ opts.uncompressed THEN <<TRUE, FALSE>>
    ELSE IF opts.uncompressed THEN <<FALSE>> ELSE IF opts.compressed THEN <<TRUE>> ELSE <<fallback>>
-----------------------------------------------------------------------------
\* core: encodings of private keys, and addresses.

DecodeWif(text) ==
    IF text.form = "wif" THEN text.key
    ELSE FailedKey(IF text.form = "badwif" THEN "invalid WIF checksum" ELSE "not a private key")
DecodeHex(text) ==
    IF text.form = "hex" THEN Key(text.secret, Main, TRUE) ELSE FailedKey("invalid hex private key")
DecodeDec(text) ==
    IF text.form = "dec" THEN Key(text.secret, Main, TRUE)
    ELSE IF "decimal" \in DOMAIN text THEN Key(text.decimal, Main, TRUE)
    ELSE FailedKey("invalid decimal private key")
\* parse_privkey_string: WIF, then 64 hex digits, then a decimal.
ParsePrivkey(text) ==
    CASE text.form \in {"wif", "badwif"} -> DecodeWif(text)
      [] text.form = "hex" -> DecodeHex(text)
      [] text.form = "dec" -> DecodeDec(text)
      [] OTHER -> FailedKey("not a private key")
Encode(k, encoding) ==
    CASE encoding = "wif" -> Wif(k) [] encoding = "hex" -> Hex(k.secret) [] encoding = "dec" -> Dec(k.secret)

NeedsCompressed(style) == style \in {"p2wpkh", "p2tr"}
EncodeAddress(k, style) ==
    [form |-> "address", style |-> style, key |-> k]
-----------------------------------------------------------------------------
\* btk privkey.

PrivkeyFromBare(text, from) ==
    CASE from = "wif" -> DecodeWif(text)
      [] from = "hex" -> DecodeHex(text)
      [] from = "dec" -> DecodeDec(text)
      [] from = "text" -> Key(Sha256(text), Main, TRUE)
      [] OTHER -> IF LooksLikePrivkey(text) THEN ParsePrivkey(text)
                  ELSE Key(Sha256(text), Main, TRUE)

Given(field, fallback) == IF field = Nothing THEN fallback ELSE field

\* The fields of an object count for a number; a WIF has its own.
PrivkeyFromObject(item) ==
    LET k == CASE item.encoding = "hex" -> DecodeHex(item.data)
               [] item.encoding = "dec" -> DecodeDec(item.data)
               [] item.encoding = "wif" -> DecodeWif(item.data)
               [] item.encoding = Nothing -> PrivkeyFromBare(item.data, Nothing)
               [] OTHER -> FailedKey("invalid encoding") IN
    IF item.type # "privkey" THEN FailedKey("expected a privkey")
    ELSE IF Is(k) /\ item.data.form # "wif"
    THEN Key(k.secret, Given(item.network, k.network), Given(item.compressed, k.compressed))
    ELSE k

PrivkeyObject(k, encoding, source) ==
    Object("privkey", encoding, k.network, k.compressed, Encode(k, encoding), source)
EmitKey(opts, k, source) ==
    LET network == Given(opts.network, k.network)
        modes   == CompressionModes(opts, k.compressed) IN
    Ok([i \in DOMAIN modes |->
           PrivkeyObject(Key(k.secret, network, modes[i]), Given(opts.encoding, "wif"),
                         IF opts.source THEN source ELSE Nothing)])
Origin(item, opts) ==
    [type |-> "origin", data |-> item.data, from |-> Given(opts.from, item.data.form)]
Privkey(opts, item) ==
    LET k == IF item.type = "bare" THEN PrivkeyFromBare(item.data, opts.from)
                                   ELSE PrivkeyFromObject(item) IN
    IF ~Is(k) THEN Fail(k.fail)
    ELSE EmitKey(opts, k, IF item.type = "bare" THEN Origin(item, opts) ELSE item)
\* --new: a fresh secret each time.
PrivkeyNew(opts, secret) ==
    EmitKey(opts, Key(secret, Given(opts.network, Main), TRUE), [type |-> "origin", from |-> "new"])
-----------------------------------------------------------------------------
\* btk pubkey and btk address: an input key has a point, a network that may
\* be fixed by what was read, and a source.

InputKey(k, locked, source) == [key |-> k, locked |-> locked, source |-> source]
PrivSource(encoding, text, k) == Object("privkey", encoding, k.network, k.compressed, text, Nothing)
FromSecret(k, encoding, text, locked) ==
    IF Is(k) THEN InputKey(k, locked, PrivSource(encoding, text, k)) ELSE k
FromWif(text) == FromSecret(DecodeWif(text), "wif", text, TRUE)
On(k, network) == IF Is(k) THEN Key(k.secret, network, k.compressed) ELSE k
FromHex(text, network) == FromSecret(On(DecodeHex(text), network), "hex", text, FALSE)
FromDec(text, network) == FromSecret(On(DecodeDec(text), network), "dec", text, FALSE)
FromPub(text, network) ==
    IF text.form # "pubhex" THEN FailedKey("not a private or public key")
    ELSE InputKey(Key(text.secret, network, text.compressed), FALSE,
                  Object("pubkey", "hex", network, text.compressed, text, Nothing))

PubkeyFromBare(text, opts) ==
    LET fallback == Given(opts.network, Main)
        kind == IF opts.from = "hex" /\ text.form = "pubhex" THEN "pubhex" ELSE Given(opts.from, text.form) IN
    CASE kind \in {"wif", "badwif"} -> FromWif(text)
      [] kind = "hex" -> FromHex(text, fallback)
      [] kind = "dec" -> FromDec(text, fallback)
      [] kind = "pubhex" -> FromPub(text, fallback)
      [] OTHER -> FailedKey("not a private or public key")
\* A bare line of address is a WIF or a public key, never a number.
AddressFromBare(text, opts) ==
    IF text.form \in {"wif", "badwif"} THEN FromWif(text)
    ELSE FromPub(text, Given(opts.network, Main))
AddressFromData(text) ==
    IF text.form = "pubhex" THEN FailedKey("not a private or public key")
    ELSE PubkeyFromBare(text, [network |-> Nothing, from |-> Nothing])

\* The fields of an object: for pubkey its network wins over a WIF, for
\* address the WIF wins; the compression is always that of the field.
ApplyMeta_Scalars(in, item, command) ==  \* mutant: the compression of a WIF only
    LET network == IF item.network = Nothing \/ (command = "address" /\ in.locked)
                   THEN in.key.network ELSE item.network IN
    InputKey(Key(in.key.secret, network, in.key.compressed),
             in.locked \/ item.network # Nothing, item)
ApplyMeta(in, item, command) ==
    LET network == IF item.network = Nothing \/ (command = "address" /\ in.locked)
                   THEN in.key.network ELSE item.network IN
    InputKey(Key(in.key.secret, network, Given(item.compressed, in.key.compressed)),
             in.locked \/ item.network # Nothing, item)
InputOf(item, opts, command) ==
    IF item.type = "bare"
    THEN IF command = "pubkey" THEN PubkeyFromBare(item.data, opts) ELSE AddressFromBare(item.data, opts)
    ELSE LET in == CASE item.type = "privkey" /\ item.encoding = "hex" -> FromHex(item.data, Main)
                     [] item.type = "privkey" /\ item.encoding = "dec" -> FromDec(item.data, Main)
                     [] item.type = "privkey" /\ item.encoding = "wif" -> FromWif(item.data)
                     [] item.type = "privkey" /\ item.encoding = Nothing ->
                           IF command = "address" THEN AddressFromData(item.data)
                           ELSE PubkeyFromBare(item.data, [network |-> Nothing, from |-> Nothing])
                     [] item.type = "pubkey" -> FromPub(item.data, Main)
                     [] OTHER -> FailedKey("not a private or public key") IN
         IF Is(in) THEN ApplyMeta(in, item, command) ELSE in

NetworkOf(in, opts) == IF in.locked THEN in.key.network ELSE Given(opts.network, in.key.network)

Pubkey(opts, item) ==
    LET in == InputOf(item, opts, "pubkey") IN
    IF ~Is(in) THEN Fail(in.fail)
    ELSE LET modes == CompressionModes(opts, in.key.compressed) IN
         Ok([i \in DOMAIN modes |->
                Object("pubkey", "hex", NetworkOf(in, opts), modes[i],
                       PubHex(in.key.secret, modes[i]), IF opts.source THEN in.source ELSE Nothing)])

AddressObject(k, style, source) ==
    [type |-> "address", style |-> style, network |-> k.network,
     data |-> EncodeAddress(k, style), source |-> source]
\* A style that the key cannot have ends the command, or is left out; --match
\* keeps some of the addresses, and brings the source with it.
Address(opts, item) ==
    LET in == InputOf(item, opts, "address") IN
    IF ~Is(in) THEN Fail(in.fail)
    ELSE LET k == Key(in.key.secret, NetworkOf(in, opts), in.key.compressed)
             can(style) == ~NeedsCompressed(style) \/ k.compressed
             kept == opts.match = Nothing \/ k.secret \in opts.match
             source == IF opts.source \/ opts.match # Nothing THEN in.source ELSE Nothing IN
         IF ~opts.skip /\ \E i \in DOMAIN opts.types : ~can(opts.types[i])
         THEN Fail("uncompressed key cannot produce p2wpkh or p2tr")
         ELSE Ok(FlattenSeq([i \in DOMAIN opts.types |->
                     IF can(opts.types[i]) /\ kept
                     THEN <<AddressObject(k, opts.types[i], source)>> ELSE <<>>]))
-----------------------------------------------------------------------------
\* btk sweep: the keys and addresses to spend from.

\* An item, its source, the source of that, and so on; nullptr is NoItem.
NoItem   == [type |-> "none"]
MaxDepth == 8
SourceOf(item) == IF IF "source" \in DOMAIN item THEN item.source # Nothing ELSE FALSE
                  THEN item.source ELSE NoItem
Chain(item) ==
    LET chain[d \in 0 .. MaxDepth] == IF d = 0 THEN item ELSE SourceOf(chain[d - 1])
    IN  chain
FindPrivkey(item) ==
    LET chain == Chain(item)
        found == {d \in 0 .. MaxDepth : chain[d].type = "privkey"}
    IN  IF found = {} THEN NoItem ELSE chain[Min(found)]

SweepKey_Data(item) ==           \* mutant: the fields of the object do not count
    ParsePrivkey(item.data)
\* As privkey has it, but the compression of the field wins over the WIF.
SweepKey(item) ==
    LET k == CASE item.encoding = "hex" -> DecodeHex(item.data)
               [] item.encoding = "dec" -> DecodeDec(item.data)
               [] item.encoding = "wif" -> DecodeWif(item.data)
               [] item.encoding = Nothing -> ParsePrivkey(item.data)
               [] OTHER -> FailedKey("invalid encoding") IN
    IF ~Is(k) THEN k
    ELSE Key(k.secret, IF item.encoding = "wif" THEN k.network ELSE Given(item.network, k.network),
             Given(item.compressed, k.compressed))

Spend(k, style, from) == [key |-> k, style |-> style, from |-> from]
Derives(k, style) == k.compressed \/ ~NeedsCompressed(style)
SpendsOf(k, types) ==
    IF ~Is(k) THEN Fail(k.fail)
    ELSE IF \E i \in DOMAIN types : ~Derives(k, types[i])
    THEN Fail("uncompressed key cannot produce p2wpkh or p2tr")
    ELSE IF k.network # Main THEN Fail("not a bitcoin address")
    ELSE Ok([i \in DOMAIN types |-> Spend(k, types[i], EncodeAddress(k, types[i]))])
SpendOfAddress(item, k) ==
    IF ~Is(k) THEN Fail(k.fail)
    ELSE IF ~Derives(k, item.style) THEN Fail("uncompressed key cannot produce p2wpkh or p2tr")
    ELSE IF EncodeAddress(k, item.style) # item.data THEN Fail("private key does not match address")
    ELSE Ok(<<Spend(k, item.style, item.data)>>)
Sweep(opts, item) ==
    LET types == IF opts.types = <<>> THEN <<"p2wpkh">> ELSE opts.types
        found == IF item.type \in {"pubkey", "address"} THEN FindPrivkey(item) ELSE item IN
    IF item.type = "bare"
    THEN IF item.data.form \in {"wif", "badwif"} THEN SpendsOf(DecodeWif(item.data), types)
         ELSE Fail("not a private key")
    ELSE IF item.type = "address" /\ item.data.key.network # Main THEN Fail("not a bitcoin address")
    ELSE IF found = NoItem THEN Fail("missing private key")
    ELSE IF item.type = "address" THEN SpendOfAddress(item, SweepKey(found))
    ELSE SpendsOf(SweepKey(found), types)
-----------------------------------------------------------------------------
\* --out plain prints the primary string of an object.
Shown(opts, made) == IF opts.out = "plain" /\ made.ok
                     THEN Ok([i \in DOMAIN made.objects |-> Bare(made.objects[i].data)])
                     ELSE made
RunCommand(stage, item) ==
    Shown(stage.options, CASE stage.command = "privkey" -> Privkey(stage.options, item)
                           [] stage.command = "pubkey"  -> Pubkey(stage.options, item)
                           [] stage.command = "address" -> Address(stage.options, item))
=============================================================================
