-------------------------------- MODULE Codecs --------------------------------
(***************************************************************************)
(* Everything that btk reads back from bytes or text that may have been    *)
(* damaged on the way: a value is encoded, then the encoding may be cut    *)
(* off, or something added to it, or some of it replaced, or it may be     *)
(* spelled in capitals, and what arrives is read.                          *)
(***************************************************************************)
EXTENDS AddressFormat

CONSTANTS Samples,            \* what is encoded: [kind, value]
          Cuts(_),            \* the lengths to which an encoding is cut
          Places(_),          \* where it is changed
          Instead(_)          \* what is put there, by kind

VARIABLES thing, text, damage, back
vars == <<thing, text, damage, back>>

Binary == {"size", "tx", "block"}
Bech32Kinds == {"segwit"}

\* A block as Bitcoin Core sends it.
BlockBytes(b) == b.header \o ListOf([i \in DOMAIN b.txs |-> SerializeTx(b.txs[i], TRUE)])
Encode(kind, value) ==
    CASE kind = "size"   -> WriteCompact(value)
      [] kind = "tx"     -> SerializeTx(value, TRUE)
      [] kind = "txid"   -> SerializeTx(value, FALSE)
      [] kind = "block"  -> BlockBytes(value)
      [] kind = "segwit" -> SegwitEncode(value.hrp, value.witver, value.program)
      [] kind = "base58" -> Base58Encode(value)
      [] kind = "wif"    -> EncodeWif(value)
      [] kind = "dec"    -> EncodeDec(value)
      [] kind = "script" -> AddressFromScript(value)
Decode(kind, t) ==
    CASE kind = "size"   -> Whole(t, ReadCompact(t, 0))
      [] kind \in {"tx", "txid"} -> ParseTx(t)
      [] kind = "block"  -> ParseBlock(t)
      [] kind = "segwit" -> SegwitDecode(t)
      [] kind = "base58" -> Base58Decode(t)
      [] kind = "wif"    -> DecodeWif(t)
      [] kind = "dec"    -> DecodeDec(t)
      [] kind = "script" -> ScriptFromAddress(t)

\* Capitals, and their undoing.
Upper(c)    == IF IsLower(c) THEN c - 32 ELSE c
Capitals(t) == [i \in DOMAIN t |-> Upper(t[i])]
Smalls(t)   == [i \in DOMAIN t |-> Lower(t[i])]

\* The freedoms of the formats: zeros in front of a decimal, all but the
\* lowest bit of a transaction's flag, and capitals in a bech32 text.
Usual(kind, t) ==
    CASE kind = "dec" -> Decimal(SkipZeros([i \in DOMAIN t |-> t[i] - 48]))
      [] kind = "tx" /\ Segwit(t) -> [t EXCEPT ![6] = 1]
      [] kind \in {"segwit", "script"} /\ SegwitDecode(t).ok -> Smalls(t)
      [] OTHER -> t

\* A script that pays to a public key has the address of its hash, and a
\* transaction without its witnesses, as txid hashes it, has none.
Kept(kind, value) ==
    CASE kind = "script" /\ IsP2pk(value) -> P2pkh(Hash160(SubSeq(value, 2, Len(value) - 1)))
      [] kind = "txid" -> Stripped(value)
      [] OTHER -> value
-----------------------------------------------------------------------------
Unread == [unread |-> TRUE]
Init == /\ thing \in Samples /\ text = Encode(thing.kind, thing.value)
        /\ damage = "none" /\ back = Unread

\* Damage, once; nothing but btk itself has what a txid is made of.
OnTheWay == damage = "none" /\ back = Unread /\ thing.kind # "txid" /\ UNCHANGED <<thing, back>>
Cut ==
    /\ OnTheWay /\ damage' = "cut"
    /\ \E n \in Cuts(text) : text' = SubSeq(text, 1, n)
Extend ==
    /\ OnTheWay /\ damage' = "extended"
    /\ \E c \in Instead(thing.kind), n \in {0, 1} \cap 0 .. Len(text) :
          text' = SubSeq(text, 1, Len(text) - n) \o <<c>> \o SubSeq(text, Len(text) - n + 1, Len(text))
Change ==
    /\ OnTheWay /\ damage' = "changed"
    /\ \E i \in Places(text), c \in Instead(thing.kind) :
          text[i] # c /\ text' = [text EXCEPT ![i] = c]
\* The whole text in capitals, as QR codes have it.
Capitalise ==
    /\ OnTheWay /\ damage' = "capitals" /\ thing.kind \notin Binary
    /\ text' = Capitals(text)
Read ==
    /\ back = Unread /\ back' = Decode(thing.kind, text)
    /\ UNCHANGED <<thing, text, damage>>
Next == Cut \/ Extend \/ Change \/ Capitalise \/ Read
Spec == Init /\ [][Next]_vars
-----------------------------------------------------------------------------
\* Nothing has happened to the text that its reader may mind.
Intact == damage = "none" \/ (damage = "capitals" /\ thing.kind \in Bech32Kinds)

\* What was encoded is read back, and the class of an address is the form of
\* its script: at 252 and 253, 65535 and 65536, with leading zero bytes, with
\* the largest key, and with scripts of every standard form.  Segwit addresses
\* may be in capitals.
RoundTrip == back # Unread /\ Intact =>
    /\ text # NoText \/ thing.value = <<>>
    /\ back.ok /\ back.value = Kept(thing.kind, thing.value)
    /\ thing.kind = "script" => IsMainnet(text) /\ Class(text) # "none"

\* Damage is not read as something else: of a transaction or a block nothing
\* may be missing and nothing left over; of a segwit address no character
\* may be wrong either, and a "q" before a final "p", which the checksum of
\* bech32 does not see, makes a program of a length that is refused.
DamageShows ==
    \/ damage \in {"none", "capitals"} \/ back = Unread
    \/ thing.kind \notin Binary \cup Bech32Kinds
    \/ damage = "changed" /\ thing.kind \in Binary
    \/ ~back.ok

\* Whatever is accepted, damaged or not, is the encoding of what it is read
\* as, so nothing has two texts but for the freedoms that Usual lists: compact
\* sizes are minimal, bits of padding are zero, capitals do not mix with small
\* letters, leading zeros are counted, nothing wraps around.
OneEncoding ==
    (IF back = Unread THEN FALSE ELSE back.ok /\ (thing.kind = "size" => back.value < Huge)) =>
        Encode(thing.kind, back.value) = Usual(thing.kind, text)
=============================================================================
