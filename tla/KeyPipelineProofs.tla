-------------------------- MODULE KeyPipelineProofs --------------------------
(***************************************************************************)
(* Proofs about KeyPipeline, for pipelines of any length, pipes and blocks *)
(* of any size, any options and any input that btk can have written.       *)
(*                                                                         *)
(* First the data.  The sources of an object are a chain; an honest object *)
(* fits to its source, and so does everything further up.  Every command   *)
(* makes honest objects of honest ones (Makes), so what flows out of a     *)
(* stage is what may flow into the next (Loaded).                          *)
(*                                                                         *)
(* Then the pipeline.  What is on its way, from the last stage back to the *)
(* first, is a sequence of loads, one per stage, each seen as what the     *)
(* rest of the pipeline will make of it.  A step changes the load of one   *)
(* stage, or moves a value from one load to the next one; in either case   *)
(* the loads one after the other are what they were.  IInv says so         *)
(* (Conserved), and for each stage what it may hold (Holds), how much      *)
(* (Within), and that a stage does not end before its input does (Done).   *)
(*                                                                         *)
(* From this follow the types, that nothing is lost (Conservation), that   *)
(* objects and their sources agree (Agreement), and what sweep can do with *)
(* an address (Sweeping).                                                  *)
(***************************************************************************)
EXTENDS KeyPipeline, DataTheorems

LEMMA DepthIs == MaxDepth \in Nat /\ MaxDepth = 8
BY DEF MaxDepth

(***************************************************************************)
(* The sources of an object.                                               *)
(***************************************************************************)
Climbs(c, o) == c = [d \in 0 .. MaxDepth |-> IF d = 0 THEN o ELSE SourceOf(c[d - 1])]

LEMMA ChainChosen ==
    ASSUME NEW o
    PROVE  Chain(o) = CHOOSE c : Climbs(c, o)
BY Zenon DEF Chain, Climbs

LEMMA ChainSteps ==
    ASSUME NEW o
    PROVE  /\ Chain(o)[0] = o
           /\ \A d \in 1 .. MaxDepth : Chain(o)[d] = SourceOf(Chain(o)[d - 1])
<1> DEFINE Upto(c, n) == c = [d \in 0 .. n |-> IF d = 0 THEN o ELSE SourceOf(c[d - 1])]
           G == {n \in Nat : \E c : Upto(c, n)}
<1>1. 0 \in G
  <2> DEFINE g == [d \in 0 .. 0 |-> o]
  <2>1. \A d \in 0 .. 0 : d = 0
    OBVIOUS
  <2>2. g = [d \in 0 .. 0 |-> IF d = 0 THEN o ELSE SourceOf(g[d - 1])]
    BY <2>1
  <2>3. Upto(g, 0)
    BY <2>2
  <2> HIDE DEF Upto, g
  <2> QED BY <2>3
<1>2. ASSUME NEW n \in 1 .. MaxDepth, n - 1 \in G PROVE n \in G
  <2>1. PICK c : Upto(c, n - 1)
    BY <1>2
  <2>2. n \in Nat /\ n - 1 \in 0 .. n - 1 /\ n # 0
    BY <1>2, DepthIs
  <2> DEFINE g == [d \in 0 .. n |-> IF d = n THEN SourceOf(c[n - 1]) ELSE c[d]]
             Value(d) == IF d = 0 THEN o ELSE SourceOf(g[d - 1])
  <2>3. ASSUME NEW d \in 0 .. n PROVE g[d] = Value(d)
    <3>1. d # 0 => d - 1 \in 0 .. n - 1 /\ d - 1 \in 0 .. n /\ d - 1 # n
      BY <2>2, <2>3
    <3>2. d # 0 => g[d - 1] = c[d - 1]
      BY <3>1
    <3>3. CASE d = n
      <4>1. g[d] = SourceOf(c[n - 1])
        BY <3>3
      <4> HIDE DEF g
      <4> QED BY <4>1, <3>2, <3>3, <2>2
    <3>4. CASE d # n
      <4>1. g[d] = c[d] /\ d \in 0 .. n - 1
        BY <3>4, <2>2, <2>3
      <4>2. c[d] = IF d = 0 THEN o ELSE SourceOf(c[d - 1])
        BY <4>1, <2>1
      <4> HIDE DEF g
      <4> QED BY <4>1, <4>2, <3>2
    <3> QED BY <3>3, <3>4
  <2>4. g = [d \in 0 .. n |-> g[d]]
    OBVIOUS
  <2>5. g = [d \in 0 .. n |-> Value(d)]
    <3> HIDE DEF g, Value
    <3> QED BY <2>3, <2>4
  <2>6. Upto(g, n)
    <3> HIDE DEF g
    <3> QED BY <2>5
  <2> HIDE DEF Upto, g
  <2> QED BY <2>2, <2>6
<1>3. 0 .. MaxDepth \subseteq G
  <2> HIDE DEF G
  <2> QED BY <1>1, <1>2, DepthIs, UpTo
<1>4. MaxDepth \in G
  <2> HIDE DEF G
  <2> QED BY <1>3, DepthIs
<1>5. \E c : Climbs(c, o)
  BY <1>4 DEF Climbs
<1>6. Climbs(Chain(o), o)
  BY <1>5, ChainChosen
<1> DEFINE chain == Chain(o)
<1>7. chain = [d \in 0 .. MaxDepth |-> IF d = 0 THEN o ELSE SourceOf(chain[d - 1])]
  BY <1>6 DEF Climbs
<1> HIDE DEF chain
<1>8. chain[0] = o
  BY <1>7, DepthIs
<1>9. ASSUME NEW d \in 1 .. MaxDepth PROVE chain[d] = SourceOf(chain[d - 1])
  BY <1>7, <1>9, DepthIs
<1> QED BY <1>8, <1>9 DEF chain

\* The sources of an object are its source and the sources of that.
LEMMA ChainTail ==
    ASSUME NEW o, NEW s, s = SourceOf(o)
    PROVE  \A d \in 0 .. MaxDepth - 1 : Chain(o)[d + 1] = Chain(s)[d]
<1> DEFINE G == {d \in Nat : Chain(o)[d + 1] = Chain(s)[d]}
<1>1. 0 \in G
  <2>1. 0 + 1 \in 1 .. MaxDepth /\ 0 + 1 - 1 = 0
    BY DepthIs
  <2>2. Chain(o)[0 + 1] = SourceOf(o)
    BY <2>1, ChainSteps
  <2> QED BY <2>2, ChainSteps
<1>2. ASSUME NEW d \in 1 .. MaxDepth - 1, d - 1 \in G PROVE d \in G
  <2>1. /\ d \in Nat /\ d + 1 \in 1 .. MaxDepth /\ d + 1 - 1 = d /\ d \in 1 .. MaxDepth
        /\ d - 1 + 1 = d
    BY <1>2, DepthIs
  <2>2. Chain(o)[d + 1] = SourceOf(Chain(o)[d])
    BY <2>1, ChainSteps
  <2>3. Chain(s)[d] = SourceOf(Chain(s)[d - 1])
    BY <2>1, ChainSteps
  <2>4. Chain(o)[d] = Chain(s)[d - 1]
    BY <1>2, <2>1
  <2> QED BY <2>1, <2>2, <2>3, <2>4
<1>3. 0 .. MaxDepth - 1 \subseteq G
  <2>1. MaxDepth - 1 \in Nat
    BY DepthIs
  <2> HIDE DEF G
  <2> QED BY <1>1, <1>2, <2>1, UpTo
<1> QED BY <1>3

\* Above an origin, and above nothing, there is nothing.
LEMMA NothingAbove ==
    ASSUME NEW s, SourceOf(s) = NoItem
    PROVE  \A d \in 1 .. MaxDepth : Chain(s)[d] = NoItem
<1> DEFINE G == {d \in Nat : d > 0 => Chain(s)[d] = NoItem}
<1>1. SourceOf(NoItem) = NoItem
  BY DEF SourceOf, NoItem
<1>2. 0 \in G
  OBVIOUS
<1>3. ASSUME NEW d \in 1 .. MaxDepth, d - 1 \in G PROVE d \in G
  <2>1. d \in Nat /\ (d # 1 => d - 1 > 0)
    BY <1>3, DepthIs
  <2>2. Chain(s)[d] = SourceOf(Chain(s)[d - 1])
    BY ChainSteps
  <2>3. CASE d = 1
    <3>1. Chain(s)[d - 1] = s
      BY <2>3, ChainSteps
    <3> QED BY <2>1, <2>2, <3>1
  <2>4. CASE d # 1
    BY <1>1, <1>3, <2>1, <2>2, <2>4
  <2> QED BY <2>3, <2>4
<1>4. 0 .. MaxDepth \subseteq G
  <2> HIDE DEF G
  <2> QED BY <1>2, <1>3, DepthIs, UpTo
<1> QED BY <1>4, DepthIs
-----------------------------------------------------------------------------
(***************************************************************************)
(* Honest objects.                                                         *)
(***************************************************************************)
Ends(s) == s.type \in {"origin", "none"} /\ SourceOf(s) = NoItem

LEMMA NoItemEnds == Ends(NoItem) /\ NoItem.type \notin Types
BY DEF Ends, NoItem, SourceOf, Types, KeyTypes

LEMMA HonestIsTrue ==
    ASSUME NEW o, Honest(o)
    PROVE  True(o) /\ o.type \in Types
<1>1. 0 \in 0 .. MaxDepth
  BY DepthIs
<1>2. Chain(o)[0] = o
  BY ChainSteps
<1> QED BY <1>1, <1>2 DEF Honest

\* An object is honest if it is true and fits to its source.
LEMMA HonestNew ==
    ASSUME NEW o, o.type \in Types, True(o), NEW s, s = SourceOf(o), Linked(o, s),
           Honest(s) \/ Ends(s)
    PROVE  Honest(o)
<1>1. ASSUME NEW d \in 1 .. MaxDepth PROVE Chain(o)[d] = Chain(s)[d - 1] /\ d - 1 \in 0 .. MaxDepth
  <2>1. PICK e \in 0 .. MaxDepth - 1 : e = d - 1
    BY DepthIs
  <2>2. Chain(o)[e + 1] = Chain(s)[e]
    BY ChainTail
  <2> QED BY <2>1, <2>2, DepthIs
<1>2. Chain(o)[0] = o /\ Chain(s)[0] = s
  BY ChainSteps
<1>3. ASSUME NEW d \in 0 .. MaxDepth, Chain(o)[d].type \in Types PROVE True(Chain(o)[d])
  <2>1. CASE d = 0
    BY <1>2, <2>1
  <2>2. CASE d # 0
    <3>1. PICK e : e = d - 1
      OBVIOUS
    <3>2. e \in 0 .. MaxDepth /\ Chain(o)[d] = Chain(s)[e]
      BY <1>1, <2>2, <3>1, DepthIs
    <3>3. CASE Honest(s)
      <4>1. Chain(s)[e].type \in Types => True(Chain(s)[e])
        BY <3>2, <3>3 DEF Honest
      <4> QED BY <1>3, <3>2, <4>1
    <3>4. CASE Ends(s)
      <4>1. e \in 1 .. MaxDepth => Chain(s)[e] = NoItem
        BY <3>4, NothingAbove DEF Ends
      <4>2. e = 0 => Chain(s)[e] = s
        BY <1>2
      <4>3. e = 0 \/ e \in 1 .. MaxDepth
        BY <3>2, DepthIs
      <4>4. s.type \notin Types
        BY <3>4 DEF Ends, Types, KeyTypes
      <4> QED BY <1>3, <3>2, <4>1, <4>2, <4>3, <4>4, NoItemEnds
    <3> QED BY <3>3, <3>4
  <2> QED BY <2>1, <2>2
<1>4. ASSUME NEW d \in 1 .. MaxDepth PROVE Follows(Chain(o)[d - 1], Chain(o)[d])
  <2>1. CASE d = 1
    <3>1. Chain(o)[d - 1] = o /\ Chain(o)[d] = s
      BY <1>1, <1>2, <2>1
    <3>2. Follows(o, s)
      BY DEF Follows
    <3> QED BY <3>1, <3>2
  <2>2. CASE d # 1
    <3>1. PICK e \in 1 .. MaxDepth : e = d - 1
      BY <2>2, DepthIs
    <3>2. Chain(o)[d] = Chain(s)[e] /\ Chain(o)[e] = Chain(s)[e - 1]
      BY <1>1, <3>1
    <3>3. Follows(Chain(s)[e - 1], Chain(s)[e])
      <4>1. CASE Honest(s)
        BY <4>1 DEF Honest
      <4>2. CASE Ends(s)
        <5>1. Chain(s)[e] = NoItem
          BY <4>2, NothingAbove DEF Ends
        <5>2. Chain(s)[e - 1] = s \/ Chain(s)[e - 1] = NoItem
          <6>1. CASE e = 1
            BY <1>2, <6>1
          <6>2. CASE e # 1
            <7>1. PICK f \in 1 .. MaxDepth : f = e - 1
              BY <6>2, DepthIs
            <7>2. Chain(s)[f] = NoItem
              BY <4>2, NothingAbove DEF Ends
            <7> QED BY <7>1, <7>2
          <6> QED BY <6>1, <6>2
        <5>3. s.type \notin Types
          BY <4>2 DEF Ends, Types, KeyTypes
        <5> QED BY <5>1, <5>2, <5>3, NoItemEnds DEF Follows
      <4> QED BY <4>1, <4>2
    <3> QED BY <3>1, <3>2, <3>3
  <2> QED BY <2>1, <2>2
<1> QED BY <1>3, <1>4 DEF Honest

LEMMA HonestMade ==
    ASSUME NEW o, "source" \in DOMAIN o, o.type \in Types, True(o),
           \/ o.source = Nothing
           \/ Linked(o, o.source) /\ (Honest(o.source) \/ Ends(o.source))
    PROVE  Honest(o)
<1>1. SourceOf(o) = IF o.source # Nothing THEN o.source ELSE NoItem
  BY DEF SourceOf
<1>2. CASE o.source = Nothing
  <2>1. SourceOf(o) = NoItem
    BY <1>1, <1>2
  <2>2. Linked(o, NoItem)
    BY DEF Linked, NoItem, KeyTypes
  <2> QED BY <2>1, <2>2, HonestNew, NoItemEnds
<1>3. CASE o.source # Nothing
  <2>1. SourceOf(o) = o.source
    BY <1>1, <1>3
  <2> QED BY <1>3, <2>1, HonestNew
<1> QED BY <1>2, <1>3
-----------------------------------------------------------------------------
(***************************************************************************)
(* Keys.                                                                   *)
(***************************************************************************)
LEMMA KeyIs ==
    /\ \A k : IsKey(k) => Is(k)
    /\ \A why : ~Is(FailedKey(why))
    /\ \A s : \A n \in {Main, Test} : \A c \in BOOLEAN :
          /\ IsKey(Key(s, n, c)) /\ Key(s, n, c).secret = s
          /\ Key(s, n, c).network = n /\ Key(s, n, c).compressed = c
    /\ \A k, l : IsKey(k) /\ IsKey(l) /\ k.secret = l.secret /\ k.network = l.network
                    /\ k.compressed = l.compressed => k = l
    /\ Main \in {Main, Test} /\ Main # Nothing /\ Test # Nothing
    /\ \A c \in BOOLEAN : c # Nothing
    /\ \A n \in {Main, Test} : n # Nothing
<1>1. ASSUME NEW k, IsKey(k) PROVE Is(k)
  BY <1>1 DEF IsKey, Is, Key
<1>2. ASSUME NEW why PROVE ~Is(FailedKey(why))
  BY DEF Is, FailedKey
<1>3. ASSUME NEW s, NEW n \in {Main, Test}, NEW c \in BOOLEAN
      PROVE  /\ IsKey(Key(s, n, c)) /\ Key(s, n, c).secret = s
             /\ Key(s, n, c).network = n /\ Key(s, n, c).compressed = c
  BY DEF IsKey, Key
<1>4. ASSUME NEW k, NEW l, IsKey(k), IsKey(l), k.secret = l.secret, k.network = l.network,
             k.compressed = l.compressed
      PROVE  k = l
  BY <1>4 DEF IsKey
<1>5. Main \in {Main, Test} /\ Main # Nothing /\ Test # Nothing
  BY NothingAssumption
<1>6. \A c \in BOOLEAN : c # Nothing
  BY NothingAssumption
<1> QED BY <1>1, <1>2, <1>3, <1>4, <1>5, <1>6

LEMMA DecodeIs ==
    ASSUME NEW t, IsText(t)
    PROVE  /\ Is(DecodeWif(t)) => t.form = "wif" /\ DecodeWif(t) = t.key /\ IsKey(t.key)
           /\ Is(DecodeHex(t)) => /\ t.form # "wif" /\ IsKey(DecodeHex(t))
                                  /\ DecodeHex(t) = Key(DecodeHex(t).secret, Main, TRUE)
           /\ Is(DecodeDec(t)) => /\ t.form # "wif" /\ IsKey(DecodeDec(t))
                                  /\ DecodeDec(t) = Key(DecodeDec(t).secret, Main, TRUE)
<1>1. Is(DecodeWif(t)) => t.form = "wif" /\ DecodeWif(t) = t.key /\ IsKey(t.key)
  BY KeyIs DEF DecodeWif, IsText
<1>2. ASSUME Is(DecodeHex(t))
      PROVE  t.form = "hex" /\ DecodeHex(t) = Key(t.secret, Main, TRUE)
  BY <1>2, KeyIs DEF DecodeHex
<1>3. ASSUME Is(DecodeDec(t))
      PROVE  t.form # "wif" /\ \E s : DecodeDec(t) = Key(s, Main, TRUE)
  <2>1. t.form = "dec" => DecodeDec(t) = Key(t.secret, Main, TRUE)
    BY DEF DecodeDec
  <2>2. t.form # "dec" /\ "decimal" \in DOMAIN t => DecodeDec(t) = Key(t.decimal, Main, TRUE)
    BY DEF DecodeDec
  <2>3. t.form = "dec" \/ "decimal" \in DOMAIN t
    BY <1>3, KeyIs DEF DecodeDec
  <2>4. t.form # "wif"
    BY <2>3 DEF IsText
  <2> QED BY <2>1, <2>2, <2>3, <2>4
<1>4. \A s : IsKey(Key(s, Main, TRUE)) /\ Key(s, Main, TRUE).secret = s
  BY KeyIs
<1> QED BY <1>1, <1>2, <1>3, <1>4

LEMMA ModesAre ==
    ASSUME NEW opts, NEW c \in BOOLEAN
    PROVE  LET modes == CompressionModes(opts, c) IN
           /\ IsSeq(modes) /\ Len(modes) > 0 /\ \A i \in DOMAIN modes : modes[i] \in BOOLEAN
<1>1. ASSUME NEW b
      PROVE  IsSeq(<<b>>) /\ Len(<<b>>) = 1 /\ DOMAIN <<b>> = 1 .. 1 /\ <<b>>[1] = b
  <2>1. DOMAIN <<b>> = 1 .. 1
    OBVIOUS
  <2> QED BY <2>1, OneIsSeq
<1>2. IsSeq(<<TRUE, FALSE>>) /\ Len(<<TRUE, FALSE>>) = 2 /\ \A i \in 1 .. 2 : <<TRUE, FALSE>>[i] \in BOOLEAN
  <2>1. <<TRUE, FALSE>> \in Seq(BOOLEAN)
    OBVIOUS
  <2>2. IsSeq(<<TRUE, FALSE>>)
    BY <2>1, SeqIsSeq
  <2> QED BY <2>2
<1>3. DOMAIN <<TRUE, FALSE>> = 1 .. 2
  OBVIOUS
<1>4. ASSUME NEW m, m \in {<<TRUE, FALSE>>, <<FALSE>>, <<TRUE>>, <<c>>}
      PROVE  IsSeq(m) /\ Len(m) > 0 /\ \A i \in DOMAIN m : m[i] \in BOOLEAN
  <2>1. CASE m = <<TRUE, FALSE>>
    <3> DEFINE both == <<TRUE, FALSE>>
    <3>1. IsSeq(both) /\ Len(both) = 2 /\ (\A i \in 1 .. 2 : both[i] \in BOOLEAN) /\ DOMAIN both = 1 .. 2
      BY <1>2, <1>3, Zenon
    <3>2. m = both
      BY <2>1
    <3> HIDE DEF both
    <3> QED BY <3>1, <3>2
  <2>2. CASE m \in {<<FALSE>>, <<TRUE>>, <<c>>}
    <3>1. PICK b \in BOOLEAN : m = <<b>>
      BY <2>2
    <3>2. \A i \in 1 .. 1 : i = 1
      OBVIOUS
    <3> QED BY <1>1, <3>1, <3>2
  <2> QED BY <1>4, <2>1, <2>2
<1>5. CompressionModes(opts, c) \in {<<TRUE, FALSE>>, <<FALSE>>, <<TRUE>>, <<c>>}
  BY DEF CompressionModes
<1> QED BY <1>4, <1>5

\* The text of a private key object, decoded.
Decoded(o) == CASE o.encoding = "hex" -> DecodeHex(o.data)
                [] o.encoding = "dec" -> DecodeDec(o.data)
                [] o.encoding = "wif" -> DecodeWif(o.data)
                [] o.encoding = Nothing -> PrivkeyFromBare(o.data, Nothing)
                [] OTHER -> FailedKey("invalid encoding")

LEMMA DecodedIs ==
    ASSUME NEW o
    PROVE  /\ o.encoding = "hex" => Decoded(o) = DecodeHex(o.data)
           /\ o.encoding = "dec" => Decoded(o) = DecodeDec(o.data)
           /\ o.encoding = "wif" => Decoded(o) = DecodeWif(o.data)
<1>1. ASSUME o.encoding = "hex" PROVE Decoded(o) = DecodeHex(o.data)
  BY <1>1, NothingAssumption DEF Decoded
<1>2. ASSUME o.encoding = "dec" PROVE Decoded(o) = DecodeDec(o.data)
  BY <1>2, NothingAssumption DEF Decoded
<1>3. ASSUME o.encoding = "wif" PROVE Decoded(o) = DecodeWif(o.data)
  BY <1>3, NothingAssumption DEF Decoded
<1> QED BY <1>1, <1>2, <1>3

LEMMA PrivkeyRead ==
    ASSUME NEW o, o.type = "privkey"
    PROVE  PrivkeyFromObject(o) =
               IF Is(Decoded(o)) /\ o.data.form # "wif"
               THEN Key(Decoded(o).secret, Given(o.network, Decoded(o).network),
                        Given(o.compressed, Decoded(o).compressed))
               ELSE Decoded(o)
BY DEF PrivkeyFromObject, Decoded

\* A number has the network and the compression of the fields.
LEMMA NumberRead ==
    ASSUME NEW o, o.type = "privkey", NEW s, Decoded(o) = Key(s, Main, TRUE), o.data.form # "wif",
           o.network \in {Main, Test}, o.compressed \in BOOLEAN
    PROVE  PrivkeyFromObject(o) = Key(s, o.network, o.compressed)
<1> DEFINE k == Key(s, Main, TRUE)
<1>1. Is(k) /\ k.secret = s /\ k.network = Main /\ k.compressed = TRUE
  BY DEF Is, Key
<1> HIDE DEF k
<1>2. PrivkeyFromObject(o) = Key(k.secret, Given(o.network, k.network), Given(o.compressed, k.compressed))
  BY <1>1, PrivkeyRead DEF k
<1>3. Given(o.network, k.network) = o.network /\ Given(o.compressed, k.compressed) = o.compressed
  BY KeyIs DEF Given
<1> QED BY <1>1, <1>2, <1>3

\* What btk privkey makes of a key.
LEMMA PrivkeyMade ==
    ASSUME NEW k, IsKey(k), NEW e \in {"wif", "hex", "dec"}, NEW src
    PROVE  LET o == PrivkeyObject(k, e, src) IN
           /\ True(o) /\ o.type = "privkey" /\ "source" \in DOMAIN o /\ o.source = src
           /\ KeyOf(o) = k /\ IsText(o.data)
<1> DEFINE o == PrivkeyObject(k, e, src)
<1>1. /\ k = Key(k.secret, k.network, k.compressed) /\ k.network \in {Main, Test}
      /\ k.compressed \in BOOLEAN
  BY DEF IsKey
<1>2. /\ o.type = "privkey" /\ o.encoding = e /\ o.network = k.network /\ o.compressed = k.compressed
      /\ o.data = Encode(k, e) /\ o.source = src /\ "source" \in DOMAIN o
      /\ o = Object(o.type, o.encoding, o.network, o.compressed, o.data, o.source)
  BY DEF PrivkeyObject, Object
<1>3. Encode(k, "wif") = Wif(k) /\ Encode(k, "hex") = Hex(k.secret) /\ Encode(k, "dec") = Dec(k.secret)
  BY DEF Encode
<1> HIDE DEF o
<1>4. IsText(o.data) /\ PrivkeyFromObject(o) = k
  <2>1. CASE e = "wif"
    <3>1. o.data = Wif(k)
      BY <1>2, <1>3, <2>1
    <3>2. DecodeWif(o.data) = k /\ o.data.form = "wif" /\ o.data.key = k /\ "decimal" \notin DOMAIN o.data
      BY <3>1 DEF DecodeWif, Wif
    <3>3. PrivkeyFromObject(o) = k
      BY <1>2, <2>1, <3>2, DecodedIs, PrivkeyRead
    <3> QED BY <3>2, <3>3 DEF IsText
  <2>2. CASE e = "hex"
    <3>1. o.data = Hex(k.secret)
      BY <1>2, <1>3, <2>2
    <3>2. /\ DecodeHex(o.data) = Key(k.secret, Main, TRUE)
          /\ o.data.form = "hex" /\ "decimal" \notin DOMAIN o.data
      BY <3>1 DEF DecodeHex, Hex
    <3>3. PrivkeyFromObject(o) = Key(k.secret, o.network, o.compressed)
      BY <1>1, <1>2, <2>2, <3>2, DecodedIs, NumberRead
    <3> QED BY <1>1, <1>2, <3>2, <3>3 DEF IsText
  <2>3. CASE e = "dec"
    <3>1. o.data = Dec(k.secret)
      BY <1>2, <1>3, <2>3
    <3>2. /\ DecodeDec(o.data) = Key(k.secret, Main, TRUE)
          /\ o.data.form = "dec" /\ "decimal" \notin DOMAIN o.data
      BY <3>1 DEF DecodeDec, Dec
    <3>3. PrivkeyFromObject(o) = Key(k.secret, o.network, o.compressed)
      BY <1>1, <1>2, <2>3, <3>2, DecodedIs, NumberRead
    <3> QED BY <1>1, <1>2, <3>2, <3>3 DEF IsText
  <2> QED BY <2>1, <2>2, <2>3
<1>5. KeyOf(o) = k
  BY <1>1, <1>2, <1>4 DEF KeyOf
<1>6. True(o)
  BY <1>2, <1>4, <1>5 DEF True, KeyTypes
<1> QED BY <1>2, <1>4, <1>5, <1>6 DEF o

\* A private key and a public key that were read: their object as a source.
LEMMA PrivSourceMade ==
    ASSUME NEW k, IsKey(k), NEW t, IsText(t), NEW e,
           \/ e = "wif" /\ DecodeWif(t) = k
           \/ e = "hex" /\ DecodeHex(t) = Key(k.secret, Main, TRUE)
           \/ e = "dec" /\ DecodeDec(t) = Key(k.secret, Main, TRUE)
    PROVE  LET o == PrivSource(e, t, k) IN Honest(o) /\ o.type = "privkey" /\ KeyOf(o) = k
<1> DEFINE o == PrivSource(e, t, k)
           m == Key(k.secret, Main, TRUE)
<1>1. /\ k = Key(k.secret, k.network, k.compressed) /\ k.network \in {Main, Test}
      /\ k.compressed \in BOOLEAN
  BY DEF IsKey
<1>2. /\ o.type = "privkey" /\ o.encoding = e /\ o.network = k.network /\ o.compressed = k.compressed
      /\ o.data = t /\ o.source = Nothing /\ "source" \in DOMAIN o
      /\ o = Object(o.type, o.encoding, o.network, o.compressed, o.data, o.source)
  BY DEF PrivSource, Object
<1>3. Is(m)
  BY DEF Is, Key
<1> HIDE DEF o
<1>4. PrivkeyFromObject(o) = k
  <2>1. CASE e = "wif" /\ DecodeWif(t) = k
    <3>1. t.form = "wif"
      BY <2>1, KeyIs, DecodeIs
    <3> QED BY <1>2, <2>1, <3>1, DecodedIs, PrivkeyRead
  <2>2. CASE e = "hex" /\ DecodeHex(t) = m
    <3>1. t.form # "wif"
      BY <2>2, <1>3, DecodeIs
    <3>2. Decoded(o) = m
      BY <1>2, <2>2, DecodedIs
    <3> QED BY <1>1, <1>2, <3>1, <3>2, NumberRead
  <2>3. CASE e = "dec" /\ DecodeDec(t) = m
    <3>1. t.form # "wif"
      BY <2>3, <1>3, DecodeIs
    <3>2. Decoded(o) = m
      BY <1>2, <2>3, DecodedIs
    <3> QED BY <1>1, <1>2, <3>1, <3>2, NumberRead
  <2> QED BY <2>1, <2>2, <2>3
<1>5. KeyOf(o) = k
  BY <1>1, <1>2, <1>4 DEF KeyOf
<1>6. True(o)
  BY <1>2, <1>4, <1>5 DEF True, KeyTypes
<1>7. Honest(o)
  BY <1>2, <1>6, HonestMade DEF Types, KeyTypes
<1> QED BY <1>2, <1>5, <1>7 DEF o

LEMMA PubkeyMade ==
    ASSUME NEW s, NEW n \in {Main, Test}, NEW c \in BOOLEAN, NEW t, t = PubHex(s, c), NEW src
    PROVE  LET o == Object("pubkey", "hex", n, c, t, src) IN
           /\ True(o) /\ o.type = "pubkey" /\ "source" \in DOMAIN o /\ o.source = src
           /\ KeyOf(o) = Key(s, n, c) /\ IsText(o.data) /\ o.network = n
<1> DEFINE o == Object("pubkey", "hex", n, c, t, src)
<1>1. /\ o.type = "pubkey" /\ o.network = n /\ o.compressed = c
      /\ o.data = t /\ o.source = src /\ "source" \in DOMAIN o
      /\ o = Object(o.type, o.encoding, o.network, o.compressed, o.data, o.source)
  BY DEF Object
<1>2. t.secret = s /\ t.compressed = c /\ t.form = "pubhex" /\ "decimal" \notin DOMAIN t
  BY DEF PubHex
<1> HIDE DEF o
<1>3. IsText(o.data)
  BY <1>1, <1>2 DEF IsText
<1>4. KeyOf(o) = Key(s, n, c)
  BY <1>1, <1>2 DEF KeyOf
<1>5. IsKey(KeyOf(o))
  BY <1>4, KeyIs
<1>6. True(o)
  BY <1>1, <1>2, <1>3, <1>5 DEF True, KeyTypes
<1> QED BY <1>1, <1>3, <1>4, <1>6 DEF o

LEMMA AddressMade ==
    ASSUME NEW k, IsKey(k), NEW style, NeedsCompressed(style) => k.compressed, NEW src
    PROVE  LET o == AddressObject(k, style, src) IN
           /\ True(o) /\ o.type = "address" /\ "source" \in DOMAIN o /\ o.source = src
           /\ KeyOf(o) = k /\ IsText(o.data) /\ o.network = k.network
<1> DEFINE o == AddressObject(k, style, src)
<1>1. /\ o.type = "address" /\ o.network = k.network /\ o.style = style
      /\ o.data = EncodeAddress(k, style) /\ o.source = src /\ "source" \in DOMAIN o
  BY DEF AddressObject
<1>2. o.data.key = k /\ o.data.form = "address" /\ "decimal" \notin DOMAIN o.data
  BY <1>1 DEF EncodeAddress
<1>3. o = AddressObject(o.data.key, o.style, o.source)
  BY <1>1, <1>2
<1> HIDE DEF o
<1>4. IsText(o.data) /\ KeyOf(o) = k /\ True(o)
  BY <1>1, <1>2, <1>3 DEF IsText, KeyOf, True, KeyTypes
<1> QED BY <1>1, <1>4 DEF o
-----------------------------------------------------------------------------
(***************************************************************************)
(* What a command makes of an item.                                        *)
(***************************************************************************)
Makes(made) ==
    /\ made.ok \in BOOLEAN /\ (~made.ok => made.objects = <<>>)
    /\ IsSeq(made.objects) /\ \A o \in ToSet(made.objects) : Honest(o)

LEMMA FailMakes ==
    ASSUME NEW why
    PROVE  Makes(Fail(why))
<1>1. Fail(why).ok = FALSE /\ Fail(why).objects = <<>>
  BY DEF Fail
<1> QED BY <1>1, EmptyIsSeq DEF Makes

LEMMA OkMakes ==
    ASSUME NEW n \in Nat, NEW f, f = [i \in 1 .. n |-> f[i]], \A i \in 1 .. n : Honest(f[i])
    PROVE  Makes(Ok(f))
<1>1. Ok(f).ok = TRUE /\ Ok(f).objects = f
  BY DEF Ok
<1>2. IsSeq(f) /\ DOMAIN f = 1 .. n
  BY FunIsSeq
<1>3. \A o \in ToSet(f) : Honest(o)
  BY <1>2 DEF ToSet
<1> QED BY <1>1, <1>2, <1>3 DEF Makes

\* The items that a command may get.
LEMMA ItemIs ==
    ASSUME NEW item, IsItem(item)
    PROVE  /\ item.type = "bare" \/ Honest(item)
           /\ item.type = "bare" => item = Bare(item.data) /\ IsText(item.data)
           /\ Honest(item) => item.type \in Types
<1>1. ASSUME NEW t PROVE Bare(t).type = "bare"
  BY DEF Bare
<1>2. Honest(item) => item.type \in Types /\ item.type # "bare"
  BY HonestIsTrue DEF Types, KeyTypes
<1> QED BY <1>1, <1>2 DEF IsItem

\* What an honest object says.
LEMMA HonestText ==
    ASSUME NEW o, Honest(o)
    PROVE  IsText(o.data) /\ IsKey(KeyOf(o))
<1>1. True(o) /\ o.type \in Types
  BY HonestIsTrue
<1>2. CASE o.type = "address"
  <2>1. o = AddressObject(o.data.key, o.style, o.source) /\ IsKey(o.data.key)
    BY <1>1, <1>2 DEF True
  <2>2. o.data = EncodeAddress(o.data.key, o.style)
    BY <2>1 DEF AddressObject
  <2>3. o.data.form = "address" /\ "decimal" \notin DOMAIN o.data
    BY <2>2 DEF EncodeAddress
  <2>4. KeyOf(o) = o.data.key
    BY <1>2 DEF KeyOf
  <2> QED BY <2>1, <2>3, <2>4 DEF IsText
<1>3. CASE o.type \in KeyTypes
  BY <1>1, <1>3 DEF True
<1> QED BY <1>1, <1>2, <1>3 DEF Types

LEMMA EmitMakes ==
    ASSUME NEW opts, opts.encoding \in {Nothing, "wif", "hex", "dec"}, opts.network \in {Nothing, Main, Test},
           NEW k, IsKey(k), NEW source,
           \/ source.type = "origin" /\ Ends(source)
           \/ Honest(source) /\ source.type = "privkey" /\ KeyOf(source).secret = k.secret
    PROVE  Makes(EmitKey(opts, k, source)) /\ EmitKey(opts, k, source).ok
<1> DEFINE network == Given(opts.network, k.network)
           e == Given(opts.encoding, "wif")
           modes == CompressionModes(opts, k.compressed)
           src == IF opts.source THEN source ELSE Nothing
           object(i) == PrivkeyObject(Key(k.secret, network, modes[i]), e, src)
           f == [i \in DOMAIN modes |-> object(i)]
<1>1. network \in {Main, Test} /\ e \in {"wif", "hex", "dec"} /\ k.compressed \in BOOLEAN
  BY DEF Given, IsKey
<1>2. IsSeq(modes) /\ \A i \in DOMAIN modes : modes[i] \in BOOLEAN
  BY <1>1, ModesAre
<1>3. PICK n \in Nat : DOMAIN modes = 1 .. n
  BY <1>2, SeqSize
<1>4. src = Nothing \/ src = source
  OBVIOUS
<1> HIDE DEF network, e, modes, src
<1>5. ASSUME NEW i \in 1 .. n PROVE Honest(object(i))
  <2> DEFINE new == Key(k.secret, network, modes[i])
             o == PrivkeyObject(new, e, src)
  <2>1. PICK c : c = modes[i] /\ c \in BOOLEAN
    BY <1>2, <1>3
  <2>2. IsKey(new) /\ new.secret = k.secret
    BY <1>1, <2>1, KeyIs
  <2> HIDE DEF new
  <2>3. True(o) /\ o.type = "privkey" /\ "source" \in DOMAIN o /\ o.source = src /\ KeyOf(o) = new
    BY <1>1, <2>2, PrivkeyMade
  <2> HIDE DEF o
  <2>4. src = source => Linked(o, src) /\ (Honest(src) \/ Ends(src))
    BY <2>2, <2>3 DEF Linked, KeyTypes
  <2>5. Honest(o)
    BY <1>4, <2>3, <2>4, HonestMade DEF Types, KeyTypes
  <2> QED BY <2>5 DEF o, new
<1>6. EmitKey(opts, k, source) = Ok(f)
  BY DEF EmitKey, network, e, modes, src
<1>7. f = [i \in 1 .. n |-> f[i]] /\ \A i \in 1 .. n : f[i] = object(i)
  BY <1>3
<1> HIDE DEF f
<1>8. Makes(Ok(f))
  BY <1>5, <1>7, OkMakes
<1>9. Ok(f).ok
  BY DEF Ok
<1> QED BY <1>6, <1>8, <1>9

LEMMA BareKeyIs ==
    ASSUME NEW t, IsText(t), NEW from
    PROVE  Is(PrivkeyFromBare(t, from)) => IsKey(PrivkeyFromBare(t, from))
<1> DEFINE k == PrivkeyFromBare(t, from)
           hash == Key(Sha256(t), Main, TRUE)
<1>1. IsKey(hash)
  BY KeyIs
<1>2. ParsePrivkey(t) \in {DecodeWif(t), DecodeHex(t), DecodeDec(t)} \/ ~Is(ParsePrivkey(t))
  <2>1. t.form \in {"wif", "badwif"} => ParsePrivkey(t) = DecodeWif(t)
    BY DEF ParsePrivkey
  <2>2. t.form = "hex" => ParsePrivkey(t) = DecodeHex(t)
    BY DEF ParsePrivkey
  <2>3. t.form = "dec" => ParsePrivkey(t) = DecodeDec(t)
    BY DEF ParsePrivkey
  <2>4. t.form \notin {"wif", "badwif", "hex", "dec"} => ParsePrivkey(t) = FailedKey("not a private key")
    BY DEF ParsePrivkey
  <2> QED BY <2>1, <2>2, <2>3, <2>4, KeyIs
<1>3. k \in {DecodeWif(t), DecodeHex(t), DecodeDec(t), hash, ParsePrivkey(t)}
  <2>1. from = "wif" => k = DecodeWif(t)
    BY DEF PrivkeyFromBare
  <2>2. from = "hex" => k = DecodeHex(t)
    BY DEF PrivkeyFromBare
  <2>3. from = "dec" => k = DecodeDec(t)
    BY DEF PrivkeyFromBare
  <2>4. from = "text" => k = hash
    BY DEF PrivkeyFromBare
  <2>5. from \notin {"wif", "hex", "dec", "text"} => k = ParsePrivkey(t) \/ k = hash
    BY DEF PrivkeyFromBare
  <2> HIDE DEF k, hash
  <2> QED BY <2>1, <2>2, <2>3, <2>4, <2>5
<1> HIDE DEF k, hash
<1>4. Is(k) => IsKey(k)
  <2>1. Is(DecodeWif(t)) => IsKey(DecodeWif(t))
    BY DecodeIs
  <2> QED BY <1>1, <1>2, <1>3, <2>1, DecodeIs
<1> QED BY <1>4 DEF k

LEMMA PrivkeyMakes ==
    ASSUME NEW stage, IsStage(stage), NEW item, IsItem(item)
    PROVE  Makes(Privkey(stage.options, item))
<1> DEFINE opts == stage.options
<1>1. opts.encoding \in {Nothing, "wif", "hex", "dec"} /\ opts.network \in {Nothing, Main, Test}
  BY DEF IsStage
<1> HIDE DEF opts
<1>2. CASE item.type = "bare"
  <2> DEFINE k == PrivkeyFromBare(item.data, opts.from)
  <2>1. Is(k) => IsKey(k)
    BY <1>2, ItemIs, BareKeyIs
  <2>2. Privkey(opts, item) = IF ~Is(k) THEN Fail(k.fail) ELSE EmitKey(opts, k, Origin(item, opts))
    BY <1>2 DEF Privkey
  <2>3. Origin(item, opts).type = "origin" /\ "source" \notin DOMAIN Origin(item, opts)
    BY DEF Origin
  <2>4. Ends(Origin(item, opts))
    BY <2>3 DEF Ends, SourceOf
  <2> HIDE DEF k
  <2> QED BY <1>1, <2>1, <2>2, <2>3, <2>4, EmitMakes, FailMakes DEF opts
<1>3. CASE item.type # "bare"
  <2> DEFINE k == PrivkeyFromObject(item)
  <2>1. Honest(item) /\ True(item)
    BY <1>3, ItemIs, HonestIsTrue
  <2>2. Privkey(opts, item) = IF ~Is(k) THEN Fail(k.fail) ELSE EmitKey(opts, k, item)
    BY <1>3 DEF Privkey
  <2>3. CASE item.type = "privkey"
    <3>1. k = KeyOf(item)
      BY <2>1, <2>3 DEF True
    <3>2. IsKey(k)
      BY <2>1, <3>1, HonestText
    <3> HIDE DEF k
    <3> QED BY <1>1, <2>1, <2>2, <2>3, <3>1, <3>2, EmitMakes, FailMakes DEF opts
  <2>4. CASE item.type # "privkey"
    <3>1. k = FailedKey("expected a privkey")
      BY <2>4 DEF PrivkeyFromObject
    <3>2. ~Is(k)
      BY <3>1, KeyIs
    <3> HIDE DEF k
    <3> QED BY <2>2, <3>2, FailMakes DEF opts
  <2> QED BY <2>3, <2>4
<1> QED BY <1>2, <1>3

LEMMA NewMakes ==
    ASSUME NEW stage, IsStage(stage), NEW s
    PROVE  Makes(PrivkeyNew(stage.options, s)) /\ PrivkeyNew(stage.options, s).ok
<1> DEFINE opts == stage.options
           source == [type |-> "origin", from |-> "new"]
           k == Key(s, Given(opts.network, Main), TRUE)
<1>1. opts.encoding \in {Nothing, "wif", "hex", "dec"} /\ opts.network \in {Nothing, Main, Test}
  BY DEF IsStage
<1>2. source.type = "origin" /\ "source" \notin DOMAIN source
  OBVIOUS
<1> HIDE DEF source, opts
<1>3. Ends(source)
  BY <1>2 DEF Ends, SourceOf
<1>4. Given(opts.network, Main) \in {Main, Test}
  BY <1>1 DEF Given
<1>5. IsKey(k)
  BY <1>4, KeyIs
<1>6. PrivkeyNew(opts, s) = EmitKey(opts, k, source)
  BY DEF PrivkeyNew, source
<1> HIDE DEF k
<1> QED BY <1>1, <1>2, <1>3, <1>5, <1>6, EmitMakes DEF opts

(***************************************************************************)
(* What btk pubkey and btk address read: a key, and a source that is about *)
(* this very key.                                                          *)
(***************************************************************************)
Reads(in) ==
    Is(in) => /\ IsKey(in.key) /\ Honest(in.source) /\ in.source.type \in KeyTypes
              /\ KeyOf(in.source) = in.key

LEMMA SecretReads ==
    ASSUME NEW t, IsText(t), NEW n \in {Main, Test}
    PROVE  /\ Reads(FromWif(t)) /\ (Is(FromWif(t)) => FromWif(t).locked)
           /\ Reads(FromHex(t, n)) /\ (Is(FromHex(t, n)) => FromHex(t, n).key.network = n)
           /\ Reads(FromDec(t, n)) /\ (Is(FromDec(t, n)) => FromDec(t, n).key.network = n)
<1>1. ASSUME NEW k, NEW e, NEW l
      PROVE  /\ Is(k) => FromSecret(k, e, t, l) = InputKey(k, l, PrivSource(e, t, k))
             /\ ~Is(k) => FromSecret(k, e, t, l) = k
  BY DEF FromSecret
<1>2. Reads(FromWif(t)) /\ (Is(FromWif(t)) => FromWif(t).locked)
  <2> DEFINE k == DecodeWif(t)
             in == FromWif(t)
             src == PrivSource("wif", t, k)
  <2>1. /\ Is(k) => in = InputKey(k, TRUE, src)
        /\ ~Is(k) => in = k
    BY <1>1 DEF FromWif
  <2>2. Is(k) => IsKey(k)
    BY DecodeIs
  <2>3. Is(k) => Honest(src) /\ src.type = "privkey" /\ KeyOf(src) = k
    BY <2>2, PrivSourceMade
  <2> HIDE DEF k, in, src
  <2>4. Is(k) => in.key = k /\ in.locked /\ in.source = src
    BY <2>1 DEF InputKey
  <2>5. Is(in) => Is(k)
    BY <2>1
  <2>6. Reads(in) /\ (Is(in) => in.locked)
    BY <2>2, <2>3, <2>4, <2>5 DEF Reads, KeyTypes
  <2> QED BY <2>6 DEF in
<1>3. Reads(FromHex(t, n)) /\ (Is(FromHex(t, n)) => FromHex(t, n).key.network = n)
  <2> DEFINE d == DecodeHex(t)
             k == On(d, n)
             in == FromHex(t, n)
             src == PrivSource("hex", t, k)
  <2>1. /\ Is(k) => in = InputKey(k, FALSE, src)
        /\ ~Is(k) => in = k
    BY <1>1 DEF FromHex
  <2>2. Is(d) => IsKey(d) /\ d = Key(d.secret, Main, TRUE)
    BY DecodeIs
  <2>3. Is(k) => Is(d) /\ k = Key(d.secret, n, d.compressed)
    BY DEF On
  <2>4. Is(k) => IsKey(k) /\ k.secret = d.secret /\ k.network = n
    <3>1. Is(d) => d.compressed \in BOOLEAN
      BY <2>2 DEF IsKey
    <3> HIDE DEF d, k
    <3> QED BY <2>3, <3>1, KeyIs
  <2>5. Is(k) => d = Key(k.secret, Main, TRUE)
    <3> HIDE DEF d, k
    <3> QED BY <2>2, <2>3, <2>4
  <2>6. Is(k) => Honest(src) /\ src.type = "privkey" /\ KeyOf(src) = k
    <3> HIDE DEF k
    <3> QED BY <2>4, <2>5, PrivSourceMade
  <2> HIDE DEF k, in, src, d
  <2>7. Is(k) => in.key = k /\ in.source = src
    BY <2>1 DEF InputKey
  <2>8. Is(in) => Is(k)
    BY <2>1
  <2>9. Reads(in) /\ (Is(in) => in.key.network = n)
    BY <2>4, <2>6, <2>7, <2>8 DEF Reads, KeyTypes
  <2> QED BY <2>9 DEF in
<1>4. Reads(FromDec(t, n)) /\ (Is(FromDec(t, n)) => FromDec(t, n).key.network = n)
  <2> DEFINE d == DecodeDec(t)
             k == On(d, n)
             in == FromDec(t, n)
             src == PrivSource("dec", t, k)
  <2>1. /\ Is(k) => in = InputKey(k, FALSE, src)
        /\ ~Is(k) => in = k
    BY <1>1 DEF FromDec
  <2>2. Is(d) => IsKey(d) /\ d = Key(d.secret, Main, TRUE)
    BY DecodeIs
  <2>3. Is(k) => Is(d) /\ k = Key(d.secret, n, d.compressed)
    BY DEF On
  <2>4. Is(k) => IsKey(k) /\ k.secret = d.secret /\ k.network = n
    <3>1. Is(d) => d.compressed \in BOOLEAN
      BY <2>2 DEF IsKey
    <3> HIDE DEF d, k
    <3> QED BY <2>3, <3>1, KeyIs
  <2>5. Is(k) => d = Key(k.secret, Main, TRUE)
    <3> HIDE DEF d, k
    <3> QED BY <2>2, <2>3, <2>4
  <2>6. Is(k) => Honest(src) /\ src.type = "privkey" /\ KeyOf(src) = k
    <3> HIDE DEF k
    <3> QED BY <2>4, <2>5, PrivSourceMade
  <2> HIDE DEF k, in, src, d
  <2>7. Is(k) => in.key = k /\ in.source = src
    BY <2>1 DEF InputKey
  <2>8. Is(in) => Is(k)
    BY <2>1
  <2>9. Reads(in) /\ (Is(in) => in.key.network = n)
    BY <2>4, <2>6, <2>7, <2>8 DEF Reads, KeyTypes
  <2> QED BY <2>9 DEF in
<1> QED BY <1>2, <1>3, <1>4

\* A public key has to be what btk writes: the point of a secret.
LEMMA PubReads ==
    ASSUME NEW t, IsText(t), NEW n \in {Main, Test}
    PROVE  Reads(FromPub(t, n)) /\ (Is(FromPub(t, n)) => FromPub(t, n).key.network = n)
<1>1. CASE t.form # "pubhex"
  <2>1. ~Is(FromPub(t, n))
    BY <1>1, KeyIs DEF FromPub
  <2> QED BY <2>1 DEF Reads
<1>2. CASE t.form = "pubhex"
  <2> DEFINE k == Key(t.secret, n, t.compressed)
             src == Object("pubkey", "hex", n, t.compressed, t, Nothing)
             in == FromPub(t, n)
  <2>1. in = InputKey(k, FALSE, src)
    BY <1>2 DEF FromPub
  <2>2. PICK c \in BOOLEAN : c = t.compressed
    BY <1>2 DEF IsText
  <2>3. t = PubHex(t.secret, c)
    BY <1>2, <2>2 DEF IsText
  <2>4. IsKey(k) /\ k.network = n
    BY <2>2, KeyIs
  <2>5. True(src) /\ src.type = "pubkey" /\ "source" \in DOMAIN src /\ src.source = Nothing /\ KeyOf(src) = k
    BY <2>2, <2>3, PubkeyMade
  <2> HIDE DEF k, src, in
  <2>6. Honest(src)
    BY <2>5, HonestMade DEF Types, KeyTypes
  <2>7. in.key = k /\ in.source = src
    BY <2>1 DEF InputKey
  <2>8. Reads(in) /\ in.key.network = n
    BY <2>4, <2>5, <2>6, <2>7 DEF Reads, KeyTypes
  <2> QED BY <2>8 DEF in
<1> QED BY <1>1, <1>2

Fits(in, opts) == Is(in) => NetworkOf(in, opts) = in.key.network

LEMMA FitsWhen ==
    ASSUME NEW opts, opts.network \in {Nothing, Main, Test}, NEW in,
           Is(in) => in.locked \/ in.key.network = Given(opts.network, Main)
    PROVE  Fits(in, opts)
BY NothingAssumption DEF Fits, NetworkOf, Given

\* A line of text.
LEMMA BareReads ==
    ASSUME NEW t, IsText(t), NEW opts, opts.network \in {Nothing, Main, Test}
    PROVE  /\ Reads(PubkeyFromBare(t, opts)) /\ Fits(PubkeyFromBare(t, opts), opts)
           /\ Reads(AddressFromBare(t, opts)) /\ Fits(AddressFromBare(t, opts), opts)
<1> DEFINE n == Given(opts.network, Main)
           Good(in) == Reads(in) /\ Fits(in, opts)
<1>1. n \in {Main, Test}
  BY DEF Given
<1>2. Good(FromWif(t))
  <2>1. Reads(FromWif(t)) /\ (Is(FromWif(t)) => FromWif(t).locked)
    BY SecretReads, KeyIs
  <2> QED BY <2>1, FitsWhen
<1>3. Good(FromHex(t, n))
  <2>1. Reads(FromHex(t, n)) /\ (Is(FromHex(t, n)) => FromHex(t, n).key.network = n)
    BY <1>1, SecretReads
  <2> QED BY <2>1, FitsWhen
<1>4. Good(FromDec(t, n))
  <2>1. Reads(FromDec(t, n)) /\ (Is(FromDec(t, n)) => FromDec(t, n).key.network = n)
    BY <1>1, SecretReads
  <2> QED BY <2>1, FitsWhen
<1>5. Good(FromPub(t, n))
  <2>1. Reads(FromPub(t, n)) /\ (Is(FromPub(t, n)) => FromPub(t, n).key.network = n)
    BY <1>1, PubReads
  <2> QED BY <2>1, FitsWhen
<1>6. ASSUME NEW why PROVE Good(FailedKey(why))
  BY KeyIs DEF Reads, Fits
<1> HIDE DEF n, Good
<1>7. Good(PubkeyFromBare(t, opts))
  <2> DEFINE kind == IF opts.from = "hex" /\ t.form = "pubhex" THEN "pubhex" ELSE Given(opts.from, t.form)
             in == PubkeyFromBare(t, opts)
  <2>1. kind \in {"wif", "badwif"} => in = FromWif(t)
    BY DEF PubkeyFromBare
  <2>2. kind = "hex" => in = FromHex(t, n)
    BY DEF PubkeyFromBare, n
  <2>3. kind = "dec" => in = FromDec(t, n)
    BY DEF PubkeyFromBare, n
  <2>4. kind = "pubhex" => in = FromPub(t, n)
    BY DEF PubkeyFromBare, n
  <2>5. kind \notin {"wif", "badwif", "hex", "dec", "pubhex"} =>
            in = FailedKey("not a private or public key")
    BY DEF PubkeyFromBare
  <2> HIDE DEF in, kind
  <2>6. Good(in)
    BY <1>2, <1>3, <1>4, <1>5, <1>6, <2>1, <2>2, <2>3, <2>4, <2>5
  <2> QED BY <2>6 DEF in
<1>8. Good(AddressFromBare(t, opts))
  <2>1. AddressFromBare(t, opts) = FromWif(t) \/ AddressFromBare(t, opts) = FromPub(t, n)
    BY DEF AddressFromBare, n
  <2> QED BY <1>2, <1>5, <2>1
<1> QED BY <1>7, <1>8 DEF Good

\* What the text of an object gives, before its fields count.
TextIn(item, command) ==
    CASE item.type = "privkey" /\ item.encoding = "hex" -> FromHex(item.data, Main)
      [] item.type = "privkey" /\ item.encoding = "dec" -> FromDec(item.data, Main)
      [] item.type = "privkey" /\ item.encoding = "wif" -> FromWif(item.data)
      [] item.type = "privkey" /\ item.encoding = Nothing ->
            IF command = "address" THEN AddressFromData(item.data)
            ELSE PubkeyFromBare(item.data, [network |-> Nothing, from |-> Nothing])
      [] item.type = "pubkey" -> FromPub(item.data, Main)
      [] OTHER -> FailedKey("not a private or public key")

LEMMA TextInIs ==
    ASSUME NEW item, NEW command
    PROVE  /\ item.type = "privkey" /\ item.encoding = "hex" => TextIn(item, command) = FromHex(item.data, Main)
           /\ item.type = "privkey" /\ item.encoding = "dec" => TextIn(item, command) = FromDec(item.data, Main)
           /\ item.type = "privkey" /\ item.encoding = "wif" => TextIn(item, command) = FromWif(item.data)
           /\ item.type = "pubkey" => TextIn(item, command) = FromPub(item.data, Main)
           /\ item.type \notin KeyTypes => ~Is(TextIn(item, command))
<1>1. item.type = "privkey" /\ item.encoding = "hex" => TextIn(item, command) = FromHex(item.data, Main)
  BY NothingAssumption DEF TextIn
<1>2. item.type = "privkey" /\ item.encoding = "dec" => TextIn(item, command) = FromDec(item.data, Main)
  BY NothingAssumption DEF TextIn
<1>3. item.type = "privkey" /\ item.encoding = "wif" => TextIn(item, command) = FromWif(item.data)
  BY NothingAssumption DEF TextIn
<1>4. item.type = "pubkey" => TextIn(item, command) = FromPub(item.data, Main)
  BY DEF TextIn
<1>5. item.type \notin KeyTypes => TextIn(item, command) = FailedKey("not a private or public key")
  BY DEF TextIn, KeyTypes
<1> QED BY <1>1, <1>2, <1>3, <1>4, <1>5, KeyIs

LEMMA FromIs ==
    ASSUME NEW t, NEW n
    PROVE  /\ Is(FromWif(t)) => Is(DecodeWif(t)) /\ FromWif(t).key = DecodeWif(t)
           /\ Is(FromHex(t, n)) => /\ Is(DecodeHex(t)) /\ ~FromHex(t, n).locked
                                   /\ FromHex(t, n).key.secret = DecodeHex(t).secret
           /\ Is(FromDec(t, n)) => /\ Is(DecodeDec(t)) /\ ~FromDec(t, n).locked
                                   /\ FromDec(t, n).key.secret = DecodeDec(t).secret
           /\ Is(FromPub(t, n)) => ~FromPub(t, n).locked /\ FromPub(t, n).key.secret = t.secret
<1>1. Is(FromWif(t)) => Is(DecodeWif(t)) /\ FromWif(t).key = DecodeWif(t)
  BY DEF FromWif, FromSecret, InputKey
<1>2. ASSUME NEW d
      PROVE  /\ Is(On(d, n)) => Is(d) /\ On(d, n).secret = d.secret
             /\ \A e : Is(FromSecret(On(d, n), e, t, FALSE)) =>
                          /\ Is(d) /\ ~FromSecret(On(d, n), e, t, FALSE).locked
                          /\ FromSecret(On(d, n), e, t, FALSE).key.secret = d.secret
  <2>1. Is(On(d, n)) => Is(d) /\ On(d, n).secret = d.secret
    BY DEF On, Key
  <2>2. ASSUME NEW e, Is(FromSecret(On(d, n), e, t, FALSE))
        PROVE  /\ Is(d) /\ ~FromSecret(On(d, n), e, t, FALSE).locked
               /\ FromSecret(On(d, n), e, t, FALSE).key.secret = d.secret
    <3>1. Is(On(d, n))
      BY <2>2 DEF FromSecret
    <3>2. /\ ~FromSecret(On(d, n), e, t, FALSE).locked
          /\ FromSecret(On(d, n), e, t, FALSE).key = On(d, n)
      BY <3>1 DEF FromSecret, InputKey
    <3> QED BY <2>1, <3>1, <3>2
  <2> QED BY <2>1, <2>2
<1>3. Is(FromHex(t, n)) => /\ Is(DecodeHex(t)) /\ ~FromHex(t, n).locked
                           /\ FromHex(t, n).key.secret = DecodeHex(t).secret
  BY <1>2, Zenon DEF FromHex
<1>4. Is(FromDec(t, n)) => /\ Is(DecodeDec(t)) /\ ~FromDec(t, n).locked
                           /\ FromDec(t, n).key.secret = DecodeDec(t).secret
  BY <1>2, Zenon DEF FromDec
<1>5. Is(FromPub(t, n)) => ~FromPub(t, n).locked /\ FromPub(t, n).key.secret = t.secret
  BY KeyIs DEF FromPub, InputKey, Key
<1> QED BY <1>1, <1>3, <1>4, <1>5

\* What an honest key object says of its key.
LEMMA TrueFields ==
    ASSUME NEW item, True(item), item.type \in KeyTypes
    PROVE  /\ KeyOf(item).network = item.network /\ KeyOf(item).compressed = item.compressed
           /\ item.network \in {Main, Test} /\ item.compressed \in BOOLEAN
<1>1. IsKey(KeyOf(item))
  BY DEF True
<1>2. KeyOf(item).network = item.network /\ KeyOf(item).compressed = item.compressed
  <2>1. CASE item.type = "privkey"
    BY <2>1 DEF KeyOf, Key
  <2>2. CASE item.type = "pubkey"
    <3>1. item.data.compressed = item.compressed
      BY <2>2 DEF True, PubHex
    <3> QED BY <2>2, <3>1 DEF KeyOf, Key
  <2> QED BY <2>1, <2>2 DEF KeyTypes
<1>3. item.network \in {Main, Test} /\ item.compressed \in BOOLEAN
  BY <1>1, <1>2 DEF IsKey
<1> QED BY <1>2, <1>3

LEMMA FieldsAre ==
    ASSUME NEW item, Honest(item), item.type \in KeyTypes
    PROVE  /\ KeyOf(item).network = item.network /\ KeyOf(item).compressed = item.compressed
           /\ item.network \in {Main, Test} /\ item.compressed \in BOOLEAN
BY TrueFields, HonestIsTrue

\* The fields of an honest object say what its text says.
LEMMA MetaIs ==
    ASSUME NEW item, Honest(item), item.type \in KeyTypes, NEW in, NEW command,
           in.key.secret = KeyOf(item).secret, in.locked => in.key = KeyOf(item)
    PROVE  LET out == ApplyMeta(in, item, command) IN
           Is(out) /\ out.key = KeyOf(item) /\ out.source = item /\ out.locked
<1>1. IsKey(KeyOf(item)) /\ True(item)
  BY HonestText, HonestIsTrue
<1>2. KeyOf(item).network = item.network /\ KeyOf(item).compressed = item.compressed
  BY FieldsAre
<1>3. item.network \in {Main, Test} /\ item.compressed \in BOOLEAN
  BY FieldsAre
<1>4. item.network # Nothing /\ Given(item.compressed, in.key.compressed) = item.compressed
  BY <1>3, KeyIs DEF Given
<1> DEFINE network == IF item.network = Nothing \/ (command = "address" /\ in.locked)
                      THEN in.key.network ELSE item.network
           k == Key(in.key.secret, network, Given(item.compressed, in.key.compressed))
<1>5. network = item.network
  BY <1>2, <1>4
<1>6. k = KeyOf(item)
  <2>1. KeyOf(item) = Key(KeyOf(item).secret, KeyOf(item).network, KeyOf(item).compressed)
    BY <1>1 DEF IsKey
  <2> HIDE DEF network
  <2> QED BY <2>1, <1>2, <1>4, <1>5
<1>7. ApplyMeta(in, item, command) = InputKey(k, in.locked \/ item.network # Nothing, item)
  BY DEF ApplyMeta
<1> DEFINE out == ApplyMeta(in, item, command)
           locked == in.locked \/ item.network # Nothing
<1>8. locked
  BY <1>4
<1> HIDE DEF k, locked
<1>9. out = [key |-> k, locked |-> locked, source |-> item]
  BY <1>7 DEF InputKey, locked
<1> HIDE DEF out
<1>10. Is(out) /\ out.key = k /\ out.source = item
  BY <1>9 DEF Is
<1>11. out.locked = locked
  BY <1>9
<1> QED BY <1>6, <1>8, <1>10, <1>11 DEF out

\* What is read in the text of an honest object is its key.
LEMMA TextReads ==
    ASSUME NEW item, Honest(item), item.type \in KeyTypes, NEW command, Is(TextIn(item, command))
    PROVE  LET in == TextIn(item, command) IN
           in.key.secret = KeyOf(item).secret /\ (in.locked => in.key = KeyOf(item))
<1> DEFINE in == TextIn(item, command)
           t == item.data
<1>1. Is(in) /\ True(item)
  BY HonestIsTrue
<1>2. CASE item.type = "pubkey"
  <2>1. in = FromPub(t, Main)
    BY <1>2, TextInIs
  <2>2. ~in.locked /\ in.key.secret = t.secret
    BY <1>1, <2>1, FromIs
  <2>3. KeyOf(item).secret = t.secret
    BY <1>2 DEF KeyOf, Key
  <2> QED BY <2>2, <2>3
<1>3. CASE item.type = "privkey"
  <2>1. /\ item.encoding \in {"wif", "hex", "dec"} /\ PrivkeyFromObject(item) = KeyOf(item)
        /\ IsText(t) /\ IsKey(KeyOf(item))
    BY <1>1, <1>3, HonestText DEF True
  <2>2. item.network \in {Main, Test} /\ item.compressed \in BOOLEAN
    <3>1. KeyOf(item).network = item.network /\ KeyOf(item).compressed = item.compressed
      BY <1>3 DEF KeyOf, Key
    <3> QED BY <2>1, <3>1 DEF IsKey
  <2>3. CASE item.encoding = "wif"
    <3>1. in = FromWif(t)
      BY <1>3, <2>3, TextInIs
    <3>2. Is(DecodeWif(t)) /\ in.key = DecodeWif(t)
      BY <1>1, <3>1, FromIs
    <3>3. t.form = "wif"
      BY <2>1, <3>2, DecodeIs
    <3>4. PrivkeyFromObject(item) = DecodeWif(t)
      BY <1>3, <2>3, <3>3, DecodedIs, PrivkeyRead
    <3> QED BY <2>1, <3>2, <3>4
  <2>4. CASE item.encoding = "hex"
    <3>1. in = FromHex(t, Main)
      BY <1>3, <2>4, TextInIs
    <3>2. Is(DecodeHex(t)) /\ in.key.secret = DecodeHex(t).secret /\ ~in.locked
      BY <1>1, <3>1, FromIs
    <3>3. t.form # "wif" /\ DecodeHex(t) = Key(DecodeHex(t).secret, Main, TRUE)
      BY <2>1, <3>2, DecodeIs
    <3>4. Decoded(item) = DecodeHex(t)
      BY <2>4, DecodedIs
    <3>5. PrivkeyFromObject(item) = Key(DecodeHex(t).secret, item.network, item.compressed)
      BY <1>3, <2>2, <3>3, <3>4, NumberRead
    <3>6. KeyOf(item).secret = DecodeHex(t).secret
      BY <2>1, <3>5 DEF Key
    <3> QED BY <3>2, <3>6
  <2>5. CASE item.encoding = "dec"
    <3>1. in = FromDec(t, Main)
      BY <1>3, <2>5, TextInIs
    <3>2. Is(DecodeDec(t)) /\ in.key.secret = DecodeDec(t).secret /\ ~in.locked
      BY <1>1, <3>1, FromIs
    <3>3. t.form # "wif" /\ DecodeDec(t) = Key(DecodeDec(t).secret, Main, TRUE)
      BY <2>1, <3>2, DecodeIs
    <3>4. Decoded(item) = DecodeDec(t)
      BY <2>5, DecodedIs
    <3>5. PrivkeyFromObject(item) = Key(DecodeDec(t).secret, item.network, item.compressed)
      BY <1>3, <2>2, <3>3, <3>4, NumberRead
    <3>6. KeyOf(item).secret = DecodeDec(t).secret
      BY <2>1, <3>5 DEF Key
    <3> QED BY <3>2, <3>6
  <2> QED BY <2>1, <2>3, <2>4, <2>5
<1> QED BY <1>2, <1>3 DEF KeyTypes

LEMMA InputReads ==
    ASSUME NEW item, IsItem(item), NEW opts, opts.network \in {Nothing, Main, Test},
           NEW command \in {"pubkey", "address"}
    PROVE  LET in == InputOf(item, opts, command) IN Reads(in) /\ Fits(in, opts)
<1>1. CASE item.type = "bare"
  <2>1. IsText(item.data)
    BY <1>1, ItemIs
  <2>2. \/ InputOf(item, opts, command) = PubkeyFromBare(item.data, opts)
        \/ InputOf(item, opts, command) = AddressFromBare(item.data, opts)
    BY <1>1 DEF InputOf
  <2> QED BY <2>1, <2>2, BareReads
<1>2. CASE item.type # "bare"
  <2> DEFINE in == TextIn(item, command)
             out == InputOf(item, opts, command)
             t == item.data
  <2>1. Honest(item) /\ True(item) /\ item.type \in Types
    BY <1>2, ItemIs, HonestIsTrue
  <2>2. out = IF Is(in) THEN ApplyMeta(in, item, command) ELSE in
    BY <1>2 DEF InputOf, TextIn
  <2>3. CASE ~Is(in)
    BY <2>2, <2>3 DEF Reads, Fits
  <2>4. CASE Is(in)
    <3>1. item.type \in KeyTypes
      BY <2>4, TextInIs
    <3>2. in.key.secret = KeyOf(item).secret /\ (in.locked => in.key = KeyOf(item))
      BY <2>1, <2>4, <3>1, TextReads
    <3> HIDE DEF in
    <3>3. Is(out) /\ out.key = KeyOf(item) /\ out.source = item /\ out.locked
      BY <2>1, <2>2, <2>4, <3>1, <3>2, MetaIs
    <3> HIDE DEF out
    <3>4. Reads(out) /\ Fits(out, opts)
      BY <2>1, <3>1, <3>3, HonestText, FitsWhen DEF Reads
    <3> QED BY <3>4 DEF out
  <2> QED BY <2>3, <2>4
<1> QED BY <1>1, <1>2

\* Every honest key object is read, and gives its key.
LEMMA TextIsKey ==
    ASSUME NEW item, Honest(item), item.type \in KeyTypes, NEW command
    PROVE  Is(TextIn(item, command))
<1> DEFINE t == item.data
<1>1. True(item) /\ IsKey(KeyOf(item)) /\ Is(KeyOf(item))
  BY HonestIsTrue, HonestText, KeyIs
<1>2. ASSUME NEW k, NEW l, NEW s PROVE Is(InputKey(k, l, s))
  BY DEF Is, InputKey
<1>3. ASSUME NEW k, Is(k), NEW e, NEW l PROVE Is(FromSecret(k, e, t, l))
  BY <1>2, <1>3 DEF FromSecret
<1>4. CASE item.type = "pubkey"
  <2>1. t.form = "pubhex"
    BY <1>1, <1>4 DEF True, PubHex
  <2>2. Is(FromPub(t, Main))
    BY <1>2, <2>1 DEF FromPub
  <2> QED BY <1>4, <2>2, TextInIs
<1>5. CASE item.type = "privkey"
  <2>1. item.encoding \in {"wif", "hex", "dec"} /\ PrivkeyFromObject(item) = KeyOf(item)
    BY <1>1, <1>5 DEF True
  <2>2. Is(Decoded(item))
    BY <1>1, <1>5, <2>1, PrivkeyRead
  <2>3. ASSUME NEW d, Is(d) PROVE Is(On(d, Main))
    BY <2>3 DEF On, Is, Key
  <2>4. CASE item.encoding = "wif"
    <3>1. Is(FromWif(t))
      BY <1>3, <2>2, <2>4, DecodedIs DEF FromWif
    <3> QED BY <1>5, <2>4, <3>1, TextInIs
  <2>5. CASE item.encoding = "hex"
    <3>1. Is(FromHex(t, Main))
      BY <1>3, <2>2, <2>3, <2>5, DecodedIs DEF FromHex
    <3> QED BY <1>5, <2>5, <3>1, TextInIs
  <2>6. CASE item.encoding = "dec"
    <3>1. Is(FromDec(t, Main))
      BY <1>3, <2>2, <2>3, <2>6, DecodedIs DEF FromDec
    <3> QED BY <1>5, <2>6, <3>1, TextInIs
  <2> QED BY <2>1, <2>4, <2>5, <2>6
<1> QED BY <1>4, <1>5 DEF KeyTypes

LEMMA KeyReads ==
    ASSUME NEW item, Honest(item), item.type \in KeyTypes, NEW opts, NEW command
    PROVE  LET in == InputOf(item, opts, command) IN
           Is(in) /\ in.key = KeyOf(item) /\ in.locked
<1>1. item.type # "bare"
  BY DEF KeyTypes
<1> DEFINE in == TextIn(item, command)
           out == InputOf(item, opts, command)
<1>2. out = IF Is(in) THEN ApplyMeta(in, item, command) ELSE in
  BY <1>1 DEF InputOf, TextIn
<1>3. Is(in) /\ in.key.secret = KeyOf(item).secret /\ (in.locked => in.key = KeyOf(item))
  BY TextIsKey, TextReads
<1> HIDE DEF in
<1>4. Is(out) /\ out.key = KeyOf(item) /\ out.locked
  BY <1>2, <1>3, MetaIs
<1> QED BY <1>4

LEMMA PubkeyMakes ==
    ASSUME NEW opts, opts.network \in {Nothing, Main, Test}, NEW item, IsItem(item)
    PROVE  LET in == InputOf(item, opts, "pubkey")
               made == Pubkey(opts, item) IN
           /\ Makes(made) /\ \A o \in ToSet(made.objects) : o.type = "pubkey"
           /\ Is(in) => /\ made.ok /\ Len(made.objects) = Len(CompressionModes(opts, in.key.compressed))
                        /\ \A i \in 1 .. Len(made.objects) :
                              KeyOf(made.objects[i]) =
                              Key(in.key.secret, in.key.network, CompressionModes(opts, in.key.compressed)[i])
<1> DEFINE in == InputOf(item, opts, "pubkey")
           made == Pubkey(opts, item)
<1>1. Reads(in) /\ Fits(in, opts)
  BY InputReads
<1>2. CASE ~Is(in)
  <2>1. made = Fail(in.fail)
    BY <1>2 DEF Pubkey
  <2>2. Makes(made) /\ made.objects = <<>>
    BY <2>1, FailMakes DEF Fail
  <2> HIDE DEF in, made
  <2>3. \A o \in ToSet(made.objects) : o.type = "pubkey"
    BY <2>2, EmptyIsSeq
  <2> QED BY <1>2, <2>2, <2>3 DEF in, made
<1>3. CASE Is(in)
  <2> DEFINE k == in.key
             modes == CompressionModes(opts, k.compressed)
             src == IF opts.source THEN in.source ELSE Nothing
             object(i) == Object("pubkey", "hex", NetworkOf(in, opts), modes[i], PubHex(k.secret, modes[i]), src)
             f == [i \in DOMAIN modes |-> object(i)]
  <2>1. made = Ok(f)
    BY <1>3 DEF Pubkey
  <2> HIDE DEF in
  <2>2. /\ IsKey(k) /\ Honest(in.source) /\ in.source.type \in KeyTypes /\ KeyOf(in.source) = k
        /\ NetworkOf(in, opts) = k.network
    BY <1>1, <1>3 DEF Reads, Fits
  <2>3. k.network \in {Main, Test} /\ k.compressed \in BOOLEAN
    BY <2>2 DEF IsKey
  <2> HIDE DEF made, k
  <2>4. IsSeq(modes) /\ \A i \in DOMAIN modes : modes[i] \in BOOLEAN
    BY <2>3, ModesAre
  <2>5. PICK n \in Nat : DOMAIN modes = 1 .. n /\ n = Len(modes)
    BY <2>4, SeqSize
  <2>6. src = Nothing \/ src = in.source
    OBVIOUS
  <2> HIDE DEF modes, src
  <2>7. ASSUME NEW i \in 1 .. n
        PROVE  /\ Honest(object(i)) /\ object(i).type = "pubkey"
               /\ KeyOf(object(i)) = Key(k.secret, k.network, modes[i])
    <3>1. PICK c \in BOOLEAN : c = modes[i]
      BY <2>4, <2>5
    <3> DEFINE t == PubHex(k.secret, c)
               o == Object("pubkey", "hex", k.network, c, t, src)
    <3>2. /\ True(o) /\ o.type = "pubkey" /\ "source" \in DOMAIN o /\ o.source = src
          /\ KeyOf(o) = Key(k.secret, k.network, c) /\ o.network = k.network
      BY <2>3, PubkeyMade
    <3>3. object(i) = o
      BY <2>2, <3>1
    <3> HIDE DEF o, object
    <3>4. KeyOf(o).secret = k.secret
      BY <3>2 DEF Key
    <3>5. in.source.network = k.network
      BY <2>2, FieldsAre
    <3>6. src = in.source => Linked(o, src)
      BY <2>2, <3>2, <3>4, <3>5 DEF Linked
    <3>7. Honest(o)
      BY <2>2, <2>6, <3>2, <3>6, HonestMade DEF Types, KeyTypes
    <3> QED BY <3>1, <3>2, <3>3, <3>7
  <2>8. f = [i \in 1 .. n |-> f[i]] /\ \A i \in 1 .. n : f[i] = object(i)
    BY <2>5
  <2> HIDE DEF f, object
  <2>9. Makes(Ok(f))
    BY <2>7, <2>8, OkMakes
  <2>10. Ok(f).ok /\ made.objects = f /\ made.ok
    BY <2>1 DEF Ok
  <2>11. Len(f) = n /\ DOMAIN f = 1 .. n
    BY <2>8, FunIsSeq
  <2>12. \A o \in ToSet(f) : o.type = "pubkey"
    BY <2>7, <2>8, <2>11 DEF ToSet
  <2>13. \A i \in 1 .. n : KeyOf(f[i]) = Key(k.secret, k.network, modes[i])
    BY <2>7, <2>8
  <2> QED BY <2>1, <2>5, <2>9, <2>10, <2>11, <2>12, <2>13 DEF modes, k, in, made
<1> QED BY <1>2, <1>3

LEMMA AddressMakes ==
    ASSUME NEW opts, opts.network \in {Nothing, Main, Test}, opts.types \in Seq(Styles),
           NEW item, IsItem(item)
    PROVE  LET made == Address(opts, item) IN
           Makes(made) /\ \A o \in ToSet(made.objects) : o.type = "address"
<1> DEFINE in == InputOf(item, opts, "address")
           made == Address(opts, item)
           k == Key(in.key.secret, NetworkOf(in, opts), in.key.compressed)
           can(style) == ~NeedsCompressed(style) \/ k.compressed
           kept == opts.match = Nothing \/ k.secret \in opts.match
           src == IF opts.source \/ opts.match # Nothing THEN in.source ELSE Nothing
           types == opts.types
           object(i) == AddressObject(k, types[i], src)
           ss == [i \in DOMAIN types |-> IF can(types[i]) /\ kept THEN <<object(i)>> ELSE <<>>]
<1>1. Reads(in) /\ Fits(in, opts)
  BY InputReads
<1>2. \/ ~Is(in) /\ made = Fail(in.fail)
      \/ made = Fail("uncompressed key cannot produce p2wpkh or p2tr")
      \/ Is(in) /\ made = Ok(FlattenSeq(ss))
  BY DEF Address
<1>3. ASSUME NEW why, made = Fail(why)
      PROVE  Makes(made) /\ \A o \in ToSet(made.objects) : o.type = "address"
  <2>1. Makes(made) /\ made.objects = <<>>
    BY <1>3, FailMakes DEF Fail
  <2> HIDE DEF made
  <2> QED BY <2>1, EmptyIsSeq
<1>4. ASSUME Is(in), made = Ok(FlattenSeq(ss))
      PROVE  Makes(made) /\ \A o \in ToSet(made.objects) : o.type = "address"
  <2> HIDE DEF made
  <2>1. /\ IsKey(in.key) /\ Honest(in.source) /\ in.source.type \in KeyTypes /\ KeyOf(in.source) = in.key
        /\ NetworkOf(in, opts) = in.key.network
    <3> HIDE DEF in
    <3> QED BY <1>1, <1>4 DEF Reads, Fits
  <2>2. k = in.key
    <3> HIDE DEF in
    <3> QED BY <2>1 DEF IsKey
  <2>3. src = Nothing \/ src = in.source
    BY DEF src
  <2>4. PICK n \in Nat : DOMAIN types = 1 .. n
    OBVIOUS
  <2> HIDE DEF k, src, kept, types, in
  <2>5. ASSUME NEW i \in 1 .. n, can(types[i])
        PROVE  Honest(object(i)) /\ object(i).type = "address"
    <3> DEFINE o == object(i)
    <3>1. PICK style : style = types[i]
      OBVIOUS
    <3>2. NeedsCompressed(style) => k.compressed
      BY <2>5, <3>1
    <3>3. o = AddressObject(k, style, src)
      BY <3>1
    <3>4. /\ True(o) /\ o.type = "address" /\ "source" \in DOMAIN o /\ o.source = src
          /\ KeyOf(o) = k /\ o.network = k.network
      BY <2>1, <2>2, <3>2, <3>3, AddressMade
    <3> HIDE DEF o
    <3>5. src = in.source => Linked(o, src)
      BY <2>1, <2>2, <3>4, FieldsAre DEF Linked, KeyTypes
    <3>6. Honest(o)
      BY <2>1, <2>3, <3>4, <3>5, HonestMade DEF Types
    <3> QED BY <3>4, <3>6 DEF o
  <2>6. ss = [i \in 1 .. n |-> ss[i]]
    BY <2>4
  <2>7. ASSUME NEW i \in 1 .. n
        PROVE  /\ IsSeq(ss[i])
               /\ \A o \in ToSet(ss[i]) : Honest(o) /\ o.type = "address"
    <3>1. \/ can(types[i]) /\ ss[i] = <<object(i)>>
          \/ ss[i] = <<>>
      BY <2>4
    <3> HIDE DEF ss, can, object
    <3>2. CASE ss[i] = <<>>
      BY <3>2, EmptyIsSeq
    <3>3. CASE can(types[i]) /\ ss[i] = <<object(i)>>
      <4>1. PICK o : o = object(i)
        OBVIOUS
      <4>2. IsSeq(<<o>>) /\ ToSet(<<o>>) = {o}
        BY OneIsSeq
      <4> QED BY <2>5, <3>3, <4>1, <4>2
    <3> QED BY <3>1, <3>2, <3>3
  <2> HIDE DEF ss, can, object
  <2>8. IsSeq(ss) /\ Len(ss) = n
    BY <2>6, FunIsSeq
  <2>9. IsSeqs(ss)
    BY <2>7, <2>8 DEF IsSeqs
  <2> DEFINE f == FlattenSeq(ss)
  <2>10. IsSeq(f) /\ \A o \in ToSet(f) : \E i \in 1 .. Len(ss) : o \in ToSet(ss[i])
    BY <2>9, FlatParts
  <2>11. \A o \in ToSet(f) : Honest(o) /\ o.type = "address"
    BY <2>7, <2>8, <2>10
  <2> HIDE DEF f
  <2>12. made.ok = TRUE /\ made.objects = f
    BY <1>4 DEF Ok, f
  <2> QED BY <2>10, <2>11, <2>12 DEF Makes
<1> HIDE DEF in, made, ss
<1>5. Makes(made) /\ \A o \in ToSet(made.objects) : o.type = "address"
  BY <1>2, <1>3, <1>4
<1> QED BY <1>5 DEF made

(***************************************************************************)
(* A stage: what it writes, and of which kind.                             *)
(***************************************************************************)
ItemSeq(s) == IsSeq(s) /\ \A v \in ToSet(s) : IsItem(v)
Prints(stage) == stage.options.out # "plain"

LEMMA ShownIs ==
    ASSUME NEW stage, NEW made, Makes(made)
    PROVE  LET shown == Shown(stage.options, made) IN
           /\ shown.ok = made.ok /\ (~shown.ok => shown.objects = <<>>)
           /\ ItemSeq(shown.objects)
           /\ \A v \in ToSet(shown.objects) : NotBare(v) = Prints(stage)
<1> DEFINE shown == Shown(stage.options, made)
           os == made.objects
           n == Len(os)
           f == [i \in DOMAIN os |-> Bare(os[i].data)]
<1>1. n \in Nat /\ DOMAIN os = 1 .. n /\ IsSeq(os) /\ \A o \in ToSet(os) : Honest(o)
  BY SeqSize DEF Makes
<1>2. \A o \in ToSet(os) : NotBare(o) = TRUE /\ IsItem(o)
  BY <1>1, HonestIsTrue DEF NotBare, Types, KeyTypes, IsItem
<1>3. CASE stage.options.out = "plain" /\ made.ok
  <2>1. shown.ok = TRUE /\ shown.objects = f
    BY <1>3 DEF Shown, Ok
  <2>2. f = [i \in 1 .. n |-> f[i]] /\ \A i \in 1 .. n : f[i] = Bare(os[i].data)
    BY <1>1
  <2> HIDE DEF f, os, n
  <2>3. IsSeq(f) /\ DOMAIN f = 1 .. n
    BY <1>1, <2>2, FunIsSeq
  <2>4. ASSUME NEW i \in 1 .. n
        PROVE  IsItem(f[i]) /\ NotBare(f[i]) = FALSE
    <3>1. PICK o : o = os[i]
      OBVIOUS
    <3>2. IsText(o.data)
      BY <1>1, <2>4, <3>1, HonestText DEF ToSet
    <3>3. PICK v : v = f[i]
      OBVIOUS
    <3>4. v = Bare(o.data)
      BY <2>2, <3>1, <3>3
    <3>5. v.data = o.data /\ v.type = "bare"
      BY <3>4 DEF Bare
    <3>6. IsItem(v) /\ NotBare(v) = FALSE
      BY <3>2, <3>4, <3>5 DEF IsItem, NotBare
    <3> QED BY <3>3, <3>6
  <2>5. \A v \in ToSet(f) : IsItem(v) /\ NotBare(v) = FALSE
    BY <2>3, <2>4 DEF ToSet
  <2>6. Prints(stage) = FALSE
    BY <1>3 DEF Prints
  <2>7. shown.ok = made.ok
    BY <1>3, <2>1 DEF Makes
  <2> HIDE DEF shown
  <2>8. ItemSeq(shown.objects) /\ \A v \in ToSet(shown.objects) : NotBare(v) = Prints(stage)
    BY <2>1, <2>3, <2>5, <2>6 DEF ItemSeq
  <2> QED BY <2>1, <2>7, <2>8 DEF shown
<1>4. CASE ~(stage.options.out = "plain" /\ made.ok)
  <2>1. shown = made
    BY <1>4 DEF Shown
  <2> HIDE DEF shown
  <2>2. ItemSeq(made.objects) /\ (~made.ok => made.objects = <<>>)
    BY <1>1, <1>2 DEF ItemSeq, Makes
  <2>3. CASE made.ok
    <3>1. Prints(stage) = TRUE
      BY <1>4, <2>3 DEF Prints
    <3> QED BY <1>2, <2>1, <2>2, <3>1 DEF shown
  <2>4. CASE ~made.ok
    <3>1. ToSet(made.objects) = {}
      BY <2>2, <2>4, EmptyIsSeq
    <3> QED BY <2>1, <2>2, <3>1 DEF shown
  <2> QED BY <2>3, <2>4
<1> QED BY <1>3, <1>4

LEMMA RunMakes ==
    ASSUME NEW stage, IsStage(stage), NEW item, IsItem(item)
    PROVE  LET made == RunCommand(stage, item) IN
           /\ made.ok \in BOOLEAN /\ (~made.ok => made.objects = <<>>)
           /\ ItemSeq(made.objects)
           /\ \A v \in ToSet(made.objects) : NotBare(v) = Prints(stage)
<1> DEFINE opts == stage.options
<1>1. /\ opts.network \in {Nothing, Main, Test} /\ opts.types \in Seq(Styles)
      /\ stage.command \in {"privkey", "pubkey", "address"}
  BY DEF IsStage
<1>2. Makes(Privkey(opts, item)) /\ Makes(Pubkey(opts, item)) /\ Makes(Address(opts, item))
  BY <1>1, PrivkeyMakes, PubkeyMakes, AddressMakes
<1>3. PICK made : Makes(made) /\ RunCommand(stage, item) = Shown(opts, made)
  <2>1. stage.command = "privkey" => RunCommand(stage, item) = Shown(opts, Privkey(opts, item))
    BY DEF RunCommand
  <2>2. stage.command = "pubkey" => RunCommand(stage, item) = Shown(opts, Pubkey(opts, item))
    BY DEF RunCommand
  <2>3. stage.command = "address" => RunCommand(stage, item) = Shown(opts, Address(opts, item))
    BY DEF RunCommand
  <2> HIDE DEF opts
  <2> QED BY <1>1, <1>2, <2>1, <2>2, <2>3
<1>4. made.ok \in BOOLEAN
  BY <1>3 DEF Makes
<1> QED BY <1>3, <1>4, ShownIs

LEMMA DrawnMakes ==
    ASSUME NEW stage, IsStage(stage), NEW objects \in Drawn(stage)
    PROVE  ItemSeq(objects) /\ \A v \in ToSet(objects) : NotBare(v) = Prints(stage)
<1>1. PICK s \in Secrets : objects = Shown(stage.options, PrivkeyNew(stage.options, s)).objects
  BY DEF Drawn
<1> QED BY <1>1, NewMakes, ShownIs

(***************************************************************************)
(* Values on a pipe: an item, or an array of items, which the next stage   *)
(* takes one by one.                                                       *)
(***************************************************************************)
Unpacked(v) == IF "array" \in DOMAIN v THEN v.array ELSE <<v>>
IsValue(v)  == ItemSeq(Unpacked(v)) /\ Unpacked(v) # <<>>
ValueSeq(s) == IsSeq(s) /\ \A v \in ToSet(s) : IsValue(v)

LEMMA ItemIsValue ==
    ASSUME NEW v, IsItem(v)
    PROVE  Unpacked(v) = <<v>> /\ IsValue(v)
<1>1. "array" \notin DOMAIN v
  <2>1. v.type = "bare" => v = Bare(v.data)
    BY ItemIs
  <2>2. CASE v.type = "bare"
    BY <2>1, <2>2 DEF Bare
  <2>3. CASE v.type # "bare"
    <3>1. True(v) /\ v.type \in Types
      BY <2>3, ItemIs, HonestIsTrue
    <3>2. v.type = "address" => v = AddressObject(v.data.key, v.style, v.source)
      BY <3>1 DEF True
    <3>3. v.type \in KeyTypes => v = Object(v.type, v.encoding, v.network, v.compressed, v.data, v.source)
      BY <3>1 DEF True
    <3>4. v.type = "address" => "array" \notin DOMAIN v
      BY <3>2 DEF AddressObject
    <3>5. v.type \in KeyTypes => "array" \notin DOMAIN v
      BY <3>3 DEF Object
    <3> QED BY <3>1, <3>4, <3>5 DEF Types
  <2> QED BY <2>2, <2>3
<1>2. Unpacked(v) = <<v>>
  BY <1>1 DEF Unpacked
<1>3. PICK s : s = <<v>> /\ IsSeq(s) /\ ToSet(s) = {v} /\ Len(s) = 1
  BY OneIsSeq
<1>4. s # <<>>
  BY <1>3, EmptyIsSeq
<1>5. ItemSeq(s)
  BY <1>3 DEF ItemSeq
<1> QED BY <1>2, <1>3, <1>4, <1>5 DEF IsValue

LEMMA ArrayIsValue ==
    ASSUME NEW s, ItemSeq(s), s # <<>>
    PROVE  Unpacked(Array(s)) = s /\ IsValue(Array(s))
<1>1. Unpacked(Array(s)) = s
  BY DEF Unpacked, Array
<1> QED BY <1>1 DEF IsValue

LEMMA SeqsOfItems ==
    /\ ItemSeq(<<>>) /\ ValueSeq(<<>>)
    /\ \A s : ItemSeq(s) => ValueSeq(s)
    /\ \A v : IsItem(v) => ItemSeq(<<v>>)
    /\ \A v : IsValue(v) => ValueSeq(<<v>>)
    /\ \A s, t : ItemSeq(s) /\ ItemSeq(t) => ItemSeq(s \o t)
    /\ \A s, t : ValueSeq(s) /\ ValueSeq(t) => ValueSeq(s \o t)
<1>1. ItemSeq(<<>>) /\ ValueSeq(<<>>)
  BY EmptyIsSeq DEF ItemSeq, ValueSeq
<1>2. ASSUME NEW s, ItemSeq(s) PROVE ValueSeq(s)
  BY <1>2, ItemIsValue DEF ItemSeq, ValueSeq
<1>3. ASSUME NEW v, IsItem(v) PROVE ItemSeq(<<v>>)
  BY <1>3, OneIsSeq DEF ItemSeq
<1>4. ASSUME NEW v, IsValue(v) PROVE ValueSeq(<<v>>)
  BY <1>4, OneIsSeq DEF ValueSeq
<1>5. ASSUME NEW s, NEW t, ItemSeq(s), ItemSeq(t) PROVE ItemSeq(s \o t)
  <2>1. IsSeq(s \o t) /\ ToSet(s \o t) = ToSet(s) \cup ToSet(t)
    BY <1>5, ConcatIsSeq DEF ItemSeq
  <2> QED BY <1>5, <2>1 DEF ItemSeq
<1>6. ASSUME NEW s, NEW t, ValueSeq(s), ValueSeq(t) PROVE ValueSeq(s \o t)
  <2>1. IsSeq(s \o t) /\ ToSet(s \o t) = ToSet(s) \cup ToSet(t)
    BY <1>6, ConcatIsSeq DEF ValueSeq
  <2> QED BY <1>6, <2>1 DEF ValueSeq
<1> QED BY <1>1, <1>2, <1>3, <1>4, <1>5, <1>6

\* The first of a sequence, and the rest.
LEMMA FirstOf ==
    ASSUME NEW s, s # <<>>
    PROVE  /\ ItemSeq(s) => ItemSeq(Tail(s)) /\ IsItem(Head(s))
           /\ ValueSeq(s) => ValueSeq(Tail(s)) /\ IsValue(Head(s))
           /\ ItemSeq(s) \/ ValueSeq(s) => s = <<Head(s)>> \o Tail(s)
<1>1. IsSeq(s) => /\ s = <<Head(s)>> \o Tail(s) /\ IsSeq(Tail(s)) /\ Head(s) \in ToSet(s)
                  /\ ToSet(Tail(s)) \subseteq ToSet(s)
  BY HeadTail
<1> QED BY <1>1 DEF ItemSeq, ValueSeq

LEMMA ItemsMapped ==
    ASSUME NEW s, IsSeq(s), NEW S, ToSet(s) \subseteq S
    PROVE  Items(s) = FlattenSeq(Mapped([v \in S |-> Unpacked(v)], s))
<1>1. \A j \in DOMAIN s : s[j] \in S
  BY SeqSize DEF ToSet
<1>2. [j \in DOMAIN s |-> IF "array" \in DOMAIN s[j] THEN s[j].array ELSE <<s[j]>>]
        = Mapped([v \in S |-> Unpacked(v)], s)
  BY <1>1 DEF Mapped, Unpacked
<1> QED BY <1>2 DEF Items

LEMMA ItemsAre ==
    ASSUME NEW s, ValueSeq(s)
    PROVE  /\ ItemSeq(Items(s))
           /\ \A e \in ToSet(Items(s)) : \E v \in ToSet(s) : e \in ToSet(Unpacked(v))
<1>1. PICK f : f = [v \in ToSet(s) |-> Unpacked(v)]
  OBVIOUS
<1>2. \A v \in ToSet(s) : f[v] = Unpacked(v) /\ ItemSeq(f[v])
  BY <1>1 DEF ValueSeq, IsValue
<1>3. IsSeq(s) /\ Expands(f, ToSet(s)) /\ Items(s) = FlattenSeq(Mapped(f, s))
  BY <1>1, <1>2, ItemsMapped DEF ValueSeq, ItemSeq, Expands
<1>4. /\ IsSeq(Items(s))
      /\ \A e \in ToSet(Items(s)) : \E v \in ToSet(s) : e \in ToSet(f[v])
  BY <1>3, FlatMapped
<1> QED BY <1>2, <1>4 DEF ItemSeq

LEMMA ItemsConcat ==
    ASSUME NEW s, ValueSeq(s), NEW t, ValueSeq(t)
    PROVE  Items(s \o t) = Items(s) \o Items(t)
<1>1. PICK S : S = ToSet(s) \cup ToSet(t)
  OBVIOUS
<1>2. PICK f : f = [v \in S |-> Unpacked(v)]
  OBVIOUS
<1>3. \A v \in S : f[v] = Unpacked(v) /\ ItemSeq(f[v])
  BY <1>1, <1>2 DEF ValueSeq, IsValue
<1>4. IsSeq(s) /\ IsSeq(t) /\ Expands(f, S) /\ IsSeq(s \o t) /\ ToSet(s \o t) = S
  BY <1>1, <1>3, ConcatIsSeq DEF ValueSeq, ItemSeq, Expands
<1>5. /\ Items(s) = FlattenSeq(Mapped(f, s)) /\ Items(t) = FlattenSeq(Mapped(f, t))
      /\ Items(s \o t) = FlattenSeq(Mapped(f, s \o t))
  BY <1>1, <1>2, <1>4, ItemsMapped
<1>6. Expands(f, ToSet(s) \cup ToSet(t))
  BY <1>1, <1>4
<1>7. FlattenSeq(Mapped(f, s \o t)) = FlattenSeq(Mapped(f, s)) \o FlattenSeq(Mapped(f, t))
  BY <1>4, <1>6, MappedConcat
<1> QED BY <1>5, <1>7

LEMMA ItemsSame ==
    ASSUME NEW s, ItemSeq(s)
    PROVE  Items(s) = s
<1>1. PICK f : f = [v \in ToSet(s) |-> Unpacked(v)]
  OBVIOUS
<1>2. Singles(f, ToSet(s))
  BY <1>1, ItemIsValue DEF ItemSeq, Singles
<1>3. IsSeq(s) /\ Items(s) = FlattenSeq(Mapped(f, s))
  BY <1>1, ItemsMapped DEF ItemSeq
<1> QED BY <1>2, <1>3, MappedSame

LEMMA ItemsOne ==
    ASSUME NEW v, IsValue(v)
    PROVE  Items(<<v>>) = Unpacked(v)
<1>1. PICK f : f = [w \in {v} |-> Unpacked(w)]
  OBVIOUS
<1>2. f[v] = Unpacked(v) /\ IsSeq(f[v])
  BY <1>1 DEF IsValue, ItemSeq
<1>3. Items(<<v>>) = FlattenSeq(Mapped(f, <<v>>))
  BY <1>1, OneIsSeq, ItemsMapped
<1> QED BY <1>2, <1>3, MappedOne

LEMMA ItemsTwice ==
    ASSUME NEW s, ValueSeq(s)
    PROVE  Items(Items(s)) = Items(s)
BY ItemsAre, ItemsSame

\* What a stage makes of items.
LEMMA OutputsMapped ==
    ASSUME NEW stage, NEW s, IsSeq(s), NEW S, ToSet(s) \subseteq S
    PROVE  Outputs(stage, s) = FlattenSeq(Mapped([v \in S |-> RunCommand(stage, v).objects], s))
<1>1. \A j \in DOMAIN s : s[j] \in S
  BY SeqSize DEF ToSet
<1>2. [j \in DOMAIN s |-> RunCommand(stage, s[j]).objects]
        = Mapped([v \in S |-> RunCommand(stage, v).objects], s)
  BY <1>1 DEF Mapped
<1> QED BY <1>2 DEF Outputs

LEMMA OutputsAre ==
    ASSUME NEW stage, IsStage(stage), NEW s, ItemSeq(s), NEW t, ItemSeq(t)
    PROVE  /\ ItemSeq(Outputs(stage, s))
           /\ Outputs(stage, s \o t) = Outputs(stage, s) \o Outputs(stage, t)
           /\ \A v \in ToSet(Outputs(stage, s)) : NotBare(v) = Prints(stage)
<1>1. PICK S : S = ToSet(s) \cup ToSet(t)
  OBVIOUS
<1>2. PICK f : f = [v \in S |-> RunCommand(stage, v).objects]
  OBVIOUS
<1>3. ASSUME NEW v \in S
      PROVE  ItemSeq(f[v]) /\ \A w \in ToSet(f[v]) : NotBare(w) = Prints(stage)
  <2>1. IsItem(v) /\ f[v] = RunCommand(stage, v).objects
    BY <1>1, <1>2, <1>3 DEF ItemSeq
  <2> QED BY <2>1, RunMakes
<1>4. IsSeq(s) /\ IsSeq(t) /\ IsSeq(s \o t) /\ ToSet(s \o t) = S
  BY <1>1, ConcatIsSeq DEF ItemSeq
<1>5. Expands(f, S) /\ Expands(f, ToSet(s))
  BY <1>1, <1>3 DEF Expands, ItemSeq
<1>6. /\ Outputs(stage, s) = FlattenSeq(Mapped(f, s))
      /\ Outputs(stage, t) = FlattenSeq(Mapped(f, t))
      /\ Outputs(stage, s \o t) = FlattenSeq(Mapped(f, s \o t))
  BY <1>1, <1>2, <1>4, OutputsMapped
<1>7. Outputs(stage, s \o t) = Outputs(stage, s) \o Outputs(stage, t)
  <2>1. Expands(f, ToSet(s) \cup ToSet(t))
    BY <1>1, <1>5
  <2>2. FlattenSeq(Mapped(f, s \o t)) = FlattenSeq(Mapped(f, s)) \o FlattenSeq(Mapped(f, t))
    BY <1>4, <2>1, MappedConcat
  <2> QED BY <1>6, <2>2
<1>8. /\ IsSeq(Outputs(stage, s))
      /\ \A e \in ToSet(Outputs(stage, s)) : \E a \in ToSet(s) : e \in ToSet(f[a])
  BY <1>4, <1>5, <1>6, FlatMapped
<1>9. \A e \in ToSet(Outputs(stage, s)) : IsItem(e) /\ NotBare(e) = Prints(stage)
  BY <1>1, <1>3, <1>8 DEF ItemSeq
<1> QED BY <1>7, <1>8, <1>9 DEF ItemSeq

LEMMA OutputsOne ==
    ASSUME NEW stage, IsStage(stage), NEW v, IsItem(v)
    PROVE  Outputs(stage, <<v>>) = RunCommand(stage, v).objects
<1>1. PICK f : f = [w \in {v} |-> RunCommand(stage, w).objects]
  OBVIOUS
<1>2. f[v] = RunCommand(stage, v).objects /\ IsSeq(f[v])
  BY <1>1, RunMakes DEF ItemSeq
<1>3. Outputs(stage, <<v>>) = FlattenSeq(Mapped(f, <<v>>))
  BY <1>1, OneIsSeq, OutputsMapped
<1> QED BY <1>2, <1>3, MappedOne

(***************************************************************************)
(* What the stages from i on make of what is on a pipe.                    *)
(***************************************************************************)
Piped(stages) == IsSeq(stages) /\ \A k \in 1 .. Len(stages) : IsStage(stages[k])
Flows(f, n, stages, i, values) ==
    f = [k \in 0 .. n |-> IF k < i THEN Items(values) ELSE Outputs(stages[k], f[k - 1])]
Flow(stages, i, values) == CHOOSE f : Flows(f, Len(stages), stages, i, values)

LEMMA ThroughChosen ==
    ASSUME NEW stages, NEW i, NEW values
    PROVE  Through(stages, i, values) = Flow(stages, i, values)[Len(stages)]
BY Zenon DEF Through, Flow, Flows

LEMMA FlowExists ==
    ASSUME NEW stages, Piped(stages), NEW i \in 1 .. Len(stages) + 1, NEW values
    PROVE  Flows(Flow(stages, i, values), Len(stages), stages, i, values)
<1> DEFINE G == {n \in Nat : \E f : Flows(f, n, stages, i, values)}
<1>1. Len(stages) \in Nat
  BY SeqSize DEF Piped
<1>2. 0 \in G
  <2>1. PICK f : f = [k \in {0} |-> Items(values)]
    OBVIOUS
  <2>2. \A k \in 0 .. 0 : k = 0 /\ k < i
    BY <1>1
  <2>3. Flows(f, 0, stages, i, values)
    BY <2>1, <2>2 DEF Flows
  <2> QED BY <2>3
<1>3. ASSUME NEW n \in 1 .. Len(stages), n - 1 \in G PROVE n \in G
  <2>1. PICK g : Flows(g, n - 1, stages, i, values)
    BY <1>3
  <2>2. PICK f : f = [k \in 0 .. n |-> IF k = n THEN IF n < i THEN Items(values)
                                                     ELSE Outputs(stages[n], g[n - 1])
                                       ELSE g[k]]
    OBVIOUS
  <2>3. n \in Nat /\ n \in 0 .. n /\ n - 1 \in 0 .. n /\ n - 1 # n
    BY <1>1
  <2>4. \A k \in 0 .. n : k # n => k \in 0 .. n - 1 /\ k - 1 \in Int /\ k - 1 # n
    BY <2>3
  <2>5. \A k \in 0 .. n - 1 : k \in 0 .. n /\ f[k] = g[k]
    BY <2>2, <2>3
  <2>6. \A k \in 0 .. n - 1 :
           g[k] = IF k < i THEN Items(values) ELSE Outputs(stages[k], g[k - 1])
    BY <2>1 DEF Flows
  <2>7. ASSUME NEW k \in 0 .. n
        PROVE  f[k] = IF k < i THEN Items(values) ELSE Outputs(stages[k], f[k - 1])
    <3>1. CASE k = n
      <4>1. f[n - 1] = g[n - 1]
        BY <2>2, <2>3
      <4> QED BY <3>1, <4>1, <2>2, <2>3
    <3>2. CASE k # n /\ k < i
      BY <3>2, <2>4, <2>5, <2>6
    <3>3. CASE k # n /\ ~(k < i)
      <4>1. k \in 0 .. n - 1 /\ k - 1 \in 0 .. n - 1
        BY <3>3, <1>1, <2>3, <2>4
      <4>2. f[k - 1] = g[k - 1] /\ f[k] = g[k]
        BY <4>1, <2>5
      <4> QED BY <3>3, <4>1, <4>2, <2>6
    <3> QED BY <3>1, <3>2, <3>3
  <2>8. f = [k \in 0 .. n |-> f[k]]
    BY <2>2
  <2>9. f = [k \in 0 .. n |-> IF k < i THEN Items(values) ELSE Outputs(stages[k], f[k - 1])]
    BY <2>7, <2>8
  <2>10. Flows(f, n, stages, i, values)
    BY <2>9 DEF Flows
  <2> QED BY <2>3, <2>10
<1>4. 0 .. Len(stages) \subseteq G
  <2> HIDE DEF G
  <2> QED BY <1>1, <1>2, <1>3, UpTo
<1>5. \E f : Flows(f, Len(stages), stages, i, values)
  BY <1>1, <1>4
<1> QED BY <1>5 DEF Flow

LEMMA FlowSteps ==
    ASSUME NEW stages, Piped(stages), NEW i \in 1 .. Len(stages) + 1, NEW values
    PROVE  /\ \A k \in 0 .. i - 1 : Flow(stages, i, values)[k] = Items(values)
           /\ \A k \in i .. Len(stages) :
                 Flow(stages, i, values)[k] = Outputs(stages[k], Flow(stages, i, values)[k - 1])
<1>1. PICK f : f = Flow(stages, i, values)
  OBVIOUS
<1>2. f = [k \in 0 .. Len(stages) |-> IF k < i THEN Items(values) ELSE Outputs(stages[k], f[k - 1])]
  BY <1>1, FlowExists DEF Flows
<1>3. Len(stages) \in Nat
  BY SeqSize DEF Piped
<1>4. \A k \in 0 .. i - 1 : k \in 0 .. Len(stages) /\ k < i
  BY <1>3
<1>5. \A k \in i .. Len(stages) : k \in 0 .. Len(stages) /\ ~(k < i)
  BY <1>3
<1>6. \A k \in 0 .. Len(stages) : f[k] = IF k < i THEN Items(values) ELSE Outputs(stages[k], f[k - 1])
  BY <1>2
<1>7. \A k \in 0 .. i - 1 : f[k] = Items(values)
  BY <1>4, <1>6
<1>8. \A k \in i .. Len(stages) : f[k] = Outputs(stages[k], f[k - 1])
  BY <1>5, <1>6
<1> QED BY <1>1, <1>7, <1>8

\* Stages work item by item: what they make of two sequences is what they
\* make of the one and then of the other.
LEMMA ThroughConcat ==
    ASSUME NEW stages, Piped(stages), NEW i \in 1 .. Len(stages) + 1,
           NEW v, ValueSeq(v), NEW w, ValueSeq(w)
    PROVE  /\ ItemSeq(Through(stages, i, v))
           /\ Through(stages, i, v \o w) = Through(stages, i, v) \o Through(stages, i, w)
<1>1. PICK f : f = Flow(stages, i, v)
  OBVIOUS
<1>2. PICK g : g = Flow(stages, i, w)
  OBVIOUS
<1>3. PICK h : h = Flow(stages, i, v \o w)
  OBVIOUS
<1> DEFINE G == {k \in Nat : ItemSeq(f[k]) /\ ItemSeq(g[k]) /\ h[k] = f[k] \o g[k]}
<1>4. /\ ItemSeq(Items(v)) /\ ItemSeq(Items(w))
      /\ Items(v \o w) = Items(v) \o Items(w)
  BY ItemsAre, ItemsConcat
<1>5. /\ \A k \in 0 .. i - 1 : f[k] = Items(v) /\ g[k] = Items(w) /\ h[k] = Items(v \o w)
      /\ \A k \in i .. Len(stages) : /\ f[k] = Outputs(stages[k], f[k - 1])
                                     /\ g[k] = Outputs(stages[k], g[k - 1])
                                     /\ h[k] = Outputs(stages[k], h[k - 1])
  BY <1>1, <1>2, <1>3, FlowSteps
<1>6. Len(stages) \in Nat
  BY SeqSize DEF Piped
<1>7. \A k \in 0 .. i - 1 : k \in G
  <2>1. \A k \in 0 .. i - 1 : k \in Nat
    BY <1>6
  <2> QED BY <1>4, <1>5, <2>1
<1>8. ASSUME NEW k \in 1 .. Len(stages), k - 1 \in G PROVE k \in G
  <2>1. CASE k < i
    <3>1. k \in 0 .. i - 1
      BY <2>1, <1>6
    <3> QED BY <3>1, <1>7
  <2>2. CASE ~(k < i)
    <3>1. k \in i .. Len(stages) /\ k \in Nat
      BY <2>2, <1>6
    <3>2. PICK a : a = f[k - 1] /\ ItemSeq(a)
      BY <1>8
    <3>3. PICK b : b = g[k - 1] /\ ItemSeq(b)
      BY <1>8
    <3>4. h[k - 1] = a \o b
      BY <1>8, <3>2, <3>3
    <3>5. PICK s : s = stages[k] /\ IsStage(s)
      BY DEF Piped
    <3>6. f[k] = Outputs(s, a) /\ g[k] = Outputs(s, b) /\ h[k] = Outputs(s, a \o b)
      BY <1>5, <3>1, <3>2, <3>3, <3>4, <3>5
    <3>7. IsStage(s) /\ ItemSeq(a) /\ ItemSeq(b)
      BY <3>2, <3>3, <3>5
    <3>8. /\ ItemSeq(Outputs(s, a)) /\ ItemSeq(Outputs(s, b))
          /\ Outputs(s, a \o b) = Outputs(s, a) \o Outputs(s, b)
      BY <3>7, OutputsAre
    <3> QED BY <3>1, <3>6, <3>8
  <2> QED BY <2>1, <2>2
<1>9. 0 .. Len(stages) \subseteq G
  <2>1. 0 \in G
    <3>1. 0 \in 0 .. i - 1
      BY <1>6
    <3> HIDE DEF G
    <3> QED BY <3>1, <1>7
  <2> HIDE DEF G
  <2> QED BY <1>6, <1>8, <2>1, UpTo
<1>10. Len(stages) \in G
  <2>1. Len(stages) \in 0 .. Len(stages)
    BY <1>6
  <2> HIDE DEF G
  <2> QED BY <1>9, <2>1
<1>11. /\ Through(stages, i, v) = f[Len(stages)] /\ Through(stages, i, w) = g[Len(stages)]
       /\ Through(stages, i, v \o w) = h[Len(stages)]
  BY <1>1, <1>2, <1>3, ThroughChosen
<1> QED BY <1>10, <1>11

LEMMA ThroughEmpty ==
    ASSUME NEW stages, Piped(stages), NEW i \in 1 .. Len(stages) + 1
    PROVE  Through(stages, i, <<>>) = <<>>
<1>1. PICK t : t = Through(stages, i, <<>>)
  OBVIOUS
<1>2. ItemSeq(t) /\ t = t \o t
  <2>1. PICK e : e = <<>> /\ ValueSeq(e) /\ e \o e = e
    BY SeqsOfItems, EmptyIsSeq, ConcatEmpty
  <2>2. ItemSeq(Through(stages, i, e)) /\ Through(stages, i, e \o e) = Through(stages, i, e) \o Through(stages, i, e)
    <3>1. ValueSeq(e)
      BY <2>1
    <3> QED BY <3>1, ThroughConcat
  <2> QED BY <1>1, <2>1, <2>2
<1>3. Len(t) = Len(t) + Len(t) /\ Len(t) \in Nat
  BY <1>2, ConcatIsSeq, SeqSize DEF ItemSeq
<1>4. ~(Len(t) > 0)
  BY <1>3
<1>5. t = <<>>
  BY <1>2, <1>4, SeqSize DEF ItemSeq
<1> QED BY <1>1, <1>5

\* Arrays count as their items.
LEMMA ThroughItems ==
    ASSUME NEW stages, NEW i, NEW v, NEW w, Items(v) = Items(w)
    PROVE  Through(stages, i, v) = Through(stages, i, w)
<1>1. \A f : Flows(f, Len(stages), stages, i, v) <=> Flows(f, Len(stages), stages, i, w)
  BY DEF Flows
<1>2. Flow(stages, i, v) = Flow(stages, i, w)
  BY <1>1 DEF Flow
<1> QED BY <1>2, ThroughChosen

LEMMA ThroughLast ==
    ASSUME NEW stages, Piped(stages), NEW v
    PROVE  Through(stages, Len(stages) + 1, v) = Items(v)
<1>1. Len(stages) \in Nat
  BY SeqSize DEF Piped
<1>2. PICK i \in 1 .. Len(stages) + 1 : i = Len(stages) + 1
  BY <1>1
<1>3. Len(stages) \in 0 .. i - 1
  BY <1>1, <1>2
<1>4. Flow(stages, i, v)[Len(stages)] = Items(v)
  BY <1>3, FlowSteps
<1> QED BY <1>2, <1>4, ThroughChosen

\* One stage further.
LEMMA ThroughStep ==
    ASSUME NEW stages, Piped(stages), NEW i \in 1 .. Len(stages), NEW v, ItemSeq(v)
    PROVE  Through(stages, i, v) = Through(stages, i + 1, Outputs(stages[i], v))
<1>1. Len(stages) \in Nat
  BY SeqSize DEF Piped
<1>2. PICK n : n = i + 1
  OBVIOUS
<1>3. i \in 1 .. Len(stages) + 1 /\ n \in 1 .. Len(stages) + 1 /\ n - 1 = i
  BY <1>1, <1>2
<1>4. PICK s : s = stages[i] /\ IsStage(s)
  BY DEF Piped
<1>5. PICK o : o = Outputs(s, v)
  OBVIOUS
<1>6. Items(v) = v /\ ItemSeq(o) /\ Items(o) = o
  <2>1. ItemSeq(o)
    BY <1>4, <1>5, OutputsAre
  <2> QED BY <2>1, ItemsSame
<1>7. PICK f : f = Flow(stages, i, v)
  OBVIOUS
<1>8. PICK g : g = Flow(stages, n, o)
  OBVIOUS
<1>9. /\ \A k \in 0 .. i - 1 : f[k] = Items(v)
      /\ \A k \in i .. Len(stages) : f[k] = Outputs(stages[k], f[k - 1])
  BY <1>3, <1>7, FlowSteps
<1>10. /\ \A k \in 0 .. n - 1 : g[k] = Items(o)
       /\ \A k \in n .. Len(stages) : g[k] = Outputs(stages[k], g[k - 1])
  BY <1>3, <1>8, FlowSteps
<1> DEFINE G == {k \in Nat : k >= i => f[k] = g[k]}
<1>11. f[i] = g[i]
  <2>1. i - 1 \in 0 .. i - 1 /\ i \in i .. Len(stages) /\ i \in 0 .. n - 1
    BY <1>1, <1>3
  <2>2. f[i - 1] = v
    BY <1>6, <1>9, <2>1
  <2>3. f[i] = o
    BY <1>4, <1>5, <1>9, <2>1, <2>2
  <2> QED BY <1>6, <1>10, <2>1, <2>3
<1>12. 0 \in G
  BY <1>1
<1>13. ASSUME NEW k \in 1 .. Len(stages), k - 1 \in G PROVE k \in G
  <2>1. k \in Nat /\ k - 1 \in Nat
    BY <1>1
  <2>2. CASE k < i
    BY <2>1, <2>2
  <2>3. CASE k = i
    BY <2>1, <2>3, <1>11
  <2>4. CASE k > i
    <3>1. k - 1 >= i /\ k \in i .. Len(stages) /\ k \in n .. Len(stages)
      BY <2>1, <2>4, <1>1, <1>2
    <3>2. f[k - 1] = g[k - 1]
      BY <3>1, <1>13
    <3>3. f[k] = g[k]
      BY <3>1, <3>2, <1>9, <1>10
    <3> QED BY <2>1, <3>3
  <2> QED BY <2>1, <2>2, <2>3, <2>4
<1>14. 0 .. Len(stages) \subseteq G
  <2> HIDE DEF G
  <2> QED BY <1>1, <1>12, <1>13, UpTo
<1>15. f[Len(stages)] = g[Len(stages)]
  <2>1. Len(stages) \in 0 .. Len(stages) /\ Len(stages) >= i
    BY <1>1
  <2> QED BY <1>14, <2>1
<1>16. Through(stages, i, v) = f[Len(stages)] /\ Through(stages, n, o) = g[Len(stages)]
  BY <1>7, <1>8, ThroughChosen
<1> QED BY <1>2, <1>4, <1>5, <1>15, <1>16

(***************************************************************************)
(* Values of one kind: what a stage writes are either objects or lines.    *)
(***************************************************************************)
Valued(s, K) == /\ ValueSeq(s)
                /\ \A v \in ToSet(s) : \A e \in ToSet(Unpacked(v)) : NotBare(e) \in K
Itemed(s, K) == ItemSeq(s) /\ \A v \in ToSet(s) : NotBare(v) \in K

LEMMA ItemedIsValued ==
    ASSUME NEW K, NEW s, Itemed(s, K)
    PROVE  Valued(s, K)
<1>1. ValueSeq(s)
  BY SeqsOfItems DEF Itemed
<1>2. ASSUME NEW v \in ToSet(s) PROVE \A e \in ToSet(Unpacked(v)) : NotBare(e) \in K
  <2>1. Unpacked(v) = <<v>>
    BY <1>2, ItemIsValue DEF Itemed, ItemSeq
  <2>2. ToSet(Unpacked(v)) = {v}
    BY <2>1, OneIsSeq
  <2> QED BY <1>2, <2>2 DEF Itemed
<1> QED BY <1>1, <1>2 DEF Valued

LEMMA KindsAre ==
    ASSUME NEW K
    PROVE  /\ Itemed(<<>>, K) /\ Valued(<<>>, K)
           /\ \A s, t : Itemed(s, K) /\ Itemed(t, K) => Itemed(s \o t, K)
           /\ \A s, t : Valued(s, K) /\ Valued(t, K) => Valued(s \o t, K)
           /\ \A v : IsItem(v) /\ NotBare(v) \in K => Itemed(<<v>>, K)
<1>1. Itemed(<<>>, K) /\ Valued(<<>>, K)
  BY EmptyIsSeq, SeqsOfItems, ItemedIsValued DEF Itemed
<1>2. ASSUME NEW s, NEW t, Itemed(s, K), Itemed(t, K) PROVE Itemed(s \o t, K)
  <2>1. ItemSeq(s \o t) /\ ToSet(s \o t) = ToSet(s) \cup ToSet(t)
    BY <1>2, ConcatIsSeq, SeqsOfItems DEF Itemed, ItemSeq
  <2> QED BY <1>2, <2>1 DEF Itemed
<1>3. ASSUME NEW s, NEW t, Valued(s, K), Valued(t, K) PROVE Valued(s \o t, K)
  <2>1. ValueSeq(s \o t) /\ ToSet(s \o t) = ToSet(s) \cup ToSet(t)
    BY <1>3, ConcatIsSeq, SeqsOfItems DEF Valued, ValueSeq
  <2> QED BY <1>3, <2>1 DEF Valued
<1>4. ASSUME NEW v, IsItem(v), NotBare(v) \in K PROVE Itemed(<<v>>, K)
  BY <1>4, OneIsSeq, SeqsOfItems DEF Itemed
<1> QED BY <1>1, <1>2, <1>3, <1>4

\* The first of a sequence, and the rest.
LEMMA KindsRest ==
    ASSUME NEW K, NEW s, s # <<>>
    PROVE  /\ Itemed(s, K) => /\ Itemed(Tail(s), K) /\ IsItem(Head(s)) /\ NotBare(Head(s)) \in K
                              /\ Itemed(<<Head(s)>>, K)
           /\ Valued(s, K) => Valued(Tail(s), K) /\ Valued(<<Head(s)>>, K)
           /\ Valued(s, K) => s = <<Head(s)>> \o Tail(s) /\ Len(Tail(s)) = Len(s) - 1
                              /\ Len(s) \in Nat
<1>1. IsSeq(s) => /\ s = <<Head(s)>> \o Tail(s) /\ IsSeq(Tail(s)) /\ Head(s) \in ToSet(s)
                  /\ ToSet(Tail(s)) \subseteq ToSet(s) /\ Len(Tail(s)) = Len(s) - 1 /\ Len(s) \in Nat
  BY HeadTail, SeqSize
<1>2. ASSUME Itemed(s, K)
      PROVE  /\ Itemed(Tail(s), K) /\ IsItem(Head(s)) /\ NotBare(Head(s)) \in K
             /\ Itemed(<<Head(s)>>, K)
  <2>1. ItemSeq(Tail(s)) /\ IsItem(Head(s)) /\ Head(s) \in ToSet(s) /\ ToSet(Tail(s)) \subseteq ToSet(s)
    BY <1>1, <1>2, FirstOf DEF Itemed, ItemSeq
  <2>2. Itemed(Tail(s), K) /\ NotBare(Head(s)) \in K
    BY <1>2, <2>1 DEF Itemed
  <2> QED BY <2>1, <2>2, KindsAre
<1>3. ASSUME Valued(s, K) PROVE Valued(Tail(s), K) /\ Valued(<<Head(s)>>, K)
  <2>1. /\ ValueSeq(Tail(s)) /\ IsValue(Head(s)) /\ Head(s) \in ToSet(s)
        /\ ToSet(Tail(s)) \subseteq ToSet(s)
    BY <1>1, <1>3, FirstOf DEF Valued, ValueSeq
  <2>2. PICK v : v = Head(s) /\ IsValue(v) /\ v \in ToSet(s)
    BY <2>1
  <2>3. ValueSeq(<<v>>) /\ ToSet(<<v>>) = {v}
    BY <2>2, SeqsOfItems, OneIsSeq
  <2>4. Valued(<<v>>, K)
    BY <1>3, <2>2, <2>3 DEF Valued
  <2> QED BY <1>3, <2>1, <2>2, <2>4 DEF Valued
<1>4. Valued(s, K) => IsSeq(s)
  BY DEF Valued, ValueSeq
<1> QED BY <1>1, <1>2, <1>3, <1>4

LEMMA KindsUnpacked ==
    ASSUME NEW K, NEW s, Valued(s, K)
    PROVE  Itemed(Items(s), K)
<1>1. ItemSeq(Items(s)) /\ \A e \in ToSet(Items(s)) : \E v \in ToSet(s) : e \in ToSet(Unpacked(v))
  BY ItemsAre DEF Valued
<1> QED BY <1>1 DEF Valued, Itemed

LEMMA KindsPacked ==
    ASSUME NEW K, NEW s, Itemed(s, K), s # <<>>
    PROVE  Valued(<<Array(s)>>, K) /\ Items(<<Array(s)>>) = s
<1>1. PICK v : v = Array(s) /\ Unpacked(v) = s /\ IsValue(v)
  BY ArrayIsValue DEF Itemed
<1>2. ValueSeq(<<v>>) /\ ToSet(<<v>>) = {v} /\ Items(<<v>>) = s
  BY <1>1, SeqsOfItems, OneIsSeq, ItemsOne
<1>3. Valued(<<v>>, K)
  BY <1>1, <1>2 DEF Valued, Itemed
<1> QED BY <1>1, <1>2, <1>3

(***************************************************************************)
(* What is under way at one stage, as it will look when it arrives.        *)
(***************************************************************************)
Load(stages, i, h, t, r, b, p) ==
    Through(stages, i + 1, h \o t) \o Through(stages, i, r \o b \o p)

Loaded(h, t, r, b, p) ==
    ValueSeq(h) /\ ValueSeq(t) /\ ValueSeq(r) /\ ValueSeq(b) /\ ValueSeq(p)

LEMMA LoadSplit ==
    ASSUME NEW stages, Piped(stages), NEW i \in 1 .. Len(stages),
           NEW h, NEW t, NEW r, NEW b, NEW p, Loaded(h, t, r, b, p)
    PROVE  /\ IsSeq(Load(stages, i, h, t, r, b, p))
           /\ Load(stages, i, h, t, r, b, p) =
                (Through(stages, i + 1, h) \o Through(stages, i + 1, t))
                \o (Through(stages, i, r) \o Through(stages, i, b) \o Through(stages, i, p))
<1>1. Len(stages) \in Nat
  BY SeqSize DEF Piped
<1>2. PICK n \in 1 .. Len(stages) + 1 : n = i + 1
  BY <1>1
<1>3. i \in 1 .. Len(stages) + 1
  BY <1>1
<1>4. /\ Through(stages, n, h \o t) = Through(stages, n, h) \o Through(stages, n, t)
      /\ ItemSeq(Through(stages, n, h)) /\ ItemSeq(Through(stages, n, t))
  <2>1. ValueSeq(h) /\ ValueSeq(t)
    BY DEF Loaded
  <2> QED BY <2>1, ThroughConcat
<1>5. PICK rb : rb = r \o b /\ ValueSeq(rb)
  <2>1. ValueSeq(r) /\ ValueSeq(b)
    BY DEF Loaded
  <2> QED BY <2>1, SeqsOfItems
<1>6. Through(stages, i, r \o b) = Through(stages, i, r) \o Through(stages, i, b)
  <2>1. ValueSeq(r) /\ ValueSeq(b)
    BY DEF Loaded
  <2> QED BY <1>3, <2>1, ThroughConcat
<1>7. /\ Through(stages, i, rb \o p) = Through(stages, i, rb) \o Through(stages, i, p)
      /\ ItemSeq(Through(stages, i, rb)) /\ ItemSeq(Through(stages, i, p))
  <2>1. ValueSeq(rb)
    BY <1>5
  <2>2. ValueSeq(p)
    BY DEF Loaded
  <2> QED BY <1>3, <2>1, <2>2, ThroughConcat
<1>8. ItemSeq(Through(stages, n, h \o t)) /\ ItemSeq(Through(stages, i, rb \o p))
  BY <1>4, <1>7, SeqsOfItems
<1>9. Load(stages, i, h, t, r, b, p) = Through(stages, n, h \o t) \o Through(stages, i, rb \o p)
  BY <1>2, <1>5 DEF Load
<1>10. IsSeq(Load(stages, i, h, t, r, b, p))
  BY <1>8, <1>9, ConcatIsSeq DEF ItemSeq
<1> QED BY <1>2, <1>4, <1>5, <1>6, <1>7, <1>9, <1>10

\* How the load of a stage changes: an item is fetched, ...
LEMMA LoadFetch ==
    ASSUME NEW stages, NEW i, NEW h, NEW t, NEW r, IsSeq(r), NEW b, IsSeq(b),
           NEW p, IsSeq(p), p # <<>>
    PROVE  Load(stages, i, h, t, r, Append(b, Head(p)), Tail(p)) = Load(stages, i, h, t, r, b, p)
<1>1. PICK x : x = Head(p)
  OBVIOUS
<1>2. PICK q : q = Tail(p) /\ IsSeq(q)
  BY HeadTail
<1>3. PICK o : o = <<x>> /\ IsSeq(o)
  BY OneIsSeq
<1>4. p = o \o q
  BY <1>1, <1>2, <1>3, HeadTail
<1>5. Append(b, x) = b \o o
  BY <1>3, AppendIs
<1>6. PICK rb : rb = r \o b /\ IsSeq(rb)
  BY ConcatIsSeq
<1>7. r \o (b \o o) = rb \o o
  <2>1. IsSeq(o)
    BY <1>3
  <2> QED BY <1>6, <2>1, ConcatAssoc, SMTT(60)
<1>8. (rb \o o) \o q = rb \o (o \o q)
  <2>1. IsSeq(rb) /\ IsSeq(o) /\ IsSeq(q)
    BY <1>2, <1>3, <1>6
  <2> QED BY <2>1, ConcatAssoc, SMTT(60)
<1>9. r \o Append(b, Head(p)) \o Tail(p) = r \o b \o p
  BY <1>1, <1>2, <1>4, <1>5, <1>6, <1>7, <1>8
<1> QED BY <1>9 DEF Load

\* ... a block is taken apart, ...
LEMMA LoadRelease ==
    ASSUME NEW stages, Piped(stages), NEW i \in 1 .. Len(stages),
           NEW h, NEW t, NEW b, NEW p, Loaded(h, t, <<>>, b, p)
    PROVE  Load(stages, i, h, t, Items(b), <<>>, p) = Load(stages, i, h, t, <<>>, b, p)
<1>1. i \in 1 .. Len(stages) + 1
  BY SeqSize DEF Piped
<1>2. Loaded(h, t, Items(b), <<>>, p)
  BY ItemsAre, SeqsOfItems DEF Loaded
<1>3. Through(stages, i, Items(b)) = Through(stages, i, b)
  BY ItemsTwice, ThroughItems DEF Loaded
<1>4. Through(stages, i, <<>>) = <<>>
  BY <1>1, ThroughEmpty
<1>5. IsSeq(Through(stages, i, b))
  BY <1>1, ThroughConcat DEF Loaded, ItemSeq
<1>6. <<>> \o Through(stages, i, b) = Through(stages, i, b)
      /\ Through(stages, i, b) \o <<>> = Through(stages, i, b)
  BY <1>5, ConcatEmpty
<1>7. Through(stages, i, Items(b)) \o Through(stages, i, <<>>)
        = Through(stages, i, <<>>) \o Through(stages, i, b)
  BY <1>3, <1>4, <1>6
<1>8. Load(stages, i, h, t, Items(b), <<>>, p) =
        (Through(stages, i + 1, h) \o Through(stages, i + 1, t))
        \o (Through(stages, i, Items(b)) \o Through(stages, i, <<>>) \o Through(stages, i, p))
  BY <1>2, LoadSplit, SMTT(60)
<1>9. Load(stages, i, h, t, <<>>, b, p) =
        (Through(stages, i + 1, h) \o Through(stages, i + 1, t))
        \o (Through(stages, i, <<>>) \o Through(stages, i, b) \o Through(stages, i, p))
  BY LoadSplit
<1> QED BY <1>7, <1>8, <1>9

\* ... an item is handled, ...
TakesOne(stages, i, r, x, q, m) ==
    /\ Piped(stages) /\ i \in 1 .. Len(stages) /\ IsItem(x) /\ ItemSeq(q)
    /\ r = <<x>> \o q /\ m = RunCommand(stages[i], x).objects
LEMMA ThroughItem ==
    ASSUME NEW stages, NEW i, NEW r, NEW x, NEW q, NEW m, TakesOne(stages, i, r, x, q, m)
    PROVE  Through(stages, i, r) = Through(stages, i + 1, m) \o Through(stages, i, q)
<1>1. Piped(stages) /\ i \in 1 .. Len(stages) /\ i \in 1 .. Len(stages) + 1
  BY SeqSize DEF TakesOne, Piped
<1>2. PICK s : s = stages[i] /\ IsStage(s)
  BY <1>1 DEF Piped
<1>3. IsItem(x) /\ ItemSeq(q)
  BY DEF TakesOne
<1>4. PICK o : o = <<x>> /\ ItemSeq(o)
  BY <1>3, SeqsOfItems
<1>5. Outputs(s, o) = RunCommand(s, x).objects
  BY <1>2, <1>3, <1>4, OutputsOne
<1>6. Through(stages, i, o) = Through(stages, i + 1, Outputs(stages[i], o))
  BY <1>1, <1>4, ThroughStep
<1>7. Through(stages, i, o \o q) = Through(stages, i, o) \o Through(stages, i, q)
  <2>1. ValueSeq(o) /\ ValueSeq(q)
    BY <1>3, <1>4, SeqsOfItems
  <2> QED BY <1>1, <2>1, ThroughConcat
<1>8. r = o \o q /\ m = Outputs(stages[i], o)
  BY <1>2, <1>4, <1>5 DEF TakesOne
<1> QED BY <1>6, <1>7, <1>8

LEMMA LoadHandle ==
    ASSUME NEW stages, Piped(stages), NEW i \in 1 .. Len(stages),
           NEW h, NEW r, NEW b, NEW p, Loaded(h, <<>>, r, b, p),
           NEW m, NEW q, Loaded(h, m, q, b, p)
    PROVE  Through(stages, i, r) = Through(stages, i + 1, m) \o Through(stages, i, q)
             => Load(stages, i, h, m, q, b, p) = Load(stages, i, h, <<>>, r, b, p)
<1>1. /\ Load(stages, i, h, m, q, b, p) =
           (Through(stages, i + 1, h) \o Through(stages, i + 1, m))
           \o (Through(stages, i, q) \o Through(stages, i, b) \o Through(stages, i, p))
      /\ Load(stages, i, h, <<>>, r, b, p) =
           (Through(stages, i + 1, h) \o Through(stages, i + 1, <<>>))
           \o (Through(stages, i, r) \o Through(stages, i, b) \o Through(stages, i, p))
  BY LoadSplit, SMTT(60)
<1>2. i \in 1 .. Len(stages) + 1 /\ Len(stages) \in Nat
  BY SeqSize DEF Piped
<1>3. PICK n \in 1 .. Len(stages) + 1 : n = i + 1
  BY <1>2
<1>4. IsSeq(Through(stages, n, h))
  BY ThroughConcat DEF Loaded, ItemSeq
<1>5. IsSeq(Through(stages, n, m))
  BY ThroughConcat DEF Loaded, ItemSeq
<1>6. IsSeq(Through(stages, i, q))
  BY <1>2, ThroughConcat DEF Loaded, ItemSeq
<1>7. IsSeq(Through(stages, i, b))
  BY <1>2, ThroughConcat DEF Loaded, ItemSeq
<1>8. IsSeq(Through(stages, i, p))
  BY <1>2, ThroughConcat DEF Loaded, ItemSeq
<1>9. Through(stages, n, <<>>) = <<>>
  BY ThroughEmpty
<1>10. PICK H : H = Through(stages, n, h) /\ IsSeq(H)
  BY <1>4
<1>11. PICK M : M = Through(stages, n, m) /\ IsSeq(M)
  BY <1>5
<1>12. PICK Q : Q = Through(stages, i, q) /\ IsSeq(Q)
  BY <1>6
<1>13. PICK B : B = Through(stages, i, b) /\ IsSeq(B)
  BY <1>7
<1>14. PICK P : P = Through(stages, i, p) /\ IsSeq(P)
  BY <1>8
<1>15. InOne(H, M, Q, B, P) = InOne(H, <<>>, M \o Q, B, P)
  <2>1. FiveSeqs(H, M, Q, B, P)
    BY <1>10, <1>11, <1>12, <1>13, <1>14 DEF FiveSeqs
  <2> QED BY <2>1, ConcatFive
<1> QED BY <1>1, <1>3, <1>9, <1>10, <1>11, <1>12, <1>13, <1>14, <1>15 DEF InOne

\* ... what was kept is to be written after all, as one value, ...
LEMMA LoadClose ==
    ASSUME NEW stages, NEW i, NEW h, ItemSeq(h), NEW r, NEW b, NEW p,
           NEW t, t = IF Len(h) > 1 THEN <<Array(h)>> ELSE h
    PROVE  Load(stages, i, <<>>, t, r, b, p) = Load(stages, i, h, <<>>, r, b, p)
<1>1. IsSeq(h) /\ Items(h) = h
  BY ItemsSame DEF ItemSeq
<1>2. Items(t) = Items(h) /\ IsSeq(t)
  <2>1. CASE Len(h) > 1
    <3>1. h # <<>>
      BY <2>1, EmptyIsSeq
    <3>2. PICK v : v = Array(h) /\ Unpacked(v) = h /\ IsValue(v)
      BY <3>1, ArrayIsValue
    <3>3. Items(<<v>>) = h /\ IsSeq(<<v>>)
      BY <3>2, ItemsOne, OneIsSeq
    <3> QED BY <1>1, <2>1, <3>2, <3>3
  <2>2. CASE ~(Len(h) > 1)
    BY <1>1, <2>2
  <2> QED BY <2>1, <2>2
<1>3. h \o <<>> = h /\ <<>> \o t = t
  BY <1>1, <1>2, ConcatEmpty
<1>4. Through(stages, i + 1, t) = Through(stages, i + 1, h)
  BY <1>2, ThroughItems
<1> QED BY <1>3, <1>4 DEF Load

\* ... an object is kept instead of written, ...
LEMMA LoadKeep ==
    ASSUME NEW stages, NEW i, NEW h, IsSeq(h), NEW t, IsSeq(t), t # <<>>,
           NEW r, NEW b, NEW p
    PROVE  Load(stages, i, Append(h, Head(t)), Tail(t), r, b, p) = Load(stages, i, h, t, r, b, p)
<1>1. PICK x : x = Head(t)
  OBVIOUS
<1>2. PICK q : q = Tail(t) /\ IsSeq(q)
  BY HeadTail
<1>3. PICK o : o = <<x>> /\ IsSeq(o)
  BY OneIsSeq
<1>4. t = o \o q
  BY <1>1, <1>2, <1>3, HeadTail
<1>5. Append(h, x) = h \o o
  BY <1>3, AppendIs
<1>6. (h \o o) \o q = h \o (o \o q)
  <2>1. IsSeq(o) /\ IsSeq(q)
    BY <1>2, <1>3
  <2> QED BY <2>1, ConcatAssoc
<1> QED BY <1>1, <1>2, <1>4, <1>5, <1>6 DEF Load

\* ... an item is written, ...
LEMMA LoadWrite ==
    ASSUME NEW stages, Piped(stages), NEW i \in 1 .. Len(stages),
           NEW t, ValueSeq(t), t # <<>>, NEW r, NEW b, NEW p, Loaded(<<>>, Tail(t), r, b, p)
    PROVE  /\ IsSeq(Through(stages, i + 1, <<Head(t)>>))
           /\ IsSeq(Load(stages, i, <<>>, Tail(t), r, b, p))
           /\ Load(stages, i, <<>>, t, r, b, p) =
                Through(stages, i + 1, <<Head(t)>>) \o Load(stages, i, <<>>, Tail(t), r, b, p)
<1>1. Len(stages) \in Nat
  BY SeqSize DEF Piped
<1>2. PICK n \in 1 .. Len(stages) + 1 : n = i + 1
  BY <1>1
<1>3. PICK q : q = Tail(t) /\ ValueSeq(q)
  BY FirstOf
<1>4. PICK o : o = <<Head(t)>> /\ ValueSeq(o)
  BY FirstOf, SeqsOfItems
<1>5. t = o \o q
  BY <1>3, <1>4, FirstOf
<1>6. /\ ItemSeq(Through(stages, n, o)) /\ ItemSeq(Through(stages, n, q))
      /\ Through(stages, n, o \o q) = Through(stages, n, o) \o Through(stages, n, q)
  <2>1. ValueSeq(o) /\ ValueSeq(q)
    BY <1>3, <1>4
  <2> QED BY <2>1, ThroughConcat
<1>7. ItemSeq(Through(stages, i, r \o b \o p))
  <2>1. ValueSeq(r) /\ ValueSeq(b) /\ ValueSeq(p)
    BY DEF Loaded
  <2>2. PICK v : v = r \o b \o p /\ ValueSeq(v)
    BY <2>1, SeqsOfItems
  <2>3. i \in 1 .. Len(stages) + 1
    BY <1>1
  <2> QED BY <2>2, <2>3, ThroughConcat
<1>8. PICK O : O = Through(stages, n, o) /\ IsSeq(O)
  BY <1>6 DEF ItemSeq
<1>9. PICK Q : Q = Through(stages, n, q) /\ IsSeq(Q)
  BY <1>6 DEF ItemSeq
<1>10. PICK R : R = Through(stages, i, r \o b \o p) /\ IsSeq(R)
  BY <1>7 DEF ItemSeq
<1>11. <<>> \o t = t /\ <<>> \o q = q
  BY <1>3, ConcatEmpty DEF ValueSeq
<1>12. (O \o Q) \o R = O \o (Q \o R)
  <2>1. IsSeq(O) /\ IsSeq(Q) /\ IsSeq(R)
    BY <1>8, <1>9, <1>10
  <2> QED BY <2>1, ConcatAssoc, SMTT(60)
<1>13. Load(stages, i, <<>>, q, r, b, p) = Q \o R /\ IsSeq(Q \o R)
  BY <1>2, <1>9, <1>10, <1>11, ConcatIsSeq DEF Load
<1>14. Load(stages, i, <<>>, t, r, b, p) = (O \o Q) \o R
  BY <1>2, <1>5, <1>6, <1>8, <1>9, <1>10, <1>11 DEF Load
<1> QED BY <1>2, <1>3, <1>4, <1>8, <1>12, <1>13, <1>14

\* ... and arrives at the next stage, ...
LEMMA LoadArrive ==
    ASSUME NEW stages, Piped(stages), NEW i \in 1 .. Len(stages),
           NEW h, NEW t, NEW r, NEW b, NEW p, Loaded(h, t, r, b, p), NEW x, IsValue(x)
    PROVE  Load(stages, i, h, t, r, b, Append(p, x)) =
             Load(stages, i, h, t, r, b, p) \o Through(stages, i, <<x>>)
<1>1. Len(stages) \in Nat /\ i \in 1 .. Len(stages) + 1
  BY SeqSize DEF Piped
<1>2. PICK n \in 1 .. Len(stages) + 1 : n = i + 1
  BY <1>1
<1>3. PICK o : o = <<x>> /\ ValueSeq(o)
  BY SeqsOfItems
<1>4. PICK v : v = r \o b \o p /\ ValueSeq(v)
  BY SeqsOfItems DEF Loaded
<1>5. r \o b \o Append(p, x) = v \o o
  <2>1. PICK rb : rb = r \o b /\ IsSeq(rb)
    BY ConcatIsSeq DEF Loaded, ValueSeq
  <2>2. Append(p, x) = p \o o
    BY <1>3, AppendIs DEF Loaded, ValueSeq
  <2>3. (rb \o p) \o o = rb \o (p \o o)
    <3>1. IsSeq(rb) /\ IsSeq(p) /\ IsSeq(o)
      BY <1>3, <2>1 DEF Loaded, ValueSeq
    <3> QED BY <3>1, ConcatAssoc, SMTT(60)
  <2> QED BY <1>4, <2>1, <2>2, <2>3
<1>6. /\ ItemSeq(Through(stages, i, v)) /\ ItemSeq(Through(stages, i, o))
      /\ Through(stages, i, v \o o) = Through(stages, i, v) \o Through(stages, i, o)
  <2>1. ValueSeq(v) /\ ValueSeq(o)
    BY <1>3, <1>4
  <2> QED BY <1>1, <2>1, ThroughConcat
<1>7. ItemSeq(Through(stages, n, h \o t))
  <2>1. PICK w : w = h \o t /\ ValueSeq(w)
    BY SeqsOfItems DEF Loaded
  <2> QED BY <2>1, ThroughConcat
<1>8. PICK W : W = Through(stages, n, h \o t) /\ IsSeq(W)
  BY <1>7 DEF ItemSeq
<1>9. PICK V : V = Through(stages, i, v) /\ IsSeq(V)
  BY <1>6 DEF ItemSeq
<1>10. PICK O : O = Through(stages, i, o) /\ IsSeq(O)
  BY <1>6 DEF ItemSeq
<1>11. (W \o V) \o O = W \o (V \o O)
  <2>1. IsSeq(W) /\ IsSeq(V) /\ IsSeq(O)
    BY <1>8, <1>9, <1>10
  <2> QED BY <2>1, ConcatAssoc
<1>12. Load(stages, i, h, t, r, b, p) = W \o V
  BY <1>2, <1>4, <1>8, <1>9 DEF Load
<1>13. Load(stages, i, h, t, r, b, Append(p, x)) = W \o (V \o O)
  BY <1>2, <1>5, <1>6, <1>8, <1>9, <1>10 DEF Load
<1> QED BY <1>3, <1>10, <1>11, <1>12, <1>13

\* ... or a generator makes more.
LEMMA LoadGenerate ==
    ASSUME NEW stages, Piped(stages), NEW i \in 1 .. Len(stages),
           NEW h, ValueSeq(h), NEW t, ValueSeq(t)
    PROVE  Load(stages, i, h, t, <<>>, <<>>, <<>>) =
             Load(stages, i, h, <<>>, <<>>, <<>>, <<>>) \o Through(stages, i + 1, t)
<1>1. Len(stages) \in Nat /\ i \in 1 .. Len(stages) + 1
  BY SeqSize DEF Piped
<1>2. PICK n \in 1 .. Len(stages) + 1 : n = i + 1
  BY <1>1
<1>3. /\ ItemSeq(Through(stages, n, h)) /\ ItemSeq(Through(stages, n, t))
      /\ Through(stages, n, h \o t) = Through(stages, n, h) \o Through(stages, n, t)
  BY ThroughConcat
<1>4. Through(stages, i, <<>> \o <<>> \o <<>>) = <<>>
  <2>1. <<>> \o <<>> \o <<>> = <<>>
    BY EmptyIsSeq, ConcatEmpty
  <2> QED BY <1>1, <2>1, ThroughEmpty
<1>5. h \o <<>> = h
  BY ConcatEmpty DEF ValueSeq
<1>6. PICK H : H = Through(stages, n, h) /\ IsSeq(H)
  BY <1>3 DEF ItemSeq
<1>7. PICK T : T = Through(stages, n, t) /\ IsSeq(T)
  BY <1>3 DEF ItemSeq
<1>8. H \o <<>> = H /\ (H \o T) \o <<>> = H \o T
  <2>1. IsSeq(H) /\ IsSeq(T)
    BY <1>6, <1>7
  <2>2. IsSeq(H \o T)
    BY <2>1, ConcatIsSeq
  <2> QED BY <2>1, <2>2, ConcatEmpty
<1>9. Load(stages, i, h, t, <<>>, <<>>, <<>>) = (H \o T) \o <<>>
  BY <1>2, <1>3, <1>4, <1>6, <1>7 DEF Load
<1>10. Load(stages, i, h, <<>>, <<>>, <<>>, <<>>) = H \o <<>>
  BY <1>2, <1>4, <1>5, <1>6 DEF Load
<1> QED BY <1>2, <1>7, <1>8, <1>9, <1>10

(***************************************************************************)
(* All loads together: that of the last stage arrives first.               *)
(***************************************************************************)
Backwards(load, n) == [k \in 1 .. n |-> load[n + 1 - k]]
Loads(load, n)     == n \in Nat \ {0} /\ \A i \in 1 .. n : IsSeq(load[i])

LEMMA BackwardsIs ==
    ASSUME NEW n, NEW load, Loads(load, n)
    PROVE  /\ IsSeqs(Backwards(load, n)) /\ Len(Backwards(load, n)) = n
           /\ \A k \in 1 .. n : Backwards(load, n)[k] = load[n + 1 - k]
<1>1. PICK s : s = Backwards(load, n)
  OBVIOUS
<1>2. n \in Nat /\ s = [k \in 1 .. n |-> s[k]] /\ \A k \in 1 .. n : s[k] = load[n + 1 - k]
  BY <1>1 DEF Backwards, Loads
<1>3. IsSeq(s) /\ Len(s) = n
  BY <1>2, FunIsSeq
<1>4. \A k \in 1 .. n : n + 1 - k \in 1 .. n
  BY <1>2
<1>5. \A k \in 1 .. n : IsSeq(s[k])
  BY <1>2, <1>4 DEF Loads
<1>6. IsSeqs(s)
  BY <1>3, <1>5 DEF IsSeqs
<1> QED BY <1>1, <1>2, <1>3, <1>6

LEMMA ArriveSame ==
    ASSUME NEW n, NEW old, Loads(old, n), NEW new, Loads(new, n), \A i \in 1 .. n : new[i] = old[i]
    PROVE  FlattenSeq(Backwards(new, n)) = FlattenSeq(Backwards(old, n))
<1>1. \A k \in 1 .. n : n + 1 - k \in 1 .. n
  BY DEF Loads
<1>2. Backwards(new, n) = Backwards(old, n)
  BY <1>1 DEF Backwards
<1> QED BY <1>2

\* The load of the first stage grows.
Gains(n, old, new, x) ==
    /\ Loads(old, n) /\ Loads(new, n) /\ IsSeq(x)
    /\ \A i \in 2 .. n : new[i] = old[i]
    /\ new[1] = old[1] \o x
LEMMA ArriveMore ==
    ASSUME NEW n, NEW old, NEW new, NEW x, Gains(n, old, new, x)
    PROVE  FlattenSeq(Backwards(new, n)) = FlattenSeq(Backwards(old, n)) \o x
<1>1. /\ Loads(old, n) /\ Loads(new, n) /\ IsSeq(x)
      /\ \A i \in 2 .. n : new[i] = old[i]
      /\ new[1] = old[1] \o x
  BY DEF Gains
<1>2. PICK ss : /\ ss = Backwards(old, n) /\ IsSeqs(ss) /\ Len(ss) = n
                /\ \A k \in 1 .. n : ss[k] = old[n + 1 - k]
  BY <1>1, BackwardsIs
<1>3. PICK tt : /\ tt = Backwards(new, n) /\ IsSeqs(tt) /\ Len(tt) = n
                /\ \A k \in 1 .. n : tt[k] = new[n + 1 - k]
  BY <1>1, BackwardsIs
<1>4. n \in Nat /\ n > 0 /\ n \in 1 .. n /\ n + 1 - n = 1
  BY <1>1 DEF Loads
<1>5. \A k \in 1 .. n - 1 : k \in 1 .. n /\ n + 1 - k \in 2 .. n
  BY <1>4
<1>6. \A k \in 1 .. Len(ss) - 1 : tt[k] = ss[k]
  BY <1>1, <1>2, <1>3, <1>5
<1>7. tt[Len(ss)] = ss[Len(ss)] \o x
  BY <1>1, <1>2, <1>3, <1>4
<1>8. LastGrows(ss, tt, x)
  BY <1>1, <1>2, <1>3, <1>4, <1>6, <1>7 DEF LastGrows
<1>9. FlattenSeq(tt) = FlattenSeq(ss) \o x
  BY <1>8, FlatLast
<1> QED BY <1>2, <1>3, <1>9

\* The load of the last stage shrinks.
LEMMA ArriveLess ==
    ASSUME NEW n, NEW old, Loads(old, n), NEW new, Loads(new, n),
           \A i \in 1 .. n - 1 : new[i] = old[i], NEW x, IsSeq(x)
    PROVE  old[n] = x \o new[n]
             => FlattenSeq(Backwards(old, n)) = x \o FlattenSeq(Backwards(new, n))
<1> HAVE old[n] = x \o new[n]
<1>1. PICK ss : /\ ss = Backwards(old, n) /\ IsSeqs(ss) /\ Len(ss) = n
                /\ \A k \in 1 .. n : ss[k] = old[n + 1 - k]
  BY BackwardsIs
<1>2. PICK tt : /\ tt = Backwards(new, n) /\ IsSeqs(tt) /\ Len(tt) = n
                /\ \A k \in 1 .. n : tt[k] = new[n + 1 - k]
  BY BackwardsIs
<1>3. n \in Nat /\ n > 0 /\ 1 \in 1 .. n /\ n + 1 - 1 = n
  BY DEF Loads
<1>4. \A k \in 2 .. n : k \in 1 .. n /\ n + 1 - k \in 1 .. n - 1
  BY <1>3
<1>5. \A k \in 2 .. Len(ss) : ss[k] = tt[k]
  BY <1>1, <1>2, <1>4
<1>6. ss[1] = x \o tt[1]
  BY <1>1, <1>2, <1>3
<1>7. FirstShrinks(ss, tt, x)
  BY <1>1, <1>2, <1>3, <1>5, <1>6 DEF FirstShrinks
<1>8. FlattenSeq(ss) = x \o FlattenSeq(tt)
  BY <1>7, FlatFirst
<1> QED BY <1>1, <1>2, <1>8

\* Something moves from one stage to the next.
LEMMA ArriveNext ==
    ASSUME NEW n, NEW old, Loads(old, n), NEW new, Loads(new, n), NEW i \in 1 .. n - 1,
           \A j \in 1 .. n : j \notin {i, i + 1} => new[j] = old[j]
    PROVE  new[i + 1] \o new[i] = old[i + 1] \o old[i]
             => FlattenSeq(Backwards(new, n)) = FlattenSeq(Backwards(old, n))
<1> HAVE new[i + 1] \o new[i] = old[i + 1] \o old[i]
<1>1. PICK ss : /\ ss = Backwards(old, n) /\ IsSeqs(ss) /\ Len(ss) = n
                /\ \A k \in 1 .. n : ss[k] = old[n + 1 - k]
  BY BackwardsIs
<1>2. PICK tt : /\ tt = Backwards(new, n) /\ IsSeqs(tt) /\ Len(tt) = n
                /\ \A k \in 1 .. n : tt[k] = new[n + 1 - k]
  BY BackwardsIs
<1>3. n \in Nat
  BY DEF Loads
<1>4. PICK m \in 1 .. n - 1 : m = n - i
  BY <1>3
<1>5. /\ m \in 1 .. n /\ m + 1 \in 1 .. n /\ n + 1 - m = i + 1 /\ n + 1 - (m + 1) = i
  BY <1>3, <1>4
<1>6. ss[m] = old[i + 1] /\ tt[m] = new[i + 1] /\ ss[m + 1] = old[i] /\ tt[m + 1] = new[i]
  BY <1>1, <1>2, <1>5
<1>7. ss[m] \o ss[m + 1] = tt[m] \o tt[m + 1]
  BY <1>6
<1>8. \A k \in 1 .. n : k \notin {m, m + 1} => n + 1 - k \in 1 .. n /\ n + 1 - k \notin {i, i + 1}
  BY <1>3, <1>4
<1>9. \A k \in 1 .. Len(ss) : k \notin {m, m + 1} => ss[k] = tt[k]
  <2> SUFFICES ASSUME NEW k \in 1 .. Len(ss), k \notin {m, m + 1} PROVE ss[k] = tt[k]
    OBVIOUS
  <2>1. PICK j : j = n + 1 - k
    OBVIOUS
  <2>2. k \in 1 .. n
    BY <1>1
  <2>3. j \in 1 .. n /\ j \notin {i, i + 1}
    BY <1>8, <2>1, <2>2
  <2>4. ss[k] = old[j] /\ tt[k] = new[j]
    BY <1>1, <1>2, <2>1, <2>2, Zenon
  <2> QED BY <2>3, <2>4
<1>10. FlattenSeq(ss) = FlattenSeq(tt)
  <2>1. IsSeqs(ss) /\ IsSeqs(tt) /\ Len(ss) = Len(tt) /\ m \in 1 .. Len(ss) - 1
    BY <1>1, <1>2, <1>4
  <2> QED BY <2>1, <1>7, <1>9, FlatMove
<1> QED BY <1>1, <1>2, <1>10

LEMMA ArriveNothing ==
    ASSUME NEW n, NEW load, Loads(load, n), \A i \in 1 .. n : load[i] = <<>>
    PROVE  FlattenSeq(Backwards(load, n)) = <<>>
<1>1. PICK ss : /\ ss = Backwards(load, n) /\ IsSeqs(ss) /\ Len(ss) = n
                /\ \A k \in 1 .. n : ss[k] = load[n + 1 - k]
  BY BackwardsIs
<1>2. \A k \in 1 .. n : n + 1 - k \in 1 .. n
  BY DEF Loads
<1>3. \A k \in 1 .. Len(ss) : ss[k] = <<>>
  BY <1>1, <1>2
<1>4. FlattenSeq(ss) = <<>>
  BY <1>1, <1>3, FlatEmpty
<1> QED BY <1>1, <1>4

(***************************************************************************)
(* The state of one stage of command line l: what it holds, and how much.  *)
(***************************************************************************)
Kinds(l, i)   == IF i = 0 THEN {NotBare(e) : e \in ToSet(l.input)} ELSE {Prints(l.stages[i])}
Room(l, i, m) == IF ~(l.stages[i].options.in = "auto") THEN 1 ELSE IF m = Nothing THEN Prefix ELSE Block
Keeping(l, i) == l.stages[i].options.out = "json" /\ ~l.stages[i].options.stream
Contents(l, i, p, b, m, r, t, h, s) ==
    /\ Valued(p, Kinds(l, i - 1)) /\ Valued(b, Kinds(l, i - 1)) /\ Itemed(r, Kinds(l, i - 1))
    /\ Valued(t, Kinds(l, i)) /\ Itemed(h, Kinds(l, i))
    /\ s = Nothing => Itemed(t, Kinds(l, i))
    /\ m = "objects" => TRUE \in Kinds(l, i - 1)
    /\ i = 1 /\ l.generates => r = <<>> /\ b = <<>> /\ p = <<>>
Bounds(l, i, p, b, m, t, h, s) ==
    /\ s \in {Nothing, "closing 0", "closing 1", "0", "1", "killed"}
    /\ m \in {Nothing, "objects", "lines"}
    /\ Len(b) <= Room(l, i, m)
    /\ i > 1 => Len(p) <= Capacity
    /\ h # <<>> => s = Nothing /\ Keeping(l, i)
    /\ s = "0" => t = <<>> /\ h = <<>>

LEMMA LineIs ==
    ASSUME NEW l \in Lines
    PROVE  /\ Piped(l.stages) /\ Len(l.stages) \in Nat \ {0} /\ DOMAIN l.stages = 1 .. Len(l.stages)
           /\ Valued(l.input, Kinds(l, 0)) /\ Itemed(l.input, Kinds(l, 0))
           /\ l.generates => l.input = <<>>
           /\ l.generates \in BOOLEAN
           /\ l.stages[1].options.count # Nothing => l.stages[1].options.count \in Nat
<1>1. /\ IsSeq(l.stages) /\ l.stages # <<>>
      /\ \A i \in DOMAIN l.stages : IsStage(l.stages[i])
      /\ l.generates => l.input = <<>>
      /\ IsSeq(l.input) /\ \A v \in ToSet(l.input) : IsItem(v)
      /\ l.generates \in BOOLEAN
      /\ l.stages[1].options.count # Nothing => l.stages[1].options.count \in Nat
  BY LinesAssumption DEF IsSeq
<1>2. Len(l.stages) \in Nat \ {0} /\ DOMAIN l.stages = 1 .. Len(l.stages)
  BY <1>1, SeqSize
<1>3. Piped(l.stages)
  BY <1>1, <1>2 DEF Piped
<1>4. Itemed(l.input, Kinds(l, 0))
  BY <1>1 DEF Itemed, ItemSeq, Kinds
<1> QED BY <1>1, <1>2, <1>3, <1>4, ItemedIsValued

LEMMA StageIs ==
    ASSUME NEW l \in Lines, NEW i \in 1 .. Len(l.stages)
    PROVE  /\ IsStage(l.stages[i]) /\ Kinds(l, i) = {Prints(l.stages[i])}
<1>1. Len(l.stages) \in Nat /\ i # 0
  BY LineIs
<1> QED BY <1>1, LineIs DEF Piped, Kinds

\* What a step does to the contents of the stage that takes it.
LEMMA FetchHolds ==
    ASSUME NEW l, NEW i, NEW p, NEW b, NEW m, NEW r, NEW t, NEW h, NEW s,
           Contents(l, i, p, b, m, r, t, h, s), p # <<>>
    PROVE  Contents(l, i, Tail(p), Append(b, Head(p)), m, r, t, h, s)
<1>1. PICK K : K = Kinds(l, i - 1) /\ Valued(p, K) /\ Valued(b, K)
  BY DEF Contents
<1>2. Valued(Tail(p), K) /\ Valued(<<Head(p)>>, K)
  BY <1>1, KindsRest
<1>3. Append(b, Head(p)) = b \o <<Head(p)>>
  BY <1>1, AppendIs DEF Valued, ValueSeq
<1>4. Valued(b \o <<Head(p)>>, K)
  <2>1. PICK o : o = <<Head(p)>> /\ Valued(o, K)
    BY <1>2
  <2>2. Valued(b \o o, K)
    BY <1>1, <2>1, KindsAre
  <2> QED BY <2>1, <2>2
<1>5. Valued(Append(b, Head(p)), K)
  BY <1>3, <1>4
<1>6. ~(i = 1 /\ l.generates)
  BY DEF Contents
<1> QED BY <1>1, <1>2, <1>5, <1>6 DEF Contents

LEMMA ReleaseHolds ==
    ASSUME NEW l, NEW i, NEW p, NEW b, NEW m, NEW r, NEW t, NEW h, NEW s,
           Contents(l, i, p, b, m, r, t, h, s), b # <<>>,
           NEW mm, mm = IF m # Nothing THEN m ELSE IF NotBare(Head(Items(b))) THEN "objects" ELSE "lines"
    PROVE  Contents(l, i, p, <<>>, mm, Items(b), t, h, s)
<1>1. PICK K : K = Kinds(l, i - 1) /\ Valued(b, K)
  BY DEF Contents
<1>2. PICK rr : rr = Items(b) /\ Itemed(rr, K)
  BY <1>1, KindsUnpacked
<1>3. rr # <<>>
  <2>1. PICK v : v = Head(b) /\ IsValue(v) /\ ValueSeq(Tail(b)) /\ b = <<v>> \o Tail(b)
    BY <1>1, FirstOf DEF Valued
  <2>2. Items(b) = Items(<<v>>) \o Items(Tail(b))
    <3>1. PICK o : o = <<v>> /\ ValueSeq(o)
      BY <2>1, SeqsOfItems
    <3>2. PICK q : q = Tail(b) /\ ValueSeq(q)
      BY <2>1
    <3>3. Items(o \o q) = Items(o) \o Items(q)
      <4>1. ValueSeq(o) /\ ValueSeq(q)
        BY <3>1, <3>2
      <4> QED BY <4>1, ItemsConcat
    <3> QED BY <2>1, <3>1, <3>2, <3>3
  <2>3. Items(<<v>>) = Unpacked(v) /\ IsSeq(Unpacked(v)) /\ Unpacked(v) # <<>>
    BY <2>1, ItemsOne DEF IsValue, ItemSeq
  <2>4. IsSeq(Items(Tail(b)))
    BY <2>1, ItemsAre DEF ItemSeq
  <2>5. PICK u : u = Unpacked(v) /\ IsSeq(u) /\ Len(u) > 0 /\ Len(u) \in Nat
    BY <2>3, SeqSize
  <2>6. PICK w : w = Items(Tail(b)) /\ IsSeq(w) /\ Len(w) \in Nat
    BY <2>4, SeqSize
  <2>7. Len(u \o w) = Len(u) + Len(w)
    <3>1. IsSeq(u) /\ IsSeq(w)
      BY <2>5, <2>6
    <3> QED BY <3>1, ConcatIsSeq
  <2>8. Len(u \o w) # 0
    BY <2>5, <2>6, <2>7
  <2>9. u \o w # <<>>
    BY <2>8, EmptyIsSeq
  <2> QED BY <1>2, <2>2, <2>3, <2>5, <2>6, <2>9
<1>4. NotBare(Head(rr)) \in K
  BY <1>2, <1>3, KindsRest
<1>5. mm = "objects" => TRUE \in K
  <2>1. CASE m # Nothing
    BY <2>1, <1>1 DEF Contents
  <2>2. CASE m = Nothing /\ NotBare(Head(rr))
    <3>1. NotBare(Head(rr)) = TRUE
      BY <2>2 DEF NotBare
    <3> QED BY <3>1, <1>4
  <2>3. CASE m = Nothing /\ ~NotBare(Head(rr))
    BY <2>3, <1>2
  <2> QED BY <2>1, <2>2, <2>3
<1>6. ~(i = 1 /\ l.generates) /\ Valued(<<>>, K)
  BY KindsAre DEF Contents
<1> QED BY <1>1, <1>2, <1>5, <1>6 DEF Contents

LEMMA HandleHolds ==
    ASSUME NEW l \in Lines, NEW i \in 1 .. Len(l.stages),
           NEW p, NEW b, NEW m, NEW r, NEW t, NEW h, NEW s,
           Contents(l, i, p, b, m, r, t, h, s), r # <<>>
    PROVE  LET made == RunCommand(l.stages[i], Head(r)) IN
           /\ made.ok \in BOOLEAN
           /\ Contents(l, i, p, b, m, Tail(r), made.objects, h, s)
<1>1. PICK K : K = Kinds(l, i - 1) /\ Itemed(r, K)
  BY DEF Contents
<1>2. Itemed(Tail(r), K) /\ IsItem(Head(r))
  BY <1>1, KindsRest
<1>3. PICK made : made = RunCommand(l.stages[i], Head(r))
  OBVIOUS
<1>4. /\ made.ok \in BOOLEAN /\ ItemSeq(made.objects)
      /\ \A v \in ToSet(made.objects) : NotBare(v) = Prints(l.stages[i])
  BY <1>2, <1>3, StageIs, RunMakes
<1>5. Itemed(made.objects, Kinds(l, i))
  BY <1>4, StageIs DEF Itemed
<1>6. Valued(made.objects, Kinds(l, i))
  BY <1>5, ItemedIsValued
<1>7. ~(i = 1 /\ l.generates)
  BY DEF Contents
<1>8. Contents(l, i, p, b, m, Tail(r), made.objects, h, s)
  BY <1>1, <1>2, <1>5, <1>6, <1>7 DEF Contents
<1> QED BY <1>3, <1>4, <1>8

LEMMA GenerateHolds ==
    ASSUME NEW l \in Lines, NEW i \in 1 .. Len(l.stages),
           NEW p, NEW b, NEW m, NEW r, NEW t, NEW h, NEW s,
           Contents(l, i, p, b, m, r, t, h, s), NEW objects \in Drawn(l.stages[i])
    PROVE  Contents(l, i, p, b, m, r, objects, h, s)
<1>1. /\ ItemSeq(objects) /\ \A v \in ToSet(objects) : NotBare(v) = Prints(l.stages[i])
  BY StageIs, DrawnMakes
<1>2. Itemed(objects, Kinds(l, i))
  BY <1>1, StageIs DEF Itemed
<1>3. Valued(objects, Kinds(l, i))
  BY <1>2, ItemedIsValued
<1> QED BY <1>2, <1>3 DEF Contents

LEMMA CloseHolds ==
    ASSUME NEW l, NEW i, NEW p, NEW b, NEW m, NEW r, NEW t, NEW h, NEW s,
           Contents(l, i, p, b, m, r, t, h, s), NEW rest, rest \in {r, Tail(r)}, rest # r => r # <<>>,
           NEW end, end # Nothing, NEW tt, tt = IF Len(h) > 1 THEN <<Array(h)>> ELSE h
    PROVE  Contents(l, i, p, b, m, rest, tt, <<>>, end)
<1>1. PICK K : K = Kinds(l, i - 1) /\ Itemed(r, K)
  BY DEF Contents
<1>2. Itemed(rest, K) /\ (rest # r => ~(i = 1 /\ l.generates))
  BY <1>1, KindsRest DEF Contents
<1>3. PICK k : k = Kinds(l, i) /\ Itemed(h, k)
  BY DEF Contents
<1>4. Valued(tt, k)
  <2>1. CASE Len(h) > 1
    <3>1. h # <<>>
      BY <2>1, EmptyIsSeq
    <3> QED BY <2>1, <3>1, <1>3, KindsPacked
  <2>2. CASE ~(Len(h) > 1)
    BY <2>2, <1>3, ItemedIsValued
  <2> QED BY <2>1, <2>2
<1>5. Itemed(<<>>, k)
  BY KindsAre
<1> QED BY <1>1, <1>2, <1>3, <1>4, <1>5 DEF Contents

LEMMA KeepHolds ==
    ASSUME NEW l, NEW i, NEW p, NEW b, NEW m, NEW r, NEW t, NEW h, NEW s,
           Contents(l, i, p, b, m, r, t, h, s), t # <<>>
    PROVE  /\ Contents(l, i, p, b, m, r, Tail(t), h, s)
           /\ s = Nothing => Contents(l, i, p, b, m, r, Tail(t), Append(h, Head(t)), s)
<1>1. PICK K : K = Kinds(l, i) /\ Valued(t, K) /\ Itemed(h, K) /\ (s = Nothing => Itemed(t, K))
  BY DEF Contents
<1>2. Valued(Tail(t), K) /\ (s = Nothing => Itemed(Tail(t), K) /\ Itemed(<<Head(t)>>, K))
  BY <1>1, KindsRest
<1>3. Contents(l, i, p, b, m, r, Tail(t), h, s)
  BY <1>1, <1>2 DEF Contents
<1>4. ASSUME s = Nothing PROVE Itemed(Append(h, Head(t)), K)
  <2>1. PICK o : o = <<Head(t)>> /\ Itemed(o, K)
    BY <1>2, <1>4
  <2>2. Append(h, Head(t)) = h \o o
    BY <1>1, <2>1, AppendIs DEF Itemed, ItemSeq
  <2>3. Itemed(h \o o, K)
    BY <1>1, <2>1, KindsAre
  <2> QED BY <2>2, <2>3
<1> QED BY <1>1, <1>3, <1>4 DEF Contents

LEMMA ArriveHolds ==
    ASSUME NEW l, NEW i, NEW p, NEW b, NEW m, NEW r, NEW t, NEW h, NEW s,
           Contents(l, i, p, b, m, r, t, h, s), i # 1, NEW x, Valued(<<x>>, Kinds(l, i - 1))
    PROVE  Contents(l, i, Append(p, x), b, m, r, t, h, s)
<1>1. PICK K : K = Kinds(l, i - 1) /\ Valued(p, K)
  BY DEF Contents
<1>2. PICK o : o = <<x>> /\ Valued(o, K)
  BY <1>1
<1>3. Append(p, x) = p \o o
  BY <1>1, <1>2, AppendIs DEF Valued, ValueSeq
<1>4. Valued(p \o o, K)
  BY <1>1, <1>2, KindsAre
<1> QED BY <1>1, <1>3, <1>4 DEF Contents

LEMMA EndHolds ==
    ASSUME NEW l, NEW i, NEW p, NEW b, NEW m, NEW r, NEW t, NEW h, NEW s,
           Contents(l, i, p, b, m, r, t, h, s), NEW end, end # Nothing
    PROVE  Contents(l, i, p, b, m, r, t, h, end)
BY DEF Contents

LEMMA HoldsLoaded ==
    ASSUME NEW l, NEW i, NEW p, NEW b, NEW m, NEW r, NEW t, NEW h, NEW s,
           Contents(l, i, p, b, m, r, t, h, s)
    PROVE  Loaded(h, t, r, b, p) /\ ItemSeq(h) /\ ItemSeq(r) /\ (s = Nothing => ItemSeq(t))
<1>1. ItemSeq(h) /\ ItemSeq(r) /\ ValueSeq(t) /\ ValueSeq(b) /\ ValueSeq(p) /\ (s = Nothing => ItemSeq(t))
  BY DEF Contents, Valued, Itemed
<1> QED BY <1>1, SeqsOfItems DEF Loaded

(***************************************************************************)
(* The inductive invariant.                                                *)
(***************************************************************************)
IsFcn(f, D) == f = [x \in D |-> f[x]]

\* The variables are functions of the stages and of the pipes between them.
Shape ==
    /\ line \in Lines /\ stop \in BOOLEAN /\ count \in Nat
    /\ IsFcn(pipe, 0 .. LastOf - 1) /\ IsFcn(buffer, Stages) /\ IsFcn(mode, Stages)
    /\ IsFcn(ready, Stages) /\ IsFcn(todo, Stages) /\ IsFcn(held, Stages) /\ IsFcn(status, Stages)

\* What a stage and its pipe hold is of a kind that the stage before may make,
\* and no more than fits.
Holds(i) == Contents(line, i, pipe[i - 1], buffer[i], mode[i], ready[i], todo[i], held[i], status[i])
Within(i)  == Bounds(line, i, pipe[i - 1], buffer[i], mode[i], todo[i], held[i], status[i])
\* A stage that is done has seen all of its input.
Done(i)  == (i > 1 \/ ~Mixed) /\ status[i] \in {"closing 0", "0"} =>
                ready[i] = <<>> /\ buffer[i] = <<>> /\ Eof(i)

\* As long as no stage has failed everything is on its way that is owed.
Fails(i)  == status[i] \in {"closing 1", "1", "killed"}
NoFailure == \A i \in Stages : ~Fails(i)
Conserved == ~Mixed /\ NoFailure => owed = Flying

IInv == Shape /\ (\A i \in Stages : Holds(i) /\ Within(i) /\ Done(i)) /\ Conserved

\* What a change at one place leaves alone.
Only(f, g, D, i) == IsFcn(g, D) /\ \A j \in D : j # i => g[j] = f[j]

LEMMA UpdateOnly ==
    ASSUME NEW D, NEW f, IsFcn(f, D), NEW i
    PROVE  /\ Only(f, f, D, i)
           /\ \A e : Only(f, [f EXCEPT ![i] = e], D, i) /\ (i \in D => [f EXCEPT ![i] = e][i] = e)
<1>1. DOMAIN f = D
  BY DEF IsFcn
<1>2. Only(f, f, D, i)
  BY DEF Only
<1>3. ASSUME NEW e
      PROVE  Only(f, [f EXCEPT ![i] = e], D, i) /\ (i \in D => [f EXCEPT ![i] = e][i] = e)
  <2>1. PICK g : g = [f EXCEPT ![i] = e]
    OBVIOUS
  <2>2. g = [x \in D |-> IF x = i THEN e ELSE f[x]]
    BY <1>1, <2>1
  <2>3. g = [x \in D |-> g[x]] /\ \A j \in D : g[j] = IF j = i THEN e ELSE f[j]
    BY <2>2
  <2> QED BY <2>1, <2>3 DEF Only, IsFcn
<1> QED BY <1>2, <1>3

\* A step of stage i, which has not ended, changes this stage and its pipes.
Acts(i) ==
    /\ i \in Stages /\ Alive(i)
    /\ line' = line /\ stop' = stop /\ count' \in Nat
    /\ IsFcn(pipe', 0 .. LastOf - 1)
    /\ \A k \in 0 .. LastOf - 1 : k \notin {i - 1, i} => pipe'[k] = pipe[k]
    /\ Only(buffer, buffer', Stages, i) /\ Only(mode, mode', Stages, i)
    /\ Only(ready, ready', Stages, i) /\ Only(todo, todo', Stages, i)
    /\ Only(held, held', Stages, i) /\ Only(status, status', Stages, i)

LEMMA StagesAre ==
    ASSUME line \in Lines
    PROVE  /\ LastOf \in Nat \ {0} /\ Stages = 1 .. LastOf /\ Piped(line.stages)
           /\ Len(line.stages) = LastOf
BY LineIs DEF LastOf, Stages

LEMMA ActsShape ==
    ASSUME Shape, NEW i, Acts(i)
    PROVE  Shape' /\ LastOf' = LastOf /\ Stages' = Stages /\ Mixed' = Mixed
<1>1. LastOf' = LastOf /\ Stages' = Stages /\ Mixed' = Mixed
  BY DEF Acts, LastOf, Stages, Mixed
<1>2. /\ line' \in Lines /\ stop' \in BOOLEAN /\ count' \in Nat
      /\ IsFcn(pipe', 0 .. LastOf - 1) /\ IsFcn(buffer', Stages) /\ IsFcn(mode', Stages)
      /\ IsFcn(ready', Stages) /\ IsFcn(todo', Stages) /\ IsFcn(held', Stages) /\ IsFcn(status', Stages)
  BY DEF Shape, Acts, Only
<1> QED BY <1>1, <1>2 DEF Shape

\* The other stages: what they hold has not changed, but for what may have
\* come on the pipe of the next one.
LEMMA ActsElsewhere ==
    ASSUME Shape, NEW i, Acts(i), NEW j \in Stages, j # i,
           Holds(j) /\ Within(j) /\ Done(j)
    PROVE  /\ Done(j)'
           /\ j # i + 1 \/ pipe'[i] = pipe[i] => Holds(j)' /\ Within(j)'
<1>1. LastOf \in Nat \ {0} /\ Stages = 1 .. LastOf
  BY StagesAre DEF Shape
<1>2. j - 1 \in 0 .. LastOf - 1 /\ j - 1 # i - 1 /\ (j - 1 = i => j = i + 1) /\ i \in 1 .. LastOf
  BY <1>1 DEF Acts
<1>3. /\ buffer'[j] = buffer[j] /\ mode'[j] = mode[j] /\ ready'[j] = ready[j]
      /\ todo'[j] = todo[j] /\ held'[j] = held[j] /\ status'[j] = status[j]
      /\ line' = line /\ LastOf' = LastOf /\ Stages' = Stages /\ Mixed' = Mixed
  BY ActsShape DEF Acts, Only
<1>4. j - 1 # i => pipe'[j - 1] = pipe[j - 1]
  BY <1>2 DEF Acts
<1>5. j # i + 1 \/ pipe'[i] = pipe[i] => Holds(j)' /\ Within(j)'
  <2>1. j # i + 1 \/ pipe'[i] = pipe[i] => pipe'[j - 1] = pipe[j - 1]
    BY <1>2, <1>4
  <2> QED BY <1>3, <2>1 DEF Holds, Within
<1>6. Done(j)'
  <2>1. SUFFICES ASSUME j > 1 \/ ~Mixed, status[j] \in {"closing 0", "0"}
                 PROVE  ready'[j] = <<>> /\ buffer'[j] = <<>> /\ Eof(j)'
    BY <1>3 DEF Done
  <2>2. ready[j] = <<>> /\ buffer[j] = <<>> /\ Eof(j)
    BY <2>1 DEF Done
  <2>3. j - 1 # i
    BY <2>2 DEF Acts, Eof, Ended
  <2>4. \A k \in Stages : k = j - 1 => status'[k] = status[k]
    BY <2>3 DEF Acts, Only
  <2>5. Eof(j)'
    BY <1>3, <1>4, <2>2, <2>3, <2>4 DEF Eof, Ended, Alive
  <2> QED BY <1>3, <2>2, <2>5
<1> QED BY <1>5, <1>6

\* All that is on its way, as a sequence of loads.
LoadsOf(l, P, B, R, T, H) ==
    [j \in 1 .. Len(l.stages) |-> Load(l.stages, j, H[j], T[j], R[j], B[j], P[j - 1])]

LEMMA FlyingIs ==
    ASSUME line \in Lines
    PROVE  Flying = FlattenSeq(Backwards(LoadsOf(line, pipe, buffer, ready, todo, held), LastOf))
<1>1. LastOf \in Nat \ {0} /\ Stages = 1 .. LastOf /\ Len(line.stages) = LastOf
  BY StagesAre
<1>2. \A n \in 1 .. LastOf : LastOf + 1 - n \in 1 .. LastOf
  BY <1>1
<1>3. [n \in Stages |-> At(LastOf + 1 - n)]
        = Backwards(LoadsOf(line, pipe, buffer, ready, todo, held), LastOf)
  BY <1>1, <1>2 DEF At, From, Load, LoadsOf, Backwards
<1> QED BY <1>3 DEF Flying

LEMMA FlyingNext ==
    ASSUME line \in Lines, line' = line
    PROVE  Flying' = FlattenSeq(Backwards(LoadsOf(line, pipe', buffer', ready', todo', held'), LastOf))
<1>1. LastOf \in Nat \ {0} /\ Stages = 1 .. LastOf /\ Len(line.stages) = LastOf
  BY StagesAre
<1>2. \A n \in 1 .. LastOf : LastOf + 1 - n \in 1 .. LastOf
  BY <1>1
<1>3. LastOf' = LastOf /\ Stages' = Stages
  BY DEF LastOf, Stages
<1>4. [n \in Stages |-> At(LastOf + 1 - n)]'
        = Backwards(LoadsOf(line, pipe', buffer', ready', todo', held'), LastOf)
  BY <1>1, <1>2, <1>3 DEF At, From, Load, LoadsOf, Backwards
<1> QED BY <1>4 DEF Flying

AllHold(l, P, B, M, R, T, H, S) ==
    \A j \in 1 .. Len(l.stages) : Contents(l, j, P[j - 1], B[j], M[j], R[j], T[j], H[j], S[j])
LEMMA LoadsAre ==
    ASSUME NEW l \in Lines, NEW P, NEW B, NEW M, NEW R, NEW T, NEW H, NEW S,
           AllHold(l, P, B, M, R, T, H, S)
    PROVE  /\ Loads(LoadsOf(l, P, B, R, T, H), Len(l.stages))
           /\ \A j \in 1 .. Len(l.stages) : LoadsOf(l, P, B, R, T, H)[j] =
                 Load(l.stages, j, H[j], T[j], R[j], B[j], P[j - 1])
<1>1. Len(l.stages) \in Nat \ {0} /\ Piped(l.stages)
  BY LineIs
<1>2. \A j \in 1 .. Len(l.stages) : LoadsOf(l, P, B, R, T, H)[j] =
          Load(l.stages, j, H[j], T[j], R[j], B[j], P[j - 1])
  BY DEF LoadsOf
<1>3. ASSUME NEW j \in 1 .. Len(l.stages)
      PROVE  IsSeq(Load(l.stages, j, H[j], T[j], R[j], B[j], P[j - 1]))
  <2>1. Loaded(H[j], T[j], R[j], B[j], P[j - 1])
    BY <1>3, HoldsLoaded DEF AllHold
  <2> QED BY <1>1, <2>1, LoadSplit
<1> QED BY <1>1, <1>2, <1>3 DEF Loads

LEMMA HoldsLoads ==
    ASSUME Shape, \A j \in Stages : Holds(j)
    PROVE  /\ Loads(LoadsOf(line, pipe, buffer, ready, todo, held), LastOf)
           /\ \A j \in Stages : LoadsOf(line, pipe, buffer, ready, todo, held)[j] =
                 Load(line.stages, j, held[j], todo[j], ready[j], buffer[j], pipe[j - 1])
<1>1. line \in Lines /\ Stages = 1 .. Len(line.stages) /\ LastOf = Len(line.stages)
  BY StagesAre DEF Shape
<1>2. AllHold(line, pipe, buffer, mode, ready, todo, held, status)
  BY <1>1 DEF Holds, AllHold
<1> QED BY <1>1, <1>2, LoadsAre

LEMMA HoldsLoadsNext ==
    ASSUME Shape, line' = line, \A j \in Stages : Holds(j)'
    PROVE  /\ Loads(LoadsOf(line, pipe', buffer', ready', todo', held'), LastOf)
           /\ \A j \in Stages : LoadsOf(line, pipe', buffer', ready', todo', held')[j] =
                 Load(line.stages, j, held'[j], todo'[j], ready'[j], buffer'[j], pipe'[j - 1])
<1>1. line \in Lines /\ Stages = 1 .. Len(line.stages) /\ LastOf = Len(line.stages)
  BY StagesAre DEF Shape
<1>2. AllHold(line, pipe', buffer', mode', ready', todo', held', status')
  BY <1>1 DEF Holds, AllHold
<1> QED BY <1>1, <1>2, LoadsAre

LEMMA NoFailureBefore ==
    ASSUME Shape, NEW i, Acts(i), Fails(i) => Fails(i)', NoFailure', Conserved, ~Mixed'
    PROVE  owed = Flying
<1>1. Stages' = Stages /\ Mixed' = Mixed
  BY ActsShape
<1>2. ASSUME NEW j \in Stages PROVE ~Fails(j)
  <2>1. ~Fails(j)'
    BY <1>1 DEF NoFailure
  <2>2. j # i => status'[j] = status[j]
    BY DEF Acts, Only
  <2> QED BY <2>1, <2>2 DEF Fails
<1> QED BY <1>1, <1>2 DEF Conserved, NoFailure

LEMMA ConserveFailed ==
    ASSUME Shape, NEW i, Acts(i), Fails(i)'
    PROVE  Conserved'
<1>1. Stages' = Stages /\ i \in Stages
  BY ActsShape DEF Acts
<1>2. ~NoFailure'
  BY <1>1 DEF NoFailure
<1> QED BY <1>2 DEF Conserved

Here(i)  == Load(line.stages, i, held[i], todo[i], ready[i], buffer[i], pipe[i - 1])
Stays(i) == i \in 0 .. LastOf - 1 => pipe'[i] = pipe[i]

LEMMA HereAlone ==
    ASSUME Shape, NEW i, Acts(i), \A j \in Stages : Holds(j), \A j \in Stages : Holds(j)'
    PROVE  \A j \in Stages : j # i /\ (j # i + 1 \/ Stays(i)) => Here(j)' = Here(j)
<1>1. LastOf \in Nat \ {0} /\ Stages = 1 .. LastOf
  BY StagesAre DEF Shape
<1>2. TAKE j \in Stages
<1>3. HAVE j # i /\ (j # i + 1 \/ Stays(i))
<1>4. i \in 1 .. LastOf
  BY <1>1 DEF Acts
<1>5. j - 1 \in 0 .. LastOf - 1 /\ j - 1 # i - 1
  BY <1>1, <1>2, <1>3, <1>4
<1>6. pipe'[j - 1] = pipe[j - 1]
  <2>1. CASE j - 1 = i
    BY <2>1, <1>1, <1>2, <1>3, <1>4, <1>5 DEF Stays
  <2>2. CASE j - 1 # i
    BY <2>2, <1>5 DEF Acts
  <2> QED BY <2>1, <2>2
<1>7. /\ buffer'[j] = buffer[j] /\ ready'[j] = ready[j]
      /\ todo'[j] = todo[j] /\ held'[j] = held[j] /\ line' = line
  BY <1>2, <1>3 DEF Acts, Only
<1> QED BY <1>6, <1>7 DEF Here

LEMMA ConserveSame ==
    ASSUME Shape, NEW i, Acts(i), \A j \in Stages : Holds(j), \A j \in Stages : Holds(j)', Conserved,
           owed' = owed, Fails(i) => Fails(i)', Stays(i), Here(i)' = Here(i)
    PROVE  Conserved'
<1>1. SUFFICES ASSUME ~Mixed', NoFailure' PROVE owed' = Flying'
  BY DEF Conserved
<1>2. owed = Flying
  BY <1>1, NoFailureBefore
<1>3. line \in Lines /\ line' = line /\ Stages = 1 .. LastOf
  BY StagesAre DEF Shape, Acts
<1>4. \A j \in Stages : Here(j)' = Here(j)
  BY HereAlone
<1>5. PICK old : /\ old = LoadsOf(line, pipe, buffer, ready, todo, held) /\ Loads(old, LastOf)
                 /\ \A j \in Stages : old[j] = Here(j)
  BY HoldsLoads DEF Here
<1>6. PICK new : /\ new = LoadsOf(line, pipe', buffer', ready', todo', held') /\ Loads(new, LastOf)
                 /\ \A j \in Stages : new[j] = Here(j)'
  BY <1>3, HoldsLoadsNext DEF Here
<1>7. \A j \in 1 .. LastOf : new[j] = old[j]
  BY <1>3, <1>4, <1>5, <1>6
<1>8. FlattenSeq(Backwards(new, LastOf)) = FlattenSeq(Backwards(old, LastOf))
  <2>1. PICK n : n = LastOf
    OBVIOUS
  <2>2. Loads(old, n) /\ Loads(new, n) /\ \A j \in 1 .. n : new[j] = old[j]
    BY <1>5, <1>6, <1>7, <2>1
  <2>3. FlattenSeq(Backwards(new, n)) = FlattenSeq(Backwards(old, n))
    BY <2>2, ArriveSame
  <2> QED BY <2>1, <2>3
<1> QED BY <1>2, <1>3, <1>5, <1>6, <1>8, FlyingIs, FlyingNext

\* A step that leaves the next stage alone.
Quiet(i) == /\ Acts(i) /\ Stays(i)
            /\ Holds(i)' /\ Within(i)' /\ Done(i)'

LEMMA QuietRest ==
    ASSUME IInv, NEW i, Quiet(i)
    PROVE  /\ Shape' /\ Stages' = Stages
           /\ \A j \in Stages : Holds(j)' /\ Within(j)' /\ Done(j)'
<1>1. Shape /\ Acts(i) /\ Stays(i) /\ LastOf \in Nat \ {0} /\ Stages = 1 .. LastOf
  BY StagesAre DEF IInv, Shape, Quiet
<1>2. Shape' /\ Stages' = Stages
  BY <1>1, ActsShape
<1>3. ASSUME NEW j \in Stages PROVE Holds(j)' /\ Within(j)' /\ Done(j)'
  <2>1. CASE j = i
    BY <2>1 DEF Quiet
  <2>2. CASE j # i
    <3>1. j = i + 1 => i \in 0 .. LastOf - 1
      BY <1>1, <1>3 DEF Acts
    <3>2. j # i + 1 \/ pipe'[i] = pipe[i]
      BY <1>1, <3>1 DEF Stays
    <3>3. Holds(j) /\ Within(j) /\ Done(j)
      BY <1>3 DEF IInv
    <3> QED BY <1>1, <1>3, <2>2, <3>2, <3>3, ActsElsewhere
  <2> QED BY <2>1, <2>2
<1> QED BY <1>2, <1>3

LEMMA QuietStep ==
    ASSUME IInv, NEW i, Quiet(i),
           \/ Fails(i)'
           \/ owed' = owed /\ ~Fails(i) /\ Here(i)' = Here(i)
    PROVE  IInv'
<1>1. /\ Shape /\ Acts(i) /\ Stays(i) /\ Conserved /\ \A j \in Stages : Holds(j)
  BY DEF IInv, Quiet
<1>2. /\ Shape' /\ Stages' = Stages
      /\ \A j \in Stages : Holds(j)' /\ Within(j)' /\ Done(j)'
  BY QuietRest
<1>3. Conserved'
  <2>1. CASE Fails(i)'
    BY <1>1, <2>1, ConserveFailed
  <2>2. CASE owed' = owed /\ ~Fails(i) /\ Here(i)' = Here(i)
    BY <1>1, <1>2, <2>2, ConserveSame
  <2> QED BY <2>1, <2>2
<1> QED BY <1>2, <1>3 DEF IInv

(***************************************************************************)
(* The steps of a stage that its neighbours do not see.                    *)
(***************************************************************************)
LEMMA Base ==
    ASSUME IInv, NEW i \in Stages
    PROVE  /\ Shape /\ Holds(i) /\ Within(i) /\ Done(i)
           /\ line \in Lines /\ LastOf \in Nat \ {0} /\ Stages = 1 .. LastOf
           /\ i \in 1 .. LastOf /\ i - 1 \in 0 .. LastOf - 1 /\ i # i - 1
           /\ Piped(line.stages) /\ Len(line.stages) = LastOf
           /\ Loaded(held[i], todo[i], ready[i], buffer[i], pipe[i - 1])
           /\ ItemSeq(held[i]) /\ ItemSeq(ready[i]) /\ (Running(i) => ItemSeq(todo[i]))
           /\ Len(todo[i]) \in Nat
<1>1. Shape /\ Holds(i) /\ Within(i) /\ Done(i)
  BY DEF IInv
<1>2. line \in Lines /\ LastOf \in Nat \ {0} /\ Stages = 1 .. LastOf
      /\ Piped(line.stages) /\ Len(line.stages) = LastOf
  BY <1>1, StagesAre DEF Shape
<1>3. i \in 1 .. LastOf /\ i - 1 \in 0 .. LastOf - 1 /\ i # i - 1
  BY <1>2
<1>4. Loaded(held[i], todo[i], ready[i], buffer[i], pipe[i - 1])
      /\ ItemSeq(held[i]) /\ ItemSeq(ready[i]) /\ (Running(i) => ItemSeq(todo[i]))
  BY <1>1, HoldsLoaded DEF Holds, Running
<1>5. ValueSeq(todo[i])
  BY <1>4 DEF Loaded
<1>6. Len(todo[i]) \in Nat
  BY <1>5, SeqSize DEF ValueSeq
<1> QED BY <1>1, <1>2, <1>3, <1>4, <1>6

\* The places that a step may change: those of its stage, and one pipe.
Touches(i, k) ==
    /\ line' = line /\ stop' = stop /\ count' \in Nat
    /\ Only(pipe, pipe', 0 .. LastOf - 1, k)
    /\ Only(buffer, buffer', Stages, i) /\ Only(mode, mode', Stages, i)
    /\ Only(ready, ready', Stages, i) /\ Only(todo, todo', Stages, i)
    /\ Only(held, held', Stages, i) /\ Only(status, status', Stages, i)

LEMMA TouchesActs ==
    ASSUME Shape, NEW i \in Stages, Alive(i), NEW k \in {i - 1, i}, Touches(i, k)
    PROVE  Acts(i) /\ (k = i - 1 => Stays(i))
<1>1. i - 1 # i
  BY StagesAre DEF Shape
<1> QED BY <1>1 DEF Acts, Touches, Only, Stays

\* What an assignment at one place does to a variable.
Sets(f, g, i, e) == g = [f EXCEPT ![i] = e]
LEMMA Assigns ==
    ASSUME NEW D, NEW f, IsFcn(f, D), NEW i \in D, NEW g, NEW e, Sets(f, g, i, e)
    PROVE  Only(f, g, D, i) /\ g[i] = e
BY UpdateOnly DEF Sets

LEMMA Functions ==
    ASSUME Shape, NEW i \in Stages
    PROVE  /\ IsFcn(pipe, 0 .. LastOf - 1) /\ IsFcn(buffer, Stages) /\ IsFcn(mode, Stages)
           /\ IsFcn(ready, Stages) /\ IsFcn(todo, Stages) /\ IsFcn(held, Stages) /\ IsFcn(status, Stages)
           /\ Only(pipe, pipe, 0 .. LastOf - 1, i) /\ Only(pipe, pipe, 0 .. LastOf - 1, i - 1)
           /\ Only(buffer, buffer, Stages, i) /\ Only(mode, mode, Stages, i)
           /\ Only(ready, ready, Stages, i) /\ Only(todo, todo, Stages, i)
           /\ Only(held, held, Stages, i) /\ Only(status, status, Stages, i)
<1>1. /\ IsFcn(pipe, 0 .. LastOf - 1) /\ IsFcn(buffer, Stages) /\ IsFcn(mode, Stages)
      /\ IsFcn(ready, Stages) /\ IsFcn(todo, Stages) /\ IsFcn(held, Stages) /\ IsFcn(status, Stages)
  BY DEF Shape
<1> QED BY <1>1 DEF Only

LEMMA FetchKeeps ==
    ASSUME IInv, NEW i \in Stages, Fetch(i), Owes(i)
    PROVE  IInv'
<1>1. /\ Shape /\ Holds(i) /\ Within(i) /\ Done(i) /\ i - 1 \in 0 .. LastOf - 1
      /\ Loaded(held[i], todo[i], ready[i], buffer[i], pipe[i - 1]) /\ Len(todo[i]) \in Nat
  BY Base
<1>2. /\ pipe[i - 1] # <<>> /\ Idle(i) /\ ready[i] = <<>> /\ Len(buffer[i]) < Quota(i)
      /\ ~IsGenerator(i)
  BY DEF Fetch
<1>3. /\ line' = line /\ stop' = stop /\ count' = count /\ mode' = mode /\ ready' = ready
      /\ todo' = todo /\ held' = held /\ status' = status
  BY DEF Fetch
<1>4. PICK x, q : /\ x = Append(buffer[i], Head(pipe[i - 1])) /\ q = Tail(pipe[i - 1])
                  /\ buffer' = [buffer EXCEPT ![i] = x] /\ pipe' = [pipe EXCEPT ![i - 1] = q]
  BY DEF Fetch
<1>5. /\ Only(pipe, pipe', 0 .. LastOf - 1, i - 1) /\ pipe'[i - 1] = q
      /\ Only(buffer, buffer', Stages, i) /\ buffer'[i] = x
      /\ Only(mode, mode', Stages, i) /\ Only(ready, ready', Stages, i) /\ Only(todo, todo', Stages, i)
      /\ Only(held, held', Stages, i) /\ Only(status, status', Stages, i)
  <2>1. Sets(pipe, pipe', i - 1, q) /\ Sets(buffer, buffer', i, x)
    BY <1>4 DEF Sets
  <2>2. Only(pipe, pipe', 0 .. LastOf - 1, i - 1) /\ pipe'[i - 1] = q
    BY <1>1, <2>1, Assigns, Functions
  <2>3. Only(buffer, buffer', Stages, i) /\ buffer'[i] = x
    BY <1>1, <2>1, Assigns, Functions
  <2> QED BY <1>1, <1>3, <2>2, <2>3, Functions
<1>6. Touches(i, i - 1) /\ Alive(i)
  BY <1>1, <1>2, <1>3, <1>5 DEF Touches, Shape, Idle, Running, Alive
<1>7. Acts(i) /\ Stays(i)
  BY <1>1, <1>6, TouchesActs
<1>8. Holds(i)'
  <2>1. Contents(line, i, q, x, mode[i], ready[i], todo[i], held[i], status[i])
    BY <1>1, <1>2, <1>4, FetchHolds DEF Holds
  <2> QED BY <1>3, <1>5, <2>1 DEF Holds
<1>9. IsSeq(buffer[i]) /\ IsSeq(pipe[i - 1]) /\ IsSeq(ready[i])
  BY <1>1 DEF Loaded, ValueSeq
<1>10. Within(i)'
  <2>1. /\ Len(x) = Len(buffer[i]) + 1 /\ Len(buffer[i]) \in Nat
        /\ Len(q) = Len(pipe[i - 1]) - 1 /\ Len(pipe[i - 1]) \in Nat
    <3>1. x = buffer[i] \o <<Head(pipe[i - 1])>>
      BY <1>4, <1>9, AppendIs
    <3>2. PICK o : o = <<Head(pipe[i - 1])>> /\ IsSeq(o) /\ Len(o) = 1
      BY OneIsSeq
    <3>3. Len(buffer[i] \o o) = Len(buffer[i]) + Len(o)
      BY <1>9, <3>2, ConcatIsSeq
    <3> QED BY <1>2, <1>4, <1>9, <3>1, <3>2, <3>3, HeadTail, SeqSize
  <2>2. Quota(i) = Room(line, i, mode[i]) /\ Quota(i) \in Nat
    BY BoundsAssumption DEF Quota, Room, IsAuto, Options
  <2>3. i > 1 => Len(pipe[i - 1]) <= Capacity
    BY <1>1 DEF Within, Bounds
  <2>4. Capacity \in Nat
    BY BoundsAssumption
  <2>5. Len(x) <= Room(line, i, mode[i]) /\ (i > 1 => Len(q) <= Capacity)
    BY <1>2, <2>1, <2>2, <2>3, <2>4
  <2> QED BY <1>1, <1>3, <1>5, <2>5 DEF Within, Bounds
<1>11. Done(i)' /\ ~Fails(i)
  BY <1>2, <1>3, NothingAssumption DEF Done, Fails, Idle, Running
<1>12. owed' = owed
  BY <1>1, <1>2, <1>3 DEF Owes
<1>13. Here(i)' = Here(i)
  <2>1. Load(line.stages, i, held[i], todo[i], ready[i], x, q) = Here(i)
    BY <1>2, <1>4, <1>9, LoadFetch DEF Here
  <2> QED BY <1>3, <1>5, <2>1 DEF Here
<1>14. Quiet(i)
  BY <1>7, <1>8, <1>10, <1>11 DEF Quiet
<1> QED BY <1>11, <1>12, <1>13, <1>14, QuietStep

LEMMA RoomIs ==
    ASSUME NEW l, NEW i, NEW m
    PROVE  Room(l, i, m) \in Nat
BY BoundsAssumption DEF Room

LEMMA ReleaseKeeps ==
    ASSUME IInv, NEW i \in Stages, Release(i), Owes(i)
    PROVE  IInv'
<1>1. /\ Shape /\ Holds(i) /\ Within(i) /\ Done(i) /\ i \in 1 .. LastOf
      /\ Loaded(held[i], todo[i], ready[i], buffer[i], pipe[i - 1]) /\ Len(todo[i]) \in Nat
      /\ Piped(line.stages) /\ Len(line.stages) = LastOf
  BY Base
<1>2. buffer[i] # <<>> /\ Idle(i) /\ ready[i] = <<>> /\ ~IsGenerator(i)
  BY DEF Release
<1>3. /\ line' = line /\ stop' = stop /\ count' = count /\ pipe' = pipe
      /\ todo' = todo /\ held' = held /\ status' = status
  BY DEF Release
<1>4. PICK rr : rr = Items(buffer[i]) /\ ready' = [ready EXCEPT ![i] = rr]
  BY DEF Release
<1>5. ready'[i] = rr /\ Only(ready, ready', Stages, i)
  <2>1. Sets(ready, ready', i, rr)
    BY <1>4 DEF Sets
  <2> QED BY <1>1, <2>1, Assigns, Functions
<1>6. PICK mm : /\ mm = IF mode[i] # Nothing THEN mode[i]
                        ELSE IF NotBare(Head(rr)) THEN "objects" ELSE "lines"
                /\ mode' = [mode EXCEPT ![i] = mm]
  BY <1>5 DEF Release
<1>7. buffer' = [buffer EXCEPT ![i] = <<>>]
  BY DEF Release
<1>8. /\ Only(buffer, buffer', Stages, i) /\ buffer'[i] = <<>>
      /\ Only(mode, mode', Stages, i) /\ mode'[i] = mm
  <2>1. Sets(buffer, buffer', i, <<>>) /\ Sets(mode, mode', i, mm)
    BY <1>6, <1>7 DEF Sets
  <2>2. Only(buffer, buffer', Stages, i) /\ buffer'[i] = <<>>
    BY <1>1, <2>1, Assigns, Functions
  <2>3. Only(mode, mode', Stages, i) /\ mode'[i] = mm
    BY <1>1, <2>1, Assigns, Functions
  <2> QED BY <2>2, <2>3
<1>9. Touches(i, i - 1) /\ Alive(i)
  BY <1>1, <1>2, <1>3, <1>5, <1>8, Functions DEF Touches, Shape, Idle, Running, Alive
<1>10. Acts(i) /\ Stays(i)
  BY <1>1, <1>9, TouchesActs
<1>11. Holds(i)'
  <2>1. Contents(line, i, pipe[i - 1], <<>>, mm, rr, todo[i], held[i], status[i])
    BY <1>1, <1>2, <1>4, <1>6, ReleaseHolds DEF Holds
  <2> QED BY <1>3, <1>5, <1>8, <2>1 DEF Holds
<1>12. Within(i)'
  <2>1. mm \in {Nothing, "objects", "lines"}
    BY <1>1, <1>6 DEF Within, Bounds
  <2>2. Len(<<>>) <= Room(line, i, mm)
    BY RoomIs, EmptyIsSeq
  <2> QED BY <1>1, <1>3, <1>5, <1>8, <2>1, <2>2 DEF Within, Bounds
<1>13. Done(i)' /\ ~Fails(i)
  BY <1>2, <1>3, NothingAssumption DEF Done, Fails, Idle, Running
<1>14. owed' = owed
  BY <1>1, <1>2, <1>3 DEF Owes
<1>15. Here(i)' = Here(i)
  <2>1. Load(line.stages, i, held[i], todo[i], rr, <<>>, pipe[i - 1]) = Here(i)
    BY <1>1, <1>2, <1>4, LoadRelease DEF Here
  <2> QED BY <1>3, <1>5, <1>8, <2>1 DEF Here
<1>16. Quiet(i)
  BY <1>10, <1>11, <1>12, <1>13 DEF Quiet
<1> QED BY <1>13, <1>14, <1>15, <1>16, QuietStep

\* An object that run gives back is on its way; a command that fails is done.
LEMMA HandleKeeps ==
    ASSUME IInv, NEW i \in Stages, Handle(i), Owes(i)
    PROVE  IInv'
<1>1. /\ Shape /\ Holds(i) /\ Within(i) /\ Done(i) /\ i \in 1 .. Len(line.stages) /\ line \in Lines
      /\ Loaded(held[i], todo[i], ready[i], buffer[i], pipe[i - 1])
      /\ Piped(line.stages) /\ ItemSeq(ready[i])
  BY Base
<1>2. ready[i] # <<>> /\ Idle(i) /\ Alive(i)
  BY DEF Handle, Idle, Running, Alive
<1>3. /\ line' = line /\ stop' = stop /\ count' = count /\ pipe' = pipe
      /\ buffer' = buffer /\ mode' = mode
  BY DEF Handle
<1>4. PICK rest : rest = Tail(ready[i]) /\ ready' = [ready EXCEPT ![i] = rest]
  BY DEF Handle
<1>5. ready'[i] = rest /\ Only(ready, ready', Stages, i)
  <2>1. Sets(ready, ready', i, rest)
    BY <1>4 DEF Sets
  <2> QED BY <1>1, <2>1, Assigns, Functions
<1>6. PICK made : made = RunCommand(line.stages[i], Head(ready[i]))
  OBVIOUS
<1>7. /\ made.ok => todo' = [todo EXCEPT ![i] = made.objects] /\ held' = held /\ status' = status
      /\ ~made.ok => Close(i, "closing 1")
  BY <1>6 DEF Handle
<1>8. made.ok \in BOOLEAN
      /\ Contents(line, i, pipe[i - 1], buffer[i], mode[i], rest, made.objects, held[i], status[i])
  BY <1>1, <1>2, <1>4, <1>6, HandleHolds DEF Holds
<1>9. CASE made.ok
  <2>1. todo'[i] = made.objects /\ Only(todo, todo', Stages, i)
    <3>1. PICK m : m = made.objects
      OBVIOUS
    <3>2. Sets(todo, todo', i, m)
      BY <1>7, <1>9, <3>1 DEF Sets
    <3> QED BY <1>1, <3>1, <3>2, Assigns, Functions
  <2>2. Touches(i, i - 1)
    BY <1>1, <1>3, <1>5, <1>7, <1>9, <2>1, Functions DEF Touches, Shape
  <2>3. Acts(i) /\ Stays(i)
    BY <1>1, <1>2, <2>2, TouchesActs
  <2>4. Holds(i)'
    BY <1>3, <1>5, <1>7, <1>8, <1>9, <2>1 DEF Holds
  <2>5. Within(i)'
    BY <1>1, <1>2, <1>3, <1>7, <1>9, NothingAssumption DEF Within, Bounds, Idle, Running
  <2>6. Done(i)' /\ ~Fails(i)
    BY <1>2, <1>7, <1>9, NothingAssumption DEF Done, Fails, Idle, Running
  <2>7. Loaded(held[i], made.objects, rest, buffer[i], pipe[i - 1]) /\ ItemSeq(rest)
    BY <1>8, HoldsLoaded
  <2>8. owed' = owed
    <3>1. ~IsGenerator(i)
      BY <1>1, <1>2 DEF Holds, Contents, IsGenerator
    <3>2. todo[i] = <<>> /\ Len(todo[i]) = 0
      BY <1>2, EmptyIsSeq DEF Idle
    <3>3. Len(made.objects) \in Nat
      BY <2>7, SeqSize DEF Loaded, ValueSeq
    <3> QED BY <2>1, <3>1, <3>2, <3>3 DEF Owes
  <2>9. Here(i)' = Here(i)
    <3>1. PICK x : x = Head(ready[i]) /\ IsItem(x) /\ ready[i] = <<x>> \o rest
      <4>1. ready[i] = <<Head(ready[i])>> \o Tail(ready[i]) /\ Head(ready[i]) \in ToSet(ready[i])
        BY <1>1, <1>2, HeadTail DEF ItemSeq
      <4> QED BY <4>1, <1>1, <1>4 DEF ItemSeq
    <3>2. Through(line.stages, i, ready[i]) =
            Through(line.stages, i + 1, made.objects) \o Through(line.stages, i, rest)
      <4>1. TakesOne(line.stages, i, ready[i], x, rest, made.objects)
        BY <1>1, <1>6, <2>7, <3>1 DEF TakesOne
      <4> QED BY <4>1, ThroughItem
    <3>3. Loaded(held[i], <<>>, ready[i], buffer[i], pipe[i - 1])
      BY <1>1, <1>2 DEF Idle
    <3>4. Load(line.stages, i, held[i], made.objects, rest, buffer[i], pipe[i - 1])
            = Load(line.stages, i, held[i], <<>>, ready[i], buffer[i], pipe[i - 1])
      <4>1. i \in 1 .. Len(line.stages) /\ Piped(line.stages)
        BY <1>1
      <4> QED BY <4>1, <2>7, <3>2, <3>3, LoadHandle, ZenonT(60)
    <3> QED BY <1>2, <1>3, <1>5, <1>7, <1>9, <2>1, <3>4 DEF Here, Idle
  <2>10. Quiet(i)
    BY <2>3, <2>4, <2>5, <2>6 DEF Quiet
  <2> QED BY <2>6, <2>8, <2>9, <2>10, QuietStep
<1>10. CASE ~made.ok
  <2>1. PICK tt : /\ tt = IF Len(held[i]) > 1 THEN <<Array(held[i])>> ELSE held[i]
                  /\ todo' = [todo EXCEPT ![i] = tt]
    BY <1>7, <1>10 DEF Close
  <2>2. /\ Only(todo, todo', Stages, i) /\ todo'[i] = tt
        /\ Only(held, held', Stages, i) /\ held'[i] = <<>>
        /\ Only(status, status', Stages, i) /\ status'[i] = "closing 1"
    <3>1. Sets(todo, todo', i, tt) /\ Sets(held, held', i, <<>>) /\ Sets(status, status', i, "closing 1")
      BY <1>7, <1>10, <2>1 DEF Close, Sets
    <3>2. Only(todo, todo', Stages, i) /\ todo'[i] = tt
      BY <1>1, <3>1, Assigns, Functions
    <3>3. Only(held, held', Stages, i) /\ held'[i] = <<>>
      BY <1>1, <3>1, Assigns, Functions
    <3>4. Only(status, status', Stages, i) /\ status'[i] = "closing 1"
      BY <1>1, <3>1, Assigns, Functions
    <3> QED BY <3>2, <3>3, <3>4
  <2>3. Touches(i, i - 1)
    BY <1>1, <1>3, <1>5, <2>2, Functions DEF Touches, Shape
  <2>4. Acts(i) /\ Stays(i)
    BY <1>1, <1>2, <2>3, TouchesActs
  <2>5. Holds(i)'
    <3>1. PICK end : end = "closing 1" /\ end # Nothing
      BY NothingAssumption
    <3>2. PICK r : r = ready[i] /\ r # <<>> /\ rest \in {r, Tail(r)}
      BY <1>2, <1>4
    <3>3. Contents(line, i, pipe[i - 1], buffer[i], mode[i], r, todo[i], held[i], status[i])
      BY <1>1, <3>2 DEF Holds
    <3>4. Contents(line, i, pipe[i - 1], buffer[i], mode[i], rest, tt, <<>>, end)
      BY <2>1, <3>1, <3>2, <3>3, CloseHolds
    <3> QED BY <1>3, <1>5, <2>2, <3>1, <3>4 DEF Holds
  <2>6. Within(i)'
    BY <1>1, <1>3, <2>2 DEF Within, Bounds
  <2>7. Done(i)' /\ Fails(i)'
    BY <2>2 DEF Done, Fails
  <2>8. Quiet(i)
    BY <2>4, <2>5, <2>6, <2>7 DEF Quiet
  <2> QED BY <2>7, <2>8, QuietStep
<1> QED BY <1>8, <1>9, <1>10

\* Only on the first pipe are objects and lines together.
LEMMA LeavesMixed ==
    ASSUME IInv, NEW i \in Stages, LeavesRest(i)
    PROVE  i = 1 /\ Mixed
<1>1. Holds(i) /\ line \in Lines /\ i \in 1 .. LastOf /\ LastOf \in Nat /\ LastOf = Len(line.stages)
  BY Base
<1>2. ready[i] # <<>> /\ mode[i] = "objects" /\ ~NotBare(Head(ready[i]))
  BY DEF LeavesRest
<1>3. PICK K : K = Kinds(line, i - 1) /\ Itemed(ready[i], K) /\ (mode[i] = "objects" => TRUE \in K)
  BY <1>1 DEF Holds, Contents
<1>4. NotBare(Head(ready[i])) \in K
  BY <1>2, <1>3, KindsRest
<1>5. TRUE \in K /\ FALSE \in K
  <2>1. NotBare(Head(ready[i])) = FALSE
    BY <1>2 DEF NotBare
  <2> QED BY <1>2, <1>3, <1>4, <2>1
<1>6. i = 1
  <2>1. SUFFICES ASSUME i # 1 PROVE FALSE
    OBVIOUS
  <2>2. PICK j \in 1 .. Len(line.stages) : j = i - 1
    BY <1>1, <2>1
  <2>3. Kinds(line, j) = {Prints(line.stages[j])}
    BY <1>1, StageIs
  <2>4. K = Kinds(line, j)
    BY <1>3, <2>2
  <2>5. PICK a : K = {a}
    BY <2>3, <2>4
  <2> QED BY <1>5, <2>5
<1>7. K = {NotBare(e) : e \in ToSet(line.input)}
  BY <1>3, <1>6 DEF Kinds
<1>8. \E v \in ToSet(line.input) : NotBare(v) = TRUE
  BY <1>5, <1>7
<1>9. \E v \in ToSet(line.input) : NotBare(v) = FALSE
  BY <1>5, <1>7
<1>10. PICK a \in DOMAIN line.input : NotBare(line.input[a]) = TRUE
  BY <1>8 DEF ToSet
<1>11. PICK b \in DOMAIN line.input : NotBare(line.input[b]) = FALSE
  BY <1>9 DEF ToSet
<1>12. NotBare(line.input[a]) # NotBare(line.input[b])
  BY <1>10, <1>11
<1>13. Mixed
  BY <1>10, <1>11, <1>12 DEF Mixed
<1> QED BY <1>6, <1>13

LEMMA FinishKeeps ==
    ASSUME IInv, NEW i \in Stages, Finish(i), Owes(i)
    PROVE  IInv'
<1>1. /\ Shape /\ Holds(i) /\ Within(i) /\ Done(i) /\ i \in 1 .. LastOf /\ line \in Lines
      /\ LastOf \in Nat /\ Loaded(held[i], todo[i], ready[i], buffer[i], pipe[i - 1])
      /\ ItemSeq(held[i]) /\ Stages = 1 .. LastOf
  BY Base
<1>2. Idle(i) /\ Alive(i) /\ AllDone(i)
  BY DEF Finish, Idle, Running, Alive
<1>3. /\ line' = line /\ stop' = stop /\ count' = count /\ pipe' = pipe
      /\ buffer' = buffer /\ mode' = mode /\ ready' = ready
  BY DEF Finish
<1>4. PICK tt : /\ tt = IF Len(held[i]) > 1 THEN <<Array(held[i])>> ELSE held[i]
                /\ todo' = [todo EXCEPT ![i] = tt]
  BY DEF Finish, Close
<1>5. /\ Only(todo, todo', Stages, i) /\ todo'[i] = tt
      /\ Only(held, held', Stages, i) /\ held'[i] = <<>>
      /\ Only(status, status', Stages, i) /\ status'[i] = "closing 0"
  <2>1. Sets(todo, todo', i, tt) /\ Sets(held, held', i, <<>>) /\ Sets(status, status', i, "closing 0")
    BY <1>4 DEF Finish, Close, Sets
  <2>2. Only(todo, todo', Stages, i) /\ todo'[i] = tt
    BY <1>1, <2>1, Assigns, Functions
  <2>3. Only(held, held', Stages, i) /\ held'[i] = <<>>
    BY <1>1, <2>1, Assigns, Functions
  <2>4. Only(status, status', Stages, i) /\ status'[i] = "closing 0"
    BY <1>1, <2>1, Assigns, Functions
  <2> QED BY <2>2, <2>3, <2>4
<1>6. Touches(i, i - 1)
  BY <1>1, <1>3, <1>5, Functions DEF Touches, Shape
<1>7. Acts(i) /\ Stays(i)
  BY <1>1, <1>2, <1>6, TouchesActs
<1>8. Holds(i)'
  <2>1. PICK end : end = "closing 0" /\ end # Nothing
    BY NothingAssumption
  <2>2. PICK r : r = ready[i]
    OBVIOUS
  <2>3. Contents(line, i, pipe[i - 1], buffer[i], mode[i], r, todo[i], held[i], status[i])
    BY <1>1, <2>2 DEF Holds
  <2>4. Contents(line, i, pipe[i - 1], buffer[i], mode[i], r, tt, <<>>, end)
    BY <1>4, <2>1, <2>2, <2>3, CloseHolds
  <2> QED BY <1>3, <1>5, <2>1, <2>2, <2>4 DEF Holds
<1>9. Within(i)'
  BY <1>1, <1>3, <1>5 DEF Within, Bounds
<1>10. ~(i = 1 /\ Mixed) => ready[i] = <<>> /\ buffer[i] = <<>> /\ Eof(i)
  <2>1. CASE IsGenerator(i)
    <3>1. i = 1 /\ ready[i] = <<>> /\ buffer[i] = <<>> /\ pipe[i - 1] = <<>>
      BY <1>1, <2>1 DEF IsGenerator, Holds, Contents
    <3>2. \A j \in Stages : j # i - 1
      BY <1>1, <3>1
    <3> QED BY <3>1, <3>2 DEF Eof
  <2>2. CASE ~IsGenerator(i) /\ LeavesRest(i)
    BY <2>2, LeavesMixed
  <2>3. CASE ~IsGenerator(i) /\ ~LeavesRest(i)
    BY <2>3, <1>2 DEF AllDone
  <2> QED BY <2>1, <2>2, <2>3
<1>11. Mixed' = Mixed /\ Stages' = Stages
  BY <1>1, <1>7, ActsShape
<1>12. Done(i)'
  <2>1. SUFFICES ASSUME i > 1 \/ ~Mixed PROVE ready'[i] = <<>> /\ buffer'[i] = <<>> /\ Eof(i)'
    BY <1>11 DEF Done
  <2>2. ready[i] = <<>> /\ buffer[i] = <<>> /\ Eof(i)
    BY <1>1, <1>10, <2>1
  <2>3. \A j \in Stages : j = i - 1 => status'[j] = status[j]
    <3>1. \A j \in Stages : j = i - 1 => j # i
      BY <1>1
    <3> QED BY <1>5, <3>1 DEF Only
  <2>4. Eof(i)'
    BY <1>3, <1>11, <2>2, <2>3 DEF Eof, Ended, Alive
  <2> QED BY <1>3, <2>2, <2>4
<1>13. ~Fails(i)
  BY <1>2, NothingAssumption DEF Fails, Idle, Running
<1>14. owed' = owed
  <2>1. todo[i] = <<>> /\ Len(todo[i]) = 0
    BY <1>2, EmptyIsSeq DEF Idle
  <2>2. IsSeq(tt)
    <3>1. IsSeq(<<Array(held[i])>>)
      BY OneIsSeq
    <3> QED BY <1>1, <1>4, <3>1 DEF ItemSeq
  <2>3. Len(tt) \in Nat
    BY <2>2, SeqSize
  <2>4. status' # status
    BY <1>2, <1>5, NothingAssumption DEF Idle, Running
  <2>5. ~(Len(todo'[i]) < Len(todo[i]))
    <3>1. ~(Len(tt) < 0)
      BY <2>3
    <3> QED BY <1>5, <2>1, <3>1
  <2> QED BY <2>4, <2>5 DEF Owes
<1>15. Here(i)' = Here(i)
  <2>1. Load(line.stages, i, <<>>, tt, ready[i], buffer[i], pipe[i - 1])
          = Load(line.stages, i, held[i], <<>>, ready[i], buffer[i], pipe[i - 1])
    BY <1>1, <1>4, LoadClose
  <2> QED BY <1>2, <1>3, <1>5, <2>1 DEF Here, Idle
<1>16. Quiet(i)
  BY <1>7, <1>8, <1>9, <1>12 DEF Quiet
<1> QED BY <1>13, <1>14, <1>15, <1>16, QuietStep

(***************************************************************************)
(* The writer: what it keeps, what it prints, and its end.                 *)
(***************************************************************************)
LEMMA WriteIs ==
    ASSUME IInv, NEW i \in Stages, Write(i)
    PROVE  /\ Alive(i) /\ todo[i] # <<>>
           /\ line' = line /\ stop' = stop /\ count' = count /\ buffer' = buffer /\ mode' = mode
           /\ ready' = ready /\ status' = status
           /\ Only(todo, todo', Stages, i) /\ todo'[i] = Tail(todo[i])
           /\ IsSeq(todo[i]) /\ Len(todo'[i]) < Len(todo[i])
           /\ Only(buffer, buffer', Stages, i) /\ Only(mode, mode', Stages, i)
           /\ Only(ready, ready', Stages, i) /\ Only(status, status', Stages, i)
<1>1. Shape /\ Loaded(held[i], todo[i], ready[i], buffer[i], pipe[i - 1])
  BY Base
<1>2. /\ Alive(i) /\ todo[i] # <<>>
      /\ line' = line /\ stop' = stop /\ count' = count /\ buffer' = buffer /\ mode' = mode
      /\ ready' = ready /\ status' = status
  BY DEF Write
<1>3. Only(todo, todo', Stages, i) /\ todo'[i] = Tail(todo[i])
  <2>1. PICK q : q = Tail(todo[i]) /\ Sets(todo, todo', i, q)
    BY DEF Write, Sets
  <2>2. Only(todo, todo', Stages, i) /\ todo'[i] = q
    BY <1>1, <2>1, Assigns, Functions
  <2> QED BY <2>1, <2>2
<1>4. IsSeq(todo[i])
  BY <1>1 DEF Loaded, ValueSeq
<1>5. Len(todo'[i]) = Len(todo[i]) - 1 /\ Len(todo[i]) \in Nat
  BY <1>2, <1>3, <1>4, HeadTail, SeqSize
<1>6. Len(todo'[i]) < Len(todo[i])
  BY <1>5
<1> QED BY <1>1, <1>2, <1>3, <1>4, <1>6, Functions

LEMMA KeepKeeps ==
    ASSUME IInv, NEW i \in Stages, Write(i), KeepsJson(i), Owes(i)
    PROVE  IInv'
<1>1. /\ Shape /\ Holds(i) /\ Within(i) /\ Done(i) /\ i \in 1 .. LastOf
      /\ Loaded(held[i], todo[i], ready[i], buffer[i], pipe[i - 1])
  BY Base
<1>2. /\ Alive(i) /\ todo[i] # <<>>
      /\ line' = line /\ stop' = stop /\ count' = count /\ buffer' = buffer /\ mode' = mode
      /\ ready' = ready /\ status' = status
      /\ Only(todo, todo', Stages, i) /\ todo'[i] = Tail(todo[i])
      /\ Only(buffer, buffer', Stages, i) /\ Only(mode, mode', Stages, i)
      /\ Only(ready, ready', Stages, i) /\ Only(status, status', Stages, i)
  BY WriteIs
<1>3. pipe' = pipe
  BY DEF Write
<1>4. PICK hh : hh = Append(held[i], Head(todo[i])) /\ Sets(held, held', i, hh)
  BY DEF Write, Sets
<1>5. Only(held, held', Stages, i) /\ held'[i] = hh
  BY <1>1, <1>4, Assigns, Functions
<1>6. status[i] = Nothing /\ Keeping(line, i)
  BY DEF KeepsJson, Running, Keeping, Options
<1>7. Touches(i, i - 1)
  BY <1>1, <1>2, <1>3, <1>5, Functions DEF Touches, Shape
<1>8. Acts(i) /\ Stays(i)
  BY <1>1, <1>2, <1>7, TouchesActs
<1>9. Holds(i)'
  <2>1. Contents(line, i, pipe[i - 1], buffer[i], mode[i], ready[i], Tail(todo[i]), hh, status[i])
    BY <1>1, <1>2, <1>4, <1>6, KeepHolds DEF Holds
  <2> QED BY <1>2, <1>3, <1>5, <2>1 DEF Holds
<1>10. Within(i)'
  BY <1>1, <1>2, <1>3, <1>5, <1>6, NothingAssumption DEF Within, Bounds
<1>11. Done(i)' /\ ~Fails(i)
  BY <1>2, <1>6, NothingAssumption DEF Done, Fails
<1>12. IsSeq(held[i]) /\ IsSeq(todo[i])
  BY <1>1 DEF Loaded, ValueSeq
<1>13. held' # held
  <2>1. PICK o : o = <<Head(todo[i])>> /\ IsSeq(o) /\ Len(o) = 1
    BY OneIsSeq
  <2>2. hh = held[i] \o o
    BY <1>4, <1>12, <2>1, AppendIs
  <2>3. Len(hh) = Len(held[i]) + 1 /\ Len(held[i]) \in Nat
    BY <1>12, <2>1, <2>2, ConcatIsSeq, SeqSize
  <2>4. hh # held[i]
    BY <2>3
  <2> QED BY <1>5, <2>4
<1>14. owed' = owed
  BY <1>2, <1>13 DEF Owes, Idle
<1>15. Here(i)' = Here(i)
  <2>1. Load(line.stages, i, hh, Tail(todo[i]), ready[i], buffer[i], pipe[i - 1]) = Here(i)
    BY <1>2, <1>4, <1>12, LoadKeep DEF Here
  <2> QED BY <1>2, <1>3, <1>5, <2>1 DEF Here
<1>16. Quiet(i)
  BY <1>8, <1>9, <1>10, <1>11 DEF Quiet
<1> QED BY <1>11, <1>14, <1>15, <1>16, QuietStep

\* What changes when only the status of a stage does.
LEMMA EndsActs ==
    ASSUME IInv, NEW i \in Stages, Alive(i), NEW end, end # Nothing,
           Sets(status, status', i, end),
           UNCHANGED <<line, stop, count, pipe, buffer, mode, ready, todo, held>>
    PROVE  /\ Acts(i) /\ Stays(i) /\ Only(status, status', Stages, i) /\ status'[i] = end
           /\ Holds(i)' /\ Here(i)' = Here(i) /\ Mixed' = Mixed /\ Stages' = Stages
<1>1. /\ Shape /\ Holds(i) /\ i \in 1 .. LastOf
  BY Base
<1>2. /\ line' = line /\ stop' = stop /\ count' = count /\ pipe' = pipe /\ buffer' = buffer
      /\ mode' = mode /\ ready' = ready /\ todo' = todo /\ held' = held
  OBVIOUS
<1>3. Only(status, status', Stages, i) /\ status'[i] = end
  BY <1>1, Assigns, Functions
<1>4. Touches(i, i - 1)
  BY <1>1, <1>2, <1>3, Functions DEF Touches, Shape
<1>5. Acts(i) /\ Stays(i)
  BY <1>1, <1>4, TouchesActs
<1>6. Holds(i)'
  <2>1. Contents(line, i, pipe[i - 1], buffer[i], mode[i], ready[i], todo[i], held[i], end)
    BY <1>1, EndHolds DEF Holds
  <2> QED BY <1>2, <1>3, <2>1 DEF Holds
<1>7. Here(i)' = Here(i)
  BY <1>2 DEF Here
<1> QED BY <1>1, <1>3, <1>5, <1>6, <1>7, ActsShape

LEMMA SigPipeKeeps ==
    ASSUME IInv, NEW i \in Stages, SigPipe(i)
    PROVE  IInv'
<1>1. Shape /\ Within(i)
  BY Base
<1>2. PICK end : end = "killed" /\ end # Nothing
  BY NothingAssumption
<1>3. Alive(i) /\ ~KeepsJson(i) /\ Sets(status, status', i, end)
      /\ UNCHANGED <<line, stop, count, pipe, buffer, mode, ready, todo, held>>
  BY <1>2 DEF SigPipe, Sets
<1>4. /\ Acts(i) /\ Stays(i) /\ status'[i] = end /\ Holds(i)'
  BY <1>2, <1>3, EndsActs
<1>5. held[i] = <<>>
  BY <1>1, <1>3 DEF Within, Bounds, KeepsJson, Running, Keeping, Options
<1>6. Within(i)'
  BY <1>1, <1>2, <1>3, <1>4, <1>5 DEF Within, Bounds
<1>7. Done(i)' /\ Fails(i)'
  BY <1>2, <1>4 DEF Done, Fails
<1>8. Quiet(i)
  BY <1>4, <1>6, <1>7 DEF Quiet
<1> QED BY <1>7, <1>8, QuietStep

LEMMA ExitKeeps ==
    ASSUME IInv, NEW i \in Stages, Exit(i), Owes(i)
    PROVE  IInv'
<1>1. /\ Shape /\ Within(i) /\ Done(i) /\ Len(todo[i]) \in Nat
      /\ Stages = 1 .. LastOf /\ LastOf \in Nat
  BY Base
<1>2. Alive(i) /\ ~Running(i) /\ todo[i] = <<>>
      /\ UNCHANGED <<line, stop, count, pipe, buffer, mode, ready, todo, held>>
  BY DEF Exit
<1>3. PICK end : end = (IF status[i] = "closing 0" THEN "0" ELSE "1") /\ end # Nothing
  BY NothingAssumption
<1>4. Sets(status, status', i, end)
  BY <1>3 DEF Exit, Sets
<1>5. /\ Acts(i) /\ Stays(i) /\ Only(status, status', Stages, i) /\ status'[i] = end
      /\ Holds(i)' /\ Here(i)' = Here(i) /\ Mixed' = Mixed /\ Stages' = Stages
  BY <1>2, <1>3, <1>4, EndsActs
<1>6. held[i] = <<>>
  BY <1>1, <1>2 DEF Within, Bounds, Running
<1>7. Within(i)'
  <2>1. end \in {"0", "1"}
    BY <1>3
  <2> QED BY <1>1, <1>2, <1>5, <1>6, <2>1 DEF Within, Bounds
<1>8. Done(i)'
  <2>1. SUFFICES ASSUME i > 1 \/ ~Mixed, status'[i] \in {"closing 0", "0"}
                 PROVE  ready'[i] = <<>> /\ buffer'[i] = <<>> /\ Eof(i)'
    BY <1>5 DEF Done
  <2>2. status[i] = "closing 0"
    BY <1>3, <1>5, <2>1
  <2>3. ready[i] = <<>> /\ buffer[i] = <<>> /\ Eof(i)
    BY <1>1, <2>1, <2>2 DEF Done
  <2>4. \A j \in Stages : j = i - 1 => j # i
    BY <1>1
  <2>5. \A j \in Stages : j = i - 1 => status'[j] = status[j]
    BY <1>5, <2>4 DEF Only
  <2>6. Eof(i)'
    BY <1>2, <1>5, <2>3, <2>5 DEF Eof, Ended, Alive
  <2> QED BY <1>2, <2>3, <2>6
<1>9. Quiet(i)
  BY <1>5, <1>7, <1>8 DEF Quiet
<1>10. CASE status[i] = "closing 0"
  <2>1. owed' = owed
    <3>1. status' # status
      BY <1>3, <1>5, <1>10
    <3>2. ~(Len(todo'[i]) < Len(todo[i]))
      BY <1>1, <1>2
    <3> QED BY <3>1, <3>2 DEF Owes
  <2>2. ~Fails(i)
    BY <1>10 DEF Fails
  <2> QED BY <1>5, <1>9, <2>1, <2>2, QuietStep
<1>11. CASE status[i] # "closing 0"
  <2>1. Fails(i)'
    BY <1>3, <1>5, <1>11 DEF Fails
  <2> QED BY <1>9, <2>1, QuietStep
<1> QED BY <1>10, <1>11

(***************************************************************************)
(* The steps that add to what is under way, move it on, or deliver it.     *)
(***************************************************************************)
\* All loads before a step and after it.
Before(load) == /\ Loads(load, LastOf) /\ Flying = FlattenSeq(Backwards(load, LastOf))
                /\ \A j \in 1 .. LastOf : load[j] = Here(j)
After(load)  == /\ Loads(load, LastOf) /\ Flying' = FlattenSeq(Backwards(load, LastOf))
                /\ \A j \in 1 .. LastOf : load[j] = Here(j)'

LEMMA BeforeIs ==
    ASSUME Shape, \A j \in Stages : Holds(j)
    PROVE  \E old : Before(old)
<1>1. line \in Lines /\ Stages = 1 .. LastOf
  BY StagesAre DEF Shape
<1>2. PICK old : /\ old = LoadsOf(line, pipe, buffer, ready, todo, held) /\ Loads(old, LastOf)
                 /\ \A j \in Stages : old[j] = Here(j)
  BY HoldsLoads DEF Here
<1>3. Before(old)
  BY <1>1, <1>2, FlyingIs DEF Before
<1> QED BY <1>3

LEMMA BeforeAfter ==
    ASSUME Shape, line' = line, \A j \in Stages : Holds(j), \A j \in Stages : Holds(j)'
    PROVE  (\E old : Before(old)) /\ \E new : After(new)
<1>1. line \in Lines /\ Stages = 1 .. LastOf
  BY StagesAre DEF Shape
<1>2. PICK new : /\ new = LoadsOf(line, pipe', buffer', ready', todo', held') /\ Loads(new, LastOf)
                 /\ \A j \in Stages : new[j] = Here(j)'
  BY HoldsLoadsNext DEF Here
<1>3. After(new)
  BY <1>1, <1>2, FlyingNext DEF After
<1> QED BY <1>3, BeforeIs

LEMMA GenerateKeeps ==
    ASSUME IInv, NEW i \in Stages, Generate(i), Owes(i)
    PROVE  IInv'
<1>1. /\ Shape /\ Holds(i) /\ Within(i) /\ Done(i) /\ i \in 1 .. Len(line.stages) /\ line \in Lines
      /\ Loaded(held[i], todo[i], ready[i], buffer[i], pipe[i - 1])
      /\ Piped(line.stages) /\ Stages = 1 .. LastOf /\ LastOf \in Nat \ {0}
  BY Base
<1>2. IsGenerator(i) /\ Idle(i) /\ Alive(i) /\ count > 0 /\ count \in Nat /\ i = 1
  BY <1>1 DEF Generate, Idle, Running, Alive, Shape, IsGenerator
<1>3. /\ line' = line /\ stop' = stop /\ pipe' = pipe /\ buffer' = buffer /\ mode' = mode
      /\ ready' = ready /\ held' = held /\ status' = status
  BY DEF Generate
<1>4. PICK objects \in Drawn(line.stages[i]) : todo' = [todo EXCEPT ![i] = objects]
  BY DEF Generate
<1>5. Only(todo, todo', Stages, i) /\ todo'[i] = objects
  <2>1. Sets(todo, todo', i, objects)
    BY <1>4 DEF Sets
  <2> QED BY <1>1, <2>1, Assigns, Functions
<1>6. count' \in Nat
  <2>1. count' = count \/ count' = count - 1
    BY DEF Generate
  <2> QED BY <1>2, <2>1
<1>7. Acts(i) /\ Stays(i)
  <2>1. Touches(i, i - 1)
    BY <1>1, <1>3, <1>5, <1>6, Functions DEF Touches
  <2> QED BY <1>1, <1>2, <2>1, TouchesActs
<1>8. Holds(i)'
  <2>1. Contents(line, i, pipe[i - 1], buffer[i], mode[i], ready[i], objects, held[i], status[i])
    BY <1>1, GenerateHolds DEF Holds
  <2> QED BY <1>3, <1>5, <2>1 DEF Holds
<1>9. Within(i)'
  BY <1>1, <1>2, <1>3, NothingAssumption DEF Within, Bounds, Idle, Running
<1>10. Done(i)' /\ ~Fails(i)
  BY <1>2, <1>3, NothingAssumption DEF Done, Fails, Idle, Running
<1>11. /\ Shape' /\ Stages' = Stages
       /\ \A j \in Stages : Holds(j)' /\ Within(j)' /\ Done(j)'
  <2>1. Quiet(i)
    BY <1>7, <1>8, <1>9, <1>10 DEF Quiet
  <2> QED BY <2>1, QuietRest
<1>12. PICK x : x = Through(line.stages, i + 1, objects) /\ IsSeq(x)
  <2>1. ValueSeq(objects)
    <3>1. Contents(line, i, pipe[i - 1], buffer[i], mode[i], ready[i], objects, held[i], status[i])
      BY <1>1, GenerateHolds DEF Holds
    <3> QED BY <3>1, HoldsLoaded DEF Loaded
  <2>2. PICK n \in 1 .. Len(line.stages) + 1 : n = i + 1
    BY <1>1, <1>2 DEF LastOf
  <2>3. IsSeq(Through(line.stages, n, objects))
    BY <1>1, <2>1, <2>2, ThroughConcat DEF ItemSeq
  <2> QED BY <2>2, <2>3
<1>13. owed' = owed \o x
  BY <1>2, <1>3, <1>5, <1>12 DEF Owes, From
<1>14. Here(i)' = Here(i) \o x
  <2>1. ready[i] = <<>> /\ buffer[i] = <<>> /\ pipe[i - 1] = <<>>
    BY <1>1, <1>2 DEF Holds, Contents, IsGenerator
  <2>2. ValueSeq(held[i]) /\ ValueSeq(objects)
    <3>1. Contents(line, i, pipe[i - 1], buffer[i], mode[i], ready[i], objects, held[i], status[i])
      BY <1>1, GenerateHolds DEF Holds
    <3> QED BY <3>1, HoldsLoaded DEF Loaded
  <2>3. Load(line.stages, i, held[i], objects, <<>>, <<>>, <<>>) =
          Load(line.stages, i, held[i], <<>>, <<>>, <<>>, <<>>) \o x
    BY <1>1, <1>12, <2>2, LoadGenerate
  <2>4. Here(i) = Load(line.stages, i, held[i], <<>>, <<>>, <<>>, <<>>)
    BY <1>2, <2>1 DEF Here, Idle
  <2>5. Here(i)' = Load(line.stages, i, held[i], objects, <<>>, <<>>, <<>>)
    BY <1>3, <1>5, <2>1 DEF Here
  <2> QED BY <2>3, <2>4, <2>5
<1>15. Conserved'
  <2>1. SUFFICES ASSUME ~Mixed', NoFailure' PROVE owed' = Flying'
    BY DEF Conserved
  <2>2. owed = Flying /\ \A j \in Stages : Holds(j)
    BY <1>1, <1>7, <1>10, <2>1, NoFailureBefore DEF IInv
  <2>3. PICK old : Before(old)
    BY <1>1, <1>3, <1>11, <2>2, BeforeAfter
  <2>4. PICK new : After(new)
    BY <1>1, <1>3, <1>11, <2>2, BeforeAfter
  <2>5. \A j \in Stages : j # i => Here(j)' = Here(j)
    BY <1>1, <1>7, <1>11, <2>2, HereAlone
  <2>6. \A j \in 2 .. LastOf : new[j] = old[j]
    BY <1>1, <1>2, <2>3, <2>4, <2>5 DEF Before, After
  <2>7. new[1] = old[1] \o x
    BY <1>1, <1>2, <1>14, <2>3, <2>4 DEF Before, After, LastOf
  <2>8. FlattenSeq(Backwards(new, LastOf)) = FlattenSeq(Backwards(old, LastOf)) \o x
    <3>1. Gains(LastOf, old, new, x)
      BY <1>12, <2>3, <2>4, <2>6, <2>7 DEF Before, After, Gains
    <3> QED BY <3>1, ArriveMore
  <2> QED BY <1>13, <2>2, <2>3, <2>4, <2>8 DEF Before, After
<1> QED BY <1>11, <1>15 DEF IInv

\* What the last stage writes is delivered.
LEMMA DeliverKeeps ==
    ASSUME IInv, NEW i \in Stages, Write(i), ~KeepsJson(i), i = LastOf, Owes(i)
    PROVE  IInv'
<1>1. /\ Shape /\ Holds(i) /\ Within(i) /\ Done(i) /\ i \in 1 .. Len(line.stages) /\ line \in Lines
      /\ Loaded(held[i], todo[i], ready[i], buffer[i], pipe[i - 1])
      /\ Piped(line.stages) /\ Stages = 1 .. LastOf /\ LastOf \in Nat \ {0}
      /\ Len(line.stages) = LastOf
  BY Base
<1>2. /\ Alive(i) /\ todo[i] # <<>>
      /\ line' = line /\ stop' = stop /\ count' = count /\ buffer' = buffer /\ mode' = mode
      /\ ready' = ready /\ status' = status
      /\ Only(todo, todo', Stages, i) /\ todo'[i] = Tail(todo[i])
      /\ IsSeq(todo[i]) /\ Len(todo'[i]) < Len(todo[i])
      /\ Only(buffer, buffer', Stages, i) /\ Only(mode, mode', Stages, i)
      /\ Only(ready, ready', Stages, i) /\ Only(status, status', Stages, i)
  BY WriteIs
<1>3. pipe' = pipe /\ held' = held
  BY DEF Write
<1>4. held[i] = <<>>
  BY <1>1 DEF Within, Bounds, KeepsJson, Running, Keeping, Options
<1>5. Acts(i) /\ Stays(i)
  <2>1. Touches(i, i - 1)
    BY <1>1, <1>2, <1>3, Functions DEF Touches, Shape
  <2> QED BY <1>1, <1>2, <2>1, TouchesActs
<1>6. Holds(i)'
  <2>1. Contents(line, i, pipe[i - 1], buffer[i], mode[i], ready[i], Tail(todo[i]), held[i], status[i])
    BY <1>1, <1>2, KeepHolds DEF Holds
  <2> QED BY <1>2, <1>3, <2>1 DEF Holds
<1>7. Within(i)'
  BY <1>1, <1>2, <1>3, NothingAssumption DEF Within, Bounds, Alive
<1>8. Done(i)'
  BY <1>1, <1>2, <1>3 DEF Done, Eof, Ended, Alive, Stages, Mixed
<1>9. /\ Shape' /\ Stages' = Stages
      /\ \A j \in Stages : Holds(j)' /\ Within(j)' /\ Done(j)'
  <2>1. Quiet(i)
    BY <1>5, <1>6, <1>7, <1>8 DEF Quiet
  <2> QED BY <2>1, QuietRest
<1>10. PICK v : v = Head(todo[i]) /\ IsSeq(Items(<<v>>))
  <2>1. PICK v : v = Head(todo[i]) /\ IsValue(v)
    BY <1>1, <1>2, FirstOf DEF Loaded
  <2>2. IsSeq(Items(<<v>>))
    BY <2>1, SeqsOfItems, ItemsAre DEF ItemSeq
  <2> QED BY <2>1, <2>2
<1>11. PICK x : x = Items(<<v>>) /\ IsSeq(x)
  BY <1>10
<1>12. owed' = SubSeq(owed, 1 + Len(x), Len(owed))
  BY <1>2, <1>3, <1>10, <1>11 DEF Owes, Idle
<1>13. Here(i) = x \o Here(i)' /\ IsSeq(Here(i)')
  <2>1. Through(line.stages, i + 1, <<v>>) = x
    BY <1>1, <1>11, ThroughLast DEF LastOf
  <2>2. PICK t : t = todo[i] /\ ValueSeq(t) /\ t # <<>> /\ v = Head(t) /\ ValueSeq(Tail(t))
    BY <1>1, <1>2, <1>10, FirstOf DEF Loaded
  <2>3. Loaded(<<>>, Tail(t), ready[i], buffer[i], pipe[i - 1])
    BY <1>1, <1>4, <2>2 DEF Loaded
  <2>4. /\ IsSeq(Load(line.stages, i, <<>>, Tail(t), ready[i], buffer[i], pipe[i - 1]))
        /\ Load(line.stages, i, <<>>, t, ready[i], buffer[i], pipe[i - 1]) =
             Through(line.stages, i + 1, <<v>>)
             \o Load(line.stages, i, <<>>, Tail(t), ready[i], buffer[i], pipe[i - 1])
    <3>1. /\ Piped(line.stages) /\ i \in 1 .. Len(line.stages) /\ ValueSeq(t) /\ t # <<>>
          /\ Loaded(<<>>, Tail(t), ready[i], buffer[i], pipe[i - 1])
      BY <1>1, <2>2, <2>3
    <3>2. /\ IsSeq(Load(line.stages, i, <<>>, Tail(t), ready[i], buffer[i], pipe[i - 1]))
          /\ Load(line.stages, i, <<>>, t, ready[i], buffer[i], pipe[i - 1]) =
               Through(line.stages, i + 1, <<Head(t)>>)
               \o Load(line.stages, i, <<>>, Tail(t), ready[i], buffer[i], pipe[i - 1])
      BY <3>1, LoadWrite
    <3> QED BY <2>2, <3>2
  <2>5. Here(i)' = Load(line.stages, i, <<>>, Tail(t), ready[i], buffer[i], pipe[i - 1])
    BY <1>2, <1>3, <1>4, <2>2 DEF Here
  <2>6. Here(i) = Load(line.stages, i, <<>>, t, ready[i], buffer[i], pipe[i - 1])
    BY <1>4, <2>2 DEF Here
  <2> QED BY <2>1, <2>4, <2>5, <2>6
<1>14. Conserved'
  <2>1. SUFFICES ASSUME ~Mixed', NoFailure' PROVE owed' = Flying'
    BY DEF Conserved
  <2>2. owed = Flying /\ \A j \in Stages : Holds(j)
    <3>1. Fails(i) => Fails(i)'
      BY <1>2 DEF Fails
    <3> QED BY <1>1, <1>5, <2>1, <3>1, NoFailureBefore DEF IInv
  <2>3. PICK old : Before(old)
    BY <1>1, <1>2, <1>9, <2>2, BeforeAfter
  <2>4. PICK new : After(new)
    BY <1>1, <1>2, <1>9, <2>2, BeforeAfter
  <2>5. \A j \in Stages : j # i => Here(j)' = Here(j)
    BY <1>1, <1>5, <1>9, <2>2, HereAlone
  <2>6. PICK n : n = LastOf
    OBVIOUS
  <2>7. /\ Loads(old, n) /\ Loads(new, n) /\ n \in 1 .. n
        /\ \A j \in 1 .. n : old[j] = Here(j) /\ new[j] = Here(j)'
    BY <1>1, <2>3, <2>4, <2>6 DEF Before, After
  <2>8. \A j \in 1 .. n - 1 : new[j] = old[j]
    <3>1. \A j \in 1 .. n - 1 : j \in 1 .. n /\ j # n
      BY <1>1, <2>6
    <3> QED BY <1>1, <2>5, <2>6, <2>7, <3>1
  <2>9. old[n] = x \o new[n]
    BY <1>13, <2>6, <2>7
  <2>10. FlattenSeq(Backwards(old, n)) = x \o FlattenSeq(Backwards(new, n))
    <3>1. old[n] = x \o new[n]
            => FlattenSeq(Backwards(old, n)) = x \o FlattenSeq(Backwards(new, n))
      BY <1>11, <2>7, <2>8, ArriveLess
    <3> QED BY <2>9, <3>1
  <2>11. PICK y : y = Flying' /\ IsSeq(y) /\ owed = x \o y
    <3>1. IsSeq(FlattenSeq(Backwards(new, n)))
      BY <2>7, BackwardsIs, FlatPart
    <3> QED BY <2>2, <2>3, <2>4, <2>6, <2>10, <3>1 DEF Before, After
  <2>12. SubSeq(x \o y, 1 + Len(x), Len(x \o y)) = y
    BY <1>11, <2>11, DropFront
  <2> QED BY <1>12, <2>11, <2>12
<1> QED BY <1>9, <1>14 DEF IInv

\* What another stage writes is then on the pipe of the next one.
LEMMA PassKeeps ==
    ASSUME IInv, NEW i \in Stages, Write(i), ~KeepsJson(i), i # LastOf, Owes(i)
    PROVE  IInv'
<1>1. /\ Shape /\ Holds(i) /\ Within(i) /\ Done(i) /\ i \in 1 .. Len(line.stages) /\ line \in Lines
      /\ Loaded(held[i], todo[i], ready[i], buffer[i], pipe[i - 1])
      /\ Piped(line.stages) /\ Stages = 1 .. LastOf /\ LastOf \in Nat \ {0}
      /\ Len(line.stages) = LastOf
  BY Base
<1>2. /\ Alive(i) /\ todo[i] # <<>>
      /\ line' = line /\ stop' = stop /\ count' = count /\ buffer' = buffer /\ mode' = mode
      /\ ready' = ready /\ status' = status
      /\ Only(todo, todo', Stages, i) /\ todo'[i] = Tail(todo[i])
      /\ Only(buffer, buffer', Stages, i) /\ Only(mode, mode', Stages, i)
      /\ Only(ready, ready', Stages, i) /\ Only(status, status', Stages, i)
  BY WriteIs
<1>3. held' = held /\ Len(pipe[i]) < Capacity
  BY DEF Write
<1>4. PICK k \in 2 .. LastOf : k = i + 1 /\ k - 1 = i /\ k # i /\ k # 1
  BY <1>1
<1>5. i \in 0 .. LastOf - 1 /\ i - 1 # i /\ k \in Stages /\ k \in 1 .. Len(line.stages)
      /\ i - 1 \in 0 .. LastOf - 1
  BY <1>1, <1>4
<1>6. /\ Holds(k) /\ Within(k) /\ Done(k)
      /\ Loaded(held[k], todo[k], ready[k], buffer[k], pipe[i])
  BY <1>4, <1>5, Base
<1>7. PICK v : /\ v = Head(todo[i]) /\ IsValue(v)
               /\ Valued(<<v>>, Kinds(line, i))
  <2>1. PICK K : K = Kinds(line, i) /\ Valued(todo[i], K)
    BY <1>1 DEF Holds, Contents
  <2>2. Valued(<<Head(todo[i])>>, K)
    BY <1>2, <2>1, KindsRest
  <2>3. IsValue(Head(todo[i]))
    BY <1>1, <1>2, FirstOf DEF Loaded
  <2> QED BY <2>1, <2>2, <2>3
<1>8. PICK p : p = Append(pipe[i], v) /\ Sets(pipe, pipe', i, p)
  BY <1>2, <1>7 DEF Write, Sets
<1>9. Only(pipe, pipe', 0 .. LastOf - 1, i) /\ pipe'[i] = p
  BY <1>1, <1>5, <1>8, Assigns, Functions
<1>10. pipe'[i - 1] = pipe[i - 1]
  BY <1>5, <1>9 DEF Only
<1>11. Acts(i)
  <2>1. Touches(i, i)
    BY <1>1, <1>2, <1>3, <1>9, Functions DEF Touches, Shape
  <2> QED BY <1>1, <1>2, <2>1, TouchesActs
<1>12. Shape' /\ Stages' = Stages
  BY <1>1, <1>11, ActsShape
<1>13. held[i] = <<>>
  BY <1>1 DEF Within, Bounds, KeepsJson, Running, Keeping, Options
<1>14. Holds(i)' /\ Within(i)' /\ Done(i)'
  <2>1. Contents(line, i, pipe[i - 1], buffer[i], mode[i], ready[i], Tail(todo[i]), held[i], status[i])
    BY <1>1, <1>2, KeepHolds DEF Holds
  <2>2. Holds(i)'
    BY <1>2, <1>3, <1>10, <2>1 DEF Holds
  <2>3. Within(i)'
    BY <1>1, <1>2, <1>3, <1>10, NothingAssumption DEF Within, Bounds, Alive
  <2>4. Done(i)'
    BY <1>1, <1>2, <1>10 DEF Done, Eof, Ended, Alive, Stages, Mixed
  <2> QED BY <2>2, <2>3, <2>4
<1>15. /\ buffer'[k] = buffer[k] /\ mode'[k] = mode[k] /\ ready'[k] = ready[k]
       /\ todo'[k] = todo[k] /\ held'[k] = held[k] /\ status'[k] = status[k]
  BY <1>2, <1>3, <1>4, <1>5 DEF Only
<1>16. Holds(k)' /\ Within(k)' /\ Done(k)'
  <2>1. Contents(line, k, p, buffer[k], mode[k], ready[k], todo[k], held[k], status[k])
    <3>1. Contents(line, k, pipe[i], buffer[k], mode[k], ready[k], todo[k], held[k], status[k])
      BY <1>4, <1>6 DEF Holds
    <3>2. Valued(<<v>>, Kinds(line, k - 1))
      BY <1>4, <1>7
    <3> QED BY <1>4, <1>8, <3>1, <3>2, ArriveHolds
  <2>2. Holds(k)'
    BY <1>2, <1>4, <1>9, <1>15, <2>1 DEF Holds
  <2>3. Len(p) <= Capacity
    <3>1. IsSeq(pipe[i])
      BY <1>6 DEF Loaded, ValueSeq
    <3>2. PICK o : o = <<v>> /\ IsSeq(o) /\ Len(o) = 1
      BY OneIsSeq
    <3>3. p = pipe[i] \o o
      BY <1>8, <3>1, <3>2, AppendIs
    <3>4. Len(p) = Len(pipe[i]) + 1 /\ Len(pipe[i]) \in Nat
      BY <3>1, <3>2, <3>3, ConcatIsSeq, SeqSize
    <3> QED BY <1>3, <3>4, BoundsAssumption
  <2>4. Within(k)'
    BY <1>2, <1>4, <1>6, <1>9, <1>15, <2>3 DEF Within, Bounds
  <2> QED BY <1>1, <1>4, <1>5, <1>6, <1>11, <2>2, <2>4, ActsElsewhere
<1>17. ASSUME NEW j \in Stages PROVE Holds(j)' /\ Within(j)' /\ Done(j)'
  <2>1. CASE j = i
    BY <1>14, <2>1
  <2>2. CASE j = k
    BY <1>16, <2>2
  <2>3. CASE j # i /\ j # k
    <3>1. Holds(j) /\ Within(j) /\ Done(j) /\ j # i + 1
      BY <1>4, <1>17, <2>3 DEF IInv
    <3> QED BY <1>1, <1>11, <1>17, <2>3, <3>1, ActsElsewhere
  <2> QED BY <2>1, <2>2, <2>3
<1>18. owed' = owed
  BY <1>2 DEF Owes, Idle
<1>19. PICK x : x = Through(line.stages, k, <<v>>) /\ IsSeq(x)
  <2>1. PICK o : o = <<v>> /\ ValueSeq(o)
    BY <1>7, SeqsOfItems
  <2>2. k \in 1 .. Len(line.stages) + 1
    BY <1>5
  <2>3. IsSeq(Through(line.stages, k, o))
    BY <1>1, <2>1, <2>2, ThroughConcat DEF ItemSeq
  <2> QED BY <2>1, <2>3
<1>20. Here(i) = x \o Here(i)' /\ IsSeq(Here(i)')
  <2>1. PICK t : t = todo[i] /\ ValueSeq(t) /\ t # <<>> /\ v = Head(t) /\ ValueSeq(Tail(t))
    BY <1>1, <1>2, <1>7, FirstOf DEF Loaded
  <2>2. Loaded(<<>>, Tail(t), ready[i], buffer[i], pipe[i - 1])
    BY <1>1, <1>13, <2>1 DEF Loaded
  <2>3. /\ Piped(line.stages) /\ i \in 1 .. Len(line.stages) /\ ValueSeq(t) /\ t # <<>>
        /\ Loaded(<<>>, Tail(t), ready[i], buffer[i], pipe[i - 1])
    BY <1>1, <2>1, <2>2
  <2>4. /\ IsSeq(Load(line.stages, i, <<>>, Tail(t), ready[i], buffer[i], pipe[i - 1]))
        /\ Load(line.stages, i, <<>>, t, ready[i], buffer[i], pipe[i - 1]) =
             Through(line.stages, i + 1, <<Head(t)>>)
             \o Load(line.stages, i, <<>>, Tail(t), ready[i], buffer[i], pipe[i - 1])
    BY <2>3, LoadWrite
  <2>5. Here(i)' = Load(line.stages, i, <<>>, Tail(t), ready[i], buffer[i], pipe[i - 1])
    BY <1>2, <1>3, <1>10, <1>13, <2>1 DEF Here
  <2>6. Here(i) = Load(line.stages, i, <<>>, t, ready[i], buffer[i], pipe[i - 1])
    BY <1>13, <2>1 DEF Here
  <2>7. Through(line.stages, i + 1, <<Head(t)>>) = x
    BY <1>4, <1>19, <2>1
  <2> QED BY <2>4, <2>5, <2>6, <2>7
<1>21. Here(k)' = Here(k) \o x /\ IsSeq(Here(k))
  <2>1. /\ Piped(line.stages) /\ k \in 1 .. Len(line.stages) /\ IsValue(v)
        /\ Loaded(held[k], todo[k], ready[k], buffer[k], pipe[i])
    BY <1>1, <1>5, <1>6, <1>7
  <2>2. Load(line.stages, k, held[k], todo[k], ready[k], buffer[k], Append(pipe[i], v)) =
          Load(line.stages, k, held[k], todo[k], ready[k], buffer[k], pipe[i])
          \o Through(line.stages, k, <<v>>)
    BY <2>1, LoadArrive
  <2>3. Here(k) = Load(line.stages, k, held[k], todo[k], ready[k], buffer[k], pipe[i])
    BY <1>4 DEF Here
  <2>4. Here(k)' = Load(line.stages, k, held[k], todo[k], ready[k], buffer[k], p)
    BY <1>2, <1>4, <1>9, <1>15 DEF Here
  <2>5. IsSeq(Here(k))
    BY <2>1, <2>3, LoadSplit
  <2> QED BY <1>8, <1>19, <2>2, <2>3, <2>4, <2>5
<1>22. Here(k)' \o Here(i)' = Here(k) \o Here(i)
  <2>1. PICK a, b : a = Here(k) /\ b = Here(i)' /\ IsSeq(a) /\ IsSeq(b)
    BY <1>20, <1>21
  <2>2. IsSeq(a) /\ IsSeq(b) /\ IsSeq(x)
    BY <1>19, <2>1
  <2>3. (a \o x) \o b = a \o (x \o b)
    BY <2>2, ConcatAssoc
  <2> QED BY <1>20, <1>21, <2>1, <2>3
<1>23. Conserved'
  <2>1. SUFFICES ASSUME ~Mixed', NoFailure' PROVE owed' = Flying'
    BY DEF Conserved
  <2>2. owed = Flying /\ \A j \in Stages : Holds(j)
    <3>1. Fails(i) => Fails(i)'
      BY <1>2 DEF Fails
    <3> QED BY <1>1, <1>11, <2>1, <3>1, NoFailureBefore DEF IInv
  <2>3. PICK old : Before(old)
    BY <1>1, <1>2, <1>17, <2>2, BeforeAfter
  <2>4. PICK new : After(new)
    BY <1>1, <1>2, <1>17, <2>2, BeforeAfter
  <2>5. \A j \in Stages : j # i /\ j # i + 1 => Here(j)' = Here(j)
    BY <1>1, <1>11, <1>17, <2>2, HereAlone
  <2>6. PICK n : n = LastOf
    OBVIOUS
  <2>7. /\ Loads(old, n) /\ Loads(new, n) /\ i \in 1 .. n - 1
        /\ \A j \in 1 .. n : old[j] = Here(j) /\ new[j] = Here(j)'
    BY <1>1, <2>3, <2>4, <2>6 DEF Before, After
  <2>8. \A j \in 1 .. n : j \notin {i, i + 1} => new[j] = old[j]
    BY <1>1, <2>5, <2>6, <2>7
  <2>9. new[i + 1] \o new[i] = old[i + 1] \o old[i]
    BY <1>1, <1>4, <1>5, <1>22, <2>6, <2>7
  <2>10. FlattenSeq(Backwards(new, n)) = FlattenSeq(Backwards(old, n))
    <3>1. new[i + 1] \o new[i] = old[i + 1] \o old[i]
            => FlattenSeq(Backwards(new, n)) = FlattenSeq(Backwards(old, n))
      BY <2>7, <2>8, ArriveNext
    <3> QED BY <2>9, <3>1
  <2> QED BY <1>18, <2>2, <2>3, <2>4, <2>6, <2>10 DEF Before, After
<1> QED BY <1>12, <1>17, <1>23 DEF IInv

(***************************************************************************)
(* The invariant holds in every state.                                     *)
(***************************************************************************)
LEMMA LoadFirst ==
    ASSUME NEW stages, Piped(stages), NEW i \in 1 .. Len(stages), NEW p, ValueSeq(p)
    PROVE  /\ IsSeq(Through(stages, i, p))
           /\ Load(stages, i, <<>>, <<>>, <<>>, <<>>, p) = Through(stages, i, p)
           /\ Load(stages, i, <<>>, <<>>, <<>>, <<>>, <<>>) = <<>>
<1>1. Len(stages) \in Nat /\ i \in 1 .. Len(stages) + 1
  BY SeqSize DEF Piped
<1>2. PICK n \in 1 .. Len(stages) + 1 : n = i + 1
  BY <1>1
<1>3. <<>> \o <<>> = <<>> /\ <<>> \o <<>> \o p = p
  BY EmptyIsSeq, ConcatEmpty DEF ValueSeq
<1>4. Through(stages, n, <<>>) = <<>> /\ Through(stages, i, <<>>) = <<>>
  BY <1>1, ThroughEmpty
<1>5. IsSeq(Through(stages, i, p))
  BY <1>1, ThroughConcat DEF ItemSeq
<1>6. Load(stages, i, <<>>, <<>>, <<>>, <<>>, p) = <<>> \o Through(stages, i, p)
  BY <1>2, <1>3, <1>4 DEF Load
<1>7. Load(stages, i, <<>>, <<>>, <<>>, <<>>, <<>>) = <<>> \o <<>>
  <2>1. <<>> \o <<>> \o <<>> = <<>>
    BY <1>3
  <2> QED BY <2>1, <1>2, <1>3, <1>4 DEF Load
<1> QED BY <1>3, <1>5, <1>6, <1>7, ConcatEmpty

LEMMA InitInv ==
    ASSUME Init
    PROVE  IInv
<1>1. /\ line \in Lines /\ LastOf \in Nat \ {0} /\ Stages = 1 .. LastOf
      /\ Piped(line.stages) /\ Len(line.stages) = LastOf
  BY StagesAre DEF Init
<1>2. Shape
  <2>1. count \in Nat
    BY <1>1, LineIs DEF Init, Options
  <2>2. IsFcn(pipe, 0 .. LastOf - 1)
    BY DEF Init, IsFcn
  <2>3. IsFcn(buffer, Stages) /\ IsFcn(ready, Stages) /\ IsFcn(todo, Stages) /\ IsFcn(held, Stages)
    BY DEF Init, IsFcn
  <2>4. IsFcn(mode, Stages) /\ IsFcn(status, Stages)
    BY DEF Init, IsFcn
  <2>5. stop \in BOOLEAN
    BY DEF Init
  <2> QED BY <1>1, <2>1, <2>2, <2>3, <2>4, <2>5 DEF Shape
<1>3. ASSUME NEW i \in Stages
      PROVE  /\ buffer[i] = <<>> /\ ready[i] = <<>> /\ todo[i] = <<>> /\ held[i] = <<>>
             /\ mode[i] = Nothing /\ status[i] = Nothing
             /\ pipe[i - 1] = IF i = 1 THEN line.input ELSE <<>>
  <2>1. /\ buffer[i] = <<>> /\ ready[i] = <<>> /\ todo[i] = <<>> /\ held[i] = <<>>
    BY DEF Init
  <2>2. mode[i] = Nothing /\ status[i] = Nothing
    BY DEF Init
  <2>3. i - 1 \in 0 .. LastOf - 1 /\ (i - 1 = 0 <=> i = 1)
    BY <1>1
  <2>4. pipe[i - 1] = IF i = 1 THEN line.input ELSE <<>>
    BY <2>3 DEF Init
  <2> QED BY <2>1, <2>2, <2>4
<1>4. ASSUME NEW i \in Stages PROVE Holds(i)
  <2>1. PICK p : p = pipe[i - 1]
    OBVIOUS
  <2>2. Valued(p, Kinds(line, i - 1)) /\ (i = 1 /\ line.generates => p = <<>>)
    <3>1. CASE i = 1
      <4>1. Valued(line.input, Kinds(line, 0)) /\ (line.generates => line.input = <<>>) /\ i - 1 = 0
        BY <1>1, <3>1, LineIs
      <4> QED BY <1>3, <1>4, <2>1, <3>1, <4>1
    <3>2. CASE i # 1
      BY <1>3, <1>4, <2>1, <3>2, KindsAre
    <3> QED BY <3>1, <3>2
  <2>3. Contents(line, i, p, <<>>, Nothing, <<>>, <<>>, <<>>, Nothing)
    BY <2>2, KindsAre, NothingAssumption DEF Contents
  <2> QED BY <1>3, <1>4, <2>1, <2>3 DEF Holds
<1>5. ASSUME NEW i \in Stages PROVE Within(i)
  <2>1. PICK p : p = pipe[i - 1] /\ (i > 1 => p = <<>>)
    BY <1>1, <1>3, <1>5, SMTT(60)
  <2>2. Len(<<>>) = 0 /\ 0 <= Capacity /\ 0 <= Room(line, i, Nothing)
    BY EmptyIsSeq, RoomIs, BoundsAssumption
  <2>3. Bounds(line, i, p, <<>>, Nothing, <<>>, <<>>, Nothing)
    BY <2>1, <2>2 DEF Bounds
  <2> QED BY <1>3, <1>5, <2>1, <2>3 DEF Within
<1>6. ASSUME NEW i \in Stages PROVE Done(i)
  BY <1>3, NothingAssumption DEF Done
<1>7. PICK load : Before(load)
  BY <1>2, <1>4, BeforeIs
<1>8. PICK x : x = Through(line.stages, 1, line.input) /\ IsSeq(x) /\ load[1] = x
  <2>1. ValueSeq(line.input) /\ 1 \in 1 .. Len(line.stages) /\ 1 \in Stages
    BY <1>1, LineIs DEF Valued
  <2>2. Here(1) = Load(line.stages, 1, <<>>, <<>>, <<>>, <<>>, line.input)
    BY <1>3, <2>1 DEF Here
  <2> QED BY <1>1, <1>7, <2>1, <2>2, LoadFirst DEF Before
<1>9. ASSUME NEW j \in 2 .. LastOf PROVE load[j] = <<>>
  <2>1. j \in Stages /\ j \in 1 .. Len(line.stages) /\ j # 1
    BY <1>1, <1>9
  <2>2. Here(j) = Load(line.stages, j, <<>>, <<>>, <<>>, <<>>, <<>>)
    BY <1>3, <2>1 DEF Here
  <2>3. Load(line.stages, j, <<>>, <<>>, <<>>, <<>>, <<>>) = <<>>
    BY <1>1, <2>1, LoadFirst, SeqsOfItems
  <2> QED BY <1>1, <1>7, <2>1, <2>2, <2>3 DEF Before
<1>10. PICK none : none = [j \in 1 .. LastOf |-> <<>>]
  OBVIOUS
<1>11. Loads(none, LastOf) /\ \A j \in 1 .. LastOf : none[j] = <<>>
  BY <1>1, <1>10, EmptyIsSeq DEF Loads
<1>12. Gains(LastOf, none, load, x)
  <2>1. 1 \in 1 .. LastOf /\ \A j \in 2 .. LastOf : j \in 1 .. LastOf
    BY <1>1
  <2>2. \A j \in 2 .. LastOf : load[j] = none[j]
    BY <1>9, <1>11, <2>1
  <2>3. load[1] = none[1] \o x
    BY <1>8, <1>11, <2>1, ConcatEmpty
  <2> QED BY <1>7, <1>8, <1>11, <2>2, <2>3 DEF Gains, Before
<1>13. FlattenSeq(Backwards(load, LastOf)) = FlattenSeq(Backwards(none, LastOf)) \o x
  BY <1>12, ArriveMore
<1>14. FlattenSeq(Backwards(none, LastOf)) = <<>>
  BY <1>11, ArriveNothing
<1>15. Flying = x
  BY <1>7, <1>8, <1>13, <1>14, ConcatEmpty DEF Before
<1>16. owed = x
  BY <1>8 DEF Init, From
<1>17. Conserved
  BY <1>15, <1>16 DEF Conserved
<1> QED BY <1>2, <1>4, <1>5, <1>6, <1>17 DEF IInv

LEMMA StepInv ==
    ASSUME IInv, NEW i, Step(i), Owes(i)
    PROVE  IInv'
<1>1. i \in Stages
  BY DEF Step
<1>2. CASE Generate(i)
  BY <1>1, <1>2, GenerateKeeps
<1>3. CASE Fetch(i)
  BY <1>1, <1>3, FetchKeeps
<1>4. CASE Release(i)
  BY <1>1, <1>4, ReleaseKeeps
<1>5. CASE Handle(i)
  BY <1>1, <1>5, HandleKeeps
<1>6. CASE Finish(i)
  BY <1>1, <1>6, FinishKeeps
<1>7. CASE Write(i)
  <2>1. CASE KeepsJson(i)
    BY <1>1, <1>7, <2>1, KeepKeeps
  <2>2. CASE ~KeepsJson(i) /\ i = LastOf
    BY <1>1, <1>7, <2>2, DeliverKeeps
  <2>3. CASE ~KeepsJson(i) /\ i # LastOf
    BY <1>1, <1>7, <2>3, PassKeeps
  <2> QED BY <2>1, <2>2, <2>3
<1>8. CASE SigPipe(i)
  BY <1>1, <1>8, SigPipeKeeps
<1>9. CASE Exit(i)
  BY <1>1, <1>9, ExitKeeps
<1> QED BY <1>2, <1>3, <1>4, <1>5, <1>6, <1>7, <1>8, <1>9 DEF Step

\* The signal, and steps of others: nothing that the invariant is about.
LEMMA RestInv ==
    ASSUME IInv, stop' \in BOOLEAN,
           UNCHANGED <<line, count, pipe, buffer, mode, ready, todo, held, status, owed>>
    PROVE  IInv'
<1>1. /\ line' = line /\ count' = count /\ pipe' = pipe /\ buffer' = buffer /\ mode' = mode
      /\ ready' = ready /\ todo' = todo /\ held' = held /\ status' = status /\ owed' = owed
  OBVIOUS
<1>2. Stages' = Stages /\ LastOf' = LastOf /\ Mixed' = Mixed /\ NoFailure' = NoFailure
  BY <1>1 DEF Stages, LastOf, Mixed, NoFailure, Fails
<1>3. Shape'
  BY <1>1, <1>2 DEF IInv, Shape
<1>4. ASSUME NEW i \in Stages PROVE Holds(i)' /\ Within(i)' /\ Done(i)'
  BY <1>1, <1>2, <1>4 DEF IInv, Holds, Within, Done, Eof, Ended, Alive
<1>5. Flying' = Flying
  BY <1>1, <1>2 DEF Flying, At, From
<1> QED BY <1>1, <1>2, <1>3, <1>4, <1>5 DEF IInv, Conserved

LEMMA NextInv ==
    ASSUME IInv, [Next]_vars
    PROVE  IInv'
<1>1. CASE Signal /\ UNCHANGED owed
  BY <1>1, RestInv DEF Signal
<1>2. ASSUME NEW i \in 1 .. MaxStages, Step(i), Owes(i) PROVE IInv'
  BY <1>2, StepInv
<1>3. CASE UNCHANGED vars
  <2>1. stop \in BOOLEAN
    BY DEF IInv, Shape
  <2> QED BY <1>3, <2>1, RestInv DEF vars, sys
<1> QED BY <1>1, <1>2, <1>3 DEF Next

\* What the pipeline holds stays of the right kind and within its bounds, a
\* stage that is done has seen all of its input, and nothing is lost.
THEOREM Invariant == Spec => []IInv
<1>1. Init => IInv
  BY InitInv
<1>2. IInv /\ [Next]_vars => IInv'
  BY NextInv
<1> QED BY <1>1, <1>2, PTL DEF Spec

LEMMA InvType ==
    ASSUME IInv
    PROVE  TypeOK
<1>1. line \in Lines /\ stop \in BOOLEAN /\ count \in Nat
  BY DEF IInv, Shape
<1>2. ASSUME NEW i \in Stages
      PROVE  /\ status[i] \in {Nothing, "closing 0", "closing 1", "0", "1", "killed"}
             /\ mode[i] \in {Nothing, "objects", "lines"}
             /\ Len(buffer[i]) <= Quota(i)
             /\ i > 1 => Len(pipe[i - 1]) <= Capacity
             /\ held[i] # <<>> => KeepsJson(i)
             /\ status[i] = "0" => todo[i] = <<>> /\ held[i] = <<>>
  <2>1. Within(i)
    BY <1>2 DEF IInv
  <2>2. Quota(i) = Room(line, i, mode[i])
    BY DEF Quota, Room, IsAuto, Options
  <2> QED BY <2>1, <2>2 DEF Within, Bounds, KeepsJson, Running, Keeping, Options
<1> QED BY <1>1, <1>2 DEF TypeOK

LEMMA InvNothingLost ==
    ASSUME IInv
    PROVE  NothingLost
<1>1. SUFFICES ASSUME ~Mixed, \A i \in Stages : status[i] \notin {"closing 1", "1", "killed"}
               PROVE  owed = Flying /\ ((\A i \in Stages : status[i] = "0") => owed = <<>>)
  BY DEF NothingLost
<1>2. owed = Flying
  BY <1>1 DEF IInv, Conserved, NoFailure, Fails
<1>3. ASSUME \A i \in Stages : status[i] = "0" PROVE owed = <<>>
  <2>1. /\ Shape /\ \A j \in Stages : Holds(j)
    BY DEF IInv
  <2>2. PICK load : Before(load)
    BY <2>1, BeforeIs
  <2>3. ASSUME NEW j \in 1 .. LastOf PROVE load[j] = <<>>
    <3>1. /\ j \in Stages /\ j \in 1 .. Len(line.stages) /\ Piped(line.stages)
          /\ Within(j) /\ Done(j)
      BY <2>1, <2>3, StagesAre DEF IInv, Shape
    <3>2. todo[j] = <<>> /\ held[j] = <<>>
      BY <1>3, <3>1 DEF Within, Bounds
    <3>3. ready[j] = <<>> /\ buffer[j] = <<>> /\ pipe[j - 1] = <<>>
      BY <1>1, <1>3, <3>1 DEF Done, Eof
    <3>4. Here(j) = Load(line.stages, j, <<>>, <<>>, <<>>, <<>>, <<>>)
      BY <3>2, <3>3 DEF Here
    <3>5. Load(line.stages, j, <<>>, <<>>, <<>>, <<>>, <<>>) = <<>>
      BY <3>1, LoadFirst, SeqsOfItems
    <3> QED BY <2>2, <2>3, <3>4, <3>5 DEF Before
  <2>4. FlattenSeq(Backwards(load, LastOf)) = <<>>
    BY <2>2, <2>3, ArriveNothing DEF Before
  <2> QED BY <1>2, <2>2, <2>4 DEF Before
<1> QED BY <1>2, <1>3

\* Every variable has its type, and a stage that has ended did so in order.
THEOREM TypeCorrect == Spec => []TypeOK
BY Invariant, InvType, PTL

\* Between the input or the generator and the reader of the last stage
\* nothing is lost, doubled or overtaken, whatever the length of the
\* pipeline, the size of pipes and blocks, and the moment of the signal.
THEOREM Conservation == Spec => []NothingLost
BY Invariant, InvNothingLost, PTL

(***************************************************************************)
(* Objects on their way are honest, and what follows from that.            *)
(***************************************************************************)
LEMMA OnTheirWay ==
    ASSUME IInv, NEW o \in Objects
    PROVE  Honest(o)
<1>1. o.type \in {"privkey", "pubkey", "address"}
      /\ \E s \in UNION {{pipe[i - 1], todo[i], held[i], ready[i], buffer[i]} : i \in Stages} :
            o \in ToSet(Items(s))
  BY DEF Objects
<1>2. PICK s : /\ \E i \in Stages : s \in {pipe[i - 1], todo[i], held[i], ready[i], buffer[i]}
               /\ o \in ToSet(Items(s))
  BY <1>1
<1>3. PICK i \in Stages : s \in {pipe[i - 1], todo[i], held[i], ready[i], buffer[i]}
  BY <1>2
<1>4. Loaded(held[i], todo[i], ready[i], buffer[i], pipe[i - 1])
  BY Base
<1>5. ValueSeq(s)
  BY <1>3, <1>4 DEF Loaded
<1>6. IsItem(o)
  BY <1>2, <1>5, ItemsAre DEF ItemSeq
<1> QED BY <1>1, <1>6, ItemIs

\* The sources of an honest object: keys all the way up, about one secret.
Climb(o, d) ==
    Chain(o)[d].type \in Types =>
        /\ \A e \in 0 .. d : Chain(o)[e].type \in Types
        /\ KeyOf(Chain(o)[d]).secret = KeyOf(o).secret
        /\ d > 0 => Chain(o)[d].type \in KeyTypes
LEMMA Sources ==
    ASSUME NEW o, Honest(o)
    PROVE  \A d \in 0 .. MaxDepth : Climb(o, d)
<1> DEFINE G == {d \in Nat : Climb(o, d)}
<1>1. 0 \in G
  <2>1. Chain(o)[0] = o /\ o.type \in Types
    BY ChainSteps, HonestIsTrue
  <2>2. \A e \in 0 .. 0 : e = 0
    OBVIOUS
  <2> QED BY <2>1, <2>2 DEF Climb
<1>2. ASSUME NEW d \in 1 .. MaxDepth, d - 1 \in G PROVE d \in G
  <2>1. PICK c \in 0 .. MaxDepth : c = d - 1 /\ d = c + 1 /\ Climb(o, c)
    BY <1>2, DepthIs
  <2>2. d \in Nat /\ d \in 1 .. MaxDepth
    BY <1>2, DepthIs
  <2>3. SUFFICES ASSUME Chain(o)[d].type \in Types
                 PROVE  /\ \A e \in 0 .. d : Chain(o)[e].type \in Types
                        /\ KeyOf(Chain(o)[d]).secret = KeyOf(o).secret
                        /\ d > 0 => Chain(o)[d].type \in KeyTypes
    BY <2>2 DEF Climb
  <2>4. PICK s, t : s = Chain(o)[d] /\ t = Chain(o)[c] /\ Follows(t, s) /\ s.type \in Types
    BY <2>1, <2>2, <2>3 DEF Honest
  <2>5. t.type \in Types
    BY <2>4, NoItemEnds DEF Follows
  <2>6. Linked(t, s)
    BY <2>4, <2>5 DEF Follows
  <2>7. s.type \in KeyTypes /\ KeyOf(s).secret = KeyOf(t).secret
    BY <2>4, <2>6 DEF Linked, Types, KeyTypes
  <2>8. KeyOf(t).secret = KeyOf(o).secret /\ \A e \in 0 .. c : Chain(o)[e].type \in Types
    BY <2>1, <2>4, <2>5 DEF Climb
  <2>9. \A e \in 0 .. d : e \in 0 .. c \/ e = d
    BY <2>1, <2>2
  <2> QED BY <2>3, <2>4, <2>7, <2>8, <2>9
<1>3. 0 .. MaxDepth \subseteq G
  <2> HIDE DEF G
  <2> QED BY <1>1, <1>2, DepthIs, UpTo
<1> QED BY <1>3

\* Up to the nearest private key the network is the same.
LEMMA SourceNetwork ==
    ASSUME NEW o, Honest(o), o.type = "address", NEW m \in 1 .. MaxDepth,
           Chain(o)[m].type = "privkey", \A d \in 1 .. m - 1 : Chain(o)[d].type # "privkey"
    PROVE  /\ True(Chain(o)[m]) /\ Chain(o)[m].network = o.network
           /\ KeyOf(Chain(o)[m]).secret = KeyOf(o).secret
<1>1. m \in 0 .. MaxDepth /\ m \in Nat
  BY DepthIs
<1>2. \A e \in 0 .. m : Chain(o)[e].type \in Types
  BY <1>1, Sources DEF Climb, Types, KeyTypes
<1>3. True(Chain(o)[m]) /\ KeyOf(Chain(o)[m]).secret = KeyOf(o).secret
  BY <1>1, Sources DEF Climb, Types, KeyTypes, Honest
<1> DEFINE G == {d \in Nat : Chain(o)[d].network = o.network}
<1>4. 0 \in G
  BY ChainSteps
<1>5. ASSUME NEW d \in 1 .. m, d - 1 \in G PROVE d \in G
  <2>1. PICK c \in 0 .. m : c = d - 1 /\ d = c + 1 /\ (c = 0 \/ c \in 1 .. m - 1)
    BY <1>1, <1>5
  <2>2. d \in 1 .. MaxDepth /\ d \in 0 .. m /\ d \in 0 .. MaxDepth /\ d > 0 /\ d \in Nat
    BY <1>1, <1>5, DepthIs
  <2>3. PICK s, t : s = Chain(o)[d] /\ t = Chain(o)[c] /\ Follows(t, s)
    BY <2>1, <2>2 DEF Honest
  <2>4. t.type \in Types /\ s.type \in Types
    BY <1>2, <2>1, <2>2, <2>3
  <2>5. s.type \in KeyTypes
    BY <2>2, <2>3, <2>4, Sources DEF Climb
  <2>6. t.type # "privkey"
    <3>1. CASE c = 0
      BY <2>3, <3>1, ChainSteps
    <3>2. CASE c \in 1 .. m - 1
      BY <2>3, <3>2
    <3> QED BY <2>1, <3>1, <3>2
  <2>7. s.network = t.network
    BY <2>3, <2>4, <2>5, <2>6 DEF Follows, Linked
  <2>8. t.network = o.network
    BY <1>5, <2>1, <2>3
  <2> QED BY <2>2, <2>3, <2>7, <2>8
<1>6. 0 .. m \subseteq G
  <2> HIDE DEF G
  <2> QED BY <1>1, <1>4, <1>5, UpTo
<1>7. m \in G
  <2> HIDE DEF G
  <2> QED BY <1>1, <1>6
<1> QED BY <1>3, <1>7

\* One address of a key, and the public key of it.
LEMMA PlainIs ==
    /\ Plain.network = Nothing /\ Plain.match = Nothing /\ Plain.types = <<"p2pkh">>
    /\ ~Plain.compressed /\ ~Plain.uncompressed /\ Plain.source /\ ~Plain.skip
BY DEF Plain

LEMMA PlainAddress ==
    ASSUME NEW item, Honest(item), item.type \in KeyTypes
    PROVE  Address(Plain, item).objects[1].data = EncodeAddress(KeyOf(item), "p2pkh")
<1> DEFINE in == InputOf(item, Plain, "address")
           k == Key(in.key.secret, NetworkOf(in, Plain), in.key.compressed)
           can(style) == ~NeedsCompressed(style) \/ k.compressed
           kept == Plain.match = Nothing \/ k.secret \in Plain.match
           src == IF Plain.source \/ Plain.match # Nothing THEN in.source ELSE Nothing
           one == AddressObject(k, "p2pkh", src)
           ss == [i \in DOMAIN Plain.types |->
                    IF can(Plain.types[i]) /\ kept
                    THEN <<AddressObject(k, Plain.types[i], src)>> ELSE <<>>]
           made == Address(Plain, item)
<1>1. Is(in) /\ in.key = KeyOf(item) /\ in.locked
  BY KeyReads
<1>2. k = KeyOf(item)
  <2>1. IsKey(KeyOf(item))
    BY HonestText
  <2>2. NetworkOf(in, Plain) = in.key.network
    BY <1>1 DEF NetworkOf
  <2> HIDE DEF in
  <2> QED BY <1>1, <2>1, <2>2 DEF IsKey
<1>3. can("p2pkh") /\ kept
  BY PlainIs DEF NeedsCompressed
<1>4. DOMAIN Plain.types = {1} /\ Plain.types[1] = "p2pkh"
  BY PlainIs
<1>5. ~(~Plain.skip /\ \E i \in DOMAIN Plain.types : ~can(Plain.types[i]))
  <2> HIDE DEF can
  <2> QED BY <1>3, <1>4
<1>6. made = Ok(FlattenSeq(ss))
  <2>1. Is(in) /\ ~(~Plain.skip /\ \E i \in DOMAIN Plain.types : ~can(Plain.types[i]))
    BY <1>1, <1>5
  <2> QED BY <2>1, Zenon DEF Address
<1> HIDE DEF can, kept, k, src, made
<1>7. ss = <<(<<one>>)>>
  <2>1. ss = [i \in {1} |-> <<one>>]
    BY <1>3, <1>4
  <2> HIDE DEF ss, one
  <2>2. PICK r : r = <<one>>
    OBVIOUS
  <2>3. <<r>> = [i \in {1} |-> r]
    OBVIOUS
  <2> QED BY <2>1, <2>2, <2>3
<1>8. FlattenSeq(ss) = <<one>>
  <2> HIDE DEF ss, one
  <2>1. PICK r : r = <<one>> /\ IsSeq(r)
    BY OneIsSeq
  <2>2. IsSeq(r)
    BY <2>1
  <2>3. FlattenSeq(<<r>>) = r
    BY <2>2, FlatOne
  <2> QED BY <1>7, <2>1, <2>3
<1>9. made.objects = <<one>>
  <2> HIDE DEF ss, one
  <2> QED BY <1>6, <1>8 DEF Ok
<1>10. one.data = EncodeAddress(k, "p2pkh")
  BY DEF AddressObject
<1> HIDE DEF one
<1>11. made.objects[1] = one
  BY <1>9
<1> QED BY <1>2, <1>10, <1>11 DEF made

LEMMA PlainPubkey ==
    ASSUME NEW item, Honest(item), item.type \in KeyTypes
    PROVE  LET o == Pubkey(Plain, item).objects[1] IN
           Honest(o) /\ o.type = "pubkey" /\ KeyOf(o) = KeyOf(item)
<1> DEFINE in == InputOf(item, Plain, "pubkey")
           made == Pubkey(Plain, item)
           modes == CompressionModes(Plain, in.key.compressed)
<1>1. Is(in) /\ in.key = KeyOf(item)
  BY KeyReads
<1>2. IsItem(item) /\ Plain.network \in {Nothing, Main, Test}
  BY PlainIs DEF IsItem
<1>3. /\ Makes(made) /\ \A o \in ToSet(made.objects) : o.type = "pubkey"
      /\ Is(in) => /\ made.ok /\ Len(made.objects) = Len(modes)
                   /\ \A i \in 1 .. Len(made.objects) :
                         KeyOf(made.objects[i]) = Key(in.key.secret, in.key.network, modes[i])
  BY <1>2, PubkeyMakes
<1>4. modes = <<in.key.compressed>>
  BY PlainIs DEF CompressionModes
<1> HIDE DEF in, made
<1>5. Len(modes) = 1 /\ modes[1] = in.key.compressed
  BY <1>4, OneIsSeq
<1> HIDE DEF modes
<1>6. 1 \in 1 .. Len(made.objects) /\ KeyOf(made.objects[1]) = Key(in.key.secret, in.key.network, modes[1])
  BY <1>1, <1>3, <1>5
<1>7. made.objects[1] \in ToSet(made.objects)
  <2>1. IsSeq(made.objects)
    BY <1>3 DEF Makes
  <2>2. DOMAIN made.objects = 1 .. Len(made.objects)
    BY <2>1, SeqSize
  <2> QED BY <1>6, <2>2 DEF ToSet
<1>8. Honest(made.objects[1]) /\ made.objects[1].type = "pubkey"
  BY <1>3, <1>7 DEF Makes
<1>9. Key(in.key.secret, in.key.network, in.key.compressed) = KeyOf(item)
  <2>1. IsKey(KeyOf(item))
    BY HonestText
  <2> QED BY <1>1, <2>1 DEF IsKey
<1> QED BY <1>5, <1>6, <1>8, <1>9 DEF made

LEMMA HonestAgrees ==
    ASSUME NEW o, Honest(o)
    PROVE  /\ o.type = "pubkey" => o.compressed = o.data.compressed
           /\ o.type = "privkey" => PrivkeyFromObject(o) = KeyOf(o)
           /\ o.type = "address" => o.network = o.data.key.network
           /\ \A a \in Ancestors(o) : KeyOf(a).secret = KeyOf(o).secret
           /\ o.type = "address" /\ Ancestors(o) # {} =>
                 KeyOf(o.source).compressed = KeyOf(o).compressed
           /\ o.type = "privkey" =>
                 Address(Plain, Pubkey(Plain, o).objects[1]).objects[1].data
                   = Address(Plain, o).objects[1].data
<1>1. True(o) /\ o.type \in Types
  BY HonestIsTrue
<1>2. o.type = "pubkey" => o.compressed = o.data.compressed
  <2>1. SUFFICES ASSUME o.type = "pubkey" PROVE o.compressed = o.data.compressed
    OBVIOUS
  <2>2. PICK t : t = o.data /\ t = PubHex(t.secret, o.compressed)
    BY <1>1, <2>1 DEF True
  <2>3. t.compressed = o.compressed
    BY <2>2 DEF PubHex
  <2> QED BY <2>2, <2>3
<1>3. o.type = "privkey" => PrivkeyFromObject(o) = KeyOf(o)
  BY <1>1 DEF True
<1>4. o.type = "address" => o.network = o.data.key.network
  <2>1. SUFFICES ASSUME o.type = "address" PROVE o.network = o.data.key.network
    OBVIOUS
  <2>2. PICK k : k = o.data.key /\ o = AddressObject(k, o.style, o.source)
    BY <1>1, <2>1 DEF True
  <2>3. o.network = k.network
    BY <2>2 DEF AddressObject
  <2> QED BY <2>2, <2>3
<1>5. ASSUME NEW a \in Ancestors(o)
      PROVE  /\ KeyOf(a).secret = KeyOf(o).secret
             /\ Chain(o)[1].type \in KeyTypes
  <2>1. PICK d \in 1 .. MaxDepth : a = Chain(o)[d] /\ a.type \in Types
    BY <1>5 DEF Ancestors, Types, KeyTypes
  <2>2. d \in 0 .. MaxDepth /\ 1 \in 0 .. d /\ 1 \in 0 .. MaxDepth
    BY <2>1, DepthIs
  <2>3. KeyOf(a).secret = KeyOf(o).secret /\ Chain(o)[1].type \in Types
    BY <2>1, <2>2, Sources DEF Climb
  <2>4. Chain(o)[1].type \in KeyTypes
    BY <2>2, <2>3, Sources DEF Climb
  <2> QED BY <2>3, <2>4
<1>6. ASSUME o.type = "address", Ancestors(o) # {}
      PROVE  KeyOf(o.source).compressed = KeyOf(o).compressed
  <2>1. PICK s : s = Chain(o)[1] /\ s.type \in KeyTypes
    BY <1>5, <1>6
  <2>2. 1 \in 1 .. MaxDepth /\ 1 \in 0 .. MaxDepth /\ 1 - 1 = 0
    BY DepthIs
  <2>3. s = SourceOf(o)
    BY <2>1, <2>2, ChainSteps
  <2>4. s = o.source
    BY <2>1, <2>3, NoItemEnds DEF SourceOf, Types
  <2>5. True(s) /\ Follows(o, s)
    BY <2>1, <2>2, ChainSteps DEF Honest, Types
  <2>6. s.compressed = KeyOf(o).compressed
    BY <1>1, <1>6, <2>1, <2>5 DEF Follows, Linked
  <2>7. KeyOf(s).compressed = s.compressed
    BY <2>1, <2>5, TrueFields
  <2> QED BY <2>4, <2>6, <2>7
<1>7. ASSUME o.type = "privkey"
      PROVE  Address(Plain, Pubkey(Plain, o).objects[1]).objects[1].data
               = Address(Plain, o).objects[1].data
  <2>1. PICK p : /\ p = Pubkey(Plain, o).objects[1]
                 /\ Honest(p) /\ p.type = "pubkey" /\ KeyOf(p) = KeyOf(o)
    BY <1>7, PlainPubkey DEF KeyTypes
  <2>2. Address(Plain, p).objects[1].data = EncodeAddress(KeyOf(p), "p2pkh")
    BY <2>1, PlainAddress DEF KeyTypes
  <2>3. Address(Plain, o).objects[1].data = EncodeAddress(KeyOf(o), "p2pkh")
    BY <1>7, PlainAddress DEF KeyTypes
  <2> QED BY <2>1, <2>2, <2>3
<1> QED BY <1>2, <1>3, <1>4, <1>5, <1>6, <1>7

\* What every object on its way says of itself is what its data is, and its
\* sources are about the same secret.
THEOREM Agreement == Spec => []KeysAgree
<1>1. IInv => KeysAgree
  BY OnTheirWay, HonestAgrees DEF KeysAgree
<1> QED BY <1>1, Invariant, PTL

(***************************************************************************)
(* The private key that sweep finds for an address, and what it does.      *)
(***************************************************************************)
Nearest(o, m) == /\ Chain(o)[m].type = "privkey"
                 /\ \A d \in 0 .. m - 1 : Chain(o)[d].type # "privkey"
NoneFound(o)  == \A d \in 0 .. MaxDepth : Chain(o)[d].type # "privkey"

LEMMA NearestOrNone ==
    ASSUME NEW o
    PROVE  NoneFound(o) \/ \E m \in 0 .. MaxDepth : Nearest(o, m)
<1> DEFINE found == {d \in 0 .. MaxDepth : Chain(o)[d].type = "privkey"}
<1>1. CASE found = {}
  BY <1>1 DEF NoneFound
<1>2. CASE found # {}
  <2>1. found \in SUBSET (0 .. MaxDepth)
    OBVIOUS
  <2>2. PICK m \in found : \A j \in 0 .. m - 1 : j \notin found
    <3> HIDE DEF found
    <3> QED BY <1>2, <2>1, DepthIs, Least
  <2>3. m \in 0 .. MaxDepth /\ \A j \in 0 .. m - 1 : j \in 0 .. MaxDepth
    BY DepthIs
  <2>4. Nearest(o, m)
    BY <2>2, <2>3 DEF Nearest
  <2> QED BY <2>3, <2>4
<1> QED BY <1>1, <1>2

LEMMA FoundNearest ==
    ASSUME NEW o, NEW m \in 0 .. MaxDepth, Nearest(o, m)
    PROVE  FindPrivkey(o) = Chain(o)[m]
<1> DEFINE found == {d \in 0 .. MaxDepth : Chain(o)[d].type = "privkey"}
<1>1. m \in found /\ found # {}
  BY DEF Nearest
<1>2. \A d \in found : d \in Int /\ m \in Int /\ m <= d
  <2>1. SUFFICES ASSUME NEW d \in found, d < m PROVE FALSE
    BY DepthIs
  <2>2. d \in 0 .. m - 1
    BY <2>1, DepthIs
  <2> QED BY <2>1, <2>2 DEF Nearest
<1>3. FindPrivkey(o) = Chain(o)[Min(found)]
  BY <1>1, Zenon DEF FindPrivkey
<1> HIDE DEF found
<1>4. \A x \in found : (\A y \in found : x =< y) => x = m
  <2>1. SUFFICES ASSUME NEW x \in found, \A y \in found : x =< y PROVE x = m
    OBVIOUS
  <2> QED BY <1>1, <1>2, <2>1
<1>5. Min(found) = m
  BY <1>1, <1>2, <1>4, Zenon DEF Min
<1> QED BY <1>3, <1>5

LEMMA FoundNothing ==
    ASSUME NEW o, NoneFound(o)
    PROVE  FindPrivkey(o) = NoItem
<1>1. {d \in 0 .. MaxDepth : Chain(o)[d].type = "privkey"} = {}
  BY DEF NoneFound
<1> QED BY <1>1, Zenon DEF FindPrivkey

\* What sweep reads in a private key object is what its fields say.
LEMMA SweepReads ==
    ASSUME NEW s, True(s), s.type = "privkey"
    PROVE  SweepKey(s) = KeyOf(s)
<1> DEFINE k == Decoded(s)
<1>1. /\ s.encoding \in {"wif", "hex", "dec"} /\ PrivkeyFromObject(s) = KeyOf(s)
      /\ IsText(s.data) /\ IsKey(KeyOf(s)) /\ Is(KeyOf(s))
  BY KeyIs DEF True, KeyTypes
<1>2. KeyOf(s).compressed = s.compressed /\ s.compressed \in BOOLEAN /\ s.compressed # Nothing
  BY TrueFields, KeyIs DEF KeyTypes
<1>3. Is(k)
  BY <1>1, PrivkeyRead
<1>4. SweepKey(s) = Key(k.secret, IF s.encoding = "wif" THEN k.network ELSE Given(s.network, k.network),
                        Given(s.compressed, k.compressed))
  <2>1. s.encoding = "wif" => /\ k = DecodeWif(s.data)
                              /\ Is(DecodeWif(s.data)) =>
                                    SweepKey(s) = Key(DecodeWif(s.data).secret, DecodeWif(s.data).network,
                                                      Given(s.compressed, DecodeWif(s.data).compressed))
    BY NothingAssumption, DecodedIs DEF SweepKey
  <2>2. s.encoding = "hex" => /\ k = DecodeHex(s.data)
                              /\ Is(DecodeHex(s.data)) =>
                                    SweepKey(s) = Key(DecodeHex(s.data).secret,
                                                      Given(s.network, DecodeHex(s.data).network),
                                                      Given(s.compressed, DecodeHex(s.data).compressed))
    BY NothingAssumption, DecodedIs DEF SweepKey
  <2>3. s.encoding = "dec" => /\ k = DecodeDec(s.data)
                              /\ Is(DecodeDec(s.data)) =>
                                    SweepKey(s) = Key(DecodeDec(s.data).secret,
                                                      Given(s.network, DecodeDec(s.data).network),
                                                      Given(s.compressed, DecodeDec(s.data).compressed))
    BY NothingAssumption, DecodedIs DEF SweepKey
  <2> HIDE DEF k
  <2>4. CASE s.encoding = "wif"
    BY <1>3, <2>1, <2>4
  <2>5. CASE s.encoding = "hex"
    BY <1>3, <2>2, <2>5
  <2>6. CASE s.encoding = "dec"
    BY <1>3, <2>3, <2>6
  <2> QED BY <1>1, <2>4, <2>5, <2>6
<1>5. CASE s.encoding = "wif"
  <2>1. s.data.form = "wif" /\ k = s.data.key
    BY <1>1, <1>3, <1>5, DecodeIs, DecodedIs
  <2> HIDE DEF k
  <2>2. k = KeyOf(s)
    BY <1>1, <2>1, PrivkeyRead DEF k
  <2>3. SweepKey(s) = Key(k.secret, k.network, s.compressed)
    BY <1>2, <1>4, <1>5 DEF Given
  <2>4. KeyOf(s) = Key(KeyOf(s).secret, KeyOf(s).network, KeyOf(s).compressed)
    BY <1>1 DEF IsKey
  <2> QED BY <1>2, <2>2, <2>3, <2>4
<1>6. CASE s.encoding # "wif"
  <2>1. s.data.form # "wif"
    BY <1>1, <1>3, <1>6, DecodeIs, DecodedIs
  <2> HIDE DEF k
  <2>2. KeyOf(s) = Key(k.secret, Given(s.network, k.network), Given(s.compressed, k.compressed))
    BY <1>1, <1>3, <2>1, PrivkeyRead DEF k
  <2> QED BY <1>4, <1>6, <2>2
<1> QED BY <1>5, <1>6

\* One address and the key found for it: the addresses of two keys of one
\* secret and one network differ if and only if the compression does.
LEMMA SpendIs ==
    ASSUME NEW o, Honest(o), o.type = "address", NEW k, IsKey(k),
           k.secret = KeyOf(o).secret, k.network = o.network
    PROVE  LET swept == SpendOfAddress(o, k) IN
           /\ swept.ok <=> k.compressed = KeyOf(o).compressed
           /\ swept.ok => swept.objects[1].from = o.data /\ swept.objects[1].key = k
<1> DEFINE swept == SpendOfAddress(o, k)
           one == Spend(k, o.style, o.data)
<1>1. True(o)
  BY HonestIsTrue
<1>2. /\ o.data = EncodeAddress(KeyOf(o), o.style) /\ IsKey(KeyOf(o)) /\ o.network = KeyOf(o).network
      /\ NeedsCompressed(o.style) => KeyOf(o).compressed
  <2>1. PICK l : l = o.data.key
    OBVIOUS
  <2>2. o = AddressObject(l, o.style, o.source) /\ IsKey(l) /\ (NeedsCompressed(o.style) => l.compressed)
    BY <1>1, <2>1 DEF True
  <2>3. l = KeyOf(o)
    BY <2>1 DEF KeyOf
  <2>4. o.data = EncodeAddress(l, o.style) /\ o.network = l.network
    BY <2>2 DEF AddressObject
  <2> QED BY <2>2, <2>3, <2>4
<1>3. EncodeAddress(k, o.style) = o.data <=> k = KeyOf(o)
  <2>1. ASSUME NEW x, NEW y PROVE EncodeAddress(x, y).key = x
    BY DEF EncodeAddress
  <2> QED BY <1>2, <2>1
<1>4. k = KeyOf(o) <=> k.compressed = KeyOf(o).compressed
  BY <1>2, KeyIs
<1>5. Is(k) /\ (k = KeyOf(o) => Derives(k, o.style))
  BY <1>2, KeyIs DEF Derives
<1>6. ASSUME k = KeyOf(o) PROVE swept = Ok(<<one>>)
  <2>1. Is(k) /\ Derives(k, o.style) /\ EncodeAddress(k, o.style) = o.data
    BY <1>3, <1>5, <1>6
  <2> QED BY <2>1, Zenon DEF SpendOfAddress
<1>7. ASSUME k # KeyOf(o) PROVE ~swept.ok
  <2>1. Is(k) /\ EncodeAddress(k, o.style) # o.data
    BY <1>3, <1>5, <1>7
  <2>2. \E why : swept = Fail(why)
    BY <2>1 DEF SpendOfAddress
  <2> HIDE DEF swept
  <2> QED BY <2>2 DEF Fail
<1>8. one.from = o.data /\ one.key = k
  BY DEF Spend
<1> HIDE DEF swept, one
<1>9. Ok(<<one>>).ok /\ Ok(<<one>>).objects[1] = one
  BY DEF Ok
<1> QED BY <1>4, <1>6, <1>7, <1>8, <1>9 DEF swept

LEMMA SweptIs ==
    ASSUME NEW o, Honest(o), o.type = "address"
    PROVE  LET swept == Sweep(Plain, o) IN
           /\ NoneFound(o) \/ o.network # Main => ~swept.ok
           /\ \A m \in 0 .. MaxDepth : Nearest(o, m) /\ o.network = Main =>
                 swept = SpendOfAddress(o, KeyOf(Chain(o)[m]))
<1> DEFINE swept == Sweep(Plain, o)
<1>1. o.network = o.data.key.network
  BY HonestAgrees
<1>2. \A why : ~Fail(why).ok
  BY DEF Fail
<1>3. ASSUME o.network # Main PROVE ~swept.ok
  <2>1. swept = Fail("not a bitcoin address")
    BY <1>1, <1>3, Zenon DEF Sweep
  <2> HIDE DEF swept
  <2> QED BY <1>2, <2>1
<1>4. ASSUME NoneFound(o), o.network = Main PROVE ~swept.ok
  <2>1. FindPrivkey(o) = NoItem
    BY <1>4, FoundNothing
  <2>2. swept = Fail("missing private key")
    BY <1>1, <1>4, <2>1 DEF Sweep
  <2> HIDE DEF swept
  <2> QED BY <1>2, <2>2
<1>5. ASSUME NEW m \in 0 .. MaxDepth, Nearest(o, m), o.network = Main
      PROVE  swept = SpendOfAddress(o, KeyOf(Chain(o)[m]))
  <2>1. PICK s : s = Chain(o)[m]
    OBVIOUS
  <2>2. FindPrivkey(o) = s /\ s.type = "privkey"
    BY <1>5, <2>1, FoundNearest DEF Nearest
  <2>3. s # NoItem
    BY <2>2 DEF NoItem
  <2>4. True(s)
    BY <2>1, <2>2 DEF Honest, Types, KeyTypes
  <2>5. SweepKey(s) = KeyOf(s)
    BY <2>2, <2>4, SweepReads
  <2>6. swept = SpendOfAddress(o, SweepKey(s))
    BY <1>1, <1>5, <2>2, <2>3 DEF Sweep
  <2> QED BY <2>1, <2>5, <2>6
<1> QED BY <1>3, <1>4, <1>5

LEMMA HonestSweeps ==
    ASSUME NEW o, Honest(o), o.type = "address"
    PROVE  LET source(d) == Chain(o)[d]
               swept == Sweep(Plain, o) IN
           /\ swept.ok <=> /\ o.network = Main
                           /\ \E d \in 1 .. MaxDepth :
                                 /\ source(d).type = "privkey"
                                 /\ \A nearer \in 1 .. d - 1 : source(nearer).type # "privkey"
                                 /\ KeyOf(source(d)).compressed = KeyOf(o).compressed
           /\ swept.ok => /\ swept.objects[1].from = o.data
                          /\ swept.objects[1].key.secret = KeyOf(o).secret
<1> DEFINE source(d) == Chain(o)[d]
           swept == Sweep(Plain, o)
           First(d) == /\ source(d).type = "privkey"
                       /\ \A nearer \in 1 .. d - 1 : source(nearer).type # "privkey"
           Same(d) == KeyOf(source(d)).compressed = KeyOf(o).compressed
<1>1. Chain(o)[0] = o
  BY ChainSteps
<1>2. ASSUME NEW d \in 1 .. MaxDepth, First(d) PROVE Nearest(o, d) /\ d \in 0 .. MaxDepth
  <2>1. ASSUME NEW e \in 0 .. d - 1 PROVE Chain(o)[e].type # "privkey"
    <3>1. e = 0 \/ e \in 1 .. d - 1
      BY DepthIs
    <3> QED BY <1>1, <1>2, <3>1
  <2> QED BY <1>2, <2>1, DepthIs DEF Nearest
<1>3. ASSUME NEW m \in 0 .. MaxDepth, Nearest(o, m) PROVE m \in 1 .. MaxDepth /\ First(m)
  <2>1. m # 0
    BY <1>1, <1>3 DEF Nearest
  <2>2. \A e \in 1 .. m - 1 : e \in 0 .. m - 1
    OBVIOUS
  <2> QED BY <1>3, <2>1, <2>2, DepthIs DEF Nearest
<1>4. ASSUME NEW d \in 1 .. MaxDepth, First(d), o.network = Main
      PROVE  /\ swept.ok <=> Same(d)
             /\ swept.ok => /\ swept.objects[1].from = o.data
                            /\ swept.objects[1].key.secret = KeyOf(o).secret
  <2>1. PICK s : s = Chain(o)[d]
    OBVIOUS
  <2>2. s.type = "privkey" /\ True(s) /\ s.network = o.network /\ KeyOf(s).secret = KeyOf(o).secret
    BY <1>4, <2>1, SourceNetwork
  <2>3. PICK k : k = KeyOf(s)
    OBVIOUS
  <2>4. IsKey(k) /\ k.network = o.network /\ k.secret = KeyOf(o).secret
    BY <2>2, <2>3, TrueFields DEF True, KeyTypes
  <2>5. swept = SpendOfAddress(o, k)
    BY <1>2, <1>4, <2>1, <2>3, SweptIs
  <2> HIDE DEF swept
  <2>6. swept.ok <=> k.compressed = KeyOf(o).compressed
    BY <2>4, <2>5, SpendIs
  <2>7. swept.ok => swept.objects[1].from = o.data /\ swept.objects[1].key = k
    BY <2>4, <2>5, SpendIs
  <2>8. Same(d) <=> k.compressed = KeyOf(o).compressed
    BY <2>1, <2>3
  <2> HIDE DEF Same
  <2> QED BY <2>4, <2>6, <2>7, <2>8
<1>5. o.network # Main => ~swept.ok
  BY SweptIs
<1>6. NoneFound(o) => ~swept.ok
  BY SweptIs
<1>7. swept.ok => o.network = Main /\ \E d \in 1 .. MaxDepth : First(d)
  <2> HIDE DEF swept, First
  <2> QED BY <1>3, <1>5, <1>6, NearestOrNone
<1> HIDE DEF swept, First, Same
<1>8. /\ swept.ok <=> o.network = Main /\ \E d \in 1 .. MaxDepth : First(d) /\ Same(d)
      /\ swept.ok => /\ swept.objects[1].from = o.data
                     /\ swept.objects[1].key.secret = KeyOf(o).secret
  BY <1>4, <1>7
<1> QED BY <1>8 DEF swept, First, Same

\* An address on its way can be swept if and only if it is of mainnet, has a
\* private key among its sources, and the nearest of those has the compression
\* that the address was made with; what is spent from is then this address.
THEOREM Sweeping == Spec => []Sweepable
<1>1. IInv => Sweepable
  <2>1. SUFFICES ASSUME IInv, NEW o \in Objects, o.type = "address"
                 PROVE  LET source(d) == Chain(o)[d]
                            swept == Sweep(Plain, o) IN
                        /\ swept.ok <=> /\ o.network = Main
                                        /\ \E d \in 1 .. MaxDepth :
                                              /\ source(d).type = "privkey"
                                              /\ \A nearer \in 1 .. d - 1 : source(nearer).type # "privkey"
                                              /\ KeyOf(source(d)).compressed = KeyOf(o).compressed
                        /\ swept.ok => /\ swept.objects[1].from = o.data
                                       /\ swept.objects[1].key.secret = KeyOf(o).secret
    BY DEF Sweepable
  <2>2. Honest(o)
    BY <2>1, OnTheirWay
  <2> QED BY <2>1, <2>2, HonestSweeps
<1> QED BY <1>1, Invariant, PTL
=============================================================================
