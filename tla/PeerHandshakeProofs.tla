------------------------- MODULE PeerHandshakeProofs -------------------------
(***************************************************************************)
(* Proofs about PeerHandshake, for any messages, whatever their fields say *)
(* of their lengths, and any portions of the stream.                       *)
(*                                                                         *)
(* The inductive invariant says how far a message has been read at each    *)
(* place (Progress), and that what has been reported so far is right.      *)
(***************************************************************************)
EXTENDS PeerHandshake, TLAPS

Types ==
    /\ arguments \in Hosts
    /\ pc \in {"resolve", "connect", "send", "header", "payload", "end"}
    /\ addresses \in 0 .. MaxAddresses
    /\ any_timeout \in BOOLEAN /\ last_errno \in {"none", "refused", "other"}
    /\ message \in Messages \cup {Nothing} /\ conn \in {"none", "open", "closed", "reset"}
    /\ arrived \in Nat /\ off \in Nat
    /\ result \in Results \cup {Nothing} /\ (result = Nothing <=> pc # "end")

\* How much has been sent or read where.  A payload is read only when its
\* header is one that a version message may have.
Progress ==
    /\ pc \in {"resolve", "connect"} => message = Nothing /\ off = 0
    /\ pc \in {"send", "header", "payload"} => message \in Messages
    /\ pc = "send" => off < WireLen
    /\ pc = "header" => off <= HeaderLen /\ off <= arrived
    /\ pc = "payload" => /\ HeaderError(message) = Nothing
                         /\ off <= message.len /\ HeaderLen + off <= arrived
    /\ pc = "end" => off <= 1024 + WireLen

IInv == Types /\ Progress /\ ReportedIsComplete
-----------------------------------------------------------------------------
(***************************************************************************)
(* Messages.                                                               *)
(***************************************************************************)

LEMMA Fields ==
    \A m \in Messages :
        /\ m.len \in Nat /\ m.width \in Nat /\ m.agent \in Nat /\ m.size \in Nat
        /\ m.flag \in BOOLEAN /\ m # Nothing
BY MessagesAssumption, NothingAssumption

LEMMA Lengths == HeaderLen = 24 /\ WireLen = 133
BY DEF HeaderLen, WireLen, VersionLen, CompactSize

LEMMA ErrorIs ==
    ASSUME NEW why \in Errors
    PROVE  /\ Error(why) \in Results /\ Error(why) # Nothing
           /\ Error(why).error = why /\ "agent" \notin DOMAIN Error(why)
<1>1. Error(why) \in [error : Errors]
  BY DEF Error
<1>2. Error(why) \in Results
  BY <1>1 DEF Results
<1>3. Error(why) # Nothing
  BY <1>2, NothingAssumption
<1>4. DOMAIN Error(why) = {"error"}
  BY DEF Error
<1> QED BY <1>2, <1>3, <1>4 DEF Error

LEMMA LengthRange == \A n \in Nat : n \in 85 .. 1024 <=> ~(n < 85 \/ n > 1024)
OBVIOUS

\* A header that is refused belongs to no well formed message, and says why.
LEMMA HeaderErrorIs ==
    ASSUME NEW m \in Messages
    PROVE  /\ HeaderError(m) # Nothing => HeaderError(m) \in Errors /\ ~WellFormed(m)
           /\ HeaderError(m) = Nothing =>
                  m.magic /\ m.command = "version" /\ m.len \in 85 .. 1024
<1>1. m.len \in Nat
  BY Fields
<1>2. \A why \in Errors : why # Nothing
  BY NothingAssumption
<1> DEFINE Outside == m.len < 85 \/ m.len > 1024
<1>3. HeaderError(m) = IF ~m.magic THEN "invalid P2P magic"
                       ELSE IF m.command = "padding" THEN "invalid P2P command"
                       ELSE IF m.command # "version" THEN "expected version message"
                       ELSE IF Outside THEN "invalid version message" ELSE Nothing
  BY DEF HeaderError
<1>4. m.len \in 85 .. 1024 <=> ~Outside
  <2> DEFINE n == m.len
  <2>1. n \in Nat
    BY <1>1
  <2>2. n \in 85 .. 1024 <=> ~(n < 85 \/ n > 1024)
    <3> HIDE DEF n
    <3> QED BY <2>1, LengthRange
  <2> QED BY <2>2
<1> HIDE DEF Outside
<1>5. CASE ~m.magic
  BY <1>2, <1>5 DEF HeaderError, WellFormed, Errors
<1>6. CASE m.magic /\ m.command # "version"
  <2>1. HeaderError(m) \in {"invalid P2P command", "expected version message"}
    BY <1>6, <1>3
  <2>2. ~WellFormed(m)
    BY <1>6 DEF WellFormed
  <2>3. HeaderError(m) \in Errors
    BY <2>1 DEF Errors
  <2> QED BY <1>2, <2>2, <2>3
<1>7. CASE m.magic /\ m.command = "version" /\ m.len \notin 85 .. 1024
  <2>1. HeaderError(m) = "invalid version message"
    BY <1>7, <1>3, <1>4
  <2>2. ~WellFormed(m)
    BY <1>7 DEF WellFormed
  <2> QED BY <1>2, <2>1, <2>2 DEF Errors
<1>8. CASE m.magic /\ m.command = "version" /\ m.len \in 85 .. 1024
  <2>1. HeaderError(m) = Nothing
    BY <1>8, <1>3, <1>4
  <2> QED BY <1>8, <2>1
<1> QED BY <1>5, <1>6, <1>7, <1>8

\* parse_version_payload accepts, behind a header that is right, exactly what a
\* serializer may have made, and finds in it what was put there.
LEMMA ParsesIffWellFormed ==
    ASSUME NEW m \in Messages, HeaderError(m) = Nothing, m.sum
    PROVE  /\ WellFormed(m) => ParsesAs(m) = [agent |-> m.agent,
                relay |-> 80 + m.width + m.agent + 4 < m.len /\ m.flag]
           /\ ~WellFormed(m) => ParsesAs(m) = Error("invalid version message")
<1>1. m.len \in Nat /\ m.width \in Nat /\ m.agent \in Nat
  BY Fields
<1>2. m.magic /\ m.command = "version" /\ m.len \in 85 .. 1024
  BY HeaderErrorIs
<1> DEFINE Refused ==
        LET height == 80 + m.width + m.agent IN
        \/ m.len < 85 \/ 80 + m.width > m.len
        \/ m.width # CompactSize(m.agent) \/ m.agent > 256
        \/ height > m.len \/ height + 4 > m.len
<1>3. WellFormed(m) <=> ~Refused
  BY <1>1, <1>2 DEF WellFormed, VersionLen
<1>4. ParsesAs(m) = IF Refused THEN Error("invalid version message")
                    ELSE [agent |-> m.agent,
                          relay |-> 80 + m.width + m.agent + 4 < m.len /\ m.flag]
  BY DEF ParsesAs
<1> HIDE DEF Refused
<1> QED BY <1>3, <1>4
-----------------------------------------------------------------------------
(***************************************************************************)
(* The steps.                                                              *)
(***************************************************************************)

\* A step that does not end the handshake needs to be looked at for types and
\* progress only.
LEMMA GoesOn ==
    ASSUME Types', Progress', pc' # "end"
    PROVE  IInv'
BY DEF IInv, ReportedIsComplete

\* What may be said also of a well formed message that has arrived.
Excuses == {"timed out after 15s", "read failed", "write failed"}

\* An error ends it; it is right if the message was not well formed or not all
\* there, or if the time, the reader or the writer says so.
LEMMA Throws ==
    ASSUME IInv, pc # "end", NEW why \in Errors, Throw(why),
           message \in Messages =>
               \/ ~WellFormed(message) \/ arrived < HeaderLen + message.len
               \/ why \in Excuses
    PROVE  IInv'
<1>1. /\ pc' = "end" /\ result' = Error(why)
      /\ UNCHANGED <<arguments, message, arrived, conn, addresses, any_timeout, last_errno, off>>
  BY DEF Throw, End
<1>2. /\ Error(why) \in Results /\ Error(why) # Nothing
      /\ Error(why).error = why /\ "agent" \notin DOMAIN Error(why)
  BY ErrorIs
<1>3. Types'
  BY <1>1, <1>2 DEF IInv, Types
<1>4. off <= 1024 + WireLen
  <2>1. ASSUME pc = "payload" PROVE off <= 1024
    <3>1. message \in Messages /\ HeaderError(message) = Nothing /\ off <= message.len /\ off \in Nat
      BY <2>1 DEF IInv, Types, Progress
    <3>2. message.len \in 85 .. 1024
      BY <3>1, HeaderErrorIs
    <3> QED BY <3>1, <3>2
  <2>2. off \in Nat /\ pc \in {"resolve", "connect", "send", "header", "payload"}
    BY DEF IInv, Types
  <2>3. /\ pc \in {"resolve", "connect"} => off = 0
        /\ pc = "send" => off < WireLen
        /\ pc = "header" => off <= HeaderLen
    BY DEF IInv, Progress
  <2> QED BY <2>1, <2>2, <2>3, Lengths
<1>5. Progress'
  BY <1>1, <1>4 DEF Progress
<1>6. ReportedIsComplete'
  BY <1>1, <1>2 DEF ReportedIsComplete, IInv, Types, Excuses
<1> QED BY <1>3, <1>5, <1>6 DEF IInv

LEMMA ResolveStep == IInv /\ Resolve => IInv'
<1> SUFFICES ASSUME IInv, Resolve PROVE IInv'
  OBVIOUS
<1>1. pc = "resolve" /\ message = Nothing /\ message \notin Messages
  <2>1. pc = "resolve" /\ message = Nothing
    BY DEF IInv, Progress, Resolve
  <2> QED BY <2>1, NothingAssumption
<1>2. ASSUME NEW why \in Errors, Throw(why) PROVE IInv'
  BY <1>1, <1>2, Throws
<1>3. HostError(arguments) # Nothing => HostError(arguments) \in Errors
  BY DEF HostError, Errors
<1>4. CASE /\ pc' = "connect" /\ addresses' \in 1 .. MaxAddresses
           /\ UNCHANGED <<arguments, any_timeout, last_errno, message, conn, arrived, off, result>>
  <2>1. Types'
    BY <1>1, <1>4, BoundsAssumption DEF IInv, Types
  <2>2. Progress'
    BY <1>1, <1>4 DEF IInv, Progress
  <2> QED BY <1>4, <2>1, <2>2, GoesOn
<1> QED BY <1>2, <1>3, <1>4 DEF Resolve, Errors

LEMMA ConnectStep ==
    IInv /\ ((\E why \in {"timeout", "refused", "other"} : TryNext(why))
                \/ NoTimeouts \/ Connected \/ CannotConnect) => IInv'
<1> SUFFICES ASSUME IInv, \/ \E why \in {"timeout", "refused", "other"} : TryNext(why)
                          \/ NoTimeouts \/ Connected \/ CannotConnect
             PROVE  IInv'
  OBVIOUS
<1>1. pc = "connect" /\ message = Nothing /\ message \notin Messages /\ off = 0
  <2>1. pc = "connect"
    BY DEF TryNext, NoTimeouts, Connected, CannotConnect
  <2>2. message = Nothing /\ off = 0
    BY <2>1 DEF IInv, Progress
  <2> QED BY <2>1, <2>2, NothingAssumption
<1>2. ASSUME NEW why \in Errors, Throw(why) PROVE IInv'
  BY <1>1, <1>2, Throws
<1>3. ASSUME NEW why \in {"timeout", "refused", "other"}, TryNext(why) PROVE IInv'
  <2>1. addresses' \in 0 .. MaxAddresses
    BY <1>3, BoundsAssumption DEF TryNext, IInv, Types
  <2>2. any_timeout' \in BOOLEAN /\ last_errno' \in {"none", "refused", "other"}
    BY <1>3 DEF TryNext, IInv, Types
  <2>3. UNCHANGED <<arguments, pc, message, conn, arrived, off, result>>
    BY <1>3 DEF TryNext
  <2>4. Types'
    BY <2>1, <2>2, <2>3 DEF IInv, Types
  <2>5. Progress'
    BY <1>1, <2>3 DEF Progress
  <2> QED BY <1>1, <2>3, <2>4, <2>5, GoesOn
<1>4. CASE Connected
  <2>1. /\ message' \in Messages /\ pc' = "send" /\ conn' = "open" /\ off' = 0
        /\ addresses' = 0 /\ any_timeout' = FALSE /\ last_errno' = "none"
        /\ UNCHANGED <<arguments, arrived, result>>
    BY <1>4 DEF Connected
  <2>2. Types'
    <3>1. addresses' = 0 /\ any_timeout' = FALSE
      BY <2>1
    <3>2. addresses' \in 0 .. MaxAddresses
      BY <3>1, BoundsAssumption
    <3>3. arguments' \in Hosts /\ arrived' \in Nat /\ result' = Nothing
      BY <1>1, <2>1 DEF IInv, Types
    <3> QED BY <2>1, <3>1, <3>3, <3>2 DEF Types
  <2>3. Progress'
    BY <2>1, Lengths DEF Progress
  <2> QED BY <2>1, <2>2, <2>3, GoesOn
<1>5. CASE NoTimeouts
  BY <1>2, <1>5 DEF NoTimeouts, Errors
<1>6. CASE CannotConnect
  BY <1>2, <1>6 DEF CannotConnect, Errors
<1> QED BY <1>3, <1>4, <1>5, <1>6

LEMMA SendStep == IInv /\ (Send \/ SendFails) => IInv'
<1> SUFFICES ASSUME IInv, Send \/ SendFails PROVE IInv'
  OBVIOUS
<1>1. pc = "send" /\ message \in Messages /\ off < WireLen
  <2>1. pc = "send"
    BY DEF Send, SendFails
  <2> QED BY <2>1 DEF IInv, Progress
<1>2. CASE Send
  <2>1. PICK n \in Chunks : IF off + n < WireLen THEN off' = off + n /\ UNCHANGED pc
                                                 ELSE off' = 0 /\ pc' = "header"
    BY <1>2 DEF Send
  <2>2. UNCHANGED <<arguments, addresses, any_timeout, last_errno, message, conn, arrived, result>>
    BY <1>2 DEF Send
  <2>3. n \in Nat /\ arrived \in Nat /\ off \in Nat
    BY BoundsAssumption DEF IInv, Types
  <2>4. Types'
    BY <1>1, <2>1, <2>2, <2>3 DEF IInv, Types
  <2>5. Progress'
    BY <1>1, <2>1, <2>2, <2>3, Lengths DEF Progress
  <2> QED BY <1>1, <2>1, <2>4, <2>5, GoesOn
<1>3. CASE SendFails
  BY <1>1, <1>3, Throws DEF SendFails, Errors, Excuses
<1> QED BY <1>2, <1>3

\* How many bytes are asked for, and that none is read that has not arrived.
LEMMA ReadingIs ==
    ASSUME IInv, Reading
    PROVE  /\ message \in Messages /\ pc # "end" /\ off <= Needed
           /\ Needed \in Nat /\ Buffered \in Nat
           /\ Needed <= IF pc = "header" THEN HeaderLen ELSE 1024
<1>1. pc \in {"header", "payload"} /\ message \in Messages
  BY DEF Reading, IInv, Progress
<1>2. message.len \in Nat
  BY <1>1, Fields
<1>3. arrived \in Nat /\ off \in Nat
  BY DEF IInv, Types
<1>4. pc = "payload" => message.len <= 1024
  BY <1>1, HeaderErrorIs DEF IInv, Progress
<1> QED BY <1>1, <1>2, <1>3, <1>4, Lengths DEF IInv, Progress, Needed, Buffered

LEMMA NotPast ==
    ASSUME NEW a \in Nat, NEW o \in Nat, NEW b \in Nat, b <= o + (a - 24 - o)
    PROVE  24 + b <= a
OBVIOUS

LEMMA RecvStep == IInv /\ (Recv \/ RecvEnds \/ RecvFails) => IInv'
<1> SUFFICES ASSUME IInv, Recv \/ RecvEnds \/ RecvFails PROVE IInv'
  OBVIOUS
<1>1. Reading /\ pc \in {"header", "payload"} /\ off < Needed
  BY DEF Recv, RecvEnds, RecvFails, Reading
<1>2. /\ message \in Messages /\ pc # "end"
      /\ Needed \in Nat /\ Buffered \in Nat /\ off \in Nat /\ arrived \in Nat
  BY <1>1, ReadingIs DEF IInv, Types
<1>3. CASE Recv
  <2>1. PICK n \in Chunks : off' = off + Least(n, Least(Buffered, Needed - off))
    BY <1>3 DEF Recv
  <2>2. /\ UNCHANGED <<arguments, pc, addresses, any_timeout, last_errno, message, conn>>
        /\ UNCHANGED <<arrived, result>>
    BY <1>3 DEF Recv
  <2>3. off' \in Nat /\ off' <= Needed /\ off' <= off + Buffered
    <3>1. n \in Nat
      BY BoundsAssumption
    <3> HIDE DEF Needed, Buffered
    <3> QED BY <1>1, <1>2, <2>1, <3>1 DEF Least
  <2>4. Types'
    BY <2>2, <2>3 DEF IInv, Types
  <2>5. CASE pc = "header"
    <3>1. off' <= HeaderLen /\ off' <= arrived'
      BY <1>2, <2>2, <2>3, <2>5, Lengths DEF Needed, Buffered
    <3> QED BY <1>2, <2>2, <2>4, <2>5, <3>1, GoesOn DEF Progress
  <2>6. CASE pc = "payload"
    <3>1. Needed = message.len /\ Buffered = arrived - HeaderLen - off
      BY <2>6 DEF Needed, Buffered
    <3>2. off \in Nat /\ arrived \in Nat /\ off' \in Nat
      BY <1>2, <2>3
    <3>3. off' <= off + (arrived - 24 - off)
      BY <2>3, <3>1, Lengths
    <3>4. off' <= message.len /\ 24 + off' <= arrived
      BY <3>2, <3>3, <2>3, <3>1, NotPast
    <3>5. off' <= message.len /\ HeaderLen + off' <= arrived'
      BY <2>2, <3>4, Lengths
    <3>6. HeaderError(message) = Nothing
      BY <2>6 DEF IInv, Progress
    <3>7. HeaderError(message)' = HeaderError(message)
      BY <2>2 DEF HeaderError
    <3> QED BY <1>2, <2>2, <2>4, <2>6, <3>6, <3>7, <3>5, GoesOn DEF Progress
  <2> QED BY <1>1, <2>5, <2>6
<1>4. CASE RecvEnds
  <2>1. arrived < HeaderLen + message.len
    <3>1. Buffered = 0
      BY <1>4 DEF RecvEnds
    <3>2. message.len \in Nat
      BY <1>2, Fields
    <3> QED BY <1>1, <1>2, <3>1, <3>2, Lengths DEF Needed, Buffered
  <2>2. Throw("timed out after 15s") \/ Throw("peer closed connection")
    BY <1>4 DEF RecvEnds
  <2> QED BY <1>2, <2>1, <2>2, Throws DEF Errors, Excuses
<1>5. CASE RecvFails
  BY <1>2, <1>5, Throws DEF RecvFails, Errors, Excuses
<1> QED BY <1>3, <1>4, <1>5

LEMMA HeaderStep == IInv /\ HeaderRead => IInv'
<1> SUFFICES ASSUME IInv, HeaderRead PROVE IInv'
  OBVIOUS
<1>1. pc = "header" /\ off = HeaderLen /\ message \in Messages /\ off <= arrived
  BY DEF IInv, Progress, HeaderRead
<1>2. CASE HeaderError(message) # Nothing
  <2>1. HeaderError(message) \in Errors /\ ~WellFormed(message)
    BY <1>1, <1>2, HeaderErrorIs
  <2>2. Throw(HeaderError(message))
    BY <1>2 DEF HeaderRead
  <2> QED BY <1>1, <2>1, <2>2, Throws
<1>3. CASE HeaderError(message) = Nothing
  <2>1. /\ pc' = "payload" /\ off' = 0
        /\ UNCHANGED <<arguments, addresses, any_timeout, last_errno, message, conn, arrived, result>>
    BY <1>3 DEF HeaderRead
  <2>2. message.len \in Nat
    BY <1>1, Fields
  <2>3. Types'
    BY <1>1, <2>1 DEF IInv, Types
  <2>4. Progress'
    BY <1>1, <1>3, <2>1, <2>2, Lengths DEF Progress
  <2> QED BY <2>1, <2>3, <2>4, GoesOn
<1> QED BY <1>2, <1>3

LEMMA PayloadStep == IInv /\ PayloadRead => IInv'
<1> SUFFICES ASSUME IInv, PayloadRead PROVE IInv'
  OBVIOUS
<1>1. /\ pc = "payload" /\ off = message.len /\ message \in Messages
      /\ HeaderError(message) = Nothing /\ HeaderLen + off <= arrived
  BY DEF IInv, Progress, PayloadRead
<1>2. message.len \in Nat /\ message.width \in Nat /\ message.agent \in Nat /\ message.flag \in BOOLEAN
  BY <1>1, Fields
<1>3. ASSUME NEW why \in Errors, Throw(why), ~WellFormed(message) PROVE IInv'
  BY <1>1, <1>3, Throws
<1>4. CASE ~message.sum
  <2>1. Throw("invalid version checksum")
    BY <1>4 DEF PayloadRead, Throw
  <2>2. ~WellFormed(message)
    BY <1>4 DEF WellFormed
  <2> QED BY <1>3, <2>1, <2>2 DEF Errors
<1>5. CASE message.sum /\ ~WellFormed(message)
  <2>1. ParsesAs(message) = Error("invalid version message")
    BY <1>1, <1>5, ParsesIffWellFormed
  <2>2. Throw("invalid version message")
    BY <1>5, <2>1 DEF PayloadRead, Throw
  <2> QED BY <1>3, <1>5, <2>2 DEF Errors
<1>6. CASE message.sum /\ WellFormed(message)
  <2> DEFINE relay == 80 + message.width + message.agent + 4 < message.len /\ message.flag
  <2>1. ParsesAs(message) = [agent |-> message.agent, relay |-> relay]
    BY <1>1, <1>6, ParsesIffWellFormed
  <2>2. /\ pc' = "end" /\ result' = [agent |-> message.agent, relay |-> relay]
        /\ UNCHANGED <<arguments, message, arrived, conn, addresses, any_timeout, last_errno, off>>
    BY <1>6, <2>1 DEF PayloadRead, End
  <2>3. relay = (message.flag /\ message.len >= VersionLen(message.agent))
    <3>1. message.width = CompactSize(message.agent) /\ message.len \in Nat
          /\ message.agent \in Nat /\ message.width \in Nat
      BY <1>2, <1>6 DEF WellFormed
    <3>2. 80 + message.width + message.agent + 4 < message.len
              <=> message.len >= VersionLen(message.agent)
      BY <3>1 DEF VersionLen
    <3> QED BY <3>2, Zenon
  <2> HIDE DEF relay
  <2>4. result' \in Results /\ result' # Nothing
    <3>1. relay \in BOOLEAN /\ message.agent \in 0 .. 256
      BY <1>2, <1>6 DEF relay, WellFormed
    <3>2. result' \in Results
      BY <2>2, <3>1 DEF Results
    <3> QED BY <3>2, NothingAssumption
  <2>5. Types'
    BY <1>1, <2>2, <2>4 DEF IInv, Types
  <2>6. Progress'
    <3>1. message.len \in Nat /\ message.len <= 1024
      BY <1>1, <1>2, HeaderErrorIs
    <3> QED BY <1>1, <2>2, <3>1, Lengths DEF Progress
  <2>7. ReportedIsComplete'
    <3>1. "agent" \in DOMAIN result' /\ result'.agent = message.agent /\ result'.relay = relay
      BY <2>2
    <3>2. arrived >= HeaderLen + message.len
      <4>1. message.len \in Nat /\ arrived \in Nat
        BY <1>2 DEF IInv, Types
      <4> QED BY <1>1, <4>1, Lengths
    <3>3. WellFormed(message)' /\ message' = message /\ arrived' = arrived
      BY <1>6, <2>2 DEF WellFormed
    <3> QED BY <2>3, <3>1, <3>2, <3>3 DEF ReportedIsComplete
  <2> QED BY <2>5, <2>6, <2>7 DEF IInv
<1> QED BY <1>4, <1>5, <1>6

LEMMA PeerStep == IInv /\ (PeerSends \/ PeerCloses) => IInv'
<1> SUFFICES ASSUME IInv, PeerSends \/ PeerCloses PROVE IInv'
  OBVIOUS
<1>1. pc \in {"send", "header", "payload"} /\ message \in Messages
  BY DEF IInv, Progress, PeerSends, PeerCloses
<1>2. CASE PeerSends
  <2>1. PICK n \in Chunks : arrived' = Least(arrived + n, HeaderLen + message.size)
    BY <1>2 DEF PeerSends
  <2>2. /\ UNCHANGED <<arguments, pc, addresses, any_timeout, last_errno, message, conn>>
        /\ UNCHANGED <<off, result>> /\ arrived < HeaderLen + message.size
    BY <1>2 DEF PeerSends
  <2>3. arrived' \in Nat /\ arrived <= arrived'
    <3>1. n \in Nat /\ arrived \in Nat /\ message.size \in Nat
      BY <1>1, BoundsAssumption, Fields DEF IInv, Types
    <3> QED BY <2>1, <2>2, <3>1, Lengths DEF Least
  <2>4. Types'
    BY <2>2, <2>3 DEF IInv, Types
  <2>5. Progress'
    BY <1>1, <2>2, <2>3, Lengths DEF IInv, Types, Progress
  <2> QED BY <1>1, <2>2, <2>4, <2>5, GoesOn
<1>3. CASE PeerCloses
  <2>1. /\ conn' \in {"closed", "reset"}
        /\ UNCHANGED <<arguments, pc, addresses, any_timeout, last_errno, message, arrived>>
        /\ UNCHANGED <<off, result>>
    BY <1>3 DEF PeerCloses
  <2>2. Types'
    BY <2>1 DEF IInv, Types
  <2>3. Progress'
    BY <1>1, <2>1 DEF IInv, Progress
  <2> QED BY <1>1, <2>1, <2>2, <2>3, GoesOn
<1> QED BY <1>2, <1>3

LEMMA Inductive == Spec => []IInv
<1>1. Init => IInv
  <2> SUFFICES ASSUME Init PROVE IInv
    OBVIOUS
  <2>1. addresses = 0
    BY DEF Init
  <2>2. addresses \in 0 .. MaxAddresses
    BY <2>1, BoundsAssumption
  <2>3. Types
    BY <2>2 DEF Init, Types
  <2> QED BY <2>3 DEF Init, Progress, ReportedIsComplete, IInv
<1>2. IInv /\ [Next]_vars => IInv'
  <2> SUFFICES ASSUME IInv, [Next]_vars PROVE IInv'
    OBVIOUS
  <2>1. CASE UNCHANGED vars
    <3>1. Types' /\ Progress'
      BY <2>1 DEF vars, IInv, Types, Progress
    <3>2. ReportedIsComplete'
      BY <2>1 DEF vars, IInv, ReportedIsComplete
    <3> QED BY <3>1, <3>2 DEF IInv
  <2>2. CASE Process
    BY <2>2, ResolveStep, ConnectStep, SendStep, RecvStep, HeaderStep, PayloadStep DEF Process
  <2> QED BY <2>1, <2>2, PeerStep DEF Next
<1> QED BY <1>1, <1>2, PTL DEF Spec
-----------------------------------------------------------------------------
\* Every variable has its type; no buffer of read_exact is filled past its end,
\* and none with bytes that have not arrived.
THEOREM TypeCorrect == Spec => []TypeOK
<1>1. IInv => TypeOK
  <2> SUFFICES ASSUME IInv PROVE TypeOK
    OBVIOUS
  <2>1. Reading => Buffered >= 0 /\ off \in 0 .. Needed
    BY ReadingIs DEF IInv, Types
  <2>2. ~Reading => off \in 0 .. 1024 + WireLen
    BY Lengths DEF Reading, IInv, Types, Progress
  <2>3. (result = Nothing) = (pc # "end")
    BY DEF IInv, Types
  <2> QED BY <2>1, <2>2, <2>3 DEF TypeOK, IInv, Types
<1> QED BY <1>1, Inductive, PTL

\* "btk node" reports a peer exactly when a well formed version message was read
\* to its last byte, with the fields of that message, however its bytes arrive;
\* every other end is an error, and says no more than is true.
THEOREM Reported == Spec => []ReportedIsComplete
<1>1. IInv => ReportedIsComplete
  BY DEF IInv
<1> QED BY <1>1, Inductive, PTL
=============================================================================
