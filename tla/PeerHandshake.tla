---------------------------- MODULE PeerHandshake ----------------------------
(***************************************************************************)
(* btk node (src/src/cmd/node.cpp, src/src/net/p2p.cpp): connect to the    *)
(* first address of the host that accepts, send a version message, read    *)
(* one message of the peer, header and payload, and report it.             *)
(*                                                                         *)
(* The bytes of the peer arrive in any portions, may stop at any point,    *)
(* and the peer may close the connection.  A message is what its parser    *)
(* can tell of it: whether magic, command and checksum are right, the      *)
(* length that it declares, and the fields of the payload, with how many   *)
(* bytes really follow the header.                                         *)
(***************************************************************************)
EXTENDS Integers, Sequences, SequencesExt

CONSTANTS Nothing,
          Hosts,         \* what is given as --host and --port
          MaxAddresses,  \* bound: the addresses of the host
          Messages,      \* what a peer may send
          Chunks         \* how much one call of recv or send may move

\* What may be thrown, and what is reported.
Errors ==
    {"invalid host", "port specified twice", "invalid port", "missing host",
     "could not resolve host", "connect failed", "connection refused",
     "connect timed out after 15s", "timed out after 15s", "write failed", "read failed",
     "peer closed connection", "invalid P2P magic", "invalid P2P command",
     "expected version message", "invalid version message", "invalid version checksum"}
Results == [error : Errors] \cup [agent : 0 .. 256, relay : BOOLEAN]

\* What the bytes of a message are read into; no portion is empty.
ASSUME MessagesAssumption == \A m \in Messages :
    /\ m.len \in Nat /\ m.width \in Nat /\ m.agent \in Nat /\ m.size \in Nat
    /\ m.magic \in BOOLEAN /\ m.sum \in BOOLEAN /\ m.flag \in BOOLEAN
ASSUME BoundsAssumption == MaxAddresses \in Nat /\ Chunks \subseteq Nat \ {0}
ASSUME NothingAssumption == Nothing \notin Messages /\ Nothing \notin Errors /\ Nothing \notin Results

VARIABLES
    arguments, \* --host, as the number of colons, its parts, and --port
    pc,        \* resolve, connect, send, header, payload, end
    addresses, \* how many addresses are still to be tried
    any_timeout, last_errno,   \* how the others failed
    message,   \* what the connected peer will send
    conn,      \* the connection: none, open, closed or reset by the peer
    arrived,   \* how many bytes of it have arrived
    off,       \* off in write_exact or read_exact
    result     \* the NodePeer, or what was thrown

vars == <<arguments, pc, addresses, any_timeout, last_errno, message, conn, arrived, off, result>>

Least(a, b) == IF a < b THEN a ELSE b
HeaderLen   == 24
CompactSize(n) == IF n < 253 THEN 1 ELSE IF n <= 65535 THEN 3 ELSE 5

\* serialize_version_payload and serialize_p2p_message of our own version
\* message: a user agent of 23 bytes, and the relay flag.
VersionLen(agent) == 80 + CompactSize(agent) + agent + 4 + 1
WireLen == HeaderLen + VersionLen(23)

Error(why) == [error |-> why]
-----------------------------------------------------------------------------
\* resolve_host_port: a colon in --host, and --port.
HostError(a) ==
    IF a.colons > 1 THEN "invalid host"
    ELSE IF a.colons = 1 /\ a.port THEN "port specified twice"
    ELSE IF a.colons = 1 /\ ~a.suffix THEN "invalid port"
    ELSE IF ~a.name THEN "missing host"
    ELSE Nothing

\* What the header is refused for, in the order of the checks.
HeaderError(m) ==
    IF ~m.magic THEN "invalid P2P magic"
    ELSE IF m.command = "padding" THEN "invalid P2P command"
    ELSE IF m.command # "version" THEN "expected version message"
    ELSE IF m.len < 85 \/ m.len > 1024 THEN "invalid version message"
    ELSE Nothing

\* parse_version_payload on the bytes that the header declares: 80 bytes,
\* the length of the user agent in width bytes, the user agent, the height,
\* and perhaps the relay flag; what follows is not looked at.
ParsesAs(m) ==
    LET height == 80 + m.width + m.agent IN
    IF \/ m.len < 85 \/ 80 + m.width > m.len
       \/ m.width # CompactSize(m.agent) \/ m.agent > 256
       \/ height > m.len \/ height + 4 > m.len
    THEN Error("invalid version message")
    ELSE [agent |-> m.agent, relay |-> height + 4 < m.len /\ m.flag]
-----------------------------------------------------------------------------
End(r) == pc' = "end" /\ result' = r /\ UNCHANGED <<arguments, message, arrived, conn>>
Throw(why) == End(Error(why)) /\ UNCHANGED <<addresses, any_timeout, last_errno, off>>

Resolve ==
    /\ pc = "resolve"
    /\ IF HostError(arguments) # Nothing THEN Throw(HostError(arguments))
       ELSE \/ Throw("could not resolve host")
            \/ /\ pc' = "connect" /\ addresses' \in 1 .. MaxAddresses
               /\ UNCHANGED <<arguments, any_timeout, last_errno, message, conn, arrived, off, result>>

\* connect_one fails: no answer in 15 s, a refusal, or another error, of
\* which a signal during the poll is one.
TryNext(why) ==
    /\ pc = "connect" /\ addresses > 0
    /\ addresses' = addresses - 1
    /\ any_timeout' = (any_timeout \/ why = "timeout")
    /\ last_errno' = IF why = "timeout" THEN last_errno ELSE why
    /\ UNCHANGED <<arguments, pc, message, conn, arrived, off, result>>
\* set_timeouts throws out of the loop: the other addresses are not tried.
NoTimeouts == pc = "connect" /\ addresses > 0 /\ Throw("connect failed")
\* The list is freed, and how the other addresses failed is forgotten.
Connected ==
    /\ pc = "connect" /\ addresses > 0
    /\ message' \in Messages
    /\ pc' = "send" /\ conn' = "open" /\ off' = 0
    /\ addresses' = 0 /\ any_timeout' = FALSE /\ last_errno' = "none"
    /\ UNCHANGED <<arguments, arrived, result>>
CannotConnect ==
    /\ pc = "connect" /\ addresses = 0
    /\ Throw(IF any_timeout THEN "connect timed out after 15s"
             ELSE IF last_errno = "refused" THEN "connection refused" ELSE "connect failed")

\* write_exact: any portion, until everything is sent.
Send ==
    /\ pc = "send" /\ conn # "reset"
    /\ \E n \in Chunks :
          IF off + n < WireLen THEN off' = off + n /\ UNCHANGED pc
                               ELSE off' = 0 /\ pc' = "header"
    /\ UNCHANGED <<arguments, addresses, any_timeout, last_errno, message, conn, arrived, result>>
SendFails ==
    /\ pc = "send"
    /\ Throw(IF conn = "open" THEN "timed out after 15s" ELSE "write failed")

\* read_exact: what has arrived and was not read yet, in any portion.
Reading  == pc \in {"header", "payload"}
Needed   == IF pc = "header" THEN HeaderLen ELSE message.len
Buffered == arrived - (IF pc = "header" THEN 0 ELSE HeaderLen) - off
Recv_Whole ==                      \* mutant: one recv fills the buffer
    /\ Reading /\ Buffered > 0 /\ off < Needed /\ off' = Needed
    /\ UNCHANGED <<arguments, pc, addresses, any_timeout, last_errno, message, conn, arrived, result>>
Recv ==
    /\ Reading /\ Buffered > 0 /\ off < Needed
    /\ \E n \in Chunks : off' = off + Least(n, Least(Buffered, Needed - off))
    /\ UNCHANGED <<arguments, pc, addresses, any_timeout, last_errno, message, conn, arrived, result>>
RecvEnds_Spins ==                  \* mutant: recv = 0 is taken for a portion
    Reading /\ Buffered = 0 /\ off < Needed /\ conn = "open"
    /\ Throw("timed out after 15s")
RecvEnds ==
    /\ Reading /\ Buffered = 0 /\ off < Needed
    /\ conn # "reset"
    /\ Throw(IF conn = "open" THEN "timed out after 15s" ELSE "peer closed connection")
RecvFails ==
    /\ Reading /\ off < Needed /\ conn = "reset" /\ Throw("read failed")

HeaderRead ==
    /\ pc = "header" /\ off = HeaderLen
    /\ IF HeaderError(message) # Nothing THEN Throw(HeaderError(message))
       ELSE /\ pc' = "payload" /\ off' = 0
            /\ UNCHANGED <<arguments, addresses, any_timeout, last_errno, message, conn, arrived, result>>
PayloadRead_Unchecked ==           \* mutant: the checksum is not compared
    /\ pc = "payload" /\ off = message.len
    /\ End(ParsesAs(message)) /\ UNCHANGED <<addresses, any_timeout, last_errno, off>>
PayloadRead ==
    /\ pc = "payload" /\ off = message.len
    /\ End(IF message.sum THEN ParsesAs(message) ELSE Error("invalid version checksum"))
    /\ UNCHANGED <<addresses, any_timeout, last_errno, off>>
-----------------------------------------------------------------------------
\* The peer: it sends what it has in any portions, and may close.
PeerSends ==
    /\ pc \in {"send", "header", "payload"} /\ conn = "open"
    /\ arrived < HeaderLen + message.size
    /\ \E n \in Chunks : arrived' = Least(arrived + n, HeaderLen + message.size)
    /\ UNCHANGED <<arguments, pc, addresses, any_timeout, last_errno, message, conn, off, result>>
PeerCloses ==
    /\ pc \in {"send", "header", "payload"} /\ conn = "open"
    /\ conn' \in {"closed", "reset"}
    /\ UNCHANGED <<arguments, pc, addresses, any_timeout, last_errno, message, arrived, off, result>>

Init ==
    /\ arguments \in Hosts /\ pc = "resolve" /\ addresses = 0
    /\ any_timeout = FALSE /\ last_errno = "none"
    /\ message = Nothing /\ conn = "none" /\ arrived = 0 /\ off = 0 /\ result = Nothing
Process ==
    \/ Resolve \/ \E why \in {"timeout", "refused", "other"} : TryNext(why)
    \/ NoTimeouts \/ Connected \/ CannotConnect
    \/ Send \/ SendFails \/ Recv \/ RecvEnds \/ RecvFails
    \/ HeaderRead \/ PayloadRead
Next == Process \/ PeerSends \/ PeerCloses
Spec == Init /\ [][Next]_vars /\ WF_vars(Process)
-----------------------------------------------------------------------------
\* Every variable has its type, and no read is past what has arrived.
TypeOK ==
    /\ arguments \in Hosts
    /\ pc \in {"resolve", "connect", "send", "header", "payload", "end"}
    /\ addresses \in 0 .. MaxAddresses
    /\ any_timeout \in BOOLEAN /\ last_errno \in {"none", "refused", "other"}
    /\ message \in Messages \cup {Nothing} /\ conn \in {"none", "open", "closed", "reset"}
    /\ result \in Results \cup {Nothing} /\ (result = Nothing) = (pc # "end")
    /\ off \in 0 .. (IF Reading THEN Needed ELSE 1024 + WireLen)
    /\ Reading => Buffered >= 0

\* A message is well formed when it is serialize_version_payload of some
\* payload, in an envelope of its own length and checksum, with or without
\* the relay flag of the later protocol versions, and perhaps longer.
WellFormed(m) ==
    /\ m.magic /\ m.command = "version" /\ m.sum /\ m.len \in 85 .. 1024
    /\ m.agent <= 256 /\ m.width = CompactSize(m.agent)
    /\ m.len >= VersionLen(m.agent) - 1

\* A peer is reported exactly when one well formed message was received to
\* its last byte, and with the fields that the peer put into it; the order
\* of the checks and the portions of the stream make no difference.
ReportedIsComplete == pc = "end" =>
    LET ok == "agent" \in DOMAIN result IN
    /\ ok => /\ WellFormed(message) /\ arrived >= HeaderLen + message.len
             /\ result.agent = message.agent
             /\ result.relay = (message.flag /\ message.len >= VersionLen(message.agent))
    /\ ~ok /\ message # Nothing =>
          \/ ~WellFormed(message) \/ arrived < HeaderLen + message.len
          \/ result.error \in {"timed out after 15s", "read failed", "write failed"}

\* Every handshake ends, even with a peer that sends one byte at a time: no
\* portion is empty, and every wait has its time-out.
HandshakeEnds == <>(pc = "end")
=============================================================================
