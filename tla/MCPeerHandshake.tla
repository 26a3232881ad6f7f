--------------------------- MODULE MCPeerHandshake ---------------------------
(***************************************************************************)
(* Messages at the limits of every check: lengths of 84, 85, 1024 and      *)
(* 1025, user agents of 0, 252, 253, 256 and 257 bytes, a length that is   *)
(* not canonical, one that leaves no room for the height, trailing bytes,  *)
(* and a stream that is shorter than its header says.                      *)
(***************************************************************************)
EXTENDS PeerHandshake

Message(len, width, agent, flag) ==
    [magic |-> TRUE, command |-> "version", len |-> len, sum |-> TRUE,
     width |-> width, agent |-> agent, flag |-> flag, size |-> len]
Good == Message(90, 1, 4, TRUE)
MCMessages ==
    {Good, Message(90, 1, 4, FALSE), Message(89, 1, 4, TRUE), Message(85, 1, 0, TRUE), Message(86, 1, 0, TRUE),
     Message(84, 1, 0, TRUE), Message(1024, 1, 252, TRUE), Message(1025, 1, 200, TRUE),
     Message(341, 3, 253, TRUE), Message(344, 3, 256, TRUE), Message(345, 3, 257, TRUE),
     Message(91, 3, 4, TRUE), Message(88, 1, 4, TRUE), Message(100, 1, 100, TRUE), Message(86, 5, 0, TRUE),
     [Good EXCEPT !.magic = FALSE, !.command = "padding"], [Good EXCEPT !.command = "padding"],
     [Good EXCEPT !.command = "verack"], [Good EXCEPT !.sum = FALSE], [Good EXCEPT !.size = 50],
     [Good EXCEPT !.size = 200]}
Host(colons, name, suffix, port) ==
    [colons |-> colons, name |-> name, suffix |-> suffix, port |-> port]
MCHosts ==
    {Host(1, TRUE, TRUE, FALSE), Host(2, TRUE, TRUE, FALSE), Host(1, TRUE, TRUE, TRUE),
     Host(1, TRUE, FALSE, FALSE), Host(1, FALSE, TRUE, FALSE)}
=============================================================================
