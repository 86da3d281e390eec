---------------------------- MODULE MCChatClient ----------------------------
(* ChatClient with two connections for the browser and one for its peer    *)
(* Eve, three names, one address, the default room and two others, of      *)
(* which the page reads one only in part.  What users write says           *)
(* that somebody returned to general, and welcome besides.                 *)
EXTENDS ChatClient

CONSTANTS c1, c2, peer
MCClient == {c1, c2, peer}

Same(S) == [x \in S |-> x]
MCUsername == {"alice", "bob", "eve"}
MCHandleOf == Same(MCUsername)
MCEmail == {"a@x", ""}
MCCleanEmail == Same(MCEmail)

MCNone == {}
MCQuoting == {"Welcome to PulseChat! Eve has returned to #general"}

MCRoomName == {"general", "lab", "lab.2"}
MCRoomOf == Same(MCRoomName)
MCStoredRoom == [MCRoomOf EXCEPT !["lab.2"] = "lab_2"]
MCShownRoom == [MCRoomOf EXCEPT !["lab.2"] = "lab"]
MCJoinRead == [x \in Quotable |-> NoRoom]
MCErrorRead == [r \in MCRoomName |-> {}]

ToAlice == [target |-> "alice", text |-> CHOOSE x \in Text : TRUE]
EveWrites == {Request("private_message", ToAlice)}

(* The browser's connections differ in nothing.                            *)
BrowserConnections == Permutations({c1, c2})
==============================================================================
