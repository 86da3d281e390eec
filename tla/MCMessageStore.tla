---------------------------- MODULE MCMessageStore ----------------------------
(* MessageStore on two handles, one address and guests, one room beside    *)
(* the default one, and a list of at most one message after a chat         *)
(* message, two after a private one.                                       *)
EXTENDS MessageStore

MCUsername == {"Alice ", "bob", " "}
MCHandleOf ==
    [u \in MCUsername |->
        CASE u = "Alice " -> "alice" [] u = " " -> "" [] OTHER -> u]
MCEmail == {"a@x", "A@X", ""}
MCCleanEmail == [e \in MCEmail |-> IF e = "A@X" THEN "a@x" ELSE e]
MCRoomName == {"general", "Lab 1", ""}
MCLowerRoom == [r \in MCRoomName |-> IF r = "Lab 1" THEN "lab 1" ELSE r]
MCStoredRoom == [r \in MCRoomName |-> IF r = "Lab 1" THEN "lab_1" ELSE r]
==============================================================================
