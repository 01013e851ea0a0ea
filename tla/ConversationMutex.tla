------------------------- MODULE ConversationMutex -------------------------
(***************************************************************************)
(* What the conversation lock promises.  A client is inside while its body *)
(* (a turn, a confirmation, a broadcast) runs.  A client inside may lose   *)
(* the lock, and never gets it back; nobody enters while a client that has *)
(* not lost it is inside.                                                  *)
(***************************************************************************)
CONSTANT Client

VARIABLES inside, lost

vars == <<inside, lost>>

Init == inside = {} /\ lost = {}

Enter(c) ==
    /\ c \notin inside
    /\ inside \subseteq lost
    /\ inside' = inside \cup {c}
    /\ UNCHANGED lost

Lose(c) ==
    /\ c \in inside \ lost
    /\ lost' = lost \cup {c}
    /\ UNCHANGED inside

Leave(c) ==
    /\ c \in inside
    /\ inside' = inside \ {c}
    /\ lost' = lost \ {c}

Next == \E c \in Client : Enter(c) \/ Lose(c) \/ Leave(c)

Spec == Init /\ [][Next]_vars
=============================================================================
