---------------------------- MODULE AtomicSession ----------------------------
(***************************************************************************)
(* What the session store promises its callers: one record, changed in one *)
(* step.  An update writes its field into the record as it is in that step *)
(* and loses nobody else's; one that names the revision of the caller's    *)
(* copy is made only while that copy is the record.  `fresh` holds the     *)
(* callers whose copy is the record: SwapBroadcast and TransferSession,    *)
(* whose handlers call the store, take it for this one.                    *)
(***************************************************************************)
CONSTANTS Caller, Field, Value, Blank, None

VARIABLES
    record,     \* a value for each field, None when there is no such session
    born,       \* the session was created: a deleted one does not come back
    fresh,
    call,       \* caller -> the update it waits for
    told        \* caller -> how its last update ended

vars == <<record, born, fresh, call, told>>

Call == [guarded : BOOLEAN, field : Field, value : Value]

Merge(data, change) == [data EXCEPT ![change.field] = change.value]

Init ==
    /\ record = None /\ born = FALSE /\ fresh = {}
    /\ call = [c \in Caller |-> None]
    /\ told = [c \in Caller |-> None]

Create ==
    /\ ~born
    /\ born' = TRUE /\ record' = [f \in Field |-> Blank]
    /\ UNCHANGED <<fresh, call, told>>

Read(c) ==
    /\ record # None
    /\ fresh' = fresh \cup {c}
    /\ UNCHANGED <<record, born, call, told>>

Ask(c) ==
    /\ call[c] = None /\ call'[c] \in Call
    /\ call' = [call EXCEPT ![c] = call'[c]]
    /\ UNCHANGED <<record, born, fresh, told>>

Ends(c, how) == call' = [call EXCEPT ![c] = None] /\ told' = [told EXCEPT ![c] = how]

\* The caller has the new record, or its answer was lost and it has none.
Update(c, how) ==
    /\ call[c] # None /\ record # None
    /\ call[c].guarded => c \in fresh
    /\ how \in {"saved", "raised"}
    /\ record' = Merge(record, call[c])
    /\ fresh' = IF how = "saved" THEN {c} ELSE {}
    /\ Ends(c, how)
    /\ UNCHANGED born

\* Nothing is changed: the record is not the one the caller has read, it is
\* gone, or the store cannot be reached.
Refuse(c, how) ==
    /\ call[c] # None
    /\ \/ how = "conflict" /\ c \notin fresh
       \/ how = "gone" /\ record = None
       \/ how = "raised"
    /\ fresh' = fresh \ {c}
    /\ Ends(c, how)
    /\ UNCHANGED <<record, born>>

Delete ==
    /\ record # None
    /\ record' = None /\ fresh' = {}
    /\ UNCHANGED <<born, call, told>>

Next ==
    \/ Create \/ Delete
    \/ \E c \in Caller :
        \/ Read(c) \/ Ask(c)
        \/ \E how \in {"saved", "raised"} : Update(c, how)
        \/ \E how \in {"conflict", "gone", "raised"} : Refuse(c, how)

Spec == Init /\ [][Next]_vars
=============================================================================
