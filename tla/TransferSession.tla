--------------------------- MODULE TransferSession ---------------------------
(***************************************************************************)
(* A conversation about plain transfers: POST prepare, chat turns that     *)
(* prepare or speak of something else, POST broadcast, and the deletion of *)
(* the conversation, over one session record and the checkpoint of the     *)
(* split graphs.  Graphs run under the lock of the conversation; the       *)
(* projection of a prepare and a deletion do not.                          *)
(*                                                                         *)
(* The hash of the checkpoint is Absent in a conversation that starts with *)
(* transfers, and an explicit None in one whose earlier swap, or a reset,  *)
(* has left that.  A projection writes the second to the session, not the  *)
(* first.                                                                  *)
(*                                                                         *)
(* Every prepared transfer is a card of its own.  `fresh` holds the        *)
(* handlers that read the session after its last update, as in             *)
(* SwapBroadcast.  The status of a broadcast is not told apart, no handler *)
(* of a transfer depends on it.                                            *)
(***************************************************************************)
EXTENDS Naturals, FiniteSets

CONSTANTS
    None, Absent,
    Hash, Post,    \* POST broadcast requests, one hash each
    Carries,       \* the hash of each
    Prepare, Chat, \* POST prepare requests and chat turns
    Delete,        \* requests that delete the conversation
    MaxCards,      \* bound: transfers prepared
    MaxFaults      \* bound: requests that are lost with their process

Handler == Post \cup Prepare \cup Chat \cup Delete

TransferAssumption ==
    /\ {None, Absent} \cap (Hash \cup Handler) = {} /\ None # Absent
    /\ Carries \in [Post -> Hash]
    /\ MaxCards \in Nat /\ MaxFaults \in Nat

VARIABLES
    session,   \* the record, None once deleted
    fresh,
    cp,        \* the transfer of the checkpoint and the hash it has seen
    lock, pc,
    mem,       \* what a handler has read, or what its graph run ended with
    cards,     \* transfers prepared so far
    accepted,  \* hashes saved since the card of the session was put there
    erased,    \* history: since then a projection has erased a saved hash
    faults

vars == <<session, fresh, cp, lock, pc, mem, cards, accepted, erased, faults>>

Card == 1..MaxCards

Session == [card : Card \cup {None}, hash : Hash \cup {None}, ready : BOOLEAN]

Checkpoint == [card : Card \cup {None}, hash : Hash \cup {None, Absent}]
NoCheckpoint == [card |-> None, hash |-> Absent]

\* The end of a graph run: the checkpoint, the kind of the response, and for an
\* error whether a broadcast was known when the projection read the session.
Result == [cp : Checkpoint, kind : {"transfer_prepare", "react", "error"}, active : BOOLEAN]

Init ==
    /\ session = [card |-> None, hash |-> None, ready |-> FALSE]
    /\ fresh = {} /\ lock = None
    /\ cp \in {NoCheckpoint, [NoCheckpoint EXCEPT !.hash = None]}
    /\ pc = [h \in Handler |-> "new"] /\ mem = [h \in Handler |-> None]
    /\ cards = 0 /\ accepted = {} /\ erased = FALSE /\ faults = 0

Step(h, from, to) == pc[h] = from /\ pc' = [pc EXCEPT ![h] = to]
Keep(h, m) == mem' = [mem EXCEPT ![h] = m]
Save(s) == session' = s /\ fresh' = {}
Enter(h) == lock = None /\ lock' = h
Exit(h) == lock = h /\ lock' = None

----------------------------------------------------------------------------
(* project_session.                                                        *)

\* An error revokes the card unless a broadcast is under way.
Projected(s, r) ==
    LET known == [s EXCEPT !.card = r.cp.card,
                           !.hash = IF r.cp.hash = Absent THEN @ ELSE r.cp.hash]
    IN CASE r.kind = "transfer_prepare" -> [known EXCEPT !.hash = None, !.ready = TRUE]
         [] r.kind = "error" /\ ~r.active -> [known EXCEPT !.card = None, !.ready = FALSE]
         [] OTHER -> known

\* The update is made again on a conflict; a deleted session stays deleted.
Project(r) ==
    IF session = None
    THEN UNCHANGED <<session, fresh, accepted, erased>>
    ELSE /\ Save(Projected(session, r))
         /\ IF r.kind = "transfer_prepare"
            THEN accepted' = {} /\ erased' = FALSE
            ELSE /\ UNCHANGED accepted
                 /\ erased' = (erased \/ (session.hash # None /\ r.cp.hash = None))

----------------------------------------------------------------------------
(* POST /v1/transfer/{session_id}/prepare                                   *)

PrepareCheck(p) ==
    /\ IF session = None THEN Step(p, "new", "refused")
       ELSE IF session.ready /\ session.card # None THEN Step(p, "new", "answered")
       ELSE Step(p, "new", "running")
    /\ UNCHANGED <<session, fresh, cp, lock, mem, cards, accepted, erased, faults>>

\* The transfer node builds and checks a transaction, or answers with an error;
\* nobody else acts on the checkpoint while the lock is held.
PrepareRun(p) ==
    /\ Step(p, "running", "reading")
    /\ lock = None /\ UNCHANGED lock
    /\ \/ /\ cards < MaxCards
          /\ cards' = cards + 1
          /\ cp' = [cp EXCEPT !.card = cards']
          /\ Keep(p, [cp |-> cp', kind |-> "transfer_prepare", active |-> FALSE])
       \/ /\ UNCHANGED <<cards, cp>>
          /\ Keep(p, [cp |-> cp, kind |-> "error", active |-> FALSE])
    /\ UNCHANGED <<session, fresh, accepted, erased, faults>>

\* The projection reads the session, the lock is free again.
PrepareRead(p) ==
    /\ IF session = None THEN Step(p, "reading", "answered") ELSE Step(p, "reading", "projecting")
    /\ Keep(p, [mem[p] EXCEPT !.active = IF mem[p].cp.hash = Absent
                                         THEN session # None /\ session.hash # None
                                         ELSE mem[p].cp.hash # None])
    /\ UNCHANGED <<session, fresh, cp, lock, cards, accepted, erased, faults>>

PrepareProject(p) ==
    /\ Step(p, "projecting", IF session = None THEN "raised" ELSE "answered")
    /\ Project(mem[p]) /\ Keep(p, None)
    /\ UNCHANGED <<cp, lock, cards, faults>>

----------------------------------------------------------------------------
(* POST /v1/agent/turn                                                     *)

ChatRead(c) ==
    /\ IF session = None THEN Step(c, "new", "refused") ELSE Step(c, "new", "running")
    /\ Keep(c, IF session = None THEN None ELSE [card |-> session.card, hash |-> session.hash])
    /\ UNCHANGED <<session, fresh, cp, lock, cards, accepted, erased, faults>>

\* The session's card and hash are the input of the turn.  A turn that prepares
\* nothing drops the card.
ChatRun(c) ==
    LET seen == IF mem[c].hash = None THEN cp.hash ELSE mem[c].hash
    IN /\ Step(c, "running", "projecting")
       /\ Enter(c)
       /\ \/ /\ cards < MaxCards
             /\ cards' = cards + 1
             /\ cp' = [card |-> cards', hash |-> seen]
             /\ Keep(c, [cp |-> cp', kind |-> "transfer_prepare", active |-> FALSE])
          \/ /\ cp' = [card |-> None, hash |-> seen]
             /\ Keep(c, [cp |-> cp', kind |-> "react", active |-> FALSE])
             /\ UNCHANGED cards
       /\ UNCHANGED <<session, fresh, accepted, erased, faults>>

ChatProject(c) ==
    /\ Step(c, "projecting", "answered")
    /\ Project(mem[c]) /\ Keep(c, None)
    /\ Exit(c)
    /\ UNCHANGED <<cp, cards, faults>>

----------------------------------------------------------------------------
(* POST /v1/transfer/{session_id}/broadcast                                 *)

Verdict(s, h) ==
    IF s = None THEN "refused"
    ELSE IF s.hash = h THEN "answered"
    ELSE IF s.hash # None THEN "conflict" ELSE "go"

\* The check before the probe: the card must be there, whatever the hash.
PostCheck(p) ==
    /\ LET v == IF session # None /\ session.card = None THEN "refused"
                ELSE Verdict(session, Carries[p])
       IN Step(p, "new", IF v = "go" THEN "probing" ELSE v)
    /\ UNCHANGED <<session, fresh, cp, lock, mem, cards, accepted, erased, faults>>

\* The lock without the second check of the hash.
PostEnterUnchecked(p) ==
    /\ lock = None
    /\ IF session # None
       THEN Step(p, "probing", "saving") /\ Enter(p) /\ fresh' = fresh \cup {p}
       ELSE Step(p, "probing", "refused") /\ UNCHANGED <<lock, fresh>>
    /\ UNCHANGED <<session, cp, mem, cards, accepted, erased, faults>>

\* The chain is asked, in whatever time it takes, then the hash is checked
\* again, the card is not.
PostEnter(p) ==
    LET v == Verdict(session, Carries[p])
    IN /\ lock = None
       /\ IF v = "go"
          THEN Step(p, "probing", "saving") /\ Enter(p) /\ fresh' = fresh \cup {p}
          ELSE Step(p, "probing", v) /\ UNCHANGED <<lock, fresh>>
       /\ UNCHANGED <<session, cp, mem, cards, accepted, erased, faults>>

PostSave(p) ==
    /\ Step(p, "saving", IF p \in fresh THEN "answered" ELSE "raised")
    /\ IF p \in fresh
       THEN /\ Save([session EXCEPT !.hash = Carries[p], !.ready = FALSE])
            /\ accepted' = accepted \cup {Carries[p]}
       ELSE UNCHANGED <<session, fresh, accepted>>
    /\ Exit(p)
    /\ UNCHANGED <<cp, mem, cards, erased, faults>>

----------------------------------------------------------------------------
(* DELETE /v1/agent/conversations/{conversation_id}, and lost processes     *)

DeleteSession(d) ==
    /\ Step(d, "new", IF session = None THEN "refused" ELSE "clearing")
    /\ session' = None /\ fresh' = {}
    /\ UNCHANGED <<cp, lock, mem, cards, accepted, erased, faults>>

DeleteThread(d) ==
    /\ Step(d, "clearing", "answered")
    /\ cp' = NoCheckpoint
    /\ UNCHANGED <<session, fresh, lock, mem, cards, accepted, erased, faults>>

\* The lock runs out some time after its holder went down.
Lost(h) ==
    /\ faults < MaxFaults /\ faults' = faults + 1
    /\ pc[h] \in {"running", "reading", "projecting", "probing", "saving", "clearing"}
    /\ pc' = [pc EXCEPT ![h] = "raised"]
    /\ lock' = IF lock = h THEN None ELSE lock
    /\ UNCHANGED <<session, fresh, cp, mem, cards, accepted, erased>>

Next ==
    \/ \E p \in Prepare : PrepareCheck(p) \/ PrepareRun(p) \/ PrepareRead(p) \/ PrepareProject(p)
    \/ \E c \in Chat : ChatRead(c) \/ ChatRun(c) \/ ChatProject(c)
    \/ \E p \in Post : PostCheck(p) \/ PostEnter(p) \/ PostSave(p)
    \/ \E d \in Delete : DeleteSession(d) \/ DeleteThread(d)
    \/ \E h \in Handler : Lost(h)

Spec == Init /\ [][Next]_vars

----------------------------------------------------------------------------

TypeOK ==
    /\ session \in Session \cup {None}
    /\ fresh \subseteq Handler
    /\ cp \in Checkpoint
    /\ lock \in Handler \cup {None}
    /\ pc \in [Handler -> {"new", "running", "reading", "projecting", "probing", "saving",
                           "clearing", "answered", "conflict", "refused", "raised"}]
    /\ mem \in [Handler -> Result \cup Checkpoint \cup {None}]
    /\ cards \in 0..MaxCards
    /\ accepted \subseteq Hash
    /\ erased \in BOOLEAN
    /\ faults \in 0..MaxFaults

\* docs/app-integration.md:291: the same session refuses a different hash.  Once
\* a hash was accepted for a transfer, neither a request made from an older
\* record nor a stale checkpoint opens the session for a second one, until
\* another transfer is prepared, or a checkpoint with an explicit None from an
\* earlier operation has erased it.
OneBroadcastPerCard ==
    ~erased => /\ Cardinality(accepted) <= 1
               /\ session # None /\ accepted # {} => session.hash # None
=============================================================================
