----------------------- MODULE SwapAuthorizationProofs ---------------------
(***************************************************************************)
(* Proofs about SwapAuthorization: types, the boundary of a rejection and  *)
(* the allowance of what is prepared, for every set of quotes, hashes and  *)
(* concurrent requests.  The nodes of the graph are functions of the       *)
(* checkpoint, so most of the work is in lemmas about these functions.     *)
(***************************************************************************)
EXTENDS SwapAuthorization, TLAPS

USE AuthorizationAssumption

How == Fault \cup {"done"}
Answer == Hash \cup {None, "unanswered"}

\* A request that was taken holds the session it read, a selection its quote
\* and a projection its result.
SlotsOK ==
    \A c \in Slot :
        /\ pc[c] # "idle" => snap[c] \in Session
        /\ pc[c] = "select" => req[c] \in Quote
        /\ pc[c] = "projecting" => res[c] \in [g : Graph, status : Status]

Typed == TypeOK /\ SlotsOK

----------------------------------------------------------------------------
(* The functions of the graph keep its type.                               *)

\* Each way prepare ends yields a checkpoint.
LEMMA PrepareSwapType ==
    ASSUME NEW s \in Graph, s.quote \in Quote, NEW h \in Hash \cup {None},
           NEW how \in How
    PROVE  PrepareSwap(s, h, how) \in Graph
BY DEF PrepareSwap, Graph, Confirmation, Stage, How, Fault

\* The stage of an approval is one of the authorization stages or None.
LEMMA ApprovalStageType ==
    ASSUME NEW q, NEW h
    PROVE  ApprovalStage(q, h) \in Stage \cup {None}
BY DEF ApprovalStage, Stage

\* swap_allowance yields a checkpoint, and keeps the confirmation as it was.
LEMMA SwapApprovalType ==
    ASSUME NEW s \in Graph, s.quote \in Quote, NEW answer \in Answer,
           NEW how \in How
    PROVE  SwapApproval(s, answer, how) \in Graph
<1> DEFINE asks == s.quote \notin allowed /\ s.ahash = None
           h == IF asks THEN answer ELSE s.ahash
<1>1. CASE asks /\ answer = "unanswered"
  BY <1>1 DEF SwapApproval, Graph
<1>2. CASE asks /\ answer = None /\ answer # "unanswered"
  BY <1>2 DEF SwapApproval, Graph, Stage
<1>3. CASE ~(asks /\ answer \in {"unanswered", None})
  <2>1. h \in Hash \cup {None}
    BY <1>3 DEF Answer, Graph
  <2>2. CASE h \in Hash /\ ApprovalStage(s.quote, h) # None
    BY <1>3, <2>1, <2>2, ApprovalStageType DEF SwapApproval, Graph
  <2>3. CASE ~(h \in Hash /\ ApprovalStage(s.quote, h) # None)
    <3>1. SwapApproval(s, answer, how) = PrepareSwap(s, h, how)
      BY <1>3, <2>3 DEF SwapApproval
    <3> QED BY <2>1, <3>1, PrepareSwapType
  <2> QED BY <2>2, <2>3
<1> QED BY <1>1, <1>2, <1>3

LEMMA SwapAllowanceType ==
    ASSUME NEW s \in Graph, NEW answer \in Answer, NEW how \in How
    PROVE  SwapAllowance(s, answer, how) \in Graph
<1>1. CASE s.quote = None
  BY <1>1 DEF SwapAllowance, Graph
<1>2. CASE s.quote # None /\ how = "raises"
  BY <1>2 DEF SwapAllowance, Graph
<1>3. CASE s.quote # None /\ how # "raises"
  <2>1. s.quote \in Quote /\ s.ahash \in Hash \cup {None}
    BY <1>3 DEF Graph
  <2>2. SwapAllowance(s, answer, how) =
          IF s.quote \in Native THEN PrepareSwap(s, s.ahash, how)
                                ELSE SwapApproval(s, answer, how)
    BY <1>3 DEF SwapAllowance
  <2> QED BY <2>1, <2>2, PrepareSwapType, SwapApprovalType
<1> QED BY <1>1, <1>2, <1>3

LEMMA RequestConfirmationType ==
    ASSUME NEW s \in Graph, s.quote \in Quote, NEW how \in How
    PROVE  RequestConfirmation(s, how) \in Graph
<1>1. [s EXCEPT !.closed = FALSE, !.intr = "none"] \in Graph
  BY DEF Graph
<1>2. CASE s.conf = "approved" /\ s.for = s.quote
  BY <1>1, <1>2, SwapAllowanceType DEF RequestConfirmation, Answer
<1>3. CASE ~(s.conf = "approved" /\ s.for = s.quote)
  BY <1>3 DEF RequestConfirmation, Graph, Confirmation
<1> QED BY <1>2, <1>3

LEMMA AnswerConfirmationType ==
    ASSUME NEW s \in Graph, NEW approved \in BOOLEAN, NEW how \in How
    PROVE  AnswerConfirmation(s, approved, how) \in Graph
<1>1. [s EXCEPT !.conf = "approved", !.closed = FALSE, !.intr = "none"] \in Graph
  BY DEF Graph, Confirmation
<1>2. CASE s.for = s.quote /\ s.conf # "lapsed" /\ approved
  BY <1>1, <1>2, SwapAllowanceType DEF AnswerConfirmation, Answer
<1>3. CASE ~(s.for = s.quote /\ s.conf # "lapsed" /\ approved)
  BY <1>3 DEF AnswerConfirmation, Graph, Confirmation
<1> QED BY <1>2, <1>3

LEMMA ResetType ==
    ASSUME NEW s \in Graph
    PROVE  /\ Cleared(s) \in Graph
           /\ CancelByWord(s) \in Graph
           /\ \A word \in BOOLEAN : GraphReparse(s, word) \in Graph
           /\ \A h \in Hash \cup {None}, word \in BOOLEAN :
                 GraphTalk(s, h, word) \in Graph
<1>1. Cleared(s) \in Graph
  BY DEF Cleared, Graph, Confirmation
<1>2. CancelByWord(s) \in Graph
  BY <1>1 DEF CancelByWord, Graph
<1>3. ASSUME NEW word \in BOOLEAN PROVE GraphReparse(s, word) \in Graph
  BY <1>1 DEF GraphReparse, Graph
<1>4. ASSUME NEW h \in Hash \cup {None}, NEW word \in BOOLEAN
      PROVE  GraphTalk(s, h, word) \in Graph
  BY DEF GraphTalk, Graph
<1> QED BY <1>1, <1>2, <1>3, <1>4

LEMMA GraphSelectType ==
    ASSUME NEW s \in Graph, NEW q \in Quote
    PROVE  GraphSelect(s, q) \in Graph
<1> DEFINE t == [Cleared(s) EXCEPT !.quote = q, !.pend = None, !.ahash = None,
                                   !.stage = None]
<1>1. t \in Graph /\ t.quote = q
  BY DEF Cleared, Graph, Confirmation
<1>2. "done" \in How
  BY DEF How
<1> HIDE DEF t
<1>3. CancelByWord(t) \in Graph /\ RequestConfirmation(t, "done") \in Graph
  BY <1>1, <1>2, ResetType, RequestConfirmationType
<1> QED BY <1>3 DEF GraphSelect, t

LEMMA GraphAllowanceType ==
    ASSUME NEW s \in Graph, NEW q \in Quote \cup {None},
           NEW h \in Hash \cup {None}, NEW how \in How
    PROVE  GraphAllowance(s, q, h, how) \in Graph
<1> DEFINE t == [s EXCEPT !.quote = q, !.ahash = h, !.intr = "none"]
<1>1. t \in Graph
  BY DEF Graph
<1> HIDE DEF t
<1>2. CancelByWord(t) \in Graph /\ SwapAllowance(t, "unanswered", how) \in Graph
  BY <1>1, ResetType, SwapAllowanceType DEF Answer
<1> QED BY <1>1, <1>2 DEF GraphAllowance, t

LEMMA GraphPrepareType ==
    ASSUME NEW s \in Graph, NEW q \in Quote, NEW reset \in BOOLEAN, NEW how \in How
    PROVE  GraphPrepare(s, q, reset, how) \in Graph
<1> DEFINE t == [s EXCEPT !.quote = q, !.reset = reset]
<1>1. t \in Graph /\ t.quote = q
  BY DEF Graph
<1> HIDE DEF t
<1>2. RequestConfirmation(t, how) \in Graph
  BY <1>1, RequestConfirmationType
<1> QED BY <1>1, <1>2 DEF GraphPrepare, t

LEMMA ProjectType ==
    ASSUME NEW old \in Session, NEW s \in Graph, NEW status \in Status \cup {None}
    PROVE  Project(old, s, status) \in Session
BY DEF Project, Session, Graph, Status

----------------------------------------------------------------------------
(* The slots.                                                              *)

SlotTypes ==
    /\ pc \in [Slot -> Kind \cup {"idle", "projecting", "finishing"}]
    /\ req \in [Slot -> Quote \cup {None}]
    /\ snap \in [Slot -> Session \cup {None}]
    /\ res \in [Slot -> [g : Graph, status : Status] \cup {None}]

\* A slot that ends its request is as before the request.
LEMMA IdleKeeps ==
    ASSUME SlotTypes, SlotsOK, NEW c \in Slot, Idle(c)
    PROVE  SlotTypes' /\ SlotsOK'
BY DEF SlotTypes, SlotsOK, Idle

\* A slot that leaves the lock holds a result to project.
LEMMA ReleaseKeeps ==
    ASSUME SlotTypes, SlotsOK, NEW c \in Slot, g' \in Graph, pc[c] # "idle",
           NEW status \in Status, NEW how \in How, Release(c, status, how)
    PROVE  SlotTypes' /\ SlotsOK'
<1>1. CASE how = "raises"
  BY <1>1, IdleKeeps DEF Release
<1>2. CASE how # "raises"
  <2> DEFINE r == [g |-> g', status |-> status]
  <2>1. r \in [g : Graph, status : Status]
    OBVIOUS
  <2>2. /\ pc' = [pc EXCEPT ![c] = "projecting"]
        /\ res' = [res EXCEPT ![c] = r]
        /\ UNCHANGED <<req, snap>>
    BY <1>2 DEF Release
  <2> HIDE DEF r
  <2> QED BY <2>1, <2>2 DEF SlotTypes, SlotsOK
<1> QED BY <1>1, <1>2

\* A chat turn ends with a session and an idle slot.
LEMMA ChatEndsKeeps ==
    ASSUME SlotTypes, SlotsOK, NEW c \in Slot, g' \in Graph,
           NEW old \in Session, NEW status \in {"quoted", None}, NEW how \in How,
           ChatEnds(c, old, status, how)
    PROVE  session' \in Session /\ SlotTypes' /\ SlotsOK'
<1>1. SlotTypes' /\ SlotsOK'
  BY IdleKeeps DEF ChatEnds
<1>2. CASE how = "raises"
  <2>1. session' = [old EXCEPT !.status = "failed", !.closed = FALSE]
    BY <1>2 DEF ChatEnds
  <2>2. session' \in Session
    BY <2>1 DEF Session, Status, Stage
  <2> QED BY <1>1, <2>2
<1>3. CASE how # "raises"
  <2> DEFINE st == CASE g'.intr # "none" -> "awaiting_confirmation"
                     [] g'.intr = "none" /\ g'.resp = "error" -> "failed"
                     [] OTHER -> status
  <2>1. st \in Status \cup {None}
    BY DEF Status, Stage
  <2>2. session' = Project(old, g', st)
    BY <1>3 DEF ChatEnds
  <2> HIDE DEF st
  <2> QED BY <1>1, <2>1, <2>2, ProjectType
<1> QED BY <1>1, <1>2, <1>3

----------------------------------------------------------------------------
(* Type correctness.                                                       *)

LEMMA CallsType ==
    ASSUME faults \in 0..MaxFaults, NEW how \in How, NEW runs, Calls(how, runs)
    PROVE  faults' \in 0..MaxFaults
BY DEF Calls

\* The steps of a request keep the types.
LEMMA WorkTyped ==
    ASSUME Typed, NEW c \in Slot, Work(c)
    PROVE  Typed'
<1> SUFFICES /\ g' \in Graph /\ session' \in Session
             /\ verdict' \in Quote \cup {None, "rejected"}
             /\ faults' \in 0..MaxFaults
             /\ UNCHANGED <<chain, used>>
             /\ SlotTypes' /\ SlotsOK'
  BY DEF Typed, TypeOK, SlotTypes, chain
<1> USE DEF Typed
<1>0. /\ g \in Graph /\ session \in Session
      /\ verdict \in Quote \cup {None, "rejected"}
      /\ faults \in 0..MaxFaults
      /\ SlotTypes /\ SlotsOK
      /\ "done" \in How
  BY DEF TypeOK, SlotTypes, How
<1>1. CASE Select(c)
  <2>1. g' \in Graph
    BY <1>0, <1>1, GraphSelectType DEF Select, SlotsOK
  <2>2. SlotTypes' /\ SlotsOK'
    BY <1>0, <1>1, <2>1, ReleaseKeeps DEF Select, Status
  <2> QED BY <1>0, <1>1, <2>1, <2>2 DEF Select
<1>2. CASE Refuse(c)
  <2>1. SlotTypes' /\ SlotsOK'
    BY <1>0, <1>2, IdleKeeps DEF Refuse
  <2> QED BY <1>0, <1>2, <2>1 DEF Refuse
<1>3. CASE Approve(c)
  <2>1. PICK how \in How :
          /\ Calls(how, g.conf = "requested" /\ g.for = g.quote)
          /\ g' = AnswerConfirmation(g, TRUE, how)
          /\ IF how # "raises" /\ g'.intr = "approval"
             THEN Idle(c) /\ session' = Project(session, g', "approval_required")
             ELSE Release(c, ApproveStatus, how) /\ UNCHANGED session
    BY <1>3 DEF Approve, How
  <2>2. g' \in Graph /\ faults' \in 0..MaxFaults
    BY <1>0, <2>1, AnswerConfirmationType, CallsType
  <2>3. ApproveStatus \in Status /\ "approval_required" \in Status
    BY <2>2 DEF ApproveStatus, Graph, Status, Stage
  <2>4. verdict' \in Quote \cup {None, "rejected"}
    BY <1>0, <1>3 DEF Approve, Graph
  <2>5. CASE how # "raises" /\ g'.intr = "approval"
    <3>1. Idle(c) /\ session' = Project(session, g', "approval_required")
      BY <2>1, <2>5
    <3>2. SlotTypes' /\ SlotsOK'
      BY <1>0, <3>1, IdleKeeps
    <3>3. session' \in Session
      BY <1>0, <2>2, <2>3, <3>1, ProjectType
    <3> QED BY <1>3, <2>2, <2>4, <3>2, <3>3 DEF Approve
  <2>6. CASE ~(how # "raises" /\ g'.intr = "approval")
    <3>1. Release(c, ApproveStatus, how) /\ UNCHANGED session
      BY <2>1, <2>6
    <3>2. pc[c] # "idle"
      BY <1>3 DEF Approve
    <3>3. SlotTypes' /\ SlotsOK'
      BY <1>0, <2>2, <2>3, <3>1, <3>2, ReleaseKeeps
    <3> QED BY <1>0, <1>3, <2>2, <2>4, <3>1, <3>3 DEF Approve
  <2> QED BY <2>5, <2>6
<1>4. CASE Reject(c)
  <2>1. PICK how \in How :
          /\ Calls(how, g.intr \in {"approval", "pending"} /\ g.quote # None)
          /\ g' = CASE g.intr = "confirmation" -> AnswerConfirmation(g, FALSE, how)
                    [] g.intr \in {"approval", "pending"} -> SwapAllowance(g, None, how)
                    [] OTHER -> g
          /\ Release(c, "cancelled", how)
    BY <1>4 DEF Reject, How
  <2>2. /\ AnswerConfirmation(g, FALSE, how) \in Graph
        /\ SwapAllowance(g, None, how) \in Graph
    BY <1>0, AnswerConfirmationType, SwapAllowanceType DEF Answer
  <2>3. g' \in Graph
    BY <1>0, <2>1, <2>2
  <2>4. faults' \in 0..MaxFaults
    BY <1>0, <2>1, CallsType
  <2>5. SlotTypes' /\ SlotsOK'
    BY <1>0, <1>4, <2>1, <2>3, ReleaseKeeps DEF Reject, Status
  <2> QED BY <1>0, <1>4, <2>3, <2>4, <2>5 DEF Reject
<1>5. CASE Continue(c)
  <2>1. PICK how \in How :
          /\ Calls(how, \/ g.intr = "approval"
                        \/ snap[c].quote # None /\ ~g.word /\ g.conf # "rejected")
          /\ g' = IF g.intr = "approval"
                  THEN SwapAllowance(g, snap[c].ahash, how)
                  ELSE GraphAllowance(g, snap[c].quote, snap[c].ahash, how)
          /\ Release(c, ContinueStatus, how)
    BY <1>5 DEF Continue, How
  <2>2. pc[c] # "idle" /\ snap[c] \in Session
    BY <1>0, <1>5 DEF Continue, SlotsOK
  <2>3. snap[c].ahash \in Hash \cup {None} /\ snap[c].quote \in Quote \cup {None}
    BY <2>2 DEF Session
  <2>4. g' \in Graph
    BY <1>0, <2>1, <2>3, SwapAllowanceType, GraphAllowanceType DEF Answer
  <2>5. ContinueStatus \in Status
    BY <2>4 DEF ContinueStatus, Graph, Status, Stage
  <2>6. faults' \in 0..MaxFaults
    BY <1>0, <2>1, CallsType
  <2>7. SlotTypes' /\ SlotsOK'
    BY <1>0, <2>1, <2>2, <2>4, <2>5, ReleaseKeeps
  <2> QED BY <1>0, <1>5, <2>4, <2>6, <2>7 DEF Continue
<1>6. CASE Chat(c)
  <2>1. pc[c] = "chat" /\ snap[c] \in Session
    BY <1>0, <1>6 DEF Chat, SlotsOK
  <2>2. snap[c].ahash \in Hash \cup {None}
    BY <2>1 DEF Session
  <2>3. CASE ChatTalk(c)
    <3>1. PICK word \in BOOLEAN, status \in {"quoted", None} :
            /\ g' = GraphTalk(g, snap[c].ahash, word)
            /\ ChatEnds(c, session, status, "done")
      BY <2>3 DEF ChatTalk
    <3>2. g' \in Graph
      BY <1>0, <2>2, <3>1, ResetType
    <3>3. session' \in Session /\ SlotTypes' /\ SlotsOK'
      BY <1>0, <3>1, <3>2, ChatEndsKeeps
    <3> QED BY <1>0, <2>3, <3>1, <3>2, <3>3 DEF ChatTalk, ChatEnds
  <2>4. CASE ChatSwap(c)
    <3> DEFINE Talk(q) == [GraphTalk(g, snap[c].ahash, FALSE) EXCEPT !.quote = q]
               Quoted(q, fresh) == IF fresh THEN Cleared(Talk(q)) ELSE Talk(q)
    <3>1. PICK q \in Quote, fresh \in BOOLEAN, how \in How :
            /\ Calls(how, Quoted(q, fresh).conf = "approved" /\ Quoted(q, fresh).for = q)
            /\ g' = GraphPrepare(Quoted(q, fresh), q, TRUE, how)
            /\ ChatEnds(c, Project(session, Quoted(q, fresh), "quoted"), None, how)
            /\ verdict' = IF fresh \/ g'.conf = "requested" THEN None ELSE verdict
      BY <2>4 DEF ChatSwap, How
    <3>2. Quoted(q, fresh) \in Graph
      <4>1. GraphTalk(g, snap[c].ahash, FALSE) \in Graph
        BY <1>0, <2>2, ResetType
      <4>2. Talk(q) \in Graph
        BY <4>1 DEF Graph
      <4> QED BY <4>2, ResetType
    <3> HIDE DEF Quoted
    <3>3. g' \in Graph
      BY <3>1, <3>2, GraphPrepareType
    <3>4. Project(session, Quoted(q, fresh), "quoted") \in Session
      BY <1>0, <3>2, ProjectType DEF Status
    <3>5. session' \in Session /\ SlotTypes' /\ SlotsOK'
      BY <1>0, <3>1, <3>3, <3>4, ChatEndsKeeps
    <3>6. faults' \in 0..MaxFaults
      BY <1>0, <3>1, CallsType
    <3> QED BY <1>0, <3>1, <3>3, <3>5, <3>6 DEF ChatEnds
  <2>5. CASE ChatReparse(c)
    <3>1. ASSUME g' \in Graph, ChatEnds(c, session, None, "done")
          PROVE  session' \in Session /\ SlotTypes' /\ SlotsOK' /\ UNCHANGED <<chain, used>>
      BY <1>0, <3>1, ChatEndsKeeps DEF ChatEnds
    <3>2. CASE /\ g' = AnswerConfirmation(g, TRUE, "done")
               /\ ChatEnds(c, session, None, "done")
      BY <1>0, <2>5, <3>1, <3>2, AnswerConfirmationType DEF ChatReparse
    <3>3. CASE /\ \E word \in BOOLEAN :
                     \/ g' = GraphReparse(g, word)
                     \/ word /\ g' = CancelByWord(GraphReparse(g, word))
               /\ ChatEnds(c, session, None, "done")
      <4>1. g' \in Graph
        BY <1>0, <3>3, ResetType
      <4> QED BY <1>0, <2>5, <3>1, <3>3, <4>1 DEF ChatReparse
    <3>4. CASE \E q \in Quote, reset \in {g.reset, TRUE} :
                 LET quoted == [GraphReparse(g, FALSE) EXCEPT !.quote = q]
                 IN /\ g' = GraphPrepare(quoted, q, reset, "done")
                    /\ ChatEnds(c, Project(session, quoted, "quoted"), None, "done")
      <4> DEFINE Quoted(q) == [GraphReparse(g, FALSE) EXCEPT !.quote = q]
      <4>1. PICK q \in Quote, reset \in {g.reset, TRUE} :
              /\ g' = GraphPrepare(Quoted(q), q, reset, "done")
              /\ ChatEnds(c, Project(session, Quoted(q), "quoted"), None, "done")
        BY <3>4
      <4>2. Quoted(q) \in Graph /\ reset \in BOOLEAN
        <5>1. GraphReparse(g, FALSE) \in Graph
          BY <1>0, ResetType
        <5> QED BY <1>0, <5>1 DEF Graph
      <4> HIDE DEF Quoted
      <4>3. g' \in Graph /\ Project(session, Quoted(q), "quoted") \in Session
        BY <1>0, <4>1, <4>2, GraphPrepareType, ProjectType DEF Status
      <4>4. session' \in Session /\ SlotTypes' /\ SlotsOK'
        BY <1>0, <4>1, <4>3, ChatEndsKeeps
      <4> QED BY <1>0, <2>5, <4>1, <4>3, <4>4 DEF ChatReparse, ChatEnds
    <3> QED BY <2>5, <3>2, <3>3, <3>4 DEF ChatReparse
  <2>6. CASE ChatResume(c)
    <3>1. PICK how \in How :
            /\ Calls(how, TRUE)
            /\ g' = SwapAllowance(g, None, how)
            /\ ChatEnds(c, session, None, how)
      BY <2>6 DEF ChatResume, How
    <3>2. g' \in Graph /\ faults' \in 0..MaxFaults
      BY <1>0, <3>1, SwapAllowanceType, CallsType DEF Answer
    <3>3. session' \in Session /\ SlotTypes' /\ SlotsOK'
      BY <1>0, <3>1, <3>2, ChatEndsKeeps
    <3> QED BY <1>0, <2>6, <3>1, <3>2, <3>3 DEF ChatResume, ChatEnds
  <2> QED BY <1>6, <2>3, <2>4, <2>5, <2>6 DEF Chat
<1>7. CASE Projection(c)
  <2>1. res[c].g \in Graph /\ res[c].status \in Status
    BY <1>0, <1>7 DEF Projection, SlotsOK
  <2>2. session' \in Session
    BY <1>0, <1>7, <2>1, ProjectType DEF Projection
  <2>3. CASE req[c] = None
    <3>1. SlotTypes' /\ SlotsOK'
      BY <1>0, <1>7, <2>3, IdleKeeps DEF Projection
    <3> QED BY <1>0, <1>7, <2>2, <3>1 DEF Projection
  <2>4. CASE req[c] # None
    <3>1. SlotTypes' /\ SlotsOK'
      BY <1>0, <1>7, <2>4 DEF Projection, SlotTypes, SlotsOK
    <3> QED BY <1>0, <1>7, <2>2, <3>1 DEF Projection
  <2> QED BY <2>3, <2>4
<1>8. CASE FinishSelect(c)
  <2>1. session' \in Session
    BY <1>0, <1>8 DEF FinishSelect, Session, Status
  <2>2. SlotTypes' /\ SlotsOK'
    BY <1>0, <1>8, IdleKeeps DEF FinishSelect
  <2> QED BY <1>0, <1>8, <2>1, <2>2 DEF FinishSelect
<1> QED BY <1>1, <1>2, <1>3, <1>4, <1>5, <1>6, <1>7, <1>8 DEF Work

\* A request that is taken holds the session it read.
LEMMA BeginTyped ==
    ASSUME Typed, NEW c \in Slot, NEW kind \in Kind, NEW q \in Quote \cup {None},
           kind = "select" => q \in Quote, Begin(c, kind, q)
    PROVE  Typed'
<1>1. used' \in 0..MaxOps
  BY DEF Begin, Typed, TypeOK
<1>2. UNCHANGED <<g, session, chain, verdict, res, faults>>
  BY DEF Begin
<1>3. /\ pc' = [pc EXCEPT ![c] = kind]
      /\ req' = [req EXCEPT ![c] = q]
      /\ snap' = [snap EXCEPT ![c] = session]
  BY DEF Begin
<1>4. kind # "projecting" /\ "projecting" # "idle"
  BY DEF Kind
<1>5. SlotTypes' /\ SlotsOK'
  BY <1>2, <1>3, <1>4 DEF SlotTypes, SlotsOK, Typed, TypeOK
<1> QED BY <1>1, <1>2, <1>5 DEF Typed, TypeOK, SlotTypes, chain

\* The single steps keep the types.
LEMMA SingleTyped ==
    ASSUME Typed, (\E h \in Hash : ApproveBroadcast(h) \/ Mine(h)) \/ Cancel \/ Expire
    PROVE  Typed'
<1> USE DEF Typed
<1>0. UNCHANGED slots => SlotTypes' /\ SlotsOK'
  BY DEF slots, SlotTypes, SlotsOK, TypeOK
<1>1. ASSUME NEW h \in Hash, ApproveBroadcast(h) PROVE Typed'
  <2>1. session' \in Session
    BY <1>1 DEF ApproveBroadcast, TypeOK, Session, Status
  <2>2. approves' \in [Hash -> Quote \cup {None}]
    <3>1. UNCHANGED approves \/ (session.quote \in Quote
                                 /\ approves' = [approves EXCEPT ![h] = session.quote])
      BY <1>1 DEF ApproveBroadcast
    <3> QED BY <3>1 DEF TypeOK
  <2>3. used' \in 0..MaxOps /\ UNCHANGED <<g, allowed, receipt, verdict, slots, faults>>
    <3>1. used < MaxOps /\ used' = used + 1
      BY <1>1 DEF ApproveBroadcast
    <3>2. used' \in 0..MaxOps
      BY <3>1 DEF TypeOK
    <3> QED BY <1>1, <3>2 DEF ApproveBroadcast
  <2> QED BY <1>0, <2>1, <2>2, <2>3 DEF TypeOK, SlotTypes
<1>2. ASSUME NEW h \in Hash, Mine(h) PROVE Typed'
  <2>1. UNCHANGED <<g, session, approves, verdict, slots, used, faults>>
    BY <1>2 DEF Mine
  <2>2. receipt' \in [Hash -> {None, "ok", "failed"}]
    <3>1. PICK outcome \in {"ok", "failed"} : receipt' = [receipt EXCEPT ![h] = outcome]
      BY <1>2 DEF Mine
    <3> QED BY <3>1 DEF TypeOK
  <2>3. allowed' \subseteq Quote
    <3>1. approves[h] \in Quote
      BY <1>2 DEF Mine, TypeOK
    <3>2. allowed' = allowed \/ allowed' = allowed \cup {approves[h]}
      BY <1>2 DEF Mine
    <3> QED BY <3>1, <3>2 DEF TypeOK
  <2> QED BY <1>0, <2>1, <2>2, <2>3 DEF TypeOK, SlotTypes
<1>3. CASE Cancel
  <2>1. session' \in Session
    BY <1>3 DEF Cancel, TypeOK, Session, Status
  <2>2. used' \in 0..MaxOps /\ UNCHANGED <<g, chain, verdict, slots, faults>>
    BY <1>3 DEF Cancel, TypeOK
  <2> QED BY <1>0, <2>1, <2>2 DEF TypeOK, SlotTypes, chain
<1>4. CASE Expire
  <2>1. g' \in Graph
    BY <1>4 DEF Expire, TypeOK, Graph, Confirmation
  <2>2. UNCHANGED <<session, chain, verdict, slots, used, faults>>
    BY <1>4 DEF Expire
  <2> QED BY <1>0, <2>1, <2>2 DEF TypeOK, SlotTypes, chain
<1> QED BY <1>1, <1>2, <1>3, <1>4

LEMMA InitTyped == Init => Typed
<1> SUFFICES ASSUME Init PROVE Typed
  OBVIOUS
<1>1. g \in Graph
  BY DEF Init, Graph, Confirmation
<1>2. session \in Session
  BY DEF Init, Session, Status
<1>3. SlotTypes /\ SlotsOK
  BY DEF Init, SlotTypes, SlotsOK
<1>4. /\ allowed \subseteq Quote
      /\ receipt \in [Hash -> {None, "ok", "failed"}]
      /\ approves \in [Hash -> Quote \cup {None}]
      /\ verdict \in Quote \cup {None, "rejected"}
      /\ used \in 0..MaxOps /\ faults \in 0..MaxFaults
  BY DEF Init
<1> QED BY <1>1, <1>2, <1>3, <1>4 DEF Typed, TypeOK, SlotTypes

LEMMA NextTyped == Typed /\ [Next]_vars => Typed'
<1> SUFFICES ASSUME Typed, [Next]_vars PROVE Typed'
  OBVIOUS
<1>1. CASE UNCHANGED vars
  BY <1>1 DEF vars, slots, chain, Typed, TypeOK, SlotsOK
<1>2. ASSUME NEW c \in Slot, NEW q \in Quote, Begin(c, "select", q) PROVE Typed'
  BY <1>2, BeginTyped DEF Kind
<1>3. ASSUME NEW c \in Slot, NEW kind \in Kind \ {"select"}, Begin(c, kind, None)
      PROVE  Typed'
  BY <1>3, BeginTyped
<1>4. ASSUME NEW c \in Slot, Work(c) PROVE Typed'
  BY <1>4, WorkTyped
<1> QED BY <1>1, <1>2, <1>3, <1>4, SingleTyped DEF Next

\* Every reachable state has the types of the checkpoint, the session, the chain
\* and the requests in flight, for any number of these.
THEOREM TypeCorrect == Spec => []TypeOK
<1>1. Spec => []Typed
  BY InitTyped, NextTyped, PTL DEF Spec
<1>2. Typed => TypeOK
  BY DEF Typed
<1> QED BY <1>1, <1>2, PTL

----------------------------------------------------------------------------
(* A rejection is a boundary.  While the graph waits for a confirmation no  *)
(* transaction is prepared, so that there is none when the answer is no.   *)

Bounded(s) ==
    /\ s.conf = "rejected" => s.pend = None /\ s.intr = "none"
    /\ s.intr = "confirmation" => s.pend = None

\* swap_allowance neither answers a confirmation nor asks for one.
LEMMA SwapAllowanceBounded ==
    ASSUME NEW s \in Graph, s.conf # "rejected", NEW answer, NEW how \in How
    PROVE  Bounded(SwapAllowance(s, answer, how))
<1> DEFINE r == SwapAllowance(s, answer, how)
<1>1. r.conf = s.conf /\ r.intr # "confirmation"
  <2>1. ASSUME NEW h
        PROVE  /\ PrepareSwap(s, h, how).conf = s.conf
               /\ PrepareSwap(s, h, how).intr = "none"
    BY DEF PrepareSwap, Graph
  <2>2. SwapApproval(s, answer, how).conf = s.conf
        /\ SwapApproval(s, answer, how).intr # "confirmation"
    BY <2>1 DEF SwapApproval, Graph
  <2>3. CASE s.quote = None \/ how = "raises"
    BY <2>3 DEF SwapAllowance, Graph
  <2>4. CASE s.quote # None /\ how # "raises"
    <3>1. r = PrepareSwap(s, s.ahash, how) \/ r = SwapApproval(s, answer, how)
      BY <2>4 DEF SwapAllowance
    <3> QED BY <2>1, <2>2, <3>1
  <2> QED BY <2>3, <2>4
<1> HIDE DEF r
<1>2. Bounded(r)
  BY <1>1 DEF Bounded
<1> QED BY <1>2 DEF r

\* A confirmation is asked for only where nothing is prepared.
LEMMA RequestConfirmationBounded ==
    ASSUME NEW s \in Graph, s.pend = None, NEW how \in How
    PROVE  Bounded(RequestConfirmation(s, how))
<1> DEFINE t == [s EXCEPT !.closed = FALSE, !.intr = "none"]
<1>1. t \in Graph /\ t.conf = s.conf
  BY DEF Graph
<1> HIDE DEF t
<1>2. CASE s.conf = "approved" /\ s.for = s.quote
  <2>1. Bounded(SwapAllowance(t, "unanswered", how))
    BY <1>1, <1>2, SwapAllowanceBounded
  <2> QED BY <1>2, <2>1 DEF RequestConfirmation, t
<1>3. CASE ~(s.conf = "approved" /\ s.for = s.quote)
  BY <1>3 DEF RequestConfirmation, Graph, Bounded
<1> QED BY <1>2, <1>3

LEMMA AnswerConfirmationBounded ==
    ASSUME NEW s \in Graph, Bounded(s), s.intr = "confirmation",
           NEW approved \in BOOLEAN, NEW how \in How
    PROVE  Bounded(AnswerConfirmation(s, approved, how))
<1> DEFINE t == [s EXCEPT !.conf = "approved", !.closed = FALSE, !.intr = "none"]
<1>1. t \in Graph /\ t.conf # "rejected"
  BY DEF Graph, Confirmation
<1> HIDE DEF t
<1>2. CASE s.for = s.quote /\ s.conf # "lapsed" /\ approved
  <2>1. Bounded(SwapAllowance(t, "unanswered", how))
    BY <1>1, SwapAllowanceBounded
  <2> QED BY <1>2, <2>1 DEF AnswerConfirmation, t
<1>3. CASE ~(s.for = s.quote /\ s.conf # "lapsed" /\ approved)
  BY <1>3 DEF AnswerConfirmation, Graph, Bounded
<1> QED BY <1>2, <1>3

LEMMA CancelByWordBounded ==
    ASSUME NEW s \in Graph
    PROVE  Bounded(CancelByWord(s))
BY DEF CancelByWord, Cleared, Bounded, Graph

LEMMA GraphSelectBounded ==
    ASSUME NEW s \in Graph, NEW q \in Quote
    PROVE  Bounded(GraphSelect(s, q))
<1> DEFINE t == [Cleared(s) EXCEPT !.quote = q, !.pend = None, !.ahash = None,
                                   !.stage = None]
<1>1. t \in Graph /\ t.pend = None
  BY DEF Cleared, Graph, Confirmation
<1> HIDE DEF t
<1>2. Bounded(CancelByWord(t)) /\ Bounded(RequestConfirmation(t, "done"))
  BY <1>1, CancelByWordBounded, RequestConfirmationBounded DEF How
<1> QED BY <1>2 DEF GraphSelect, t

LEMMA GraphAllowanceBounded ==
    ASSUME NEW s \in Graph, Bounded(s), NEW q \in Quote \cup {None},
           NEW h \in Hash \cup {None}, NEW how \in How
    PROVE  Bounded(GraphAllowance(s, q, h, how))
<1> DEFINE t == [s EXCEPT !.quote = q, !.ahash = h, !.intr = "none"]
<1>1. t \in Graph /\ t.conf = s.conf /\ Bounded(t)
  BY DEF Graph, Bounded
<1> HIDE DEF t
<1>2. Bounded(CancelByWord(t))
  BY <1>1, CancelByWordBounded
<1>3. s.conf # "rejected" => Bounded(SwapAllowance(t, "unanswered", how))
  BY <1>1, SwapAllowanceBounded
<1> QED BY <1>1, <1>2, <1>3 DEF GraphAllowance, t

\* A chat turn drops the prepared transaction before anything else.
LEMMA GraphPrepareBounded ==
    ASSUME NEW s \in Graph, s.pend = None, s.intr = "none", NEW q \in Quote,
           NEW reset \in BOOLEAN, NEW how \in How
    PROVE  Bounded(GraphPrepare(s, q, reset, how))
<1> DEFINE t == [s EXCEPT !.quote = q, !.reset = reset]
<1>1. t \in Graph /\ t.pend = None /\ t.intr = "none"
  BY DEF Graph
<1>2. Bounded(t)
  BY <1>1 DEF Bounded
<1> HIDE DEF t
<1>3. Bounded(RequestConfirmation(t, how))
  BY <1>1, RequestConfirmationBounded
<1> QED BY <1>2, <1>3 DEF GraphPrepare, t

\* What a chat turn makes of the checkpoint before it runs the lifecycle.
LEMMA TalkForgets ==
    ASSUME NEW s \in Graph, NEW h \in Hash \cup {None}, NEW word \in BOOLEAN
    PROVE  /\ GraphTalk(s, h, word).pend = None
           /\ GraphTalk(s, h, word).intr = "none"
           /\ GraphReparse(s, word).pend = None
           /\ GraphReparse(s, word).intr = "none"
BY DEF GraphTalk, GraphReparse, Cleared, Graph

LEMMA WorkBounded ==
    ASSUME Typed, Bounded(g), NEW c \in Slot, Work(c)
    PROVE  Bounded(g')
<1>0. /\ g \in Graph
      /\ pc[c] # "idle" => snap[c] \in Session
      /\ pc[c] = "select" => req[c] \in Quote
      /\ "done" \in How
  BY DEF Typed, TypeOK, SlotsOK, How
<1>1. CASE Select(c)
  BY <1>0, <1>1, GraphSelectBounded DEF Select
<1>2. CASE Refuse(c) \/ Projection(c) \/ FinishSelect(c)
  BY <1>2 DEF Refuse, Projection, FinishSelect
<1>3. CASE Approve(c)
  <2>1. PICK how \in How : g' = AnswerConfirmation(g, TRUE, how)
    BY <1>3 DEF Approve, How
  <2> QED BY <1>0, <1>3, <2>1, AnswerConfirmationBounded DEF Approve
<1>4. CASE Reject(c)
  <2>1. PICK how \in How :
          g' = CASE g.intr = "confirmation" -> AnswerConfirmation(g, FALSE, how)
                 [] g.intr \in {"approval", "pending"} -> SwapAllowance(g, None, how)
                 [] OTHER -> g
    BY <1>4 DEF Reject, How
  <2>2. g.intr \in {"approval", "pending"} => g.conf # "rejected"
    BY DEF Bounded
  <2>3. CASE g.intr = "confirmation"
    BY <1>0, <2>1, <2>3, AnswerConfirmationBounded
  <2>4. CASE g.intr \in {"approval", "pending"}
    BY <1>0, <2>1, <2>2, <2>4, SwapAllowanceBounded
  <2>5. CASE g.intr \notin {"confirmation", "approval", "pending"}
    BY <2>1, <2>5
  <2> QED BY <2>3, <2>4, <2>5
<1>5. CASE Continue(c)
  <2>1. PICK how \in How :
          g' = IF g.intr = "approval"
               THEN SwapAllowance(g, snap[c].ahash, how)
               ELSE GraphAllowance(g, snap[c].quote, snap[c].ahash, how)
    BY <1>5 DEF Continue, How
  <2>2. snap[c].ahash \in Hash \cup {None} /\ snap[c].quote \in Quote \cup {None}
    BY <1>0, <1>5 DEF Continue, Session
  <2>3. g.intr = "approval" => g.conf # "rejected"
    BY DEF Bounded
  <2> QED BY <1>0, <2>1, <2>2, <2>3, SwapAllowanceBounded, GraphAllowanceBounded
<1>6. CASE Chat(c)
  <2>1. snap[c].ahash \in Hash \cup {None}
    BY <1>0, <1>6 DEF Chat, Session
  <2>2. CASE ChatTalk(c)
    <3>1. PICK word \in BOOLEAN : g' = GraphTalk(g, snap[c].ahash, word)
      BY <2>2 DEF ChatTalk
    <3> QED BY <1>0, <2>1, <3>1, TalkForgets DEF Bounded
  <2>3. CASE ChatSwap(c)
    <3> DEFINE talk == GraphTalk(g, snap[c].ahash, FALSE)
               Talk(q) == [talk EXCEPT !.quote = q]
               Quoted(q, fresh) == IF fresh THEN Cleared(Talk(q)) ELSE Talk(q)
    <3>1. PICK q \in Quote, fresh \in BOOLEAN, how \in How :
            g' = GraphPrepare(Quoted(q, fresh), q, TRUE, how)
      BY <2>3 DEF ChatSwap, How
    <3>2. talk \in Graph /\ talk.pend = None /\ talk.intr = "none"
      BY <1>0, <2>1, ResetType, TalkForgets
    <3> HIDE DEF talk
    <3>3. /\ Quoted(q, fresh) \in Graph
          /\ Quoted(q, fresh).pend = None /\ Quoted(q, fresh).intr = "none"
      BY <3>2 DEF Cleared, Graph, Confirmation
    <3> HIDE DEF Quoted
    <3> QED BY <3>1, <3>3, GraphPrepareBounded
  <2>4. CASE ChatReparse(c)
    <3>1. CASE g' = AnswerConfirmation(g, TRUE, "done")
      BY <1>0, <2>4, <3>1, AnswerConfirmationBounded DEF ChatReparse
    <3>2. CASE \E word \in BOOLEAN : \/ g' = GraphReparse(g, word)
                                     \/ g' = CancelByWord(GraphReparse(g, word))
      BY <1>0, <3>2, TalkForgets, ResetType, CancelByWordBounded DEF Bounded
    <3>3. CASE \E q \in Quote, reset \in {g.reset, TRUE} :
                 g' = GraphPrepare([GraphReparse(g, FALSE) EXCEPT !.quote = q],
                                   q, reset, "done")
      <4> DEFINE talk == GraphReparse(g, FALSE)
                 Quoted(q) == [talk EXCEPT !.quote = q]
      <4>1. PICK q \in Quote, reset \in {g.reset, TRUE} :
              g' = GraphPrepare(Quoted(q), q, reset, "done")
        BY <3>3
      <4>2. talk \in Graph /\ talk.pend = None /\ talk.intr = "none"
        BY <1>0, <2>1, ResetType, TalkForgets
      <4> HIDE DEF talk
      <4>3. /\ Quoted(q) \in Graph /\ reset \in BOOLEAN
            /\ Quoted(q).pend = None /\ Quoted(q).intr = "none"
        BY <1>0, <4>2 DEF Graph
      <4> HIDE DEF Quoted
      <4> QED BY <1>0, <4>1, <4>3, GraphPrepareBounded
    <3> QED BY <2>4, <3>1, <3>2, <3>3 DEF ChatReparse
  <2>5. CASE ChatResume(c)
    <3>1. PICK how \in How : g' = SwapAllowance(g, None, how)
      BY <2>5 DEF ChatResume, How
    <3>2. g.conf # "rejected"
      BY <2>5 DEF ChatResume, Bounded
    <3> QED BY <1>0, <3>1, <3>2, SwapAllowanceBounded
  <2> QED BY <1>6, <2>2, <2>3, <2>4, <2>5 DEF Chat
<1> QED BY <1>1, <1>2, <1>3, <1>4, <1>5, <1>6 DEF Work

\* While the graph remembers a rejection nothing of the quote is prepared and
\* nothing is asked for, whichever requests were in flight (route_after_intent).
THEOREM RejectionIsBoundary == Spec => []RejectionHolds
<1>1. Init => Bounded(g)
  BY DEF Init, Bounded
<1>2. Typed /\ Bounded(g) /\ [Next]_vars => Bounded(g)'
  <2> SUFFICES ASSUME Typed, Bounded(g), [Next]_vars PROVE Bounded(g')
    BY DEF Bounded
  <2>1. CASE UNCHANGED vars
    BY <2>1 DEF vars
  <2>2. ASSUME NEW c \in Slot, NEW kind, NEW q, Begin(c, kind, q) PROVE Bounded(g')
    BY <2>2 DEF Begin
  <2>3. ASSUME NEW c \in Slot, Work(c) PROVE Bounded(g')
    BY <2>3, WorkBounded
  <2>4. CASE Expire
    BY <2>4 DEF Expire, Typed, TypeOK, Graph, Bounded
  <2>5. CASE Cancel \/ \E h \in Hash : ApproveBroadcast(h) \/ Mine(h)
    BY <2>5 DEF Cancel, ApproveBroadcast, Mine
  <2> QED BY <2>1, <2>2, <2>3, <2>4, <2>5 DEF Next
<1>3. Spec => [](Typed /\ Bounded(g))
  BY <1>1, <1>2, InitTyped, NextTyped, PTL DEF Spec
<1>4. Bounded(g) => RejectionHolds
  BY DEF Bounded, RejectionHolds
<1> QED BY <1>3, <1>4, PTL

----------------------------------------------------------------------------
(* What is prepared is allowed: the only node that prepares is             *)
(* swap_allowance, and each of its ways there has read the allowance.      *)

Kept(s, r) == r.pend \in {None, s.pend} \cup allowed \cup Native

\* Past the approval, the allowance was read: at first, or again after the
\* approval was mined.
LEMMA SwapApprovalKept ==
    ASSUME receipt \in [Hash -> {None, "ok", "failed"}],
           NEW s \in Graph, NEW answer \in Answer, NEW how \in How
    PROVE  Kept(s, SwapApproval(s, answer, how))
<1> DEFINE asks == s.quote \notin allowed /\ s.ahash = None
           h == IF asks THEN answer ELSE s.ahash
<1>1. CASE asks /\ answer \in {"unanswered", None}
  BY <1>1 DEF SwapApproval, Graph, Kept
<1>2. CASE ~(asks /\ answer \in {"unanswered", None})
  <2>1. CASE h \in Hash /\ ApprovalStage(s.quote, h) # None
    BY <1>2, <2>1 DEF SwapApproval, Graph, Kept
  <2>2. CASE ~(h \in Hash /\ ApprovalStage(s.quote, h) # None)
    <3>1. SwapApproval(s, answer, how) = PrepareSwap(s, h, how)
      BY <1>2, <2>2 DEF SwapApproval
    <3>2. h \in Hash \/ s.quote \in allowed
      BY <1>2 DEF Answer, Graph
    <3>3. h \in Hash => s.quote \in allowed
      BY <2>2 DEF ApprovalStage, Stage, Status
    <3>4. PrepareSwap(s, h, how).pend \in {s.pend, s.quote}
      BY DEF PrepareSwap, Graph
    <3> QED BY <3>1, <3>2, <3>3, <3>4 DEF Kept
  <2> QED BY <2>1, <2>2
<1> QED BY <1>1, <1>2

LEMMA SwapAllowanceKept ==
    ASSUME receipt \in [Hash -> {None, "ok", "failed"}],
           NEW s \in Graph, NEW answer \in Answer, NEW how \in How
    PROVE  Kept(s, SwapAllowance(s, answer, how))
<1>1. CASE s.quote = None \/ how = "raises"
  BY <1>1 DEF SwapAllowance, Graph, Kept
<1>2. CASE s.quote # None /\ how # "raises" /\ s.quote \in Native
  <2>1. SwapAllowance(s, answer, how) = PrepareSwap(s, s.ahash, how)
    BY <1>2 DEF SwapAllowance
  <2>2. PrepareSwap(s, s.ahash, how).pend \in {s.pend, s.quote}
    BY DEF PrepareSwap, Graph
  <2> QED BY <1>2, <2>1, <2>2 DEF Kept
<1>3. CASE s.quote # None /\ how # "raises" /\ s.quote \notin Native
  <2>1. SwapAllowance(s, answer, how) = SwapApproval(s, answer, how)
    BY <1>3 DEF SwapAllowance
  <2> QED BY <2>1, SwapApprovalKept
<1> QED BY <1>1, <1>2, <1>3

LEMMA RequestConfirmationKept ==
    ASSUME receipt \in [Hash -> {None, "ok", "failed"}],
           NEW s \in Graph, NEW how \in How
    PROVE  Kept(s, RequestConfirmation(s, how))
<1> DEFINE t == [s EXCEPT !.closed = FALSE, !.intr = "none"]
<1>1. t \in Graph /\ t.pend = s.pend
  BY DEF Graph
<1> HIDE DEF t
<1>2. CASE s.conf = "approved" /\ s.for = s.quote
  <2>1. Kept(t, SwapAllowance(t, "unanswered", how))
    BY <1>1, SwapAllowanceKept DEF Answer
  <2> QED BY <1>1, <1>2, <2>1 DEF RequestConfirmation, Kept, t
<1>3. CASE ~(s.conf = "approved" /\ s.for = s.quote)
  BY <1>3 DEF RequestConfirmation, Graph, Kept
<1> QED BY <1>2, <1>3

LEMMA AnswerConfirmationKept ==
    ASSUME receipt \in [Hash -> {None, "ok", "failed"}],
           NEW s \in Graph, NEW approved \in BOOLEAN, NEW how \in How
    PROVE  Kept(s, AnswerConfirmation(s, approved, how))
<1> DEFINE t == [s EXCEPT !.conf = "approved", !.closed = FALSE, !.intr = "none"]
<1>1. t \in Graph /\ t.pend = s.pend
  BY DEF Graph, Confirmation
<1> HIDE DEF t
<1>2. CASE s.for = s.quote /\ s.conf # "lapsed" /\ approved
  <2>1. Kept(t, SwapAllowance(t, "unanswered", how))
    BY <1>1, SwapAllowanceKept DEF Answer
  <2> QED BY <1>1, <1>2, <2>1 DEF AnswerConfirmation, Kept, t
<1>3. CASE ~(s.for = s.quote /\ s.conf # "lapsed" /\ approved)
  BY <1>3 DEF AnswerConfirmation, Graph, Kept
<1> QED BY <1>2, <1>3

LEMMA CancelByWordKept ==
    ASSUME NEW s \in Graph
    PROVE  CancelByWord(s).pend = None
BY DEF CancelByWord, Cleared, Graph

LEMMA GraphSelectKept ==
    ASSUME receipt \in [Hash -> {None, "ok", "failed"}],
           NEW s \in Graph, NEW q \in Quote
    PROVE  Kept(s, GraphSelect(s, q))
<1> DEFINE t == [Cleared(s) EXCEPT !.quote = q, !.pend = None, !.ahash = None,
                                   !.stage = None]
<1>1. t \in Graph /\ t.pend = None
  BY DEF Cleared, Graph, Confirmation
<1> HIDE DEF t
<1>2. CancelByWord(t).pend = None /\ Kept(t, RequestConfirmation(t, "done"))
  BY <1>1, CancelByWordKept, RequestConfirmationKept DEF How
<1> QED BY <1>1, <1>2 DEF GraphSelect, Kept, t

LEMMA GraphAllowanceKept ==
    ASSUME receipt \in [Hash -> {None, "ok", "failed"}],
           NEW s \in Graph, NEW q \in Quote \cup {None},
           NEW h \in Hash \cup {None}, NEW how \in How
    PROVE  Kept(s, GraphAllowance(s, q, h, how))
<1> DEFINE t == [s EXCEPT !.quote = q, !.ahash = h, !.intr = "none"]
<1>1. t \in Graph /\ t.pend = s.pend
  BY DEF Graph
<1> HIDE DEF t
<1>2. CancelByWord(t).pend = None
  BY <1>1, CancelByWordKept
<1>3. Kept(t, SwapAllowance(t, "unanswered", how))
  BY <1>1, SwapAllowanceKept DEF Answer
<1> QED BY <1>1, <1>2, <1>3 DEF GraphAllowance, Kept, t

LEMMA GraphPrepareKept ==
    ASSUME receipt \in [Hash -> {None, "ok", "failed"}],
           NEW s \in Graph, s.pend = None, NEW q \in Quote,
           NEW reset \in BOOLEAN, NEW how \in How
    PROVE  GraphPrepare(s, q, reset, how).pend \in {None} \cup allowed \cup Native
<1> DEFINE t == [s EXCEPT !.quote = q, !.reset = reset]
<1>1. t \in Graph /\ t.pend = None
  BY DEF Graph
<1> HIDE DEF t
<1>2. Kept(t, RequestConfirmation(t, how))
  BY <1>1, RequestConfirmationKept
<1> QED BY <1>1, <1>2 DEF GraphPrepare, Kept, t

LEMMA WorkKept ==
    ASSUME Typed, NEW c \in Slot, Work(c)
    PROVE  Kept(g, g')
<1>0. /\ g \in Graph
      /\ receipt \in [Hash -> {None, "ok", "failed"}]
      /\ pc[c] # "idle" => snap[c] \in Session
      /\ pc[c] = "select" => req[c] \in Quote
      /\ "done" \in How
  BY DEF Typed, TypeOK, SlotsOK, How
<1>1. CASE Select(c)
  BY <1>0, <1>1, GraphSelectKept DEF Select
<1>2. CASE Refuse(c) \/ Projection(c) \/ FinishSelect(c)
  BY <1>2 DEF Refuse, Projection, FinishSelect, Kept
<1>3. CASE Approve(c)
  <2>1. PICK how \in How : g' = AnswerConfirmation(g, TRUE, how)
    BY <1>3 DEF Approve, How
  <2> QED BY <1>0, <2>1, AnswerConfirmationKept
<1>4. CASE Reject(c)
  <2>1. PICK how \in How :
          g' = CASE g.intr = "confirmation" -> AnswerConfirmation(g, FALSE, how)
                 [] g.intr \in {"approval", "pending"} -> SwapAllowance(g, None, how)
                 [] OTHER -> g
    BY <1>4 DEF Reject, How
  <2>2. Kept(g, AnswerConfirmation(g, FALSE, how)) /\ Kept(g, SwapAllowance(g, None, how))
    BY <1>0, AnswerConfirmationKept, SwapAllowanceKept DEF Answer
  <2> QED BY <2>1, <2>2 DEF Kept
<1>5. CASE Continue(c)
  <2>1. PICK how \in How :
          g' = IF g.intr = "approval"
               THEN SwapAllowance(g, snap[c].ahash, how)
               ELSE GraphAllowance(g, snap[c].quote, snap[c].ahash, how)
    BY <1>5 DEF Continue, How
  <2>2. snap[c].ahash \in Hash \cup {None} /\ snap[c].quote \in Quote \cup {None}
    BY <1>0, <1>5 DEF Continue, Session
  <2> QED BY <1>0, <2>1, <2>2, SwapAllowanceKept, GraphAllowanceKept DEF Answer
<1>6. CASE Chat(c)
  <2>1. snap[c].ahash \in Hash \cup {None}
    BY <1>0, <1>6 DEF Chat, Session
  <2>2. CASE ChatTalk(c)
    <3>1. PICK word \in BOOLEAN : g' = GraphTalk(g, snap[c].ahash, word)
      BY <2>2 DEF ChatTalk
    <3> QED BY <1>0, <2>1, <3>1, TalkForgets DEF Kept
  <2>3. CASE ChatSwap(c)
    <3> DEFINE talk == GraphTalk(g, snap[c].ahash, FALSE)
               Talk(q) == [talk EXCEPT !.quote = q]
               Quoted(q, fresh) == IF fresh THEN Cleared(Talk(q)) ELSE Talk(q)
    <3>1. PICK q \in Quote, fresh \in BOOLEAN, how \in How :
            g' = GraphPrepare(Quoted(q, fresh), q, TRUE, how)
      BY <2>3 DEF ChatSwap, How
    <3>2. talk \in Graph /\ talk.pend = None
      BY <1>0, <2>1, ResetType, TalkForgets
    <3> HIDE DEF talk
    <3>3. Quoted(q, fresh) \in Graph /\ Quoted(q, fresh).pend = None
      BY <3>2 DEF Cleared, Graph, Confirmation
    <3> HIDE DEF Quoted
    <3> QED BY <1>0, <3>1, <3>3, GraphPrepareKept DEF Kept
  <2>4. CASE ChatReparse(c)
    <3>1. CASE g' = AnswerConfirmation(g, TRUE, "done")
      BY <1>0, <3>1, AnswerConfirmationKept
    <3>2. CASE \E word \in BOOLEAN : \/ g' = GraphReparse(g, word)
                                     \/ g' = CancelByWord(GraphReparse(g, word))
      BY <1>0, <3>2, TalkForgets, ResetType, CancelByWordKept DEF Kept
    <3>3. CASE \E q \in Quote, reset \in {g.reset, TRUE} :
                 g' = GraphPrepare([GraphReparse(g, FALSE) EXCEPT !.quote = q],
                                   q, reset, "done")
      <4> DEFINE talk == GraphReparse(g, FALSE)
                 Quoted(q) == [talk EXCEPT !.quote = q]
      <4>1. PICK q \in Quote, reset \in {g.reset, TRUE} :
              g' = GraphPrepare(Quoted(q), q, reset, "done")
        BY <3>3
      <4>2. talk \in Graph /\ talk.pend = None
        BY <1>0, <2>1, ResetType, TalkForgets
      <4> HIDE DEF talk
      <4>3. Quoted(q) \in Graph /\ reset \in BOOLEAN /\ Quoted(q).pend = None
        BY <1>0, <4>2 DEF Graph
      <4> HIDE DEF Quoted
      <4> QED BY <1>0, <4>1, <4>3, GraphPrepareKept DEF Kept
    <3> QED BY <2>4, <3>1, <3>2, <3>3 DEF ChatReparse
  <2>5. CASE ChatResume(c)
    <3>1. PICK how \in How : g' = SwapAllowance(g, None, how)
      BY <2>5 DEF ChatResume, How
    <3> QED BY <1>0, <3>1, SwapAllowanceKept DEF Answer
  <2> QED BY <1>6, <2>2, <2>3, <2>4, <2>5 DEF Chat
<1> QED BY <1>1, <1>2, <1>3, <1>4, <1>5, <1>6 DEF Work

\* A step that prepares a swap prepares one whose allowance is there, whatever
\* was selected, confirmed or recorded meanwhile (swap_allowance).
THEOREM PreparedIsAllowed == Spec => PreparedAllowed
<1> DEFINE A == g'.pend \notin {None, g.pend} => g'.pend \in allowed \cup Native
<1>1. Typed /\ [Next]_vars => [A]_vars
  <2> SUFFICES ASSUME Typed, Next PROVE A
    OBVIOUS
  <2>1. ASSUME NEW c \in Slot, NEW kind, NEW q, Begin(c, kind, q) PROVE A
    BY <2>1 DEF Begin
  <2>2. ASSUME NEW c \in Slot, Work(c) PROVE A
    BY <2>2, WorkKept DEF Kept
  <2>3. CASE Expire
    BY <2>3 DEF Expire, Typed, TypeOK, Graph
  <2>4. CASE Cancel \/ \E h \in Hash : ApproveBroadcast(h) \/ Mine(h)
    BY <2>4 DEF Cancel, ApproveBroadcast, Mine
  <2> QED BY <2>1, <2>2, <2>3, <2>4 DEF Next
<1>2. Spec => []Typed
  BY InitTyped, NextTyped, PTL DEF Spec
<1> QED BY <1>1, <1>2, PTL DEF Spec, PreparedAllowed

----------------------------------------------------------------------------
(* What the App is asked to sign is of the quote it shows, while requests   *)
(* do not overlap.                                                         *)

\* One request at a time: the next one is taken when the last one has answered.
OneAtATime == \A c, d \in Slot : pc[c] # "idle" /\ pc[d] # "idle" => c = d

\* The checkpoint r is of the quote q, and its transaction of its own quote.
Of(r, q) == r.quote \in {None, q} /\ r.pend \in {None, r.quote}

\* The quote of the checkpoint is that of the session, but while a result is on
\* its way to the session: the checkpoint is still the one of that result.
Offered ==
    /\ session.pend \in {None, session.quote}
    /\ g.pend \in {None, g.quote}
    /\ (\A c \in Slot : pc[c] # "projecting") => Of(g, session.quote)
    /\ \A c \in Slot : pc[c] \in Kind => snap[c].quote = session.quote
    /\ \A c \in Slot : pc[c] = "projecting" =>
          res[c].g.quote = g.quote /\ res[c].g.pend = g.pend

\* Each node of the graph keeps to the quote of the checkpoint.
LEMMA SwapAllowanceOf ==
    ASSUME NEW s \in Graph, NEW q, Of(s, q), NEW answer \in Answer, NEW how \in How
    PROVE  Of(SwapAllowance(s, answer, how), q)
<1>1. ASSUME NEW h PROVE Of(PrepareSwap(s, h, how), q)
  BY DEF PrepareSwap, Graph, Of
<1>2. Of(SwapApproval(s, answer, how), q)
  BY <1>1 DEF SwapApproval, Graph, Of
<1>3. CASE s.quote = None \/ how = "raises"
  BY <1>3 DEF SwapAllowance, Graph, Of
<1>4. CASE s.quote # None /\ how # "raises"
  BY <1>1, <1>2, <1>4 DEF SwapAllowance
<1> QED BY <1>3, <1>4

LEMMA RequestConfirmationOf ==
    ASSUME NEW s \in Graph, NEW q, Of(s, q), NEW how \in How
    PROVE  Of(RequestConfirmation(s, how), q)
<1> DEFINE t == [s EXCEPT !.closed = FALSE, !.intr = "none"]
<1>1. t \in Graph /\ Of(t, q)
  BY DEF Graph, Of
<1> HIDE DEF t
<1>2. CASE s.conf = "approved" /\ s.for = s.quote
  <2>1. Of(SwapAllowance(t, "unanswered", how), q)
    BY <1>1, SwapAllowanceOf DEF Answer
  <2> QED BY <1>2, <2>1 DEF RequestConfirmation, t
<1>3. CASE ~(s.conf = "approved" /\ s.for = s.quote)
  BY <1>3 DEF RequestConfirmation, Graph, Of
<1> QED BY <1>2, <1>3

LEMMA AnswerConfirmationOf ==
    ASSUME NEW s \in Graph, NEW q, Of(s, q), NEW approved \in BOOLEAN, NEW how \in How
    PROVE  Of(AnswerConfirmation(s, approved, how), q)
<1> DEFINE t == [s EXCEPT !.conf = "approved", !.closed = FALSE, !.intr = "none"]
<1>1. t \in Graph /\ Of(t, q)
  BY DEF Graph, Confirmation, Of
<1> HIDE DEF t
<1>2. CASE s.for = s.quote /\ s.conf # "lapsed" /\ approved
  <2>1. Of(SwapAllowance(t, "unanswered", how), q)
    BY <1>1, SwapAllowanceOf DEF Answer
  <2> QED BY <1>2, <2>1 DEF AnswerConfirmation, t
<1>3. CASE ~(s.for = s.quote /\ s.conf # "lapsed" /\ approved)
  BY <1>3 DEF AnswerConfirmation, Graph, Of
<1> QED BY <1>2, <1>3

LEMMA CancelByWordOf ==
    ASSUME NEW s \in Graph, NEW q
    PROVE  Of(CancelByWord(s), q)
BY DEF CancelByWord, Cleared, Graph, Of

\* A selection forgets what was prepared for another quote.
LEMMA GraphSelectOf ==
    ASSUME NEW s \in Graph, NEW q \in Quote
    PROVE  Of(GraphSelect(s, q), q)
<1> DEFINE t == [Cleared(s) EXCEPT !.quote = q, !.pend = None, !.ahash = None,
                                   !.stage = None]
<1>1. t \in Graph /\ Of(t, q)
  BY DEF Cleared, Graph, Confirmation, Of
<1> HIDE DEF t
<1>2. Of(CancelByWord(t), q) /\ Of(RequestConfirmation(t, "done"), q)
  BY <1>1, CancelByWordOf, RequestConfirmationOf DEF How
<1> QED BY <1>2 DEF GraphSelect, t

\* A continue replaces the quote by that of the session, and what it finds
\* prepared has to be of that quote.
LEMMA GraphAllowanceOf ==
    ASSUME NEW s \in Graph, NEW q \in Quote \cup {None}, s.pend \in {None, q},
           NEW h \in Hash \cup {None}, NEW how \in How
    PROVE  Of(GraphAllowance(s, q, h, how), q)
<1> DEFINE t == [s EXCEPT !.quote = q, !.ahash = h, !.intr = "none"]
<1>1. t \in Graph /\ Of(t, q)
  BY DEF Graph, Of
<1> HIDE DEF t
<1>2. Of(CancelByWord(t), q) /\ Of(SwapAllowance(t, "unanswered", how), q)
  BY <1>1, CancelByWordOf, SwapAllowanceOf DEF Answer
<1> QED BY <1>1, <1>2 DEF GraphAllowance, t

LEMMA GraphPrepareOf ==
    ASSUME NEW s \in Graph, s.pend = None, NEW q \in Quote, NEW reset \in BOOLEAN,
           NEW how \in How
    PROVE  Of(GraphPrepare(s, q, reset, how), q)
<1> DEFINE t == [s EXCEPT !.quote = q, !.reset = reset]
<1>1. t \in Graph /\ Of(t, q)
  BY DEF Graph, Of
<1> HIDE DEF t
<1>2. Of(RequestConfirmation(t, how), q)
  BY <1>1, RequestConfirmationOf
<1> QED BY <1>1, <1>2 DEF GraphPrepare, t

\* The session takes quote and transaction from one checkpoint; where it keeps
\* its own quote there is no transaction.
LEMMA ProjectOf ==
    ASSUME NEW old \in Session, NEW s \in Graph, NEW status,
           s.pend \in {None, s.quote}
    PROVE  /\ Project(old, s, status).pend \in {None, Project(old, s, status).quote}
           /\ Of(s, Project(old, s, status).quote)
<1> DEFINE p == Project(old, s, status)
<1>1. p.quote = IF s.quote # None THEN s.quote
                ELSE IF s.reset THEN None ELSE old.quote
  BY DEF Project, Session
<1>2. p.pend \in {None, s.pend}
  BY DEF Project
<1> HIDE DEF p
<1>3. p.pend \in {None, p.quote} /\ Of(s, p.quote)
  BY <1>1, <1>2 DEF Of
<1> QED BY <1>3 DEF p

----------------------------------------------------------------------------
\* A request that ends leaves all slots idle and the checkpoint of the session.
LEMMA IdleOffered ==
    ASSUME Typed, OneAtATime, NEW c \in Slot, pc[c] # "idle", Idle(c),
           session'.pend \in {None, session'.quote}, Of(g', session'.quote)
    PROVE  Offered'
<1>1. \A d \in Slot : pc'[d] = "idle"
  BY DEF OneAtATime, Idle, Typed, TypeOK
<1>2. "idle" \notin Kind
  BY DEF Kind
<1> QED BY <1>1, <1>2 DEF Offered, Of

\* A result on its way is that of the checkpoint.
LEMMA ReleaseOffered ==
    ASSUME Typed, OneAtATime, Offered, NEW c \in Slot, pc[c] # "idle",
           NEW status, NEW how \in How, Release(c, status, how), UNCHANGED session,
           g'.pend \in {None, g'.quote}, how = "raises" => Of(g', session.quote)
    PROVE  Offered'
<1>1. session.pend \in {None, session.quote}
  BY DEF Offered
<1>2. CASE how = "raises"
  <2>1. Of(g', session'.quote) /\ Idle(c)
    BY <1>2 DEF Release
  <2> QED BY <1>1, <2>1, IdleOffered
<1>3. CASE how # "raises"
  <2>1. /\ pc' = [pc EXCEPT ![c] = "projecting"]
        /\ res' = [res EXCEPT ![c] = [g |-> g', status |-> status]]
    BY <1>3 DEF Release
  <2>2. pc'[c] = "projecting" /\ res'[c].g = g'
    BY <2>1 DEF Typed, TypeOK
  <2>3. \A d \in Slot : d # c => pc'[d] = "idle"
    BY <2>1 DEF OneAtATime, Typed, TypeOK
  <2>4. "idle" \notin Kind /\ "projecting" \notin Kind
    BY DEF Kind
  <2> QED BY <1>1, <2>2, <2>3, <2>4 DEF Offered
<1> QED BY <1>2, <1>3

\* A chat turn projects what it made of the checkpoint, or fails and keeps the
\* record `old` of its quote.
LEMMA ChatEndsOffered ==
    ASSUME Typed, OneAtATime, NEW c \in Slot, pc[c] # "idle", g' \in Graph,
           NEW old \in Session, old.pend \in {None, old.quote}, Of(g', old.quote),
           NEW status, NEW how \in How, ChatEnds(c, old, status, how)
    PROVE  Offered'
<1>1. Idle(c)
  BY DEF ChatEnds
<1>2. CASE how = "raises"
  <2>1. session' = [old EXCEPT !.status = "failed", !.closed = FALSE]
    BY <1>2 DEF ChatEnds
  <2>2. session'.pend = old.pend /\ session'.quote = old.quote
    BY <2>1 DEF Session
  <2>3. session'.pend \in {None, session'.quote} /\ Of(g', session'.quote)
    BY <2>2
  <2> QED BY <1>1, <2>3, IdleOffered
<1>3. CASE how # "raises"
  <2> DEFINE st == CASE g'.intr # "none" -> "awaiting_confirmation"
                     [] g'.intr = "none" /\ g'.resp = "error" -> "failed"
                     [] OTHER -> status
  <2>1. session' = Project(old, g', st)
    BY <1>3 DEF ChatEnds
  <2> HIDE DEF st
  <2>2. g'.pend \in {None, g'.quote}
    BY DEF Of
  <2>3. session'.pend \in {None, session'.quote} /\ Of(g', session'.quote)
    BY <2>1, <2>2, ProjectOf
  <2> QED BY <1>1, <2>3, IdleOffered
<1> QED BY <1>2, <1>3

\* A swap of a chat turn: the session takes the quote before the lifecycle runs.
LEMMA QuotedOffered ==
    ASSUME Typed, OneAtATime, NEW c \in Slot, pc[c] # "idle",
           NEW s \in Graph, s.pend = None, s.quote \in Quote,
           NEW reset \in BOOLEAN, NEW how \in How,
           g' = GraphPrepare(s, s.quote, reset, how),
           ChatEnds(c, Project(session, s, "quoted"), None, how)
    PROVE  Offered'
<1> DEFINE old == Project(session, s, "quoted")
<1>1. session \in Session /\ "quoted" \in Status
  BY DEF Typed, TypeOK, Status
<1>2. old \in Session
  BY <1>1, ProjectType
<1>3. old.pend \in {None, old.quote}
  BY <1>1, ProjectOf
<1>4. old.quote = s.quote
  BY DEF Project, AuthorizationAssumption
<1>5. g' \in Graph /\ Of(g', old.quote)
  BY <1>4, GraphPrepareType, GraphPrepareOf
<1> HIDE DEF old
<1>6. ChatEnds(c, old, None, how)
  BY DEF old
<1> QED BY <1>2, <1>3, <1>5, <1>6, ChatEndsOffered

\* A chat turn that is no swap forgets quote and transaction.
LEMMA TalkOf ==
    ASSUME NEW s \in Graph, NEW h \in Hash \cup {None}, NEW word \in BOOLEAN, NEW q
    PROVE  Of(GraphTalk(s, h, word), q) /\ Of(GraphReparse(s, word), q)
BY DEF GraphTalk, GraphReparse, Cleared, Graph, Of

LEMMA ChatOffered ==
    ASSUME Typed, OneAtATime, Offered, NEW c \in Slot, Chat(c)
    PROVE  Offered'
<1>0. /\ g \in Graph /\ session \in Session
      /\ pc[c] # "idle" /\ snap[c] \in Session /\ snap[c].ahash \in Hash \cup {None}
      /\ "done" \in How
  BY DEF Chat, Typed, TypeOK, SlotsOK, How, Session
<1>1. session.pend \in {None, session.quote}
  BY DEF Offered
<1>2. Of(g, session.quote)
  BY DEF Offered, OneAtATime, Chat
<1>3. CASE ChatTalk(c)
  <2>1. PICK word \in BOOLEAN, status \in {"quoted", None} :
          /\ g' = GraphTalk(g, snap[c].ahash, word)
          /\ ChatEnds(c, session, status, "done")
    BY <1>3 DEF ChatTalk
  <2>2. g' \in Graph /\ Of(g', session.quote)
    BY <1>0, <2>1, ResetType, TalkOf
  <2> QED BY <1>0, <1>1, <2>1, <2>2, ChatEndsOffered
<1>4. CASE ChatSwap(c)
  <2> DEFINE talk == GraphTalk(g, snap[c].ahash, FALSE)
             Talk(q) == [talk EXCEPT !.quote = q]
             Quoted(q, fresh) == IF fresh THEN Cleared(Talk(q)) ELSE Talk(q)
  <2>1. PICK q \in Quote, fresh \in BOOLEAN, how \in How :
          /\ g' = GraphPrepare(Quoted(q, fresh), q, TRUE, how)
          /\ ChatEnds(c, Project(session, Quoted(q, fresh), "quoted"), None, how)
    BY <1>4 DEF ChatSwap, How
  <2>2. talk \in Graph /\ talk.pend = None
    BY <1>0, ResetType, TalkForgets
  <2> HIDE DEF talk
  <2>3. /\ Quoted(q, fresh) \in Graph
        /\ Quoted(q, fresh).pend = None /\ Quoted(q, fresh).quote = q
    BY <2>2 DEF Cleared, Graph, Confirmation
  <2> HIDE DEF Quoted
  <2> QED BY <1>0, <2>1, <2>3, QuotedOffered
<1>5. CASE ChatReparse(c)
  <2>1. CASE g' = AnswerConfirmation(g, TRUE, "done") /\ ChatEnds(c, session, None, "done")
    <3>1. g' \in Graph /\ Of(g', session.quote)
      BY <1>0, <1>2, <2>1, AnswerConfirmationType, AnswerConfirmationOf
    <3> QED BY <1>0, <1>1, <2>1, <3>1, ChatEndsOffered
  <2>2. CASE /\ \E word \in BOOLEAN : \/ g' = GraphReparse(g, word)
                                      \/ g' = CancelByWord(GraphReparse(g, word))
             /\ ChatEnds(c, session, None, "done")
    <3>1. g' \in Graph /\ Of(g', session.quote)
      BY <1>0, <2>2, ResetType, TalkOf, CancelByWordOf
    <3> QED BY <1>0, <1>1, <2>2, <3>1, ChatEndsOffered
  <2>3. CASE \E q \in Quote, reset \in {g.reset, TRUE} :
               /\ g' = GraphPrepare([GraphReparse(g, FALSE) EXCEPT !.quote = q],
                                    q, reset, "done")
               /\ ChatEnds(c, Project(session, [GraphReparse(g, FALSE) EXCEPT !.quote = q],
                                      "quoted"), None, "done")
    <3> DEFINE talk == GraphReparse(g, FALSE)
               Quoted(q) == [talk EXCEPT !.quote = q]
    <3>1. PICK q \in Quote, reset \in {g.reset, TRUE} :
            /\ g' = GraphPrepare(Quoted(q), q, reset, "done")
            /\ ChatEnds(c, Project(session, Quoted(q), "quoted"), None, "done")
      BY <2>3
    <3>2. talk \in Graph /\ talk.pend = None
      BY <1>0, ResetType, TalkForgets
    <3> HIDE DEF talk
    <3>3. /\ Quoted(q) \in Graph /\ reset \in BOOLEAN
          /\ Quoted(q).pend = None /\ Quoted(q).quote = q
      BY <1>0, <3>2 DEF Graph
    <3> HIDE DEF Quoted
    <3> QED BY <1>0, <3>1, <3>3, QuotedOffered
  <2> QED BY <1>5, <2>1, <2>2, <2>3 DEF ChatReparse
<1>6. CASE ChatResume(c)
  <2>1. PICK how \in How : /\ g' = SwapAllowance(g, None, how)
                           /\ ChatEnds(c, session, None, how)
    BY <1>6 DEF ChatResume, How
  <2>2. g' \in Graph /\ Of(g', session.quote)
    BY <1>0, <1>2, <2>1, SwapAllowanceType, SwapAllowanceOf DEF Answer
  <2> QED BY <1>0, <1>1, <2>1, <2>2, ChatEndsOffered
<1> QED BY <1>3, <1>4, <1>5, <1>6 DEF Chat

LEMMA WorkOffered ==
    ASSUME Typed, OneAtATime, Offered, NEW c \in Slot, Work(c)
    PROVE  Offered'
<1>0. /\ g \in Graph /\ session \in Session
      /\ pc[c] # "idle" => snap[c] \in Session
      /\ pc[c] = "select" => req[c] \in Quote
      /\ pc[c] = "projecting" => res[c] \in [g : Graph, status : Status]
      /\ "done" \in How
  BY DEF Typed, TypeOK, SlotsOK, How
<1>1. session.pend \in {None, session.quote}
  BY DEF Offered
<1>2. pc[c] \notin {"idle", "projecting"} => Of(g, session.quote)
  BY DEF Offered, OneAtATime
<1>3. CASE Select(c)
  <2>1. pc[c] = "select" /\ UNCHANGED session
        /\ Release(c, "awaiting_confirmation", "done")
    BY <1>3 DEF Select
  <2>2. g'.pend \in {None, g'.quote}
    BY <1>0, <1>3, GraphSelectOf DEF Select, Of
  <2> QED BY <1>0, <2>1, <2>2, ReleaseOffered
<1>4. CASE Refuse(c)
  <2>1. pc[c] \notin {"idle", "projecting"} /\ Idle(c) /\ UNCHANGED <<g, session>>
    BY <1>4 DEF Refuse
  <2>2. Of(g', session'.quote) /\ session'.pend \in {None, session'.quote}
    BY <1>1, <1>2, <2>1
  <2> QED BY <2>1, <2>2, IdleOffered
<1>5. CASE Approve(c)
  <2>1. PICK how \in How :
          /\ g' = AnswerConfirmation(g, TRUE, how)
          /\ IF how # "raises" /\ g'.intr = "approval"
             THEN Idle(c) /\ session' = Project(session, g', "approval_required")
             ELSE Release(c, ApproveStatus, how) /\ UNCHANGED session
    BY <1>5 DEF Approve, How
  <2>2. pc[c] = "approve"
    BY <1>5 DEF Approve
  <2>3. g' \in Graph /\ Of(g', session.quote)
    BY <1>0, <1>2, <2>1, <2>2, AnswerConfirmationType, AnswerConfirmationOf
  <2>4. g'.pend \in {None, g'.quote}
    BY <2>3 DEF Of
  <2>5. CASE how # "raises" /\ g'.intr = "approval"
    <3>0. session' = Project(session, g', "approval_required")
      BY <2>1, <2>5
    <3>1. session'.pend \in {None, session'.quote} /\ Of(g', session'.quote)
      BY <1>0, <2>3, <2>4, <3>0, ProjectOf
    <3> QED BY <2>1, <2>2, <2>5, <3>1, IdleOffered
  <2>6. CASE ~(how # "raises" /\ g'.intr = "approval")
    BY <2>1, <2>2, <2>3, <2>4, <2>6, ReleaseOffered
  <2> QED BY <2>5, <2>6
<1>6. CASE Reject(c)
  <2>1. PICK how \in How :
          /\ g' = CASE g.intr = "confirmation" -> AnswerConfirmation(g, FALSE, how)
                    [] g.intr \in {"approval", "pending"} -> SwapAllowance(g, None, how)
                    [] OTHER -> g
          /\ Release(c, "cancelled", how)
    BY <1>6 DEF Reject, How
  <2>2. pc[c] = "reject" /\ UNCHANGED session
    BY <1>6 DEF Reject
  <2>3. /\ Of(AnswerConfirmation(g, FALSE, how), session.quote)
        /\ Of(SwapAllowance(g, None, how), session.quote)
        /\ Of(g, session.quote)
    BY <1>0, <1>2, <2>2, AnswerConfirmationOf, SwapAllowanceOf DEF Answer
  <2>4. Of(g', session.quote)
    BY <2>1, <2>3
  <2>5. g'.pend \in {None, g'.quote}
    BY <2>4 DEF Of
  <2> QED BY <2>1, <2>2, <2>4, <2>5, ReleaseOffered
<1>7. CASE Continue(c)
  <2>1. PICK how \in How :
          /\ g' = IF g.intr = "approval"
                  THEN SwapAllowance(g, snap[c].ahash, how)
                  ELSE GraphAllowance(g, snap[c].quote, snap[c].ahash, how)
          /\ Release(c, ContinueStatus, how)
    BY <1>7 DEF Continue, How
  <2>2. pc[c] = "continue" /\ UNCHANGED session
    BY <1>7 DEF Continue
  <2>3. /\ snap[c].ahash \in Hash \cup {None} /\ snap[c].quote \in Quote \cup {None}
        /\ snap[c].quote = session.quote
    BY <1>0, <2>2 DEF Session, Offered, Kind
  <2>4. Of(SwapAllowance(g, snap[c].ahash, how), session.quote)
    BY <1>0, <1>2, <2>2, <2>3, SwapAllowanceOf DEF Answer
  <2>5. g.pend \in {None, snap[c].quote}
    BY <1>2, <2>2, <2>3 DEF Of
  <2>6. Of(GraphAllowance(g, snap[c].quote, snap[c].ahash, how), session.quote)
    BY <1>0, <2>3, <2>5, GraphAllowanceOf
  <2>7. Of(g', session.quote)
    BY <2>1, <2>4, <2>6
  <2>8. g'.pend \in {None, g'.quote}
    BY <2>7 DEF Of
  <2> QED BY <2>1, <2>2, <2>7, <2>8, ReleaseOffered
<1>8. CASE Chat(c)
  BY <1>8, ChatOffered
<1>9. CASE Projection(c)
  <2>1. /\ pc[c] = "projecting"
        /\ session' = Project(session, res[c].g, res[c].status)
        /\ UNCHANGED g
    BY <1>9 DEF Projection
  <2>2. /\ res[c].g \in Graph
        /\ res[c].g.quote = g.quote /\ res[c].g.pend = g.pend
        /\ g.pend \in {None, g.quote}
    BY <1>0, <2>1 DEF Offered
  <2>3. /\ session'.pend \in {None, session'.quote}
        /\ Of(res[c].g, session'.quote)
    BY <1>0, <2>1, <2>2, ProjectOf
  <2>4. Of(g', session'.quote)
    BY <2>1, <2>2, <2>3 DEF Of
  <2>5. CASE req[c] = None
    <3>1. Idle(c)
      BY <1>9, <2>5 DEF Projection
    <3> QED BY <2>1, <2>3, <2>4, <3>1, IdleOffered
  <2>6. CASE req[c] # None
    <3>1. pc' = [pc EXCEPT ![c] = "finishing"]
      BY <1>9, <2>6 DEF Projection
    <3>2. \A d \in Slot : pc'[d] = IF d = c THEN "finishing" ELSE "idle"
      BY <2>1, <3>1 DEF OneAtATime, Typed, TypeOK
    <3>3. \A d \in Slot : pc'[d] \notin Kind /\ pc'[d] # "projecting"
      BY <3>2 DEF Kind
    <3> QED BY <2>3, <2>4, <3>3 DEF Offered, Of
  <2> QED BY <2>5, <2>6
<1>10. CASE FinishSelect(c)
  <2>1. /\ pc[c] = "finishing" /\ Idle(c) /\ UNCHANGED g
        /\ session' = [session EXCEPT !.pend = None, !.ahash = None,
                                      !.status = "awaiting_confirmation",
                                      !.closed = FALSE]
    BY <1>10 DEF FinishSelect
  <2>2. session'.pend = None /\ session'.quote = session.quote
    BY <1>0, <2>1 DEF Session
  <2>3. Of(g', session'.quote)
    BY <1>2, <2>1, <2>2
  <2> QED BY <2>1, <2>2, <2>3, IdleOffered
<1> QED BY <1>3, <1>4, <1>5, <1>6, <1>7, <1>8, <1>9, <1>10 DEF Work

\* While requests do not overlap, the transaction the App is asked to sign is of
\* the quote it shows, whatever was selected, cancelled, failed or expired before
\* (project_session takes both from one checkpoint).  Where they overlap it may
\* not be: a continue that read the session before a chat turn quoted a swap puts
\* an older quote into the checkpoint of that swap.
THEOREM OfferIsOfQuote == Spec /\ []OneAtATime => []PendingOfQuote
<1>1. Init => Offered
  BY DEF Init, Offered, Of, Kind
<1>2. Typed /\ OneAtATime /\ Offered /\ [Next]_vars => Offered'
  <2> SUFFICES ASSUME Typed, OneAtATime, Offered, [Next]_vars PROVE Offered'
    OBVIOUS
  <2>1. CASE UNCHANGED vars
    BY <2>1 DEF vars, slots, Offered, Of
  <2>2. ASSUME NEW c \in Slot, NEW kind \in Kind, NEW q, Begin(c, kind, q)
        PROVE  Offered'
    <3>1. /\ pc' = [pc EXCEPT ![c] = kind]
          /\ snap' = [snap EXCEPT ![c] = session]
          /\ pc[c] = "idle" /\ UNCHANGED <<g, session, res>>
      BY <2>2 DEF Begin
    <3>2. "projecting" \notin Kind
      BY DEF Kind
    <3>3. \A d \in Slot : /\ pc'[d] = IF d = c THEN kind ELSE pc[d]
                          /\ snap'[d] = IF d = c THEN session ELSE snap[d]
      BY <3>1 DEF Typed, TypeOK
    <3>4. \A d \in Slot : pc'[d] = "projecting" <=> pc[d] = "projecting"
      BY <3>1, <3>2, <3>3
    <3> QED BY <3>1, <3>2, <3>3, <3>4 DEF Offered, Of
  <2>3. ASSUME NEW c \in Slot, Work(c) PROVE Offered'
    BY <2>3, WorkOffered
  <2>4. CASE Expire
    <3>1. /\ g'.quote = g.quote /\ g'.pend = g.pend
          /\ UNCHANGED <<session, pc, snap, res>>
      BY <2>4 DEF Expire, slots, Typed, TypeOK, Graph
    <3> QED BY <3>1 DEF Offered, Of
  <2>5. CASE Cancel \/ \E h \in Hash : ApproveBroadcast(h) \/ Mine(h)
    <3>1. session'.quote = session.quote /\ session'.pend = session.pend
      BY <2>5 DEF Cancel, ApproveBroadcast, Mine, Typed, TypeOK, Session
    <3>2. UNCHANGED <<g, pc, snap, res>>
      BY <2>5 DEF Cancel, ApproveBroadcast, Mine, slots
    <3> QED BY <3>1, <3>2 DEF Offered, Of
  <2> QED BY <2>1, <2>2, <2>3, <2>4, <2>5 DEF Next, Kind
<1>3. Offered => PendingOfQuote
  BY DEF Offered, PendingOfQuote
<1> QED BY <1>1, <1>2, <1>3, InitTyped, NextTyped, PTL DEF Spec
============================================================================
