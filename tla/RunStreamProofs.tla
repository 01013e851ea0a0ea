-------------------------- MODULE RunStreamProofs --------------------------
(***************************************************************************)
(* Proofs about RunStream for every page size, retention, retry limit and  *)
(* every number of frames, faults and broken connections.                  *)
(***************************************************************************)
EXTENDS RunStream, TLAPS

(* The store. *)

LEMMA PublishType ==
    ASSUME TypeOK, NEW kind \in Kind, Publish(kind)
    PROVE  /\ log' \in Seq(Kind)
           /\ Len(log') = Len(log) + 1
           /\ first' \in 1 .. Len(log') + 1
           /\ first' >= first
           /\ log'[Len(log')] = kind
           /\ \A i \in DOMAIN log : i \in DOMAIN log' /\ log'[i] = log[i]
           /\ status' = status
<1>1. log' \in Seq(Kind) /\ Len(log') = Len(log) + 1 /\ log'[Len(log')] = kind
  BY DEF TypeOK, Publish
<1>2. \A i \in DOMAIN log : i \in DOMAIN log' /\ log'[i] = log[i]
  BY DEF TypeOK, Publish
<1>3. first' \in 1 .. Len(log') + 1 /\ first' >= first
  <2>1. Len(log) \in Nat /\ first \in 1 .. Len(log) + 1
    BY DEF TypeOK
  <2>2. Retained \in Nat \ {0}
    BY BoundsAssumption
  <2>3. CASE first > Len(log) + 2 - Retained
    BY <1>1, <2>1, <2>2, <2>3 DEF Publish
  <2>4. CASE ~(first > Len(log) + 2 - Retained)
    BY <1>1, <2>1, <2>2, <2>4 DEF Publish
  <2> QED BY <2>3, <2>4
<1> QED BY <1>1, <1>2, <1>3 DEF Publish

LEMMA AckedType ==
    ASSUME TypeOK PROVE Acked \in Nat
<1>1. CASE delivered = <<>>
  BY <1>1 DEF Acked
<1>2. CASE delivered # <<>>
  <2>1. Len(delivered) \in DOMAIN delivered
    BY <1>2 DEF TypeOK
  <2> QED BY <1>2, <2>1 DEF Acked, TypeOK
<1> QED BY <1>1, <1>2

-----------------------------------------------------------------------------
(* What a step of the run task or of the store leaves to the reader's side. *)

StoreKeepsOrGrows ==
    /\ log' \in Seq(Kind) /\ Len(log') >= Len(log)
    /\ first' \in 1 .. Len(log') + 1 /\ first' >= first
    /\ \A i \in DOMAIN log : i \in DOMAIN log' /\ log'[i] = log[i]

WorkerOnly == UNCHANGED <<server, reader>>

WorkerStep == RunTask \/ OperationFails \/ Crash \/ ExpireEvents \/ ExpireRun

LEMMA StoreUnchanged ==
    ASSUME TypeOK, UNCHANGED <<log, first>> PROVE StoreKeepsOrGrows
BY DEF TypeOK, StoreKeepsOrGrows

LEMMA PublishGrows ==
    ASSUME TypeOK, NEW kind \in Kind, Publish(kind) PROVE StoreKeepsOrGrows
BY PublishType DEF StoreKeepsOrGrows, TypeOK

LEMMA WorkerKeeps ==
    ASSUME TypeOK, WorkerStep
    PROVE  /\ StoreKeepsOrGrows
           /\ WorkerOnly
           /\ status' \in TerminalStatus \cup {"queued", "running", "absent"}
           /\ pc' \in InTry \cup InHandler \cup Ended \cup {"queued", "release"}
           /\ target' \in {"complete", "action_required"}
           /\ session' \in {"stale", "projected", "failed"}
           /\ faults' \in Nat
<1> DEFINE Goal == /\ StoreKeepsOrGrows
                   /\ WorkerOnly
                   /\ status' \in TerminalStatus \cup {"queued", "running", "absent"}
                   /\ pc' \in InTry \cup InHandler \cup Ended \cup {"queued", "release"}
                   /\ target' \in {"complete", "action_required"}
                   /\ session' \in {"stale", "projected", "failed"}
                   /\ faults' \in Nat
<1> USE DEF WorkerOnly, InTry, InHandler, Ended, TerminalStatus, Goto
<1>1. CASE MarkRunning
  BY <1>1, StoreUnchanged DEF TypeOK, MarkRunning, SetStatus
<1>2. CASE Acquire \/ LockTimeout \/ GraphRaises \/ InterruptConflict \/ Release
  BY <1>2, StoreUnchanged
  DEF TypeOK, Acquire, LockTimeout, GraphRaises, InterruptConflict, Release, store
<1>3. CASE Emit
  <2>1. "update" \in Kind BY DEF Kind
  <2> QED BY <1>3, <2>1, PublishType, PublishGrows DEF TypeOK, Emit
<1>4. CASE \E kind \in {"complete", "action_required"} : GraphEnds(kind)
  BY <1>4, StoreUnchanged DEF TypeOK, GraphEnds, store
<1>5. CASE ProjectSession \/ FailSession
  BY <1>5, StoreUnchanged DEF TypeOK, ProjectSession, FailSession, store
<1>6. CASE PublishTerminal
  <2>1. target \in Kind BY DEF TypeOK, Kind, TerminalKind
  <2> QED BY <1>6, <2>1, PublishType, PublishGrows DEF TypeOK, PublishTerminal
<1>7. CASE SetTerminalStatus \/ SetFailed
  BY <1>7, StoreUnchanged DEF TypeOK, SetTerminalStatus, SetFailed, SetStatus, Outcome
<1>8. CASE PublishError
  <2>1. "error" \in Kind BY DEF Kind, TerminalKind
  <2> QED BY <1>8, <2>1, PublishType, PublishGrows DEF TypeOK, PublishError
<1>9. CASE OperationFails
  <2>1. {"update", "error", target} \subseteq Kind
    BY DEF TypeOK, Kind, TerminalKind
  <2>2. /\ StoreKeepsOrGrows
        /\ status' \in TerminalStatus \cup {"queued", "running", "absent"}
    <3>1. CASE UNCHANGED store
      BY <3>1, StoreUnchanged DEF store, TypeOK
    <3>2. ASSUME NEW kind \in {"update", "error", target}, Publish(kind)
          PROVE  /\ StoreKeepsOrGrows
                 /\ status' \in TerminalStatus \cup {"queued", "running", "absent"}
      BY <2>1, <3>2, PublishType, PublishGrows DEF TypeOK
    <3>3. ASSUME NEW s \in TerminalStatus \cup {"running"}, SetStatus(s)
          PROVE  /\ StoreKeepsOrGrows
                 /\ status' \in TerminalStatus \cup {"queued", "running", "absent"}
      BY <3>3, StoreUnchanged DEF TypeOK, SetStatus
    <3>4. CASE HalfDone
      BY <3>4, <3>2, <3>3 DEF HalfDone, Outcome
    <3> QED BY <1>9, <3>1, <3>4 DEF OperationFails
  <2>3. /\ WorkerOnly
        /\ pc' \in InTry \cup InHandler \cup Ended \cup {"queued", "release"}
        /\ target' \in {"complete", "action_required"}
        /\ session' \in {"stale", "projected", "failed"}
        /\ faults' \in Nat
    BY <1>9 DEF OperationFails, TypeOK
  <2> QED BY <2>2, <2>3
<1>10. CASE Crash
  BY <1>10, StoreUnchanged DEF TypeOK, Crash, store
<1>11. CASE ExpireEvents \/ ExpireRun
  BY <1>11 DEF TypeOK, ExpireEvents, ExpireRun, StoreKeepsOrGrows, worker
<1> QED
  BY <1>1, <1>2, <1>3, <1>4, <1>5, <1>6, <1>7, <1>8, <1>9, <1>10, <1>11
  DEF WorkerStep, RunTask

-----------------------------------------------------------------------------
(* Every state is well typed: the run, the log, the reader and its cursor.   *)

LEMMA NextType ==
    ASSUME TypeOK, [Next]_vars PROVE TypeOK'
<1> USE DEF TypeOK
<1>1. CASE WorkerStep
  BY <1>1, WorkerKeeps DEF StoreKeepsOrGrows, WorkerOnly, server, reader
<1>2. CASE Read
  <2>1. Len(log) \in Nat /\ Page \in Nat \ {0}
    BY BoundsAssumption
  <2> QED BY <1>2, <2>1 DEF Read, store, worker, reader
<1>3. CASE Yield
  BY <1>3 DEF Yield, store, worker
<1>4. CASE CheckStatus
  BY <1>4 DEF CheckStatus, store, worker, reader
<1>5. CASE Receive
  BY <1>5 DEF Receive, store, worker, server
<1>6. CASE EndOfStream \/ NotFound
  BY <1>6 DEF EndOfStream, NotFound, store, worker, server
<1>7. CASE Drop
  BY <1>7 DEF Drop, store, worker
<1>8. CASE Reconnect
  BY <1>8, AckedType DEF Reconnect, ResumeFrom, store, worker, server
<1>9. CASE UNCHANGED vars
  BY <1>9 DEF vars, store, worker, server, reader
<1> QED
  BY <1>1, <1>2, <1>3, <1>4, <1>5, <1>6, <1>7, <1>8, <1>9
  DEF Next, Generator, ClientStep, Environment, WorkerStep

LEMMA InitType == Init => TypeOK
BY BoundsAssumption DEF Init, TypeOK, TerminalStatus, InTry, InHandler, Ended, Kind

\* Type correctness of the run, its log and its reader.
THEOREM TypeCorrect == Spec => []TypeOK
<1> QED BY InitType, NextType, PTL DEF Spec

-----------------------------------------------------------------------------
(* What the client has parsed.  Frames on the wire are newer than those      *)
(* parsed and no newer than the generator's cursor, and everything up to the *)
(* cursor is parsed, on the wire or no longer retained.                      *)

WireInv ==
    /\ \A i, j \in DOMAIN wire : i < j => wire[i] < wire[j]
    /\ \A i \in DOMAIN wire : Acked < wire[i] /\ wire[i] <= cursor
    /\ conn = "down" => wire = <<>>

CursorInv ==
    /\ Acked <= cursor /\ cursor <= Len(log)
    /\ conn = "send" =>
         /\ cursor < pending[1] /\ pending[2] <= Len(log)
         /\ \A id \in cursor + 1 .. pending[1] - 1 : id < first

OnWire == {wire[i] : i \in DOMAIN wire}

Coverage ==
    conn # "down" => \A id \in 1 .. cursor : id \in Received \cup OnWire \/ id < first

StreamInv == TypeOK /\ WireInv /\ CursorInv /\ Coverage /\ InOrderOnce /\ NoGap

LEMMA InitStream == Init => StreamInv
<1> SUFFICES ASSUME Init PROVE StreamInv
  OBVIOUS
<1>1. TypeOK
  BY InitType
<1>2. Acked = 0 /\ cursor = 0 /\ wire = <<>> /\ delivered = <<>> /\ Len(log) = 0
  BY DEF Init, Acked
<1> QED
  BY <1>1, <1>2 DEF Init, StreamInv, WireInv, CursorInv, Coverage, InOrderOnce, NoGap

\* The run task and the store's expiry never disturb the reader's side.
LEMMA WorkerStream ==
    ASSUME StreamInv, WorkerStep PROVE StreamInv'
<1>1. TypeOK' /\ StoreKeepsOrGrows /\ WorkerOnly
  BY WorkerKeeps, NextType DEF StreamInv, Next, WorkerStep, Environment
<1>2. /\ UNCHANGED <<conn, cursor, pending, wire, delivered>>
      /\ Acked' = Acked /\ Received' = Received /\ OnWire' = OnWire
  BY <1>1 DEF WorkerOnly, server, reader, Acked, Received, OnWire
<1>3. /\ Len(log) \in Nat /\ Len(log') \in Nat /\ first \in Nat /\ first' \in Nat
      /\ Len(log) <= Len(log') /\ first <= first' /\ cursor \in Nat /\ Acked \in Nat
  <2>1. TypeOK
    BY DEF StreamInv
  <2>2. Len(log) \in Nat /\ Len(log') \in Nat
    <3>1. log \in Seq(Kind) /\ log' \in Seq(Kind)
      BY <1>1, <2>1 DEF TypeOK
    <3> QED BY <3>1
  <2>3. Acked \in Nat
    BY <2>1, AckedType
  <2> QED BY <1>1, <2>1, <2>2, <2>3 DEF TypeOK, StoreKeepsOrGrows
<1>4. WireInv' /\ InOrderOnce'
  BY <1>2 DEF StreamInv, WireInv, InOrderOnce
<1>5. CursorInv'
  <2>1. Acked' <= cursor' /\ cursor' <= Len(log')
    BY <1>2, <1>3 DEF StreamInv, CursorInv
  <2>2. ASSUME conn' = "send"
        PROVE  /\ cursor' < pending'[1] /\ pending'[2] <= Len(log')
               /\ \A id \in cursor' + 1 .. pending'[1] - 1 : id < first'
    <3>1. /\ cursor < pending[1] /\ pending[2] <= Len(log)
          /\ \A id \in cursor + 1 .. pending[1] - 1 : id < first
      BY <1>2, <2>2 DEF StreamInv, CursorInv
    <3>2. pending[1] \in Nat /\ pending[2] \in Nat
      BY DEF StreamInv, TypeOK
    <3> QED BY <1>2, <1>3, <3>1, <3>2
  <2> QED BY <2>1, <2>2 DEF CursorInv
<1>6. Coverage' /\ NoGap'
  BY <1>2, <1>3 DEF StreamInv, Coverage, NoGap
<1> QED BY <1>1, <1>4, <1>5, <1>6 DEF StreamInv

LEMMA ReadStream ==
    ASSUME StreamInv, Read PROVE StreamInv'
<1>1. TypeOK'
  BY NextType DEF StreamInv, Next, Generator
<1>2. /\ UNCHANGED <<log, first, cursor, wire, delivered>> /\ conn # "down" /\ conn' # "down"
      /\ Acked' = Acked /\ Received' = Received /\ OnWire' = OnWire
  BY DEF Read, store, reader, Acked, Received, OnWire
<1>3. WireInv' /\ InOrderOnce' /\ Coverage' /\ NoGap'
  BY <1>2 DEF StreamInv, WireInv, InOrderOnce, Coverage, NoGap
<1>4. CursorInv'
  <2>1. Acked' <= cursor' /\ cursor' <= Len(log')
    BY <1>2 DEF StreamInv, CursorInv
  <2>2. ASSUME conn' = "send"
        PROVE /\ cursor' < pending'[1] /\ pending'[2] <= Len(log')
              /\ \A id \in cursor' + 1 .. pending'[1] - 1 : id < first'
    <3>1. Len(log) \in Nat /\ first \in Nat /\ cursor \in Nat /\ Page \in Nat
      BY BoundsAssumption DEF StreamInv, TypeOK
    <3>2. pending' = <<IF cursor + 1 < first THEN first ELSE cursor + 1,
                       IF Len(log) < (IF cursor + 1 < first THEN first ELSE cursor + 1) + Page - 1
                       THEN Len(log)
                       ELSE (IF cursor + 1 < first THEN first ELSE cursor + 1) + Page - 1>>
      BY <2>2 DEF Read
    <3> QED BY <1>2, <3>1, <3>2
  <2> QED BY <2>1, <2>2 DEF CursorInv
<1> QED BY <1>1, <1>3, <1>4 DEF StreamInv

LEMMA YieldStream ==
    ASSUME StreamInv, Yield PROVE StreamInv'
<1>1. TypeOK'
  BY NextType DEF StreamInv, Next, Generator
<1>2. /\ UNCHANGED <<log, first, conn, delivered>> /\ conn = "send"
      /\ wire' = Append(wire, pending[1]) /\ cursor' = pending[1]
      /\ pending' = <<pending[1] + 1, pending[2]>> /\ pending[1] <= pending[2]
      /\ Acked' = Acked /\ Received' = Received
  BY DEF Yield, store, Acked, Received
<1>3. /\ Acked \in Nat /\ cursor \in Nat /\ pending[1] \in Nat /\ pending[2] \in Nat
      /\ Len(log) \in Nat /\ first \in Nat /\ wire \in Seq(Nat)
  BY AckedType DEF StreamInv, TypeOK
<1>4. /\ Acked <= cursor /\ cursor < pending[1] /\ pending[2] <= Len(log)
      /\ \A id \in cursor + 1 .. pending[1] - 1 : id < first
  BY <1>2 DEF StreamInv, CursorInv
<1>5. /\ DOMAIN wire' = 1 .. Len(wire) + 1
      /\ wire'[Len(wire) + 1] = pending[1]
      /\ \A i \in DOMAIN wire : wire'[i] = wire[i] /\ i \in 1 .. Len(wire)
  BY <1>2, <1>3
<1>6. WireInv'
  <2>1. \A i \in DOMAIN wire : wire[i] <= cursor /\ Acked < wire[i] /\ wire[i] \in Nat
    BY <1>3 DEF StreamInv, WireInv
  <2>2. \A i, j \in DOMAIN wire' : i < j => wire'[i] < wire'[j]
    <3>1. TAKE i, j \in DOMAIN wire'
    <3>2. HAVE i < j
    <3>3. i \in DOMAIN wire /\ wire'[i] = wire[i]
      BY <1>3, <1>5, <3>1, <3>2
    <3>4. CASE j = Len(wire) + 1
      BY <1>3, <1>4, <1>5, <2>1, <3>3, <3>4
    <3>5. CASE j # Len(wire) + 1
      <4>1. j \in DOMAIN wire /\ wire'[j] = wire[j]
        BY <1>3, <1>5, <3>1, <3>5
      <4> QED BY <3>2, <3>3, <4>1 DEF StreamInv, WireInv
    <3> QED BY <3>4, <3>5
  <2>3. \A i \in DOMAIN wire' : Acked' < wire'[i] /\ wire'[i] <= cursor'
    <3>1. TAKE i \in DOMAIN wire'
    <3>2. CASE i = Len(wire) + 1
      BY <1>2, <1>3, <1>4, <1>5, <3>2
    <3>3. CASE i # Len(wire) + 1
      <4>1. i \in DOMAIN wire /\ wire'[i] = wire[i]
        BY <1>3, <1>5, <3>1, <3>3
      <4> QED BY <1>2, <1>3, <1>4, <2>1, <4>1
    <3> QED BY <3>2, <3>3
  <2> QED BY <1>2, <2>2, <2>3 DEF WireInv
<1>7. CursorInv'
  BY <1>2, <1>3, <1>4 DEF CursorInv
<1>8. Coverage'
  <2>1. OnWire' = OnWire \cup {pending[1]}
    <3>1. \A i \in DOMAIN wire' : i \in DOMAIN wire \/ i = Len(wire) + 1
      BY <1>3, <1>5
    <3>2. OnWire' \subseteq OnWire \cup {pending[1]}
      BY <1>5, <3>1 DEF OnWire
    <3>3. DOMAIN wire \subseteq DOMAIN wire' /\ Len(wire) + 1 \in DOMAIN wire'
      BY <1>3, <1>5
    <3>4. OnWire \cup {pending[1]} \subseteq OnWire'
      BY <1>5, <3>3 DEF OnWire
    <3> QED BY <3>2, <3>4
  <2>2. \A id \in 1 .. cursor : id \in Received \cup OnWire \/ id < first
    BY <1>2 DEF StreamInv, Coverage
  <2> QED BY <1>2, <1>3, <1>4, <2>1, <2>2 DEF Coverage
<1>9. InOrderOnce' /\ NoGap'
  BY <1>2 DEF StreamInv, InOrderOnce, NoGap
<1> QED BY <1>1, <1>6, <1>7, <1>8, <1>9 DEF StreamInv

LEMMA ReceiveStream ==
    ASSUME StreamInv, Receive PROVE StreamInv'
<1>1. TypeOK'
  BY NextType DEF StreamInv, Next, ClientStep
<1>2. /\ UNCHANGED <<log, first, conn, cursor, pending>> /\ wire # <<>>
      /\ delivered' = Append(delivered, Head(wire)) /\ wire' = Tail(wire)
  BY DEF Receive, store, server
<1>3. /\ wire \in Seq(Nat) /\ delivered \in Seq(Nat) /\ cursor \in Nat /\ first \in Nat
      /\ Len(log) \in Nat /\ pending \in Nat \X Nat
  BY DEF StreamInv, TypeOK
<1>4. Acked \in Nat
  BY AckedType DEF StreamInv
<1>5. /\ Len(wire) \in Nat \ {0} /\ DOMAIN wire = 1 .. Len(wire)
      /\ Head(wire) = wire[1] /\ wire[1] \in Nat
      /\ DOMAIN wire' = 1 .. Len(wire) - 1
      /\ \A i \in 1 .. Len(wire) - 1 : wire'[i] = wire[i + 1]
  BY <1>2, <1>3
<1>6. /\ DOMAIN delivered = 1 .. Len(delivered) /\ Len(delivered) \in Nat
      /\ DOMAIN delivered' = 1 .. Len(delivered) + 1
      /\ Len(delivered') = Len(delivered) + 1
      /\ delivered'[Len(delivered) + 1] = wire[1]
      /\ \A i \in DOMAIN delivered : delivered'[i] = delivered[i]
  BY <1>2, <1>3, <1>5
<1>7. Acked' = wire[1] /\ Acked < wire[1] /\ wire[1] <= cursor
  <2>1. Acked' = wire[1]
    BY <1>2, <1>3, <1>6 DEF Acked
  <2> QED BY <1>5, <2>1 DEF StreamInv, WireInv
<1>8. WireInv'
  <2>1. \A i, j \in DOMAIN wire' : i < j => wire'[i] < wire'[j]
    <3>1. TAKE i, j \in DOMAIN wire'
    <3>2. HAVE i < j
    <3>3. i + 1 \in DOMAIN wire /\ j + 1 \in DOMAIN wire /\ i + 1 < j + 1
      BY <1>5, <3>1, <3>2
    <3>4. wire[i + 1] < wire[j + 1]
      BY <3>3 DEF StreamInv, WireInv
    <3> QED BY <1>5, <3>1, <3>4
  <2>2. \A i \in DOMAIN wire' : Acked' < wire'[i] /\ wire'[i] <= cursor'
    <3>1. TAKE i \in DOMAIN wire'
    <3>2. 1 \in DOMAIN wire /\ i + 1 \in DOMAIN wire /\ 1 < i + 1
      BY <1>5, <3>1
    <3>3. wire[1] < wire[i + 1] /\ wire[i + 1] <= cursor
      BY <3>2 DEF StreamInv, WireInv
    <3> QED BY <1>2, <1>5, <1>7, <3>1, <3>3
  <2>3. conn' # "down"
    BY <1>2 DEF StreamInv, WireInv
  <2> QED BY <2>1, <2>2, <2>3 DEF WireInv
<1>9. CursorInv'
  BY <1>2, <1>7 DEF StreamInv, CursorInv
<1>10. Received' = Received \cup {wire[1]}
  <2>1. Received' = {delivered'[i] : i \in 1 .. Len(delivered) + 1}
    BY <1>6 DEF Received
  <2>2. Received = {delivered[i] : i \in 1 .. Len(delivered)}
    BY <1>6 DEF Received
  <2> QED BY <1>6, <2>1, <2>2
<1>11. OnWire \subseteq OnWire' \cup {wire[1]}
  <2>1. \A i \in DOMAIN wire : i = 1 \/ wire[i] \in OnWire'
    <3>1. TAKE i \in DOMAIN wire
    <3>2. CASE i # 1
      <4>1. i - 1 \in DOMAIN wire' /\ wire'[i - 1] = wire[i]
        BY <1>5, <3>1, <3>2
      <4> QED BY <4>1 DEF OnWire
    <3> QED BY <3>2
  <2> QED BY <2>1 DEF OnWire
<1>12. Coverage'
  <2>1. conn # "down"
    BY <1>2 DEF StreamInv, WireInv
  <2>2. \A id \in 1 .. cursor : id \in Received \cup OnWire \/ id < first
    BY <2>1 DEF StreamInv, Coverage
  <2> QED BY <1>2, <1>10, <1>11, <2>2 DEF Coverage
<1>13. NoGap'
  <2>1. \A id \in 1 .. wire[1] : id \in Received \cup OnWire \/ id < first
    BY <1>2, <1>3, <1>5, <1>7 DEF StreamInv, WireInv, Coverage
  <2>2. \A id \in OnWire : wire[1] <= id
    <3>1. \A i \in DOMAIN wire : wire[1] <= wire[i]
      <4>1. TAKE i \in DOMAIN wire
      <4>2. CASE i = 1
        BY <1>5, <4>2
      <4>3. CASE i # 1
        <5>1. 1 \in DOMAIN wire /\ 1 < i
          BY <1>5, <4>1, <4>3
        <5>2. wire[1] < wire[i] /\ wire[i] \in Nat
          BY <1>3, <5>1 DEF StreamInv, WireInv
        <5> QED BY <1>5, <5>2
      <4> QED BY <4>2, <4>3
    <3> QED BY <3>1 DEF OnWire
  <2>3. \A id \in 1 .. wire[1] : id \in OnWire => id = wire[1]
    BY <1>5, <2>2
  <2> QED BY <1>2, <1>7, <1>10, <2>1, <2>3 DEF NoGap
<1>14. InOrderOnce'
  <2>1. \A i \in DOMAIN delivered : delivered[i] <= Acked /\ delivered[i] \in Nat
    <3>1. TAKE i \in DOMAIN delivered
    <3>2. /\ Acked = delivered[Len(delivered)] /\ Len(delivered) \in DOMAIN delivered
          /\ i \in 1 .. Len(delivered) /\ delivered[i] \in Nat
      BY <1>3, <1>6, <3>1 DEF Acked
    <3>3. CASE i = Len(delivered)
      BY <1>4, <3>2, <3>3
    <3>4. CASE i < Len(delivered)
      <4>1. delivered[i] < delivered[Len(delivered)]
        BY <3>2, <3>4 DEF StreamInv, InOrderOnce
      <4> QED BY <1>4, <3>2, <4>1
    <3> QED BY <1>6, <3>2, <3>3, <3>4
  <2>2. SUFFICES ASSUME NEW i \in DOMAIN delivered', NEW j \in DOMAIN delivered', i < j
                 PROVE delivered'[i] < delivered'[j]
    BY DEF InOrderOnce
  <2>3. i \in DOMAIN delivered /\ delivered'[i] = delivered[i]
    BY <1>6, <2>2
  <2>4. CASE j = Len(delivered) + 1
    BY <1>4, <1>5, <1>6, <1>7, <2>1, <2>3, <2>4
  <2>5. CASE j # Len(delivered) + 1
    <3>1. j \in DOMAIN delivered /\ delivered'[j] = delivered[j]
      BY <1>6, <2>5
    <3> QED BY <2>2, <2>3, <3>1 DEF StreamInv, InOrderOnce
  <2> QED BY <2>4, <2>5
<1> QED BY <1>1, <1>8, <1>9, <1>12, <1>13, <1>14 DEF StreamInv

\* Steps that move the generator or the connection and read no frame.
LEMMA ConnStream ==
    ASSUME StreamInv, CheckStatus \/ EndOfStream \/ NotFound \/ Drop PROVE StreamInv'
<1>1. TypeOK'
  BY NextType DEF StreamInv, Next, Generator, ClientStep, Environment
<1>2. /\ UNCHANGED <<log, first, cursor, pending, delivered>>
      /\ Acked' = Acked /\ Received' = Received
      /\ conn' # "send"
  <2>1. UNCHANGED <<log, first, cursor, pending, delivered>>
    BY DEF CheckStatus, EndOfStream, NotFound, Drop, store, server, reader
  <2>2. CASE CheckStatus
    BY <2>1, <2>2 DEF CheckStatus, Acked, Received
  <2>3. CASE EndOfStream \/ NotFound \/ Drop
    BY <2>1, <2>3 DEF EndOfStream, NotFound, Drop, server, Acked, Received
  <2> QED BY <2>2, <2>3
<1>3. \/ wire' = wire /\ (conn' = "down" => conn = "down" \/ wire = <<>>)
                     /\ (conn' # "down" => conn # "down")
      \/ wire' = <<>> /\ conn' = "down"
  BY DEF CheckStatus, EndOfStream, NotFound, Drop, server, reader
<1>4. WireInv'
  BY <1>2, <1>3 DEF StreamInv, WireInv
<1>5. CursorInv' /\ InOrderOnce' /\ NoGap'
  BY <1>2 DEF StreamInv, CursorInv, InOrderOnce, NoGap
<1>6. Coverage'
  BY <1>2, <1>3 DEF StreamInv, Coverage, OnWire
<1> QED BY <1>1, <1>4, <1>5, <1>6 DEF StreamInv

LEMMA ReconnectStream ==
    ASSUME StreamInv, Reconnect PROVE StreamInv'
<1>1. TypeOK'
  BY NextType DEF StreamInv, Next, ClientStep
<1>2. /\ UNCHANGED <<log, first, wire, delivered>> /\ conn = "down"
      /\ Acked' = Acked /\ Received' = Received /\ wire = <<>>
  BY DEF Reconnect, store, worker, StreamInv, WireInv, Acked, Received
<1>3. CASE UNCHANGED server
  BY <1>1, <1>2, <1>3
  DEF StreamInv, server, WireInv, CursorInv, Coverage, OnWire, InOrderOnce, NoGap
<1>4. CASE conn' = "read" /\ cursor' = Acked
  <2>1. Acked \in Nat /\ cursor \in Nat /\ Len(log) \in Nat
    BY AckedType DEF StreamInv, TypeOK
  <2>2. WireInv' /\ InOrderOnce' /\ NoGap'
    BY <1>2, <1>4 DEF StreamInv, WireInv, InOrderOnce, NoGap
  <2>3. CursorInv'
    BY <1>2, <1>4, <2>1 DEF StreamInv, CursorInv
  <2>4. Coverage'
    BY <1>2, <1>4 DEF StreamInv, NoGap, Coverage
  <2> QED BY <1>1, <2>2, <2>3, <2>4 DEF StreamInv
<1> QED BY <1>3, <1>4 DEF Reconnect, ResumeFrom

LEMMA NextStream ==
    ASSUME StreamInv, [Next]_vars PROVE StreamInv'
<1>1. CASE UNCHANGED vars
  BY <1>1
  DEF vars, store, worker, server, reader, StreamInv, TypeOK, WireInv, CursorInv,
      Coverage, InOrderOnce, NoGap, Acked, Received, OnWire
<1> QED
  BY <1>1, WorkerStream, ReadStream, YieldStream, ReceiveStream, ConnStream, ReconnectStream
  DEF Next, Generator, ClientStep, Environment, WorkerStep

\* The client parses each frame at most once and in order, across pages, broken
\* connections and reconnects.
THEOREM DeliveredInOrderOnce == Spec => []InOrderOnce
<1>1. StreamInv => InOrderOnce
  BY DEF StreamInv
<1> QED BY <1>1, InitStream, NextStream, PTL DEF Spec

\* Resuming from the last parsed id skips no event the store still retains.
THEOREM DeliveredWithoutGap == Spec => []NoGap
<1>1. StreamInv => NoGap
  BY DEF StreamInv
<1> QED BY <1>1, InitStream, NextStream, PTL DEF Spec

-----------------------------------------------------------------------------
(* The outcome of the run.  Between a terminal frame and the status that     *)
(* follows it the frame is the last one; a fault-free run has published no   *)
(* terminal frame before it stands there and appends nothing after it; the   *)
(* session is projected before a frame that sends the client to read it.     *)

LastIs(kind) == log # <<>> /\ log[Len(log)] = kind

Before == {"queued", "acquire", "stream", "project", "frame", "error_frame",
           "conflict_frame"}

Publishing ==
    /\ pc = "settle" => LastIs(target)
    /\ pc \in {"error_status", "conflict_status"} => LastIs("error")

Clean ==
    faults = 0 =>
        /\ status \in TerminalStatus => pc \in {"error_session", "release", "ended", "dead"}
        /\ pc \in Before => \A i \in DOMAIN log : log[i] \notin TerminalKind

Projection ==
    /\ pc \in {"frame", "settle"} => session # "stale"
    /\ \A i \in DOMAIN log : log[i] \in {"complete", "action_required"} => session # "stale"

OutcomeInv ==
    TypeOK /\ StatusFollowsFrame /\ OneOutcome /\ Publishing /\ Clean /\ Projection

LEMMA InitOutcome == Init => OutcomeInv
<1> SUFFICES ASSUME Init PROVE OutcomeInv
  OBVIOUS
<1>1. TypeOK
  BY InitType
<1> QED
  BY <1>1
  DEF Init, OutcomeInv, StatusFollowsFrame, OneOutcome, Publishing, Clean, Projection,
      TerminalStatus, Before

\* What the conjuncts need of a step that publishes one frame.
LEMMA PublishOutcome ==
    ASSUME OutcomeInv, NEW kind \in Kind, Publish(kind), faults' >= faults, faults' \in Nat,
           UNCHANGED target,
           pc' = "settle" => kind = target,
           pc' \in {"error_status", "conflict_status"} => kind = "error",
           faults' = 0 => /\ status \notin TerminalStatus
                          /\ \A i \in DOMAIN log : log[i] \notin TerminalKind
                          /\ pc' \in Before => kind \notin TerminalKind,
           pc' \in {"frame", "settle"} => session' # "stale",
           session # "stale" => session' # "stale",
           kind \in {"complete", "action_required"} => session' # "stale"
    PROVE  StatusFollowsFrame' /\ OneOutcome' /\ Publishing' /\ Clean' /\ Projection'
<1>1. /\ Len(log') = Len(log) + 1 /\ log'[Len(log')] = kind /\ status' = status
      /\ \A i \in DOMAIN log : i \in DOMAIN log' /\ log'[i] = log[i]
      /\ log \in Seq(Kind) /\ log' \in Seq(Kind) /\ Len(log) \in Nat /\ faults \in Nat
  BY PublishType DEF OutcomeInv, TypeOK
<1>2. \A i \in DOMAIN log' : i \in DOMAIN log \/ i = Len(log')
  BY <1>1
<1>3. log' # <<>> /\ LastIs(kind)'
  BY <1>1 DEF LastIs
<1>4. StatusFollowsFrame'
  <2>1. SUFFICES ASSUME status' \in TerminalStatus
                 PROVE \E i \in DOMAIN log' : log'[i] = FrameOf(status')
                                              /\ (faults' = 0 => i = Len(log'))
    BY DEF StatusFollowsFrame, FrameOf
  <2>2. PICK i \in DOMAIN log : log[i] = FrameOf(status)
    BY <1>1, <2>1 DEF OutcomeInv, StatusFollowsFrame
  <2>3. i \in DOMAIN log' /\ log'[i] = FrameOf(status')
    BY <1>1, <2>2 DEF FrameOf
  <2>4. faults' # 0
    BY <1>1, <2>1
  <2> QED BY <2>3, <2>4
<1>5. OneOutcome'
  <2>1. SUFFICES ASSUME NEW i \in DOMAIN log', log'[i] \in TerminalKind, i < Len(log')
                 PROVE faults' > 0
    BY DEF OneOutcome
  <2>2. i \in DOMAIN log /\ log[i] \in TerminalKind
    BY <1>1, <1>2, <2>1
  <2> QED BY <2>2
<1>6. Publishing'
  BY <1>3 DEF Publishing, LastIs
<1>7. Clean'
  BY <1>1, <1>2 DEF Clean
<1>8. Projection'
  BY <1>1, <1>2 DEF OutcomeInv, Projection
<1> QED BY <1>4, <1>5, <1>6, <1>7, <1>8

\* ... of one that sets the status,
LEMMA StatusOutcome ==
    ASSUME OutcomeInv, UNCHANGED log, faults' >= faults, faults' \in Nat,
           status' \in TerminalStatus => LastIs(FrameOf(status')),
           status' \in TerminalStatus /\ faults' = 0 =>
               pc' \in {"error_session", "release", "ended", "dead"},
           pc' \in Before /\ faults' = 0 => pc \in Before,
           pc' \notin {"settle", "error_status", "conflict_status"},
           pc' = "frame" => session' # "stale",
           session # "stale" => session' # "stale"
    PROVE  StatusFollowsFrame' /\ OneOutcome' /\ Publishing' /\ Clean' /\ Projection'
<1>1. log \in Seq(Kind) /\ faults \in Nat /\ faults' \in Nat /\ Len(log) \in Nat
  BY DEF OutcomeInv, TypeOK
<1>2. StatusFollowsFrame'
  <2>1. SUFFICES ASSUME status' \in TerminalStatus
                 PROVE \E i \in DOMAIN log' : log'[i] = FrameOf(status')
                                              /\ (faults' = 0 => i = Len(log'))
    BY DEF StatusFollowsFrame, FrameOf
  <2>2. Len(log) \in DOMAIN log /\ log[Len(log)] = FrameOf(status')
    BY <1>1, <2>1 DEF LastIs
  <2> QED BY <2>2
<1>3. OneOutcome'
  BY <1>1 DEF OutcomeInv, OneOutcome
<1>4. Publishing'
  BY DEF Publishing
<1>5. Clean'
  BY <1>1 DEF OutcomeInv, Clean
<1>6. Projection'
  BY DEF OutcomeInv, Projection
<1> QED BY <1>2, <1>3, <1>4, <1>5, <1>6

\* ... and of one that leaves the store alone.
LEMMA QuietOutcome ==
    ASSUME OutcomeInv, UNCHANGED log, faults' >= faults, faults' \in Nat,
           status' = status \/ status' \notin TerminalStatus,
           pc' = pc \/ pc' \notin {"settle", "error_status", "conflict_status"},
           UNCHANGED target \/ pc' # "settle",
           faults' = 0 /\ pc \in {"error_session", "release", "ended", "dead"} =>
               pc' \in {"error_session", "release", "ended", "dead"},
           pc' \in Before /\ faults' = 0 => pc \in Before,
           pc' = "frame" => session' # "stale",
           session # "stale" => session' # "stale"
    PROVE  StatusFollowsFrame' /\ OneOutcome' /\ Publishing' /\ Clean' /\ Projection'
<1>1. log \in Seq(Kind) /\ faults \in Nat /\ faults' \in Nat /\ Len(log) \in Nat
  BY DEF OutcomeInv, TypeOK
<1>2. StatusFollowsFrame'
  <2>1. SUFFICES ASSUME status' \in TerminalStatus
                 PROVE \E i \in DOMAIN log' : log'[i] = FrameOf(status')
                                              /\ (faults' = 0 => i = Len(log'))
    BY DEF StatusFollowsFrame, FrameOf
  <2>2. PICK i \in DOMAIN log : log[i] = FrameOf(status) /\ (faults = 0 => i = Len(log))
    BY <2>1 DEF OutcomeInv, StatusFollowsFrame
  <2> QED BY <1>1, <2>1, <2>2 DEF FrameOf
<1>3. OneOutcome'
  BY <1>1 DEF OutcomeInv, OneOutcome
<1>4. Publishing'
  BY DEF OutcomeInv, Publishing, LastIs
<1>5. Clean'
  BY <1>1 DEF OutcomeInv, Clean
<1>6. Projection'
  BY DEF OutcomeInv, Projection
<1> QED BY <1>2, <1>3, <1>4, <1>5, <1>6

LEMMA FailsOutcome ==
    ASSUME OutcomeInv, OperationFails
    PROVE  StatusFollowsFrame' /\ OneOutcome' /\ Publishing' /\ Clean' /\ Projection'
<1> USE DEF InTry, InHandler
<1>1. /\ faults' = faults + 1 /\ faults \in Nat /\ faults' \in Nat /\ faults' # 0
      /\ pc' \in {"error_frame", "dead"} /\ UNCHANGED target
      /\ session # "stale" => session' # "stale"
  BY DEF OperationFails, OutcomeInv, TypeOK
<1>2. CASE UNCHANGED store
  BY <1>1, <1>2, QuietOutcome DEF store
<1>3. ASSUME NEW s, SetStatus(s), s \in TerminalStatus => LastIs(FrameOf(s))
      PROVE  StatusFollowsFrame' /\ OneOutcome' /\ Publishing' /\ Clean' /\ Projection'
  BY <1>1, <1>3, StatusOutcome DEF SetStatus
<1>4. CASE pc = "queued" /\ SetStatus("running")
  BY <1>3, <1>4 DEF TerminalStatus
<1>5. CASE pc = "settle" /\ SetStatus(Outcome)
  <2>1. FrameOf(Outcome) = target /\ LastIs(target)
    BY <1>5 DEF OutcomeInv, TypeOK, Publishing, FrameOf, Outcome
  <2> QED BY <1>3, <1>5, <2>1
<1>6. CASE pc \in {"error_status", "conflict_status"} /\ SetStatus("failed")
  <2>1. FrameOf("failed") = "error" /\ LastIs("error")
    BY <1>6 DEF OutcomeInv, Publishing, FrameOf
  <2> QED BY <1>3, <1>6, <2>1
<1>7. ASSUME NEW kind \in Kind, Publish(kind),
             kind \in {"complete", "action_required"} => session # "stale"
      PROVE  StatusFollowsFrame' /\ OneOutcome' /\ Publishing' /\ Clean' /\ Projection'
  BY <1>1, <1>7, PublishOutcome
<1>8. CASE pc = "stream" /\ Publish("update")
  BY <1>7, <1>8 DEF Kind
<1>9. CASE pc = "frame" /\ Publish(target)
  BY <1>7, <1>9 DEF OutcomeInv, TypeOK, Projection, Kind, TerminalKind
<1>10. CASE Publish("error")
  BY <1>7, <1>10 DEF Kind, TerminalKind
<1> QED
  BY <1>2, <1>4, <1>5, <1>6, <1>8, <1>9, <1>10 DEF OperationFails, HalfDone

LEMMA NextOutcome ==
    ASSUME OutcomeInv, [Next]_vars PROVE OutcomeInv'
<1>1. TypeOK' /\ faults \in Nat /\ faults' \in Nat
  <2>1. TypeOK'
    BY NextType DEF OutcomeInv
  <2> QED BY <2>1 DEF OutcomeInv, TypeOK
<1> SUFFICES StatusFollowsFrame' /\ OneOutcome' /\ Publishing' /\ Clean' /\ Projection'
  BY <1>1 DEF OutcomeInv
<1> USE DEF Goto, Before
<1>2. CASE MarkRunning
  BY <1>1, <1>2, QuietOutcome DEF MarkRunning, SetStatus, TerminalStatus
<1>3. CASE Acquire \/ LockTimeout \/ GraphRaises \/ InterruptConflict \/ Release
  BY <1>1, <1>3, QuietOutcome
  DEF Acquire, LockTimeout, GraphRaises, InterruptConflict, Release, store
<1>4. CASE Emit
  <2>1. "update" \in Kind /\ "update" \notin TerminalKind
    BY DEF Kind, TerminalKind
  <2>2. /\ pc = "stream" /\ pc' = "stream" /\ Publish("update")
        /\ UNCHANGED <<target, session, faults>>
    BY <1>4 DEF Emit
  <2>3. faults = 0 => /\ status \notin TerminalStatus
                      /\ \A i \in DOMAIN log : log[i] \notin TerminalKind
    BY <2>2 DEF OutcomeInv, Clean
  <2> QED BY <1>1, <2>1, <2>2, <2>3, PublishOutcome
<1>5. CASE \E kind \in {"complete", "action_required"} : GraphEnds(kind)
  BY <1>1, <1>5, QuietOutcome DEF GraphEnds, store
<1>6. CASE ProjectSession \/ FailSession
  BY <1>1, <1>6, QuietOutcome DEF ProjectSession, FailSession, store
<1>7. CASE PublishTerminal
  <2>1. target \in Kind
    BY DEF OutcomeInv, TypeOK, Kind, TerminalKind
  <2>2. /\ pc = "frame" /\ pc' = "settle" /\ Publish(target) /\ session # "stale"
        /\ UNCHANGED <<target, session, faults>>
    BY <1>7 DEF PublishTerminal, OutcomeInv, Projection
  <2>3. faults = 0 => /\ status \notin TerminalStatus
                      /\ \A i \in DOMAIN log : log[i] \notin TerminalKind
    BY <2>2 DEF OutcomeInv, Clean
  <2> QED BY <1>1, <2>1, <2>2, <2>3, PublishOutcome
<1>8. CASE SetTerminalStatus
  <2>1. /\ pc = "settle" /\ pc' = "release" /\ status' = Outcome /\ LastIs(target)
        /\ UNCHANGED <<log, target, session, faults>>
    BY <1>8 DEF SetTerminalStatus, SetStatus, OutcomeInv, Publishing
  <2>2. FrameOf(status') = target
    BY <2>1 DEF FrameOf, Outcome, OutcomeInv, TypeOK
  <2> QED BY <1>1, <2>1, <2>2, StatusOutcome
<1>9. CASE PublishError
  <2>1. "error" \in Kind
    BY DEF Kind, TerminalKind
  <2>2. /\ pc \in {"error_frame", "conflict_frame"}
        /\ pc' \in {"error_status", "conflict_status"} /\ Publish("error")
        /\ UNCHANGED <<target, session, faults>>
    BY <1>9 DEF PublishError
  <2>3. faults = 0 => /\ status \notin TerminalStatus
                      /\ \A i \in DOMAIN log : log[i] \notin TerminalKind
    BY <2>2 DEF OutcomeInv, Clean
  <2> QED BY <1>1, <2>1, <2>2, <2>3, PublishOutcome
<1>10. CASE SetFailed
  <2>1. /\ pc \in {"error_status", "conflict_status"} /\ pc' \in {"error_session", "release"}
        /\ status' = "failed" /\ LastIs("error") /\ UNCHANGED <<log, target, session, faults>>
    BY <1>10 DEF SetFailed, SetStatus, OutcomeInv, Publishing
  <2>2. FrameOf("failed") = "error"
    BY DEF FrameOf
  <2> QED BY <1>1, <2>1, <2>2, StatusOutcome
<1>11. CASE OperationFails
  BY <1>11, FailsOutcome
<1>12. CASE Crash
  BY <1>1, <1>12, QuietOutcome DEF Crash, store
<1>13. CASE ExpireEvents \/ ExpireRun
  <2>1. /\ UNCHANGED <<log, pc, target, session, faults>>
        /\ status' = status \/ status' = "absent"
    BY <1>13 DEF ExpireEvents, ExpireRun, worker
  <2>2. pc' = "frame" => session' # "stale"
    BY <2>1 DEF OutcomeInv, Projection
  <2> QED BY <1>1, <2>1, <2>2, QuietOutcome DEF TerminalStatus
<1>14. CASE Generator \/ ClientStep \/ Drop \/ UNCHANGED vars
  <2>1. UNCHANGED <<status, log, pc, target, session, faults>>
    BY <1>14
    DEF Generator, Read, Yield, CheckStatus, ClientStep, Receive, EndOfStream, NotFound,
        Reconnect, Drop, vars, store, worker
  <2>2. pc' = "frame" => session' # "stale"
    BY <2>1 DEF OutcomeInv, Projection
  <2> QED BY <1>1, <2>1, <2>2, QuietOutcome
<1> QED
  BY <1>2, <1>3, <1>4, <1>5, <1>6, <1>7, <1>8, <1>9, <1>10, <1>11, <1>12, <1>13, <1>14
  DEF Next, RunTask, Environment

\* The status of a run turns terminal only once the frame of that outcome is in
\* the log, and fault-free it is the last frame.
THEOREM StatusAfterFrame == Spec => []StatusFollowsFrame
<1>1. OutcomeInv => StatusFollowsFrame
  BY DEF OutcomeInv
<1> QED BY <1>1, InitOutcome, NextOutcome, PTL DEF Spec

\* Without a failed store operation a run publishes one terminal frame, the last.
THEOREM SingleOutcome == Spec => []OneOutcome
<1>1. OutcomeInv => OneOutcome
  BY DEF OutcomeInv
<1> QED BY <1>1, InitOutcome, NextOutcome, PTL DEF Spec

-----------------------------------------------------------------------------
(* A parsed frame is one the run published. *)

KnownInv == StreamInv /\ OutcomeInv /\ Received \subseteq DOMAIN log

LEMMA InitKnown == Init => KnownInv
<1> SUFFICES ASSUME Init PROVE KnownInv
  OBVIOUS
<1>1. Received = {}
  BY DEF Init, Received
<1> QED BY <1>1, InitStream, InitOutcome DEF KnownInv

LEMMA NextKnown ==
    ASSUME KnownInv, [Next]_vars PROVE KnownInv'
<1>1. StreamInv' /\ OutcomeInv'
  BY NextStream, NextOutcome DEF KnownInv
<1>2. DOMAIN log \subseteq DOMAIN log'
  <2>1. CASE WorkerStep
    BY <2>1, WorkerKeeps DEF KnownInv, StreamInv, StoreKeepsOrGrows
  <2>2. CASE ~WorkerStep
    <3>1. UNCHANGED log
      BY <2>2
      DEF Next, WorkerStep, Generator, Read, Yield, CheckStatus, ClientStep, Receive,
          EndOfStream, NotFound, Reconnect, Environment, Drop, vars, store
    <3> QED BY <3>1
  <2> QED BY <2>1, <2>2
<1>3. CASE Receive
  <2>1. /\ wire \in Seq(Nat) /\ wire # <<>> /\ delivered \in Seq(Nat)
        /\ delivered' = Append(delivered, Head(wire))
    BY <1>3 DEF Receive, KnownInv, StreamInv, TypeOK
  <2>2. Head(wire) = wire[1] /\ 1 \in DOMAIN wire /\ wire[1] \in Nat
    BY <2>1
  <2>3. /\ Acked < wire[1] /\ wire[1] <= Len(log) /\ Acked \in Nat
        /\ Len(log) \in Nat /\ cursor \in Nat /\ log \in Seq(Kind)
    <3>1. TypeOK /\ Acked \in Nat
      BY AckedType DEF KnownInv, StreamInv
    <3>2. Acked < wire[1] /\ wire[1] <= cursor /\ cursor <= Len(log)
      BY <2>2 DEF KnownInv, StreamInv, WireInv, CursorInv
    <3>3. log \in Seq(Kind) /\ cursor \in Nat
      BY <3>1 DEF TypeOK
    <3> QED BY <2>2, <3>1, <3>2, <3>3
  <2>4. wire[1] \in DOMAIN log
    BY <2>2, <2>3
  <2>5. Received' \subseteq Received \cup {wire[1]}
    BY <2>1, <2>2 DEF Received
  <2> QED BY <1>1, <1>2, <2>4, <2>5 DEF KnownInv
<1>4. CASE ~Receive
  <2>1. UNCHANGED delivered
    BY <1>4, WorkerKeeps
    DEF KnownInv, StreamInv, Next, WorkerStep, WorkerOnly, Generator, Read, Yield,
        CheckStatus, ClientStep, EndOfStream, NotFound, Reconnect, Environment, Drop,
        vars, reader
  <2>2. Received' = Received
    BY <2>1 DEF Received
  <2> QED BY <1>1, <1>2, <2>2 DEF KnownInv
<1> QED BY <1>3, <1>4

\* A client that reads the session on "complete" or "action_required" finds it
\* projected.
THEOREM ProjectedWhenTold == Spec => []ProjectedBeforeFrame
<1>1. KnownInv => ProjectedBeforeFrame
  BY DEF KnownInv, OutcomeInv, Projection, ProjectedBeforeFrame
<1> QED BY <1>1, InitKnown, NextKnown, PTL DEF Spec

-----------------------------------------------------------------------------
(* Retries.  A terminal status comes after the terminal frame, and from then *)
(* on only terminal frames are added.  A connection that reads under it      *)
(* brings the client a terminal frame or one page nearer to the end of the   *)
(* log; so, while the events are retained, the connections that closed       *)
(* without the frame are at most one per page.                               *)

Gone == status = "absent" \/ (log # <<>> /\ first > Len(log))

Past == {"error_frame", "error_status", "error_session", "release", "ended", "dead"}

EndInv ==
    /\ status \in TerminalStatus =>
          pc \in Past /\ log # <<>> /\ log[Len(log)] \in TerminalKind
    /\ Gone => pc \in Ended

\* Connections that closed cleanly, each followed by a reconnect but the last.
Closes == retries + (IF conn = "down" THEN 1 ELSE 0) - drops

Told(ids) == \E i \in ids : i \in DOMAIN log /\ log[i] \in TerminalKind

\* What the connection has brought the client or still brings.
Batch == Received \cup OnWire \cup pending[1] .. pending[2]

CaughtUp == conn # "down" => cursor = IF wire = <<>> THEN Acked ELSE wire[Len(wire)]

Progress ==
    /\ Closes >= 1 => /\ status \in TerminalStatus
                      /\ (Closes - 1) * Page <= Acked
                      /\ (Closes - 1) * Page < Len(log)
    /\ conn \in {"send", "closed"} =>
          /\ pending[1] = cursor + 1 \/ pending[1] <= pending[2]
          /\ Closes >= 1 => Closes * Page <= pending[2] \/ Told(Batch)
    /\ conn = "closed" => /\ status \in TerminalStatus
                          /\ pending[1] > pending[2] /\ pending[2] <= cursor
    /\ conn # "missing"

GaveUp ==
    /\ retries <= MaxRetries
    /\ client = "gave_up" =>
          \/ Gone
          \/ MaxRetries < drops
          \/ (MaxRetries - drops) * Page < Len(log)

BoundInv == KnownInv /\ EndInv /\ CaughtUp /\ (Gone \/ Progress) /\ GaveUp

\* A frame that is published is retained, and after a terminal status it is a
\* terminal one.
LEMMA PublishEnd ==
    ASSUME TypeOK, EndInv, pc \notin Ended, NEW kind \in Kind, Publish(kind),
           status \in TerminalStatus => pc' \in Past /\ kind \in TerminalKind
    PROVE  EndInv' /\ ~Gone'
<1>1. /\ Len(log') = Len(log) + 1 /\ log'[Len(log')] = kind /\ status' = status
      /\ log' # <<>>
  <2>1. log' \in Seq(Kind) /\ Len(log') = Len(log) + 1 /\ log'[Len(log')] = kind
        /\ status' = status
    BY PublishType
  <2>2. Len(log) \in Nat
    BY DEF TypeOK
  <2> QED BY <2>1, <2>2
<1>2. ~Gone
  BY DEF EndInv
<1>3. first <= Len(log) + 1 /\ first \in Nat /\ Len(log) \in Nat
  BY DEF TypeOK
<1>4. first' <= Len(log) + 1
  <2>1. Retained \in Nat \ {0}
    BY BoundsAssumption
  <2>2. CASE first > Len(log) + 2 - Retained
    BY <1>3, <2>1, <2>2 DEF Publish
  <2>3. CASE ~(first > Len(log) + 2 - Retained)
    BY <1>3, <2>1, <2>3 DEF Publish
  <2> QED BY <2>2, <2>3
<1>5. first' \in Nat
  BY PublishType
<1>6. ~Gone'
  BY <1>1, <1>2, <1>3, <1>4, <1>5 DEF Gone
<1> QED BY <1>1, <1>6 DEF EndInv

LEMMA StatusEnd ==
    ASSUME EndInv, pc \notin Ended, UNCHANGED <<log, first>>, status' # "absent",
           status' \in TerminalStatus =>
               pc' \in Past /\ log # <<>> /\ log[Len(log)] \in TerminalKind
    PROVE  EndInv' /\ ~Gone'
BY DEF EndInv, Gone

\* What is gone stays gone, and a terminal status stays terminal.
EndKept ==
    /\ EndInv'
    /\ Gone => Gone'
    /\ status \in TerminalStatus => status' \in TerminalStatus \cup {"absent"}

LEMMA FailsEnd ==
    ASSUME OutcomeInv, EndInv, OperationFails PROVE EndKept
<1>1. TypeOK /\ Publishing /\ target \in {"complete", "action_required"}
  BY DEF OutcomeInv, TypeOK
<1>2. pc \notin Ended /\ ~Gone
  BY DEF OperationFails, InTry, InHandler, Ended, EndInv
<1>3. pc' \in {"error_frame", "dead"} /\ pc' \in Past
  BY DEF OperationFails, Past
<1>4. "update" \in Kind /\ "error" \in Kind /\ "error" \in TerminalKind
      /\ target \in Kind /\ target \in TerminalKind
  BY <1>1 DEF Kind, TerminalKind
<1>5. status # "absent"
  BY <1>2 DEF Gone
<1>6. CASE UNCHANGED store
  <2>1. UNCHANGED <<log, first, status>>
    BY <1>6 DEF store
  <2>2. EndInv' /\ ~Gone'
    BY <1>2, <1>3, <1>5, <2>1, StatusEnd DEF EndInv
  <2> QED BY <1>2, <2>1, <2>2 DEF EndKept
<1>7. CASE pc = "queued" /\ SetStatus("running")
  <2>1. UNCHANGED <<log, first>> /\ status' = "running" /\ status \notin TerminalStatus
    BY <1>7 DEF SetStatus, EndInv, Past
  <2>2. EndInv' /\ ~Gone'
    BY <1>2, <2>1, StatusEnd DEF TerminalStatus
  <2> QED BY <1>2, <2>1, <2>2 DEF EndKept
<1>8. CASE pc = "stream" /\ Publish("update")
  <2>1. status \notin TerminalStatus
    BY <1>8 DEF EndInv, Past
  <2>2. EndInv' /\ ~Gone'
    BY <1>1, <1>2, <1>4, <1>8, <2>1, PublishEnd
  <2> QED BY <1>2, <2>1, <2>2 DEF EndKept
<1>9. CASE pc = "frame" /\ Publish(target)
  <2>1. status \notin TerminalStatus
    BY <1>9 DEF EndInv, Past
  <2>2. EndInv' /\ ~Gone'
    BY <1>1, <1>2, <1>4, <1>9, <2>1, PublishEnd
  <2> QED BY <1>2, <2>1, <2>2 DEF EndKept
<1>10. CASE pc \in {"error_frame", "conflict_frame"} /\ Publish("error")
  <2>1. EndInv' /\ ~Gone'
    BY <1>1, <1>2, <1>3, <1>4, <1>10, PublishEnd
  <2>2. status' = status
    BY <1>10 DEF Publish
  <2> QED BY <1>2, <2>1, <2>2 DEF EndKept
<1>11. CASE pc = "settle" /\ SetStatus(Outcome)
  <2>1. UNCHANGED <<log, first>> /\ status' \in TerminalStatus /\ status' # "absent"
    BY <1>11 DEF SetStatus, Outcome, TerminalStatus
  <2>2. log # <<>> /\ log[Len(log)] \in TerminalKind
    BY <1>1, <1>4, <1>11 DEF Publishing, LastIs
  <2>3. EndInv' /\ ~Gone'
    BY <1>2, <1>3, <2>1, <2>2, StatusEnd
  <2> QED BY <1>2, <2>1, <2>3 DEF EndKept
<1>12. CASE pc \in {"error_status", "conflict_status"} /\ SetStatus("failed")
  <2>1. UNCHANGED <<log, first>> /\ status' \in TerminalStatus /\ status' # "absent"
    BY <1>12 DEF SetStatus, TerminalStatus
  <2>2. log # <<>> /\ log[Len(log)] \in TerminalKind
    BY <1>1, <1>4, <1>12 DEF Publishing, LastIs
  <2>3. EndInv' /\ ~Gone'
    BY <1>2, <1>3, <2>1, <2>2, StatusEnd
  <2> QED BY <1>2, <2>1, <2>3 DEF EndKept
<1>13. UNCHANGED store \/ HalfDone
  BY DEF OperationFails
<1> QED
  BY <1>6, <1>7, <1>8, <1>9, <1>10, <1>11, <1>12, <1>13 DEF HalfDone

LEMMA WorkerEnd ==
    ASSUME OutcomeInv, EndInv, WorkerStep PROVE EndKept
<1>1. TypeOK /\ Publishing /\ target \in {"complete", "action_required"}
  BY DEF OutcomeInv, TypeOK
<1>2. "update" \in Kind /\ "error" \in Kind /\ "error" \in TerminalKind
      /\ target \in Kind /\ target \in TerminalKind
  BY <1>1 DEF Kind, TerminalKind
<1>3. pc \notin Ended => ~Gone /\ status # "absent"
  BY DEF EndInv, Gone
<1> USE DEF Goto
<1>4. CASE MarkRunning
  <2>1. /\ pc \notin Ended /\ UNCHANGED <<log, first>> /\ status' = "running"
        /\ status \notin TerminalStatus
    BY <1>4 DEF MarkRunning, SetStatus, EndInv, Past, Ended
  <2>2. EndInv' /\ ~Gone'
    BY <2>1, StatusEnd DEF TerminalStatus
  <2> QED BY <1>3, <2>1, <2>2 DEF EndKept
<1>5. CASE \/ Acquire \/ LockTimeout \/ GraphRaises \/ InterruptConflict \/ ProjectSession
           \/ FailSession \/ Release \/ Crash
           \/ \E kind \in {"complete", "action_required"} : GraphEnds(kind)
  <2>1. /\ pc \notin Ended /\ UNCHANGED <<log, first, status>>
        /\ pc \in Past => pc' \in Past
    BY <1>5
    DEF Acquire, LockTimeout, GraphRaises, InterruptConflict, ProjectSession, FailSession,
        Release, Crash, GraphEnds, store, Past, Ended
  <2>2. EndInv' /\ ~Gone'
    BY <1>3, <2>1, StatusEnd DEF EndInv
  <2> QED BY <1>3, <2>1, <2>2 DEF EndKept
<1>6. CASE Emit
  <2>1. pc \notin Ended /\ status \notin TerminalStatus /\ Publish("update")
    BY <1>6 DEF Emit, EndInv, Past, Ended
  <2>2. EndInv' /\ ~Gone'
    BY <1>1, <1>2, <2>1, PublishEnd
  <2> QED BY <1>3, <2>1, <2>2 DEF EndKept
<1>7. CASE PublishTerminal
  <2>1. pc \notin Ended /\ status \notin TerminalStatus /\ Publish(target)
    BY <1>7 DEF PublishTerminal, EndInv, Past, Ended
  <2>2. EndInv' /\ ~Gone'
    BY <1>1, <1>2, <2>1, PublishEnd
  <2> QED BY <1>3, <2>1, <2>2 DEF EndKept
<1>8. CASE PublishError
  <2>1. /\ pc \notin Ended /\ Publish("error") /\ status' = status
        /\ pc \in Past => pc' \in Past
    BY <1>8 DEF PublishError, Publish, Past, Ended
  <2>2. EndInv' /\ ~Gone'
    BY <1>1, <1>2, <2>1, PublishEnd DEF EndInv
  <2> QED BY <1>3, <2>1, <2>2 DEF EndKept
<1>9. CASE SetTerminalStatus \/ SetFailed
  <2>1. /\ pc \in {"settle", "error_status", "conflict_status"} /\ pc' \in Past
        /\ UNCHANGED <<log, first>> /\ status' \in TerminalStatus /\ status' # "absent"
    BY <1>9 DEF SetTerminalStatus, SetFailed, SetStatus, Outcome, TerminalStatus, Past
  <2>2. log # <<>> /\ log[Len(log)] \in TerminalKind
    BY <1>1, <1>2, <2>1 DEF Publishing, LastIs
  <2>3. pc \notin Ended
    BY <2>1 DEF Ended
  <2>4. EndInv' /\ ~Gone'
    BY <2>1, <2>2, <2>3, StatusEnd
  <2> QED BY <1>3, <2>1, <2>3, <2>4 DEF EndKept
<1>10. CASE OperationFails
  BY <1>10, FailsEnd
<1>11. CASE ExpireEvents \/ ExpireRun
  <2>1. /\ pc \in Ended /\ pc' = pc /\ log' = log /\ first' = Len(log) + 1
        /\ status' \in {status, "absent"}
    BY <1>11 DEF ExpireEvents, ExpireRun, worker
  <2>2. Len(log) \in Nat
    BY <1>1 DEF TypeOK
  <2>3. pc \in Past
    BY <2>1 DEF Past, Ended
  <2>4. EndInv'
    BY <2>1, <2>3 DEF EndInv, TerminalStatus
  <2>5. Gone => Gone'
    BY <2>1, <2>2 DEF Gone
  <2> QED BY <2>1, <2>4, <2>5 DEF EndKept
<1> QED
  BY <1>4, <1>5, <1>6, <1>7, <1>8, <1>9, <1>10, <1>11 DEF WorkerStep, RunTask

-----------------------------------------------------------------------------
\* The numbers the bound is about.
LEMMA BoundTypes ==
    ASSUME KnownInv
    PROVE  /\ TypeOK /\ Acked \in Nat /\ cursor \in Nat /\ Len(log) \in Nat
           /\ first \in 1 .. Len(log) + 1 /\ Closes \in Int
           /\ retries \in Nat /\ drops \in Nat
           /\ pending[1] \in Nat /\ pending[2] \in Nat
           /\ Page \in Nat \ {0} /\ MaxRetries \in Nat
           /\ Received \subseteq DOMAIN log /\ DOMAIN log = 1 .. Len(log)
           /\ wire \in Seq(Nat) /\ delivered \in Seq(Nat)
<1>1. TypeOK
  BY DEF KnownInv, StreamInv
<1>2. Acked \in Nat
  BY <1>1, AckedType
<1>3. retries \in Nat /\ drops \in Nat
  BY <1>1 DEF TypeOK
<1>4. Closes \in Int
  BY <1>3 DEF Closes
<1>5. Len(log) \in Nat /\ DOMAIN log = 1 .. Len(log)
  BY <1>1 DEF TypeOK
<1> QED BY <1>1, <1>2, <1>3, <1>4, <1>5, BoundsAssumption DEF TypeOK, KnownInv

\* The run task and the store's expiry leave the reader where it is, and the log
\* only grows.
LEMMA WorkerBound ==
    ASSUME BoundInv, WorkerStep PROVE BoundInv'
<1>1. KnownInv' /\ KnownInv
  BY NextKnown DEF BoundInv, Next, WorkerStep, Environment
<1>2. StoreKeepsOrGrows /\ WorkerOnly
  BY <1>1, BoundTypes, WorkerKeeps
<1>3. EndKept
  BY WorkerEnd DEF BoundInv, KnownInv
<1>4. /\ UNCHANGED <<conn, cursor, pending, wire, delivered, client, drops, retries>>
      /\ Acked' = Acked /\ Received' = Received /\ OnWire' = OnWire
      /\ Closes' = Closes /\ Batch' = Batch
  BY <1>2 DEF WorkerOnly, server, reader, Acked, Received, OnWire, Closes, Batch
<1>5. /\ Len(log) \in Nat /\ Len(log') \in Nat /\ Len(log) <= Len(log')
      /\ Page \in Nat \ {0} /\ Closes \in Int /\ drops \in Nat /\ MaxRetries \in Nat
  BY <1>1, <1>2, BoundTypes DEF StoreKeepsOrGrows
<1>6. Told(Batch) => Told(Batch)'
  BY <1>2, <1>4 DEF Told, StoreKeepsOrGrows
<1>7. Gone' \/ Progress'
  <2> SUFFICES ASSUME ~Gone' PROVE Progress'
    OBVIOUS
  <2>1. Progress /\ (status \in TerminalStatus => status' \in TerminalStatus)
    BY <1>3 DEF EndKept, BoundInv, Gone
  <2>2. \A m \in Int : m < Len(log) => m < Len(log')
    BY <1>5
  <2>3. (Closes - 1) * Page \in Int
    BY <1>5
  <2> QED BY <1>4, <1>6, <2>1, <2>2, <2>3 DEF Progress
<1>8. GaveUp'
  <2>1. (MaxRetries - drops) * Page \in Int
    BY <1>5
  <2> QED BY <1>3, <1>4, <1>5, <2>1 DEF GaveUp, BoundInv, EndKept
<1>9. CaughtUp'
  BY <1>4 DEF CaughtUp, BoundInv
<1> QED BY <1>1, <1>3, <1>7, <1>8, <1>9 DEF BoundInv, EndKept

\* What holds of every step that is not the store's.
StoreKept == UNCHANGED <<status, log, first, pc>>

LEMMA ReaderEnd ==
    ASSUME BoundInv, StoreKept
    PROVE  EndInv' /\ Gone' = Gone /\ (Gone \/ Progress)
BY DEF BoundInv, StoreKept, EndInv, Gone

\* A read under a terminal status takes a whole page or reaches the last frame,
\* which is terminal; what it finds behind the cursor it has sent before.
LEMMA ReadBound ==
    ASSUME BoundInv, Read PROVE BoundInv'
<1>1. KnownInv /\ KnownInv' /\ StreamInv
  BY NextKnown DEF BoundInv, Next, Generator, KnownInv
<1>2. /\ StoreKept
      /\ UNCHANGED <<cursor, wire, delivered, client, drops, retries>>
      /\ Acked' = Acked /\ Received' = Received /\ OnWire' = OnWire
      /\ conn = "read" /\ conn' # "down" /\ Closes' = Closes
  BY DEF Read, StoreKept, store, worker, reader, Acked, Received, OnWire, Closes
<1>3. EndInv' /\ Gone' = Gone /\ (Gone \/ Progress)
  BY <1>2, ReaderEnd
<1>4. CaughtUp' /\ GaveUp'
  BY <1>2, <1>3 DEF CaughtUp, GaveUp, BoundInv, StoreKept
<1>5. ASSUME ~Gone PROVE Progress'
  <2> DEFINE from == IF cursor + 1 < first THEN first ELSE cursor + 1
             to == IF Len(log) < from + Page - 1 THEN Len(log) ELSE from + Page - 1
  <2>1. conn' = "send" /\ pending' = <<from, to>>
    BY <1>5 DEF Read, Gone
  <2>2. Progress
    BY <1>3, <1>5
  <2>3. /\ Acked \in Nat /\ cursor \in Nat /\ Len(log) \in Nat /\ Closes \in Int
        /\ first \in Nat /\ first <= Len(log) + 1 /\ first >= 1
        /\ Page \in Nat \ {0} /\ DOMAIN log = 1 .. Len(log)
        /\ log = <<>> \/ first <= Len(log)
        /\ log = <<>> => Len(log) = 0
    BY <1>1, <1>5, BoundTypes DEF Gone
  <2>4. Acked <= cursor /\ cursor <= Len(log)
    BY <1>1 DEF StreamInv, CursorInv
  <2>5. from = cursor + 1 \/ from <= to
    BY <2>3, <2>4
  <2>6. ASSUME Closes >= 1 PROVE Closes * Page <= to \/ Told(Batch)'
    <3>1. /\ status \in TerminalStatus /\ (Closes - 1) * Page <= Acked
          /\ log # <<>> /\ log[Len(log)] \in TerminalKind
      BY <2>2, <2>6 DEF Progress, BoundInv, EndInv
    <3>2. CASE to = from + Page - 1
      <4>1. (Closes - 1) * Page = Closes * Page - Page
        BY <2>3
      <4>2. Closes * Page \in Int
        BY <2>3
      <4>3. Closes * Page <= cursor + Page
        BY <2>3, <2>4, <3>1, <4>1, <4>2
      <4>4. to >= cursor + Page
        BY <2>3, <3>2
      <4> QED BY <2>3, <4>2, <4>3, <4>4
    <3>3. CASE to = Len(log)
      <4>1. Len(log) \in DOMAIN log /\ Len(log) \in 1 .. Len(log)
        BY <2>3, <2>4, <3>1
      <4>2. Len(log) \in Batch'
        <5>1. CASE from <= Len(log)
          <6>1. pending'[1] = from /\ pending'[2] = to
            BY <2>1
          <6>2. from \in Nat /\ Len(log) \in Nat
            BY <2>3
          <6> HIDE DEF from, to
          <6>3. Len(log) \in pending'[1] .. pending'[2]
            BY <3>3, <5>1, <6>1, <6>2
          <6> QED BY <6>3 DEF Batch
        <5>2. CASE from > Len(log)
          <6>0. /\ first \in Nat /\ cursor \in Nat /\ Len(log) \in Nat
                /\ first <= Len(log)
            BY <2>3, <3>1
          <6>1. cursor = Len(log) /\ ~(Len(log) < first)
            BY <2>4, <5>2, <6>0
          <6>2. Len(log) \in Received \cup OnWire
            BY <1>1, <1>2, <4>1, <6>1 DEF StreamInv, Coverage
          <6> QED BY <1>2, <6>2 DEF Batch
        <5> QED BY <2>3, <5>1, <5>2
      <4> QED BY <1>2, <3>1, <4>1, <4>2 DEF Told, StoreKept
    <3> QED BY <3>2, <3>3
  <2> HIDE DEF from, to
  <2>7. pending'[1] = from /\ pending'[2] = to
    BY <2>1
  <2> QED BY <1>2, <2>1, <2>2, <2>5, <2>6, <2>7 DEF Progress, StoreKept
<1> QED BY <1>1, <1>3, <1>4, <1>5 DEF BoundInv

\* A frame goes from the batch to the wire.
LEMMA YieldBound ==
    ASSUME BoundInv, Yield PROVE BoundInv'
<1>1. KnownInv /\ KnownInv'
  BY NextKnown DEF BoundInv, Next, Generator
<1>2. /\ StoreKept
      /\ UNCHANGED <<conn, delivered, client, drops, retries>>
      /\ Acked' = Acked /\ Received' = Received /\ Closes' = Closes
      /\ conn = "send" /\ pending[1] <= pending[2]
      /\ wire' = Append(wire, pending[1]) /\ cursor' = pending[1]
      /\ pending' = <<pending[1] + 1, pending[2]>>
  BY DEF Yield, StoreKept, store, worker, Acked, Received, Closes
<1>3. EndInv' /\ Gone' = Gone /\ (Gone \/ Progress)
  BY <1>2, ReaderEnd
<1>4. /\ pending[1] \in Nat /\ pending[2] \in Nat /\ wire \in Seq(Nat)
      /\ pending'[1] = pending[1] + 1 /\ pending'[2] = pending[2]
  BY <1>1, <1>2, BoundTypes
<1>5. wire' # <<>> /\ wire'[Len(wire')] = pending[1] /\ OnWire' = OnWire \cup {pending[1]}
  <2>1. /\ Len(wire') = Len(wire) + 1 /\ Len(wire) \in Nat
        /\ DOMAIN wire' = 1 .. Len(wire) + 1 /\ DOMAIN wire = 1 .. Len(wire)
        /\ \A i \in 1 .. Len(wire) : wire'[i] = wire[i]
        /\ wire'[Len(wire) + 1] = pending[1]
    BY <1>2, <1>4
  <2>2. OnWire' \subseteq OnWire \cup {pending[1]}
    BY <2>1 DEF OnWire
  <2>3. OnWire \cup {pending[1]} \subseteq OnWire'
    BY <2>1 DEF OnWire
  <2> QED BY <2>1, <2>2, <2>3
<1>6. CaughtUp' /\ GaveUp'
  BY <1>2, <1>3, <1>5 DEF CaughtUp, GaveUp, BoundInv, StoreKept
<1>7. Batch \subseteq Batch'
  <2>1. \A i \in pending[1] .. pending[2] : i = pending[1] \/ i \in pending[1] + 1 .. pending[2]
    BY <1>4
  <2> QED BY <1>2, <1>4, <1>5, <2>1 DEF Batch
<1>8. Told(Batch) => Told(Batch)'
  BY <1>2, <1>7 DEF Told, StoreKept
<1>9. Progress => Progress'
  BY <1>2, <1>4, <1>8 DEF Progress, StoreKept
<1> QED BY <1>1, <1>3, <1>6, <1>9 DEF BoundInv

LEMMA CheckStatusBound ==
    ASSUME BoundInv, CheckStatus PROVE BoundInv'
<1>1. KnownInv /\ KnownInv' /\ StreamInv
  BY NextKnown DEF BoundInv, Next, Generator, KnownInv
<1>2. /\ StoreKept
      /\ UNCHANGED <<cursor, pending, wire, delivered, client, drops, retries>>
      /\ Acked' = Acked /\ Batch' = Batch
      /\ conn = "send" /\ pending[1] > pending[2]
      /\ \/ conn' = "closed" /\ status \in TerminalStatus
         \/ conn' = "read"
  BY DEF CheckStatus, StoreKept, store, worker, reader, Acked, Received, OnWire, Batch
<1>3. EndInv' /\ Gone' = Gone /\ (Gone \/ Progress)
  BY <1>2, ReaderEnd
<1>4. Closes' = Closes
  BY <1>2 DEF Closes
<1>5. CaughtUp' /\ GaveUp'
  BY <1>2, <1>3 DEF CaughtUp, GaveUp, BoundInv, StoreKept
<1>6. Told(Batch)' = Told(Batch)
  BY <1>2 DEF Told, StoreKept
<1>7. Progress => pending[2] <= cursor
  <2>1. cursor \in Nat /\ pending[1] \in Nat /\ pending[2] \in Nat
    BY <1>1, BoundTypes
  <2>2. Progress => pending[1] = cursor + 1
    BY <1>2, <2>1 DEF Progress
  <2> QED BY <1>2, <2>1, <2>2
<1>8. Progress => Progress'
  BY <1>2, <1>4, <1>6, <1>7 DEF Progress, StoreKept
<1> QED BY <1>1, <1>3, <1>5, <1>8 DEF BoundInv

\* A frame goes from the wire to the client.
LEMMA ReceiveBound ==
    ASSUME BoundInv, Receive PROVE BoundInv'
<1>1. KnownInv /\ KnownInv' /\ StreamInv
  BY NextKnown DEF BoundInv, Next, ClientStep, KnownInv
<1>2. /\ StoreKept
      /\ UNCHANGED <<conn, cursor, pending, client, drops, retries>>
      /\ wire # <<>> /\ delivered' = Append(delivered, Head(wire)) /\ wire' = Tail(wire)
      /\ Closes' = Closes
  BY DEF Receive, StoreKept, store, worker, server, Closes
<1>3. EndInv' /\ Gone' = Gone /\ (Gone \/ Progress)
  BY <1>2, ReaderEnd
<1>4. /\ wire \in Seq(Nat) /\ delivered \in Seq(Nat) /\ Acked \in Nat /\ cursor \in Nat
      /\ Len(log) \in Nat /\ Closes \in Int /\ Page \in Nat \ {0}
  BY <1>1, BoundTypes
<1>5. Acked' = wire[1] /\ Acked < wire[1] /\ wire[1] \in Nat
  <2>1. Head(wire) = wire[1] /\ 1 \in DOMAIN wire /\ wire[1] \in Nat
    BY <1>2, <1>4
  <2>2. delivered' = Append(delivered, wire[1])
    BY <1>2, <2>1
  <2>3. /\ Len(delivered') = Len(delivered) + 1 /\ Len(delivered) \in Nat
        /\ delivered'[Len(delivered) + 1] = wire[1]
    BY <1>4, <2>1, <2>2
  <2>4. delivered' # <<>>
    BY <2>3
  <2>5. Acked' = wire[1]
    BY <2>3, <2>4 DEF Acked
  <2> QED BY <1>1, <2>1, <2>5 DEF StreamInv, WireInv
<1>6. Batch \subseteq Batch'
  <2>1. OnWire \subseteq OnWire' \cup {wire[1]}
    <3>1. \A i \in DOMAIN wire : i = 1 \/ (i - 1 \in DOMAIN wire' /\ wire'[i - 1] = wire[i])
      BY <1>2, <1>4
    <3> QED BY <3>1 DEF OnWire
  <2>2. Received \cup {wire[1]} \subseteq Received'
    <3>1. /\ DOMAIN delivered \subseteq DOMAIN delivered'
          /\ \A i \in DOMAIN delivered : delivered'[i] = delivered[i]
          /\ Len(delivered) + 1 \in DOMAIN delivered'
          /\ delivered'[Len(delivered) + 1] = wire[1]
      BY <1>2, <1>4
    <3> QED BY <3>1 DEF Received
  <2> QED BY <1>2, <2>1, <2>2 DEF Batch
<1>7. Told(Batch) => Told(Batch)'
  BY <1>2, <1>6 DEF Told, StoreKept
<1>8. CaughtUp'
  <2>1. CASE Len(wire) = 1
    BY <1>2, <1>4, <1>5, <2>1 DEF CaughtUp, BoundInv
  <2>2. CASE Len(wire) # 1
    <3>1. Len(wire) \in Nat /\ Len(wire) >= 2
      <4>1. 1 \in DOMAIN wire
        BY <1>2, <1>4
      <4>2. DOMAIN wire = 1 .. Len(wire) /\ Len(wire) \in Nat
        BY <1>4
      <4> QED BY <2>2, <4>1, <4>2
    <3>2. /\ Len(wire') = Len(wire) - 1
          /\ \A i \in 1 .. Len(wire) - 1 : wire'[i] = wire[i + 1]
      BY <1>2, <1>4
    <3>3. wire' # <<>> /\ wire'[Len(wire')] = wire[Len(wire)]
      BY <3>1, <3>2
    <3>4. conn' = conn /\ cursor' = cursor /\ wire # <<>> /\ CaughtUp
      BY <1>2 DEF BoundInv
    <3> QED BY <3>3, <3>4 DEF CaughtUp
  <2> QED BY <2>1, <2>2
<1>9. GaveUp'
  BY <1>2, <1>3 DEF GaveUp, BoundInv, StoreKept
<1>10. Progress => Progress'
  <2>1. (Closes - 1) * Page \in Int
    BY <1>4
  <2>2. (Closes - 1) * Page <= Acked => (Closes - 1) * Page <= Acked'
    BY <1>4, <1>5, <2>1
  <2> QED BY <1>2, <1>7, <2>2 DEF Progress, StoreKept
<1> QED BY <1>1, <1>3, <1>8, <1>9, <1>10 DEF BoundInv

\* The stream ended without the terminal frame: the client is a whole page
\* further, and still short of the end of the log.
LEMMA EndOfStreamBound ==
    ASSUME BoundInv, EndOfStream PROVE BoundInv'
<1>1. KnownInv /\ KnownInv' /\ StreamInv
  BY NextKnown DEF BoundInv, Next, ClientStep, KnownInv
<1>2. /\ StoreKept /\ client = "reading" /\ client' \in {"reading", "done"}
      /\ UNCHANGED <<cursor, pending, wire, delivered, drops, retries>>
      /\ Acked' = Acked /\ Batch' = Batch
      /\ conn = "closed" /\ wire = <<>>
      /\ \/ conn' = conn
         \/ conn' = "down" /\ ~TerminalSeen
  BY DEF EndOfStream, StoreKept, store, worker, Acked, Received, OnWire, Batch
<1>3. EndInv' /\ Gone' = Gone /\ (Gone \/ Progress)
  BY <1>2, ReaderEnd
<1>4. GaveUp'
  BY <1>2, <1>3 DEF GaveUp, BoundInv, StoreKept
<1>5. CaughtUp'
  BY <1>2 DEF CaughtUp, BoundInv
<1>6. CASE conn' = conn
  <2>1. Closes' = Closes /\ Told(Batch)' = Told(Batch)
    BY <1>2, <1>6 DEF Closes, Told, StoreKept
  <2>2. Progress => Progress'
    BY <1>2, <1>6, <2>1 DEF Progress, StoreKept
  <2> QED BY <1>1, <1>3, <1>4, <1>5, <2>2 DEF BoundInv
<1>7. CASE conn' = "down" /\ ~TerminalSeen
  <2>1. Closes' = Closes + 1 /\ Closes' - 1 = Closes /\ Closes \in Int
    BY <1>1, <1>2, <1>7, BoundTypes DEF Closes
  <2>2. cursor = Acked
    BY <1>2 DEF CaughtUp, BoundInv
  <2>3. /\ Acked \in Nat /\ Len(log) \in Nat /\ pending[2] \in Nat /\ pending[1] \in Nat
        /\ Page \in Nat \ {0} /\ Received \subseteq DOMAIN log /\ DOMAIN log = 1 .. Len(log)
        /\ delivered \in Seq(Nat)
    BY <1>1, BoundTypes
  <2>4. ASSUME Progress PROVE Progress'
    <3>1. /\ status \in TerminalStatus /\ pending[1] > pending[2] /\ pending[2] <= cursor
          /\ Closes >= 1 => Closes * Page <= pending[2] \/ Told(Batch)
      BY <1>2, <2>4 DEF Progress
    <3>2. log # <<>> /\ log[Len(log)] \in TerminalKind
      BY <3>1 DEF BoundInv, EndInv
    <3>3. ~Told(Batch)
      <4>1. OnWire = {} /\ pending[1] .. pending[2] = {}
        BY <1>2, <2>3, <3>1 DEF OnWire
      <4> QED BY <1>7, <4>1 DEF Told, Batch, TerminalSeen
    <3>4. Acked < Len(log)
      <4>1. Acked <= Len(log)
        BY <1>1, <2>2 DEF StreamInv, CursorInv
      <4>2. Len(log) > 0
        BY <2>3, <3>2 DEF KnownInv, StreamInv, TypeOK
      <4>3. Acked # Len(log)
        <5> SUFFICES ASSUME Acked = Len(log) PROVE FALSE
          OBVIOUS
        <5>1. delivered # <<>>
          BY <4>2 DEF Acked
        <5>2. Len(delivered) \in DOMAIN delivered /\ delivered[Len(delivered)] = Len(log)
          BY <2>3, <5>1 DEF Acked
        <5>3. Len(log) \in Received
          BY <5>2 DEF Received
        <5>4. TerminalSeen
          BY <3>2, <5>3 DEF TerminalSeen
        <5> QED BY <1>7, <5>4
      <4>4. Acked \in Nat /\ Len(log) \in Nat
        BY <2>3
      <4> QED BY <4>1, <4>3, <4>4
    <3>5. Closes >= 0 => Closes * Page <= Acked
      <4>1. CASE Closes = 0
        <5>1. Closes * Page = 0
          BY <2>3, <4>1
        <5> QED BY <2>3, <5>1
      <4>2. CASE Closes >= 1
        <5>1. Closes * Page <= pending[2] /\ Closes * Page \in Int
          BY <2>1, <2>3, <3>1, <3>3, <4>2
        <5> QED BY <2>2, <2>3, <3>1, <5>1
      <4> QED BY <2>1, <4>1, <4>2
    <3>6. Closes >= 0 => Closes * Page < Len(log)
      <4>1. Closes * Page \in Int
        BY <2>1, <2>3
      <4> QED BY <2>3, <3>4, <3>5, <4>1
    <3>7. Closes' >= 1 => Closes >= 0
      BY <2>1
    <3> QED BY <1>2, <1>7, <2>1, <3>1, <3>5, <3>6, <3>7 DEF Progress, StoreKept
  <2> QED BY <1>1, <1>3, <1>4, <1>5, <2>4 DEF BoundInv
<1> QED BY <1>2, <1>6, <1>7

\* A broken connection is counted, and the client stays where it is.
LEMMA DropBound ==
    ASSUME BoundInv, Drop PROVE BoundInv'
<1>1. KnownInv /\ KnownInv'
  BY NextKnown DEF BoundInv, Next, Environment
<1>2. /\ StoreKept /\ client = "reading" /\ client' = client
      /\ UNCHANGED <<cursor, pending, delivered, retries>> /\ Acked' = Acked
      /\ conn # "down" /\ conn' = "down" /\ wire' = <<>> /\ drops' = drops + 1
  BY DEF Drop, StoreKept, store, worker, Acked
<1>3. EndInv' /\ Gone' = Gone /\ (Gone \/ Progress)
  BY <1>2, ReaderEnd
<1>4. Closes' = Closes
  BY <1>1, <1>2, BoundTypes DEF Closes
<1>5. Progress => Progress'
  BY <1>2, <1>4 DEF Progress, StoreKept
<1>6. CaughtUp' /\ GaveUp'
  BY <1>2 DEF CaughtUp, GaveUp, BoundInv
<1> QED BY <1>1, <1>3, <1>5, <1>6 DEF BoundInv

\* Each closed connection and each broken one costs one reconnect.
LEMMA ReconnectBound ==
    ASSUME BoundInv, Reconnect PROVE BoundInv'
<1>1. KnownInv /\ KnownInv'
  BY NextKnown DEF BoundInv, Next, ClientStep
<1>2. /\ StoreKept /\ client = "reading" /\ conn = "down"
      /\ UNCHANGED <<wire, delivered, drops>> /\ Acked' = Acked /\ wire = <<>>
  BY <1>1
  DEF Reconnect, StoreKept, store, worker, Acked, KnownInv, StreamInv, WireInv
<1>3. EndInv' /\ Gone' = Gone /\ (Gone \/ Progress)
  BY <1>2, ReaderEnd
<1>4. /\ retries \in Nat /\ drops \in Nat /\ MaxRetries \in Nat /\ Page \in Nat \ {0}
      /\ Len(log) \in Nat /\ retries <= MaxRetries
  BY <1>1, BoundTypes DEF BoundInv, GaveUp
<1>5. CASE retries < MaxRetries /\ status = "absent"
  <2>1. retries' = retries + 1 /\ UNCHANGED server /\ client' = client /\ Gone
    BY <1>5 DEF Reconnect, Gone
  <2>2. CaughtUp' /\ GaveUp'
    BY <1>2, <1>4, <1>5, <2>1 DEF CaughtUp, GaveUp, server
  <2> QED BY <1>1, <1>3, <2>1, <2>2 DEF BoundInv
<1>6. CASE retries < MaxRetries /\ status # "absent"
  <2>1. /\ retries' = retries + 1 /\ client' = client
        /\ conn' = "read" /\ cursor' = Acked /\ pending' = <<1, 0>>
    BY <1>6 DEF Reconnect, ResumeFrom
  <2>2. Closes' = Closes
    BY <1>2, <1>4, <2>1 DEF Closes
  <2>3. Progress => Progress'
    BY <1>2, <2>1, <2>2 DEF Progress, StoreKept
  <2>4. CaughtUp' /\ GaveUp'
    BY <1>2, <1>4, <1>6, <2>1 DEF CaughtUp, GaveUp
  <2> QED BY <1>1, <1>3, <2>3, <2>4 DEF BoundInv
<1>7. CASE ~(retries < MaxRetries)
  <2>1. client' = "gave_up" /\ UNCHANGED <<retries, server>> /\ retries = MaxRetries
    BY <1>4, <1>7 DEF Reconnect
  <2>2. Closes' = Closes /\ UNCHANGED <<conn, cursor, pending>>
    BY <1>2, <2>1 DEF Closes, server
  <2>3. Progress => Progress'
    BY <1>2, <2>1, <2>2 DEF Progress, StoreKept
  <2>4. CaughtUp'
    BY <1>2, <2>2 DEF CaughtUp
  <2>5. Progress => MaxRetries < drops \/ (MaxRetries - drops) * Page < Len(log)
    <3>1. Closes - 1 = MaxRetries - drops
      BY <1>2, <1>4, <2>1 DEF Closes
    <3>2. Closes >= 1 <=> ~(MaxRetries < drops)
      BY <1>2, <1>4, <2>1 DEF Closes
    <3> QED BY <3>1, <3>2 DEF Progress
  <2>6. GaveUp'
    BY <1>2, <1>3, <1>4, <2>1, <2>5 DEF GaveUp, StoreKept
  <2> QED BY <1>1, <1>3, <2>3, <2>4, <2>6 DEF BoundInv
<1> QED BY <1>5, <1>6, <1>7

LEMMA NotFoundBound ==
    ASSUME BoundInv, NotFound PROVE BoundInv'
<1>1. KnownInv /\ KnownInv'
  BY NextKnown DEF BoundInv, Next, ClientStep
<1>2. /\ StoreKept /\ client' = "not_found" /\ conn = "missing"
      /\ UNCHANGED <<conn, cursor, pending, wire, delivered, drops, retries>>
      /\ Acked' = Acked
  BY DEF NotFound, StoreKept, store, worker, server, Acked
<1>3. EndInv' /\ Gone' = Gone /\ (Gone \/ Progress)
  BY <1>2, ReaderEnd
<1>4. Gone
  BY <1>2, <1>3 DEF Progress
<1>5. CaughtUp' /\ GaveUp'
  BY <1>2 DEF CaughtUp, GaveUp, BoundInv
<1> QED BY <1>1, <1>3, <1>4, <1>5 DEF BoundInv

LEMMA InitBound == Init => BoundInv
<1> SUFFICES ASSUME Init PROVE BoundInv
  OBVIOUS
<1>1. KnownInv
  BY InitKnown
<1>2. Closes = 0
  BY DEF Init, Closes
<1>3. ~Gone /\ EndInv
  BY DEF Init, Gone, EndInv, TerminalStatus
<1>4. CaughtUp /\ Progress /\ GaveUp
  BY <1>2, BoundsAssumption DEF Init, CaughtUp, Progress, GaveUp, Acked
<1> QED BY <1>1, <1>3, <1>4 DEF BoundInv

LEMMA NextBound ==
    ASSUME BoundInv, [Next]_vars PROVE BoundInv'
<1>1. CASE UNCHANGED vars
  <2>1. KnownInv' /\ StoreKept /\ UNCHANGED <<server, reader>>
    BY <1>1, NextKnown DEF BoundInv, vars, store, worker, StoreKept
  <2>2. EndInv' /\ Gone' = Gone /\ (Gone \/ Progress)
    BY <2>1, ReaderEnd
  <2>3. /\ Acked' = Acked /\ Closes' = Closes /\ Told(Batch)' = Told(Batch)
        /\ UNCHANGED <<conn, cursor, pending, wire, client, drops, retries>>
    BY <2>1
    DEF server, reader, Acked, Closes, Told, Batch, Received, OnWire, StoreKept
  <2>4. CaughtUp' /\ GaveUp' /\ (Progress => Progress')
    BY <2>1, <2>2, <2>3 DEF CaughtUp, GaveUp, Progress, BoundInv, StoreKept
  <2> QED BY <2>1, <2>2, <2>4 DEF BoundInv
<1> QED
  BY <1>1, WorkerBound, ReadBound, YieldBound, CheckStatusBound, ReceiveBound,
     EndOfStreamBound, NotFoundBound, ReconnectBound, DropBound
  DEF Next, Generator, ClientStep, Environment, WorkerStep

\* Pages is the number of pages the log fills.
LEMMA PagesOf ==
    ASSUME NEW n \in Nat, NEW p \in Nat \ {0}, NEW k \in Nat, k * p < n
    PROVE  k < (n + p - 1) \div p
<1> DEFINE d == (n + p - 1) \div p
           r == (n + p - 1) % p
<1>1. n + p - 1 \in Nat
  OBVIOUS
<1>2. d \in Int /\ r \in 0 .. p - 1 /\ n + p - 1 = p * d + r
  BY <1>1
<1> HIDE DEF d, r
<1>3. p * d >= n
  BY <1>2
<1>4. ASSUME d <= k PROVE FALSE
  <2>1. p * d <= p * k
    BY <1>2, <1>4
  <2>2. p * k = k * p /\ k * p \in Int /\ p * d \in Int
    BY <1>2
  <2> QED BY <1>3, <2>1, <2>2
<1> QED BY <1>2, <1>4 DEF d

\* A client gives up only where more connections broke than the pages of the log
\* leave of its retries, or where the run or its events have expired: the
\* streams that close before the terminal frame are at most one per page
\* (stream_run_events reads the status after the batch).
THEOREM GivesUpAfterDrops == Spec => []GiveUpBound
<1>1. BoundInv => GiveUpBound
  <2> SUFFICES ASSUME BoundInv, client = "gave_up", ~Gone
               PROVE  drops + Pages > MaxRetries
    BY DEF GiveUpBound, Gone
  <2>1. /\ Len(log) \in Nat /\ Page \in Nat \ {0} /\ drops \in Nat /\ MaxRetries \in Nat
    BY BoundTypes DEF BoundInv
  <2>2. Pages \in Int
    BY <2>1 DEF Pages
  <2>3. MaxRetries < drops \/ (MaxRetries - drops) * Page < Len(log)
    BY DEF BoundInv, GaveUp
  <2>4. CASE MaxRetries < drops
    <3>1. Pages >= 0
      BY <2>1 DEF Pages
    <3> QED BY <2>1, <2>2, <2>4, <3>1
  <2>5. CASE ~(MaxRetries < drops) /\ (MaxRetries - drops) * Page < Len(log)
    <3>1. MaxRetries - drops \in Nat
      BY <2>1, <2>5
    <3>2. MaxRetries - drops < Pages
      BY <2>1, <2>5, <3>1, PagesOf DEF Pages
    <3> QED BY <2>1, <2>2, <3>2
  <2> QED BY <2>3, <2>4, <2>5
<1> QED BY <1>1, InitBound, NextBound, PTL DEF Spec
=============================================================================
