----------------------------- MODULE HostProofs -----------------------------
(***************************************************************************)
(* A capture session end to end, for every buffer, every set of command    *)
(* lines, every frame size and any number of commands, polls, losses and   *)
(* late answers: what the host may believe of a DONE, of a cfg_err flag    *)
(* and of the samples of a drain.  Then the files it writes, for every     *)
(* probe, mapping of names and capture: they give the capture back.        *)
(***************************************************************************)
EXTENDS ScopeHostProperties, Exporters, ScopeCoreProofs, NaturalRecursion, SequenceTheorems

----------------------------------------------------------------------------
(* The core: whatever the host does, it takes steps of its own.            *)

\* A clock edge of the session is one of the core.
LEMMA EdgeOfCore == \A arm \in BOOLEAN : CoreEdge(arm) => Next
  BY DEF CoreEdge, Next

\* A write that the core consumes is a step of the core.
LEMMA CommitOfCore == ASSUME HostTypeOK, ExecWrite PROVE Next
<1>1. engine.req.reg \in Registers \cup {"arm", "force"} /\ engine.req.val \in Nat
  <2>1. engine.req \in Requests /\ engine.req.op = "WRITE_CSR"
    BY DEF HostTypeOK, Engines, ExecWrite
  <2> QED
    BY <2>1 DEF Requests
<1> DEFINE val == engine.req.val
           reg == engine.req.reg
<1>2. val % Depth \in Addresses /\ val % (MaxWindows + 1) \in 0 .. MaxWindows
  BY <1>1, DepthAssumption, MaxWindowsAssumption DEF Addresses
<1>3. Commit(reg, val)
  BY DEF ExecWrite
<1> HIDE DEF val, reg
<1>4. CASE reg \notin Registers \/ st # "IDLE"
  <2>1. CoreEdge(reg = "arm") /\ (reg = "arm") \in BOOLEAN
    BY <1>3, <1>4 DEF Commit
  <2> QED
    BY <2>1, EdgeOfCore
<1>5. CASE reg \in Registers /\ st = "IDLE"
  <2>1. WritePretrig(val % Depth) \/ WriteWindows(val % (MaxWindows + 1))
    BY <1>3, <1>5 DEF Commit
  <2> QED
    BY <1>2, <2>1 DEF Next
<1> QED
  BY <1>4, <1>5

\* So is every other step of the session, or it leaves the core alone.
LEMMA HostStepsOfCore == HostTypeOK /\ [HostNext]_hostVars => [Next]_vars
<1> SUFFICES ASSUME HostTypeOK, [HostNext]_hostVars PROVE [Next]_vars
  OBVIOUS
<1>1. CASE Clock
  BY <1>1, EdgeOfCore DEF Clock
<1>2. CASE ExecWrite
  BY <1>2, CommitOfCore
<1>3. CASE Accept \/ ExecRead \/ AnswerWrite \/ DrainStatus \/ DrainIndex
             \/ DrainHeader \/ DrainData
  BY <1>3 DEF Accept, ExecRead, AnswerWrite, DrainStatus, DrainIndex, DrainHeader, DrainData
<1>4. CASE Spoil \/ HostStep \/ \E c \in Commands : Start(c)
  BY <1>4 DEF Spoil, HostStep, Send, Recv, RecvTimeout, DrainRead, DrainEnd, Start
<1>5. CASE UNCHANGED hostVars
  BY <1>5 DEF hostVars
<1> QED
  BY <1>1, <1>2, <1>3, <1>4, <1>5 DEF HostNext, Engine

----------------------------------------------------------------------------
(* Types. *)

\* A frame that goes out arrives as the last, or it is lost.
LEMMA EmitTypes ==
  ASSUME HostTypeOK, NEW frame \in Frames, Emit(frame)
  PROVE  /\ rx' \in Seq(Frames) /\ lost' \in Nat
         /\ lost' = 0 => lost = 0 /\ rx' = Append(rx, frame)
<1>1. rx \in Seq(Frames) /\ lost \in Nat
  BY DEF HostTypeOK
<1>2. CASE rx' = Append(rx, frame) /\ UNCHANGED lost
  <2>1. Append(rx, frame) \in Seq(Frames)
    BY <1>1
  <2> QED
    BY <1>1, <1>2, <2>1
<1>3. CASE lost' = lost + 1 /\ UNCHANGED rx
  BY <1>1, <1>3
<1> QED
  BY <1>2, <1>3 DEF Emit

\* On a good line it arrives.
LEMMA Sent ==
  ASSUME HostTypeOK, NEW frame \in Frames, Emit(frame), lost' = 0
  PROVE  /\ lost = 0 /\ rx' = Append(rx, frame) /\ rx' \in Seq(Frames)
         /\ Len(rx) \in Nat /\ Len(rx') = Len(rx) + 1 /\ rx'[Len(rx) + 1] = frame
         /\ \A i \in 1 .. Len(rx) : rx'[i] = rx[i]
         /\ \A i \in DOMAIN rx' : \/ i \in DOMAIN rx /\ rx'[i] = rx[i]
                                  \/ i = Len(rx) + 1 /\ rx'[i] = frame
<1>1. rx \in Seq(Frames) /\ lost = 0 /\ rx' = Append(rx, frame) /\ rx' \in Seq(Frames)
  BY EmitTypes DEF HostTypeOK
<1>2. /\ Len(rx) \in Nat /\ Len(rx') = Len(rx) + 1 /\ rx'[Len(rx) + 1] = frame
      /\ \A i \in 1 .. Len(rx) : rx'[i] = rx[i]
      /\ DOMAIN rx = 1 .. Len(rx) /\ DOMAIN rx' = 1 .. Len(rx) + 1
  BY <1>1
<1> QED
  BY <1>1, <1>2

\* What each request and each field of the engine is.
LEMMA EngineShapes ==
  ASSUME HostTypeOK
  PROVE  /\ engine.pc \in {"READ_CSR", "WRITE_CSR", "DRAIN"} => engine.req \in Requests
         /\ engine.pc = "WRITE_CSR" => engine.req.op = "WRITE_CSR"
         /\ engine.pc \in {"index", "stamp"} => engine.wrapped \in BOOLEAN
         /\ engine.pc = "stamp" => engine.index \in Addresses
         /\ engine.pc = "data" => /\ engine.samples \in Seq(Samples) /\ engine.sent \in Nat
                                 /\ engine = [pc |-> "data", samples |-> engine.samples,
                                              sent |-> engine.sent]
  BY DEF HostTypeOK, Engines

\* Every call makes a request.
LEMMA RequestTypes == \A call \in Calls : Request(call) \in Requests
  BY DEF Calls, Request, Requests

\* The engine starts what it was asked.
LEMMA StartedTypes ==
  \A r \in Requests : r.op # "damaged" => [pc |-> r.op, req |-> r] \in Engines
<1> SUFFICES ASSUME NEW r \in Requests, r.op # "damaged"
             PROVE  [pc |-> r.op, req |-> r] \in Engines
  OBVIOUS
<1>1. r.op \in {"READ_CSR", "DRAIN", "WRITE_CSR"}
  BY DEF Requests
<1> QED
  BY <1>1 DEF Engines

\* So are the answers.
LEMMA AnswerTypes ==
  ASSUME TypeOK, HostTypeOK
  PROVE  /\ [op |-> "NAK"] \in Frames
         /\ [op |-> "READ_CSR", status |-> Status] \in Frames
         /\ [op |-> "WRITE_CSR", cfgErr |-> cfgErr] \in Frames
         /\ engine.pc = "stamp" =>
              [op |-> "DRAIN", wrapped |-> engine.wrapped, index |-> engine.index,
               stamp |-> tsAtTrig] \in Frames
         /\ engine.pc = "data" =>
              [op |-> "DRAIN_DATA", chunk |-> engine.sent,
               samples |-> Append(engine.samples, buf[drainAddr])] \in Frames
<1>1. Status \in Statuses
  BY DEF Status, Statuses, TypeOK, HostTypeOK
<1>2. cfgErr \in BOOLEAN /\ tsAtTrig \in Stamps /\ buf[drainAddr] \in Samples
  BY DEF HostTypeOK, TypeOK, Samples
<1>3. CASE engine.pc = "data"
  <2>1. engine.samples \in Seq(Samples) /\ engine.sent \in Nat
    BY <1>3, EngineShapes
  <2> DEFINE filled == Append(engine.samples, buf[drainAddr])
  <2>2. filled \in Seq(Samples)
    BY <1>2, <2>1
  <2> HIDE DEF filled
  <2>3. [op |-> "DRAIN_DATA", chunk |-> engine.sent, samples |-> filled] \in Frames
    BY <2>1, <2>2 DEF Frames
  <2> QED
    BY <1>1, <1>2, <1>3, <2>3 DEF Frames, filled
<1>4. CASE engine.pc # "data"
  BY <1>1, <1>2, <1>4, EngineShapes DEF Frames
<1> QED
  BY <1>3, <1>4

\* The session starts well typed.
LEMMA HostTypeInit == HostInit => HostTypeOK
<1> SUFFICES ASSUME HostInit PROVE HostTypeOK
  OBVIOUS
<1>1. drainAddr \in Addresses
  BY DepthAssumption DEF HostInit, Addresses
<1>2. engine \in Engines
  BY DEF HostInit, Engines
<1>3. asked \in [Registers -> Nat \cup {NoSample}]
  BY DEF HostInit
<1>4. <<>> \in Seq(Requests) /\ <<>> \in Seq(Frames) /\ <<>> \in Seq(Calls)
  OBVIOUS
<1> QED
  BY <1>1, <1>2, <1>3, <1>4 DEF HostInit, HostTypeOK

\* The device keeps the types.
LEMMA EngineTypes == ASSUME TypeOK, HostTypeOK, Engine PROVE HostTypeOK'
<1>1. CASE Accept
  <2>1. Head(requests) \in Requests /\ requests' \in Seq(Requests)
    BY <1>1 DEF Accept, HostTypeOK
  <2>2. CASE Head(requests).op = "damaged"
    <3>1. [op |-> "NAK"] \in Frames
      BY AnswerTypes
    <3>2. Emit([op |-> "NAK"]) /\ UNCHANGED engine
      BY <1>1, <2>2 DEF Accept
    <3> QED
      BY <1>1, <2>1, <3>1, <3>2, EmitTypes DEF Accept, HostTypeOK, host, history
  <2>3. CASE Head(requests).op # "damaged"
    <3>1. engine' \in Engines /\ UNCHANGED <<rx, lost>>
      BY <1>1, <2>1, <2>3, StartedTypes DEF Accept
    <3> QED
      BY <1>1, <2>1, <3>1 DEF Accept, HostTypeOK, host, history
  <2> QED
    BY <2>2, <2>3
<1>2. CASE ExecRead
  <2>1. [op |-> "READ_CSR", status |-> Status] \in Frames
    BY AnswerTypes
  <2>2. engine' \in Engines
    BY <1>2 DEF ExecRead, Engines
  <2> QED
    BY <1>2, <2>1, <2>2, EmitTypes DEF ExecRead, HostTypeOK, host, history
<1>3. CASE ExecWrite
  <2>1. engine' \in Engines
    BY <1>3 DEF ExecWrite, Engines
  <2>2. cfgErr' \in BOOLEAN
    BY <1>3, Zenon DEF ExecWrite
  <2>3. completed' \in BOOLEAN
    BY <1>3 DEF ExecWrite, Commit, CoreEdge, Observe, HostTypeOK
  <2> QED
    BY <1>3, <2>1, <2>2, <2>3 DEF ExecWrite, HostTypeOK, host, link
<1>4. CASE AnswerWrite
  <2>1. [op |-> "WRITE_CSR", cfgErr |-> cfgErr] \in Frames
    BY AnswerTypes
  <2>2. engine' \in Engines
    BY <1>4 DEF AnswerWrite, Engines
  <2> QED
    BY <1>4, <2>1, <2>2, EmitTypes DEF AnswerWrite, HostTypeOK, host, history
<1>5. CASE DrainStatus
  <2>1. engine' \in Engines
    BY <1>5 DEF DrainStatus, Engines, TypeOK
  <2> QED
    BY <1>5, <2>1 DEF DrainStatus, HostTypeOK, host, history, link
<1>6. CASE DrainIndex
  <2>1. engine' \in Engines
    BY <1>6, EngineShapes DEF DrainIndex, Engines, TypeOK
  <2> QED
    BY <1>6, <2>1 DEF DrainIndex, HostTypeOK, host, history, link
<1>7. CASE DrainHeader
  <2>1. [op |-> "DRAIN", wrapped |-> engine.wrapped, index |-> engine.index,
         stamp |-> tsAtTrig] \in Frames
    BY <1>7, AnswerTypes DEF DrainHeader
  <2>2. engine' \in Engines /\ drainAddr' \in Addresses
    BY <1>7, DepthAssumption DEF DrainHeader, Engines, Addresses
  <2>3. Emit([op |-> "DRAIN", wrapped |-> engine.wrapped, index |-> engine.index,
              stamp |-> tsAtTrig])
    BY <1>7 DEF DrainHeader
  <2>4. rx' \in Seq(Frames) /\ lost' \in Nat
    BY <2>1, <2>3, EmitTypes
  <2>5. UNCHANGED <<cfgErr, requests, host, history>>
    BY <1>7 DEF DrainHeader
  <2> QED
    BY <2>2, <2>4, <2>5 DEF HostTypeOK, host, history
<1>8. CASE DrainData
  <2> DEFINE filled == Append(engine.samples, buf[drainAddr])
             full    == [op |-> "DRAIN_DATA", chunk |-> engine.sent, samples |-> filled]
  <2>1. engine.pc = "data" /\ engine.samples \in Seq(Samples) /\ engine.sent \in Nat
    BY <1>8, EngineShapes DEF DrainData
  <2>2. filled \in Seq(Samples)
    BY <2>1 DEF TypeOK, HostTypeOK, Samples
  <2>3. drainAddr' \in Addresses
    <3>1. drainAddr' = (drainAddr + 1) % Depth /\ drainAddr \in 0 .. Depth - 1
      BY <1>8 DEF DrainData, Pop, HostTypeOK, Addresses
    <3>2. \A a, d \in Nat : d > 0 => (a + 1) % d \in 0 .. d - 1
      OBVIOUS
    <3>3. Depth \in Nat /\ Depth > 0
      BY DepthAssumption
    <3>4. drainAddr \in Nat
      BY <3>1, <3>3
    <3>5. (drainAddr + 1) % Depth \in 0 .. Depth - 1
      BY <3>2, <3>3, <3>4, Zenon
    <3> QED
      BY <3>1, <3>5 DEF Addresses
  <2>4. engine' \in Engines /\ rx' \in Seq(Frames) /\ lost' \in Nat
    <3>1. CASE Len(filled) < Spf
      <4>1. engine' = [engine EXCEPT !.samples = filled] /\ UNCHANGED <<rx, lost>>
        BY <1>8, <3>1 DEF DrainData
      <4>2. engine' = [pc |-> "data", samples |-> filled, sent |-> engine.sent]
        <5> HIDE DEF filled
        <5> QED
          BY <1>8, <4>1, EngineShapes DEF DrainData
      <4> HIDE DEF filled
      <4>3. engine' \in Engines
        BY <2>1, <2>2, <4>2 DEF Engines
      <4> QED
        BY <4>1, <4>3 DEF HostTypeOK
    <3>2. CASE ~(Len(filled) < Spf)
      <4>1. /\ Emit(full)
            /\ \/ engine' = [pc |-> "idle"]
               \/ engine' = [pc |-> "data", samples |-> <<>>, sent |-> engine.sent + 1]
        BY <1>8, <3>2 DEF DrainData
      <4>2. full \in Frames
        BY <2>1, AnswerTypes
      <4>3. engine' \in Engines
        <5>1. <<>> \in Seq(Samples) /\ engine.sent + 1 \in Nat
          BY <2>1
        <5>2. [pc |-> "idle"] \in Engines
          BY DEF Engines
        <5>3. [pc |-> "data", samples |-> <<>>, sent |-> engine.sent + 1] \in Engines
          BY <5>1 DEF Engines
        <5> QED
          BY <4>1, <5>2, <5>3
      <4> HIDE DEF full
      <4> QED
        BY <4>1, <4>2, <4>3, EmitTypes
    <3> QED
      BY <3>1, <3>2
  <2>5. UNCHANGED <<cfgErr, requests, host, history>>
    BY <1>8 DEF DrainData
  <2> QED
    BY <2>3, <2>4, <2>5 DEF HostTypeOK, host, history
<1> QED
  BY <1>1, <1>2, <1>3, <1>4, <1>5, <1>6, <1>7, <1>8 DEF Engine

\* What is left of the frames when the first n are read.
LEMMA FramesLeft ==
  ASSUME rx \in Seq(Frames), NEW n \in 1 .. Len(rx), rx' = SubSeq(rx, n + 1, Len(rx))
  PROVE  /\ rx' \in Seq(Frames) /\ Len(rx') = Len(rx) - n /\ DOMAIN rx' = 1 .. Len(rx')
         /\ \A i \in 1 .. Len(rx') : i + n \in 1 .. Len(rx) /\ i + n # 1 /\ rx'[i] = rx[i + n]
<1> DEFINE k == Len(rx)
           r == rx'
<1>1. k \in Nat /\ n \in 1 .. k /\ \A i \in n + 1 .. k : rx[i] \in Frames
  OBVIOUS
<1>2. /\ r \in Seq(Frames) /\ Len(r) = IF n + 1 <= k THEN k - (n + 1) + 1 ELSE 0
      /\ \A i \in 1 .. k - (n + 1) + 1 : r[i] = rx[n + 1 + i - 1]
  BY <1>1, SubSeqProperties
<1> HIDE DEF k, r
<1>3. Len(r) = k - n
  BY <1>1, <1>2
<1>4. \A i \in 1 .. k - n : i \in 1 .. k - (n + 1) + 1 /\ n + 1 + i - 1 = i + n
                             /\ i + n \in 1 .. k /\ i + n # 1
  BY ONLY <1>1
<1>5. \A i \in 1 .. Len(r) : i + n \in 1 .. k /\ i + n # 1 /\ r[i] = rx[i + n]
  BY <1>2, <1>3, <1>4
<1>6. DOMAIN r = 1 .. Len(r)
  BY <1>2
<1> QED
  BY <1>2, <1>3, <1>5, <1>6 DEF k, r

\* How a call that is not a drain goes on when a frame comes.
LEMMA RecvShape ==
  ASSUME HostTypeOK, Recv
  PROVE  /\ awaits /\ Call.call # "drain" /\ awaits' = FALSE
         /\ todo' \in {todo, Tail(todo), <<>>} /\ polls' \in {0, polls + 1}
         /\ got' \in {got, <<>>}
         /\ \/ outcome' \in {None, [kind |-> "error"]}
            \/ outcome' = outcome /\ Call.call = "wait"
            \/ /\ outcome' = [kind |-> "done"] /\ Call.call = "wait"
               /\ "DONE" \in ReadAs(Head(rx))
            \/ /\ Call.call = "status"
               /\ outcome' = [kind |-> "status",
                              cfgErr |-> Head(rx).op = "READ_CSR" /\ Head(rx).status.cfgErr]
<1> DEFINE report == [kind |-> "status",
                      cfgErr |-> Head(rx).op = "READ_CSR" /\ Head(rx).status.cfgErr]
<1>1. PICK state \in ReadAs(Head(rx)) :
        CASE Call.call = "wait" -> Poll(state)
          [] Call.call = "status" -> Return(report)
          [] OTHER -> Return(None)
  BY DEF Recv, Call
<1>2. awaits /\ Call.call # "drain"
  BY DEF Recv, Call
<1> HIDE DEF report
<1>3. CASE Call.call = "wait"
  <2>1. Poll(state)
    BY <1>1, <1>3
  <2>2. CASE IsDone(state)
    BY <1>2, <1>3, <2>1, <2>2 DEF Poll, Return, IsDone
  <2>3. CASE ~IsDone(state)
    BY <1>2, <1>3, <2>1, <2>3 DEF Poll, Raise
  <2> QED
    BY <2>2, <2>3
<1>4. CASE Call.call = "status"
  <2>1. Return(report)
    BY <1>1, <1>4
  <2> QED
    BY <1>2, <1>4, <2>1 DEF Return, report
<1>5. CASE Call.call \notin {"wait", "status"}
  <2>1. Return(None)
    BY <1>1, <1>5
  <2> QED
    BY <1>2, <2>1 DEF Return
<1> QED
  BY <1>3, <1>4, <1>5

\* The host and the link keep the types.
LEMMA HostSideTypes ==
  ASSUME HostTypeOK, Spoil \/ HostStep \/ \E c \in Commands : Start(c)
  PROVE  HostTypeOK'
<1>1. CASE Spoil
  <2>1. requests' \in Seq(Requests)
    <3>1. [op |-> "damaged"] \in Requests /\ Tail(requests) \in Seq(Requests)
      BY <1>1 DEF Spoil, HostTypeOK, Requests
    <3>2. <<[op |-> "damaged"]>> \o Tail(requests) \in Seq(Requests)
      BY <3>1
    <3> QED
      BY <1>1, <3>1, <3>2 DEF Spoil
  <2> QED
    BY <1>1, <2>1 DEF Spoil, HostTypeOK, device, host, history
<1>2. ASSUME NEW c \in Commands, Start(c) PROVE HostTypeOK'
  <2>1. c \in Seq(Calls) /\ <<>> \in Seq(Frames)
    BY CommandsAssumption
  <2>2. /\ todo' = c /\ awaits' = FALSE /\ polls' = 0 /\ got' = <<>> /\ started' = started + 1
        /\ rx' \in {rx, <<>>}
        /\ UNCHANGED <<vars, device, requests, lost, late, history>>
    BY <1>2 DEF Start
  <2>3. rx' \in Seq(Frames)
    BY <2>1, <2>2, Zenon DEF HostTypeOK
  <2>4. got' \in Seq(Frames) /\ todo' \in Seq(Calls) /\ awaits' = FALSE
    BY <2>1, <2>2
  <2>5. /\ started' \in Nat /\ polls' \in Nat
        /\ UNCHANGED <<cfgErr, drainAddr, engine, requests, lost, late, completed, asked, abandoned>>
    BY <2>2 DEF HostTypeOK, device, history
  <2> QED
    BY <2>3, <2>4, <2>5 DEF HostTypeOK
<1>3. CASE Send
  <2>1. Call \in Calls
    BY <1>3 DEF Send, HostTypeOK, Call
  <2>2. requests' \in Seq(Requests)
    BY <1>3, <2>1, RequestTypes DEF Send, HostTypeOK, Call
  <2>3. asked' \in [Registers -> Nat \cup {NoSample}]
    <3>1. Call.call = "write" => Call.val \in Nat
      BY <2>1 DEF Calls
    <3> QED
      BY <1>3, <3>1 DEF Send, HostTypeOK, Call
  <2>4. completed' \in BOOLEAN
    BY <1>3, Zenon DEF Send
  <2>5. /\ UNCHANGED <<cfgErr, drainAddr, engine, rx, lost, todo, got, polls, started, late,
                       abandoned>>
        /\ awaits' = TRUE /\ todo # <<>>
    BY <1>3 DEF Send, device
  <2>6. /\ cfgErr' \in BOOLEAN /\ drainAddr' \in Addresses /\ engine' \in Engines
        /\ rx' \in Seq(Frames) /\ got' \in Seq(Frames)
        /\ todo' \in Seq(Calls) /\ awaits' \in BOOLEAN /\ todo' # <<>>
    BY <2>5 DEF HostTypeOK
  <2>7. /\ lost' \in Nat /\ late' \in Nat /\ polls' \in Nat /\ started' \in Nat
        /\ abandoned' \in BOOLEAN /\ (abandoned' => late' # 0)
    BY <2>5 DEF HostTypeOK
  <2> QED
    BY <2>2, <2>3, <2>4, <2>6, <2>7, Zenon DEF HostTypeOK
<1>4. CASE Recv
  <2>1. rx' \in Seq(Frames)
    <3>1. PICK n \in 1 .. Len(rx) : rx' = SubSeq(rx, n + 1, Len(rx))
      BY <1>4 DEF Recv
    <3>2. rx \in Seq(Frames)
      BY DEF HostTypeOK
    <3> QED
      BY <3>1, <3>2, FramesLeft
  <2>2. Tail(todo) \in Seq(Calls) /\ <<>> \in Seq(Calls) /\ <<>> \in Seq(Frames)
    BY <1>4 DEF Recv, HostTypeOK
  <2>3. /\ todo' \in Seq(Calls) /\ got' \in Seq(Frames) /\ polls' \in Nat
        /\ awaits' = FALSE
    <3>1. /\ todo' \in {todo, Tail(todo), <<>>} /\ polls' \in {0, polls + 1}
          /\ got' \in {got, <<>>} /\ awaits' = FALSE
      BY <1>4, RecvShape
    <3>2. todo \in Seq(Calls) /\ got \in Seq(Frames) /\ polls \in Nat
      BY DEF HostTypeOK
    <3>3. polls' \in Nat
      BY <3>1, <3>2
    <3> QED
      BY <2>2, <3>1, <3>2, <3>3, Zenon
  <2>4. UNCHANGED <<vars, device, requests, lost, started, late, history>>
    BY <1>4 DEF Recv
  <2> QED
    BY <2>1, <2>3, <2>4 DEF HostTypeOK, device, history
<1>5. CASE RecvTimeout
  <2>1. <<>> \in Seq(Calls) /\ <<>> \in Seq(Frames)
    OBVIOUS
  <2>2. late' \in Nat /\ late' >= late
    BY <1>5 DEF RecvTimeout, Patience, HostTypeOK
  <2>3. /\ todo' = <<>> /\ awaits' = FALSE /\ polls' = 0 /\ got' = <<>>
        /\ UNCHANGED <<vars, device, link, started, history>>
    BY <1>5 DEF RecvTimeout, Raise
  <2>4. abandoned' => late' # 0
    BY <2>2, <2>3 DEF HostTypeOK, history
  <2>5. todo' \in Seq(Calls) /\ got' \in Seq(Frames) /\ polls' \in Nat
    BY <2>1, <2>3
  <2> QED
    BY <2>2, <2>3, <2>4, <2>5 DEF HostTypeOK, device, link, history
<1>6. CASE DrainRead
  <2>1. <<>> \in Seq(Frames) /\ got \o rx \in Seq(Frames)
    BY DEF HostTypeOK
  <2> QED
    BY <1>6, <2>1 DEF DrainRead, HostTypeOK, device, history
<1>7. CASE DrainEnd
  <2>1. /\ todo' \in Seq(Calls) /\ got' \in Seq(Frames) /\ polls' \in Nat
        /\ awaits' = FALSE
    <3>1. Tail(todo) \in Seq(Calls) /\ <<>> \in Seq(Calls) /\ <<>> \in Seq(Frames)
      BY <1>7 DEF DrainEnd, HostTypeOK
    <3>2. /\ todo' \in {Tail(todo), <<>>} /\ got' = <<>> /\ polls' = 0
          /\ awaits' = FALSE
      BY <1>7, Zenon DEF DrainEnd, Return, Raise
    <3> QED
      BY <3>1, <3>2
  <2>2. late' \in Nat /\ late' >= late /\ (~Quiet => late' # 0)
    BY <1>7 DEF DrainEnd, Patience, HostTypeOK
  <2>3. abandoned' \in BOOLEAN /\ (abandoned' => late' # 0)
    BY <1>7, <2>2 DEF DrainEnd, HostTypeOK
  <2>4. /\ UNCHANGED <<cfgErr, drainAddr, engine, requests, lost, started, completed, asked>>
        /\ UNCHANGED rx
    BY <1>7 DEF DrainEnd, device, link
  <2> QED
    <3>1. /\ cfgErr' \in BOOLEAN /\ drainAddr' \in Addresses /\ engine' \in Engines
          /\ requests' \in Seq(Requests) /\ rx' \in Seq(Frames) /\ lost' \in Nat
      BY <2>4 DEF HostTypeOK
    <3>2. started' \in Nat /\ completed' \in BOOLEAN /\ asked' \in [Registers -> Nat \cup {NoSample}]
      BY <2>4 DEF HostTypeOK
    <3> QED
      BY <2>1, <2>2, <2>3, <3>1, <3>2 DEF HostTypeOK
<1> QED
  BY <1>1, <1>2, <1>3, <1>4, <1>5, <1>6, <1>7 DEF HostStep

\* Every step keeps the types.
LEMMA HostTypeStep == TypeOK /\ HostTypeOK /\ [HostNext]_hostVars => HostTypeOK'
<1> SUFFICES ASSUME TypeOK, HostTypeOK, [HostNext]_hostVars PROVE HostTypeOK'
  OBVIOUS
<1>1. CASE Clock
  <2>1. completed' \in BOOLEAN
    BY <1>1 DEF Clock, CoreEdge, Observe, HostTypeOK
  <2> QED
    BY <1>1, <2>1 DEF Clock, HostTypeOK, device, link, host
<1>2. CASE UNCHANGED hostVars
  BY <1>2 DEF hostVars, HostTypeOK, device, link, host, history
<1> QED
  BY <1>1, <1>2, EngineTypes, HostSideTypes DEF HostNext

----------------------------------------------------------------------------
(* How much is on its way. *)

\* Losses, early ends and given-up drains are remembered.
LEMMA BlemishesStay ==
  ASSUME HostTypeOK, [HostNext]_hostVars
  PROVE  /\ Orderly' => Orderly
         /\ Prompt' => Prompt
<1>1. lost \in Nat /\ late \in Nat
  BY DEF HostTypeOK
<1>2. lost' \in {lost, lost + 1} /\ late' \in {late, late + 1}
  <2>1. CASE Clock \/ UNCHANGED hostVars
    BY <2>1 DEF Clock, hostVars, link, host
  <2>2. CASE Engine
    BY <2>2 DEF Engine, Accept, ExecRead, ExecWrite, AnswerWrite, DrainStatus, DrainIndex,
                DrainHeader, DrainData, Emit, link, host
  <2>3. CASE Spoil \/ \E c \in Commands : Start(c)
    BY <2>3 DEF Spoil, Start, host
  <2>4. CASE Send \/ Recv \/ DrainRead
    BY <2>4 DEF Send, Recv, DrainRead
  <2>5. CASE RecvTimeout \/ DrainEnd
    BY <2>5 DEF RecvTimeout, DrainEnd, Patience, link
  <2> QED
    BY <2>1, <2>2, <2>3, <2>4, <2>5 DEF HostNext, HostStep
<1>3. abandoned => abandoned'
  <2>1. CASE DrainEnd
    BY <2>1, Zenon DEF DrainEnd
  <2>2. CASE UNCHANGED abandoned
    BY <2>2, Zenon
  <2>3. UNCHANGED abandoned \/ DrainEnd
    BY DEF HostNext, Engine, HostStep, Clock, Accept, ExecRead, ExecWrite, AnswerWrite,
           DrainStatus, DrainIndex, DrainHeader, DrainData, Spoil, Start, Send, Recv,
           RecvTimeout, DrainRead, hostVars, history
  <2> QED
    BY <2>1, <2>2, <2>3
<1> QED
  BY <1>1, <1>2, <1>3 DEF Orderly, Prompt

\* Answering does not add to what is on its way, and register traffic stays
\* register traffic.
LEMMA EngineTraffic ==
  ASSUME TypeOK, HostTypeOK, HostTypeOK', Engine, lost' = 0
  PROVE  /\ UNCHANGED <<todo, awaits, late, abandoned, got, outcome, asked, polls>>
         /\ Load' <= Load
         /\ RegisterTraffic => RegisterTraffic' /\ Load' + Len(rx') <= Load + Len(rx)
<1>1. /\ UNCHANGED <<todo, awaits, late, abandoned, got, outcome, asked, polls>>
  BY DEF Engine, Accept, ExecRead, ExecWrite, AnswerWrite, DrainStatus, DrainIndex,
         DrainHeader, DrainData, host, history
<1>2. /\ requests \in Seq(Requests) /\ rx \in Seq(Frames) /\ Len(requests) \in Nat
      /\ Len(rx) \in Nat
  BY DEF HostTypeOK
<1>3. CASE Accept
  <2>1. /\ requests # <<>> /\ requests' = Tail(requests) /\ engine.pc = "idle"
        /\ Len(requests') = Len(requests) - 1 /\ Head(requests) = requests[1]
        /\ \A i \in DOMAIN requests' : i + 1 \in DOMAIN requests /\ requests'[i] = requests[i + 1]
        /\ 1 \in DOMAIN requests
    BY <1>2, <1>3 DEF Accept
  <2>2. CASE Head(requests).op = "damaged"
    <3>1. engine' = engine
      BY <1>3, <2>2 DEF Accept
    <3>3. Load' = Load - 1
      BY <1>2, <2>1, <3>1 DEF Load
    <3>2. ~RegisterTraffic
      BY <2>1, <2>2 DEF RegisterTraffic
    <3> QED
      BY <1>1, <1>2, <3>2, <3>3 DEF Load
  <2>3. CASE Head(requests).op # "damaged"
    <3>1. engine' = [pc |-> Head(requests).op, req |-> Head(requests)] /\ rx' = rx
      BY <1>3, <2>3 DEF Accept
    <3>2. Head(requests).op # "idle"
      BY <1>2, <2>1 DEF Requests
    <3>3. Load' = Load
      BY <1>2, <2>1, <3>1, <3>2 DEF Load
    <3>4. RegisterTraffic => RegisterTraffic'
      BY <2>1, <3>1 DEF RegisterTraffic
    <3> QED
      BY <1>1, <1>2, <3>1, <3>3, <3>4 DEF Load
  <2> QED
    BY <2>2, <2>3
<1>4. CASE ExecRead \/ AnswerWrite
  <2>1. PICK frame \in Frames : Emit(frame) /\ frame.op \in {"READ_CSR", "WRITE_CSR"}
    BY <1>4, AnswerTypes DEF ExecRead, AnswerWrite
  <2>2. /\ engine.pc \in {"READ_CSR", "rdstat"} /\ engine' = [pc |-> "idle"]
        /\ UNCHANGED requests
    BY <1>4 DEF ExecRead, AnswerWrite
  <2>3. Load' = Load - 1
    BY <1>2, <2>2 DEF Load
  <2>4. Len(rx') = Len(rx) + 1
    BY <2>1, Sent
  <2>5. RegisterTraffic => RegisterTraffic'
    BY <1>2, <2>1, <2>2, Sent DEF RegisterTraffic
  <2> QED
    BY <1>1, <1>2, <2>2, <2>3, <2>4, <2>5 DEF Load
<1>5. CASE ExecWrite
  <2>1. /\ engine.pc = "WRITE_CSR" /\ engine' = [pc |-> "rdstat"] /\ UNCHANGED <<requests, rx>>
    BY <1>5 DEF ExecWrite, link
  <2> QED
    BY <1>1, <1>2, <2>1 DEF Load, RegisterTraffic
<1>6. CASE DrainStatus \/ DrainIndex \/ DrainHeader \/ DrainData
  <2>1. /\ engine.pc \in {"DRAIN", "index", "stamp", "data"} /\ UNCHANGED requests
    BY <1>6 DEF DrainStatus, DrainIndex, DrainHeader, DrainData, link
  <2> QED
    BY <1>1, <1>2, <2>1 DEF Load, RegisterTraffic
<1> QED
  BY <1>3, <1>4, <1>5, <1>6 DEF Engine

\* The traffic stays in bounds.
LEMMA LoadStep ==
  ASSUME TypeOK, HostTypeOK, HostTypeOK', LoadInv, [HostNext]_hostVars
  PROVE  LoadInv'
<1> SUFFICES ASSUME Orderly'
             PROVE  /\ Load' <= late' + 1
                    /\ ~(Draining') => Load' + Len(rx') <= late' + 1 /\ RegisterTraffic'
                    /\ ~awaits' => Load' + Len(rx') <= late'
  BY DEF LoadInv
<1>1. Orderly
  BY BlemishesStay
<1>2. /\ Load <= late + 1
      /\ ~Draining => Load + Len(rx) <= late + 1 /\ RegisterTraffic
      /\ ~awaits => Load + Len(rx) <= late
  BY <1>1 DEF LoadInv
<1>3. /\ requests \in Seq(Requests) /\ rx \in Seq(Frames) /\ Len(requests) \in Nat
      /\ Len(rx) \in Nat /\ late \in Nat /\ late' \in Nat /\ todo \in Seq(Calls)
      /\ awaits \in BOOLEAN
      /\ Load \in Nat /\ Load' \in Nat /\ rx' \in Seq(Frames) /\ Len(rx') \in Nat
  BY DEF HostTypeOK, Load
<1>4. CASE Clock \/ UNCHANGED hostVars
  <2>1. UNCHANGED <<requests, engine, rx, todo, awaits, late>>
    BY <1>4 DEF Clock, device, link, host, hostVars
  <2> QED
    BY <1>2, <2>1 DEF Load, Draining, Call, RegisterTraffic
<1>5. CASE Engine
  <2>1. lost' = 0
    BY DEF Orderly
  <2>2. /\ UNCHANGED <<todo, awaits, late>> /\ Load' <= Load /\ Load' \in Nat
        /\ RegisterTraffic => RegisterTraffic' /\ Load' + Len(rx') <= Load + Len(rx)
    BY <1>5, <2>1, EngineTraffic DEF Load, HostTypeOK
  <2> QED
    BY <1>2, <1>3, <2>2 DEF Draining, Call
<1>6. CASE Spoil
  BY <1>1, <1>6 DEF Spoil, Orderly
<1>7. CASE \E c \in Commands : Start(c)
  <2>1. /\ ~awaits /\ awaits' = FALSE /\ UNCHANGED <<requests, engine, late>>
        /\ rx' \in {rx, <<>>}
    BY <1>7 DEF Start, HostTypeOK, device
  <2> QED
    BY <1>2, <1>3, <2>1 DEF Draining, Load, RegisterTraffic
<1>8. CASE Send
  <2>1. /\ ~awaits /\ awaits' = TRUE /\ UNCHANGED <<engine, rx, todo, late>>
        /\ requests' = Append(requests, Request(Call)) /\ Call \in Calls
        /\ Request(Call) \in Requests
    BY <1>3, <1>8, RequestTypes DEF Send, Call, device
  <2>2. /\ Load + Len(rx) <= late /\ RegisterTraffic
    BY <1>2, <1>3, <2>1 DEF Draining
  <2>3. Load' = Load + 1
    BY <1>3, <2>1 DEF Load
  <2>4. ~(Draining') => RegisterTraffic'
    <3> SUFFICES ASSUME ~(Draining') PROVE RegisterTraffic'
      OBVIOUS
    <3>1. Call.call # "drain"
      BY <2>1 DEF Draining, Call
    <3>2. Request(Call).op \in {"READ_CSR", "WRITE_CSR"}
      BY <2>1, <3>1 DEF Request, Calls
    <3> QED
      BY <1>3, <2>1, <2>2, <3>2 DEF RegisterTraffic
  <2>5. Load' + Len(rx') <= late' + 1
    BY <1>3, <2>1, <2>2, <2>3
  <2> QED
    BY <1>3, <2>1, <2>3, <2>4, <2>5
<1>9. CASE Recv
  <2>1. PICK n \in 1 .. Len(rx) : rx' = SubSeq(rx, n + 1, Len(rx))
    BY <1>9 DEF Recv
  <2>2. /\ awaits /\ ~Draining /\ awaits' = FALSE /\ UNCHANGED <<requests, engine, late>>
    BY <1>9, RecvShape DEF Recv, device, Draining
  <2>3. /\ Len(rx') = Len(rx) - n
        /\ \A i \in 1 .. Len(rx') : i + n \in 1 .. Len(rx) /\ rx'[i] = rx[i + n]
    BY <1>3, <2>1, FramesLeft
  <2>4. RegisterTraffic'
    <3>1. ASSUME NEW i \in DOMAIN rx' PROVE rx'[i].op \in {"READ_CSR", "WRITE_CSR"}
      <4>1. i \in 1 .. Len(rx')
        BY <1>3
      <4>2. i + n \in 1 .. Len(rx) /\ rx'[i] = rx[i + n]
        BY ONLY <2>3, <4>1
      <4>3. i + n \in DOMAIN rx
        BY <1>3, <4>2
      <4> QED
        BY <1>2, <2>2, <4>2, <4>3 DEF RegisterTraffic
    <3> QED
      BY <1>2, <2>2, <3>1 DEF RegisterTraffic
  <2>5. Load' = Load /\ Load + Len(rx) <= late + 1
    BY <1>2, <2>2 DEF Load
  <2> QED
    BY <1>3, <2>1, <2>2, <2>3, <2>4, <2>5 DEF Draining
<1>10. CASE RecvTimeout
  <2>1. /\ awaits /\ ~Draining /\ awaits' = FALSE /\ UNCHANGED <<requests, engine, rx>>
        /\ rx = <<>>
    BY <1>10 DEF RecvTimeout, Raise, device, link, Draining, Call
  <2>2. CASE Quiet /\ UNCHANGED late
    <3>1. Load = 0
      BY <2>2 DEF Quiet, Load
    <3> QED
      BY <1>2, <1>3, <2>1, <2>2, <3>1 DEF Draining, Load, RegisterTraffic
  <2>3. CASE late' = late + 1
    BY <1>2, <1>3, <2>1, <2>3 DEF Draining, Load, RegisterTraffic
  <2> QED
    BY <1>10, <2>2, <2>3 DEF RecvTimeout, Patience
<1>11. CASE DrainRead
  <2>1. Draining /\ UNCHANGED <<requests, engine, todo, awaits, late>>
    BY <1>11 DEF DrainRead, device, Draining, Call
  <2> QED
    BY <1>2, <1>3, <2>1 DEF Draining, Call, Load
<1>12. CASE DrainEnd
  <2>1. awaits' = FALSE /\ Quiet /\ UNCHANGED <<requests, engine, rx>>
    BY <1>12 DEF DrainEnd, Return, Raise, device, link, Orderly
  <2>2. requests' = <<>> /\ rx' = <<>> /\ engine'.pc = "idle"
    BY <2>1 DEF Quiet
  <2>3. Load' = 0 /\ Len(rx') = 0
    BY <2>2 DEF Load
  <2>4. RegisterTraffic'
    BY <2>2 DEF RegisterTraffic
  <2>5. late' \in Nat
    BY <1>3
  <2>6. Load' <= late' /\ Load' + Len(rx') <= late'
    BY ONLY <2>3, <2>5
  <2>7. Load' <= late' + 1 /\ Load' + Len(rx') <= late' + 1
    <3>1. Load' \in Nat /\ Load' + Len(rx') \in Nat
      BY <1>3
    <3>2. \A x, y \in Nat : x <= y => x <= y + 1
      OBVIOUS
    <3> QED
      BY <2>5, <2>6, <3>1, <3>2, Zenon
  <2> QED
    BY <2>4, <2>6, <2>7
<1> QED
  BY <1>4, <1>5, <1>6, <1>7, <1>8, <1>9, <1>10, <1>11, <1>12 DEF HostNext, HostStep

----------------------------------------------------------------------------
(* DONE is of this run. *)

\* What a request is when the queue moves up.
LEMMA TailEntries ==
  ASSUME NEW s \in Seq(Requests), s # <<>>
  PROVE  /\ Tail(s) \in Seq(Requests) /\ Len(s) \in Nat \ {0} /\ Len(Tail(s)) = Len(s) - 1
         /\ Head(s) = s[1] /\ s[1] \in Requests
         /\ \A i \in 1 .. Len(Tail(s)) : i + 1 \in 1 .. Len(s) /\ Tail(s)[i] = s[i + 1]
         /\ \A i \in 2 .. Len(s) : i - 1 \in 1 .. Len(Tail(s)) /\ Tail(s)[i - 1] = s[i]
  OBVIOUS

\* Accepting a request brings no read before an arm and forgets no arm.
LEMMA AcceptQueue ==
  ASSUME HostTypeOK, Accept
  PROVE  /\ ArmQueued \/ ArmNow => ArmQueued' \/ ArmNow'
         /\ ReadAhead' => ReadAhead
<1>1. /\ requests \in Seq(Requests) /\ requests # <<>> /\ requests' = Tail(requests)
      /\ engine.pc = "idle"
  BY DEF HostTypeOK, Accept
<1> DEFINE m == Len(requests)
           r == requests
           q == requests'
<1>2. /\ m \in Nat \ {0} /\ Len(q) = m - 1 /\ r \in Seq(Requests) /\ q \in Seq(Requests)
      /\ \A i \in 1 .. Len(q) : i + 1 \in 1 .. m /\ q[i] = r[i + 1]
      /\ \A i \in 2 .. m : i - 1 \in 1 .. Len(q) /\ q[i - 1] = r[i]
  BY <1>1, TailEntries
<1>3. DOMAIN r = 1 .. m /\ DOMAIN q = 1 .. Len(q)
  BY <1>2
<1>4. CASE Head(requests).op = "damaged"
  <2>1. engine' = engine
    BY <1>4 DEF Accept
  <2>2. ~ArmRequest(r[1])
    BY <1>1, <1>4 DEF ArmRequest
  <2>3. ArmQueued => ArmQueued'
    <3>1. ASSUME NEW i \in 1 .. m, ArmRequest(r[i]) PROVE ArmQueued'
      <4>1. i \in 2 .. m
        BY <1>2, <2>2, <3>1
      <4>2. i - 1 \in DOMAIN q /\ q[i - 1] = r[i]
        BY <1>2, <1>3, <4>1
      <4> QED
        BY <3>1, <4>2 DEF ArmQueued
    <3> QED
      BY <1>3, <3>1 DEF ArmQueued
  <2>4. ReadAhead' => ReadAhead
    <3>1. engine'.pc = "idle"
      BY <1>1, <2>1
    <3>2. ASSUME NEW i \in 1 .. Len(q), NEW j \in 1 .. Len(q), i < j,
                 q[i].op = "READ_CSR", ArmRequest(q[j])
          PROVE  ReadAhead
      <4>1. /\ i + 1 \in DOMAIN r /\ j + 1 \in DOMAIN r /\ i + 1 < j + 1
            /\ q[i] = r[i + 1] /\ q[j] = r[j + 1]
        BY <1>2, <1>3, <3>2
      <4> QED
        BY <3>2, <4>1 DEF ReadAhead
    <3> QED
      BY <1>3, <3>1, <3>2 DEF ReadAhead
  <2>5. ~ArmNow
    BY <1>1 DEF ArmNow
  <2> QED
    BY <2>3, <2>4, <2>5
<1>5. CASE Head(requests).op # "damaged"
  <2>1. engine' = [pc |-> r[1].op, req |-> r[1]]
    BY <1>1, <1>5 DEF Accept
  <2>2. engine'.pc = r[1].op /\ engine'.req = r[1]
    BY <2>1
  <2>3. ArmQueued => ArmQueued' \/ ArmNow'
    <3>1. ASSUME NEW i \in 1 .. m, ArmRequest(r[i]) PROVE ArmQueued' \/ ArmNow'
      <4>1. CASE i = 1
        BY <2>2, <3>1, <4>1 DEF ArmNow, ArmRequest
      <4>2. CASE i # 1
        <5>1. i \in 2 .. m
          BY <1>2, <4>2
        <5>2. i - 1 \in DOMAIN q /\ q[i - 1] = r[i]
          BY <1>2, <1>3, <5>1
        <5> QED
          BY <3>1, <5>2 DEF ArmQueued
      <4> QED
        BY <4>1, <4>2
    <3> QED
      BY <1>3, <3>1 DEF ArmQueued
  <2>4. ReadAhead' => ReadAhead
    <3>1. ASSUME NEW i \in 1 .. Len(q), NEW j \in 1 .. Len(q), i < j,
                 q[i].op = "READ_CSR", ArmRequest(q[j])
          PROVE  ReadAhead
      <4>1. /\ i + 1 \in DOMAIN r /\ j + 1 \in DOMAIN r /\ i + 1 < j + 1
            /\ q[i] = r[i + 1] /\ q[j] = r[j + 1]
        BY <1>2, <1>3, <3>1
      <4> QED
        BY <3>1, <4>1 DEF ReadAhead
    <3>2. ASSUME engine'.pc = "READ_CSR", NEW i \in 1 .. Len(q), ArmRequest(q[i])
          PROVE  ReadAhead
      <4>1. 1 \in DOMAIN r /\ i + 1 \in DOMAIN r /\ 1 < i + 1 /\ q[i] = r[i + 1]
        BY <1>2, <1>3
      <4> QED
        BY <2>2, <3>2, <4>1 DEF ReadAhead
    <3> QED
      BY <1>3, <3>1, <3>2 DEF ReadAhead, ArmQueued
  <2>5. ~ArmNow
    BY <1>1 DEF ArmNow
  <2> QED
    BY <2>3, <2>4, <2>5
<1> QED
  BY <1>4, <1>5

\* Sending a request that arms queues it; any other brings no read ahead of one.
LEMMA SendQueue ==
  ASSUME HostTypeOK, Send
  PROVE  /\ ArmQueued => ArmQueued'
         /\ Arms(Call) => ArmQueued'
         /\ ~Arms(Call) /\ ReadAhead' => ReadAhead
<1> DEFINE m == Len(requests)
           r == requests
           q == requests'
<1>1. /\ r \in Seq(Requests) /\ Call \in Calls /\ Request(Call) \in Requests
      /\ q = Append(r, Request(Call)) /\ engine' = engine
  BY RequestTypes DEF HostTypeOK, Send, Call, device
<1>2. /\ m \in Nat /\ DOMAIN r = 1 .. m /\ DOMAIN q = 1 .. m + 1 /\ q[m + 1] = Request(Call)
      /\ \A i \in 1 .. m : q[i] = r[i]
  BY <1>1
<1>3. ArmRequest(Request(Call)) <=> Arms(Call)
  BY <1>1 DEF ArmRequest, Arms, Request, Calls
<1>4. ASSUME NEW i \in 1 .. m, ArmRequest(r[i]) PROVE ArmQueued'
  <2>1. i \in DOMAIN q /\ q[i] = r[i]
    BY <1>2
  <2> QED
    BY <1>4, <2>1 DEF ArmQueued
<1>5. Arms(Call) => ArmQueued'
  <2>1. m + 1 \in DOMAIN q
    BY <1>2
  <2> QED
    BY <1>2, <1>3, <2>1 DEF ArmQueued
<1>6. ASSUME ~Arms(Call), NEW j \in 1 .. m + 1, ArmRequest(q[j])
      PROVE  j \in 1 .. m /\ q[j] = r[j]
  BY <1>2, <1>3, <1>6
<1>7. ASSUME ~Arms(Call), NEW i \in 1 .. m + 1, NEW j \in 1 .. m + 1, i < j,
             q[i].op = "READ_CSR", ArmRequest(q[j])
      PROVE  ReadAhead
  <2>1. j \in DOMAIN r /\ i \in DOMAIN r /\ q[j] = r[j] /\ q[i] = r[i]
    BY <1>2, <1>6, <1>7
  <2> QED
    BY <1>7, <2>1 DEF ReadAhead
<1>8. ASSUME ~Arms(Call), ReadAhead' PROVE ReadAhead
  <2>1. CASE engine'.pc = "READ_CSR" /\ ArmQueued'
    <3>1. ArmQueued
      BY <1>2, <1>6, <1>8, <2>1 DEF ArmQueued
    <3> QED
      BY <1>1, <2>1, <3>1 DEF ReadAhead
  <2> QED
    BY <1>2, <1>7, <1>8, <2>1 DEF ReadAhead
<1> QED
  BY <1>2, <1>4, <1>5, <1>8 DEF ArmQueued

\* With an answer in reach of a read, an arm behind it takes two places.
LEMMA TwoInFlight == HostTypeOK /\ ReadAhead => Load >= 2
<1> SUFFICES ASSUME HostTypeOK, ReadAhead PROVE Load >= 2
  OBVIOUS
<1>1. Len(requests) \in Nat /\ DOMAIN requests = 1 .. Len(requests)
  BY DEF HostTypeOK
<1>2. CASE engine.pc = "READ_CSR" /\ ArmQueued
  BY <1>1, <1>2 DEF ArmQueued, Load
<1>3. ASSUME NEW i \in DOMAIN requests, NEW j \in DOMAIN requests, i < j PROVE Load >= 2
  BY <1>1, <1>3 DEF Load
<1> QED
  BY <1>2, <1>3 DEF ReadAhead

\* A core that comes to DONE without an arm was there, or the window is noted.
LEMMA NoNewDone ==
  ASSUME NEW arm \in BOOLEAN, CoreEdge(arm), ~completed'
  PROVE  ~completed /\ (st' = "DONE" => st = "DONE" /\ ~arm)
<1>1. ~completed /\ ~(st # "DONE" /\ st' = "DONE")
  BY Zenon DEF CoreEdge, Observe
<1>2. ASSUME arm, st = "DONE" PROVE st' # "DONE"
  <2>1. Arm
    BY <1>2 DEF CoreEdge, Edge, Fill, Watch, Collect
  <2> QED
    BY <2>1 DEF Arm, StartWindow
<1> QED
  BY <1>1, <1>2

\* A stale DONE can only answer the call that arms.
LEMMA OldDoneStep ==
  ASSUME TypeOK, HostTypeOK, HostTypeOK', LoadInv, OldDoneInv, [HostNext]_hostVars
  PROVE  OldDoneInv'
<1> SUFFICES ASSUME Orderly', ~completed'
             PROVE  /\ st' = "DONE" => ArmQueued' \/ ArmNow'
                    /\ ReadAhead' => awaits' /\ Arms(Call)'
                    /\ \A i \in DOMAIN rx' :
                         SaysDone(rx[i])' => i = 1 /\ awaits' /\ Arms(Call)'
  BY DEF OldDoneInv, SaysDone
<1>1. Orderly /\ lost' = 0 /\ late' \in {0, 1} /\ late \in {0, 1}
  BY BlemishesStay DEF Orderly, HostTypeOK
<1>2. /\ Load <= late + 1
      /\ ~Draining => Load + Len(rx) <= late + 1 /\ RegisterTraffic
      /\ ~awaits => Load + Len(rx) <= late
  BY <1>1 DEF LoadInv
<1>3. /\ requests \in Seq(Requests) /\ rx \in Seq(Frames) /\ Len(requests) \in Nat
      /\ Len(rx) \in Nat /\ DOMAIN rx = 1 .. Len(rx) /\ Load \in Nat
      /\ rx' \in Seq(Frames) /\ Len(rx') \in Nat /\ DOMAIN rx' = 1 .. Len(rx')
  BY DEF HostTypeOK, Load
<1>4. ~completed =>
        /\ st = "DONE" => ArmQueued \/ ArmNow
        /\ ReadAhead => awaits /\ Arms(Call)
        /\ \A i \in DOMAIN rx : SaysDone(rx[i]) => i = 1 /\ awaits /\ Arms(Call)
  BY <1>1 DEF OldDoneInv
<1>5. CASE Clock
  <2>1. ~completed /\ (st' = "DONE" => st = "DONE")
    BY <1>5, NoNewDone DEF Clock
  <2>2. UNCHANGED <<requests, engine, rx, awaits, todo>>
    BY <1>5 DEF Clock, device, link, host
  <2> QED
    BY <1>4, <2>1, <2>2 DEF ArmQueued, ArmNow, ReadAhead, Arms, Call, SaysDone
<1>6. CASE UNCHANGED hostVars
  <2>1. UNCHANGED <<st, completed, requests, engine, rx, awaits, todo>>
    BY <1>6 DEF hostVars, vars, device, link, host, history
  <2> QED
    BY <1>4, <2>1 DEF ArmQueued, ArmNow, ReadAhead, Arms, Call, SaysDone
<1>7. CASE Accept
  <2>1. UNCHANGED <<st, completed, awaits, todo>>
    BY <1>7 DEF Accept, vars, host, history
  <2>2. \A i \in DOMAIN rx' :
          SaysDone(rx'[i]) => i \in DOMAIN rx /\ rx'[i] = rx[i]
    <3>1. CASE Head(requests).op = "damaged"
      <4>1. Emit([op |-> "NAK"])
        BY <1>7, <3>1 DEF Accept
      <4> QED
        <5>1. ~SaysDone([op |-> "NAK"])
          BY DEF SaysDone
        <5> QED
          BY <1>1, <4>1, <5>1, AnswerTypes, Sent
    <3>2. CASE Head(requests).op # "damaged"
      BY <1>7, <3>2 DEF Accept
    <3> QED
      BY <3>1, <3>2
  <2> QED
    BY <1>4, <1>7, <2>1, <2>2, AcceptQueue DEF Arms, Call, SaysDone
<1>8. CASE ExecRead
  <2>1. /\ UNCHANGED <<st, completed, awaits, todo, requests>> /\ engine.pc = "READ_CSR"
        /\ engine' = [pc |-> "idle"] /\ Emit([op |-> "READ_CSR", status |-> Status])
    BY <1>8 DEF ExecRead, vars, host, history
  <2>2. st' = "DONE" => ArmQueued' \/ ArmNow'
    BY <1>4, <2>1 DEF ArmQueued, ArmNow
  <2>3. ReadAhead' => awaits' /\ Arms(Call)'
    BY <1>4, <2>1 DEF ReadAhead, Arms, Call
  <2>4. ASSUME NEW i \in DOMAIN rx', SaysDone(rx'[i])
        PROVE  i = 1 /\ awaits /\ Arms(Call)
    <3>1. CASE i \in 1 .. Len(rx)
      BY <1>1, <1>3, <1>4, <2>1, <2>4, <3>1, AnswerTypes, Sent
    <3>2. CASE i = Len(rx) + 1
      <4>1. st = "DONE"
        BY <1>1, <2>1, <2>4, <3>2, AnswerTypes, Sent DEF SaysDone, Status
      <4>2. ArmQueued
        BY <1>4, <2>1, <4>1 DEF ArmNow
      <4>3. ReadAhead
        BY <2>1, <4>2 DEF ReadAhead
      <4>4. awaits /\ Arms(Call)
        BY <1>4, <2>1, <4>3
      <4>5. Load >= 2 /\ ~Draining
        BY <4>3, <4>4, TwoInFlight DEF Draining, Arms
      <4>6. Len(rx) = 0
        BY <1>1, <1>2, <1>3, <4>5
      <4> QED
        BY <3>2, <4>4, <4>6
    <3>3. i \in DOMAIN rx \/ i = Len(rx) + 1
      BY <1>1, <2>1, AnswerTypes, Sent
    <3> QED
      BY <1>3, <3>1, <3>2, <3>3
  <2> QED
    BY <2>1, <2>2, <2>3, <2>4 DEF Arms, Call, SaysDone
<1>9. CASE ExecWrite
  <2>1. /\ UNCHANGED <<requests, rx, awaits, todo>> /\ engine.pc = "WRITE_CSR"
        /\ engine' = [pc |-> "rdstat"]
        /\ Commit(engine.req.reg, engine.req.val) /\ engine.req.op = "WRITE_CSR"
    BY <1>9, EngineShapes DEF ExecWrite, link, host
  <2>2. ~completed /\ (st' = "DONE" => st = "DONE" /\ engine.req.reg # "arm")
    <3>1. CASE engine.req.reg \notin Registers \/ st # "IDLE"
      <4>1. CoreEdge(engine.req.reg = "arm") /\ (engine.req.reg = "arm") \in BOOLEAN
        BY <2>1, <3>1 DEF Commit
      <4> QED
        BY <4>1, NoNewDone
    <3>2. CASE engine.req.reg \in Registers /\ st = "IDLE"
      BY <2>1, <3>2 DEF Commit, WritePretrig, WriteWindows
    <3> QED
      BY <3>1, <3>2
  <2>3. st' = "DONE" => ArmQueued
    BY <1>4, <2>2 DEF ArmNow, ArmRequest
  <2> QED
    BY <1>4, <2>1, <2>2, <2>3 DEF ArmQueued, ReadAhead, Arms, Call, SaysDone
<1>10. CASE AnswerWrite
  <2>1. /\ UNCHANGED <<st, completed, awaits, todo, requests>> /\ engine.pc = "rdstat"
        /\ engine' = [pc |-> "idle"] /\ Emit([op |-> "WRITE_CSR", cfgErr |-> cfgErr])
    BY <1>10 DEF AnswerWrite, vars, host, history
  <2>2. \A i \in DOMAIN rx' :
          SaysDone(rx'[i]) => i \in DOMAIN rx /\ rx'[i] = rx[i]
    <3>1. ~SaysDone([op |-> "WRITE_CSR", cfgErr |-> cfgErr])
      BY DEF SaysDone
    <3> QED
      BY <1>1, <2>1, <3>1, AnswerTypes, Sent
  <2> QED
    BY <1>4, <2>1, <2>2 DEF ArmQueued, ArmNow, ReadAhead, Arms, Call, SaysDone
<1>11. CASE DrainStatus \/ DrainIndex \/ DrainHeader \/ DrainData
  <2>1. /\ UNCHANGED <<st, completed, awaits, todo, requests>>
        /\ engine.pc \in {"DRAIN", "index", "stamp", "data"}
        /\ engine'.pc \in {"index", "stamp", "data", "idle"}
    <3>1. CASE DrainData
      <4>1. engine.pc = "data"
        BY <3>1 DEF DrainData
      <4>2. engine'.pc \in {"data", "idle"}
        <5>1. CASE engine' = [engine EXCEPT !.samples = Append(engine.samples, buf[drainAddr])]
          BY <4>1, <5>1, EngineShapes
        <5> QED
          BY <3>1, <5>1 DEF DrainData
      <4> QED
        BY <3>1, <4>1, <4>2 DEF DrainData, vars, host, history
    <3> QED
      BY <1>11, <3>1 DEF DrainStatus, DrainIndex, DrainHeader, vars, host, history, link
  <2>2. \A i \in DOMAIN rx' :
          SaysDone(rx'[i]) => i \in DOMAIN rx /\ rx'[i] = rx[i]
    <3>1. CASE rx' = rx
      BY <3>1
    <3>2. ASSUME NEW frame \in Frames, Emit(frame), ~SaysDone(frame)
          PROVE  \A i \in DOMAIN rx' :
                   SaysDone(rx'[i]) => i \in DOMAIN rx /\ rx'[i] = rx[i]
      BY <1>1, <3>2, Sent
    <3>3. CASE DrainHeader
      BY <3>2, <3>3, AnswerTypes DEF DrainHeader, SaysDone
    <3>4. CASE DrainData /\ rx' # rx
      BY <3>2, <3>4, AnswerTypes DEF DrainData, SaysDone
    <3> QED
      BY <1>11, <3>1, <3>3, <3>4 DEF DrainStatus, DrainIndex, link
  <2> QED
    BY <1>4, <2>1, <2>2 DEF ArmQueued, ArmNow, ReadAhead, Arms, Call, SaysDone
<1>12. CASE Spoil
  BY <1>1, <1>12 DEF Spoil, Orderly
<1>13. CASE Send
  <2>1. /\ ~awaits /\ awaits' = TRUE /\ UNCHANGED <<st, rx, todo, engine>> /\ Call' = Call
        /\ completed' = (completed /\ ~Arms(Call))
    BY <1>13 DEF Send, Call, vars, device
  <2>2. Len(rx) <= 1
    BY <1>1, <1>2, <1>3, <2>1
  <2>3. CASE Arms(Call)
    BY <1>3, <1>13, <2>1, <2>2, <2>3, SendQueue DEF Arms
  <2>4. CASE ~Arms(Call)
    <3>1. ~completed
      BY <2>1, <2>4, Zenon
    <3> QED
      BY <1>4, <1>13, <2>1, <2>4, <3>1, SendQueue DEF ArmNow, SaysDone
  <2> QED
    BY <2>3, <2>4
<1>14. CASE Recv
  <2>1. PICK n \in 1 .. Len(rx) : rx' = SubSeq(rx, n + 1, Len(rx))
    BY <1>14 DEF Recv
  <2>2. /\ awaits /\ ~Draining /\ UNCHANGED <<st, completed, requests, engine>>
    BY <1>14, RecvShape DEF Recv, device, vars, history, Draining
  <2>3. Load <= 1
    <3>1. Load + Len(rx) <= late + 1
      BY <1>2, <2>2, Zenon
    <3>2. Len(rx) >= 1
      <4>1. rx # <<>>
        BY <1>14 DEF Recv
      <4> QED
        BY <1>3, <4>1
    <3> QED
      BY ONLY <1>1, <1>3, <3>1, <3>2
  <2>4. ~ReadAhead
    BY <1>3, <2>3, TwoInFlight
  <2>5. ASSUME NEW i \in DOMAIN rx' PROVE ~SaysDone(rx'[i])
    <3>1. i + n \in 1 .. Len(rx) /\ i + n # 1 /\ rx'[i] = rx[i + n]
      BY <1>3, <2>1, FramesLeft
    <3> QED
      BY <1>3, <1>4, <2>2, <3>1
  <2> QED
    BY <1>4, <2>2, <2>4, <2>5 DEF ArmQueued, ArmNow, ReadAhead, SaysDone
<1>15. CASE RecvTimeout
  <2>1. /\ awaits /\ ~Draining /\ UNCHANGED <<st, completed, requests, engine, rx>> /\ rx = <<>>
    BY <1>15 DEF RecvTimeout, device, link, vars, history, Draining, Call
  <2>2. ~ReadAhead
    <3>1. CASE Quiet
      BY <3>1 DEF Quiet, ReadAhead
    <3>2. CASE late' = late + 1
      <4>1. late = 0
        BY <1>1, <3>2
      <4> QED
        BY <1>2, <1>3, <4>1, TwoInFlight
    <3> QED
      BY <1>15, <3>1, <3>2 DEF RecvTimeout, Patience
  <2> QED
    BY <1>4, <2>1, <2>2 DEF ArmQueued, ArmNow, ReadAhead
<1>16. CASE DrainRead
  <2>1. /\ rx' = <<>> /\ UNCHANGED <<st, completed, requests, engine, awaits, todo>>
    BY <1>16 DEF DrainRead, device, vars, history
  <2> QED
    BY <1>4, <2>1 DEF ArmQueued, ArmNow, ReadAhead, Arms, Call
<1>17. CASE DrainEnd
  <2>1. /\ Quiet /\ UNCHANGED <<st, completed, requests, engine, rx>>
    BY <1>17 DEF DrainEnd, device, link, vars, Orderly
  <2> QED
    BY <1>4, <2>1 DEF Quiet, ArmQueued, ArmNow, ReadAhead
<1>18. CASE \E c \in Commands : Start(c)
  <2>1. /\ ~awaits /\ UNCHANGED <<st, completed, requests, engine>> /\ rx' \in {rx, <<>>}
    BY <1>18 DEF Start, HostTypeOK, device, vars, history
  <2> QED
    BY <1>4, <2>1 DEF ArmQueued, ArmNow, ReadAhead, SaysDone
<1> QED
  BY <1>5, <1>6, <1>7, <1>8, <1>9, <1>10, <1>11, <1>12, <1>13, <1>14, <1>15, <1>16, <1>17,
     <1>18 DEF HostNext, Engine, HostStep

\* Only the engine and the writes it is asked for bring the core to an end;
\* what wait_done has said stays true until the host arms again.
LEMMA ToldStep ==
  ASSUME TypeOK, HostTypeOK, HostTypeOK', LoadInv, OldDoneInv, ToldInv, [HostNext]_hostVars
  PROVE  ToldInv'
<1> SUFFICES ASSUME Orderly', (outcome.kind = "done")', Standing', ~completed' PROVE FALSE
  BY DEF ToldInv
<1>1. Orderly /\ lost' = 0
  BY BlemishesStay DEF Orderly
<1>2. outcome.kind = "done" /\ Standing => completed
  BY <1>1 DEF ToldInv
<1>3. CASE Clock \/ Engine \/ Spoil \/ DrainRead \/ UNCHANGED hostVars
  <2>1. UNCHANGED <<outcome, todo, awaits>>
    <3>1. CASE Engine
      BY <1>1, <3>1, EngineTraffic DEF Orderly, Engine, Accept, ExecRead, ExecWrite,
         AnswerWrite, DrainStatus, DrainIndex, DrainHeader, DrainData, host
    <3> QED
      BY <1>3, <3>1 DEF Clock, Spoil, DrainRead, hostVars, host
  <2>2. completed => completed'
    <3>1. CASE ExecWrite \/ Clock
      <4>1. CASE UNCHANGED completed
        BY <4>1
      <4>2. CASE Observe
        BY <4>2, Zenon DEF Observe
      <4> QED
        BY <3>1, <4>1, <4>2 DEF ExecWrite, Commit, Clock, CoreEdge
    <3>2. CASE ~(ExecWrite \/ Clock)
      <4>1. UNCHANGED completed
        BY <1>3, <3>2 DEF Engine, Accept, ExecRead, AnswerWrite, DrainStatus, DrainIndex,
           DrainHeader, DrainData, Spoil, DrainRead, hostVars, history
      <4> QED
        BY <4>1
    <3> QED
      BY <3>1, <3>2
  <2> QED
    BY <1>2, <2>1, <2>2 DEF Standing, Call
<1>4. CASE Send
  <2>1. /\ ~awaits /\ awaits' /\ Call' = Call /\ UNCHANGED outcome
        /\ completed' = (completed /\ ~Arms(Call))
    BY <1>4 DEF Send, Call
  <2>2. ~Arms(Call)
    <3>1. Call.call # "write"
      BY <2>1 DEF Standing
    <3> QED
      BY <3>1 DEF Arms
  <2>3. completed
    BY <1>2, <2>1 DEF Standing
  <2>4. completed' = (completed /\ ~Arms(Call))
    BY <2>1
  <2>5. completed'
    BY ONLY <2>2, <2>3, <2>4, Zenon
  <2> QED
    BY <2>5
<1>5. CASE Recv
  <2>1. UNCHANGED completed /\ rx # <<>> /\ Head(rx) = rx[1] /\ 1 \in DOMAIN rx
    <3>1. UNCHANGED completed /\ rx # <<>>
      BY <1>5 DEF Recv, history
    <3>2. rx \in Seq(Frames)
      BY DEF HostTypeOK
    <3>3. Head(rx) = rx[1] /\ 1 \in DOMAIN rx
      BY <3>1, <3>2
    <3> QED
      BY <3>1, <3>3
  <2>2. CASE outcome' = outcome /\ Call.call = "wait"
    BY <1>2, <2>1, <2>2 DEF Standing
  <2>3. CASE Call.call = "wait" /\ "DONE" \in ReadAs(rx[1])
    <3>1. ~Draining /\ RegisterTraffic
      BY <1>1, <2>3 DEF Draining, LoadInv
    <3>2. rx[1].op \in {"READ_CSR", "WRITE_CSR"}
      BY <2>1, <3>1 DEF RegisterTraffic
    <3>3. SaysDone(rx[1])
      BY <2>3, <3>2 DEF ReadAs, SaysDone
    <3>4. Arms(Call)
      BY <1>1, <2>1, <3>3 DEF OldDoneInv
    <3> QED
      BY <2>3, <3>4 DEF Arms
  <2> QED
    BY <1>5, <2>1, <2>2, <2>3, RecvShape DEF None
<1>6. CASE RecvTimeout \/ \E c \in Commands : Start(c)
  BY <1>6 DEF RecvTimeout, Raise, Start, None
<1>7. CASE DrainEnd
  <2>1. outcome'.kind \in {"capture", "error"}
    BY <1>7 DEF DrainEnd, Return, Raise, DecodeDrain
  <2> QED
    BY <2>1
<1> QED
  BY <1>3, <1>4, <1>5, <1>6, <1>7 DEF HostNext, HostStep

----------------------------------------------------------------------------
(* A host that waits for every answer. *)

\* Then there is one request or answer at a time, that of the call.
LEMMA InStep ==
  ASSUME HostTypeOK, LoadInv, CallInv, Prompt
  PROVE  /\ Orderly
         /\ ~awaits => requests = <<>> /\ engine.pc = "idle" /\ rx = <<>>
         /\ awaits => Call \in Calls
         /\ requests # <<>> =>
              /\ awaits /\ engine.pc = "idle" /\ (~Draining => rx = <<>>)
              /\ Tail(requests) = <<>> /\ Head(requests) = Request(Call)
              /\ Len(requests) = 1 /\ requests[1] = Request(Call)
         /\ engine.pc # "idle" => awaits /\ requests = <<>> /\ (~Draining => rx = <<>>)
         /\ engine.pc = "READ_CSR" => Call.call \in {"status", "wait"}
         /\ engine.pc = "WRITE_CSR" => Call.call = "write" /\ engine.req = Request(Call)
         /\ engine.pc = "rdstat" => Call.call = "write"
         /\ engine.pc \in {"DRAIN", "index", "stamp", "data"} => Draining
<1>1. Orderly /\ late = 0
  BY DEF Prompt, Orderly, HostTypeOK
<1> DEFINE m == Len(requests)
           k == Len(rx)
           b == IF engine.pc = "idle" THEN 0 ELSE 1
<1>2. /\ requests \in Seq(Requests) /\ rx \in Seq(Frames) /\ m \in Nat /\ k \in Nat
      /\ b \in {0, 1} /\ Load = m + b /\ todo \in Seq(Calls) /\ (awaits => todo # <<>>)
  BY DEF HostTypeOK, Load
<1>3. /\ m + b <= 1
      /\ ~Draining => m + b + k <= 1
      /\ ~awaits => m + b + k <= 0
  <2>1. /\ Load <= late + 1
        /\ ~Draining => Load + Len(rx) <= late + 1
        /\ ~awaits => Load + Len(rx) <= late
    BY <1>1, Zenon DEF LoadInv
  <2> QED
    BY <1>1, <1>2, <2>1
<1>4. /\ m = 0 => requests = <<>>
      /\ k = 0 => rx = <<>>
      /\ m = 1 => Tail(requests) = <<>> /\ Head(requests) = requests[1]
      /\ requests # <<>> => m >= 1
  <2>1. ASSUME NEW S, NEW q \in Seq(S), Len(q) = 0 PROVE q = <<>>
    BY <2>1
  <2>2. requests # <<>> => m >= 1
    BY <1>2
  <2>3. ASSUME m = 1 PROVE Tail(requests) = <<>> /\ Head(requests) = requests[1]
    <3>1. requests # <<>>
      BY <2>3
    <3>2. /\ Tail(requests) \in Seq(Requests) /\ Len(Tail(requests)) = 0
          /\ Head(requests) = requests[1]
      BY <1>2, <2>3, <3>1, TailEntries
    <3> QED
      BY <2>1, <3>2
  <2> QED
    BY <1>2, <2>1, <2>2, <2>3
<1>5. engine.pc # "idle" => b = 1
  OBVIOUS
<1> HIDE DEF m, k, b
<1>6. ~awaits => m = 0 /\ k = 0 /\ b = 0
  BY <1>2, <1>3
<1>7. requests # <<>> => m = 1 /\ b = 0 /\ awaits /\ (~Draining => k = 0)
  BY <1>2, <1>3, <1>4
<1>8. b = 1 => m = 0 /\ awaits /\ (~Draining => k = 0)
  BY <1>2, <1>3
<1>9. awaits => Call \in Calls
  BY <1>2 DEF Call
<1>10. awaits =>
        /\ requests # <<>> => requests[1] = Request(Call)
        /\ engine.pc \in {"READ_CSR", "WRITE_CSR", "DRAIN"} =>
             engine.pc = Request(Call).op /\ engine.req = Request(Call)
        /\ engine.pc = "rdstat" => Call.call = "write"
        /\ engine.pc \in {"index", "stamp", "data"} => Call.call = "drain"
  BY DEF CallInv
<1>11. awaits =>
        /\ Request(Call).op = "READ_CSR" => Call.call \in {"status", "wait"}
        /\ Request(Call).op = "WRITE_CSR" => Call.call = "write"
        /\ Request(Call).op = "DRAIN" => Call.call = "drain"
  BY <1>9 DEF Request, Calls
<1>12. b = 0 => engine.pc = "idle"
  BY DEF b
<1>13. ~awaits => requests = <<>> /\ engine.pc = "idle" /\ rx = <<>>
  BY <1>4, <1>6, <1>12
<1>14. requests # <<>> =>
         /\ awaits /\ engine.pc = "idle" /\ (~Draining => rx = <<>>)
         /\ Tail(requests) = <<>> /\ Head(requests) = Request(Call)
         /\ Len(requests) = 1 /\ requests[1] = Request(Call)
  BY <1>4, <1>7, <1>10, <1>12 DEF m
<1>15. engine.pc # "idle" => awaits /\ requests = <<>> /\ (~Draining => rx = <<>>)
  BY <1>4, <1>5, <1>8
<1>16. /\ engine.pc = "READ_CSR" => Call.call \in {"status", "wait"}
       /\ engine.pc = "WRITE_CSR" => Call.call = "write" /\ engine.req = Request(Call)
       /\ engine.pc = "rdstat" => Call.call = "write"
       /\ engine.pc \in {"DRAIN", "index", "stamp", "data"} => Draining
  BY <1>10, <1>11, <1>15 DEF Draining
<1> QED
  BY <1>1, <1>9, <1>13, <1>14, <1>15, <1>16

\* No request of a call is damaged.
LEMMA SoundRequests ==
  \A call \in Calls : Request(call).op \in {"READ_CSR", "WRITE_CSR", "DRAIN"}
  BY DEF Request, Calls

\* Every step keeps request and answer those of the call.
LEMMA CallStep ==
  ASSUME TypeOK, HostTypeOK, HostTypeOK', LoadInv, CallInv, [HostNext]_hostVars
  PROVE  CallInv'
<1> DEFINE Asked == awaits /\ Call.call = "write" /\ Call.reg \in Registers =>
                      asked[Call.reg] = Call.val
<1> SUFFICES ASSUME Prompt'
             PROVE  /\ got' # <<>> => Draining'
                    /\ awaits' =>
                         /\ requests' # <<>> => requests'[1] = Request(Call)'
                         /\ engine'.pc \in {"READ_CSR", "WRITE_CSR", "DRAIN"} =>
                              engine'.pc = Request(Call)'.op /\ engine'.req = Request(Call)'
                         /\ engine'.pc = "rdstat" => Call'.call = "write"
                         /\ engine'.pc \in {"index", "stamp", "data"} => Call'.call = "drain"
                    /\ Asked'
  BY DEF CallInv
<1>1. Prompt /\ lost' = 0 /\ late' = 0
  BY BlemishesStay DEF Prompt
<1>2. /\ got # <<>> => Draining
      /\ awaits =>
           /\ requests # <<>> => requests[1] = Request(Call)
           /\ engine.pc \in {"READ_CSR", "WRITE_CSR", "DRAIN"} =>
                engine.pc = Request(Call).op /\ engine.req = Request(Call)
           /\ engine.pc = "rdstat" => Call.call = "write"
           /\ engine.pc \in {"index", "stamp", "data"} => Call.call = "drain"
      /\ Asked
  BY <1>1 DEF CallInv
<1>3. CASE Clock \/ UNCHANGED hostVars
  <2>1. UNCHANGED <<requests, engine, awaits, todo, asked, got>>
    BY <1>3 DEF Clock, device, link, host, hostVars, history
  <2> QED
    BY <1>2, <2>1 DEF Draining, Call, Request
<1>4. CASE DrainRead
  <2>1. UNCHANGED <<requests, engine, awaits, todo, asked>> /\ Draining
    BY <1>4 DEF DrainRead, device, history, Draining, Call
  <2> QED
    BY <1>2, <2>1 DEF Draining, Call, Request
<1>5. CASE Engine
  <2>1. UNCHANGED <<todo, awaits, got, asked>> /\ Call' = Call /\ Draining' = Draining
    BY <1>1, <1>5, EngineTraffic DEF Call, Draining
  <2>2. Request(Call)' = Request(Call)
    BY <2>1 DEF Request
  <2>3. CASE Accept
    <3>1. /\ requests # <<>> /\ requests' = Tail(requests) /\ engine.pc = "idle"
      BY <2>3 DEF Accept
    <3>2. /\ awaits /\ requests' = <<>> /\ Head(requests) = Request(Call) /\ Call \in Calls
      BY <1>1, <3>1, InStep
    <3>3. Request(Call).op \in {"READ_CSR", "WRITE_CSR", "DRAIN"}
      BY <3>2, SoundRequests
    <3>4. engine' = [pc |-> Request(Call).op, req |-> Request(Call)]
      BY <2>3, <3>2, <3>3 DEF Accept
    <3>5. engine'.pc = Request(Call).op /\ engine'.req = Request(Call)
      BY <3>4
    <3> QED
      BY <1>2, <2>1, <2>2, <3>2, <3>3, <3>5
  <2>4. CASE ExecRead \/ AnswerWrite
    BY <1>2, <2>1, <2>2, <2>4 DEF ExecRead, AnswerWrite
  <2>5. CASE ExecWrite
    <3>1. engine.pc = "WRITE_CSR" /\ engine' = [pc |-> "rdstat"] /\ UNCHANGED requests
      BY <2>5 DEF ExecWrite, link
    <3>2. Call.call = "write"
      BY <1>1, <3>1, InStep
    <3> QED
      BY <1>2, <2>1, <2>2, <3>1, <3>2
  <2>6. CASE DrainStatus \/ DrainIndex \/ DrainHeader \/ DrainData
    <3>1. engine.pc \in {"DRAIN", "index", "stamp", "data"} /\ UNCHANGED requests
      BY <2>6 DEF DrainStatus, DrainIndex, DrainHeader, DrainData, link
    <3>2. Draining
      BY <1>1, <3>1, InStep
    <3>3. engine'.pc \notin {"READ_CSR", "WRITE_CSR", "DRAIN", "rdstat"}
      <4>1. CASE DrainData
        <5>1. engine.pc = "data"
          BY <4>1 DEF DrainData
        <5>2. CASE engine' = [engine EXCEPT !.samples = Append(engine.samples, buf[drainAddr])]
          BY <5>1, <5>2, EngineShapes
        <5> QED
          BY <4>1, <5>2 DEF DrainData
      <4> QED
        BY <2>6, <4>1 DEF DrainStatus, DrainIndex, DrainHeader
    <3> QED
      BY <1>2, <2>1, <2>2, <3>1, <3>2, <3>3 DEF Draining
  <2> QED
    BY <1>5, <2>3, <2>4, <2>5, <2>6 DEF Engine
<1>6. CASE Spoil
  BY <1>1, <1>6 DEF Spoil, Prompt
<1>7. CASE Send
  <2>1. /\ ~awaits /\ UNCHANGED <<got, todo, engine>> /\ requests' = Append(requests, Request(Call))
        /\ asked' = IF Call.call = "write" /\ Call.reg \in Registers
                    THEN [asked EXCEPT ![Call.reg] = Call.val] ELSE asked
        /\ Call' = Call
    BY <1>7 DEF Send, Call, device
  <2>2. requests = <<>> /\ engine.pc = "idle" /\ got = <<>>
    BY <1>1, <1>2, <2>1, InStep DEF Draining
  <2>3. Request(Call)' = Request(Call)
    BY <2>1 DEF Request
  <2>4. requests'[1] = Request(Call)
    BY <2>1, <2>2
  <2>5. Asked'
    BY <2>1 DEF HostTypeOK
  <2> QED
    BY <2>1, <2>2, <2>3, <2>4, <2>5
<1>8. CASE Recv \/ RecvTimeout \/ DrainEnd \/ \E c \in Commands : Start(c)
  <2>1. awaits' = FALSE /\ got' = <<>>
    <3>1. CASE Recv
      BY <1>2, <3>1, RecvShape DEF Draining
    <3> QED
      BY <1>8, <3>1 DEF RecvTimeout, DrainEnd, Raise, Return, Start
  <2> QED
    BY <2>1
<1> QED
  BY <1>3, <1>4, <1>5, <1>6, <1>7, <1>8 DEF HostNext, HostStep

\* A core that is done with a run of one window stays as it is.
LEMMA AtRest ==
  ASSUME IInv, st = "DONE", weff = 1, CoreEdge(FALSE)
  PROVE  UNCHANGED vars
<1>1. windowsDone >= windowsQ
  BY DEF IInv, TypeOK, WindowBookkeeping
<1>2. windowsDone \in Nat /\ windowsQ \in Nat
  BY MaxWindowsAssumption DEF IInv, TypeOK
<1> QED
  BY <1>1, <1>2 DEF CoreEdge, Edge, Fill, Watch, Collect, NextWindow, Rest

\* Without a strobe the registers and the slicing stay as they are.
LEMMA QuietCore == CoreEdge(FALSE) => UNCHANGED <<pretrig, windows, weff>>
  BY DEF CoreEdge, Edge, Fill, Watch, Collect, NextWindow, Rest, config, run, vars

\* A step of the device leaves the host where it is.
LEMMA DeviceStep ==
  ASSUME Clock \/ Engine \/ UNCHANGED hostVars
  PROVE  /\ UNCHANGED <<todo, awaits, outcome, late, got, asked>> /\ Call' = Call
         /\ (Draining' <=> Draining) /\ (Standing' <=> Standing)
         /\ Request(Call)' = Request(Call)
<1>1. UNCHANGED <<todo, awaits, outcome, late, got, asked>>
  BY DEF Clock, Engine, Accept, ExecRead, ExecWrite, AnswerWrite, DrainStatus, DrainIndex,
         DrainHeader, DrainData, hostVars, host, history
<1>2. Call' = Call
  BY <1>1 DEF Call
<1>3. Request(Call)' = Request(Call)
  BY <1>2 DEF Request
<1> QED
  BY <1>1, <1>2, <1>3 DEF Draining, Standing

\* The registers, the slicing and cfg_err change in a write, cfg_err only so.
LEMMA OnlyWrites ==
  ASSUME [HostNext]_hostVars
  PROVE  /\ ExecWrite \/ UNCHANGED <<pretrig, windows, weff, cfgErr>>
         /\ ExecWrite \/ Clock \/ UNCHANGED vars
<1>1. CASE Clock
  BY <1>1, QuietCore DEF Clock, device
<1>2. CASE Accept \/ ExecRead \/ AnswerWrite \/ DrainStatus \/ DrainIndex
             \/ DrainHeader \/ DrainData
  BY <1>2 DEF Accept, ExecRead, AnswerWrite, DrainStatus, DrainIndex, DrainHeader, DrainData,
              vars, config, run
<1>3. CASE Spoil \/ HostStep \/ \E c \in Commands : Start(c)
  BY <1>3 DEF Spoil, HostStep, Send, Recv, RecvTimeout, DrainRead, DrainEnd, Start,
              vars, config, run, device
<1>4. CASE UNCHANGED hostVars
  BY <1>4 DEF hostVars, device, vars, config, run
<1> QED
  BY <1>1, <1>2, <1>3, <1>4 DEF HostNext, Engine

\* An answer that says DONE of a run of one window stays true.
LEMMA DoneStays ==
  ASSUME IInv, [HostNext]_hostVars, ~ExecWrite, st = "DONE", weff = 1
  PROVE  UNCHANGED vars
  BY OnlyWrites, AtRest DEF Clock

\* Every step keeps a waiting answer the last word.
LEMMA AnswerStep ==
  ASSUME IInv, HostTypeOK, HostTypeOK', LoadInv, CallInv, AnswerInv, [HostNext]_hostVars
  PROVE  AnswerInv'
<1> SUFFICES ASSUME Prompt', awaits', ~(Draining'), rx' # <<>>
             PROVE  /\ rx'[1].op = Request(Call)'.op
                    /\ rx'[1].op = "READ_CSR" =>
                         /\ rx'[1].status.cfgErr = cfgErr'
                         /\ rx'[1].status.state = "DONE" /\ weff' = 1 => st' = "DONE"
  BY DEF AnswerInv
<1>1. Prompt /\ lost' = 0 /\ TypeOK
  BY BlemishesStay DEF Prompt, IInv
<1>2. awaits /\ ~Draining /\ rx # <<>> =>
        /\ rx[1].op = Request(Call).op
        /\ rx[1].op = "READ_CSR" =>
             /\ rx[1].status.cfgErr = cfgErr
             /\ rx[1].status.state = "DONE" /\ weff = 1 => st = "DONE"
  BY <1>1 DEF AnswerInv
<1>3. CASE Engine
  <2>1. awaits /\ ~Draining /\ Call' = Call /\ Request(Call)' = Request(Call)
    BY <1>3, DeviceStep
  <2>2. CASE Accept
    <3>1. requests # <<>> /\ rx = <<>> /\ Head(requests) = Request(Call) /\ Call \in Calls
      BY <1>1, <2>1, <2>2, InStep DEF Accept
    <3>2. rx' = rx
      BY <2>2, <3>1, SoundRequests DEF Accept
    <3> QED
      BY <3>1, <3>2
  <2>3. CASE ExecRead
    <3>1. /\ engine.pc = "READ_CSR" /\ Emit([op |-> "READ_CSR", status |-> Status])
          /\ UNCHANGED <<st, weff, cfgErr>>
      BY <2>3 DEF ExecRead, vars, run
    <3>2. rx = <<>>
      BY <1>1, <2>1, <3>1, InStep
    <3>3. rx'[1] = [op |-> "READ_CSR", status |-> Status]
      BY <1>1, <3>1, <3>2, AnswerTypes, Sent
    <3>4. Request(Call).op = "READ_CSR"
      BY <1>1, <2>1, <3>1 DEF CallInv
    <3> QED
      BY <2>1, <3>1, <3>3, <3>4 DEF Status
  <2>4. CASE ExecWrite
    <3>1. engine.pc = "WRITE_CSR" /\ rx' = rx
      BY <2>4 DEF ExecWrite, link
    <3> QED
      BY <1>1, <2>1, <3>1, InStep
  <2>5. CASE AnswerWrite
    <3>1. /\ engine.pc = "rdstat" /\ Emit([op |-> "WRITE_CSR", cfgErr |-> cfgErr])
      BY <2>5 DEF AnswerWrite
    <3>2. rx = <<>> /\ Call.call = "write"
      BY <1>1, <2>1, <3>1, InStep
    <3>3. rx'[1] = [op |-> "WRITE_CSR", cfgErr |-> cfgErr]
      BY <1>1, <3>1, <3>2, AnswerTypes, Sent
    <3>4. Request(Call).op = "WRITE_CSR"
      BY <3>2 DEF Request
    <3> QED
      BY <2>1, <3>3, <3>4
  <2>6. CASE DrainStatus \/ DrainIndex \/ DrainHeader \/ DrainData
    <3>1. engine.pc \in {"DRAIN", "index", "stamp", "data"}
      BY <2>6 DEF DrainStatus, DrainIndex, DrainHeader, DrainData
    <3> QED
      BY <1>1, <2>1, <3>1, InStep
  <2> QED
    BY <1>3, <2>2, <2>3, <2>4, <2>5, <2>6 DEF Engine
<1>4. CASE Clock \/ UNCHANGED hostVars
  <2>1. awaits /\ ~Draining /\ Call' = Call /\ Request(Call)' = Request(Call) /\ rx' = rx
    <3>1. rx' = rx
      BY <1>4 DEF Clock, link, hostVars
    <3> QED
      BY <1>4, <3>1, DeviceStep
  <2>2. UNCHANGED <<weff, cfgErr>>
    BY <1>4, QuietCore DEF Clock, device, hostVars, vars, run
  <2>3. st = "DONE" /\ weff = 1 => st' = "DONE"
    <3>1. CASE Clock
      BY <3>1, AtRest DEF Clock, vars
    <3> QED
      BY <1>4, <3>1 DEF hostVars, vars
  <2> QED
    BY <1>2, <2>1, <2>2, <2>3
<1>5. CASE Send
  <2>1. ~awaits /\ rx' = rx
    BY <1>5 DEF Send
  <2> QED
    BY <1>1, <2>1, InStep
<1>6. CASE Spoil
  BY <1>1, <1>6 DEF Spoil, Prompt
<1>7. CASE Recv \/ RecvTimeout \/ DrainEnd \/ DrainRead \/ \E c \in Commands : Start(c)
  BY <1>7, RecvShape DEF RecvTimeout, DrainEnd, DrainRead, Raise, Return, Start
<1> QED
  BY <1>3, <1>4, <1>5, <1>6, <1>7 DEF HostNext, HostStep

\* Every step keeps a run of one window at rest once the host is told it is done.
LEMMA DoneStep ==
  ASSUME IInv, HostTypeOK, HostTypeOK', LoadInv, CallInv, AnswerInv, DoneInv, [HostNext]_hostVars
  PROVE  DoneInv'
<1> SUFFICES ASSUME Prompt', outcome'.kind = "done", weff' = 1, Standing'
             PROVE  st' = "DONE"
  BY DEF DoneInv
<1>1. Prompt /\ lost' = 0
  BY BlemishesStay DEF Prompt
<1>2. outcome.kind = "done" /\ weff = 1 /\ Standing => st = "DONE"
  BY <1>1 DEF DoneInv
<1>3. CASE ExecWrite
  <2>1. awaits /\ Call.call = "write" /\ Standing
    BY <1>1, <1>3, DeviceStep, InStep DEF ExecWrite, Engine
  <2> QED
    BY <2>1 DEF Standing
<1>4. CASE ~ExecWrite
  <2>1. weff = 1 /\ (st = "DONE" => st' = "DONE")
    BY <1>4, OnlyWrites, DoneStays DEF vars
  <2>2. CASE Clock \/ Engine \/ UNCHANGED hostVars
    BY <1>2, <2>1, <2>2, DeviceStep
  <2>3. CASE Spoil \/ Send \/ DrainRead
    BY <1>2, <2>1, <2>3 DEF Spoil, Send, DrainRead, Standing, Call, host
  <2>4. CASE Recv
    <3>1. CASE outcome' = outcome /\ Call.call = "wait"
      BY <1>2, <2>1, <3>1 DEF Standing
    <3>2. CASE Call.call = "wait" /\ "DONE" \in ReadAs(Head(rx))
      <4>1. awaits /\ ~Draining /\ rx # <<>> /\ Head(rx) = rx[1]
        BY <2>4, <3>2 DEF Recv, Draining, HostTypeOK
      <4>2. /\ rx[1].op = "READ_CSR"
            /\ rx[1].status.state = "DONE" => st = "DONE"
        BY <1>1, <2>1, <3>2, <4>1 DEF AnswerInv, Request
      <4> QED
        BY <2>1, <3>2, <4>1, <4>2 DEF ReadAs
    <3> QED
      BY <2>4, <3>1, <3>2, RecvShape DEF None
  <2>5. CASE RecvTimeout \/ \E c \in Commands : Start(c)
    BY <2>5 DEF RecvTimeout, Raise, Start, None
  <2>6. CASE DrainEnd
    <3>1. outcome'.kind \in {"capture", "error"}
      BY <2>6 DEF DrainEnd, Return, Raise, DecodeDrain
    <3> QED
      BY <3>1
  <2> QED
    BY <2>2, <2>3, <2>4, <2>5, <2>6 DEF HostNext, HostStep
<1> QED
  BY <1>3, <1>4

\* A write that is not refused leaves its register as the host asked, and the
\* other one alone.
LEMMA WriteTakes ==
  ASSUME TypeOK, HostTypeOK, ExecWrite, ~cfgErr', NEW reg \in Registers, Holds(reg),
         engine.req.reg # reg
  PROVE  Holds(reg)'
<1> DEFINE r == engine.req.reg
           val == engine.req.val
<1>1. Commit(r, val) /\ asked' = asked /\ engine.req.reg # reg
  BY DEF ExecWrite
<1> HIDE DEF r, val
<1>2. CASE r \notin Registers \/ st # "IDLE"
  <2>1. \E arm \in BOOLEAN : CoreEdge(arm)
    BY <1>1, <1>2 DEF Commit
  <2>2. UNCHANGED <<pretrig, windows>>
    BY <2>1 DEF CoreEdge, Edge, Arm, Fill, Watch, Collect, NextWindow, Rest, config, vars
  <2> QED
    BY <1>1, <2>2 DEF Holds
<1>3. CASE r \in Registers /\ st = "IDLE"
  <2>1. CASE r = "PRETRIG"
    <3>1. reg = "WINDOWS" /\ windows' = windows
      BY <1>1, <1>3, <2>1 DEF r, Registers, Commit, WritePretrig
    <3> QED
      BY <1>1, <3>1 DEF Holds
  <2>2. CASE r = "WINDOWS"
    <3>1. reg = "PRETRIG" /\ pretrig' = pretrig
      BY <1>1, <1>3, <2>2 DEF r, Registers, Commit, WriteWindows
    <3> QED
      BY <1>1, <3>1 DEF Holds
  <2> QED
    BY <1>3, <2>1, <2>2 DEF Registers
<1> QED
  BY <1>2, <1>3

\* The register that is written.
LEMMA WriteHolds ==
  ASSUME HostTypeOK, ExecWrite, ~cfgErr', NEW reg \in Registers, reg = engine.req.reg,
         asked[reg] = engine.req.val, engine.req.val \in Nat
  PROVE  Holds(reg)'
<1> DEFINE val == engine.req.val
<1>1. Commit(reg, val) /\ asked'[reg] = val /\ val \in Nat
  BY DEF ExecWrite
<1>2. ~Refuse(reg, val)
  BY Zenon DEF ExecWrite
<1> HIDE DEF val
<1>3. st = "IDLE"
  BY <1>2 DEF Refuse
<1>4. CASE reg = "PRETRIG"
  <2>1. pretrig' = val % Depth
    BY <1>1, <1>3, <1>4 DEF Commit, WritePretrig
  <2> QED
    BY <1>1, <1>4, <2>1, Zenon DEF Holds
<1>5. CASE reg = "WINDOWS"
  <2>1. /\ windows' = IF val % (MaxWindows + 1) = 0 THEN 1
                      ELSE IF val % (MaxWindows + 1) > Depth \div 2 THEN windows
                      ELSE val % (MaxWindows + 1)
        /\ ~(val % (MaxWindows + 1) > Depth \div 2)
    BY <1>1, <1>2, <1>3, <1>5 DEF Commit, WriteWindows, Refuse
  <2>2. val <= MaxWindows => val % (MaxWindows + 1) = val
    BY <1>1, MaxWindowsAssumption
  <2>3. val <= MaxWindows => windows' = IF val = 0 THEN 1 ELSE val
    BY <2>1, <2>2, Zenon
  <2>4. reg # "PRETRIG"
    BY <1>5
  <2> QED
    BY <1>1, <2>3, <2>4, Zenon DEF Holds
<1> QED
  BY <1>4, <1>5 DEF Registers

\* Every step keeps what the registers hold what the host was told they do.
LEMMA ConfigStep ==
  ASSUME TypeOK, HostTypeOK, HostTypeOK', LoadInv, CallInv, AnswerInv, ConfigInv,
         [HostNext]_hostVars
  PROVE  ConfigInv'
<1> SUFFICES ASSUME Prompt'
             PROVE  /\ \A reg \in Registers :
                         ~cfgErr' /\ asked'[reg] # NoSample => Holds(reg)' \/ Pending(reg)'
                    /\ (outcome.kind = "status" /\ Standing)' => outcome'.cfgErr = cfgErr'
  BY DEF ConfigInv
<1>1. Prompt /\ lost' = 0 /\ late' = 0
  BY BlemishesStay DEF Prompt
<1>2. ASSUME ~cfgErr, NEW reg \in Registers, asked[reg] # NoSample
      PROVE  Holds(reg) \/ Pending(reg)
  BY <1>1, <1>2 DEF ConfigInv
<1>3. outcome.kind = "status" /\ Standing => outcome.cfgErr = cfgErr
  BY <1>1 DEF ConfigInv
<1>4. CASE ExecWrite
  <2>1. /\ awaits /\ Call.call = "write" /\ engine.req = Request(Call) /\ requests = <<>>
        /\ engine.pc = "WRITE_CSR" /\ Call \in Calls
    BY <1>1, <1>4, InStep DEF ExecWrite
  <2>2. /\ awaits' /\ Call' = Call /\ asked' = asked
    BY <1>4, <2>1, DeviceStep DEF Engine
  <2>3. engine.req.reg = Call.reg /\ engine.req.val = Call.val /\ Call.val \in Nat
    BY <2>1 DEF Request, Calls
  <2>4. ASSUME ~cfgErr', NEW reg \in Registers, asked'[reg] # NoSample
        PROVE  Holds(reg)'
    <3>1. ~cfgErr
      BY <1>4, <2>4, Zenon DEF ExecWrite
    <3>2. CASE Call.reg = reg
      <4>1. asked[reg] = Call.val
        BY <1>1, <2>1, <3>2 DEF CallInv
      <4> QED
        BY <1>4, <2>3, <2>4, <3>2, <4>1, WriteHolds
    <3>3. CASE Call.reg # reg
      <4>1. Holds(reg)
        BY <1>2, <2>2, <2>4, <3>1, <3>3 DEF Pending
      <4> QED
        BY <1>4, <2>3, <2>4, <3>3, <4>1, WriteTakes
    <3> QED
      BY <3>2, <3>3
  <2>5. ~(Standing')
    BY <2>1, <2>2 DEF Standing
  <2> QED
    BY <2>4, <2>5
<1>5. CASE ~ExecWrite
  <2>1. UNCHANGED <<pretrig, windows, cfgErr>>
    BY <1>5, OnlyWrites
  <2>2. ASSUME NEW reg \in Registers, asked'[reg] = asked[reg], Holds(reg) PROVE Holds(reg)'
    BY <2>1, <2>2 DEF Holds
  <2>3. CASE Clock \/ Engine \/ UNCHANGED hostVars
    <3>1. /\ UNCHANGED <<todo, awaits, outcome, asked>> /\ Call' = Call
          /\ (Standing' <=> Standing)
      BY <2>3, DeviceStep
    <3>2. ASSUME NEW reg \in Registers, Pending(reg) PROVE Pending(reg)'
      <4>1. awaits /\ Call.call = "write" /\ Call.reg = reg /\ ~Draining
        BY <3>2 DEF Pending, Draining
      <4>2. requests # <<>> \/ engine.pc = "WRITE_CSR"
        BY <3>2 DEF Pending
      <4>3. requests' # <<>> \/ engine'.pc = "WRITE_CSR"
        <5>1. CASE Clock \/ UNCHANGED hostVars
          BY <4>2, <5>1 DEF Clock, hostVars, device, link
        <5>2. CASE Accept
          <6>1. requests # <<>> /\ Head(requests) = Request(Call)
            BY <1>1, <5>2, InStep DEF Accept
          <6>2. Head(requests).op = "WRITE_CSR"
            BY <4>1, <6>1 DEF Request
          <6> QED
            BY <5>2, <6>2 DEF Accept
        <5>3. CASE Engine /\ ~Accept
          <6>1. engine.pc \in {"READ_CSR", "rdstat", "DRAIN", "index", "stamp", "data"}
            BY <1>5, <5>3 DEF Engine, ExecRead, AnswerWrite, DrainStatus, DrainIndex,
               DrainHeader, DrainData
          <6>2. requests = <<>>
            BY <1>1, <6>1, InStep
          <6> QED
            BY <4>2, <6>1, <6>2
        <5> QED
          BY <2>3, <5>1, <5>2, <5>3
      <4> QED
        BY <3>1, <4>1, <4>3 DEF Pending
    <3> QED
      BY <1>2, <1>3, <2>1, <2>2, <3>1, <3>2
  <2>4. CASE Spoil
    BY <1>1, <2>4 DEF Spoil, Prompt
  <2>5. CASE Send
    <3>1. /\ ~awaits /\ awaits' /\ Call' = Call /\ UNCHANGED outcome
          /\ asked' = IF Call.call = "write" /\ Call.reg \in Registers
                      THEN [asked EXCEPT ![Call.reg] = Call.val] ELSE asked
          /\ requests' = Append(requests, Request(Call))
      BY <2>5 DEF Send, Call
    <3>2. ASSUME ~cfgErr', NEW reg \in Registers, asked'[reg] # NoSample
          PROVE  Holds(reg)' \/ Pending(reg)'
      <4>1. CASE Call.call = "write" /\ Call.reg = reg
        <5>1. requests \in Seq(Requests)
          BY DEF HostTypeOK
        <5>2. requests' # <<>>
          BY <3>1, <5>1
        <5> QED
          BY <3>1, <4>1, <5>2 DEF Pending
      <4>2. CASE ~(Call.call = "write" /\ Call.reg = reg)
        <5>1. asked'[reg] = asked[reg]
          BY <3>1, <4>2 DEF HostTypeOK
        <5>2. Holds(reg)
          BY <1>2, <2>1, <3>1, <3>2, <5>1 DEF Pending
        <5> QED
          BY <2>2, <5>1, <5>2
      <4> QED
        BY <4>1, <4>2
    <3> QED
      BY <1>3, <2>1, <3>1, <3>2 DEF Standing
  <2>6. CASE Recv \/ RecvTimeout \/ DrainRead \/ DrainEnd \/ \E c \in Commands : Start(c)
    <3>1. asked' = asked
      BY <2>6 DEF Recv, RecvTimeout, DrainRead, DrainEnd, Start, history
    <3>2. ASSUME NEW reg \in Registers PROVE ~Pending(reg)
      <4>1. CASE Recv
        <5>1. awaits /\ ~Draining /\ rx # <<>>
          BY <4>1, RecvShape DEF Recv, Draining
        <5>2. requests = <<>> /\ engine.pc = "idle"
          BY <1>1, <5>1, InStep
        <5> QED
          BY <5>2 DEF Pending
      <4>2. CASE RecvTimeout
        <5>1. Quiet
          BY <1>1, <4>2 DEF RecvTimeout, Patience, Prompt
        <5> QED
          BY <5>1 DEF Quiet, Pending
      <4>3. CASE DrainRead \/ DrainEnd
        BY <4>3 DEF DrainRead, DrainEnd, Pending, Call
      <4>4. CASE \E c \in Commands : Start(c)
        BY <4>4 DEF Start, HostTypeOK, Pending
      <4> QED
        BY <2>6, <4>1, <4>2, <4>3, <4>4
    <3>3. (outcome.kind = "status" /\ Standing)' => outcome'.cfgErr = cfgErr'
      <4>1. CASE Recv
        <5>1. CASE outcome' = outcome /\ Call.call = "wait"
          BY <1>3, <2>1, <5>1 DEF Standing
        <5>2. CASE /\ Call.call = "status"
                   /\ outcome' = [kind |-> "status",
                                  cfgErr |-> Head(rx).op = "READ_CSR" /\ Head(rx).status.cfgErr]
          <6>1. awaits /\ ~Draining /\ rx # <<>> /\ Head(rx) = rx[1]
            BY <4>1, <5>2 DEF Recv, Draining, HostTypeOK
          <6>2. rx[1].op = "READ_CSR" /\ rx[1].status.cfgErr = cfgErr
            BY <1>1, <5>2, <6>1 DEF AnswerInv, Request
          <6>3. outcome'.cfgErr = (rx[1].op = "READ_CSR" /\ rx[1].status.cfgErr)
            BY <5>2, <6>1
          <6>4. cfgErr \in BOOLEAN
            BY DEF HostTypeOK
          <6> QED
            BY <2>1, <6>2, <6>3, <6>4, Zenon
        <5> QED
          BY <4>1, <5>1, <5>2, RecvShape DEF None
      <4>2. CASE RecvTimeout \/ \E c \in Commands : Start(c)
        BY <4>2 DEF RecvTimeout, Raise, Start, None
      <4>3. CASE DrainEnd
        <5>1. outcome'.kind \in {"capture", "error"}
          BY <4>3 DEF DrainEnd, Return, Raise, DecodeDrain
        <5> QED
          BY <5>1
      <4>4. CASE DrainRead
        BY <1>3, <2>1, <4>4 DEF DrainRead, Standing, Call
      <4> QED
        BY <2>6, <4>1, <4>2, <4>3, <4>4
    <3> QED
      BY <1>2, <2>1, <2>2, <3>1, <3>2, <3>3
  <2> QED
    BY <1>5, <2>3, <2>4, <2>5, <2>6 DEF HostNext, HostStep
<1> QED
  BY <1>4, <1>5
----------------------------------------------------------------------------
(* What is joined from the frames of a drain. *)

\* The samples so far, and one frame more.
Extend(data, frame) == IF frame.op = "DRAIN_DATA" THEN data \o frame.samples ELSE data

Joining(frames) ==
  CHOOSE data : data = [i \in 0 .. Len(frames) |->
                          IF i = 0 THEN <<>>
                          ELSE IF frames[i].op = "DRAIN_DATA"
                               THEN data[i - 1] \o frames[i].samples
                          ELSE data[i - 1]]

Joins(f, frames) ==
  /\ f[0] = <<>>
  /\ \A i \in 0 .. Len(frames) : f[i] \in Seq(Samples)
  /\ \A i \in 1 .. Len(frames) : f[i] = Extend(f[i - 1], frames[i])

\* Frames add samples to samples.
LEMMA ExtendTypes ==
  ASSUME NEW d \in Seq(Samples), NEW frame \in Frames
  PROVE  Extend(d, frame) \in Seq(Samples)
<1>1. frame.op = "DRAIN_DATA" => frame.samples \in Seq(Samples)
  BY DEF Frames
<1> QED
  BY <1>1, ConcatProperties DEF Extend

\* The recursion of Joined defines what it says.
LEMMA JoiningExists ==
  ASSUME NEW w \in Seq(Frames)
  PROVE  Joins(Joining(w), w) /\ Joined(w) = Joining(w)[Len(w)]
<1> DEFINE S == Seq(Samples)
           step == [p \in Nat \X S |-> IF p[1] \in 1 .. Len(w) THEN Extend(p[2], w[p[1]]) ELSE p[2]]
           IsJoining(f) == f = [i \in 0 .. Len(w) |->
                                  IF i = 0 THEN <<>>
                                  ELSE IF w[i].op = "DRAIN_DATA" THEN f[i - 1] \o w[i].samples
                                  ELSE f[i - 1]]
<1>1. Len(w) \in Nat /\ \A i \in 1 .. Len(w) : w[i] \in Frames
  OBVIOUS
<1>2. step \in [Nat \X S -> S]
  <2>1. ASSUME NEW p \in Nat \X S
        PROVE  (IF p[1] \in 1 .. Len(w) THEN Extend(p[2], w[p[1]]) ELSE p[2]) \in S
    <3>1. p[2] \in S
      OBVIOUS
    <3>2. p[1] \in 1 .. Len(w) => Extend(p[2], w[p[1]]) \in S
      BY <1>1, <3>1, ExtendTypes
    <3> QED
      BY <3>1, <3>2
  <2> QED
    BY <2>1
<1>3. <<>> \in S
  OBVIOUS
<1>4. \A i \in Nat, x \in S : step[<<i, x>>] = IF i \in 1 .. Len(w) THEN Extend(x, w[i]) ELSE x
  OBVIOUS
<1> HIDE DEF step, S
<1>5. PICK h : Solution(h, S, <<>>, step)
  BY <1>2, <1>3, Recursion
<1> DEFINE g == [i \in 0 .. Len(w) |-> h[i]]
<1>6. /\ h \in [Nat -> S] /\ h[0] = <<>>
      /\ \A n \in Nat : h[n + 1] = step[<<n + 1, h[n]>>]
  BY <1>5 DEF Solution
<1>7. IsJoining(g)
  <2>1. ASSUME NEW i \in 0 .. Len(w)
        PROVE  h[i] = IF i = 0 THEN <<>>
                      ELSE IF w[i].op = "DRAIN_DATA" THEN g[i - 1] \o w[i].samples
                      ELSE g[i - 1]
    <3>1. CASE i = 0
      BY <1>6, <3>1
    <3>2. CASE i # 0
      <4>1. i - 1 \in Nat /\ i - 1 + 1 = i /\ i - 1 \in 0 .. Len(w) /\ i \in Nat /\ i \in 1 .. Len(w)
        BY <3>2
      <4>2. h[i] = step[<<i, h[i - 1]>>] /\ h[i - 1] \in S
        BY <1>6, <4>1
      <4>3. h[i] = Extend(h[i - 1], w[i])
        BY <1>4, <4>1, <4>2
      <4>4. g[i - 1] = h[i - 1]
        BY <4>1
      <4> QED
        BY <3>2, <4>3, <4>4, Zenon DEF Extend
    <3> QED
      BY <3>1, <3>2
  <2> QED
    BY <2>1, Zenon
<1> DEFINE f == Joining(w)
<1>8. IsJoining(f)
  <2> HIDE DEF g
  <2> QED
    BY <1>7, Zenon DEF Joining
<1>9. Joined(w) = f[Len(w)]
  BY Zenon DEF Joined, Joining
<1> HIDE DEF f
<1>10. f[0] = <<>> /\ \A i \in 1 .. Len(w) : f[i] = Extend(f[i - 1], w[i])
  <2>1. f[0] = <<>>
    BY <1>1, <1>8
  <2>2. ASSUME NEW i \in 1 .. Len(w) PROVE f[i] = Extend(f[i - 1], w[i])
    <3>1. i \in 0 .. Len(w) /\ i # 0
      OBVIOUS
    <3> QED
      BY <1>8, <3>1 DEF Extend
  <2> QED
    BY <2>1, <2>2
<1>11. \A i \in 0 .. Len(w) : f[i] \in Seq(Samples)
  <2> DEFINE Typed == {i \in Nat : i <= Len(w) => f[i] \in Seq(Samples)}
  <2>1. 0 \in Typed
    <3>1. <<>> \in Seq(Samples)
      OBVIOUS
    <3> QED
      BY <1>10, <3>1
  <2>2. ASSUME NEW n \in Nat, n \in Typed PROVE n + 1 \in Typed
    <3> SUFFICES ASSUME n + 1 <= Len(w) PROVE f[n + 1] \in Seq(Samples)
      OBVIOUS
    <3>1. n + 1 \in 1 .. Len(w) /\ n + 1 - 1 = n /\ f[n] \in Seq(Samples)
      BY <1>1, <2>2
    <3>2. f[n + 1] = Extend(f[n], w[n + 1])
      BY <1>10, <3>1
    <3> QED
      BY <1>1, <3>1, <3>2, ExtendTypes
  <2>3. Nat \subseteq Typed
    BY <2>1, <2>2, SetInduction
  <2> QED
    BY <1>1, <2>3
<1> QED
  <2>1. Joins(f, w)
    BY <1>10, <1>11 DEF Joins
  <2> QED
    BY <1>9, <2>1 DEF f

\* Joining is a matter of the last frame.
LEMMA JoinedLaws ==
  ASSUME NEW w \in Seq(Frames)
  PROVE  /\ Joined(<<>>) = <<>> /\ Joined(w) \in Seq(Samples)
         /\ \A x \in Frames : Joined(Append(w, x)) = Extend(Joined(w), x)
<1>1. Joined(<<>>) = <<>>
  <2>1. <<>> \in Seq(Frames) /\ Len(<<>>) = 0
    OBVIOUS
  <2> QED
    BY <2>1, JoiningExists DEF Joins
<1>2. Joined(w) \in Seq(Samples)
  <2>1. Len(w) \in 0 .. Len(w)
    OBVIOUS
  <2> QED
    BY <2>1, JoiningExists DEF Joins
<1>3. ASSUME NEW x \in Frames PROVE Joined(Append(w, x)) = Extend(Joined(w), x)
  <2> DEFINE v == Append(w, x)
             f == Joining(w)
             g == Joining(v)
  <2>1. /\ v \in Seq(Frames) /\ Len(v) = Len(w) + 1 /\ Len(w) \in Nat
        /\ v[Len(w) + 1] = x /\ \A i \in 1 .. Len(w) : v[i] = w[i]
    OBVIOUS
  <2> HIDE DEF v, f, g
  <2>2. Joins(f, w) /\ Joined(w) = f[Len(w)] /\ Joins(g, v) /\ Joined(v) = g[Len(v)]
    BY <2>1, JoiningExists DEF f, g
  <2> DEFINE Same == {i \in Nat : i <= Len(w) => f[i] = g[i]}
  <2>3. 0 \in Same
    BY <2>2 DEF Joins
  <2>4. ASSUME NEW n \in Nat, n \in Same PROVE n + 1 \in Same
    <3> SUFFICES ASSUME n + 1 <= Len(w) PROVE f[n + 1] = g[n + 1]
      OBVIOUS
    <3>1. n + 1 \in 1 .. Len(w) /\ n + 1 \in 1 .. Len(v) /\ n + 1 - 1 = n /\ f[n] = g[n]
      BY <2>1, <2>4
    <3>2. f[n + 1] = Extend(f[n], w[n + 1]) /\ g[n + 1] = Extend(g[n], v[n + 1])
      BY <2>2, <3>1 DEF Joins
    <3> QED
      BY <2>1, <3>1, <3>2
  <2>5. Nat \subseteq Same
    BY <2>3, <2>4, SetInduction
  <2>6. f[Len(w)] = g[Len(w)]
    BY <2>1, <2>5
  <2>7. g[Len(v)] = Extend(g[Len(w)], x)
    <3>1. Len(v) \in 1 .. Len(v) /\ Len(v) - 1 = Len(w) /\ v[Len(v)] = x
      BY <2>1
    <3> QED
      BY <2>2, <3>1 DEF Joins
  <2> QED
    BY <2>2, <2>6, <2>7 DEF v
<1> QED
  BY <1>1, <1>2, <1>3

----------------------------------------------------------------------------
(* The drain of a run of one window. *)

\* Stored(k) is the first k samples of the buffer.
LEMMA StoredLaws ==
  ASSUME TypeOK
  PROVE  /\ Stored(0) = <<>>
         /\ \A k \in 0 .. Depth : Stored(k) \in Seq(Samples) /\ Len(Stored(k)) = k
         /\ \A k \in 0 .. Depth - 1 : Append(Stored(k), buf[k]) = Stored(k + 1)
<1>1. Depth \in Nat /\ buf \in [0 .. Depth - 1 -> Samples]
  BY DepthAssumption DEF TypeOK, Addresses, Samples
<1>2. ASSUME NEW k \in 0 .. Depth PROVE Stored(k) \in Seq(Samples) /\ Len(Stored(k)) = k
  <2>1. \A i \in 1 .. k : i - 1 \in 0 .. Depth - 1
    BY <1>1
  <2>2. \A i \in 1 .. k : buf[i - 1] \in Samples
    BY <1>1, <2>1
  <2> QED
    BY <1>1, <2>2 DEF Stored
<1>3. Stored(0) = <<>>
  <2>1. Stored(0) \in Seq(Samples) /\ Len(Stored(0)) = 0
    BY <1>1, <1>2
  <2> QED
    BY <2>1
<1>4. ASSUME NEW k \in 0 .. Depth - 1 PROVE Append(Stored(k), buf[k]) = Stored(k + 1)
  <2> DEFINE s == Stored(k)
             t == Stored(k + 1)
             x == buf[k]
  <2>1. /\ s \in Seq(Samples) /\ Len(s) = k /\ t \in Seq(Samples) /\ Len(t) = k + 1
        /\ x \in Samples /\ k \in Nat
    BY <1>1, <1>2
  <2>2. (\A i \in 1 .. k : s[i] = buf[i - 1]) /\ \A i \in 1 .. k + 1 : t[i] = buf[i - 1]
    BY <2>1 DEF Stored
  <2>3. t[k + 1] = x /\ \A i \in 1 .. k : t[i] = s[i]
    BY <2>1, <2>2
  <2> HIDE DEF s, t, x
  <2>4. Append(s, x) = t
    <3>1. /\ Append(s, x) \in Seq(Samples) /\ Len(Append(s, x)) = k + 1
          /\ Append(s, x)[k + 1] = x /\ \A i \in 1 .. k : Append(s, x)[i] = s[i]
      BY <2>1
    <3>2. \A i \in 1 .. k + 1 : Append(s, x)[i] = t[i]
      BY <2>1, <2>3, <3>1
    <3> QED
      BY <2>1, <3>1, <3>2, SeqEqual
  <2> QED
    BY <2>4 DEF s, t, x
<1> QED
  BY <1>2, <1>3, <1>4

\* DRAIN_DATA frames divide the buffer.
LEMMA FramesDivide ==
  ASSUME NEW n \in Nat, (n + 1) * Spf < Depth
  PROVE  (n + 1) * Spf + Spf <= Depth
<1>1. \A d, s \in Nat : s # 0 /\ d % s = 0 => d \div s \in Nat /\ d = (d \div s) * s
  BY Z3
<1>2. PICK q \in Nat : Depth = q * Spf
  <2>1. Depth \in Nat /\ Spf \in Nat /\ Spf # 0 /\ Depth % Spf = 0
    BY SpfAssumption, DepthAssumption
  <2>2. Depth \div Spf \in Nat /\ Depth = (Depth \div Spf) * Spf
    BY <1>1, <2>1, Zenon
  <2> QED
    BY <2>2, Zenon
<1>3. \A m, s, k \in Nat : (m + 1) * s < k * s => (m + 1) * s + s <= k * s
  BY Z3
<1> QED
  BY <1>2, <1>3, SpfAssumption, DepthAssumption

\* A frame that arrives is received after all others.
LEMMA ReceivedNext ==
  ASSUME HostTypeOK, NEW frame \in Frames, Emit(frame), lost' = 0, got' = got
  PROVE  /\ Received \in Seq(Frames) /\ Received' = Append(Received, frame)
         /\ Received' \in Seq(Frames) /\ Received' # <<>>
         /\ Received # <<>> => Received'[1] = Received[1]
         /\ Received = <<>> => Received'[1] = frame
<1>1. rx' = Append(rx, frame) /\ rx \in Seq(Frames) /\ got \in Seq(Frames)
  BY Sent DEF HostTypeOK
<1>2. Received \in Seq(Frames)
  BY <1>1, ConcatProperties DEF Received
<1>3. got \o Append(rx, frame) = Append(got \o rx, frame)
  <2>1. <<frame>> \in Seq(Frames) /\ got \o rx \in Seq(Frames)
    BY <1>1, ConcatProperties
  <2>2. Append(rx, frame) = rx \o <<frame>> /\ Append(got \o rx, frame) = (got \o rx) \o <<frame>>
    BY <1>1, <2>1, AppendIsConcat
  <2>3. got \o (rx \o <<frame>>) = (got \o rx) \o <<frame>>
    BY <1>1, <2>1, ConcatAssociative
  <2> QED
    BY <2>2, <2>3
<1>4. Received' = Append(Received, frame)
  BY <1>1, <1>3 DEF Received
<1> DEFINE r == Received
           q == Received'
<1>5. r \in Seq(Frames) /\ q = Append(r, frame)
  BY <1>2, <1>4
<1> HIDE DEF r, q
<1>6. /\ q \in Seq(Frames) /\ q # <<>>
      /\ r # <<>> => q[1] = r[1]
      /\ r = <<>> => q[1] = frame
  BY <1>5
<1> QED
  BY <1>2, <1>4, <1>6 DEF r, q

\* One sample more, or a frame of them.
LEMMA DataStep ==
  ASSUME TypeOK, HostTypeOK, DrainData, DataFlow, lost' = 0
  PROVE  (DataFlow \/ DataSent)'
<1>1. PICK s \in Seq(Samples), n \in Nat : engine = [pc |-> "data", samples |-> s, sent |-> n]
  BY EngineShapes DEF DrainData, HostTypeOK, Engines
<1>2. PICK x \in Samples : x = buf[drainAddr]
  BY DEF TypeOK, HostTypeOK, Samples
<1>3. PICK l \in Seq(Samples) : l = Append(s, x) /\ Len(l) = Len(s) + 1 /\ Len(s) \in Nat
  <2>1. Append(s, x) \in Seq(Samples) /\ Len(Append(s, x)) = Len(s) + 1 /\ Len(s) \in Nat
    OBVIOUS
  <2> QED
    BY <2>1, Zenon
<1>4. PICK m \in Nat : /\ m = n * Spf /\ (n + 1) * Spf = m + Spf
                       /\ Spf \in Nat /\ Spf # 0 /\ Depth \in Nat
  <2>1. \A i, j \in Nat : i * j \in Nat /\ (i + 1) * j = i * j + j
    BY Z3
  <2>2. Spf \in Nat /\ Spf # 0 /\ Depth \in Nat
    BY SpfAssumption, DepthAssumption
  <2> QED
    BY <2>1, <2>2
<1>5. /\ engine.pc = "data" /\ engine.samples = s /\ engine.sent = n
      /\ m + Spf <= Depth /\ Len(s) < Spf /\ drainAddr = m + Len(s)
      /\ Received # <<>> /\ Received[1] = HeaderFrame /\ requests = <<>>
      /\ Joined(Received) = Stored(m) /\ Joined(Received) \o s = Stored(drainAddr)
  BY <1>1, <1>4 DEF DataFlow
<1>6. /\ drainAddr' = (drainAddr + 1) % Depth /\ requests' = requests /\ got' = got
      /\ buf' = buf /\ HeaderFrame' = HeaderFrame
  BY DEF DrainData, Pop, HeaderFrame, vars, host
<1>7. \A k : Stored(k) = [i \in 1 .. k |-> buf'[i - 1]]
  BY <1>6 DEF Stored
<1>8. Received \in Seq(Frames) /\ Joined(Received) \in Seq(Samples)
  <2>1. Received \in Seq(Frames)
    BY ConcatProperties DEF HostTypeOK, Received
  <2> QED
    BY <2>1, JoinedLaws
<1>9. /\ IF Len(l) < Spf
         THEN engine' = [engine EXCEPT !.samples = l] /\ UNCHANGED rx
         ELSE /\ Emit([op |-> "DRAIN_DATA", chunk |-> n, samples |-> l])
              /\ engine' = IF (n + 1) * Spf >= Depth THEN [pc |-> "idle"]
                           ELSE [pc |-> "data", samples |-> <<>>, sent |-> n + 1]
  BY <1>2, <1>3, <1>5 DEF DrainData
<1>10. Joined(Received) \o l = Stored(drainAddr + 1)
  <2>1. drainAddr \in 0 .. Depth - 1
    BY <1>3, <1>4, <1>5
  <2>2. Append(Stored(drainAddr), x) = Stored(drainAddr + 1)
    BY <1>2, <2>1, StoredLaws
  <2>3. <<x>> \in Seq(Samples) /\ Joined(Received) \o s \in Seq(Samples)
    BY <1>8, ConcatProperties
  <2>4. l = s \o <<x>>
    BY <1>3, AppendIsConcat
  <2>5. Append(Joined(Received) \o s, x) = (Joined(Received) \o s) \o <<x>>
    BY <1>2, <2>3, AppendIsConcat
  <2>6. Joined(Received) \o (s \o <<x>>) = (Joined(Received) \o s) \o <<x>>
    BY <1>8, <2>3, ConcatAssociative
  <2> QED
    BY <1>5, <2>2, <2>4, <2>5, <2>6
<1>11. CASE Len(l) < Spf
  <2>1. engine' = [pc |-> "data", samples |-> l, sent |-> n] /\ rx' = rx
    BY <1>1, <1>9, <1>11
  <2>2. Received' = Received
    BY <1>6, <2>1 DEF Received
  <2>3. drainAddr' = drainAddr + 1
    <3>1. drainAddr + 1 < Depth /\ drainAddr + 1 \in Nat
      BY <1>3, <1>4, <1>5, <1>11
    <3> QED
      BY <1>4, <1>6, <3>1
  <2>4. drainAddr' = m + Len(l)
    BY <1>3, <1>4, <1>5, <2>3
  <2>5. engine'.pc = "data" /\ engine'.sent = n /\ engine'.samples = l
    BY <2>1
  <2>6. /\ Joined(Received') = [i \in 1 .. m |-> buf'[i - 1]]
        /\ Joined(Received') \o l = [i \in 1 .. drainAddr' |-> buf'[i - 1]]
    BY <1>5, <1>7, <1>10, <2>2, <2>3
  <2>7. DataFlow'
    BY <1>4, <1>5, <1>6, <1>11, <2>2, <2>4, <2>5, <2>6 DEF DataFlow, Stored
  <2> QED
    BY <2>7
<1>12. CASE ~(Len(l) < Spf)
  <2> DEFINE F == [op |-> "DRAIN_DATA", chunk |-> n, samples |-> l]
  <2>1. F \in Frames /\ F.op = "DRAIN_DATA" /\ F.samples = l
    BY DEF Frames
  <2>2. /\ Emit(F)
        /\ engine' = IF m + Spf >= Depth THEN [pc |-> "idle"]
                     ELSE [pc |-> "data", samples |-> <<>>, sent |-> n + 1]
    BY <1>4, <1>9, <1>12
  <2> HIDE DEF F
  <2>3. Received' = Append(Received, F) /\ Received' # <<>> /\ Received'[1] = HeaderFrame
    BY <1>5, <1>6, <2>1, <2>2, ReceivedNext
  <2>4. drainAddr + 1 = m + Spf
    <3>1. Len(s) + 1 = Spf
      <4>1. Len(l) = Len(s) + 1 /\ Len(s) \in Nat /\ Len(s) < Spf /\ ~(Len(l) < Spf) /\ Spf \in Nat
        BY <1>3, <1>4, <1>5, <1>12
      <4> QED
        BY ONLY <4>1
    <3> QED
      BY <1>3, <1>4, <1>5, <3>1
  <2>5. Joined(Received') = Stored(m + Spf)
    <3>1. Joined(Received') = Extend(Joined(Received), F)
      BY <1>8, <2>1, <2>3, JoinedLaws
    <3> QED
      BY <1>10, <2>1, <2>4, <3>1 DEF Extend
  <2>6. CASE m + Spf >= Depth
    <3>1. m + Spf = Depth /\ engine' = [pc |-> "idle"]
      BY <1>4, <1>5, <2>2, <2>6
    <3>2. Joined(Received') = [i \in 1 .. Depth |-> buf'[i - 1]]
      BY <1>7, <2>5, <3>1
    <3>3. DataSent'
      BY <1>5, <1>6, <2>3, <3>1, <3>2 DEF DataSent, Stored
    <3> QED
      BY <3>3
  <2>7. CASE ~(m + Spf >= Depth)
    <3>1. engine' = [pc |-> "data", samples |-> <<>>, sent |-> n + 1]
      BY <2>2, <2>7
    <3>2. engine'.pc = "data" /\ engine'.sent = n + 1 /\ engine'.samples = <<>>
      BY <3>1
    <3>3. (n + 1) * Spf = m + Spf /\ m + Spf + Spf <= Depth
      <4>1. (n + 1) * Spf < Depth
        BY <1>4, <2>7
      <4>2. (n + 1) * Spf + Spf <= Depth
        BY <4>1, FramesDivide
      <4> QED
        BY <1>4, <4>2
    <3>4. drainAddr' = m + Spf
      BY <1>4, <1>6, <2>4, <2>7
    <3>5. Joined(Received') \in Seq(Samples)
      <4>1. Stored(m + Spf) \in Seq(Samples)
        <5>1. m + Spf \in 0 .. Depth
          BY <1>4, <1>5
        <5> QED
          BY <5>1, StoredLaws
      <4> QED
        BY <2>5, <4>1
    <3>6. /\ Joined(Received') = [i \in 1 .. m + Spf |-> buf'[i - 1]]
          /\ Joined(Received') \o <<>> = Joined(Received')
      BY <1>7, <2>5, <3>5, ConcatEmptySeq
    <3>7. DataFlow'
      <4>1. engine'.sent * Spf = m + Spf /\ Len(engine'.samples) = 0
        BY <3>2, <3>3
      <4>2. /\ engine'.sent * Spf + Spf <= Depth /\ Len(engine'.samples) < Spf
            /\ drainAddr' = engine'.sent * Spf + Len(engine'.samples)
        BY <1>4, <3>3, <3>4, <4>1
      <4>3. /\ Joined(Received') = [i \in 1 .. engine'.sent * Spf |-> buf'[i - 1]]
            /\ Joined(Received') \o engine'.samples = [i \in 1 .. drainAddr' |-> buf'[i - 1]]
        BY <3>2, <3>4, <3>6, <4>1
      <4> QED
        BY <1>5, <1>6, <2>3, <3>2, <4>2, <4>3 DEF DataFlow, Stored
    <3> QED
      BY <3>7
  <2> QED
    BY <2>6, <2>7
<1> QED
  BY <1>11, <1>12

\* The device takes a drain on, or leaves it where it is.
LEMMA DrainTaken ==
  ASSUME TypeOK, HostTypeOK, Engine, ~ExecWrite, Draining, lost' = 0,
         Tail(requests) = <<>> \/ requests = <<>>,
         DrainAsked \/ DrainBegun \/ DataFlow \/ DataSent, Draining'
  PROVE  (DrainAsked \/ DrainBegun \/ DataFlow \/ DataSent)'
<1>1. UNCHANGED vars
  BY DEF Engine, Accept, ExecRead, AnswerWrite, DrainStatus, DrainIndex, DrainHeader, DrainData
<1>2. UNCHANGED <<got, wrapped, trigIndex, tsAtTrig, buf>>
  BY <1>1 DEF Engine, Accept, ExecRead, ExecWrite, AnswerWrite, DrainStatus, DrainIndex,
     DrainHeader, DrainData, host, vars
<1>3. CASE Accept
  <2>1. DrainAsked
    BY <1>3 DEF Accept, DrainBegun, DataFlow, DataSent
  <2>2. Head(requests) = Request(Call) /\ Request(Call).op = "DRAIN"
    <3>1. Request(Call).op = "DRAIN"
      BY DEF Draining, Request
    <3>2. Head(requests) = requests[1]
      BY DEF HostTypeOK
    <3> QED
      BY <2>1, <3>1, <3>2 DEF DrainAsked
  <2>3. engine'.pc = "DRAIN" /\ rx' = rx /\ requests' = <<>>
    <3>1. engine' = [pc |-> "DRAIN", req |-> Head(requests)] /\ rx' = rx /\ requests' = Tail(requests)
      BY <1>3, <2>2 DEF Accept
    <3>2. requests # <<>>
      BY <1>3 DEF Accept
    <3> QED
      BY <3>1, <3>2
  <2>4. Received' = <<>>
    BY <1>2, <2>1, <2>3 DEF DrainAsked, Received
  <2>5. DrainBegun'
    BY <2>3, <2>4 DEF DrainBegun
  <2> QED
    BY <2>5
<1>4. CASE DrainStatus
  <2>1. DrainBegun
    BY <1>4 DEF DrainStatus, DrainAsked, DataFlow, DataSent
  <2>2. engine' = [pc |-> "index", wrapped |-> wrapped] /\ UNCHANGED <<requests, rx>>
    BY <1>4 DEF DrainStatus, link
  <2>3. Received' = <<>>
    BY <1>2, <2>1, <2>2 DEF DrainBegun, Received
  <2>4. DrainBegun'
    BY <1>2, <2>1, <2>2, <2>3 DEF DrainBegun
  <2> QED
    BY <2>4
<1>5. CASE DrainIndex
  <2>1. DrainBegun /\ engine.pc = "index"
    BY <1>5 DEF DrainIndex, DrainAsked, DataFlow, DataSent
  <2>2. /\ engine' = [pc |-> "stamp", wrapped |-> engine.wrapped, index |-> trigIndex]
        /\ UNCHANGED <<requests, rx>>
    BY <1>5 DEF DrainIndex, link
  <2>3. Received' = <<>>
    BY <1>2, <2>1, <2>2 DEF DrainBegun, Received
  <2>4. DrainBegun'
    BY <1>2, <2>1, <2>2, <2>3 DEF DrainBegun
  <2> QED
    BY <2>4
<1>6. CASE DrainHeader
  <2>1. DrainBegun /\ engine.pc = "stamp"
    BY <1>6 DEF DrainHeader, DrainAsked, DataFlow, DataSent
  <2>2. /\ Emit(HeaderFrame) /\ drainAddr' = 0 /\ requests' = <<>>
        /\ engine' = [pc |-> "data", samples |-> <<>>, sent |-> 0]
    BY <1>6, <2>1 DEF DrainHeader, DrainBegun, HeaderFrame
  <2>3. HeaderFrame \in Frames /\ HeaderFrame.op = "DRAIN" /\ HeaderFrame' = HeaderFrame
    BY <1>2 DEF HeaderFrame, Frames, TypeOK
  <2>4. Received = <<>>
    BY <2>1 DEF DrainBegun
  <2>5. /\ Received' = Append(<<>>, HeaderFrame) /\ Received' # <<>>
        /\ Received'[1] = HeaderFrame'
    BY <1>2, <2>2, <2>3, <2>4, ReceivedNext
  <2>6. Joined(Received') = <<>>
    <3>1. <<>> \in Seq(Frames)
      OBVIOUS
    <3>2. Joined(<<>>) = <<>> /\ Joined(Append(<<>>, HeaderFrame)) = Extend(Joined(<<>>), HeaderFrame)
      BY <2>3, <3>1, JoinedLaws
    <3> QED
      BY <2>3, <2>5, <3>2 DEF Extend
  <2>7. [i \in 1 .. 0 |-> buf'[i - 1]] = <<>>
    BY <1>2, StoredLaws DEF Stored
  <2>8. /\ engine'.sent = 0 /\ engine'.samples = <<>> /\ Len(<<>>) = 0 /\ 0 * Spf = 0
        /\ 0 + Spf <= Depth /\ 0 < Spf /\ 0 + 0 = 0
    BY <2>2, SpfAssumption, DepthAssumption
  <2>9. /\ engine'.sent * Spf + Spf <= Depth /\ Len(engine'.samples) < Spf
        /\ drainAddr' = engine'.sent * Spf + Len(engine'.samples)
    BY <2>2, <2>8
  <2>10. /\ Joined(Received') = [i \in 1 .. engine'.sent * Spf |-> buf'[i - 1]]
         /\ Joined(Received') \o engine'.samples = [i \in 1 .. drainAddr' |-> buf'[i - 1]]
    BY <2>2, <2>6, <2>7, <2>8
  <2>11. engine'.pc = "data"
    BY <2>2
  <2>12. DataFlow'
    BY <2>2, <2>5, <2>9, <2>10, <2>11 DEF DataFlow, Stored
  <2> QED
    BY <2>12
<1>7. CASE DrainData
  <2>1. DataFlow
    BY <1>7 DEF DrainData, DrainAsked, DrainBegun, DataSent
  <2> QED
    BY <1>7, <2>1, DataStep
<1>8. CASE ExecRead \/ AnswerWrite
  BY <1>8 DEF ExecRead, AnswerWrite, DrainAsked, DrainBegun, DataFlow, DataSent
<1> QED
  BY <1>3, <1>4, <1>5, <1>6, <1>7, <1>8 DEF Engine

\* Every step keeps a drain on its way.
LEMMA DrainStep ==
  ASSUME IInv, HostTypeOK, HostTypeOK', LoadInv, CallInv, DoneInv, DrainInv,
         [HostNext]_hostVars
  PROVE  DrainInv'
<1> DEFINE OnWay == DrainAsked \/ DrainBegun \/ DataFlow \/ DataSent
<1> SUFFICES ASSUME Prompt', outcome'.kind = "done", weff' = 1, Draining'
             PROVE  OnWay'
  BY DEF DrainInv
<1>1. Prompt /\ lost' = 0 /\ late' = 0 /\ TypeOK
  BY BlemishesStay DEF Prompt, IInv
<1>2. CASE Clock \/ UNCHANGED hostVars
  <2>1. /\ outcome' = outcome /\ Draining /\ Call' = Call
        /\ Request(Call)' = Request(Call) /\ got' = got
    BY <1>2, DeviceStep
  <2>2. Standing
    BY <2>1 DEF Draining, Standing
  <2>3. weff = 1
    BY <1>2, QuietCore DEF Clock, hostVars, vars, run
  <2>4. st = "DONE" /\ OnWay
    BY <1>1, <2>1, <2>2, <2>3, Zenon DEF DoneInv, DrainInv
  <2>5. UNCHANGED vars
    BY <1>2, <2>3, <2>4, AtRest DEF Clock, hostVars
  <2>6. UNCHANGED <<wrapped, trigIndex, tsAtTrig, buf, requests, rx, engine, drainAddr, got>>
    BY <1>2, <2>1, <2>5 DEF Clock, hostVars, device, link, vars
  <2>7. Received' = Received /\ HeaderFrame' = HeaderFrame
    BY <2>6 DEF Received, HeaderFrame
  <2>8. CASE DrainAsked
    BY <2>1, <2>6, <2>7, <2>8 DEF DrainAsked
  <2>9. CASE DrainBegun
    BY <2>6, <2>7, <2>9 DEF DrainBegun
  <2>10. CASE DataFlow
    BY <2>6, <2>7, <2>10 DEF DataFlow, Stored
  <2>11. CASE DataSent
    BY <2>6, <2>7, <2>11 DEF DataSent, Stored
  <2> QED
    BY <2>4, <2>8, <2>9, <2>10, <2>11
<1>3. CASE Engine
  <2>1. outcome' = outcome /\ Draining
    BY <1>3, DeviceStep
  <2>2. ~ExecWrite
    <3>1. engine.pc = "WRITE_CSR" => Call.call = "write"
      BY <1>1, InStep
    <3> QED
      BY <2>1, <3>1 DEF ExecWrite, Draining
  <2>3. weff = 1
    BY <1>3, <2>2 DEF Engine, Accept, ExecRead, AnswerWrite, DrainStatus, DrainIndex,
       DrainHeader, DrainData, vars, run
  <2>4. OnWay
    BY <1>1, <2>1, <2>3, Zenon DEF DrainInv
  <2>5. Tail(requests) = <<>> \/ requests = <<>>
    BY <1>1, InStep
  <2> QED
    BY <1>1, <1>3, <2>1, <2>2, <2>4, <2>5, DrainTaken
<1>4. CASE Spoil
  BY <1>1, <1>4 DEF Spoil, Prompt
<1>5. CASE Send
  <2>1. ~awaits /\ requests' = Append(requests, Request(Call)) /\ Call' = Call
        /\ UNCHANGED <<engine, rx, got>>
    BY <1>5 DEF Send, Call, device
  <2>2. requests = <<>> /\ engine.pc = "idle" /\ rx = <<>> /\ got = <<>>
    <3>1. ~Draining
      BY <2>1 DEF Draining
    <3> QED
      BY <1>1, <2>1, <3>1, InStep DEF CallInv
  <2>3. requests' = <<Request(Call)>> /\ Request(Call)' = Request(Call) /\ Received' = <<>>
    BY <2>1, <2>2 DEF Received, Request
  <2>4. DrainAsked'
    BY <2>1, <2>2, <2>3 DEF DrainAsked
  <2> QED
    BY <2>4
<1>6. CASE DrainRead
  <2>1. /\ UNCHANGED <<vars, outcome, awaits, todo, requests, engine, drainAddr>>
        /\ got' = got \o rx /\ rx' = <<>>
    BY <1>6 DEF DrainRead, device
  <2>2. UNCHANGED <<wrapped, trigIndex, tsAtTrig, buf, weff>> /\ Call' = Call /\ Draining
    BY <1>6, <2>1 DEF vars, Call, Draining, DrainRead, run
  <2>3. OnWay
    BY <1>1, <2>1, <2>2, Zenon DEF DrainInv
  <2>4. Received' = Received /\ HeaderFrame' = HeaderFrame /\ Request(Call)' = Request(Call)
    <3>1. got \o rx \in Seq(Frames)
      BY ConcatProperties DEF HostTypeOK
    <3>2. (got \o rx) \o <<>> = got \o rx
      BY <3>1, ConcatEmptySeq
    <3> QED
      BY <2>1, <2>2, <3>2 DEF Received, HeaderFrame, Request
  <2>5. rx # <<>>
    BY <1>6 DEF DrainRead
  <2>6. CASE DrainAsked
    BY <2>1, <2>2, <2>4, <2>6 DEF DrainAsked
  <2>7. CASE DrainBegun
    BY <2>1, <2>2, <2>4, <2>7 DEF DrainBegun
  <2>8. CASE DataFlow
    BY <2>1, <2>2, <2>4, <2>8 DEF DataFlow, Stored
  <2>9. CASE DataSent
    BY <2>1, <2>2, <2>4, <2>9 DEF DataSent, Stored
  <2> QED
    BY <2>3, <2>6, <2>7, <2>8, <2>9
<1>7. CASE RecvTimeout \/ DrainEnd \/ \E c \in Commands : Start(c)
  <2>1. awaits' = FALSE
    BY <1>7 DEF RecvTimeout, DrainEnd, Start, Raise, Return
  <2> QED
    BY <2>1 DEF Draining
<1>8. CASE Recv
  <2>1. awaits' = FALSE
    BY <1>8, RecvShape
  <2> QED
    BY <2>1 DEF Draining
<1> QED
  BY <1>2, <1>3, <1>4, <1>5, <1>6, <1>7, <1>8 DEF HostNext, HostStep

----------------------------------------------------------------------------
(* What the drain returns. *)

\* A sample number and the next, modulo their range.
LEMMA NextStamp ==
  ASSUME NEW n \in Nat, n > 0, NEW y \in Nat, y + 1 < 3 * n
  PROVE  (y + 1) % n = Ahead(y % n, 1, n)
<1>1. /\ y % n = IF y < n THEN y ELSE IF y < 2 * n THEN y - n ELSE y - 2 * n
      /\ (y + 1) % n = IF y + 1 < n THEN y + 1
                       ELSE IF y + 1 < 2 * n THEN y + 1 - n ELSE y + 1 - 2 * n
  BY ThreeLaps
<1> QED
  BY <1>1 DEF Ahead

\* decode_drain of a drain that is complete.
LEMMA DecodesWindow ==
  ASSUME TypeOK, HostTypeOK, rx = <<>>, DataSent, NEW pre
  PROVE  DecodeDrain(got, pre)
           = [kind |-> "capture", n |-> Depth, stamp |-> tsAtTrig, matched |-> Matches(pre),
              samples |-> Ordered(buf, Depth, trigIndex, wrapped, pre),
              trigPos |-> TrigPos(trigIndex, wrapped, pre)]
<1> USE DepthAssumption
<1>1. Received = got /\ got \in Seq(Frames)
  <2>1. got \in Seq(Frames)
    BY DEF HostTypeOK
  <2> QED
    BY <2>1, ConcatEmptySeq DEF Received
<1>2. got # <<>> /\ got[1] = HeaderFrame /\ Joined(got) = Stored(Depth)
  BY <1>1 DEF DataSent
<1>3. got[1].op = "DRAIN" /\ got[1].stamp = tsAtTrig /\ got[1].index = trigIndex
      /\ got[1].wrapped = wrapped
  BY <1>2 DEF HeaderFrame
<1> DEFINE First(i) == got[i].op = "DRAIN" /\ \A j \in 1 .. i - 1 : got[j].op # "DRAIN"
           c == CHOOSE i \in DOMAIN got : First(i)
<1>4. c = 1
  <2>1. 1 \in DOMAIN got /\ DOMAIN got \subseteq Nat \ {0}
    BY <1>1, <1>2
  <2>2. First(1)
    BY <1>3
  <2>3. ASSUME NEW i \in DOMAIN got, First(i) PROVE i = 1
    <3>1. SUFFICES ASSUME i # 1 PROVE FALSE
      OBVIOUS
    <3>2. 1 \in 1 .. i - 1
      BY <2>1, <3>1
    <3> QED
      BY <1>3, <2>3, <3>2
  <2> HIDE DEF First
  <2> QED
    BY <2>1, <2>2, <2>3
<1>5. got[CHOOSE i \in DOMAIN got : /\ got[i].op = "DRAIN"
                                     /\ \A j \in 1 .. i - 1 : got[j].op # "DRAIN"] = got[1]
  BY <1>4
<1>6. Len(Joined(got)) = Depth /\ Depth # 0
  BY <1>2, StoredLaws
<1>7. [a \in 0 .. Depth - 1 |-> Joined(got)[a + 1]] = buf
  <2>1. ASSUME NEW a \in 0 .. Depth - 1 PROVE Joined(got)[a + 1] = buf[a]
    <3>1. a + 1 \in 1 .. Depth /\ a + 1 - 1 = a
      OBVIOUS
    <3>2. Stored(Depth)[a + 1] = buf[a + 1 - 1]
      BY <3>1 DEF Stored
    <3> QED
      BY <1>2, <3>1, <3>2
  <2>2. buf = [a \in 0 .. Depth - 1 |-> buf[a]]
    BY DEF TypeOK, Addresses
  <2> QED
    BY <2>1, <2>2
<1> HIDE DEF c
<1> QED
  BY <1>3, <1>5, <1>6, <1>7, Zenon DEF DecodeDrain

\* Every step keeps a capture that could be relied on reliable.
LEMMA CaptureKept ==
  ASSUME IInv, HostTypeOK, HostTypeOK', LoadInv, CallInv, DoneInv, DrainInv, CaptureFaithful,
         [HostNext]_hostVars
  PROVE  CaptureFaithful'
<1> SUFFICES ASSUME Captured', outcome'.matched, lost' = 0, late' = 0
             PROVE  SamplesTimeOrdered' /\ TrigPosMarksTrigger'
  BY Zenon DEF CaptureFaithful
<1>1. lost = 0 /\ late = 0 /\ Prompt /\ TypeOK
  BY BlemishesStay DEF Prompt, IInv
<1>2. CASE outcome' = outcome
  BY <1>1, <1>2 DEF CaptureFaithful, Captured, SamplesTimeOrdered, TrigPosMarksTrigger
<1>3. CASE DrainEnd /\ \E i \in DOMAIN got : got[i].op = "DRAIN"
  <2> DEFINE pre == Head(todo).pre
  <2>1. Quiet /\ rx = <<>> /\ Draining /\ outcome' = DecodeDrain(got, pre)
    BY <1>1, <1>3 DEF DrainEnd, Patience, Return, Draining, Call
  <2> HIDE DEF pre
  <2>2. Matches(pre)
    <3>1. outcome'.matched = Matches(pre)
      BY <2>1 DEF DecodeDrain
    <3> QED
      BY <3>1, Zenon
  <2>3. outcome.kind = "done" /\ weff = 1 /\ pre = runPre
    BY <2>2 DEF Matches
  <2>4. DataSent
    <3>1. DrainAsked \/ DrainBegun \/ DataFlow \/ DataSent
      BY <1>1, <2>1, <2>3, Zenon DEF DrainInv
    <3>2. requests = <<>> /\ engine.pc = "idle"
      BY <2>1 DEF Quiet
    <3> QED
      BY <3>1, <3>2 DEF DrainAsked, DrainBegun, DataFlow
  <2>5. st = "DONE"
    BY <1>1, <2>1, <2>3 DEF DoneInv, Standing, Draining
  <2>6. /\ wrapped /\ runPre \in 0 .. Depth - 1
        /\ \A i \in 0 .. Depth - 1 :
             Ordered(buf, Depth, trigIndex, wrapped, runPre)[i]
               = (tsAtTrig + StampLimit - runPre + i) % StampLimit
    BY <2>3, <2>5, WindowOfOne
  <2> DEFINE o == Ordered(buf, Depth, trigIndex, wrapped, runPre)
             z == tsAtTrig + StampLimit - runPre
  <2>7. /\ outcome'.n = Depth /\ outcome'.samples = o /\ outcome'.stamp = tsAtTrig
        /\ outcome'.trigPos = runPre
    <3>1. outcome' = [kind |-> "capture", n |-> Depth, stamp |-> tsAtTrig, matched |-> Matches(pre),
                      samples |-> Ordered(buf, Depth, trigIndex, wrapped, pre),
                      trigPos |-> TrigPos(trigIndex, wrapped, pre)]
      BY <1>1, <2>1, <2>4, DecodesWindow
    <3> QED
      BY <2>3, <2>6, <3>1 DEF TrigPos
  <2> HIDE DEF o
  <2>8. /\ z \in Nat /\ z <= 2 * StampLimit /\ tsAtTrig \in 0 .. StampLimit - 1
        /\ StampLimit \in Nat /\ StampLimit > Depth /\ Depth \in Nat
    BY <1>1, <2>6, DepthAssumption, StampAssumption DEF TypeOK, Stamps
  <2>9. \A i \in 0 .. Depth - 1 : o[i] = (z + i) % StampLimit
    BY <2>6 DEF o
  <2>10. z + runPre = tsAtTrig + StampLimit
    BY <2>6, <2>8
  <2> HIDE DEF z
  <2>11. ASSUME NEW i \in 1 .. Depth - 1 PROVE o[i] = Ahead(o[i - 1], 1, StampLimit)
    <3>1. i - 1 \in 0 .. Depth - 1 /\ i \in 0 .. Depth - 1
      BY <2>8
    <3> DEFINE y == z + (i - 1)
    <3>2. y \in Nat /\ y + 1 = z + i /\ y + 1 < 3 * StampLimit /\ StampLimit > 0
      BY <2>8
    <3>3. o[i - 1] = y % StampLimit /\ o[i] = (z + i) % StampLimit
      BY <2>9, <3>1
    <3> HIDE DEF y
    <3>4. (y + 1) % StampLimit = Ahead(y % StampLimit, 1, StampLimit)
      BY <2>8, <3>2, NextStamp
    <3> QED
      BY <3>2, <3>3, <3>4
  <2>12. o[runPre] = tsAtTrig
    <3>1. o[runPre] = (tsAtTrig + StampLimit) % StampLimit
      BY <2>6, <2>9, <2>10
    <3>2. \A a, n \in Nat : a < n => (a + n) % n = a
      BY Z3
    <3>3. tsAtTrig \in Nat /\ tsAtTrig < StampLimit /\ StampLimit \in Nat
      BY <2>8
    <3> QED
      BY <3>1, <3>2, <3>3
  <2>13. SamplesTimeOrdered'
    BY <2>7, <2>11 DEF SamplesTimeOrdered
  <2>14. TrigPosMarksTrigger'
    <3>1. runPre < Depth
      BY <2>6, <2>8
    <3> QED
      BY <2>7, <2>12, <3>1 DEF TrigPosMarksTrigger
  <2> QED
    BY <2>13, <2>14
<1>4. CASE DrainEnd /\ ~\E i \in DOMAIN got : got[i].op = "DRAIN"
  BY <1>4 DEF DrainEnd, Raise, Captured
<1>5. CASE Recv
  BY <1>2, <1>5, RecvShape DEF None, Captured
<1>6. CASE RecvTimeout \/ \E c \in Commands : Start(c)
  BY <1>6 DEF RecvTimeout, Raise, Start, None, Captured
<1>7. CASE Clock \/ Engine \/ Spoil \/ Send \/ DrainRead \/ UNCHANGED hostVars
  <2>1. outcome' = outcome
    BY <1>7, DeviceStep DEF Spoil, Send, DrainRead, host
  <2> QED
    BY <1>2, <2>1
<1>8. \/ Clock \/ Engine \/ Spoil \/ Send \/ Recv \/ RecvTimeout \/ DrainRead \/ DrainEnd
      \/ (\E c \in Commands : Start(c)) \/ UNCHANGED hostVars
  BY DEF HostNext, HostStep
<1> QED
  BY <1>3, <1>4, <1>5, <1>6, <1>7, <1>8

----------------------------------------------------------------------------
(* The theorems. *)

\* At power-up nothing is on its way and nothing was said.
LEMMA HostInvInit == HostInit => IInv /\ HostIInv
<1> SUFFICES ASSUME HostInit PROVE IInv /\ HostIInv
  OBVIOUS
<1>1. IInv /\ HostTypeOK
  BY InitIInv, HostTypeInit DEF HostInit
<1>2. /\ engine = [pc |-> "idle"] /\ requests = <<>> /\ rx = <<>> /\ lost = 0
      /\ todo = <<>> /\ awaits = FALSE /\ got = <<>> /\ outcome = None
      /\ late = 0 /\ abandoned = FALSE /\ st = "IDLE"
      /\ asked = [reg \in Registers |-> NoSample]
  BY DEF HostInit, Init
<1>3. engine.pc = "idle" /\ outcome.kind = "none" /\ ~Draining /\ Len(requests) = 0 /\ Len(rx) = 0
  BY <1>2 DEF None, Draining
<1>4. Load = 0
  BY <1>3 DEF Load
<1>5. LoadInv
  BY <1>2, <1>3, <1>4 DEF LoadInv, RegisterTraffic
<1>6. OldDoneInv
  BY <1>2, <1>3 DEF OldDoneInv, ReadAhead
<1>7. ToldInv /\ DoneInv /\ DrainInv /\ CaptureFaithful
  BY <1>3 DEF ToldInv, DoneInv, DrainInv, CaptureFaithful, Captured
<1>8. CallInv /\ AnswerInv
  BY <1>2, <1>3 DEF CallInv, AnswerInv
<1>9. ConfigInv
  BY <1>2, <1>3 DEF ConfigInv
<1> QED
  BY <1>1, <1>5, <1>6, <1>7, <1>8, <1>9 DEF HostIInv

\* Every step keeps the invariants of core and host.
LEMMA HostInvStep ==
  ASSUME IInv, HostIInv, [HostNext]_hostVars
  PROVE  IInv' /\ HostIInv'
<1>1. /\ TypeOK /\ HostTypeOK /\ LoadInv /\ OldDoneInv /\ ToldInv /\ CallInv /\ AnswerInv
      /\ ConfigInv /\ DoneInv /\ DrainInv /\ CaptureFaithful
  BY DEF IInv, HostIInv
<1>2. IInv'
  BY <1>1, HostStepsOfCore, CoreStep
<1>3. HostTypeOK'
  BY <1>1, HostTypeStep
<1>4. LoadInv' /\ OldDoneInv' /\ ToldInv' /\ CallInv'
  BY <1>1, <1>3, LoadStep, OldDoneStep, ToldStep, CallStep
<1>5. AnswerInv' /\ ConfigInv' /\ DoneInv'
  BY <1>1, <1>3, AnswerStep, ConfigStep, DoneStep
<1>6. DrainInv' /\ CaptureFaithful'
  BY <1>1, <1>3, DrainStep, CaptureKept
<1> QED
  BY <1>2, <1>3, <1>4, <1>5, <1>6 DEF HostIInv

\* The invariants hold in every state of a session, for every buffer depth,
\* every set of commands and every bound.
THEOREM HostInvariant == HostSpec => [](IInv /\ HostIInv)
<1>1. HostInit => IInv /\ HostIInv
  BY HostInvInit
<1>2. (IInv /\ HostIInv) /\ [HostNext]_hostVars => (IInv /\ HostIInv)'
  BY HostInvStep
<1> QED
  BY <1>1, <1>2, PTL DEF HostSpec

\* In a session the core does nothing but what it does alone, so that what is
\* proved of it holds here: the engine's CSR accesses are steps of it.
THEOREM HostUsesCore == HostSpec => Spec
<1>1. HostInit => Init
  BY DEF HostInit
<1>2. HostIInv => HostTypeOK
  BY DEF HostIInv
<1>3. HostTypeOK /\ [HostNext]_hostVars => [Next]_vars
  BY HostStepsOfCore
<1> QED
  BY <1>1, <1>2, <1>3, HostInvariant, PTL DEF HostSpec, Spec

\* A DONE that wait_done has seen is of the run it waits for, although one
\* answer may come too late: at most one answer too many is on its way, and
\* the answer to arm comes between an old DONE and wait_done.
THEOREM DoneIsOfThisRun == HostSpec => []DoneOfThisRun
<1>1. HostIInv => DoneOfThisRun
  BY DEF HostIInv, ToldInv, Orderly, Standing, DoneOfThisRun, DoneMeansThisRun
<1> QED
  BY <1>1, HostInvariant, PTL

\* When config reports cfg_err false, the registers hold what was asked for.
THEOREM ConfigReportsAreTrue == HostSpec => []ConfigReportTruthful
<1>1. HostIInv => ConfigReportTruthful
  <2> SUFFICES ASSUME HostTypeOK, ConfigInv, outcome.kind = "status", ~outcome.cfgErr,
                      ~awaits, lost = 0, late = 0
               PROVE  /\ asked["PRETRIG"] # NoSample => pretrig = asked["PRETRIG"] % Depth
                      /\ asked["WINDOWS"] # NoSample /\ asked["WINDOWS"] <= MaxWindows =>
                           windows = IF asked["WINDOWS"] = 0 THEN 1 ELSE asked["WINDOWS"]
    BY DEF HostIInv, ConfigReportTruthful
  <2>1. Prompt /\ Standing
    BY DEF Prompt, Standing
  <2>2. ~cfgErr
    BY <2>1, Zenon DEF ConfigInv
  <2>3. ASSUME NEW reg \in Registers, asked[reg] # NoSample PROVE Holds(reg)
    BY <2>1, <2>2, <2>3 DEF ConfigInv, Pending
  <2>4. asked["PRETRIG"] # NoSample => Holds("PRETRIG")
    BY <2>3 DEF Registers
  <2>5. asked["WINDOWS"] # NoSample => Holds("WINDOWS")
    BY <2>3 DEF Registers
  <2> QED
    BY <2>4, <2>5 DEF Holds
<1> QED
  BY <1>1, HostInvariant, PTL

\* What drain returns after wait_done, of a run of one window and with its
\* PRETRIG_EFF, is the buffer in time order, and the trigger is marked.
THEOREM CapturesAreFaithful == HostSpec => []CaptureFaithful
<1>1. HostIInv => CaptureFaithful
  BY DEF HostIInv
<1> QED
  BY <1>1, HostInvariant, PTL

\* The bytes of the first i requests.
Backlog ==
  CHOOSE bytes : bytes = [i \in 0 .. Len(requests) |->
                            IF i = 0 THEN 0 ELSE bytes[i - 1] + Bytes(requests[i])]

\* While the engine executes a request, at most one more is on its way.
THEOREM BacklogIsBounded == HostSpec => []BacklogBounded
<1>1. HostIInv => BacklogBounded
  <2> SUFFICES ASSUME HostTypeOK, LoadInv, Orderly, engine.pc # "idle"
               PROVE  Backlog[Len(requests)] <= 16
    <3>1. BacklogFits <=> (engine.pc # "idle" => Backlog[Len(requests)] <= 16)
      BY Zenon DEF BacklogFits, Backlog
    <3> QED
      BY <3>1 DEF HostIInv, BacklogBounded, Orderly
  <2>1. Len(requests) \in {0, 1}
    <3>1. requests \in Seq(Requests) /\ Len(requests) \in Nat /\ late \in Nat
      BY DEF HostTypeOK
    <3> DEFINE m == Len(requests)
               k == late
    <3>2. Load = m + 1
      BY DEF Load
    <3>3. m \in Nat /\ k \in Nat /\ m + 1 <= k + 1 /\ k <= 1
      BY <3>1, <3>2 DEF LoadInv, Orderly
    <3> HIDE DEF m, k
    <3>4. m = 0 \/ m = 1
      BY ONLY <3>3
    <3> QED
      BY <3>4 DEF m
  <2> DEFINE IsBacklog(f) == f = [i \in 0 .. Len(requests) |->
                                    IF i = 0 THEN 0 ELSE f[i - 1] + Bytes(requests[i])]
             b == Bytes(requests[1])
             g == [i \in 0 .. Len(requests) |-> IF i = 0 THEN 0 ELSE b]
  <2>2. b \in Nat /\ b <= 12
    BY DEF Bytes
  <2> HIDE DEF b
  <2>3. IsBacklog(g)
    <3>1. ASSUME NEW i \in 0 .. Len(requests)
          PROVE  g[i] = IF i = 0 THEN 0 ELSE g[i - 1] + Bytes(requests[i])
      <4>1. CASE i = 0
        BY <4>1
      <4>2. CASE i # 0
        <5>1. i = 1 /\ 0 \in 0 .. Len(requests)
          <6>1. \A n \in {0, 1} : \A j \in 0 .. n : j # 0 => j = 1 /\ 0 \in 0 .. n
            OBVIOUS
          <6> QED
            BY <2>1, <4>2, <6>1, Zenon
        <5>2. g[1] = b /\ g[0] = 0 /\ 1 - 1 = 0
          BY <5>1
        <5> HIDE DEF g
        <5> QED
          BY <2>2, <5>1, <5>2 DEF b
      <4> QED
        BY <4>1, <4>2
    <3>2. g = [i \in 0 .. Len(requests) |-> g[i]]
      OBVIOUS
    <3> HIDE DEF g
    <3> QED
      BY <3>1, <3>2
  <2>4. IsBacklog(Backlog)
    <3> HIDE DEF g
    <3> QED
      BY <2>3, Zenon DEF Backlog
  <2> DEFINE h == Backlog
  <2> HIDE DEF h, g
  <2>5. h = [i \in 0 .. Len(requests) |-> IF i = 0 THEN 0 ELSE h[i - 1] + Bytes(requests[i])]
    BY <2>4 DEF h
  <2>6. h[0] = 0
    BY <2>1, <2>5
  <2>7. Len(requests) = 1 => h[1] = b
    <3>1. Len(requests) = 1 => h[1] = h[0] + b
      BY <2>5 DEF b
    <3> QED
      BY <2>2, <2>6, <3>1
  <2>8. h[Len(requests)] <= 16
    <3>1. CASE Len(requests) = 0
      BY <2>6, <3>1
    <3>2. CASE Len(requests) = 1
      BY <2>2, <2>7, <3>2
    <3> QED
      BY <2>1, <3>1, <3>2
  <2> QED
    BY <2>8 DEF h
<1> QED
  BY <1>1, HostInvariant, PTL

----------------------------------------------------------------------------
(* The files of a capture: the parts of a sequence, joined or left out.    *)

\* q lists the x[i] with i in kept, each once: its k-th element is that of from[k].
Lists(q, x, kept, from) ==
  /\ from \in [1 .. Len(q) -> kept]
  /\ \A k \in 1 .. Len(q) : q[k] = x[from[k]]
  /\ \A k, l \in 1 .. Len(q) : from[k] = from[l] => k = l
  /\ \A i \in kept : \E k \in 1 .. Len(q) : from[k] = i

\* Parts of one element or none, joined.
LEMMA FlattenSingles ==
  ASSUME NEW S, NEW n \in Nat, NEW x, x \in [1 .. n -> S], NEW kept \in SUBSET (1 .. n),
         NEW parts, parts = [i \in 1 .. n |-> IF i \in kept THEN <<x[i]>> ELSE <<>>]
  PROVE  FlattenSeq(parts) \in Seq(S) /\ \E from : Lists(FlattenSeq(parts), x, kept, from)
<1>1. /\ \A i \in kept : /\ i \in 1 .. n /\ parts[i] = <<x[i]>> /\ parts[i] \in Seq(S)
                         /\ Len(parts[i]) = 1 /\ parts[i][1] = x[i]
      /\ \A i \in 1 .. n : i \notin kept =>
           parts[i] = <<>> /\ parts[i] \in Seq(S) /\ Len(parts[i]) = 0
  OBVIOUS
<1>2. parts \in [1 .. n -> Seq(S)]
  BY <1>1
<1>3. FlattenSeq(parts) \in Seq(S) /\ \E at : Cut(FlattenSeq(parts), parts, n, at)
  BY <1>2, FlattenCut
<1> DEFINE q == FlattenSeq(parts)
<1>4. PICK at : Cut(q, parts, n, at)
  BY <1>3
<1>5. at \in [1 .. n -> Nat] /\ Len(q) \in Nat
  BY <1>3, <1>4 DEF Cut
<1> HIDE DEF q
<1>6. ASSUME NEW k \in 1 .. Len(q)
      PROVE  \E i \in kept : k = at[i] + 1
  <2>1. PICK i \in 1 .. n : at[i] < k /\ k <= at[i] + Len(parts[i])
    BY <1>4 DEF Cut
  <2>2. at[i] \in Nat
    BY <1>5
  <2>3. CASE i \in kept
    BY <1>1, <2>1, <2>2, <2>3
  <2>4. CASE i \notin kept
    BY <1>1, <2>1, <2>2, <2>4
  <2> QED
    BY <2>3, <2>4
<1>7. ASSUME NEW i \in kept PROVE at[i] + 1 \in 1 .. Len(q) /\ q[at[i] + 1] = x[i]
  <2>1. \A j \in Nat : 1 <= j /\ j <= Len(parts[i]) =>
          at[i] + j \in 1 .. Len(q) /\ q[at[i] + j] = parts[i][j]
    BY <1>4 DEF Cut
  <2>2. 1 \in Nat /\ 1 <= 1 /\ 1 <= Len(parts[i]) /\ parts[i][1] = x[i]
    BY <1>1
  <2>3. at[i] + 1 \in 1 .. Len(q) /\ q[at[i] + 1] = parts[i][1]
    BY <2>1, <2>2, Zenon
  <2> QED
    BY <2>2, <2>3
<1>8. ASSUME NEW i \in kept, NEW j \in kept, at[i] + 1 = at[j] + 1 PROVE i = j
  <2>1. i \in 1 .. n /\ j \in 1 .. n /\ Len(parts[i]) = 1 /\ Len(parts[j]) = 1
    BY <1>1
  <2>2. at[i] \in Nat /\ at[j] \in Nat /\ at[i] = at[j]
    BY <1>5, <1>8, <2>1
  <2>3. CASE i < j
    <3>1. at[i] + 1 <= at[j]
      BY <1>4, <2>1, <2>3 DEF Cut
    <3> QED
      BY <2>2, <3>1
  <2>4. CASE j < i
    <3>1. at[j] + 1 <= at[i]
      BY <1>4, <2>1, <2>4 DEF Cut
    <3> QED
      BY <2>2, <3>1
  <2> QED
    BY <2>1, <2>3, <2>4
<1> DEFINE from == [k \in 1 .. Len(q) |-> CHOOSE i \in kept : k = at[i] + 1]
<1>9. \A k \in 1 .. Len(q) : from[k] \in kept /\ k = at[from[k]] + 1
  BY <1>6
<1>10. from \in [1 .. Len(q) -> kept]
  BY <1>9
<1> HIDE DEF from
<1>11. \A k \in 1 .. Len(q) : q[k] = x[from[k]]
  BY <1>7, <1>9
<1>12. \A i \in kept : \E k \in 1 .. Len(q) : from[k] = i
  BY <1>7, <1>8, <1>9
<1>13. \A k, l \in 1 .. Len(q) : from[k] = from[l] => k = l
  BY <1>9
<1>14. Lists(q, x, kept, from)
  BY <1>10, <1>11, <1>12, <1>13 DEF Lists
<1> QED
  BY <1>3, <1>14 DEF q

\* What Picked returns.
LEMMA PickedLists ==
  ASSUME NEW S, NEW s \in Seq(S), NEW keep
  PROVE  /\ Picked(s, keep) \in Seq(S)
         /\ \E from : Lists(Picked(s, keep), s, keep \cap 1 .. Len(s), from)
<1> DEFINE n == Len(s)
           kept == keep \cap 1 .. n
           parts == [i \in 1 .. n |-> IF i \in kept THEN <<s[i]>> ELSE <<>>]
<1>1. n \in Nat /\ s \in [1 .. n -> S] /\ DOMAIN s = 1 .. n
  OBVIOUS
<1>2. parts = [i \in DOMAIN s |-> IF i \in keep THEN <<s[i]>> ELSE <<>>]
  BY <1>1
<1> HIDE DEF parts
<1>3. Picked(s, keep) = FlattenSeq(parts)
  BY <1>2, Zenon DEF Picked
<1>4. kept \in SUBSET (1 .. n)
  OBVIOUS
<1>5. FlattenSeq(parts) \in Seq(S) /\ \E from : Lists(FlattenSeq(parts), s, kept, from)
  <2> HIDE DEF n, kept
  <2> QED
    BY <1>1, <1>4, FlattenSingles DEF parts
<1> QED
  BY <1>3, <1>5

----------------------------------------------------------------------------
(* The signals of a mapping.                                               *)

ProbeName(k) == <<"probe", k>>
Names == (UNION {{mapping[i].name : i \in DOMAIN mapping} : mapping \in Mappings})
         \cup {ProbeName(k) : k \in 0 .. ProbeW - 1}
Signal == [name : Names, msb : 0 .. ProbeW - 1, lsb : 0 .. ProbeW - 1]

\* Signals of different names, none that of the marker.
WellNamed(q) ==
  /\ q \in Seq(Signal)
  /\ \A i \in 1 .. Len(q) : q[i].lsb <= q[i].msb /\ q[i].name # <<"trig">>
  /\ \A i, j \in 1 .. Len(q) : q[i].name = q[j].name => i = j

\* Every bit of the probe is in one of them.
CoversProbe(q) == \A k \in 0 .. ProbeW - 1 : \E i \in 1 .. Len(q) : k \in Bits(q[i])

\* What a mapping of the constants is.
LEMMA MappingLaw ==
  ASSUME NEW mapping \in Mappings
  PROVE  /\ Len(mapping) \in Nat /\ DOMAIN mapping = 1 .. Len(mapping)
         /\ \A i \in 1 .. Len(mapping) :
              /\ mapping[i].name \in Names /\ mapping[i].name # <<"trig">>
              /\ \A k \in 0 .. ProbeW - 1 : mapping[i].name # ProbeName(k)
              /\ mapping[i].range[1] \in 0 .. ProbeW - 1 /\ mapping[i].range[2] \in 0 .. ProbeW - 1
         /\ \A i, j \in 1 .. Len(mapping) : mapping[i].name = mapping[j].name => i = j
<1> DEFINE R == [name : {mapping[i].name : i \in DOMAIN mapping},
                 range : (0 .. ProbeW - 1) \X (0 .. ProbeW - 1)]
<1>1. mapping \in Seq(R)
  BY ExportsAssumption
<1>2. Len(mapping) \in Nat /\ DOMAIN mapping = 1 .. Len(mapping)
  BY <1>1
<1>3. ASSUME NEW i \in 1 .. Len(mapping)
      PROVE  /\ mapping[i].name \in Names /\ mapping[i].name # <<"trig">>
             /\ \A k \in 0 .. ProbeW - 1 : mapping[i].name # ProbeName(k)
             /\ mapping[i].range[1] \in 0 .. ProbeW - 1 /\ mapping[i].range[2] \in 0 .. ProbeW - 1
  <2>1. mapping[i].name \notin {<<"trig">>} \cup {<<"probe", k>> : k \in 0 .. ProbeW - 1}
    BY <1>2, ExportsAssumption
  <2>2. mapping[i].name \in Names
    <3>1. mapping[i].name \in {mapping[h].name : h \in DOMAIN mapping}
      BY <1>2
    <3>2. {mapping[h].name : h \in DOMAIN mapping} \in
            {{other[h].name : h \in DOMAIN other} : other \in Mappings}
      OBVIOUS
    <3> QED
      BY <3>1, <3>2, Zenon DEF Names
  <2>3. mapping[i] \in R
    <3> HIDE DEF R
    <3> QED
      BY <1>1, <1>2
  <2>4. mapping[i].range \in (0 .. ProbeW - 1) \X (0 .. ProbeW - 1)
    BY <2>3
  <2> QED
    BY <2>1, <2>2, <2>4 DEF ProbeName
<1>4. \A i, j \in 1 .. Len(mapping) : mapping[i].name = mapping[j].name => i = j
  BY <1>2, ExportsAssumption
<1> QED
  BY <1>2, <1>3, <1>4

LEMMA ListedGood ==
  ASSUME NEW mapping \in Mappings
  PROVE  WellNamed(Listed(mapping)) /\ CoversProbe(Listed(mapping))
<1> DEFINE n == Len(mapping)
           groups == [i \in DOMAIN mapping |-> Named(mapping[i])]
           covered == Covered({groups[i] : i \in DOMAIN groups})
           single == [i \in 1 .. ProbeW |-> [name |-> ProbeName(i - 1), msb |-> i - 1, lsb |-> i - 1]]
           keep == {i \in 1 .. ProbeW : i - 1 \notin covered}
           rest == Picked(single, keep)
           all == groups \o rest
<1>1. Listed(mapping) = all
  BY Zenon DEF Listed, ProbeName
<1>2. ProbeW \in Nat
  BY ExportsAssumption
<1>3. n \in Nat /\ DOMAIN mapping = 1 .. n
  BY MappingLaw
<1>4. ASSUME NEW i \in 1 .. n
      PROVE  /\ groups[i] \in Signal /\ groups[i].lsb <= groups[i].msb
             /\ groups[i].name = mapping[i].name
  <2>1. /\ mapping[i].name \in Names
        /\ mapping[i].range[1] \in 0 .. ProbeW - 1 /\ mapping[i].range[2] \in 0 .. ProbeW - 1
    BY MappingLaw
  <2>2. groups[i] = Named(mapping[i])
    BY <1>3
  <2> DEFINE e == mapping[i]
             a == e.range[1]
             b == e.range[2]
  <2> HIDE DEF e
  <2>3. a \in 0 .. ProbeW - 1 /\ b \in 0 .. ProbeW - 1 /\ e.name \in Names
    BY <2>1 DEF e
  <2>4. Named(e) = [name |-> e.name, msb |-> IF a > b THEN a ELSE b, lsb |-> IF a > b THEN b ELSE a]
    BY DEF Named
  <2> HIDE DEF a, b
  <2>5. Named(e) \in Signal /\ Named(e).lsb <= Named(e).msb /\ Named(e).name = e.name
    BY <1>2, <2>3, <2>4 DEF Signal
  <2> QED
    BY <2>2, <2>5 DEF e
<1>5. groups \in Seq(Signal) /\ Len(groups) = n /\ DOMAIN groups = 1 .. n
  <2>1. groups \in [1 .. n -> Signal]
    BY <1>3, <1>4
  <2> HIDE DEF groups
  <2> QED
    BY <1>3, <2>1
<1>6. \A i \in 1 .. ProbeW :
        /\ single[i] = [name |-> ProbeName(i - 1), msb |-> i - 1, lsb |-> i - 1]
        /\ single[i].lsb = i - 1 /\ single[i].msb = i - 1 /\ single[i].name = ProbeName(i - 1)
        /\ single[i] \in Signal
  <2>1. \A i \in 1 .. ProbeW : ProbeName(i - 1) \in Names /\ i - 1 \in 0 .. ProbeW - 1
    <3>1. \A i \in 1 .. ProbeW : i - 1 \in 0 .. ProbeW - 1
      BY <1>2
    <3>2. \A k \in 0 .. ProbeW - 1 : ProbeName(k) \in Names
      BY Zenon DEF Names
    <3>3. ASSUME NEW i \in 1 .. ProbeW PROVE ProbeName(i - 1) \in Names
      <4> DEFINE k == i - 1
      <4>1. k \in 0 .. ProbeW - 1
        BY <3>1
      <4> HIDE DEF k
      <4>2. ProbeName(k) \in Names
        BY <3>2, <4>1
      <4> QED
        BY <4>2 DEF k
    <3> QED
      BY <3>1, <3>3
  <2> QED
    BY <2>1 DEF Signal
<1>20. \A i \in 1 .. ProbeW :
         single[i].lsb = i - 1 /\ single[i].msb = i - 1 /\ single[i].name = ProbeName(i - 1)
  BY <1>6
<1>7. single \in Seq(Signal) /\ Len(single) = ProbeW
  <2>1. single \in [1 .. ProbeW -> Signal]
    BY <1>6
  <2> HIDE DEF single
  <2> QED
    BY <1>2, <2>1
<1> HIDE DEF single, keep
<1>8. rest \in Seq(Signal) /\ \E from : Lists(rest, single, keep \cap 1 .. Len(single), from)
  BY <1>7, PickedLists
<1> HIDE DEF rest
<1>9. PICK from : Lists(rest, single, keep \cap 1 .. ProbeW, from)
  BY <1>7, <1>8
<1>10. ASSUME NEW k \in 1 .. Len(rest)
       PROVE  /\ from[k] \in 1 .. ProbeW /\ rest[k] = single[from[k]]
  BY <1>9 DEF Lists
<1>11. Len(rest) \in Nat
  BY <1>8
<1> DEFINE m == Len(rest)
<1>12. /\ all \in Seq(Signal) /\ Len(all) = n + m
       /\ \A i \in 1 .. n + m : all[i] = IF i <= n THEN groups[i] ELSE rest[i - n]
  <2> HIDE DEF groups, n, m
  <2> QED
    BY <1>5, <1>8, ConcatProperties DEF m
<1> HIDE DEF all, groups, m
<1>13. \A i \in 1 .. n + m :
         \/ i \in 1 .. n /\ all[i] = groups[i]
         \/ i - n \in 1 .. m /\ ~(i <= n) /\ all[i] = rest[i - n]
  BY <1>3, <1>11, <1>12 DEF m
<1>14. ASSUME NEW i \in 1 .. n + m PROVE all[i].lsb <= all[i].msb /\ all[i].name # <<"trig">>
  <2>1. CASE i \in 1 .. n /\ all[i] = groups[i]
    BY <1>4, <2>1, MappingLaw
  <2>2. CASE i - n \in 1 .. m /\ all[i] = rest[i - n]
    <3> DEFINE k == from[i - n]
    <3>1. k \in 1 .. ProbeW /\ all[i] = single[k]
      BY <1>10, <2>2 DEF m
    <3> HIDE DEF k
    <3>2. ProbeName(k - 1) # <<"trig">>
      BY DEF ProbeName
    <3>3. single[k].lsb = k - 1 /\ single[k].msb = k - 1 /\ single[k].name = ProbeName(k - 1)
      BY <1>20, <3>1
    <3>4. k - 1 <= k - 1
      BY <3>1
    <3> QED
      BY <3>1, <3>2, <3>3, <3>4
  <2> QED
    BY <1>13, <2>1, <2>2
<1>15. ASSUME NEW i \in 1 .. n + m, NEW j \in 1 .. n + m, all[i].name = all[j].name
       PROVE  i = j
  <2>1. ASSUME NEW a \in 1 .. n, NEW k \in 1 .. m PROVE groups[a].name # rest[k].name
    <3>1. from[k] \in 1 .. ProbeW /\ rest[k] = single[from[k]]
      BY <1>10 DEF m
    <3>2. rest[k].name = ProbeName(from[k] - 1) /\ from[k] - 1 \in 0 .. ProbeW - 1
      BY <1>2, <1>20, <3>1
    <3> QED
      BY <1>4, <3>2, MappingLaw
  <2>2. ASSUME NEW k \in 1 .. m, NEW l \in 1 .. m, rest[k].name = rest[l].name PROVE k = l
    <3>1. /\ from[k] \in 1 .. ProbeW /\ rest[k] = single[from[k]]
          /\ from[l] \in 1 .. ProbeW /\ rest[l] = single[from[l]]
      BY <1>10 DEF m
    <3>2. ProbeName(from[k] - 1) = ProbeName(from[l] - 1)
      BY <1>20, <2>2, <3>1
    <3>3. from[k] = from[l]
      BY <3>1, <3>2 DEF ProbeName
    <3> QED
      BY <1>9, <3>3 DEF Lists, m
  <2>3. CASE i \in 1 .. n /\ j \in 1 .. n
    <3>1. all[i] = groups[i] /\ all[j] = groups[j]
      BY <1>13, <2>3
    <3> QED
      BY <1>4, <1>15, <2>3, <3>1, MappingLaw
  <2>4. CASE i \in 1 .. n /\ j \notin 1 .. n
    BY <1>13, <1>15, <2>1, <2>4
  <2>5. CASE i \notin 1 .. n /\ j \in 1 .. n
    BY <1>13, <1>15, <2>1, <2>5
  <2>6. CASE i \notin 1 .. n /\ j \notin 1 .. n
    <3>1. i - n \in 1 .. m /\ j - n \in 1 .. m /\ rest[i - n].name = rest[j - n].name
      BY <1>13, <1>15, <2>6
    <3>2. i - n = j - n
      BY <2>2, <3>1
    <3> QED
      BY <1>3, <3>2
  <2> QED
    BY <2>3, <2>4, <2>5, <2>6
<1>16. WellNamed(all)
  BY <1>12, <1>14, <1>15 DEF WellNamed
<1>17. ASSUME NEW k \in 0 .. ProbeW - 1 PROVE \E i \in 1 .. n + m : k \in Bits(all[i])
  <2>1. CASE k \in covered
    <3>1. PICK i \in 1 .. n : k \in Bits(groups[i])
      BY <1>5, <2>1 DEF Covered
    <3>2. i \in 1 .. n + m /\ all[i] = groups[i]
      BY <1>3, <1>11, <1>12 DEF m
    <3> QED
      BY <3>1, <3>2
  <2>2. CASE k \notin covered
    <3>1. k + 1 \in keep \cap 1 .. ProbeW
      BY <1>2, <2>2 DEF keep
    <3>2. PICK l \in 1 .. m : from[l] = k + 1
      BY <1>9, <3>1 DEF Lists, m
    <3>3. rest[l] = single[k + 1] /\ k + 1 \in 1 .. ProbeW
      BY <1>10, <3>1, <3>2 DEF m
    <3>4. rest[l].lsb = k /\ rest[l].msb = k
      BY <1>20, <3>3
    <3>5. n + l \in 1 .. n + m /\ all[n + l] = rest[l]
      BY <1>3, <1>11, <1>12 DEF m
    <3> QED
      BY <3>4, <3>5 DEF Bits
  <2> QED
    BY <2>1, <2>2
<1>18. CoversProbe(all)
  BY <1>12, <1>17 DEF CoversProbe
<1> QED
  BY <1>1, <1>16, <1>18

LEMMA LoadGood ==
  ASSUME NEW mapping \in Mappings
  PROVE  WellNamed(LoadProbes(mapping)) /\ CoversProbe(LoadProbes(mapping))
<1> DEFINE all == Listed(mapping)
           At(i) == {j \in DOMAIN all : all[j].lsb = i - 1}
           parts == [i \in 1 .. ProbeW |-> Picked(all, At(i))]
           q == FlattenSeq(parts)
           kept(i) == At(i) \cap 1 .. Len(all)
<1>1. LoadProbes(mapping) = q
  BY Zenon DEF LoadProbes
<1>2. ProbeW \in Nat
  BY ExportsAssumption
<1>3. WellNamed(all) /\ CoversProbe(all)
  BY ListedGood
<1> HIDE DEF all
<1>4. all \in Seq(Signal) /\ Len(all) \in Nat /\ DOMAIN all = 1 .. Len(all)
  BY <1>3 DEF WellNamed
<1>5. \A i : Picked(all, At(i)) \in Seq(Signal) /\ \E from : Lists(Picked(all, At(i)), all, kept(i), from)
  <2> HIDE DEF At
  <2> QED
    BY <1>4, PickedLists
<1>6. \A i \in 1 .. ProbeW : \A h \in 1 .. Len(all) : h \in kept(i) <=> all[h].lsb = i - 1
  BY <1>4
<1>7. \A i \in 1 .. ProbeW : kept(i) \subseteq 1 .. Len(all)
  OBVIOUS
<1>8. parts \in [1 .. ProbeW -> Seq(Signal)] /\ \A i \in 1 .. ProbeW : parts[i] = Picked(all, At(i))
  BY <1>5
<1> HIDE DEF parts, At, kept
<1>9. q \in Seq(Signal) /\ \E at : Cut(q, parts, ProbeW, at)
  BY <1>2, <1>8, FlattenCut
<1> HIDE DEF q
<1>10. PICK at : Cut(q, parts, ProbeW, at)
  BY <1>9
<1> DEFINE from == [i \in 1 .. ProbeW |-> CHOOSE f : Lists(parts[i], all, kept(i), f)]
<1>11. \A i \in 1 .. ProbeW : Lists(parts[i], all, kept(i), from[i])
  BY <1>5, <1>8
<1> HIDE DEF from
<1>12. \A i \in 1 .. ProbeW : at[i] \in Nat /\ Len(parts[i]) \in Nat
  BY <1>8, <1>10 DEF Cut
<1>13. ASSUME NEW k \in 1 .. Len(q)
       PROVE  \E i \in 1 .. ProbeW, j \in Nat :
                /\ j \in 1 .. Len(parts[i]) /\ k = at[i] + j /\ from[i][j] \in 1 .. Len(all)
                /\ q[k] = all[from[i][j]] /\ all[from[i][j]].lsb = i - 1
  <2>1. PICK i \in 1 .. ProbeW : at[i] < k /\ k <= at[i] + Len(parts[i])
    BY <1>10 DEF Cut
  <2> DEFINE j == k - at[i]
  <2>2. j \in 1 .. Len(parts[i]) /\ k = at[i] + j /\ j \in Nat /\ 1 <= j /\ j <= Len(parts[i])
    BY <1>9, <1>12, <2>1
  <2> HIDE DEF j
  <2>3. q[at[i] + j] = parts[i][j]
    BY <1>10, <2>2 DEF Cut
  <2>4. Lists(parts[i], all, kept(i), from[i])
    BY <1>11
  <2>5. from[i][j] \in kept(i) /\ parts[i][j] = all[from[i][j]]
    BY <2>2, <2>4 DEF Lists
  <2>6. from[i][j] \in 1 .. Len(all) /\ all[from[i][j]].lsb = i - 1
    BY <1>6, <1>7, <2>5
  <2> QED
    BY <2>2, <2>3, <2>5, <2>6
<1>14. ASSUME NEW k \in 1 .. Len(q) PROVE q[k].lsb <= q[k].msb /\ q[k].name # <<"trig">>
  <2>1. PICK h \in 1 .. Len(all) : q[k] = all[h]
    BY <1>13
  <2> QED
    BY <1>3, <2>1 DEF WellNamed
<1>15. ASSUME NEW k \in 1 .. Len(q), NEW l \in 1 .. Len(q), q[k].name = q[l].name PROVE k = l
  <2>1. PICK i \in 1 .. ProbeW, j \in Nat :
          /\ j \in 1 .. Len(parts[i]) /\ k = at[i] + j /\ from[i][j] \in 1 .. Len(all)
          /\ q[k] = all[from[i][j]] /\ all[from[i][j]].lsb = i - 1
    BY <1>13
  <2>2. PICK m \in 1 .. ProbeW, n \in Nat :
          /\ n \in 1 .. Len(parts[m]) /\ l = at[m] + n /\ from[m][n] \in 1 .. Len(all)
          /\ q[l] = all[from[m][n]] /\ all[from[m][n]].lsb = m - 1
    BY <1>13
  <2>3. from[i][j] = from[m][n]
    BY <1>3, <1>15, <2>1, <2>2 DEF WellNamed
  <2>4. i = m
    BY <1>2, <2>1, <2>2, <2>3
  <2>5. j = n
    <3>1. Lists(parts[i], all, kept(i), from[i])
      BY <1>11
    <3>2. j \in 1 .. Len(parts[i]) /\ n \in 1 .. Len(parts[i]) /\ from[i][j] = from[i][n]
      BY <2>1, <2>2, <2>3, <2>4
    <3> QED
      BY <3>1, <3>2 DEF Lists
  <2> QED
    BY <2>1, <2>2, <2>4, <2>5
<1>16. ASSUME NEW b \in 0 .. ProbeW - 1 PROVE \E k \in 1 .. Len(q) : b \in Bits(q[k])
  <2>1. PICK h \in 1 .. Len(all) : b \in Bits(all[h])
    BY <1>3 DEF CoversProbe
  <2>2. all[h] \in Signal
    BY <1>4
  <2>3. all[h].lsb \in 0 .. ProbeW - 1
    BY <2>2 DEF Signal
  <2> DEFINE i == all[h].lsb + 1
  <2>4. i \in 1 .. ProbeW /\ all[h].lsb = i - 1
    BY <1>2, <2>3
  <2> HIDE DEF i
  <2>5. h \in kept(i)
    BY <1>6, <2>4
  <2>6. PICK j \in 1 .. Len(parts[i]) : from[i][j] = h /\ parts[i][j] = all[from[i][j]]
    <3>1. Lists(parts[i], all, kept(i), from[i])
      BY <1>11, <2>4
    <3> QED
      BY <2>5, <3>1 DEF Lists
  <2>7. j \in Nat /\ 1 <= j /\ j <= Len(parts[i])
    BY <1>12, <2>4
  <2>8. at[i] + j \in 1 .. Len(q) /\ q[at[i] + j] = parts[i][j]
    BY <1>10, <2>4, <2>7 DEF Cut
  <2> QED
    BY <2>1, <2>6, <2>8
<1>17. WellNamed(q)
  BY <1>9, <1>14, <1>15 DEF WellNamed
<1>18. CoversProbe(q)
  BY <1>16 DEF CoversProbe
<1> QED
  BY <1>1, <1>17, <1>18

----------------------------------------------------------------------------
(* The identifier codes.                                                   *)

Figures == Seq(0 .. IdentBase - 1)

LEMMA BaseDivision ==
  /\ \A n \in Nat : /\ n \div IdentBase \in Nat /\ n % IdentBase \in 0 .. IdentBase - 1
                    /\ n \div IdentBase <= n
                    /\ n = IdentBase * (n \div IdentBase) + (n % IdentBase)
<1>1. IdentBase \in Nat \ {0}
  BY ExportsAssumption
<1>2. \A n \in Nat, b \in Nat \ {0} : /\ n \div b \in Nat /\ n % b \in 0 .. b - 1
                                      /\ n = b * (n \div b) + (n % b)
  BY Z3
<1>3. \A n \in Nat, b \in Nat \ {0} : n \div b <= n
  <2>1. \A q \in Nat, b \in Nat \ {0} : q <= b * q
    BY Z3
  <2>2. ASSUME NEW n \in Nat, NEW b \in Nat \ {0} PROVE n \div b <= n
    <3> DEFINE q == n \div b
               r == n % b
               p == b * q
    <3>1. q \in Nat /\ r \in 0 .. b - 1 /\ n = p + r
      BY <1>2
    <3> HIDE DEF q, r
    <3>2. q <= p /\ p \in Nat
      BY <2>1, <3>1, Z3
    <3> HIDE DEF p
    <3>3. q <= n
      BY <3>1, <3>2
    <3> QED
      BY <3>3 DEF q
  <2> QED
    BY <2>2
<1> QED
  BY <1>1, <1>2, <1>3

LEMMA DigitsLaw ==
  /\ Digits \in [Nat -> Figures] /\ Digits[0] = <<>>
  /\ \A n \in Nat \ {0} : Digits[n] = <<(n - 1) % IdentBase>> \o Digits[(n - 1) \div IdentBase]
<1> DEFINE below == [n \in Nat |-> IF n = 0 THEN 0 ELSE (n - 1) \div IdentBase]
           step == [p \in Nat \X Figures |-> IF p[1] = 0 THEN p[2] ELSE <<(p[1] - 1) % IdentBase>> \o p[2]]
<1>1. ASSUME NEW n \in Nat \ {0} PROVE below[n] = (n - 1) \div IdentBase /\ below[n] \in Nat /\ below[n] < n
  <2> DEFINE m == n - 1
  <2>1. m \in Nat /\ n = m + 1 /\ n # 0
    OBVIOUS
  <2>2. below[n] = m \div IdentBase
    OBVIOUS
  <2> HIDE DEF m, below
  <2>3. m \div IdentBase \in Nat /\ m \div IdentBase <= m
    BY <2>1, BaseDivision
  <2> QED
    BY <2>1, <2>2, <2>3 DEF m
<1>2. below \in [Nat -> Nat] /\ \A n \in Nat \ {0} : below[n] < n
  BY <1>1
<1>3. ASSUME NEW n \in Nat \ {0} PROVE <<(n - 1) % IdentBase>> \in Figures
  <2> DEFINE m == n - 1
  <2>1. m \in Nat
    OBVIOUS
  <2> HIDE DEF m
  <2>2. m % IdentBase \in 0 .. IdentBase - 1
    BY <2>1, BaseDivision
  <2> QED
    BY <2>2 DEF m, Figures
<1>4. ASSUME NEW n \in Nat, NEW s \in Figures
      PROVE  /\ step[<<n, s>>] \in Figures
             /\ step[<<n, s>>] = IF n = 0 THEN s ELSE <<(n - 1) % IdentBase>> \o s
  <2>1. step[<<n, s>>] = IF n = 0 THEN s ELSE <<(n - 1) % IdentBase>> \o s
    OBVIOUS
  <2> HIDE DEF step
  <2>2. CASE n # 0
    <3>1. <<(n - 1) % IdentBase>> \in Seq(0 .. IdentBase - 1) /\ s \in Seq(0 .. IdentBase - 1)
      BY <1>3, <2>2 DEF Figures
    <3>2. <<(n - 1) % IdentBase>> \o s \in Seq(0 .. IdentBase - 1)
      BY <3>1, ConcatProperties
    <3> QED
      BY <2>1, <2>2, <3>2 DEF Figures
  <2> QED
    BY <2>1, <2>2
<1>5. step \in [Nat \X Figures -> Figures]
  <2>1. step = [p \in Nat \X Figures |-> step[p]]
    OBVIOUS
  <2> HIDE DEF step
  <2>2. ASSUME NEW p \in Nat \X Figures PROVE step[p] \in Figures
    <3>1. PICK n \in Nat, s \in Figures : p = <<n, s>>
      OBVIOUS
    <3> QED
      BY <1>4, <3>1
  <2> QED
    BY <2>1, <2>2
<1>6. <<>> \in Figures
  BY DEF Figures
<1> HIDE DEF below, step
<1>7. PICK f \in [Nat -> Figures] : Descends(f, <<>>, below, step)
  BY <1>2, <1>5, <1>6, RecursionBelow
<1>8. f = [n \in Nat |-> IF n = 0 THEN <<>> ELSE step[<<n, f[below[n]]>>]]
  BY <1>7 DEF Descends
<1>9. ASSUME NEW n \in Nat
      PROVE  f[n] = IF n = 0 THEN <<>> ELSE <<(n - 1) % IdentBase>> \o f[(n - 1) \div IdentBase]
  <2>1. f[n] = IF n = 0 THEN <<>> ELSE step[<<n, f[below[n]]>>]
    BY <1>8
  <2>2. CASE n # 0
    <3>1. below[n] \in Nat /\ below[n] = (n - 1) \div IdentBase
      BY <1>1, <2>2
    <3>2. f[below[n]] \in Figures
      BY <1>7, <3>1
    <3>3. step[<<n, f[below[n]]>>] = <<(n - 1) % IdentBase>> \o f[below[n]]
      BY <1>4, <2>2, <3>2
    <3> QED
      BY <2>1, <2>2, <3>1, <3>3
  <2> QED
    BY <2>1, <2>2
<1> DEFINE Good(g) == g = [n \in Nat |-> IF n = 0 THEN <<>>
                              ELSE <<(n - 1) % IdentBase>> \o g[(n - 1) \div IdentBase]]
<1>10. Good(f)
  <2>1. f = [n \in Nat |-> f[n]]
    BY <1>7
  <2> QED
    BY <1>9, <2>1
<1>11. \E g : Good(g)
  <2> HIDE DEF Good
  <2> QED
    BY <1>10
<1>12. Good(Digits)
  BY <1>11, Zenon DEF Digits
<1>13. \A n \in Nat : Digits[n] = IF n = 0 THEN <<>>
                       ELSE <<(n - 1) % IdentBase>> \o Digits[(n - 1) \div IdentBase]
  BY <1>12
<1> DEFINE Typed == {m \in Nat : \A n \in 0 .. m : Digits[n] \in Figures}
<1>14. 0 \in Typed
  <2>1. Digits[0] = <<>>
    BY <1>13
  <2>2. \A n \in 0 .. 0 : n = 0
    OBVIOUS
  <2> QED
    BY <1>6, <2>1, <2>2
<1>15. ASSUME NEW m \in Nat, m \in Typed PROVE m + 1 \in Typed
  <2>1. m \div IdentBase \in 0 .. m
    BY BaseDivision
  <2>2. Digits[m + 1] = <<(m + 1 - 1) % IdentBase>> \o Digits[(m + 1 - 1) \div IdentBase]
    <3> DEFINE n == m + 1
    <3>1. n \in Nat /\ n # 0
      OBVIOUS
    <3> HIDE DEF n
    <3>2. Digits[n] = <<(n - 1) % IdentBase>> \o Digits[(n - 1) \div IdentBase]
      BY <1>13, <3>1
    <3> QED
      BY <3>2 DEF n
  <2>3. m + 1 - 1 = m
    OBVIOUS
  <2>4. Digits[m + 1] = <<m % IdentBase>> \o Digits[m \div IdentBase]
    BY <2>2, <2>3
  <2>5. Digits[m \div IdentBase] \in Seq(0 .. IdentBase - 1)
    BY <1>15, <2>1 DEF Figures
  <2>6. <<m % IdentBase>> \in Seq(0 .. IdentBase - 1)
    BY BaseDivision
  <2>7. Digits[m + 1] \in Figures
    BY <2>4, <2>5, <2>6, ConcatProperties DEF Figures
  <2>8. \A n \in 0 .. m + 1 : n \in 0 .. m \/ n = m + 1
    OBVIOUS
  <2> QED
    BY <1>15, <2>7, <2>8
<1>16. Nat \subseteq Typed
  <2> HIDE DEF Typed
  <2> QED
    BY <1>14, <1>15, SetInduction
<1>17. \A n \in Nat : Digits[n] \in Figures
  BY <1>16
<1>18. Digits = [n \in Nat |-> Digits[n]]
  BY <1>12
<1> HIDE DEF Good, Typed
<1>19. Digits \in [Nat -> Figures]
  BY <1>17, <1>18
<1>20. \A n \in Nat \ {0} : n # 0
  OBVIOUS
<1> QED
  BY <1>13, <1>19, <1>20

\* Numbers of one code are equal.
LEMMA DigitsDiffer ==
  \A n, m \in Nat : Digits[n] = Digits[m] => n = m
<1> DEFINE Unique == {k \in Nat : \A n \in 0 .. k, m \in Nat : Digits[n] = Digits[m] => n = m}
<1>1. \A n \in Nat : Digits[n] \in Figures
  BY DigitsLaw
<1>2. ASSUME NEW k \in Nat
      PROVE  /\ Digits[k + 1] = <<k % IdentBase>> \o Digits[k \div IdentBase]
             /\ k \div IdentBase \in Nat /\ k \div IdentBase <= k
             /\ Len(Digits[k + 1]) = 1 + Len(Digits[k \div IdentBase])
             /\ Digits[k + 1][1] = k % IdentBase
             /\ \A i \in 1 .. Len(Digits[k \div IdentBase]) : Digits[k + 1][i + 1] = Digits[k \div IdentBase][i]
  <2>1. k + 1 \in Nat \ {0} /\ k + 1 - 1 = k
    OBVIOUS
  <2>2. Digits[k + 1] = <<(k + 1 - 1) % IdentBase>> \o Digits[(k + 1 - 1) \div IdentBase]
    BY <2>1, DigitsLaw
  <2> DEFINE s == <<k % IdentBase>>
             t == Digits[k \div IdentBase]
             d == Digits[k + 1]
  <2>3. d = s \o t
    BY <2>1, <2>2
  <2>4. k \div IdentBase \in Nat /\ k \div IdentBase <= k
    BY BaseDivision
  <2>5. s \in Seq(0 .. IdentBase - 1) /\ Len(s) = 1 /\ s[1] = k % IdentBase
    BY BaseDivision
  <2>6. t \in Seq(0 .. IdentBase - 1)
    BY <1>1, <2>4 DEF Figures
  <2> HIDE DEF s, t, d
  <2>7. /\ Len(d) = Len(s) + Len(t) /\ Len(t) \in Nat
        /\ \A j \in 1 .. Len(s) + Len(t) : d[j] = IF j <= Len(s) THEN s[j] ELSE t[j - Len(s)]
    <3>1. Len(t) \in Nat
      BY <2>6
    <3>2. /\ Len(s \o t) = Len(s) + Len(t)
          /\ \A j \in 1 .. Len(s) + Len(t) :
               (s \o t)[j] = IF j <= Len(s) THEN s[j] ELSE t[j - Len(s)]
      BY <2>5, <2>6, ConcatProperties
    <3> QED
      BY <2>3, <3>1, <3>2
  <2>8. 1 \in 1 .. Len(s) + Len(t) /\ 1 <= Len(s)
    BY <2>5, <2>7
  <2>9. d[1] = s[1]
    BY <2>7, <2>8
  <2>10. ASSUME NEW i \in 1 .. Len(t) PROVE d[i + 1] = t[i]
    <3>1. i + 1 \in 1 .. Len(s) + Len(t) /\ ~(i + 1 <= Len(s)) /\ i + 1 - Len(s) = i
      BY <2>5, <2>7
    <3>2. d[i + 1] = t[i + 1 - Len(s)]
      BY <2>7, <3>1
    <3> QED
      BY <3>1, <3>2
  <2>11. /\ d = s \o t /\ Len(d) = 1 + Len(t) /\ d[1] = k % IdentBase
         /\ \A i \in 1 .. Len(t) : d[i + 1] = t[i]
    BY <2>3, <2>5, <2>7, <2>9, <2>10
  <2> QED
    BY <2>4, <2>11 DEF s, t, d
<1>3. ASSUME NEW n \in Nat, n # 0 PROVE \E k \in Nat : n = k + 1
  <2>1. n - 1 \in Nat /\ n = n - 1 + 1
    BY <1>3
  <2> QED
    BY <2>1
<1>4. ASSUME NEW k \in Nat PROVE Len(Digits[k + 1]) # 0
  <2>1. Len(Digits[k \div IdentBase]) \in Nat
    BY <1>1, <1>2 DEF Figures
  <2>2. Len(Digits[k + 1]) = 1 + Len(Digits[k \div IdentBase])
    BY <1>2
  <2> DEFINE x == Len(Digits[k \div IdentBase])
  <2>3. x \in Nat /\ Len(Digits[k + 1]) = 1 + x
    BY <2>1, <2>2
  <2> HIDE DEF x
  <2> QED
    BY <2>3
<1>5. Len(Digits[0]) = 0
  BY DigitsLaw
<1>6. 0 \in Unique
  <2>1. ASSUME NEW n \in 0 .. 0, NEW m \in Nat, Digits[n] = Digits[m] PROVE n = m
    <3>1. n = 0
      OBVIOUS
    <3>2. CASE m # 0
      <4>1. PICK k \in Nat : m = k + 1
        BY <1>3, <3>2
      <4> QED
        BY <1>4, <1>5, <2>1, <3>1, <4>1
    <3> QED
      BY <3>1, <3>2
  <2> QED
    BY <2>1
<1>7. ASSUME NEW l \in Nat, l \in Unique PROVE l + 1 \in Unique
  <2>1. ASSUME NEW m \in Nat, Digits[l + 1] = Digits[m] PROVE l + 1 = m
    <3>1. m # 0
      BY <1>4, <1>5, <2>1
    <3>2. PICK k \in Nat : m = k + 1
      BY <1>3, <3>1
    <3> DEFINE a == l \div IdentBase
               b == k \div IdentBase
    <3>3. /\ a \in 0 .. l /\ b \in Nat
          /\ l = IdentBase * a + (l % IdentBase) /\ k = IdentBase * b + (k % IdentBase)
      BY BaseDivision
    <3>4. l % IdentBase = k % IdentBase
      BY <1>2, <2>1, <3>2
    <3>5. Digits[a] = Digits[b]
      <4>1. /\ Len(Digits[l + 1]) = 1 + Len(Digits[a])
            /\ \A i \in 1 .. Len(Digits[a]) : Digits[l + 1][i + 1] = Digits[a][i]
        BY <1>2
      <4>2. /\ Len(Digits[k + 1]) = 1 + Len(Digits[b])
            /\ \A i \in 1 .. Len(Digits[b]) : Digits[k + 1][i + 1] = Digits[b][i]
        BY <1>2
      <4> HIDE DEF a, b
      <4> DEFINE s == Digits[a]
                 t == Digits[b]
      <4>3. s \in Seq(0 .. IdentBase - 1) /\ t \in Seq(0 .. IdentBase - 1)
        BY <1>1, <3>3 DEF Figures
      <4>4. /\ Digits[k + 1] = Digits[l + 1] /\ 1 + Len(s) = 1 + Len(t)
        BY <2>1, <3>2, <4>1, <4>2
      <4>5. \A i \in 1 .. Len(s) : Digits[l + 1][i + 1] = s[i]
        BY <4>1
      <4>6. \A i \in 1 .. Len(t) : Digits[l + 1][i + 1] = t[i]
        BY <4>2, <4>4
      <4> HIDE DEF s, t
      <4>7. Len(s) \in Nat /\ Len(t) \in Nat
        BY <4>3
      <4>8. Len(s) = Len(t)
        BY <4>4, <4>7
      <4>9. \A i \in 1 .. Len(s) : s[i] = t[i]
        BY <4>5, <4>6, <4>8
      <4>10. s = t
        BY <4>3, <4>8, <4>9, SeqEqual
      <4> QED
        BY <4>10 DEF s, t
    <3>6. a = b
      <4> HIDE DEF a, b
      <4> QED
        BY <1>7, <3>3, <3>5
    <3>7. l = k
      <4> HIDE DEF a, b
      <4> QED
        BY <3>3, <3>4, <3>6
    <3> QED
      BY <3>2, <3>7
  <2>2. \A n \in 0 .. l + 1 : n \in 0 .. l \/ n = l + 1
    OBVIOUS
  <2> QED
    BY <1>7, <2>1, <2>2
<1>8. Nat \subseteq Unique
  <2> HIDE DEF Unique
  <2> QED
    BY <1>6, <1>7, SetInduction
<1>9. ASSUME NEW n \in Nat, NEW m \in Nat, Digits[n] = Digits[m] PROVE n = m
  <2>1. n \in 0 .. n /\ n \in Unique
    BY <1>8
  <2> QED
    BY <1>9, <2>1
<1> QED
  BY <1>9

\* Every variable has a code of its own, the marker too.
LEMMA CodesDiffer ==
  ASSUME NEW i \in Nat \ {0}, NEW j \in Nat \ {0}, Code(i) = Code(j)
  PROVE  i = j
<1>1. i - 1 + 1 = i /\ j - 1 + 1 = j
  OBVIOUS
<1>2. Digits[i] = Digits[j]
  BY <1>1 DEF Code, Ident
<1> QED
  BY <1>2, DigitsDiffer

----------------------------------------------------------------------------
(* The value changes.  The tracks of the file are the signals and then the *)
(* marker of the trigger.                                                  *)

Entry == [time : Nat, code : Figures, value : SUBSET Nat]
Tracks == 1 .. Len(sigs) + 1
TrackName(w) == IF w = Len(sigs) + 1 THEN <<"trig">> ELSE sigs[w].name
ValueOf(w, sample, t) ==
  IF w = Len(sigs) + 1 THEN IF t = trigPos THEN {0} ELSE {} ELSE Extract(sigs[w], sample)

ExportTypes ==
  /\ WellNamed(sigs) /\ CoversProbe(sigs)
  /\ trigPos \in 0 .. MaxSamples - 1 \cup {NoTrigger}
  /\ samples \in Seq(Palette) /\ Len(samples) <= MaxSamples

LEMMA SignalsLaw ==
  ASSUME WellNamed(sigs)
  PROVE  /\ Len(sigs) \in Nat /\ DOMAIN sigs = 1 .. Len(sigs)
         /\ \A i \in 1 .. Len(sigs) :
              /\ sigs[i].msb \in 0 .. ProbeW - 1 /\ sigs[i].lsb \in 0 .. ProbeW - 1
              /\ sigs[i].lsb <= sigs[i].msb /\ sigs[i].name # <<"trig">>
         /\ \A i, j \in 1 .. Len(sigs) : sigs[i].name = sigs[j].name => i = j
<1>1. sigs \in Seq(Signal)
  BY DEF WellNamed
<1>2. Len(sigs) \in Nat /\ DOMAIN sigs = 1 .. Len(sigs) /\ \A i \in 1 .. Len(sigs) : sigs[i] \in Signal
  BY <1>1
<1>3. \A i \in 1 .. Len(sigs) : sigs[i].msb \in 0 .. ProbeW - 1 /\ sigs[i].lsb \in 0 .. ProbeW - 1
  BY <1>2 DEF Signal
<1> QED
  BY <1>2, <1>3 DEF WellNamed

LEMMA ExtractType ==
  ASSUME NEW s, s.lsb \in Nat, NEW sample, sample \subseteq Nat
  PROVE  Extract(s, sample) \in SUBSET Nat
<1>1. ASSUME NEW b \in sample \cap Bits(s) PROVE b - s.lsb \in Nat
  <2>1. b \in Nat /\ s.lsb <= b
    BY DEF Bits
  <2> QED
    BY <2>1
<1> QED
  BY <1>1 DEF Extract

LEMMA PaletteLaw == \A sample \in Palette : sample \subseteq 0 .. ProbeW - 1 /\ sample \subseteq Nat
<1>1. \A sample \in Palette : sample \subseteq 0 .. ProbeW - 1
  BY ExportsAssumption
<1>2. ProbeW \in Nat /\ 0 .. ProbeW - 1 \subseteq Nat
  BY ExportsAssumption
<1> QED
  BY <1>1, <1>2

\* The changes of one sample: one for every track that changed.
ChangesOf(q, sample, t) ==
  /\ q \in Seq(Entry)
  /\ \A k \in 1 .. Len(q) : q[k].time = t
  /\ \A w \in Tracks : Changed(TrackName(w), ValueOf(w, sample, t)) =>
       \E k \in 1 .. Len(q) : q[k].code = Code(w) /\ q[k].value = ValueOf(w, sample, t)
  /\ \A k \in 1 .. Len(q) : \E w \in Tracks :
       q[k].code = Code(w) /\ Changed(TrackName(w), ValueOf(w, sample, t))
  /\ \A k, l \in 1 .. Len(q) : q[k].code = q[l].code => k = l

LEMMA ChangesLaw ==
  ASSUME WellNamed(sigs), trigPos \in 0 .. MaxSamples - 1 \cup {NoTrigger},
         NEW sample \in Palette, NEW t \in Nat
  PROVE  ChangesOf(Changes(sample, t), sample, t)
<1> DEFINE n == Len(sigs)
           new(w) == ValueOf(w, sample, t)
           moved(w) == Changed(TrackName(w), new(w))
           entry(w) == Change(t, Code(w), new(w))
           kept == {i \in 1 .. n : moved(i)}
           x == [i \in 1 .. n |-> entry(i)]
           parts == [i \in 1 .. n |-> IF i \in kept THEN <<x[i]>> ELSE <<>>]
           wires == FlattenSeq(parts)
           mark == IF moved(n + 1) THEN <<entry(n + 1)>> ELSE <<>>
<1>1. /\ n \in Nat /\ DOMAIN sigs = 1 .. n
      /\ \A i \in 1 .. n : sigs[i].lsb \in 0 .. ProbeW - 1
  BY SignalsLaw
<1>2. NoTrigger \notin Nat /\ ProbeW \in Nat
  BY ExportsAssumption
<1>3. /\ \A i \in 1 .. n : new(i) = Extract(sigs[i], sample) /\ TrackName(i) = sigs[i].name
      /\ new(n + 1) = IF t = trigPos THEN {0} ELSE {}
      /\ TrackName(n + 1) = <<"trig">>
      /\ TrigCode = Code(n + 1)
  <2>1. \A i \in 1 .. n : i # n + 1
    BY <1>1
  <2>2. n + 1 - 1 = n
    BY <1>1
  <2>3. TrigCode = Code(n + 1)
    BY <2>2 DEF TrigCode, Code
  <2> QED
    BY <2>1, <2>3 DEF ValueOf, TrackName
<1>4. ASSUME NEW w \in 1 .. n + 1
      PROVE  /\ entry(w) \in Entry /\ entry(w).time = t /\ entry(w).code = Code(w)
             /\ entry(w).value = new(w)
  <2>1. Code(w) \in Figures
    <3>1. w - 1 + 1 = w /\ w \in Nat
      BY <1>1
    <3> QED
      BY <3>1, DigitsLaw DEF Code, Ident
  <2>2. new(w) \in SUBSET Nat
    <3>1. CASE w = n + 1
      BY <1>3, <3>1
    <3>2. CASE w # n + 1
      <4>1. w \in 1 .. n
        BY <1>1, <3>2
      <4>2. sigs[w].lsb \in Nat /\ sample \subseteq Nat
        BY <1>1, <1>2, <4>1, PaletteLaw
      <4>3. Extract(sigs[w], sample) \in SUBSET Nat
        BY <4>2, ExtractType
      <4> QED
        BY <1>3, <4>1, <4>3
    <3> QED
      BY <3>1, <3>2
  <2> HIDE DEF new
  <2>3. entry(w) = [time |-> t, code |-> Code(w), value |-> new(w)]
    BY DEF Change
  <2> QED
    BY <2>1, <2>2, <2>3 DEF Entry
<1>5. Changes(sample, t) = wires \o mark
  <2> DEFINE trig == IF trigPos # NoTrigger /\ t = trigPos THEN {0} ELSE {}
             given == [i \in DOMAIN sigs |->
                         IF Changed(sigs[i].name, Extract(sigs[i], sample))
                         THEN <<Change(t, Code(i), Extract(sigs[i], sample))>> ELSE <<>>]
  <2>1. trig = new(n + 1)
    BY <1>2, <1>3
  <2>2. parts = given
    <3>1. ASSUME NEW i \in 1 .. n
          PROVE  parts[i] = IF Changed(sigs[i].name, Extract(sigs[i], sample))
                            THEN <<Change(t, Code(i), Extract(sigs[i], sample))>> ELSE <<>>
      <4>1. new(i) = Extract(sigs[i], sample) /\ TrackName(i) = sigs[i].name
        BY <1>3
      <4> HIDE DEF new
      <4> QED
        BY <4>1
    <3> HIDE DEF kept, x
    <3>2. parts = [i \in 1 .. n |-> parts[i]]
      OBVIOUS
    <3> HIDE DEF parts
    <3> QED
      BY <1>1, <3>1, <3>2
  <2>3. Changes(sample, t) =
          FlattenSeq(given) \o (IF Changed(<<"trig">>, trig) THEN <<Change(t, TrigCode, trig)>> ELSE <<>>)
    BY Zenon DEF Changes
  <2>4. mark = IF Changed(<<"trig">>, trig) THEN <<Change(t, TrigCode, trig)>> ELSE <<>>
    <3> HIDE DEF new, trig
    <3> QED
      BY <1>3, <2>1
  <2> HIDE DEF parts, given, mark, trig
  <2> QED
    BY <2>2, <2>3, <2>4
<1> HIDE DEF new, moved, entry
<1>6. x \in [1 .. n -> Entry] /\ \A i \in 1 .. n : x[i] = entry(i)
  <2>1. \A i \in 1 .. n : i \in 1 .. n + 1
    BY <1>1
  <2> QED
    BY <1>4, <2>1
<1>7. wires \in Seq(Entry) /\ \E from : Lists(wires, x, kept, from)
  <2>1. kept \in SUBSET (1 .. n)
    OBVIOUS
  <2> HIDE DEF n, x, kept
  <2> QED
    BY <1>1, <1>6, <2>1, FlattenSingles DEF n
<1>8. \A i : i \in kept <=> i \in 1 .. n /\ moved(i)
  OBVIOUS
<1> HIDE DEF wires, kept, x
<1>9. PICK from : Lists(wires, x, kept, from)
  BY <1>7
<1>10. ASSUME NEW k \in 1 .. Len(wires)
       PROVE  from[k] \in kept /\ from[k] \in 1 .. n /\ moved(from[k]) /\ wires[k] = entry(from[k])
  <2>1. from[k] \in kept /\ wires[k] = x[from[k]]
    BY <1>9 DEF Lists
  <2> QED
    BY <1>6, <1>8, <2>1
<1>11. ASSUME NEW k \in 1 .. Len(wires), NEW l \in 1 .. Len(wires), wires[k].code = wires[l].code
       PROVE  k = l
  <2> DEFINE i == from[k]
             j == from[l]
  <2>1. i \in 1 .. n /\ j \in 1 .. n /\ wires[k] = entry(i) /\ wires[l] = entry(j)
    BY <1>10
  <2> HIDE DEF i, j
  <2>2. i \in 1 .. n + 1 /\ j \in 1 .. n + 1 /\ i \in Nat \ {0} /\ j \in Nat \ {0}
    BY <1>1, <2>1
  <2>3. Code(i) = Code(j)
    BY <1>4, <1>11, <2>1, <2>2
  <2>4. i = j
    BY <2>2, <2>3, CodesDiffer
  <2> QED
    BY <1>9, <2>4 DEF Lists, i, j
<1>12. mark \in Seq(Entry) /\ Len(mark) = IF moved(n + 1) THEN 1 ELSE 0
  <2>1. n + 1 \in 1 .. n + 1
    BY <1>1
  <2>2. entry(n + 1) \in Entry
    BY <1>4, <2>1
  <2> QED
    BY <2>2
<1>13. moved(n + 1) => mark[1] = entry(n + 1)
  OBVIOUS
<1> HIDE DEF mark
<1> DEFINE q == wires \o mark
           a == Len(wires)
           b == Len(mark)
<1>14. /\ q \in Seq(Entry) /\ Len(q) = a + b /\ a \in Nat /\ b \in Nat
       /\ \A k \in 1 .. a + b : q[k] = IF k <= a THEN wires[k] ELSE mark[k - a]
  <2>1. wires \in Seq(Entry) /\ mark \in Seq(Entry)
    BY <1>7, <1>12
  <2>2. Len(wires) \in Nat /\ Len(mark) \in Nat
    BY <2>1
  <2>3. /\ wires \o mark \in Seq(Entry) /\ Len(wires \o mark) = Len(wires) + Len(mark)
        /\ \A k \in 1 .. Len(wires) + Len(mark) :
             (wires \o mark)[k] = IF k <= Len(wires) THEN wires[k] ELSE mark[k - Len(wires)]
    BY <2>1, ConcatProperties
  <2> QED
    BY <2>2, <2>3
<1> HIDE DEF q
<1>15. ASSUME NEW k \in 1 .. Len(q)
       PROVE  \/ k \in 1 .. a /\ q[k] = wires[k]
              \/ k = a + 1 /\ moved(n + 1) /\ q[k] = entry(n + 1)
  <2>1. CASE k <= a
    BY <1>14, <2>1
  <2>2. CASE ~(k <= a)
    <3>1. k = a + 1 /\ moved(n + 1) /\ k - a = 1
      BY <1>12, <1>14, <2>2
    <3> QED
      BY <1>13, <1>14, <2>2, <3>1
  <2> QED
    BY <2>1, <2>2
<1>16. \A k \in 1 .. a : k \in 1 .. Len(q) /\ q[k] = wires[k]
  BY <1>14
<1>17. moved(n + 1) => a + 1 \in 1 .. Len(q) /\ q[a + 1] = entry(n + 1)
  <2> SUFFICES ASSUME moved(n + 1) PROVE a + 1 \in 1 .. Len(q) /\ q[a + 1] = entry(n + 1)
    OBVIOUS
  <2>1. b = 1 /\ a + 1 \in 1 .. a + b /\ ~(a + 1 <= a) /\ a + 1 - a = 1
    BY <1>12, <1>14
  <2> QED
    BY <1>13, <1>14, <2>1
<1>18. \A k \in 1 .. a : \E w \in 1 .. n : q[k] = entry(w) /\ moved(w)
  BY <1>10, <1>16
<1>19. \A k \in 1 .. Len(q) : \E w \in 1 .. n + 1 : q[k] = entry(w) /\ moved(w)
  <2>1. \A w \in 1 .. n : w \in 1 .. n + 1
    BY <1>1
  <2>2. n + 1 \in 1 .. n + 1
    BY <1>1
  <2> QED
    BY <1>15, <1>18, <2>1, <2>2
<1>20. \A w \in 1 .. n + 1 : moved(w) => \E k \in 1 .. Len(q) : q[k] = entry(w)
  <2> TAKE w \in 1 .. n + 1
  <2> HAVE moved(w)
  <2>1. CASE w \in 1 .. n
    <3>1. PICK k \in 1 .. a : from[k] = w
      BY <1>8, <1>9, <2>1 DEF Lists
    <3> QED
      BY <1>10, <1>16, <3>1
  <2>2. CASE w = n + 1
    BY <1>17, <2>2
  <2>3. w \in 1 .. n \/ w = n + 1
    BY <1>1
  <2> QED
    BY <2>1, <2>2, <2>3
<1>21. ASSUME NEW k \in 1 .. a, moved(n + 1) PROVE q[k].code # entry(n + 1).code
  <2>1. PICK w \in 1 .. n : q[k] = entry(w)
    BY <1>18
  <2>2. w \in 1 .. n + 1 /\ n + 1 \in 1 .. n + 1 /\ w \in Nat \ {0} /\ n + 1 \in Nat \ {0} /\ w # n + 1
    BY <1>1
  <2>3. Code(w) # Code(n + 1)
    BY <2>2, CodesDiffer
  <2> QED
    BY <1>4, <2>1, <2>2, <2>3
<1>22. ASSUME NEW k \in 1 .. Len(q), NEW l \in 1 .. Len(q), q[k].code = q[l].code PROVE k = l
  <2>1. CASE k \in 1 .. a /\ l \in 1 .. a
    BY <1>11, <1>16, <1>22, <2>1
  <2>2. CASE k \in 1 .. a /\ l \notin 1 .. a
    BY <1>15, <1>21, <1>22, <2>2
  <2>3. CASE k \notin 1 .. a /\ l \in 1 .. a
    BY <1>15, <1>21, <1>22, <2>3
  <2>4. CASE k \notin 1 .. a /\ l \notin 1 .. a
    BY <1>15, <2>4
  <2> QED
    BY <2>1, <2>2, <2>3, <2>4
<1>23. \A k \in 1 .. Len(q) : q[k].time = t
  BY <1>4, <1>19
<1>24. \A w \in Tracks : moved(w) => \E k \in 1 .. Len(q) : q[k].code = Code(w) /\ q[k].value = new(w)
  BY <1>4, <1>20 DEF Tracks
<1>25. \A k \in 1 .. Len(q) : \E w \in Tracks : q[k].code = Code(w) /\ moved(w)
  BY <1>4, <1>19 DEF Tracks
<1>26. ChangesOf(q, sample, t)
  <2>1. q \in Seq(Entry)
    BY <1>14
  <2>2. \A k, l \in 1 .. Len(q) : q[k].code = q[l].code => k = l
    BY <1>22
  <2> QED
    BY <1>23, <1>24, <1>25, <2>1, <2>2, Zenon DEF ChangesOf, moved, new
<1> QED
  BY <1>5, <1>26 DEF q

----------------------------------------------------------------------------
(* The file as a reader sees it.                                           *)

\* The last change of a code up to time t sets the value.
Reading(file, code, t, value) ==
  \E k \in 1 .. Len(file) :
    /\ file[k].code = code /\ file[k].time <= t /\ file[k].value = value
    /\ \A m \in k + 1 .. Len(file) : file[m].code = code => file[m].time > t

\* The file up to the last of the samples given.
Written(file, given) ==
  /\ file \in Seq(Entry)
  /\ \A k \in 1 .. Len(file) : file[k].time < Len(given)
  /\ \A k, l \in 1 .. Len(file) : k < l => file[k].time <= file[l].time
  /\ \A t \in 0 .. Len(given) - 1, w \in Tracks :
       Reading(file, Code(w), t, ValueOf(w, given[t + 1], t))

\* The writer remembers the values of the last sample.
Remembers(last, given) ==
  IF given = <<>> THEN DOMAIN last = {}
  ELSE /\ DOMAIN last = {TrackName(w) : w \in Tracks}
       /\ \A w \in Tracks :
            last[TrackName(w)] = ValueOf(w, given[Len(given)], Len(given) - 1)

\* The changes of the next sample continue the file.
LEMMA WrittenOn ==
  ASSUME WellNamed(sigs), Written(vcd, samples), Remembers(prev, samples),
         samples \in Seq(Palette), NEW sample \in Palette,
         NEW q, ChangesOf(q, sample, Len(samples))
  PROVE  Written(vcd \o q, Append(samples, sample))
<1> DEFINE T == Len(samples)
           given == Append(samples, sample)
           a == Len(vcd)
           b == Len(q)
           file == vcd \o q
<1>1. /\ T \in Nat /\ Len(given) = T + 1 /\ given[T + 1] = sample
      /\ \A i \in 1 .. T : given[i] = samples[i]
  BY AppendProperties
<1>2. /\ vcd \in Seq(Entry) /\ q \in Seq(Entry) /\ a \in Nat /\ b \in Nat
      /\ \A k \in 1 .. a : vcd[k].time \in Nat /\ vcd[k].time < T
      /\ \A k \in 1 .. b : q[k].time = T
  <2>1. vcd \in Seq(Entry) /\ q \in Seq(Entry)
    BY DEF Written, ChangesOf
  <2>2. \A k \in 1 .. a : vcd[k] \in Entry
    BY <2>1
  <2>3. \A k \in 1 .. a : vcd[k].time \in Nat
    BY <2>2 DEF Entry
  <2> QED
    BY <2>1, <2>3 DEF Written, ChangesOf
<1>3. /\ file \in Seq(Entry) /\ Len(file) = a + b
      /\ \A k \in 1 .. a + b : file[k] = IF k <= a THEN vcd[k] ELSE q[k - a]
  BY <1>2, ConcatProperties
<1> HIDE DEF file, given
<1>4. ASSUME NEW k \in 1 .. a PROVE k \in 1 .. Len(file) /\ file[k] = vcd[k]
  <2>1. k \in 1 .. a + b /\ k <= a
    BY <1>2
  <2> QED
    BY <1>3, <2>1
<1>5. \A k \in 1 .. b : a + k \in 1 .. Len(file) /\ a + k > a /\ file[a + k] = q[k]
  <2>1. \A k \in 1 .. b : a + k \in 1 .. a + b /\ ~(a + k <= a) /\ a + k - a = k
    BY <1>2
  <2> QED
    BY <1>2, <1>3, <2>1
<1>6. ASSUME NEW k \in 1 .. Len(file), k \notin 1 .. a
      PROVE  k - a \in 1 .. b /\ file[k] = q[k - a]
  <2>1. k \in 1 .. a + b
    BY <1>3
  <2>2. ~(k <= a)
    BY <1>6
  <2>3. file[k] = q[k - a]
    BY <1>3, <2>1, <2>2
  <2>4. k - a \in 1 .. b
    BY <1>2, <2>1, <2>2
  <2> QED
    BY <2>3, <2>4
<1>7. ASSUME NEW k \in 1 .. Len(file)
      PROVE  /\ file[k].time \in Nat /\ file[k].time < T + 1
             /\ k \notin 1 .. a => file[k].time = T
             /\ k \in 1 .. a => file[k].time < T
  <2>1. CASE k \in 1 .. a
    <3>1. file[k].time = vcd[k].time
      BY <1>4, <2>1
    <3>2. vcd[k].time \in Nat /\ vcd[k].time < T
      BY <1>2, <2>1
    <3> QED
      BY <1>1, <2>1, <3>1, <3>2
  <2>2. CASE k \notin 1 .. a
    <3>1. file[k].time = T
      BY <1>2, <1>6, <2>2
    <3> QED
      BY <1>1, <2>2, <3>1
  <2> QED
    BY <2>1, <2>2
<1>8. ASSUME NEW k \in 1 .. Len(file), NEW l \in 1 .. Len(file), k < l
      PROVE  file[k].time <= file[l].time
  <2>1. CASE l \in 1 .. a
    <3>1. k \in 1 .. a
      BY <1>8, <2>1
    <3>2. vcd[k].time <= vcd[l].time
      BY <1>8, <2>1, <3>1 DEF Written
    <3> QED
      BY <1>4, <2>1, <3>1, <3>2
  <2>2. CASE l \notin 1 .. a
    BY <1>1, <1>7, <2>2
  <2> QED
    BY <2>1, <2>2
<1>9. ASSUME NEW t \in 0 .. T - 1, NEW code, NEW value, Reading(vcd, code, t, value)
      PROVE  Reading(file, code, t, value)
  <2>1. PICK k \in 1 .. a :
          /\ vcd[k].code = code /\ vcd[k].time <= t /\ vcd[k].value = value
          /\ \A m \in k + 1 .. a : vcd[m].code = code => vcd[m].time > t
    BY <1>9 DEF Reading
  <2>2. ASSUME NEW m \in k + 1 .. Len(file), file[m].code = code PROVE file[m].time > t
    <3>1. m \in 1 .. Len(file)
      OBVIOUS
    <3>2. CASE m \in 1 .. a
      <4>1. m \in k + 1 .. a /\ file[m] = vcd[m]
        BY <1>4, <3>2
      <4> QED
        BY <2>1, <2>2, <4>1
    <3>3. CASE m \notin 1 .. a
      BY <1>1, <1>7, <3>1, <3>3
    <3> QED
      BY <3>2, <3>3
  <2>3. k \in 1 .. Len(file) /\ file[k] = vcd[k]
    BY <1>4
  <2> QED
    BY <2>1, <2>2, <2>3 DEF Reading
<1>10. ASSUME NEW w \in Tracks PROVE Reading(file, Code(w), T, ValueOf(w, sample, T))
  <2> DEFINE v == ValueOf(w, sample, T)
             c == Code(w)
  <2> HIDE DEF v
  <2>1. CASE Changed(TrackName(w), v)
    <3>1. PICK k \in 1 .. b : q[k].code = c /\ q[k].value = v
      BY <2>1 DEF ChangesOf, v
    <3>2. \A l \in 1 .. b : q[l].code = c => l = k
      BY <3>1 DEF ChangesOf
    <3>3. a + k \in 1 .. Len(file) /\ file[a + k] = q[k] /\ q[k].time = T
      BY <1>2, <1>5
    <3>4. ASSUME NEW m \in a + k + 1 .. Len(file), file[m].code = c PROVE FALSE
      <4>1. m \in 1 .. Len(file) /\ m \notin 1 .. a /\ m - a # k
        BY <1>2
      <4>2. m - a \in 1 .. b /\ file[m] = q[m - a]
        BY <1>6, <4>1
      <4> QED
        BY <3>2, <3>4, <4>1, <4>2
    <3>5. T <= T
      BY <1>1
    <3>6. /\ file[a + k].code = c /\ file[a + k].time <= T /\ file[a + k].value = v
          /\ \A m \in a + k + 1 .. Len(file) : file[m].code = c => file[m].time > T
      BY <3>1, <3>3, <3>4, <3>5
    <3> QED
      BY <3>3, <3>6 DEF Reading, v
  <2>2. CASE ~Changed(TrackName(w), v)
    <3>1. TrackName(w) \in DOMAIN prev /\ prev[TrackName(w)] = v
      BY <2>2 DEF Changed
    <3>2. samples # <<>>
      BY <3>1 DEF Remembers
    <3>3. T \in Nat /\ T # 0 /\ T - 1 \in 0 .. T - 1 /\ T - 1 + 1 = T
      BY <1>1, <3>2, EmptySeq
    <3>4. v = ValueOf(w, samples[T], T - 1)
      BY <3>1, <3>2 DEF Remembers
    <3>5. Reading(vcd, c, T - 1, v)
      BY <3>3, <3>4 DEF Written
    <3>6. PICK k \in 1 .. a :
            /\ vcd[k].code = c /\ vcd[k].time <= T - 1 /\ vcd[k].value = v
            /\ \A m \in k + 1 .. a : vcd[m].code = c => vcd[m].time > T - 1
      BY <3>5 DEF Reading
    <3>7. ASSUME NEW m \in k + 1 .. Len(file), file[m].code = c PROVE FALSE
      <4>1. CASE m \in 1 .. a
        <5>1. m \in k + 1 .. a /\ file[m] = vcd[m] /\ vcd[m].time \in Nat /\ vcd[m].time < T
          BY <1>2, <1>4, <4>1
        <5>2. vcd[m].time > T - 1
          BY <3>6, <3>7, <5>1
        <5> QED
          BY <3>3, <5>1, <5>2
      <4>2. CASE m \notin 1 .. a
        <5>1. m - a \in 1 .. b /\ file[m] = q[m - a]
          BY <1>6, <4>2
        <5>2. PICK u \in Tracks : q[m - a].code = Code(u) /\ Changed(TrackName(u), ValueOf(u, sample, T))
          BY <5>1 DEF ChangesOf
        <5>3. u \in Nat \ {0} /\ w \in Nat \ {0}
          BY SignalsLaw DEF Tracks
        <5>4. u = w
          BY <3>7, <5>1, <5>2, <5>3, CodesDiffer
        <5> QED
          BY <2>2, <5>2, <5>4 DEF v
      <4> QED
        BY <4>1, <4>2
    <3>8. k \in 1 .. Len(file) /\ file[k] = vcd[k] /\ vcd[k].time <= T
      <4>1. vcd[k].time \in Nat /\ vcd[k].time < T
        BY <1>2
      <4> QED
        BY <1>1, <1>4, <4>1
    <3> QED
      BY <3>6, <3>7, <3>8 DEF Reading, v
  <2> QED
    BY <2>1, <2>2
<1>11. ASSUME NEW t \in 0 .. Len(given) - 1, NEW w \in Tracks
       PROVE  Reading(file, Code(w), t, ValueOf(w, given[t + 1], t))
  <2>1. CASE t = T
    BY <1>1, <1>10, <2>1
  <2>2. CASE t # T
    <3>1. t \in 0 .. T - 1 /\ given[t + 1] = samples[t + 1]
      <4>1. t \in 0 .. T - 1 /\ t + 1 \in 1 .. T
        BY <1>1, <2>2
      <4> QED
        BY <1>1, <4>1
    <3>2. Reading(vcd, Code(w), t, ValueOf(w, samples[t + 1], t))
      BY <3>1 DEF Written
    <3> QED
      BY <1>9, <3>1, <3>2
  <2> QED
    BY <2>1, <2>2
<1>12. Written(file, given)
  BY <1>1, <1>3, <1>7, <1>8, <1>11 DEF Written
<1> QED
  BY <1>12 DEF file, given

\* What the writer remembers after a sample.
LEMMA RemembersOn ==
  ASSUME WellNamed(sigs), samples \in Seq(Palette), NEW sample \in Palette, WriteSample(sample)
  PROVE  Remembers(prev', Append(samples, sample))
<1> DEFINE T == Len(samples)
           n == Len(sigs)
           wires == {sigs[i] : i \in DOMAIN sigs}
           last(name) == IF name = <<"trig">> THEN IF T = trigPos THEN {0} ELSE {}
                         ELSE Extract(CHOOSE s \in wires : s.name = name, sample)
           names == {s.name : s \in wires} \cup {<<"trig">>}
<1>1. prev' = [name \in names |-> last(name)]
  BY DEF WriteSample
<1>2. /\ n \in Nat /\ DOMAIN sigs = 1 .. n
      /\ \A i \in 1 .. n : sigs[i].name # <<"trig">>
      /\ \A i, j \in 1 .. n : sigs[i].name = sigs[j].name => i = j
  BY SignalsLaw
<1>3. /\ T \in Nat /\ Len(Append(samples, sample)) = T + 1 /\ Append(samples, sample)[T + 1] = sample
      /\ Append(samples, sample) # <<>> /\ T + 1 - 1 = T
  BY AppendProperties
<1>4. TrackName(n + 1) = <<"trig">> /\ \A i \in 1 .. n : TrackName(i) = sigs[i].name
  <2>1. \A i \in 1 .. n : i # n + 1
    BY <1>2
  <2> QED
    BY <2>1 DEF TrackName
<1>5. wires = {sigs[i] : i \in 1 .. n}
  BY <1>2
<1>6. Tracks = (1 .. n) \cup {n + 1}
  BY <1>2 DEF Tracks
<1>7. names = {TrackName(w) : w \in Tracks}
  <2> HIDE DEF n, wires
  <2>1. \A name : name \in names <=> name = <<"trig">> \/ \E i \in 1 .. n : name = sigs[i].name
    BY <1>5
  <2>2. \A name : name \in {TrackName(w) : w \in Tracks} <=>
                    name = <<"trig">> \/ \E i \in 1 .. n : name = sigs[i].name
    BY <1>4, <1>6
  <2> HIDE DEF names
  <2> QED
    BY <2>1, <2>2
<1>8. ASSUME NEW w \in Tracks PROVE last(TrackName(w)) = ValueOf(w, sample, T)
  <2>1. CASE w = n + 1
    BY <1>4, <2>1 DEF ValueOf
  <2>2. CASE w \in 1 .. n
    <3>1. TrackName(w) = sigs[w].name /\ TrackName(w) # <<"trig">> /\ w # n + 1
      BY <1>2, <1>4, <2>2
    <3>2. (CHOOSE s \in wires : s.name = TrackName(w)) = sigs[w]
      <4>1. sigs[w] \in wires /\ sigs[w].name = TrackName(w)
        BY <1>5, <2>2, <3>1
      <4>2. \A s \in wires : s.name = TrackName(w) => s = sigs[w]
        BY <1>2, <1>5, <2>2, <3>1
      <4> HIDE DEF wires
      <4> QED
        BY <4>1, <4>2
    <3> HIDE DEF wires
    <3>3. last(TrackName(w)) = Extract(sigs[w], sample)
      BY <3>1, <3>2
    <3> QED
      BY <3>1, <3>3 DEF ValueOf
  <2> QED
    BY <1>6, <2>1, <2>2
<1> HIDE DEF wires, last, names
<1>9. DOMAIN prev' = {TrackName(w) : w \in Tracks}
  BY <1>1, <1>7
<1>10. \A w \in Tracks : prev'[TrackName(w)] = ValueOf(w, sample, T)
  <2>1. \A w \in Tracks : TrackName(w) \in names
    BY <1>7
  <2> QED
    BY <1>1, <1>8, <2>1
<1> QED
  BY <1>3, <1>9, <1>10 DEF Remembers

ExportInv ==
  /\ ExportTypes
  /\ Written(vcd, samples)
  /\ Remembers(prev, samples)

LEMMA ExportStart == ExportInit => ExportInv
<1> SUFFICES ASSUME ExportInit PROVE ExportInv
  OBVIOUS
<1>1. WellNamed(sigs) /\ CoversProbe(sigs)
  BY LoadGood DEF ExportInit
<1>2. samples = <<>> /\ prev = <<>> /\ vcd = <<>>
  BY DEF ExportInit
<1>3. ExportTypes
  <2>1. Len(<<>>) <= MaxSamples
    BY ExportsAssumption
  <2> QED
    BY <1>1, <1>2, <2>1 DEF ExportInit, ExportTypes
<1>4. Written(vcd, samples)
  BY <1>2 DEF Written
<1>5. Remembers(prev, samples)
  BY <1>2 DEF Remembers
<1> QED
  BY <1>3, <1>4, <1>5 DEF ExportInv

LEMMA ExportStep == ExportInv /\ [ExportNext]_exportVars => ExportInv'
<1> SUFFICES ASSUME ExportInv, [ExportNext]_exportVars PROVE ExportInv'
  OBVIOUS
<1> USE DEF ExportInv
<1>1. CASE UNCHANGED exportVars
  BY <1>1 DEF exportVars, ExportTypes, WellNamed, CoversProbe, Written, Remembers, Reading,
              Tracks, TrackName, ValueOf
<1>2. ASSUME NEW sample \in Palette, WriteSample(sample) PROVE ExportInv'
  <2>1. /\ sigs' = sigs /\ trigPos' = trigPos /\ samples' = Append(samples, sample)
        /\ vcd' = vcd \o Changes(sample, Len(samples)) /\ Len(samples) < MaxSamples
    BY <1>2 DEF WriteSample
  <2>2. /\ WellNamed(sigs) /\ CoversProbe(sigs) /\ samples \in Seq(Palette)
        /\ trigPos \in 0 .. MaxSamples - 1 \cup {NoTrigger}
    BY DEF ExportTypes
  <2>3. /\ Append(samples, sample) \in Seq(Palette) /\ Len(Append(samples, sample)) = Len(samples) + 1
        /\ Len(samples) \in Nat
    BY <2>2, AppendProperties
  <2>4. MaxSamples \in Nat
    BY ExportsAssumption
  <2>5. ExportTypes'
    <3>1. Len(samples') <= MaxSamples
      BY <2>1, <2>3, <2>4
    <3> QED
      BY <2>1, <2>2, <2>3, <3>1 DEF ExportTypes, WellNamed, CoversProbe
  <2>6. ChangesOf(Changes(sample, Len(samples)), sample, Len(samples))
    BY <2>2, <2>3, ChangesLaw
  <2>7. Written(vcd', samples')
    BY <2>1, <2>2, <2>6, WrittenOn
  <2>8. Remembers(prev', samples')
    BY <1>2, <2>1, <2>2, RemembersOn
  <2>10. (Written(vcd, samples))'
    <3> DEFINE f == vcd'
               g == samples'
    <3>1. /\ f \in Seq(Entry)
          /\ \A k \in 1 .. Len(f) : f[k].time < Len(g)
          /\ \A k, l \in 1 .. Len(f) : k < l => f[k].time <= f[l].time
          /\ \A t \in 0 .. Len(g) - 1, w \in Tracks :
               Reading(f, Code(w), t, ValueOf(w, g[t + 1], t))
      BY <2>7 DEF Written
    <3>2. /\ Tracks' = Tracks
          /\ \A w, s, t : (ValueOf(w, s, t))' = ValueOf(w, s, t)
      BY <2>1 DEF Tracks, ValueOf
    <3> QED
      BY <2>1, <3>1, <3>2 DEF Written, Tracks, ValueOf
  <2>11. (Remembers(prev, samples))'
    BY <2>1, <2>8 DEF Remembers, Tracks, TrackName, ValueOf
  <2> QED
    BY <2>5, <2>10, <2>11
<1> QED
  BY <1>1, <1>2 DEF ExportNext

----------------------------------------------------------------------------
(* What the reader is promised.                                            *)

LEMMA VcdGood == ExportInv => VcdReplays
<1> SUFFICES ASSUME ExportInv PROVE VcdReplays
  OBVIOUS
<1> DEFINE n == Len(sigs)
           reads(code, t, value) ==
             \E k \in DOMAIN vcd :
               /\ vcd[k].code = code /\ vcd[k].time <= t /\ vcd[k].value = value
               /\ \A m \in k + 1 .. Len(vcd) : vcd[m].code = code => vcd[m].time > t
<1>1. Written(vcd, samples) /\ WellNamed(sigs)
  BY DEF ExportInv, ExportTypes
<1>2. n \in Nat /\ DOMAIN sigs = 1 .. n
  BY <1>1, SignalsLaw
<1>3. vcd \in Seq(Entry) /\ DOMAIN vcd = 1 .. Len(vcd)
  BY <1>1 DEF Written
<1>4. ASSUME NEW code, NEW t, NEW value, Reading(vcd, code, t, value)
      PROVE  reads(code, t, value)
  BY <1>3, <1>4 DEF Reading
<1> HIDE DEF reads
<1>5. ASSUME NEW t \in 0 .. Len(samples) - 1, NEW i \in DOMAIN sigs
      PROVE  reads(Code(i), t, Extract(sigs[i], samples[t + 1]))
  <2>1. i \in Tracks /\ i # n + 1
    BY <1>2 DEF Tracks
  <2>2. ValueOf(i, samples[t + 1], t) = Extract(sigs[i], samples[t + 1])
    BY <2>1 DEF ValueOf
  <2> QED
    BY <1>1, <1>4, <2>1, <2>2 DEF Written
<1>6. ASSUME NEW t \in 0 .. Len(samples) - 1
      PROVE  reads(TrigCode, t, IF t = trigPos THEN {0} ELSE {})
  <2>1. n + 1 \in Tracks /\ TrigCode = Code(n + 1)
    <3>1. n + 1 - 1 = n
      BY <1>2
    <3> QED
      BY <1>2, <3>1 DEF Tracks, TrigCode, Code
  <2>2. ValueOf(n + 1, samples[t + 1], t) = IF t = trigPos THEN {0} ELSE {}
    BY DEF ValueOf
  <2>3. Reading(vcd, Code(n + 1), t, ValueOf(n + 1, samples[t + 1], t))
    BY <1>1, <2>1 DEF Written
  <2> QED
    BY <1>4, <2>1, <2>2, <2>3
<1>7. \A k, l \in 1 .. Len(vcd) : k < l => vcd[k].time <= vcd[l].time
  BY <1>1 DEF Written
<1> QED
  BY <1>5, <1>6, <1>7, Zenon DEF VcdReplays, reads

LEMMA CoverGood == ExportInv => NamesCoverProbe
<1> SUFFICES ASSUME ExportInv, NEW t \in DOMAIN samples
             PROVE  samples[t] = UNION {{b + s.lsb : b \in Extract(s, samples[t])} :
                                          s \in {sigs[i] : i \in DOMAIN sigs}}
  BY DEF NamesCoverProbe
<1> DEFINE sample == samples[t]
           lane(s) == {b + s.lsb : b \in Extract(s, sample)}
           all == {sigs[i] : i \in DOMAIN sigs}
<1>1. samples \in Seq(Palette) /\ WellNamed(sigs) /\ CoversProbe(sigs)
  BY DEF ExportInv, ExportTypes
<1>2. sample \subseteq 0 .. ProbeW - 1 /\ sample \subseteq Nat
  <2>1. sample \in Palette
    BY <1>1
  <2> QED
    BY <2>1, PaletteLaw
<1> HIDE DEF sample
<1>3. /\ DOMAIN sigs = 1 .. Len(sigs)
      /\ \A i \in 1 .. Len(sigs) : sigs[i].lsb \in Nat
  <2>1. \A i \in 1 .. Len(sigs) : sigs[i].lsb \in 0 .. ProbeW - 1
    BY <1>1, SignalsLaw
  <2>2. DOMAIN sigs = 1 .. Len(sigs) /\ ProbeW \in Nat
    BY <1>1, SignalsLaw, ExportsAssumption
  <2> QED
    BY <2>1, <2>2
<1>4. ASSUME NEW s, s.lsb \in Nat PROVE lane(s) = sample \cap Bits(s)
  <2>1. ASSUME NEW b \in sample \cap Bits(s) PROVE b \in lane(s)
    <3>1. b - s.lsb \in Extract(s, sample)
      BY DEF Extract
    <3>2. b - s.lsb + s.lsb = b
      BY <1>2, <1>4
    <3> QED
      BY <3>1, <3>2
  <2>2. ASSUME NEW c \in Extract(s, sample) PROVE c + s.lsb \in sample \cap Bits(s)
    <3>1. PICK b \in sample \cap Bits(s) : c = b - s.lsb
      BY DEF Extract
    <3>2. c + s.lsb = b
      BY <1>2, <1>4, <3>1
    <3> QED
      BY <3>2
  <2> QED
    BY <2>1, <2>2
<1> HIDE DEF lane
<1>5. ASSUME NEW b \in sample PROVE b \in UNION {lane(s) : s \in all}
  <2>1. PICK i \in 1 .. Len(sigs) : b \in Bits(sigs[i])
    BY <1>1, <1>2 DEF CoversProbe
  <2>2. b \in lane(sigs[i]) /\ sigs[i] \in all
    BY <1>3, <1>4, <2>1
  <2> HIDE DEF all
  <2> QED
    BY <2>2
<1>6. ASSUME NEW b \in UNION {lane(s) : s \in all} PROVE b \in sample
  <2>1. PICK s \in all : b \in lane(s)
    OBVIOUS
  <2>2. s.lsb \in Nat
    BY <1>3
  <2> QED
    BY <1>4, <2>1, <2>2
<1>7. sample = UNION {lane(s) : s \in all}
  <2> HIDE DEF all
  <2> QED
    BY <1>5, <1>6
<1> QED
  BY <1>7, Zenon DEF sample, lane

\* A nonempty set of numbers up to n has a greatest.
LEMMA GreatestUpTo ==
  ASSUME NEW n \in Nat, NEW S \in SUBSET (1 .. n), S # {}
  PROVE  Max(S) \in S
<1> DEFINE turned == {n - x : x \in S}
<1>1. turned \in SUBSET Nat /\ turned # {}
  <2>1. \A x \in S : n - x \in Nat
    OBVIOUS
  <2> QED
    BY <2>1
<1>2. PICK y \in turned : \A z \in turned : y <= z
  BY <1>1, LeastNatural
<1>3. PICK x \in S : y = n - x
  OBVIOUS
<1>4. \A z \in S : x >= z
  <2> TAKE z \in S
  <2>1. n - z \in turned /\ n - x <= n - z
    BY <1>2, <1>3
  <2> QED
    BY <2>1
<1>5. \E u \in S : \A z \in S : u >= z
  BY <1>4
<1> HIDE DEF turned
<1> QED
  BY <1>5, Zenon DEF Max

LEMMA BytesOfUnit ==
  /\ UnitSize \in Nat \ {0}
  /\ \A k \in 0 .. ProbeW - 1 :
       /\ k \div ByteW \in 0 .. UnitSize - 1 /\ k % ByteW \in 0 .. ByteW - 1
       /\ (k \div ByteW) * ByteW + (k % ByteW) = k
<1>1. ProbeW \in Nat \ {0} /\ ByteW \in Nat \ {0}
  BY ExportsAssumption
<1>2. \A x \in Nat : /\ x \div ByteW \in Nat /\ x % ByteW \in 0 .. ByteW - 1
                      /\ x = (x \div ByteW) * ByteW + (x % ByteW) /\ (x \div ByteW) * ByteW \in Nat
  <2>1. \A x \in Nat, w \in Nat \ {0} : /\ x \div w \in Nat /\ x % w \in 0 .. w - 1
                                        /\ x = (x \div w) * w + (x % w) /\ (x \div w) * w \in Nat
    BY Z3
  <2> QED
    BY <1>1, <2>1
<1> DEFINE full == ProbeW + ByteW - 1
           u == full \div ByteW
           r == full % ByteW
           p == u * ByteW
<1>3. full \in Nat /\ u \in Nat /\ r \in 0 .. ByteW - 1 /\ full = p + r /\ p \in Nat
  <2>1. full \in Nat
    BY <1>1
  <2> HIDE DEF full
  <2> QED
    BY <1>2, <2>1
<1>4. UnitSize = u
  BY DEF UnitSize
<1> HIDE DEF u, r
<1>5. u # 0
  <2> SUFFICES ASSUME u = 0 PROVE FALSE
    OBVIOUS
  <2>1. p = 0
    BY <1>1
  <2> HIDE DEF p
  <2> QED
    BY <1>1, <1>3, <2>1
<1>6. ASSUME NEW k \in 0 .. ProbeW - 1
      PROVE  /\ k \div ByteW \in 0 .. u - 1 /\ k % ByteW \in 0 .. ByteW - 1
             /\ (k \div ByteW) * ByteW + (k % ByteW) = k
  <2> DEFINE d == k \div ByteW
             m == k % ByteW
             e == d * ByteW
  <2>1. k \in Nat /\ d \in Nat /\ m \in 0 .. ByteW - 1 /\ k = e + m /\ e \in Nat
    <3>1. k \in Nat
      BY <1>1
    <3> QED
      BY <1>2, <3>1
  <2> HIDE DEF d, m
  <2>2. d < u
    <3> SUFFICES ASSUME u <= d PROVE FALSE
      BY <1>3, <2>1
    <3>1. p <= e
      BY <1>1, <1>3, <2>1, Products
    <3> HIDE DEF p, e
    <3> QED
      BY <1>1, <1>3, <2>1, <3>1
  <2>3. d \in 0 .. u - 1
    BY <1>3, <2>1, <2>2
  <2> QED
    BY <2>1, <2>3 DEF d, m, e
<1> QED
  BY <1>3, <1>4, <1>5, <1>6

LEMMA SrGood == ExportInv /\ samples # <<>> => SrReplays
<1> SUFFICES ASSUME ExportInv, samples # <<>> PROVE SrReplays
  OBVIOUS
<1> DEFINE n == Len(samples)
           w == UnitSize
           parts == [i \in DOMAIN samples |-> SrBytes(samples[i])]
           q == FlattenSeq(parts)
           Byte == SUBSET (0 .. ByteW - 1)
<1>1. samples \in Seq(Palette) /\ WellNamed(sigs) /\ CoversProbe(sigs)
  BY DEF ExportInv, ExportTypes
<1>2. n \in Nat \ {0} /\ DOMAIN samples = 1 .. n /\ \A i \in 1 .. n : samples[i] \in Palette
  BY <1>1, EmptySeq
<1>3. w \in Nat \ {0}
  BY BytesOfUnit
<1>4. ASSUME NEW sample
      PROVE  /\ SrBytes(sample) \in Seq(Byte) /\ Len(SrBytes(sample)) = w
             /\ \A j \in 1 .. w, b \in 0 .. ByteW - 1 :
                  b \in SrBytes(sample)[j] <=> (j - 1) * ByteW + b \in sample
  <2>1. SrBytes(sample) = [j \in 1 .. w |-> {b \in 0 .. ByteW - 1 : (j - 1) * ByteW + b \in sample}]
    BY DEF SrBytes
  <2>2. SrBytes(sample) \in [1 .. w -> Byte]
    BY <2>1
  <2> HIDE DEF w, Byte
  <2> QED
    BY <1>3, <2>1, <2>2
<1>5. /\ parts \in [1 .. n -> Seq(Byte)]
      /\ \A i \in 1 .. n : parts[i] = SrBytes(samples[i]) /\ Len(parts[i]) = w
  <2> HIDE DEF w, Byte
  <2> QED
    BY <1>2, <1>4
<1> HIDE DEF parts
<1>6. Len(q) = n * w /\ RowsOf(q, parts, n, w)
  <2> HIDE DEF n, w, Byte
  <2> QED
    BY <1>2, <1>3, <1>5, FlattenRows
<1>7. SrFile.logic = q /\ \A k \in 0 .. ProbeW - 1 : SrFile.names[k] = BitName(k)
  BY DEF SrFile, parts
<1> HIDE DEF q
<1>8. n * w = w * n
  <2> HIDE DEF n, w
  <2> QED
    BY <1>2, <1>3, Z3
<1>9. ASSUME NEW t \in 1 .. n, NEW k \in 0 .. ProbeW - 1
      PROVE  (k % ByteW \in q[(t - 1) * w + k \div ByteW + 1]) <=> (k \in samples[t])
  <2> DEFINE d == k \div ByteW
             m == k % ByteW
  <2>1. d \in 0 .. w - 1 /\ m \in 0 .. ByteW - 1 /\ d * ByteW + m = k
    BY BytesOfUnit
  <2> HIDE DEF d, m, w
  <2>2. t - 1 \in 0 .. n - 1 /\ t - 1 + 1 = t
    BY <1>2
  <2>3. q[(t - 1) * w + d + 1] = parts[t][d + 1]
    BY <1>6, <2>1, <2>2 DEF RowsOf
  <2>4. d + 1 \in 1 .. w /\ d + 1 - 1 = d
    BY <1>3, <2>1
  <2>5. m \in SrBytes(samples[t])[d + 1] <=> k \in samples[t]
    <3> DEFINE j == d + 1
    <3>1. j \in 1 .. w /\ j - 1 = d
      BY <1>3, <2>1, <2>4
    <3> HIDE DEF j
    <3>2. m \in SrBytes(samples[t])[j] <=> (j - 1) * ByteW + m \in samples[t]
      BY <1>4, <2>1, <3>1, Zenon
    <3>3. (j - 1) * ByteW + m = k
      BY <2>1, <3>1
    <3>4. m \in SrBytes(samples[t])[j] <=> k \in samples[t]
      BY <3>2, <3>3, Zenon
    <3> QED
      BY <3>4, Zenon DEF j
  <2>8. m \in q[(t - 1) * w + d + 1] <=> k \in samples[t]
    BY <1>5, <2>3, <2>5
  <2> QED
    BY <2>8 DEF d, m
<1>10. ASSUME NEW k \in 0 .. ProbeW - 1
       PROVE  \E i \in DOMAIN sigs :
                /\ k \in Bits(sigs[i]) /\ SrFile.names[k][1] = sigs[i].name
                /\ Width(sigs[i]) > 1 => SrFile.names[k][2] = k - sigs[i].lsb
  <2> DEFINE having == {i \in DOMAIN sigs : k \in Bits(sigs[i])}
             i == Max(having)
             s == sigs[i]
  <2>1. Len(sigs) \in Nat /\ DOMAIN sigs = 1 .. Len(sigs)
    BY <1>1, SignalsLaw
  <2>2. having # {} /\ having \in SUBSET (1 .. Len(sigs))
    BY <1>1, <2>1 DEF CoversProbe
  <2>3. i \in having
    <3> HIDE DEF having
    <3> QED
      BY <2>1, <2>2, GreatestUpTo
  <2>4. i \in DOMAIN sigs /\ k \in Bits(s)
    BY <2>3
  <2>5. BitName(k) = IF having = {} THEN <<<<"probe", k>>>>
                     ELSE IF Width(s) = 1 THEN <<s.name>> ELSE <<s.name, k - s.lsb>>
    BY Zenon DEF BitName
  <2> HIDE DEF having, i
  <2>6. BitName(k) = IF Width(s) = 1 THEN <<s.name>> ELSE <<s.name, k - s.lsb>>
    BY <2>2, <2>5
  <2>7. BitName(k)[1] = s.name /\ (Width(s) > 1 => BitName(k)[2] = k - s.lsb)
    <3>1. CASE Width(s) = 1
      BY <2>6, <3>1
    <3>2. CASE Width(s) # 1
      BY <2>6, <3>2
    <3> QED
      BY <3>1, <3>2
  <2> QED
    BY <1>7, <2>4, <2>7
<1> QED
  BY <1>2, <1>6, <1>7, <1>8, <1>9, <1>10, Zenon DEF SrReplays

LEMMA FocusGood == ExportInv => FocusKeepsTrigger
<1> SUFFICES ASSUME ExportInv, trigPos # NoTrigger, trigPos < Len(samples),
                    NEW around \in 1 .. MaxSamples
             PROVE  /\ Focus(around).trigPos + 1 \in DOMAIN Focus(around).samples
                    /\ Focus(around).samples[Focus(around).trigPos + 1] = samples[trigPos + 1]
  BY Zenon DEF FocusKeepsTrigger
<1> DEFINE n == Len(samples)
           lo == IF trigPos > around THEN trigPos - around ELSE 0
           hi == IF trigPos + around < n THEN trigPos + around ELSE n
           v == SubSeq(samples, lo + 1, hi)
<1>1. samples \in Seq(Palette) /\ n \in Nat /\ trigPos \in Nat /\ around \in Nat /\ around > 0
  <2>1. MaxSamples \in Nat
    BY ExportsAssumption
  <2> QED
    BY <2>1 DEF ExportInv, ExportTypes
<1>2. Focus(around) = [samples |-> v, trigPos |-> trigPos - lo]
  BY DEF Focus
<1>3. /\ lo \in Nat /\ hi \in Nat /\ lo <= trigPos /\ trigPos < hi /\ hi <= n
  BY <1>1
<1> HIDE DEF lo, hi
<1>4. Len(v) = hi - lo /\ DOMAIN v = 1 .. hi - lo /\ \A i \in 1 .. hi - lo : v[i] = samples[lo + i]
  <2>1. lo + 1 \in Int /\ hi \in Int /\ \A i \in lo + 1 .. hi : samples[i] \in Palette
    BY <1>1, <1>3
  <2>2. /\ v \in Seq(Palette) /\ Len(v) = IF lo + 1 <= hi THEN hi - (lo + 1) + 1 ELSE 0
        /\ \A i \in 1 .. hi - (lo + 1) + 1 : v[i] = samples[lo + 1 + i - 1]
    BY <2>1, SubSeqProperties
  <2>3. /\ hi - (lo + 1) + 1 = hi - lo /\ lo + 1 <= hi
        /\ \A i \in 1 .. hi - lo : lo + 1 + i - 1 = lo + i
    BY <1>1, <1>3
  <2> HIDE DEF v
  <2> QED
    BY <2>2, <2>3
<1> HIDE DEF v
<1>5. trigPos - lo + 1 \in 1 .. hi - lo /\ lo + (trigPos - lo + 1) = trigPos + 1
  BY <1>1, <1>3
<1> QED
  BY <1>2, <1>4, <1>5

\* What a user gets of a capture, in any of its forms, is the capture: the
\* VCD file and the sigrok session of vcd.py and sigrok.py can be read back,
\* the names cover the probe and the view around the trigger keeps it.
THEOREM ExportedWhole == ExportSpec => []ExportsReplay
<1>1. ExportInv => ExportsReplay
  BY VcdGood, CoverGood, SrGood, FocusGood DEF ExportsReplay
<1> QED
  BY <1>1, ExportStart, ExportStep, PTL DEF ExportSpec
=============================================================================
