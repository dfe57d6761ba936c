--------------------------- MODULE ObserverProofs ---------------------------
(***************************************************************************)
(* Proofs about what watches the capture core without a hand in it: the    *)
(* header of a DRAIN answer, for every buffer depth, window count, stamp   *)
(* width and pause between two accesses; the data frames behind it, for    *)
(* every word width and buffer length; and the golden models of            *)
(* sim/model/scope_ref.py, which agree with the RTL cycle by cycle, for    *)
(* every depth, probe width and setting of the trigger.                    *)
(***************************************************************************)
EXTENDS DrainHeader, DrainLanes, TriggerCosim, ScopeCosim, ScopeCoreProofs

(* The header of a DRAIN answer.                                           *)

Record == [wrapped : BOOLEAN, index : Addresses]

Header == [parked : BOOLEAN, wrapped : BOOLEAN, done : 0 .. MaxWindows, index : Addresses,
           low : Nat, high : Nat, records : Seq(Record)]

Places == {"off", "STATUS", "TRIG_INDEX", "TSTRIG_LO", "TSTRIG_HI", "WIN_SEL", "WIN_META", "sent"}

HeaderTypes ==
  /\ pc \in Places /\ gap \in 0 .. Pause /\ hdr \in Header
  /\ winSel \in 0 .. MaxWindows /\ winRead \in Record

\* The record of the last window is in the RAM as long as the core rests on it.
LastRecord == st = "DONE" => meta[winIdx] = [wrapped |-> wrapped, index |-> trigIndex]

AfterStatus == pc \notin {"off", "STATUS"}

\* The records read so far are those of the first windows, none beyond the
\* count of the STATUS read; the RAM has answered the next one after a pause.
RecordsSoFar ==
  IF ~AfterStatus THEN Len(hdr.records) = 0
  ELSE
    /\ hdr.done <= windowsDone
    /\ \A i \in 1 .. Len(hdr.records) : hdr.records[i] = meta[i - 1]
    /\ pc \in {"TRIG_INDEX", "TSTRIG_LO", "TSTRIG_HI"} => Len(hdr.records) = 0
    /\ pc \in {"WIN_SEL", "WIN_META"} => Len(hdr.records) < hdr.done
    /\ pc = "WIN_META" => /\ winSel = Len(hdr.records)
                          /\ gap # 0 => winRead = meta[winSel]
    /\ pc = "sent" => Len(hdr.records) = hdr.done

\* What was read of a finished run is still so: the core rests until the
\* engine is done.
PartsOfOne ==
  AfterStatus /\ hdr.parked =>
    /\ RunOver /\ hdr.done = windowsDone /\ hdr.wrapped = wrapped
    /\ pc # "TRIG_INDEX" => hdr.index = trigIndex
    /\ pc \notin {"TRIG_INDEX", "TSTRIG_LO"} => hdr.low = tsAtTrig % Low
    /\ pc \notin {"TRIG_INDEX", "TSTRIG_LO", "TSTRIG_HI"} => hdr.high = tsAtTrig \div Low

HeaderInv == HeaderTypes /\ LastRecord /\ RecordsSoFar /\ PartsOfOne

----------------------------------------------------------------------------
\* The header engine lets the core take its own steps only.
LEMMA CoreSteps == HeaderNext => Next
BY DEF HeaderNext, Next

\* The record that Collect writes stays that of the registers in DONE.
LEMMA LastRecordStep ==
  ASSUME IInv, LastRecord, Next \/ UNCHANGED vars
  PROVE  LastRecord'
<1>1. ASSUME NEW v \in BOOLEAN, NEW t \in BOOLEAN, Collect(v, t)
      PROVE  LastRecord'
  <2>1. CASE PostNext(v) = 0
    <3>1. /\ meta \in [0 .. MaxWindows -> Record] /\ winIdx \in 0 .. MaxWindows
          /\ winIdx' = winIdx
          /\ meta' = [meta EXCEPT ![winIdx] = [wrapped |-> WrappedNext(v), index |-> trigIndex]]
      BY <1>1, <2>1 DEF Collect, IInv, TypeOK, run, config, Record
    <3>2. wrapped' = WrappedNext(v) /\ trigIndex' = trigIndex
      BY <1>1 DEF Collect, Capture, Accepts
    <3> QED
      BY <3>1, <3>2 DEF LastRecord
  <2>2. CASE PostNext(v) # 0
    BY <1>1, <2>2 DEF Collect, LastRecord
  <2> QED
    BY <2>1, <2>2
<1>2. UNCHANGED vars => LastRecord'
  BY DEF vars, LastRecord
<1>3. ASSUME NEW v \in BOOLEAN, NEW t \in BOOLEAN, NEW a \in BOOLEAN, NEW d \in BOOLEAN,
             Edge(v, t, a, d)
      PROVE  LastRecord'
  <2>1. CASE Collect(v, t)
    BY <1>1, <2>1
  <2>2. CASE Rest
    BY <1>2, <2>2 DEF Rest
  <2>3. CASE Disarm(v, t) \/ Fill(v, t) \/ Watch(v, t) \/ Arm \/ NextWindow
    BY <2>3 DEF Disarm, Fill, Watch, Arm, NextWindow, StartWindow, LastRecord
  <2> QED
    BY <1>3, <2>1, <2>2, <2>3 DEF Edge
<1>4. ASSUME \/ \E p \in Addresses : WritePretrig(p)
             \/ \E w \in 0 .. MaxWindows : WriteWindows(w)
             \/ \E v, d \in BOOLEAN : Reset(v, d)
      PROVE  LastRecord'
  BY <1>4 DEF WritePretrig, WriteWindows, Reset, LastRecord
<1> QED
  BY <1>2, <1>3, <1>4 DEF Next

\* A clock edge without a strobe loses no window, keeps the records of those
\* that are done, and changes nothing at all once the run is over.
LEMMA QuietEdge ==
  ASSUME IInv, NEW v \in BOOLEAN, NEW t \in BOOLEAN, Edge(v, t, FALSE, FALSE)
  PROVE  /\ windowsDone' >= windowsDone
         /\ \A n \in 0 .. windowsDone - 1 : meta'[n] = meta[n]
         /\ RunOver => UNCHANGED vars
<1>1. windowsDone \in Nat /\ windowsQ \in Nat /\ meta \in [0 .. MaxWindows -> Record]
      /\ winIdx \in Nat
  BY DEF IInv, TypeOK, Record
<1>2. CASE Fill(v, t) \/ Watch(v, t) \/ NextWindow
  <2>1. UNCHANGED <<windowsDone, meta>>
    BY <1>2 DEF Fill, Watch, NextWindow
  <2>2. ~RunOver
    BY <1>1, <1>2 DEF Fill, Watch, NextWindow, RunOver
  <2> QED
    BY <1>1, <2>1, <2>2
<1>3. CASE Collect(v, t)
  <2>1. winIdx = windowsDone /\ ~RunOver
    BY <1>3 DEF Collect, RunOver, IInv, WindowBookkeeping, Capturing
  <2>2. windowsDone' >= windowsDone
    BY <1>1, <1>3 DEF Collect
  <2>3. meta' = meta \/ \E r : meta' = [meta EXCEPT ![windowsDone] = r]
    BY <1>3, <2>1 DEF Collect
  <2>4. \A n \in 0 .. windowsDone - 1 : meta'[n] = meta[n]
    <3> SUFFICES ASSUME NEW n \in 0 .. windowsDone - 1 PROVE meta'[n] = meta[n]
      OBVIOUS
    <3>1. n # windowsDone /\ n \in 0 .. MaxWindows
      BY <1>1, MaxWindowsAssumption DEF IInv, TypeOK
    <3> QED
      BY <1>1, <2>3, <3>1
  <2> QED
    BY <2>1, <2>2, <2>4
<1>4. CASE Rest
  BY <1>1, <1>4 DEF Rest, vars, run
<1> QED
  BY <1>2, <1>3, <1>4 DEF Edge

\* Before the STATUS read only the types, the record of the last window and
\* an empty list of records are claimed.
LEMMA OutsideAnswer ==
  ASSUME HeaderTypes, LastRecord, pc \in {"off", "STATUS"}, Len(hdr.records) = 0
  PROVE  HeaderInv
BY DEF HeaderInv, RecordsSoFar, PartsOfOne, AfterStatus

\* The initial header satisfies the invariant.
LEMMA HeaderStart == HeaderInit => HeaderInv
<1> SUFFICES ASSUME HeaderInit PROVE HeaderInv
  OBVIOUS
<1>1. MaxWindows \in Nat /\ Pause \in Nat /\ 0 \in Addresses
  BY MaxWindowsAssumption, PauseAssumption, DepthAssumption DEF Addresses
<1>2. Empty \in Header
  BY <1>1 DEF Empty, Header, Record
<1>3. [wrapped |-> FALSE, index |-> 0] \in Record
  BY <1>1 DEF Record
<1>4. HeaderTypes
  BY <1>1, <1>2, <1>3 DEF HeaderInit, HeaderTypes, Places
<1>5. LastRecord
  BY DEF HeaderInit, Init, LastRecord
<1>6. Len(hdr.records) = 0
  BY DEF HeaderInit, Empty
<1> QED
  BY <1>4, <1>5, <1>6, OutsideAnswer DEF HeaderInit

\* Nothing that a cycle without an access leaves behind is out of type, and
\* what the metadata RAM shows is a record.
LEMMA RamAnswers ==
  ASSUME IInv, HeaderTypes, MetaRead
  PROVE  winRead' \in Record
BY DEF IInv, TypeOK, HeaderTypes, MetaRead, Record

\* While a request is being answered the core gets no strobe.
LEMMA LeftAlone ==
  ASSUME IInv, HeaderNext, pc # "off"
  PROVE  /\ windowsDone' >= windowsDone
         /\ \A n \in 0 .. windowsDone - 1 : meta'[n] = meta[n]
         /\ RunOver => UNCHANGED vars
<1>1. PICK v \in BOOLEAN, t \in BOOLEAN : Edge(v, t, FALSE, FALSE)
  BY DEF HeaderNext
<1> QED
  BY <1>1, QuietEdge

\* In the midst of an answer a step of the header leaves the core to itself:
\* what has been read of done windows and of a finished run stays true.
LEMMA StillTrue ==
  ASSUME IInv, IInv', HeaderInv, AfterStatus, HeaderNext
  PROVE  /\ hdr.done <= windowsDone'
         /\ \A i \in 1 .. Len(hdr.records) : hdr.records[i] = meta'[i - 1]
         /\ pc = "WIN_META" => winSel < windowsDone /\ meta'[winSel] = meta[winSel]
         /\ hdr.parked => RunOver' /\ UNCHANGED <<windowsDone, wrapped, trigIndex, tsAtTrig>>
<1>2. /\ windowsDone' >= windowsDone
      /\ \A n \in 0 .. windowsDone - 1 : meta'[n] = meta[n]
      /\ RunOver => UNCHANGED vars
  BY LeftAlone DEF AfterStatus
<1>3. /\ windowsDone \in Nat /\ windowsDone' \in Nat
      /\ hdr.done \in Nat /\ Len(hdr.records) \in Nat
  BY DEF IInv, TypeOK, HeaderInv, HeaderTypes, Header
<1>4. Len(hdr.records) <= hdr.done /\ hdr.done <= windowsDone
  BY <1>3 DEF HeaderInv, HeaderTypes, RecordsSoFar, AfterStatus, Places
<1>5. \A i \in 1 .. Len(hdr.records) : hdr.records[i] = meta[i - 1]
  BY DEF HeaderInv, RecordsSoFar
<1>6. \A i \in 1 .. Len(hdr.records) : hdr.records[i] = meta'[i - 1]
  <2> SUFFICES ASSUME NEW i \in 1 .. Len(hdr.records) PROVE hdr.records[i] = meta'[i - 1]
    OBVIOUS
  <2>1. i - 1 \in 0 .. windowsDone - 1
    BY <1>3, <1>4
  <2> QED
    BY <1>2, <1>5, <2>1
<1>7. pc = "WIN_META" => winSel < windowsDone /\ meta'[winSel] = meta[winSel]
  <2> SUFFICES ASSUME pc = "WIN_META" PROVE winSel < windowsDone /\ meta'[winSel] = meta[winSel]
    OBVIOUS
  <2>1. winSel = Len(hdr.records) /\ Len(hdr.records) < hdr.done
    BY DEF HeaderInv, RecordsSoFar
  <2>2. winSel \in 0 .. windowsDone - 1
    BY <1>3, <1>4, <2>1
  <2> QED
    BY <1>2, <1>3, <2>2
<1>8. hdr.parked => RunOver' /\ UNCHANGED <<windowsDone, wrapped, trigIndex, tsAtTrig>>
  BY <1>2 DEF HeaderInv, PartsOfOne, vars, run, RunOver
<1> QED
  BY <1>2, <1>3, <1>4, <1>6, <1>7, <1>8

\* The place and the selected record stay as they are in a cycle without an
\* access, and the RAM catches up with WIN_SEL.
LEMMA WaitStep ==
  ASSUME IInv, IInv', HeaderInv, LastRecord', HeaderNext, MetaRead, Wait
  PROVE  HeaderInv'
<1>1. HeaderTypes'
  <2>1. winRead' \in Record
    BY RamAnswers DEF HeaderInv
  <2>2. gap' \in 0 .. Pause
    BY PauseAssumption DEF Wait, HeaderInv, HeaderTypes
  <2> QED
    BY <2>1, <2>2 DEF Wait, HeaderInv, HeaderTypes
<1>2. CASE ~AfterStatus
  BY <1>1, <1>2 DEF HeaderInv, RecordsSoFar, PartsOfOne, AfterStatus, Wait
<1>3. CASE AfterStatus
  <2>1. /\ hdr.done <= windowsDone'
        /\ \A i \in 1 .. Len(hdr.records) : hdr.records[i] = meta'[i - 1]
        /\ pc = "WIN_META" => winSel < windowsDone /\ meta'[winSel] = meta[winSel]
        /\ hdr.parked => RunOver' /\ UNCHANGED <<windowsDone, wrapped, trigIndex, tsAtTrig>>
    BY <1>3, StillTrue
  <2>2. UNCHANGED <<pc, hdr, winSel>> /\ AfterStatus'
    BY <1>3 DEF Wait, AfterStatus
  <2>3. RecordsSoFar'
    BY <1>3, <2>1, <2>2 DEF HeaderInv, RecordsSoFar, MetaRead
  <2>4. PartsOfOne'
    BY <1>3, <2>1, <2>2 DEF HeaderInv, PartsOfOne
  <2> QED
    BY <1>1, <2>3, <2>4 DEF HeaderInv
<1> QED
  BY <1>2, <1>3

\* Every access keeps the invariant.
LEMMA AccessStep ==
  ASSUME IInv, IInv', HeaderInv, LastRecord', HeaderNext, MetaRead, Access
  PROVE  HeaderInv'
<1>1. winRead' \in Record
  BY RamAnswers DEF HeaderInv
<1>2. Pause \in Nat /\ MaxWindows \in Nat /\ Low \in Nat \ {0}
  BY PauseAssumption, MaxWindowsAssumption, LowAssumption
<1>3. /\ trigIndex \in Addresses /\ tsAtTrig \in Nat /\ wrapped \in BOOLEAN
      /\ windowsDone \in 0 .. MaxWindows /\ windowsDone' \in 0 .. MaxWindows
  BY StampAssumption DEF IInv, TypeOK, Stamps
<1>4. hdr \in Header /\ winSel \in 0 .. MaxWindows /\ winRead \in Record
  BY DEF HeaderInv, HeaderTypes
<1>5. hdr.done \in Nat /\ Len(hdr.records) \in Nat /\ hdr.records \in Seq(Record)
  BY <1>4 DEF Header
<1>6. ASSUME AfterStatus
      PROVE  /\ hdr.done <= windowsDone'
             /\ \A i \in 1 .. Len(hdr.records) : hdr.records[i] = meta'[i - 1]
             /\ pc = "WIN_META" => winSel < windowsDone /\ meta'[winSel] = meta[winSel]
             /\ hdr.parked => RunOver' /\ UNCHANGED <<windowsDone, wrapped, trigIndex, tsAtTrig>>
  BY <1>6, StillTrue
<1>7. CASE Request
  <2>1. HeaderTypes'
    BY <1>1, <1>2, <1>4, <1>7 DEF Request, HeaderTypes, Places
  <2>2. pc' = "STATUS" /\ Len(hdr'.records) = 0
    BY <1>7 DEF Request, HeaderInv, RecordsSoFar, AfterStatus
  <2> QED
    BY <2>1, <2>2 DEF HeaderInv, RecordsSoFar, PartsOfOne, AfterStatus
<1>8. CASE ReadStatus
  <2>1. /\ pc = "STATUS" /\ pc' = "TRIG_INDEX" /\ gap' = 0 /\ winSel' = winSel
        /\ hdr' = [hdr EXCEPT !.parked = RunOver, !.wrapped = wrapped, !.done = windowsDone]
    BY <1>8 DEF ReadStatus, At
  <2>2. /\ hdr'.parked = RunOver /\ hdr'.wrapped = wrapped /\ hdr'.done = windowsDone
        /\ hdr'.records = hdr.records /\ hdr' \in Header
    BY <1>3, <1>4, <2>1 DEF Header, RunOver
  <2>3. Len(hdr.records) = 0
    BY <2>1 DEF HeaderInv, RecordsSoFar, AfterStatus
  <2>4. windowsDone' >= windowsDone /\ (RunOver => UNCHANGED vars)
    BY <2>1, LeftAlone
  <2>5. HeaderTypes'
    BY <1>1, <1>2, <1>4, <2>1, <2>2 DEF HeaderTypes, Places
  <2>6. RecordsSoFar'
    BY <1>3, <2>1, <2>2, <2>3, <2>4 DEF RecordsSoFar, AfterStatus
  <2>7. PartsOfOne'
    BY <2>1, <2>2, <2>4 DEF PartsOfOne, AfterStatus, RunOver, vars, run
  <2> QED
    BY <2>5, <2>6, <2>7 DEF HeaderInv
<1>9. CASE ReadIndex
  <2>1. /\ pc = "TRIG_INDEX" /\ pc' = "TSTRIG_LO" /\ gap' = 0 /\ winSel' = winSel
        /\ hdr' = [hdr EXCEPT !.index = trigIndex] /\ AfterStatus /\ AfterStatus'
    BY <1>9 DEF ReadIndex, At, AfterStatus
  <2>2. /\ UNCHANGED <<hdr.parked, hdr.wrapped, hdr.done, hdr.records>>
        /\ hdr'.index = trigIndex /\ hdr' \in Header
    BY <1>3, <1>4, <2>1 DEF Header
  <2>3. HeaderTypes'
    BY <1>1, <1>2, <1>4, <2>1, <2>2 DEF HeaderTypes, Places
  <2>4. RecordsSoFar'
    BY <1>6, <2>1, <2>2 DEF HeaderInv, RecordsSoFar
  <2>5. PartsOfOne'
    BY <1>6, <2>1, <2>2 DEF HeaderInv, PartsOfOne
  <2> QED
    BY <2>3, <2>4, <2>5 DEF HeaderInv
<1>10. CASE ReadLow
  <2>1. /\ pc = "TSTRIG_LO" /\ pc' = "TSTRIG_HI" /\ gap' = 0 /\ winSel' = winSel
        /\ hdr' = [hdr EXCEPT !.low = tsAtTrig % Low] /\ AfterStatus /\ AfterStatus'
    BY <1>10 DEF ReadLow, At, AfterStatus
  <2>2. tsAtTrig % Low \in Nat
    BY <1>2, <1>3
  <2>3. /\ UNCHANGED <<hdr.parked, hdr.wrapped, hdr.done, hdr.records, hdr.index>>
        /\ hdr'.low = tsAtTrig % Low /\ hdr' \in Header
    BY <1>4, <2>1, <2>2 DEF Header
  <2>4. HeaderTypes'
    BY <1>1, <1>2, <1>4, <2>1, <2>3 DEF HeaderTypes, Places
  <2>5. RecordsSoFar'
    BY <1>6, <2>1, <2>3 DEF HeaderInv, RecordsSoFar
  <2>6. PartsOfOne'
    BY <1>6, <2>1, <2>3 DEF HeaderInv, PartsOfOne
  <2> QED
    BY <2>4, <2>5, <2>6 DEF HeaderInv
<1>11. CASE ReadHigh
  <2>1. /\ pc = "TSTRIG_HI" /\ pc' = (IF More(0) THEN "WIN_SEL" ELSE "sent")
        /\ gap' = 0 /\ winSel' = winSel
        /\ hdr' = [hdr EXCEPT !.high = tsAtTrig \div Low] /\ AfterStatus /\ AfterStatus'
    BY <1>11 DEF ReadHigh, At, AfterStatus
  <2>2. tsAtTrig \div Low \in Nat
    BY <1>2, <1>3
  <2>3. /\ UNCHANGED <<hdr.parked, hdr.wrapped, hdr.done, hdr.records, hdr.index, hdr.low>>
        /\ hdr'.high = tsAtTrig \div Low /\ hdr' \in Header
    BY <1>4, <2>1, <2>2 DEF Header
  <2>4. HeaderTypes'
    BY <1>1, <1>2, <1>4, <2>1, <2>3 DEF HeaderTypes, Places
  <2>5. Len(hdr.records) = 0
    BY <2>1 DEF HeaderInv, RecordsSoFar
  <2>6. RecordsSoFar'
    BY <1>5, <1>6, <2>1, <2>3, <2>5 DEF RecordsSoFar, More
  <2>7. PartsOfOne'
    BY <1>6, <2>1, <2>3 DEF HeaderInv, PartsOfOne
  <2> QED
    BY <2>4, <2>6, <2>7 DEF HeaderInv
<1>12. CASE Select
  <2>1. /\ pc = "WIN_SEL" /\ pc' = "WIN_META" /\ gap' = 0 /\ winSel' = Len(hdr.records)
        /\ hdr' = hdr /\ AfterStatus /\ AfterStatus'
    BY <1>12 DEF Select, At, AfterStatus
  <2>2. Len(hdr.records) < hdr.done
    BY <2>1 DEF HeaderInv, RecordsSoFar
  <2>3. winSel' \in 0 .. MaxWindows
    <3>1. hdr.done \in 0 .. MaxWindows
      BY <1>4 DEF Header
    <3> QED
      BY <1>2, <1>5, <2>1, <2>2, <3>1
  <2>4. HeaderTypes'
    BY <1>1, <1>2, <1>4, <2>1, <2>3 DEF HeaderTypes, Places
  <2>5. RecordsSoFar'
    BY <1>6, <2>1, <2>2 DEF RecordsSoFar
  <2>6. PartsOfOne'
    BY <1>6, <2>1 DEF HeaderInv, PartsOfOne
  <2> QED
    BY <2>4, <2>5, <2>6 DEF HeaderInv
<1>13. CASE ReadMeta
  <2>1. /\ pc = "WIN_META" /\ gap = Pause /\ gap' = 0 /\ winSel' = winSel
        /\ pc' = (IF More(Len(hdr.records) + 1) THEN "WIN_SEL" ELSE "sent")
        /\ hdr' = [hdr EXCEPT !.records = Append(hdr.records, winRead)]
        /\ AfterStatus /\ AfterStatus'
    BY <1>13 DEF ReadMeta, At, AfterStatus
  <2>2. /\ UNCHANGED <<hdr.parked, hdr.wrapped, hdr.done, hdr.index, hdr.low, hdr.high>>
        /\ hdr'.records = Append(hdr.records, winRead) /\ hdr' \in Header
    <3> DEFINE longer == Append(hdr.records, winRead)
    <3>1. longer \in Seq(Record)
      BY <1>4, <1>5
    <3>2. hdr' = [hdr EXCEPT !.records = longer]
      BY <2>1
    <3> HIDE DEF longer
    <3>3. /\ UNCHANGED <<hdr.parked, hdr.wrapped, hdr.done, hdr.index, hdr.low, hdr.high>>
          /\ hdr'.records = longer /\ hdr' \in Header
      BY <1>4, <3>1, <3>2 DEF Header
    <3> QED
      BY <3>3 DEF longer
  <2>3. /\ Len(hdr.records) < hdr.done /\ winSel = Len(hdr.records)
        /\ winRead = meta[winSel]
    BY <2>1, PauseAssumption DEF HeaderInv, RecordsSoFar
  <2>4. /\ Len(hdr'.records) = Len(hdr.records) + 1
        /\ \A i \in 1 .. Len(hdr.records) : hdr'.records[i] = hdr.records[i]
        /\ hdr'.records[Len(hdr.records) + 1] = winRead
    BY <1>4, <1>5, <2>2
  <2>5. HeaderTypes'
    BY <1>1, <1>2, <1>4, <2>1, <2>2 DEF HeaderTypes, Places
  <2>6. \A i \in 1 .. Len(hdr'.records) : hdr'.records[i] = meta'[i - 1]
    <3> SUFFICES ASSUME NEW i \in 1 .. Len(hdr'.records)
                 PROVE  hdr'.records[i] = meta'[i - 1]
      OBVIOUS
    <3>1. CASE i = Len(hdr.records) + 1
      <4>1. i - 1 = winSel
        BY <1>5, <2>3, <3>1
      <4> QED
        BY <1>6, <2>1, <2>3, <2>4, <3>1, <4>1
    <3>2. CASE i # Len(hdr.records) + 1
      <4>1. i \in 1 .. Len(hdr.records)
        BY <1>5, <2>4, <3>2
      <4> QED
        BY <1>6, <2>1, <2>4, <4>1
    <3> QED
      BY <3>1, <3>2
  <2>7. RecordsSoFar'
    BY <1>5, <1>6, <2>1, <2>2, <2>3, <2>4, <2>6 DEF RecordsSoFar, More
  <2>8. PartsOfOne'
    BY <1>6, <2>1, <2>2 DEF HeaderInv, PartsOfOne
  <2> QED
    BY <2>5, <2>7, <2>8 DEF HeaderInv
<1>14. CASE Sent
  <2>1. /\ pc' = "off" /\ gap' = Pause /\ hdr' = Empty /\ winSel' = winSel
    BY <1>14 DEF Sent
  <2>2. Empty \in Header /\ Len(Empty.records) = 0
    BY <1>2, DepthAssumption DEF Empty, Header, Record, Addresses
  <2>3. HeaderTypes'
    BY <1>1, <1>2, <1>4, <2>1, <2>2 DEF HeaderTypes, Places
  <2> QED
    BY <2>1, <2>2, <2>3 DEF HeaderInv, RecordsSoFar, PartsOfOne, AfterStatus
<1> QED
  BY <1>7, <1>8, <1>9, <1>10, <1>11, <1>12, <1>13, <1>14 DEF Access

\* The invariant holds whenever a header is asked for, whatever the core does
\* meanwhile.
THEOREM HeaderInvariant == HeaderSpec => [](IInv /\ HeaderInv)
<1>1. HeaderInit => Init
  BY DEF HeaderInit
<1>2. [HeaderNext]_headerVars => [Next]_vars
  BY CoreSteps DEF headerVars
<1>3. HeaderInit => HeaderInv
  BY HeaderStart
<1>4. IInv /\ IInv' /\ HeaderInv /\ [HeaderNext]_headerVars => HeaderInv'
  <2> SUFFICES ASSUME IInv, IInv', HeaderInv, [HeaderNext]_headerVars PROVE HeaderInv'
    OBVIOUS
  <2>1. CASE HeaderNext
    <3>1. LastRecord'
      BY <2>1, CoreSteps, LastRecordStep DEF HeaderInv
    <3>2. MetaRead /\ (Access \/ Wait)
      BY <2>1 DEF HeaderNext
    <3> QED
      BY <2>1, <3>1, <3>2, WaitStep, AccessStep
  <2>2. CASE UNCHANGED headerVars
    BY <2>2 DEF headerVars, vars, run, HeaderInv, HeaderTypes, LastRecord, RecordsSoFar,
                PartsOfOne, AfterStatus, RunOver
  <2> QED
    BY <2>1, <2>2
<1>5. HeaderSpec => Spec
  BY <1>1, <1>2, PTL DEF HeaderSpec, Spec
<1> QED
  BY <1>3, <1>4, <1>5, Invariant, PTL DEF HeaderSpec

\* A header has exactly the records of the windows it counts as done, each as
\* it was written, although the core completes windows while it is read.
THEOREM HeaderRecordsComplete == HeaderSpec => []RecordsOfWindowsDone
<1>1. IInv /\ HeaderInv => RecordsOfWindowsDone
  BY DEF HeaderInv, RecordsSoFar, AfterStatus, RecordsOfWindowsDone
<1> QED
  BY <1>1, HeaderInvariant, PTL

\* Index, flag, stamp and records of a parked run are of the same window, and
\* the sample at the index is the one the two halves of the stamp name.
THEOREM HeaderOfOneWindow == HeaderSpec => []ParkedHeaderIsWhole
<1>1. IInv /\ HeaderInv => ParkedHeaderIsWhole
  <2> SUFFICES ASSUME IInv, HeaderInv, pc = "sent", hdr.parked
               PROVE  /\ hdr.records[hdr.done] = [wrapped |-> hdr.wrapped, index |-> hdr.index]
                      /\ buf[hdr.index] = hdr.high * Low + hdr.low
    BY DEF ParkedHeaderIsWhole
  <2>1. /\ RunOver /\ hdr.done = windowsDone /\ hdr.wrapped = wrapped
        /\ hdr.index = trigIndex /\ hdr.low = tsAtTrig % Low
        /\ hdr.high = tsAtTrig \div Low
    BY DEF HeaderInv, PartsOfOne, AfterStatus
  <2>2. st = "DONE" /\ winIdx + 1 = windowsDone /\ winIdx \in Nat
    BY <2>1 DEF RunOver, IInv, TypeOK, WindowBookkeeping
  <2>3. hdr.records[hdr.done] = meta[hdr.done - 1]
    BY <2>1, <2>2 DEF HeaderInv, RecordsSoFar, AfterStatus
  <2>4. meta[hdr.done - 1] = [wrapped |-> wrapped, index |-> trigIndex]
    <3>1. hdr.done - 1 = winIdx
      BY <2>1, <2>2
    <3> QED
      BY <2>2, <3>1 DEF HeaderInv, LastRecord
  <2>5. buf[trigIndex] = tsAtTrig
    BY <2>2 DEF IInv, TriggerShape, TriggerSampleKept
  <2>6. tsAtTrig = (tsAtTrig \div Low) * Low + (tsAtTrig % Low)
    <3>1. tsAtTrig \in Nat /\ Low \in Nat \ {0}
      BY StampAssumption, LowAssumption DEF IInv, TypeOK, Stamps
    <3> QED
      BY <3>1, Z3
  <2> QED
    BY <2>1, <2>3, <2>4, <2>5, <2>6
<1> QED
  BY <1>1, HeaderInvariant, PTL

----------------------------------------------------------------------------
(* The trigger engine and trigger_model.                                   *)

\* Both searches for the next enabled stage find the same one, or none.
LEMMA SearchesAgree ==
  ASSUME NEW n \in Nat
  PROVE  /\ FirstEnabled(n) \in n .. Stages \cup {Stages}
         /\ FirstEnabled(n) # Stages => FirstEnabled(n) \in RefEnabled
         /\ NextEn(n) = IF FirstEnabled(n) = Stages THEN {} ELSE {FirstEnabled(n)}
         /\ FirstEnabled(n) = Stages => \A m \in RefEnabled : m < n
<1> DEFINE enabled == {i \in n .. Stages - 1 : stages[i].sel # {}}
<1>1. Stages \in Nat
  BY StagesAssumption
<1>2. enabled = {i \in RefEnabled : i >= n}
  BY <1>1 DEF RefEnabled
<1>3. enabled \in SUBSET Nat /\ RefEnabled \in SUBSET (0 .. Stages - 1)
  BY <1>1 DEF RefEnabled
<1>4. CASE enabled = {}
  <2>1. FirstEnabled(n) = Stages
    BY <1>4 DEF FirstEnabled
  <2>2. \A m \in RefEnabled : m < n
    <3>1. \A m \in RefEnabled : ~(m >= n)
      BY <1>2, <1>4
    <3> QED
      BY <1>1, <1>3, <3>1
  <2>3. NextEn(n) = {}
    BY <1>2, <1>4 DEF NextEn
  <2> QED
    BY <2>1, <2>2, <2>3
<1>5. CASE enabled # {}
  <2>1. PICK x \in enabled : \A y \in enabled : x <= y
    BY <1>3, <1>5, LeastNatural
  <2> DEFINE least == CHOOSE i \in enabled : \A j \in enabled : i <= j
  <2>2. least \in enabled /\ \A j \in enabled : least <= j
    BY <2>1
  <2>3. FirstEnabled(n) = least
    BY <1>5 DEF FirstEnabled
  <2> HIDE DEF least, enabled
  <2>4. least \in RefEnabled /\ least >= n /\ least # Stages
    BY <1>1, <1>2, <1>3, <2>2
  <2>5. NextEn(n) = {least}
    <3>1. least \in NextEn(n)
      BY <1>2, <2>2, <2>4 DEF NextEn
    <3>2. \A m \in NextEn(n) : m = least
      BY <1>2, <1>3, <2>2, <2>4 DEF NextEn
    <3> QED
      BY <3>1, <3>2
  <2> QED
    BY <1>1, <1>3, <2>3, <2>4, <2>5
<1> QED
  BY <1>4, <1>5

\* The comparators of the model judge a sample as those of the RTL do.
LEMMA HitsAgree ==
  ASSUME Settings, NEW prev \in Words, NEW s \in Words
  PROVE  RefHits(prev, s) = {k \in Units : LevelHit(units[k], s) /\ EdgeHit(units[k], prev, s)}
<1>1. ASSUME NEW k \in Units
      PROVE  LET u == units[k]
                 toggled == {b \in u.edgeMask :
                               IF b \in u.edgePol THEN b \in s /\ b \notin prev
                               ELSE b \notin s /\ b \in prev}
             IN (s \cap u.mask = u.value /\ (u.edgeMask # {} => toggled # {}))
                  <=> (LevelHit(u, s) /\ EdgeHit(u, prev, s))
  BY DEF LevelHit, EdgeHit
<1> QED
  BY <1>1 DEF RefHits

SequencerTypes ==
  /\ Settings
  /\ dly[1] \in Words /\ dly[2] \in Words /\ dly = <<dly[1], dly[2]>>
  /\ cur \in 0 .. Stages /\ occ \in Nat /\ fired \in BOOLEAN /\ trigSeq \in BOOLEAN
  /\ running \in BOOLEAN

\* The model has seen what the pipeline has: the sample before the one that
\* is judged next, and once an edge was seen, its comparator hits.
SamePipeline ==
  /\ ref.prev = dly[2]
  /\ cur # Stages =>
       /\ cur \in RefEnabled
       /\ hitQ = {k \in Units : LevelHit(units[k], dly[1]) /\ EdgeHit(units[k], dly[2], dly[1])}

SameStage ==
  running \/ cur = FirstEnabled(0) =>
    /\ ref.cur = (IF cur = Stages THEN {} ELSE {cur})
    /\ ref.occ = occ /\ ref.fired = fired /\ ref.fires = trigSeq

SequencerInv == SequencerTypes /\ SamePipeline /\ SameStage /\ TriggerSampleSatisfies

\* Engine and model start alike.
LEMMA SequencerStart == SequencerInit => SequencerInv
<1> SUFFICES ASSUME SequencerInit PROVE SequencerInv
  OBVIOUS
<1>1. SequencerTypes
  <2>1. Settings /\ dly = <<{}, {}>>
    BY DEF SequencerInit, TriggerInit
  <2>2. cur = Stages /\ occ = 0 /\ fired = FALSE /\ trigSeq = FALSE /\ running = FALSE
    BY DEF SequencerInit, TriggerInit
  <2>3. dly[1] = {} /\ dly[2] = {} /\ {} \in Words
    BY <2>1 DEF Words
  <2>4. cur \in 0 .. Stages /\ occ \in Nat
    BY <2>2, StagesAssumption
  <2> QED
    BY <2>1, <2>2, <2>3, <2>4, Zenon DEF SequencerTypes
<1>2. SamePipeline
  BY DEF SequencerInit, TriggerInit, RefStart, SamePipeline
<1>3. SameStage
  BY SearchesAgree DEF SequencerInit, TriggerInit, RefStart, SameStage
<1>4. TriggerSampleSatisfies
  BY DEF SequencerInit, TriggerInit, TriggerSampleSatisfies
<1> QED
  BY <1>1, <1>2, <1>3, <1>4 DEF SequencerInv

\* The pipeline moves on by a sample.
LEMMA ObserveStep ==
  ASSUME SequencerInv, NEW probe \in Words, Observe(probe), UNCHANGED settings
  PROVE  /\ Settings' /\ dly' = <<probe, dly[1]>>
         /\ dly'[1] \in Words /\ dly'[2] \in Words /\ dly' = <<dly'[1], dly'[2]>>
         /\ hitQ' = {k \in Units : LevelHit(units'[k], dly'[1]) /\ EdgeHit(units'[k], dly'[2], dly'[1])}
         /\ RefEnabled' = RefEnabled /\ units' = units /\ stages' = stages
<1>1. dly' = <<probe, dly[1]>> /\ units' = units /\ stages' = stages
  BY DEF Observe, settings
<1>2. dly'[1] = probe /\ dly'[2] = dly[1]
  BY <1>1
<1>3. hitQ' = {k \in Units : LevelHit(units'[k], dly'[1]) /\ EdgeHit(units'[k], dly'[2], dly'[1])}
  BY <1>1, <1>2 DEF Observe
<1> QED
  BY <1>1, <1>2, <1>3 DEF Settings, RefEnabled, SequencerInv, SequencerTypes

\* With run low both wait at the first enabled stage.
LEMMA ParkStep ==
  ASSUME SequencerInv, NEW probe \in Words, TriggerEdge(probe, FALSE),
         ref' = RefStart(dly[1]), running' = FALSE
  PROVE  SequencerInv'
<1>1. Observe(probe) /\ Park /\ UNCHANGED settings
  BY DEF TriggerEdge
<1>2. /\ Settings' /\ dly' = <<probe, dly[1]>>
      /\ dly'[1] \in Words /\ dly'[2] \in Words /\ dly' = <<dly'[1], dly'[2]>>
      /\ hitQ' = {k \in Units : LevelHit(units'[k], dly'[1]) /\ EdgeHit(units'[k], dly'[2], dly'[1])}
      /\ RefEnabled' = RefEnabled /\ units' = units /\ stages' = stages
  BY <1>1, ObserveStep
<1>3. Stages \in Nat
  BY StagesAssumption
<1>4. /\ cur' = FirstEnabled(0) /\ cur' \in 0 .. Stages
      /\ cur' # Stages => cur' \in RefEnabled
      /\ NextEn(0) = (IF cur' = Stages THEN {} ELSE {cur'})
  BY <1>1, <1>3, SearchesAgree DEF Park
<1>5. SequencerTypes'
  BY <1>1, <1>2, <1>4 DEF SequencerTypes, Park
<1>6. SamePipeline'
  BY <1>2, <1>4 DEF SamePipeline, RefStart
<1>7. SameStage'
  BY <1>1, <1>4 DEF SameStage, RefStart, Park
<1>8. TriggerSampleSatisfies'
  BY <1>1 DEF TriggerSampleSatisfies, Park
<1> QED
  BY <1>5, <1>6, <1>7, <1>8 DEF SequencerInv

\* With run high a pass of the model is an edge of the sequencer.
LEMMA AdvanceStep ==
  ASSUME SequencerInv, NEW probe \in Words, TriggerEdge(probe, TRUE),
         running \/ cur = FirstEnabled(0), ref' = RefPass(dly[1]), running' = TRUE
  PROVE  SequencerInv'
<1>1. Observe(probe) /\ Advance /\ UNCHANGED settings
  BY DEF TriggerEdge
<1>2. /\ Settings' /\ dly' = <<probe, dly[1]>>
      /\ dly'[1] \in Words /\ dly'[2] \in Words /\ dly' = <<dly'[1], dly'[2]>>
      /\ hitQ' = {k \in Units : LevelHit(units'[k], dly'[1]) /\ EdgeHit(units'[k], dly'[2], dly'[1])}
      /\ RefEnabled' = RefEnabled /\ units' = units /\ stages' = stages
  BY <1>1, ObserveStep
<1>3. /\ ref.cur = (IF cur = Stages THEN {} ELSE {cur})
      /\ ref.occ = occ /\ ref.fired = fired /\ ref.prev = dly[2]
  BY DEF SequencerInv, SamePipeline, SameStage
<1>4. /\ Stages \in Nat /\ cur \in 0 .. Stages /\ occ \in Nat
      /\ fired \in BOOLEAN /\ Settings
  BY StagesAssumption DEF SequencerInv, SequencerTypes
<1> DEFINE hits  == RefHits(ref.prev, dly[1])
           judge == {n \in ref.cur : ~ref.fired /\
                       IF stages[n].all THEN hits \cap stages[n].sel = stages[n].sel
                       ELSE hits \cap stages[n].sel # {}}
           done  == {n \in judge : ref.occ + 1 >= RefTarget(n)}
           next  == UNION {NextEn(n + 1) : n \in done}
           fires == done # {} /\ next = {}
<1>5. /\ ref'.cur = (IF next = {} THEN ref.cur ELSE next)
      /\ ref'.occ = (IF next # {} THEN 0 ELSE IF judge # {} /\ ~fires THEN ref.occ + 1 ELSE ref.occ)
      /\ ref'.fired = (ref.fired \/ fires) /\ ref'.fires = fires
      /\ ref'.prev = dly[1] /\ ref'.hits = hits
  BY DEF RefPass
<1>6. cur # Stages => hits = hitQ /\ cur \in RefEnabled
  BY <1>3, HitsAgree DEF SequencerInv, SequencerTypes, SamePipeline
<1> HIDE DEF hits
<1>7. judge = (IF ~fired /\ CurHit THEN {cur} ELSE {})
  BY <1>3, <1>4, <1>6 DEF CurHit, StageHit
<1> HIDE DEF judge
<1>8. done = (IF ~fired /\ StageDone THEN {cur} ELSE {})
  <2>1. cur # Stages => RefTarget(cur) = Target(cur)
    BY <1>4 DEF RefTarget, Target, Settings
  <2> QED
    BY <1>3, <1>4, <1>7, <2>1 DEF StageDone, CurHit
<1> HIDE DEF done
<1>9. /\ NextStage \in cur + 1 .. Stages \cup {Stages}
      /\ NextStage # Stages => NextStage \in RefEnabled
      /\ NextEn(cur + 1) = (IF NextStage = Stages THEN {} ELSE {NextStage})
      /\ NextStage = Stages => \A m \in RefEnabled : m < cur + 1
  <2>1. cur + 1 \in Nat
    BY <1>4
  <2> QED
    BY <2>1, SearchesAgree DEF NextStage
<1>10. next = (IF ~fired /\ StageDone /\ NextStage # Stages THEN {NextStage} ELSE {})
  BY <1>8, <1>9
<1> HIDE DEF next
<1>11. fires = FireNow
  BY <1>4, <1>8, <1>10 DEF FireNow, StageDone, CurHit
<1> HIDE DEF fires
<1>12. /\ cur' = (IF ~fired /\ StageDone /\ ~FireNow THEN NextStage ELSE cur)
       /\ occ' = (IF fired \/ FireNow \/ ~CurHit THEN occ ELSE IF StageDone THEN 0 ELSE occ + 1)
       /\ fired' = (fired \/ FireNow) /\ trigSeq' = FireNow
  BY <1>1 DEF Advance
<1>13. FireNow = (~fired /\ StageDone /\ NextStage = Stages) /\ (StageDone => CurHit)
       /\ (CurHit => cur # Stages)
  BY <1>4 DEF FireNow, StageDone, CurHit
<1>14. cur' \in 0 .. Stages /\ occ' \in Nat /\ fired' \in BOOLEAN /\ trigSeq' \in BOOLEAN
  BY <1>4, <1>9, <1>12, <1>13
<1>15. SequencerTypes'
  BY <1>2, <1>14 DEF SequencerTypes
<1>16. SamePipeline'
  <2>1. cur' # Stages => cur' \in RefEnabled
    BY <1>6, <1>9, <1>12
  <2> QED
    BY <1>2, <1>5, <2>1 DEF SamePipeline
<1>17. ref'.cur = (IF cur' = Stages THEN {} ELSE {cur'})
  BY <1>3, <1>5, <1>10, <1>12, <1>13
<1>18. ref'.occ = occ'
  BY <1>3, <1>5, <1>7, <1>10, <1>11, <1>12, <1>13
<1>19. ref'.fired = fired' /\ ref'.fires = trigSeq'
  BY <1>3, <1>5, <1>11, <1>12
<1>20. SameStage'
  BY <1>17, <1>18, <1>19 DEF SameStage
<1>21. TriggerSampleSatisfies'
  <2> SUFFICES ASSUME FireNow
               PROVE  /\ dly'[2] = ref'.prev
                      /\ LET last == CHOOSE n \in RefEnabled : \A m \in RefEnabled : m <= n
                         IN IF stages[last].all THEN stages[last].sel \subseteq ref'.hits
                            ELSE stages[last].sel \cap ref'.hits # {}
    BY <1>2, <1>12 DEF TriggerSampleSatisfies
  <2>1. CurHit /\ cur # Stages /\ cur \in RefEnabled /\ \A m \in RefEnabled : m < cur + 1
    BY <1>6, <1>9, <1>13
  <2>2. RefEnabled \in SUBSET Nat
    BY <1>4 DEF RefEnabled
  <2>3. \A m \in RefEnabled : m <= cur
    BY <1>4, <2>1, <2>2
  <2>4. (CHOOSE n \in RefEnabled : \A m \in RefEnabled : m <= n) = cur
    <3> DEFINE last == CHOOSE n \in RefEnabled : \A m \in RefEnabled : m <= n
    <3>1. last \in RefEnabled /\ \A m \in RefEnabled : m <= last
      BY <2>1, <2>3
    <3> HIDE DEF last
    <3>2. last = cur
      BY <1>4, <2>1, <2>2, <2>3, <3>1
    <3> QED
      BY <3>2 DEF last
  <2>5. IF stages[cur].all THEN stages[cur].sel \subseteq hitQ ELSE stages[cur].sel \cap hitQ # {}
    BY <2>1 DEF CurHit, StageHit
  <2>6. dly'[2] = ref'.prev /\ ref'.hits = hitQ
    BY <1>2, <1>5, <1>6, <2>1
  <2> QED
    BY <2>4, <2>5, <2>6
<1> QED
  BY <1>15, <1>16, <1>20, <1>21 DEF SequencerInv

\* Engine and model never part, whatever the probes and whenever it is armed.
LEMMA SequencerInvariant == SequencerSpec => []SequencerInv
<1>1. SequencerInv /\ [SequencerNext]_sequencerVars => SequencerInv'
  <2> SUFFICES ASSUME SequencerInv, [SequencerNext]_sequencerVars PROVE SequencerInv'
    OBVIOUS
  <2>1. CASE SequencerNext
    <3>1. PICK probe \in Words, r \in BOOLEAN :
            /\ r => running \/ cur = FirstEnabled(0)
            /\ TriggerEdge(probe, r)
            /\ ref' = IF r THEN RefPass(dly[1]) ELSE RefStart(dly[1])
            /\ running' = r
      BY <2>1 DEF SequencerNext
    <3>2. CASE r = TRUE
      BY <3>1, <3>2, AdvanceStep
    <3>3. CASE r = FALSE
      BY <3>1, <3>3, ParkStep
    <3> QED
      BY <3>2, <3>3
  <2>2. CASE UNCHANGED sequencerVars
    <3>1. /\ units' = units /\ stages' = stages /\ dly' = dly /\ hitQ' = hitQ /\ cur' = cur
          /\ occ' = occ /\ fired' = fired /\ trigSeq' = trigSeq /\ ref' = ref
          /\ running' = running
      BY <2>2 DEF sequencerVars, triggerVars, settings
    <3> QED
      BY <3>1 DEF SequencerInv, SequencerTypes, Settings, SamePipeline, SameStage, FirstEnabled,
                  RefEnabled, TriggerSampleSatisfies, LevelHit, EdgeHit
  <2> QED
    BY <2>1, <2>2
<1> QED
  BY <1>1, SequencerStart, PTL DEF SequencerSpec

\* Stage, occurrences and fire pulse of the RTL are those of trigger_model in
\* every cycle with run high, for every setting and every probe.
THEOREM SequencerMatchesModel == SequencerSpec => []SequencerIsModel
<1>1. SequencerInv => SequencerIsModel
  BY DEF SequencerInv, SameStage, SequencerIsModel
<1> QED
  BY <1>1, SequencerInvariant, PTL

\* The sample the core stores in the trig cycle is the one that satisfied the
\* last enabled stage.
THEOREM TriggerSampleIsAligned == SequencerSpec => []TriggerSampleSatisfies
BY SequencerInvariant, PTL DEF SequencerInv

----------------------------------------------------------------------------
(* The capture models: first the slicing, which the core takes from the    *)
(* divisors of the depth and the model from shifts.                        *)

\* The shifts of the model are the powers of two.
LEMMA ShiftsAreDoublings == Doubling(TwoTo)
BY DoublingExists, Zenon DEF TwoTo, Doubling

\* What the recursion gives.
LEMMA ShiftsDouble ==
  /\ TwoTo[0] = 1
  /\ \A i \in Nat : TwoTo[i] \in Nat /\ TwoTo[i] > 0 /\ TwoTo[i + 1] = 2 * TwoTo[i]
<1> HIDE DEF TwoTo
<1> QED
  BY ShiftsAreDoublings, DoublingLaws

\* How they are ordered.
LEMMA ShiftsGrow ==
  /\ \A i \in Nat : i < TwoTo[i]
  /\ \A i \in Nat, j \in Nat : i < j => 2 * TwoTo[i] <= TwoTo[j]
<1> HIDE DEF TwoTo
<1> QED
  BY ShiftsAreDoublings, PowersGrow

\* Which numbers divide them.
LEMMA ShiftsFactor ==
  /\ \A i \in Nat, j \in Nat : TwoTo[i] * TwoTo[j] = TwoTo[i + j]
  /\ \A i \in Nat, p \in Nat, s \in Nat : p * s = TwoTo[i] => \E j \in 0 .. i : p = TwoTo[j]
<1> HIDE DEF TwoTo
<1> QED
  BY ShiftsAreDoublings, PowersMultiply, DivisorsOfPowers

\* The slice counts are the powers of two up to half the depth.
LEMMA SlicingsArePowers ==
  /\ DepthLog2 \in Nat \ {0}
  /\ \A p : p \in Slicings <=> \E j \in 0 .. DepthLog2 - 1 : p = TwoTo[j]
  /\ TwoTo[DepthLog2 - 1] = Depth \div 2
<1> HIDE DEF TwoTo
<1>1. DepthLog2 \in Nat /\ Depth = TwoTo[DepthLog2] /\ Depth \in Nat /\ Depth >= 2
  BY DepthLog2Assumption, DepthAssumption
<1>2. DepthLog2 # 0
  BY <1>1, ShiftsDouble
<1>3. DepthLog2 - 1 \in Nat /\ Depth = 2 * TwoTo[DepthLog2 - 1] /\ TwoTo[DepthLog2 - 1] \in Nat
  <2>1. DepthLog2 - 1 \in Nat /\ DepthLog2 - 1 + 1 = DepthLog2
    BY <1>1, <1>2
  <2> QED
    BY <1>1, <2>1, ShiftsDouble
<1>4. ASSUME NEW p \in Slicings PROVE \E j \in 0 .. DepthLog2 - 1 : p = TwoTo[j]
  <2>1. PICK s \in 2 .. Depth : p * s = Depth
    BY DEF Slicings
  <2>2. p \in Nat /\ p >= 1 /\ s \in Nat /\ s >= 2
    BY <1>1, <2>1 DEF Slicings
  <2>3. PICK j \in 0 .. DepthLog2 : p = TwoTo[j]
    <3>1. p * s = TwoTo[DepthLog2]
      BY <1>1, <2>1
    <3>2. \A q \in Nat, r \in Nat : q * r = TwoTo[DepthLog2] => \E j \in 0 .. DepthLog2 : q = TwoTo[j]
      BY <1>1, ShiftsFactor, Zenon
    <3> QED
      BY <2>2, <3>1, <3>2, Zenon
  <2>4. j # DepthLog2
    <3> SUFFICES ASSUME p = Depth PROVE FALSE
      BY <1>1, <2>3
    <3>1. \A x, y \in Nat : x >= 1 /\ y >= 2 => x * y # x
      BY Z3
    <3> QED
      BY <1>1, <2>1, <2>2, <3>1
  <2> QED
    BY <1>1, <2>3, <2>4
<1>5. ASSUME NEW j \in 0 .. DepthLog2 - 1 PROVE TwoTo[j] \in Slicings
  <2> DEFINE p == TwoTo[j]
             s == TwoTo[DepthLog2 - j]
  <2>1. j \in Nat /\ DepthLog2 - j \in Nat /\ j + (DepthLog2 - j) = DepthLog2 /\ 0 < DepthLog2 - j
        /\ j < DepthLog2
    BY <1>1
  <2>2. p \in Nat /\ p > 0 /\ s \in Nat /\ p * s = Depth
    <3>1. p \in Nat /\ p > 0 /\ s \in Nat
      BY <2>1, ShiftsDouble
    <3>2. p * s = TwoTo[j + (DepthLog2 - j)]
      BY <2>1, ShiftsFactor
    <3> QED
      BY <1>1, <2>1, <3>1, <3>2
  <2>3. 2 * TwoTo[0] <= s /\ 2 * p <= Depth
    BY <1>1, <2>1, ShiftsGrow
  <2>4. s >= 2
    BY <2>2, <2>3, ShiftsDouble
  <2>5. s <= Depth
    <3>1. \A x, y \in Nat : x > 0 => y <= x * y
      BY Z3
    <3> QED
      BY <2>2, <3>1
  <2> HIDE DEF p, s
  <2>6. p \in 1 .. Depth /\ s \in 2 .. Depth
    BY <1>1, <2>2, <2>3, <2>4, <2>5
  <2>7. p \in Slicings
    BY <2>2, <2>6 DEF Slicings
  <2> QED
    BY <2>7 DEF p
<1>6. TwoTo[DepthLog2 - 1] = Depth \div 2
  BY <1>3
<1> QED
  BY <1>1, <1>2, <1>4, <1>5, <1>6

\* weff_log2_of and the core choose the same number of slices.
LEMMA SameSlicing ==
  ASSUME NEW n \in Nat \ {0}
  PROVE  TwoTo[WeffLog2(n, DepthLog2)] = EffectiveWindows(n)
<1> HIDE DEF TwoTo
<1> DEFINE fits == {r \in Nat : n <= TwoTo[r]}
<1>1. n \in fits
  <2>1. n < TwoTo[n] /\ TwoTo[n] \in Nat /\ n \in Nat
    BY ShiftsGrow, ShiftsDouble
  <2> QED
    BY <2>1
<1>2. PICK least \in fits : \A r \in fits : least <= r
  BY <1>1, LeastNatural
<1>3. least \in 0 .. n /\ n <= TwoTo[least] /\ \A r \in 0 .. least - 1 : TwoTo[r] < n
  <2>1. \A r \in Nat : TwoTo[r] \in Nat
    BY ShiftsDouble
  <2>2. ASSUME NEW r \in 0 .. least - 1 PROVE TwoTo[r] < n
    <3>1. r \in Nat /\ ~(least <= r)
      BY <1>2
    <3>2. ~(n <= TwoTo[r])
      BY <1>2, <3>1
    <3> QED
      BY <2>1, <3>1, <3>2
  <2> QED
    BY <1>1, <1>2, <2>2
<1> DEFINE first == CHOOSE r \in 0 .. n : n <= TwoTo[r] /\ \A i \in 0 .. r - 1 : TwoTo[i] < n
<1>4. first = least
  <2>1. first \in 0 .. n /\ n <= TwoTo[first] /\ \A i \in 0 .. first - 1 : TwoTo[i] < n
    BY <1>3
  <2> HIDE DEF first
  <2>2. least <= first
    BY <1>2, <2>1
  <2>3. ~(least < first)
    <3> SUFFICES ASSUME least < first PROVE FALSE
      OBVIOUS
    <3>1. least \in 0 .. first - 1 /\ TwoTo[least] \in Nat
      BY <1>2, <2>1, ShiftsDouble
    <3> QED
      BY <1>3, <2>1, <3>1
  <2> QED
    BY <1>2, <2>1, <2>2, <2>3
<1> HIDE DEF first
<1> DEFINE r == IF least < DepthLog2 - 1 THEN least ELSE DepthLog2 - 1
<1>5. WeffLog2(n, DepthLog2) = r
  <2>1. WeffLog2(n, DepthLog2) = IF first < DepthLog2 - 1 THEN first ELSE DepthLog2 - 1
    BY Zenon DEF WeffLog2, first
  <2> QED
    BY <1>4, <2>1
<1>6. /\ DepthLog2 \in Nat \ {0} /\ least \in Nat /\ TwoTo[DepthLog2 - 1] = Depth \div 2
      /\ \A p : p \in Slicings <=> \E j \in 0 .. DepthLog2 - 1 : p = TwoTo[j]
  BY <1>2, SlicingsArePowers
<1>7. r \in 0 .. DepthLog2 - 1 /\ r <= least /\ (r = least \/ r = DepthLog2 - 1)
  BY <1>6
<1> HIDE DEF r
<1> DEFINE enough == {p \in Slicings : n <= p \/ p = Depth \div 2}
<1>8. TwoTo[r] \in enough
  BY <1>3, <1>6, <1>7
<1>9. ASSUME NEW q \in enough PROVE TwoTo[r] <= q
  <2>1. PICK j \in 0 .. DepthLog2 - 1 : q = TwoTo[j]
    BY <1>6
  <2>2. r <= j
    <3>1. CASE n <= q
      BY <1>2, <1>7, <2>1, <3>1
    <3>2. CASE q = Depth \div 2
      <4> SUFFICES ASSUME j < DepthLog2 - 1 PROVE FALSE
        BY <1>6, <1>7, <2>1
      <4>1. 2 * TwoTo[j] <= TwoTo[DepthLog2 - 1] /\ TwoTo[j] \in Nat /\ TwoTo[j] > 0
        BY <1>6, <2>1, ShiftsGrow, ShiftsDouble
      <4> QED
        BY <1>6, <2>1, <3>2, <4>1
    <3> QED
      BY <3>1, <3>2
  <2>3. CASE r = j
    <3>1. TwoTo[r] \in Nat
      BY <1>7, ShiftsDouble
    <3> QED
      BY <2>1, <2>3, <3>1
  <2>4. CASE r # j
    <3>1. r \in Nat /\ j \in Nat /\ r < j
      BY <1>6, <1>7, <2>1, <2>2, <2>4
    <3>2. 2 * TwoTo[r] <= TwoTo[j] /\ TwoTo[r] \in Nat /\ TwoTo[j] \in Nat
      BY <3>1, ShiftsGrow, ShiftsDouble
    <3> QED
      BY <2>1, <3>2
  <2> QED
    BY <2>3, <2>4
<1>10. EffectiveWindows(n) = TwoTo[r]
  <2> DEFINE e == CHOOSE p \in enough : \A q \in enough : p <= q
  <2>1. e \in enough /\ TwoTo[r] \in enough /\ (\A q \in enough : e <= q) /\ e <= TwoTo[r]
        /\ TwoTo[r] <= e
    BY <1>8, <1>9
  <2>2. e \in Nat /\ TwoTo[r] \in Nat
    <3>1. e \in 1 .. Depth
      BY <2>1 DEF Slicings
    <3>2. TwoTo[r] \in Nat
      BY <1>6, <1>7, ShiftsDouble
    <3> HIDE DEF e
    <3> QED
      BY <3>1, <3>2, DepthAssumption
  <2>3. EffectiveWindows(n) = e
    BY DEF EffectiveWindows
  <2> HIDE DEF e
  <2> QED
    BY <2>1, <2>2, <2>3
<1> QED
  BY <1>5, <1>10

----------------------------------------------------------------------------
(* The models in lock step with the core.                                  *)

WindowsState ==
  [st : States \cup {"returned"}, base : Nat, off : Nat, fill : Nat, post : Int,
   wrapped : BOOLEAN, win : Nat, index : Int, cycle : Int,
   meta : Seq([cycle : Int, index : Int, wrapped : BOOLEAN]),
   buf : [Addresses -> Stamps \cup {NoSample}]]

CaptureState ==
  [st : States, wptr : Nat, fill : Nat, post : Int, wrapped : BOOLEAN, index : Int,
   buf : [Addresses -> Stamps \cup {NoSample}]]

\* Before the run starts both sides are as they were made.
Unstarted ==
  /\ st = "IDLE" /\ now = 0 /\ post = 0 /\ buf = [a \in Addresses |-> NoSample]
  /\ cap = CaptureStart(Depth, NoSample) /\ win = WindowsStart(Depth, NoSample)

\* The run has the parameters the model was called with.
SameOptions ==
  /\ opts.windows = windowsQ /\ opts.slice = slice /\ opts.pEff = runPre
  /\ windowsQ = 1 => weff = 1

\* windows_model has the registers of the core, and its records.
SameWindows ==
  /\ win \in WindowsState /\ st # "IDLE"
  /\ win.st = st \/ (win.st = "returned" /\ st = "DONE" /\ windowsDone = windowsQ)
  /\ win.base = base /\ win.off = offset /\ win.fill = fillCnt /\ win.post = post
  /\ win.wrapped = wrapped /\ win.buf = buf
  /\ triggered => win.index = trigIndex /\ win.cycle = tsAtTrig + winIdx
  /\ win.st # "returned" => win.win = winIdx /\ cycle = now + winIdx
  /\ Len(win.meta) = windowsDone
  /\ \A i \in 1 .. windowsDone :
       win.meta[i].index = meta[i - 1].index /\ win.meta[i].wrapped = meta[i - 1].wrapped

\* capture_model too, in a run of one window.
SameCapture ==
  /\ cap \in CaptureState
  /\ cap.st = st /\ cap.wptr = offset /\ cap.fill = fillCnt /\ cap.post = post
  /\ cap.wrapped = wrapped /\ cap.buf = buf
  /\ triggered => cap.index = trigIndex

CosimInv ==
  /\ cycle \in Nat \cup {-1}
  /\ cycle = -1 => Unstarted
  /\ Underway => SameOptions /\ SameWindows /\ (windowsQ = 1 => SameCapture)

\* The bench drives the core.
LEMMA CosimSteps == CosimNext => Next
BY DEF CosimNext, Setup, Launch, BenchCycle, Next

\* The bench sets the core up before it starts it.
LEMMA SetupStep ==
  ASSUME IInv, CosimInv, Setup
  PROVE  CosimInv'
<1>1. UNCHANGED <<st, post, buf, now, cycle, cap, win, opts>> /\ cycle = -1
  BY DEF Setup, WritePretrig, WriteWindows
<1> QED
  BY <1>1 DEF CosimInv, Unstarted, Underway

\* The start of the run is the start of the models' loops.
LEMMA LaunchStep ==
  ASSUME IInv, IInv', CosimInv, Launch
  PROVE  CosimInv'
<1>1. Arm /\ cycle = -1 /\ cycle' = 0 /\ opts' = Options /\ cap' = cap /\ win' = win
  <2>1. st = "IDLE"
    BY DEF Launch, CosimInv, Unstarted
  <2> QED
    BY <2>1 DEF Launch, Edge, Fill, Watch, Collect
<1>2. Unstarted
  BY <1>1 DEF CosimInv
<1>3. /\ st' = "FILLING" /\ offset' = 0 /\ fillCnt' = 0 /\ triggered' = FALSE /\ wrapped' = FALSE
      /\ base' = 0 /\ winIdx' = 0 /\ windowsDone' = 0 /\ windowsQ' = windows
      /\ weff' = EffectiveWindows(windows) /\ slice' = Depth \div weff'
      /\ runPre' = pretrig \div weff' /\ post' = post /\ buf' = buf /\ now' = now
  BY <1>1 DEF Arm, StartWindow
<1>4. windows \in Nat \ {0}
  BY MaxWindowsAssumption DEF IInv, TypeOK
<1>5. SameOptions'
  <2>1. opts' = [windows |-> windows, slice |-> Depth \div EffectiveWindows(windows),
                 pEff |-> pretrig \div EffectiveWindows(windows)]
    BY <1>1, <1>4, SameSlicing DEF Options
  <2>2. windows = 1 => EffectiveWindows(windows) = 1
    BY OneWindow
  <2> QED
    BY <1>3, <2>1, <2>2 DEF SameOptions
<1>6. [a \in Addresses |-> NoSample] \in [Addresses -> Stamps \cup {NoSample}]
      /\ Addresses = 0 .. Depth - 1
  BY DEF Addresses
<1>7. SameWindows'
  <2>1. win' = [st |-> "FILLING", base |-> 0, off |-> 0, fill |-> 0, post |-> 0,
                wrapped |-> FALSE, win |-> 0, index |-> -1, cycle |-> -1,
                meta |-> <<>>, buf |-> [a \in Addresses |-> NoSample]]
    BY <1>1, <1>2 DEF Unstarted, WindowsStart, Addresses
  <2>2. win' \in WindowsState
    BY <1>6, <2>1 DEF WindowsState, States
  <2>3. /\ win'.st = "FILLING" /\ win'.base = 0 /\ win'.off = 0 /\ win'.fill = 0 /\ win'.post = 0
        /\ win'.wrapped = FALSE /\ win'.win = 0 /\ Len(win'.meta) = 0
        /\ win'.buf = [a \in Addresses |-> NoSample]
    BY <2>1
  <2>4. \A i \in 1 .. 0 : FALSE
    OBVIOUS
  <2>5. now = 0 /\ post = 0 /\ buf = [a \in Addresses |-> NoSample]
    BY <1>2 DEF Unstarted
  <2>6. /\ st' # "IDLE" /\ win'.st = st' /\ win'.base = base' /\ win'.off = offset'
        /\ win'.fill = fillCnt' /\ win'.wrapped = wrapped' /\ ~triggered'
    BY <1>3, <2>3
  <2>7. win'.post = post' /\ win'.buf = buf' /\ win'.win = winIdx' /\ cycle' = now' + winIdx'
    BY <1>1, <1>3, <2>3, <2>5
  <2>8. Len(win'.meta) = windowsDone'
    BY <1>3, <2>3
  <2>9. \A i \in 1 .. windowsDone' :
          win'.meta[i].index = meta'[i - 1].index /\ win'.meta[i].wrapped = meta'[i - 1].wrapped
    BY <1>3, <2>4
  <2> HIDE DEF WindowsState
  <2> QED
    BY <2>2, <2>6, <2>7, <2>8, <2>9 DEF SameWindows
<1>8. SameCapture'
  <2>1. cap' = [st |-> "FILLING", wptr |-> 0, fill |-> 0, post |-> 0, wrapped |-> FALSE,
                index |-> -1, buf |-> [a \in Addresses |-> NoSample]]
    BY <1>1, <1>2 DEF Unstarted, CaptureStart, Addresses
  <2>2. cap' \in CaptureState
    BY <1>6, <2>1 DEF CaptureState, States
  <2> QED
    BY <1>2, <1>3, <2>1, <2>2 DEF SameCapture, Unstarted
<1> QED
  BY <1>1, <1>5, <1>7, <1>8 DEF CosimInv

\* A pass of windows_model over a sample is an edge of the capturing core.
LEMMA WindowsSampleStep ==
  ASSUME IInv, IInv', SameOptions, SameWindows, NEW t \in BOOLEAN, win.st # "returned",
         st \in Capturing, Fill(TRUE, t) \/ Watch(TRUE, t) \/ Collect(TRUE, t), now' >= now,
         cycle \in Nat, cycle' = cycle + 1, opts' = opts,
         win' = WindowsPass(win, Depth, opts.slice, opts.windows, opts.pEff, cycle, now, t)
  PROVE  SameWindows'
<1>1. /\ win.st = st /\ win.base = base /\ win.off = offset /\ win.fill = fillCnt
      /\ win.post = post /\ win.wrapped = wrapped /\ win.buf = buf /\ win.win = winIdx
      /\ cycle = now + winIdx /\ opts.slice = slice /\ opts.pEff = PretrigEff
      /\ win \in WindowsState
  BY DEF SameOptions, SameWindows, IInv, WindowBookkeeping, Capturing
<1>2. win' = SamplePass(win, slice, PretrigEff, cycle, now, t)
  BY <1>1 DEF WindowsPass, Capturing
<1>3. /\ Capture(TRUE, t) /\ UNCHANGED <<base, slice, windowsQ, runPre, winIdx>>
      /\ st' = (CASE st = "FILLING" /\ FillNext(TRUE) >= PretrigEff -> "ARMED"
                  [] Accepts(TRUE, t) -> "TRIGGERED"
                  [] st = "TRIGGERED" /\ PostNext(TRUE) = 0 -> "DONE"
                  [] OTHER -> st)
  BY DEF Fill, Watch, Collect, Accepts, run
<1>4. RefWrites(win) = Stores(TRUE) /\ RefFill(win) = FillNext(TRUE) /\ RefPost(win) = PostNext(TRUE)
  BY <1>1 DEF RefWrites, RefFill, RefPost, Stores, FillNext, PostNext
<1> DEFINE accepted == t /\ win.st = "ARMED"
           complete == win.st = "TRIGGERED" /\ RefPost(win) = 0
           record == [cycle |-> win.cycle, index |-> win.index,
                      wrapped |-> win.wrapped \/ (RefWrites(win) /\ win.off = slice - 1)]
<1>5. /\ win'.st = (CASE win.st = "FILLING" /\ RefFill(win) >= PretrigEff -> "ARMED"
                      [] accepted -> "TRIGGERED" [] complete -> "DONE" [] OTHER -> win.st)
      /\ win'.off = (IF RefWrites(win) THEN (win.off + 1) % slice ELSE win.off)
      /\ win'.fill = RefFill(win)
      /\ win'.post = (IF accepted THEN RefBudget(slice, PretrigEff) ELSE RefPost(win))
      /\ win'.wrapped = (win.wrapped \/ (RefWrites(win) /\ win.off = slice - 1))
      /\ win'.index = (IF accepted THEN win.base + win.off ELSE win.index)
      /\ win'.cycle = (IF accepted THEN cycle ELSE win.cycle)
      /\ win'.meta = (IF complete THEN Append(win.meta, record) ELSE win.meta)
      /\ win'.buf = (IF RefWrites(win) THEN [win.buf EXCEPT ![win.base + win.off] = now]
                     ELSE win.buf)
      /\ win'.base = win.base /\ win'.win = win.win
      /\ win' = [st |-> win'.st, base |-> win'.base, off |-> win'.off, fill |-> win'.fill,
                 post |-> win'.post, wrapped |-> win'.wrapped, win |-> win'.win,
                 index |-> win'.index, cycle |-> win'.cycle, meta |-> win'.meta,
                 buf |-> win'.buf]
  <2>1. DOMAIN win = {"st", "base", "off", "fill", "post", "wrapped", "win", "index", "cycle",
                      "meta", "buf"}
    BY <1>1 DEF WindowsState
  <2>2. /\ win'.st = (CASE win.st = "FILLING" /\ RefFill(win) >= PretrigEff -> "ARMED"
                        [] accepted -> "TRIGGERED" [] complete -> "DONE" [] OTHER -> win.st)
        /\ win'.off = (IF RefWrites(win) THEN (win.off + 1) % slice ELSE win.off)
    BY <1>2, <2>1 DEF SamplePass
  <2>3. /\ win'.fill = RefFill(win) /\ win'.base = win.base /\ win'.win = win.win
        /\ win'.post = (IF accepted THEN RefBudget(slice, PretrigEff) ELSE RefPost(win))
    BY <1>2, <2>1 DEF SamplePass
  <2>4. /\ win'.wrapped = (win.wrapped \/ (RefWrites(win) /\ win.off = slice - 1))
        /\ win'.index = (IF accepted THEN win.base + win.off ELSE win.index)
        /\ win'.cycle = (IF accepted THEN cycle ELSE win.cycle)
    BY <1>2, <2>1 DEF SamplePass
  <2>5. win'.meta = (IF complete THEN Append(win.meta, record) ELSE win.meta)
    BY <1>2, <2>1 DEF SamplePass
  <2>6. win'.buf = (IF RefWrites(win) THEN [win.buf EXCEPT ![win.base + win.off] = now]
                    ELSE win.buf)
    BY <1>2, <2>1 DEF SamplePass
  <2>7. win' = [st |-> win'.st, base |-> win'.base, off |-> win'.off, fill |-> win'.fill,
                post |-> win'.post, wrapped |-> win'.wrapped, win |-> win'.win,
                index |-> win'.index, cycle |-> win'.cycle, meta |-> win'.meta,
                buf |-> win'.buf]
    BY <1>2, <2>1 DEF SamplePass
  <2> QED
    BY <2>2, <2>3, <2>4, <2>5, <2>6, <2>7
<1>6. accepted = Accepts(TRUE, t) /\ complete = (st = "TRIGGERED" /\ PostNext(TRUE) = 0)
  BY <1>1, <1>4 DEF Accepts
<1> HIDE DEF accepted, complete, record
<1>7. /\ win'.st = st' /\ win'.off = offset' /\ win'.fill = fillCnt' /\ win'.post = post'
      /\ win'.wrapped = wrapped' /\ win'.buf = buf' /\ win'.base = base' /\ win'.win = winIdx'
  <2>1. win'.st = st'
    BY <1>1, <1>3, <1>4, <1>5, <1>6
  <2>2. win'.off = offset' /\ win'.fill = fillCnt'
    BY <1>1, <1>3, <1>4, <1>5 DEF Capture
  <2>6. win'.buf = buf'
    BY <1>1, <1>3, <1>4, <1>5 DEF Capture, WrAddr
  <2>3. win'.post = post'
    BY <1>1, <1>3, <1>4, <1>5, <1>6 DEF Capture, RefBudget
  <2>4. win'.wrapped = wrapped'
    BY <1>1, <1>3, <1>4, <1>5 DEF Capture, WrappedNext
  <2> QED
    BY <1>1, <1>3, <1>5, <2>1, <2>2, <2>3, <2>4, <2>6
<1>8. /\ now \in Nat /\ now' \in Nat /\ winIdx \in Nat /\ tsAtTrig \in Nat /\ base \in Nat
      /\ offset \in Nat /\ windowsDone \in Nat /\ winIdx' = winIdx
  BY <1>3, StampAssumption DEF IInv, TypeOK, Stamps, Addresses
<1>9. now' = now + 1
  <2>1. now' = Ahead(now, 1, StampLimit)
    BY <1>3 DEF Capture
  <2> QED
    BY <1>8, <2>1, DepthAssumption, StampAssumption DEF Ahead
<1>10. win'.index \in Int /\ win'.cycle \in Int
  <2>1. win.index \in Int /\ win.cycle \in Int
    BY <1>1 DEF WindowsState
  <2>2. win.base + win.off \in Int /\ cycle \in Int
    BY <1>1, <1>8
  <2> QED
    BY <1>5, <2>1, <2>2
<1>11. triggered' => win'.index = trigIndex' /\ win'.cycle = tsAtTrig' + winIdx'
  <2>1. CASE Accepts(TRUE, t)
    BY <1>1, <1>3, <1>5, <1>6, <1>8, <2>1 DEF Capture, WrAddr
  <2>2. CASE ~Accepts(TRUE, t)
    BY <1>3, <1>5, <1>6, <2>2 DEF Capture, SameWindows
  <2> QED
    BY <2>1, <2>2
<1>12. /\ Len(win'.meta) = windowsDone'
       /\ win'.meta \in Seq([cycle : Int, index : Int, wrapped : BOOLEAN])
       /\ \A i \in 1 .. windowsDone' :
            win'.meta[i].index = meta'[i - 1].index /\ win'.meta[i].wrapped = meta'[i - 1].wrapped
  <2>1. /\ win.meta \in Seq([cycle : Int, index : Int, wrapped : BOOLEAN])
        /\ Len(win.meta) = windowsDone
        /\ \A i \in 1 .. windowsDone :
             win.meta[i].index = meta[i - 1].index /\ win.meta[i].wrapped = meta[i - 1].wrapped
    BY DEF SameWindows, WindowsState
  <2>2. CASE complete
    <3>1. st = "TRIGGERED" /\ Collect(TRUE, t) /\ PostNext(TRUE) = 0
      BY <1>6, <2>2 DEF Fill, Watch, Collect
    <3>2. /\ windowsDone' = windowsDone + 1
          /\ meta' = [meta EXCEPT ![winIdx] = [wrapped |-> WrappedNext(TRUE), index |-> trigIndex]]
      BY <3>1 DEF Collect
    <3>3. winIdx = windowsDone /\ winIdx \in 0 .. MaxWindows /\ triggered
      BY <3>1 DEF IInv, TypeOK, WindowBookkeeping, TriggerShape, Capturing
    <3>4. record = [cycle |-> win.cycle, index |-> trigIndex, wrapped |-> WrappedNext(TRUE)]
      BY <1>1, <1>4, <3>3 DEF record, SameWindows, WrappedNext
    <3>5. win'.meta = Append(win.meta, record)
      BY <1>5, <2>2
    <3>6. record \in [cycle : Int, index : Int, wrapped : BOOLEAN]
      <4>1. win.cycle \in Int /\ win.index \in Int
        BY <1>1 DEF WindowsState
      <4>2. WrappedNext(TRUE) \in BOOLEAN /\ win.index = trigIndex
        BY <3>3 DEF WrappedNext, SameWindows, IInv, TypeOK
      <4> QED
        BY <3>4, <4>1, <4>2
    <3>7. /\ Len(win'.meta) = windowsDone + 1
          /\ win'.meta \in Seq([cycle : Int, index : Int, wrapped : BOOLEAN])
          /\ \A i \in 1 .. windowsDone : win'.meta[i] = win.meta[i]
          /\ win'.meta[windowsDone + 1] = record
      BY <2>1, <3>5, <3>6
    <3>8. /\ meta'[windowsDone] = [wrapped |-> WrappedNext(TRUE), index |-> trigIndex]
          /\ \A i \in 1 .. windowsDone : meta'[i - 1] = meta[i - 1]
      <4>1. DOMAIN meta = 0 .. MaxWindows /\ windowsDone \in 0 .. MaxWindows
        BY DEF IInv, TypeOK
      <4> QED
        BY <1>8, <3>2, <3>3, <4>1
    <3>9. ASSUME NEW i \in 1 .. windowsDone'
          PROVE  win'.meta[i].index = meta'[i - 1].index /\ win'.meta[i].wrapped = meta'[i - 1].wrapped
      <4>1. CASE i = windowsDone + 1
        <5>1. i - 1 = windowsDone
          BY <1>8, <4>1
        <5>2. win'.meta[i] = record /\ meta'[i - 1] = [wrapped |-> WrappedNext(TRUE), index |-> trigIndex]
          BY <3>7, <3>8, <4>1, <5>1
        <5> QED
          BY <3>4, <5>2
      <4>2. CASE i # windowsDone + 1
        <5>1. i \in 1 .. windowsDone
          BY <1>8, <3>2, <4>2
        <5> QED
          BY <2>1, <3>7, <3>8, <5>1
      <4> QED
        BY <4>1, <4>2
    <3> QED
      BY <3>2, <3>7, <3>9
  <2>3. CASE ~complete
    <3>1. win'.meta = win.meta /\ windowsDone' = windowsDone /\ meta' = meta
      BY <1>5, <1>6, <2>3 DEF Fill, Watch, Collect
    <3> QED
      BY <2>1, <3>1
  <2> QED
    BY <2>2, <2>3
<1>13. win' \in WindowsState
  <2>1. /\ st' \in States /\ base' \in Nat /\ offset' \in Nat /\ fillCnt' \in Nat /\ post' \in Int
        /\ wrapped' \in BOOLEAN /\ winIdx' \in Nat /\ buf' \in [Addresses -> Stamps \cup {NoSample}]
    BY DEF IInv, TypeOK, Addresses
  <2> QED
    BY <1>5, <1>7, <1>10, <1>12, <2>1 DEF WindowsState
<1>14. st' # "IDLE" /\ win'.st # "returned"
  BY <1>3, <1>7 DEF Capturing
<1>15. cycle' = now' + winIdx'
  BY <1>1, <1>8, <1>9
<1> QED
  BY <1>7, <1>11, <1>12, <1>13, <1>14, <1>15 DEF SameWindows

\* The pass in DONE starts the next window or returns.
LEMMA WindowsDoneStep ==
  ASSUME IInv, IInv', SameOptions, SameWindows, NEW t \in BOOLEAN, win.st # "returned",
         NextWindow \/ Rest, cycle \in Nat, cycle' = cycle + 1, opts' = opts,
         win' = WindowsPass(win, Depth, opts.slice, opts.windows, opts.pEff, cycle, now, t)
  PROVE  SameWindows'
<1>1. /\ st = "DONE" /\ win.st = "DONE" /\ win.win = winIdx /\ winIdx + 1 = windowsDone
      /\ opts.slice = slice /\ opts.windows = windowsQ /\ cycle = now + winIdx
      /\ win \in WindowsState /\ windowsDone \in Nat /\ windowsQ \in Nat /\ winIdx \in Nat
      /\ windowsDone <= windowsQ /\ now \in Nat
  <2>1. st = "DONE"
    BY DEF NextWindow, Rest, SameWindows
  <2>2. win.st = "DONE" /\ win.win = winIdx /\ cycle = now + winIdx /\ win \in WindowsState
    BY <2>1 DEF SameWindows
  <2>3. winIdx + 1 = windowsDone /\ windowsDone <= windowsQ
    BY <2>1 DEF IInv, WindowBookkeeping
  <2>4. windowsDone \in Nat /\ windowsQ \in Nat /\ winIdx \in Nat /\ now \in Nat
    BY MaxWindowsAssumption, StampAssumption DEF IInv, TypeOK, Stamps
  <2> QED
    BY <2>1, <2>2, <2>3, <2>4 DEF SameOptions
<1>2. win' = DonePass(win, Depth, slice, windowsQ)
  BY <1>1 DEF WindowsPass
<1>3. CASE NextWindow
  <2>1. /\ windowsDone < windowsQ /\ st' = "FILLING" /\ offset' = 0 /\ fillCnt' = 0
        /\ triggered' = FALSE /\ wrapped' = FALSE /\ base' = (base + slice) % Depth
        /\ winIdx' = winIdx + 1
        /\ UNCHANGED <<post, windowsDone, buf, meta, now>>
    BY <1>3 DEF NextWindow, StartWindow
  <2>2. win' = [win EXCEPT !.st = "FILLING", !.win = win.win + 1,
                 !.base = (win.base + slice) % Depth,
                 !.off = 0, !.fill = 0, !.wrapped = FALSE]
    BY <1>1, <1>2, <2>1 DEF DonePass
  <2>3. /\ win'.st = "FILLING" /\ win'.win = winIdx' /\ win'.base = base' /\ win'.off = 0
        /\ win'.fill = 0 /\ win'.wrapped = FALSE /\ win'.post = post' /\ win'.buf = buf'
        /\ win'.meta = win.meta
    BY <1>1, <2>1, <2>2 DEF SameWindows, WindowsState
  <2>4. win' \in WindowsState
    <3>1. base' \in Nat /\ winIdx' \in Nat /\ base = win.base /\ winIdx' = win.win + 1
      BY <1>1, <2>1 DEF IInv, TypeOK, Addresses, SameWindows
    <3>2. (win.base + slice) % Depth \in Nat /\ win.win + 1 \in Nat
      BY <2>1, <3>1
    <3> DEFINE b == (win.base + slice) % Depth
               n == win.win + 1
    <3>3. win' = [st |-> "FILLING", base |-> b, off |-> 0, fill |-> 0, post |-> win.post,
                  wrapped |-> FALSE, win |-> n, index |-> win.index, cycle |-> win.cycle,
                  meta |-> win.meta, buf |-> win.buf]
      BY <1>1, <2>2 DEF WindowsState
    <3>4. /\ win.post \in Int /\ win.index \in Int /\ win.cycle \in Int
          /\ win.meta \in Seq([cycle : Int, index : Int, wrapped : BOOLEAN])
          /\ win.buf \in [Addresses -> Stamps \cup {NoSample}]
      BY <1>1 DEF WindowsState
    <3>5. b \in Nat /\ n \in Nat
      BY <3>2
    <3> HIDE DEF b, n
    <3> QED
      BY <3>3, <3>4, <3>5 DEF WindowsState, States
  <2>5. cycle' = now' + winIdx'
    BY <1>1, <2>1
  <2> QED
    BY <2>1, <2>3, <2>4, <2>5 DEF SameWindows
<1>4. CASE Rest
  <2>1. UNCHANGED vars /\ windowsDone = windowsQ
    BY <1>1, <1>4 DEF Rest
  <2>2. win' = [win EXCEPT !.st = "returned", !.win = win.win + 1]
    BY <1>1, <1>2, <2>1 DEF DonePass
  <2>3. /\ win'.st = "returned" /\ win'.base = win.base /\ win'.off = win.off
        /\ win'.fill = win.fill /\ win'.wrapped = win.wrapped /\ win'.post = win.post
        /\ win'.buf = win.buf /\ win'.meta = win.meta /\ win'.index = win.index
        /\ win'.cycle = win.cycle /\ win' \in WindowsState
    BY <1>1, <2>2 DEF WindowsState
  <2>4. UNCHANGED <<st, base, offset, fillCnt, post, wrapped, buf, meta, windowsDone, windowsQ,
                    triggered, trigIndex, tsAtTrig, winIdx>>
    BY <2>1 DEF vars, run
  <2>5. /\ win.base = base /\ win.off = offset /\ win.fill = fillCnt /\ win.post = post
        /\ win.wrapped = wrapped /\ win.buf = buf /\ Len(win.meta) = windowsDone
        /\ triggered => win.index = trigIndex /\ win.cycle = tsAtTrig + winIdx
        /\ \A i \in 1 .. windowsDone :
             win.meta[i].index = meta[i - 1].index /\ win.meta[i].wrapped = meta[i - 1].wrapped
    BY DEF SameWindows
  <2>6. /\ win'.base = base' /\ win'.off = offset' /\ win'.fill = fillCnt' /\ win'.post = post'
        /\ win'.wrapped = wrapped' /\ win'.buf = buf' /\ Len(win'.meta) = windowsDone'
        /\ triggered' => win'.index = trigIndex' /\ win'.cycle = tsAtTrig' + winIdx'
    BY <2>3, <2>4, <2>5
  <2>7. \A i \in 1 .. windowsDone' :
          win'.meta[i].index = meta'[i - 1].index /\ win'.meta[i].wrapped = meta'[i - 1].wrapped
    BY <2>3, <2>4, <2>5
  <2>8. st' = "DONE" /\ windowsDone' = windowsQ'
    BY <1>1, <2>1, <2>4
  <2> HIDE DEF WindowsState
  <2> QED
    BY <2>3, <2>6, <2>7, <2>8 DEF SameWindows
<1> QED
  BY <1>3, <1>4

\* The one slice of a run of one window is the buffer.
LEMMA WholeBuffer ==
  ASSUME IInv, SameOptions, windowsQ = 1, st \in Capturing
  PROVE  slice = Depth /\ base = 0 /\ PretrigEff = pretrig
<1>1. weff = 1 /\ winIdx \in Nat /\ slice \in Nat /\ weff * slice = Depth /\ pretrig \in Nat
  BY DepthAssumption DEF SameOptions, IInv, TypeOK, Addresses
<1>2. winIdx = windowsDone /\ windowsDone < 1 /\ base = winIdx * slice
  <2>1. st # "IDLE"
    BY DEF Capturing
  <2> QED
    BY <2>1 DEF IInv, WindowBookkeeping
<1>3. winIdx = 0
  BY <1>1, <1>2
<1>4. 1 * slice = slice /\ 0 * slice = 0 /\ pretrig \div 1 = pretrig
  BY <1>1
<1> QED
  BY <1>1, <1>2, <1>3, <1>4 DEF PretrigEff

\* In a run of one window a pass of capture_model is an edge of the core.
LEMMA CaptureModelStep ==
  ASSUME IInv, IInv', SameOptions, SameCapture, windowsQ = 1, NEW t \in BOOLEAN,
         st \in Capturing, Fill(TRUE, t) \/ Watch(TRUE, t) \/ Collect(TRUE, t),
         cap' = IF cap.st = "DONE" THEN cap ELSE CapturePass(cap, Depth, pretrig, now, t)
  PROVE  SameCapture'
<1>1. slice = Depth /\ base = 0 /\ PretrigEff = pretrig
  BY WholeBuffer
<1>2. /\ cap.st = st /\ cap.wptr = offset /\ cap.fill = fillCnt /\ cap.post = post
      /\ cap.wrapped = wrapped /\ cap.buf = buf /\ cap \in CaptureState
  BY DEF SameCapture
<1>3. cap' = CapturePass(cap, Depth, pretrig, now, t)
  BY <1>2 DEF Capturing
<1>4. /\ Capture(TRUE, t)
      /\ st' = (CASE st = "FILLING" /\ FillNext(TRUE) >= PretrigEff -> "ARMED"
                  [] Accepts(TRUE, t) -> "TRIGGERED"
                  [] st = "TRIGGERED" /\ PostNext(TRUE) = 0 -> "DONE"
                  [] OTHER -> st)
  BY DEF Fill, Watch, Collect, Accepts, run
<1>5. RefWrites(cap) = Stores(TRUE) /\ RefFill(cap) = FillNext(TRUE) /\ RefPost(cap) = PostNext(TRUE)
  BY <1>2 DEF RefWrites, RefFill, RefPost, Stores, FillNext, PostNext
<1> DEFINE accepted == t /\ cap.st = "ARMED"
<1>6. /\ cap'.st = (CASE cap.st = "FILLING" /\ RefFill(cap) >= pretrig -> "ARMED"
                      [] accepted -> "TRIGGERED"
                      [] cap.st = "TRIGGERED" /\ RefPost(cap) = 0 -> "DONE"
                      [] OTHER -> cap.st)
      /\ cap'.wptr = (IF RefWrites(cap) THEN (cap.wptr + 1) % Depth ELSE cap.wptr)
      /\ cap'.fill = RefFill(cap)
      /\ cap'.post = (IF accepted THEN RefBudget(Depth, pretrig) ELSE RefPost(cap))
      /\ cap'.wrapped = (cap.wrapped \/ (RefWrites(cap) /\ cap.wptr = Depth - 1))
      /\ cap'.index = (IF accepted THEN cap.wptr ELSE cap.index)
      /\ cap'.buf = (IF RefWrites(cap) THEN [cap.buf EXCEPT ![cap.wptr] = now] ELSE cap.buf)
      /\ cap' = [st |-> cap'.st, wptr |-> cap'.wptr, fill |-> cap'.fill, post |-> cap'.post,
                 wrapped |-> cap'.wrapped, index |-> cap'.index, buf |-> cap'.buf]
  BY <1>3 DEF CapturePass
<1>7. accepted = Accepts(TRUE, t)
  BY <1>2 DEF Accepts
<1> HIDE DEF accepted
<1>8. offset \in Nat
  BY <1>1, DepthAssumption DEF IInv, TypeOK
<1>9. /\ cap'.st = st' /\ cap'.wptr = offset' /\ cap'.fill = fillCnt' /\ cap'.post = post'
      /\ cap'.wrapped = wrapped' /\ cap'.buf = buf'
  <2>1. cap'.st = st'
    BY <1>1, <1>2, <1>4, <1>5, <1>6, <1>7
  <2>2. cap'.wptr = offset' /\ cap'.fill = fillCnt'
    BY <1>1, <1>2, <1>4, <1>5, <1>6 DEF Capture
  <2>3. cap'.buf = buf'
    <3>1. WrAddr = offset
      BY <1>1, <1>8 DEF WrAddr
    <3>2. buf' = IF Stores(TRUE) THEN [buf EXCEPT ![offset] = now] ELSE buf
      BY <1>4, <3>1 DEF Capture
    <3>3. cap'.buf = IF Stores(TRUE) THEN [buf EXCEPT ![offset] = now] ELSE buf
      BY <1>2, <1>5, <1>6
    <3> QED
      BY <3>2, <3>3
  <2>4. cap'.post = post'
    BY <1>1, <1>2, <1>4, <1>5, <1>6, <1>7 DEF Capture, RefBudget
  <2>5. cap'.wrapped = wrapped'
    BY <1>1, <1>2, <1>4, <1>5, <1>6 DEF Capture, WrappedNext
  <2> QED
    BY <2>1, <2>2, <2>3, <2>4, <2>5
<1>10. cap'.index \in Int
  BY <1>2, <1>6, <1>8 DEF CaptureState
<1>11. triggered' => cap'.index = trigIndex'
  <2>1. CASE Accepts(TRUE, t)
    BY <1>1, <1>2, <1>4, <1>6, <1>7, <1>8, <2>1 DEF Capture, WrAddr
  <2>2. CASE ~Accepts(TRUE, t)
    BY <1>4, <1>6, <1>7, <2>2 DEF Capture, SameCapture
  <2> QED
    BY <2>1, <2>2
<1>12. st' # "IDLE" /\ st' \in States
  BY <1>4 DEF Capturing, States
<1>13. /\ offset' \in Nat /\ fillCnt' \in Nat /\ post' \in Int
       /\ wrapped' \in BOOLEAN /\ buf' \in [Addresses -> Stamps \cup {NoSample}]
  BY DEF IInv, TypeOK
<1>14. cap' \in CaptureState
  BY <1>6, <1>9, <1>10, <1>12, <1>13 DEF CaptureState
<1> QED
  BY <1>9, <1>11, <1>14 DEF SameCapture

\* After its window a run of one window rests, and so does capture_model.
LEMMA CaptureModelRests ==
  ASSUME IInv, SameCapture, windowsQ = 1, st = "DONE", NextWindow \/ Rest, NEW t \in BOOLEAN,
         cap' = IF cap.st = "DONE" THEN cap ELSE CapturePass(cap, Depth, pretrig, now, t)
  PROVE  SameCapture'
<1>1. cap' = cap
  BY DEF SameCapture
<1>2. windowsDone = winIdx + 1 /\ winIdx \in Nat
  BY DEF IInv, TypeOK, WindowBookkeeping
<1>3. ~(windowsDone < 1)
  BY <1>2
<1>4. UNCHANGED vars
  BY <1>3 DEF NextWindow, Rest
<1> QED
  BY <1>1, <1>4 DEF SameCapture, vars, run

\* A cycle of the bench keeps the models and the core in step.
LEMMA BenchStep ==
  ASSUME IInv, IInv', CosimInv, NEW t \in BOOLEAN, BenchCycle(t)
  PROVE  CosimInv'
<1>1. /\ cycle \in Nat /\ cycle' = cycle + 1 /\ opts' = opts /\ now' >= now
      /\ win.st # "returned" /\ Edge(TRUE, t, FALSE, FALSE)
      /\ win' = WindowsPass(win, Depth, opts.slice, opts.windows, opts.pEff, cycle, now, t)
      /\ cap' = IF cap.st = "DONE" THEN cap ELSE CapturePass(cap, Depth, pretrig, now, t)
  <2>1. cycle \in Nat
    BY DEF BenchCycle, CosimInv
  <2> QED
    BY <2>1 DEF BenchCycle
<1>2. SameOptions /\ SameWindows /\ (windowsQ = 1 => SameCapture)
  BY <1>1 DEF CosimInv, Underway
<1>3. st # "IDLE"
  BY <1>2 DEF SameWindows
<1>4. \/ (Fill(TRUE, t) \/ Watch(TRUE, t) \/ Collect(TRUE, t)) /\ st \in Capturing
      \/ (NextWindow \/ Rest) /\ st = "DONE"
  BY <1>1, <1>3 DEF Edge, Fill, Watch, Collect, Capturing, NextWindow, Rest
<1>5. UNCHANGED <<windowsQ, slice, runPre, weff>>
  BY <1>4 DEF Fill, Watch, Collect, NextWindow, Rest, run, vars
<1>6. SameOptions'
  BY <1>1, <1>2, <1>5 DEF SameOptions
<1>7. SameWindows'
  <2>1. CASE (Fill(TRUE, t) \/ Watch(TRUE, t) \/ Collect(TRUE, t)) /\ st \in Capturing
    BY <1>1, <1>2, <2>1, WindowsSampleStep
  <2>2. CASE (NextWindow \/ Rest) /\ st = "DONE"
    BY <1>1, <1>2, <2>2, WindowsDoneStep
  <2> QED
    BY <1>4, <2>1, <2>2
<1>8. ASSUME windowsQ' = 1 PROVE SameCapture'
  <2>1. windowsQ = 1 /\ SameCapture
    BY <1>2, <1>5, <1>8
  <2>2. CASE (Fill(TRUE, t) \/ Watch(TRUE, t) \/ Collect(TRUE, t)) /\ st \in Capturing
    BY <1>1, <1>2, <2>1, <2>2, CaptureModelStep
  <2>3. CASE (NextWindow \/ Rest) /\ st = "DONE"
    BY <1>1, <2>1, <2>3, CaptureModelRests
  <2> QED
    BY <1>4, <2>2, <2>3
<1> QED
  BY <1>1, <1>6, <1>7, <1>8 DEF CosimInv, Underway

\* The models follow the core in every run of the bench.
LEMMA CosimInvariant == CosimSpec => [](IInv /\ CosimInv)
<1>1. CosimSpec => []IInv
  <2>1. CosimInit => Init
    BY DEF CosimInit
  <2>2. [CosimNext]_cosimVars => [Next]_vars
    BY CosimSteps DEF cosimVars
  <2>3. CosimSpec => Spec
    BY <2>1, <2>2, PTL DEF CosimSpec, Spec
  <2> QED
    BY <2>3, Invariant, PTL
<1>2. CosimInit => CosimInv
  BY DEF CosimInit, Init, CosimInv, Unstarted, Underway
<1>3. IInv /\ IInv' /\ CosimInv /\ [CosimNext]_cosimVars => CosimInv'
  <2> SUFFICES ASSUME IInv, IInv', CosimInv, [CosimNext]_cosimVars PROVE CosimInv'
    OBVIOUS
  <2>1. CASE Setup
    BY <2>1, SetupStep
  <2>2. CASE Launch
    BY <2>2, LaunchStep
  <2>3. CASE \E t \in BOOLEAN : BenchCycle(t)
    BY <2>3, BenchStep
  <2>4. CASE UNCHANGED cosimVars
    <3>1. UNCHANGED vars /\ UNCHANGED <<cycle, cap, win, opts>>
      BY <2>4 DEF cosimVars
    <3>2. CosimInv' = CosimInv
      BY <3>1 DEF CosimInv, Unstarted, Underway, SameOptions, SameWindows, SameCapture,
                  vars, config, run
    <3> QED
      BY <3>2
  <2> QED
    BY <2>1, <2>2, <2>3, <2>4 DEF CosimNext
<1> QED
  BY <1>1, <1>2, <1>3, PTL DEF CosimSpec

\* In a run of one window capture_model and the core agree cycle for cycle
\* on state, buffer, counters, trigger address and the wrapped flag, for
\* every depth and pre-trigger length (scope_ref.py 47-111).
THEOREM CaptureModelIsExact == CosimSpec => []CaptureModelExact
<1>1. CosimInv => CaptureModelExact
  BY DEF CosimInv, CaptureModelExact, Underway, SameOptions, SameCapture
<1> QED
  BY <1>1, CosimInvariant, PTL

\* In a run of any number of windows windows_model and the core agree cycle
\* for cycle on state, slice, buffer, records and the cycle of the trigger
\* (scope_ref.py 138-216).
THEOREM WindowsModelIsExact == CosimSpec => []WindowsModelExact
<1>1. IInv /\ CosimInv => WindowsModelExact
  <2> SUFFICES ASSUME IInv, CosimInv, Underway PROVE WindowsModelExact
    BY DEF WindowsModelExact
  <2>1. SameOptions /\ SameWindows
    BY DEF CosimInv
  <2>2. win.st = "returned" => st = "DONE" /\ windowsDone = windowsQ
    <3>1. st # "returned"
      BY DEF IInv, TypeOK, States
    <3> QED
      BY <2>1, <3>1 DEF SameWindows
  <2> QED
    BY <2>1, <2>2 DEF WindowsModelExact, SameOptions, SameWindows
<1> QED
  BY <1>1, CosimInvariant, PTL

----------------------------------------------------------------------------
(* The frames of a drain.                                                  *)

Stored == Nat \X Nat

\* q has the first n bytes of chunk c's payload.
Filled(q, n, c) ==
  /\ q \in Seq(Stored) /\ Len(q) = n
  /\ \A s \in Nat, j \in 0 .. nb - 1 : s * nb + j < n => q[s * nb + j + 1] = <<c * Spf + s, j>>

Payloads == {f \in [chunk : Nat, len : Nat, body : Seq(Stored)] : f = Frame(f.chunk, f.body)}

\* f is the frame of chunk c.
IsFrame(f, c) == f = Frame(c, f.body) /\ Filled(f.body, Spf * nb, c)

\* The first m bytes of the word under way are in the lane buffer.
LanesHold(m) == \A i \in 0 .. nb - 1 : i < m => laneBuf[i] = <<chunk * Spf + sample, i>>

LanesTypeOK ==
  /\ nb \in WordBytes /\ chunk \in 0 .. Chunks /\ sample \in 0 .. Spf
  /\ laneQ \in 0 .. LaneCount /\ bidx \in 0 .. nb
  /\ phase \in {"frame", "lane", "byte", "hunt"}
  /\ DOMAIN laneBuf = 0 .. 4 * LaneCount - 1

\* The frames sent are those of the chunks so far.
FramesSent ==
  /\ Len(frames) = chunk /\ frames \in Seq(Payloads)
  /\ \A c \in 1 .. chunk : IsFrame(frames[c], c - 1)

\* And the open one has the words so far and the bytes of the word under way.
DrainInv ==
  /\ LanesTypeOK
  /\ phase = "hunt" => chunk = Chunks
  /\ phase # "hunt" => chunk < Chunks
  /\ phase \in {"lane", "byte"} => sample < Spf
  /\ phase = "lane" => LanesHold(4 * laneQ) /\ Filled(body, sample * nb, chunk)
  /\ phase = "byte" => LanesHold(nb) /\ Filled(body, sample * nb + bidx, chunk)
  /\ FramesSent

\* The numbers of a drain.
LEMMA DrainNumbers ==
  ASSUME WordBytes \subseteq 1 .. 64, LanesTypeOK
  PROVE  /\ nb \in Nat \ {0} /\ nb <= 64 /\ Spf \in Nat \ {0} /\ Chunks \in Nat \ {0}
         /\ Chunks * Spf = Length /\ Length \in Nat
         /\ LaneCount \in 1 .. 16 /\ nb <= 4 * LaneCount
         /\ chunk \in Nat /\ sample \in Nat /\ laneQ \in Nat /\ bidx \in Nat
<1>1. nb \in 1 .. 64
  BY DEF LanesTypeOK
<1>2. LaneCount \in 1 .. 16 /\ nb <= 4 * LaneCount
  BY <1>1 DEF LaneCount
<1>3. Spf \in Nat \ {0} /\ Length \in Nat \ {0} /\ Length % Spf = 0
  BY FramesAssumption
<1>5. Length = Spf * (Length \div Spf) + (Length % Spf) /\ Length \div Spf \in Nat
  <2>1. \A a \in Nat, b \in Nat \ {0} : a = b * (a \div b) + (a % b) /\ a \div b \in Nat
    BY Z3
  <2> QED
    BY <1>3, <2>1, Zenon
<1>6. Length = Chunks * Spf /\ Chunks \in Nat
  <2>3. Length = Spf * Chunks + 0 /\ Chunks \in Nat
    BY <1>3, <1>5, Zenon DEF Chunks
  <2>1. Length = Spf * Chunks /\ Chunks \in Nat
    BY <1>3, <2>3, Products
  <2>2. \A a, b \in Nat : a * b = b * a
    BY Z3
  <2> QED
    BY <1>3, <2>1, <2>2
<1>7. Chunks # 0
  <2>1. CASE Chunks = 0
    <3>1. Chunks * Spf = 0
      BY <1>3, <2>1, Products
    <3> QED
      BY <1>3, <1>6, <3>1
  <2> QED
    BY <2>1
<1>8. chunk \in Nat /\ sample \in Nat /\ laneQ \in Nat /\ bidx \in Nat
  BY <1>1, <1>2, <1>3, <1>6 DEF LanesTypeOK
<1> QED
  BY <1>1, <1>2, <1>3, <1>6, <1>7, <1>8

\* A drain begins with no frame.
LEMMA DrainInit ==
  ASSUME WordBytes \subseteq 1 .. 64, LanesInit
  PROVE  DrainInv
<1>1. nb \in WordBytes /\ chunk = 0 /\ sample = 0 /\ laneQ = 0 /\ bidx = 0
      /\ phase = "frame" /\ frames = <<>> /\ DOMAIN laneBuf = 0 .. 4 * LaneCount - 1
  BY DEF LanesInit
<1>2. nb \in 1 .. 64 /\ LaneCount \in 1 .. 16
  BY <1>1 DEF LaneCount
<1>3. Spf \in Nat \ {0} /\ Chunks \in Nat
  BY FramesAssumption, Z3 DEF Chunks
<1>4. LanesTypeOK
  BY <1>1, <1>2, <1>3 DEF LanesTypeOK
<1>5. chunk < Chunks
  <2>1. Chunks \in Nat \ {0}
    BY <1>4, DrainNumbers
  <2> QED
    BY <1>1, <2>1
<1>6. Len(frames) = 0 /\ frames \in Seq(Payloads) /\ 1 .. 0 = {}
  BY <1>1
<1> QED
  BY <1>1, <1>4, <1>5, <1>6 DEF DrainInv, FramesSent

\* What a byte more fills.
LEMMA FilledNext ==
  ASSUME nb \in Nat \ {0}, NEW q, NEW s \in Nat, NEW i \in 0 .. nb - 1, NEW c \in Nat,
         Spf \in Nat, Filled(q, s * nb + i, c)
  PROVE  Filled(Append(q, <<c * Spf + s, i>>), s * nb + (i + 1), c)
<1> DEFINE n == s * nb + i
           x == <<c * Spf + s, i>>
           r == Append(q, x)
<1>1. s * nb \in Nat /\ n \in Nat /\ s * nb + (i + 1) = n + 1
  <2>1. s * nb \in Nat
    BY Products
  <2> QED
    BY <2>1
<1>2. x \in Stored
  <2>1. c * Spf \in Nat
    BY Products
  <2> QED
    BY <2>1 DEF Stored
<1>3. q \in Seq(Stored) /\ Len(q) = n
  BY DEF Filled
<1> HIDE DEF x
<1>4. /\ r \in Seq(Stored) /\ Len(r) = n + 1 /\ r[n + 1] = x
      /\ \A k \in 1 .. n : r[k] = q[k]
  BY <1>2, <1>3, AppendProperties
<1> HIDE DEF r
<1>5. ASSUME NEW a \in Nat, NEW j \in 0 .. nb - 1, a * nb + j < n + 1
      PROVE  r[a * nb + j + 1] = <<c * Spf + a, j>>
  <2>1. a * nb \in Nat
    BY Products
  <2> DEFINE k == a * nb + j
  <2>2. k \in Nat /\ k < n + 1
    BY <1>5, <2>1
  <2>3. CASE k = n
    <3>1. a = s /\ j = i
      BY <2>3, OnePlace
    <3>2. r[k + 1] = x
      BY <1>4, <2>3
    <3> QED
      BY <3>1, <3>2 DEF x
  <2>4. CASE k # n
    <3> HIDE DEF n, k
    <3>1. k < n /\ k + 1 \in 1 .. n
      BY <1>1, <2>2, <2>4
    <3>2. q[k + 1] = <<c * Spf + a, j>>
      BY <3>1 DEF Filled, n, k
    <3>3. r[k + 1] = q[k + 1]
      BY <1>4, <3>1
    <3> QED
      BY <3>2, <3>3 DEF k
  <2> QED
    BY <2>3, <2>4
<1> HIDE DEF n
<1>6. Filled(r, n + 1, c)
  BY <1>4, <1>5 DEF Filled
<1> QED
  BY <1>1, <1>6 DEF r, x

\* The frames sent stay as they are until the next one.
LEMMA FramesStay ==
  ASSUME FramesSent, UNCHANGED <<nb, chunk, frames>>
  PROVE  FramesSent'
<1>1. ASSUME NEW c \in 1 .. chunk PROVE IsFrame(frames[c], c - 1)'
  BY DEF FramesSent, IsFrame, Filled, Frame
<1> QED
  BY <1>1 DEF FramesSent

\* A step of the engine within its indices' width.
LEMMA DrainStep ==
  ASSUME WordBytes \subseteq 1 .. 64, DrainInv, [LanesNext]_lanesVars
  PROVE  DrainInv'
<1> DEFINE at == chunk * Spf + sample
<1>1. /\ nb \in Nat \ {0} /\ nb <= 64 /\ Spf \in Nat \ {0} /\ Chunks \in Nat \ {0}
      /\ LaneCount \in 1 .. 16 /\ nb <= 4 * LaneCount
      /\ chunk \in Nat /\ sample \in Nat /\ laneQ \in Nat /\ bidx \in Nat
  BY DrainNumbers DEF DrainInv
<1>2. LanesTypeOK /\ frames \in Seq(Payloads)
  BY DEF DrainInv, FramesSent
<1> DEFINE Stays == UNCHANGED <<nb, chunk, frames>>
<1>0. Stays => FramesSent'
  BY FramesStay DEF DrainInv
<1> HIDE DEF Stays
<1>3. CASE UNCHANGED lanesVars
  <2>1. UNCHANGED <<nb, chunk, sample, laneQ, laneBuf, bidx, phase, body, frames>> /\ Stays
    BY <1>3 DEF lanesVars, Stays
  <2>2. LanesTypeOK'
    BY <1>2, <2>1 DEF LanesTypeOK, LaneCount
  <2>3. phase = "lane" => LanesHold(4 * laneQ)' /\ Filled(body, sample * nb, chunk)'
    BY <2>1 DEF DrainInv, LanesHold, Filled
  <2>4. phase = "byte" => LanesHold(nb)' /\ Filled(body, sample * nb + bidx, chunk)'
    BY <2>1 DEF DrainInv, LanesHold, Filled
  <2>5. phase' = phase /\ chunk' = chunk /\ sample' = sample /\ Chunks' = Chunks
    BY <2>1
  <2> QED
    BY <1>0, <2>1, <2>2, <2>3, <2>4, <2>5 DEF DrainInv
<1>4. CASE OpenFrame
  <2>1. sample' = 0 /\ laneQ' = 0 /\ body' = <<>> /\ phase' = "lane" /\ phase = "frame"
        /\ UNCHANGED <<nb, chunk, laneBuf, bidx, frames>>
    BY <1>4 DEF OpenFrame
  <2>2. LanesTypeOK'
    BY <1>1, <1>2, <2>1 DEF LanesTypeOK, LaneCount
  <2>3. LanesHold(4 * laneQ)'
    BY <1>1, <2>1 DEF LanesHold
  <2>4. Filled(body, sample * nb, chunk)'
    <3>1. 0 * nb = 0 /\ \A s \in Nat : s * nb \in Nat
      BY <1>1, Products
    <3>2. <<>> \in Seq(Stored) /\ Len(<<>>) = 0
      OBVIOUS
    <3>3. \A s \in Nat, j \in 0 .. nb - 1 : ~(s * nb + j < 0)
      <4> SUFFICES ASSUME NEW s \in Nat, NEW j \in 0 .. nb - 1 PROVE ~(s * nb + j < 0)
        OBVIOUS
      <4>1. s * nb \in Nat /\ j \in Nat
        BY <3>1
      <4> QED
        BY <4>1
    <3> QED
      BY <2>1, <3>1, <3>2, <3>3 DEF Filled
  <2> QED
    BY <1>0, <1>1, <2>1, <2>2, <2>3, <2>4 DEF DrainInv, Stays
<1>5. CASE GatherLane
  <2>1. phase = "lane" /\ laneQ < LaneCount
        /\ laneBuf' = LaneAt(laneQ, laneBuf, BufData(chunk * Spf + sample, laneQ))
        /\ laneQ' = laneQ + 1 /\ UNCHANGED <<nb, chunk, sample, bidx, phase, body, frames>>
    BY <1>5 DEF GatherLane
  <2>2. laneQ % 16 = laneQ /\ DOMAIN laneBuf = 0 .. 4 * LaneCount - 1
    BY <1>1, <1>2, <2>1 DEF LanesTypeOK
  <2>3. laneBuf' = [i \in 0 .. 4 * LaneCount - 1 |->
                      IF i \div 4 = laneQ THEN BufData(at, laneQ)[i % 4] ELSE laneBuf[i]]
    BY <2>1, <2>2 DEF LaneAt
  <2>4. LanesTypeOK'
    BY <1>1, <1>2, <2>1, <2>3 DEF LanesTypeOK, LaneCount
  <2>5. ASSUME NEW i \in 0 .. nb - 1, i < 4 * (laneQ + 1) PROVE laneBuf'[i] = <<at, i>>
    <3>1. i \in 0 .. 4 * LaneCount - 1 /\ i \in Nat
      BY <1>1
    <3>2. CASE i \div 4 = laneQ
      <4>1. i % 4 \in 0 .. 3 /\ 4 * laneQ + (i % 4) = i
        BY <3>1, <3>2
      <4>2. BufData(at, laneQ)[i % 4] =
              IF 4 * laneQ + (i % 4) < nb THEN Word(at)[4 * laneQ + (i % 4)] ELSE Zero
        <5> HIDE DEF at
        <5> QED
          BY <4>1 DEF BufData
      <4>3. 4 * laneQ + (i % 4) < nb /\ 4 * laneQ + (i % 4) \in 0 .. nb - 1
        BY <1>1, <4>1
      <4>4. BufData(at, laneQ)[i % 4] = Word(at)[i]
        BY <4>1, <4>2, <4>3
      <4>5. Word(at)[i] = <<at, i>>
        BY DEF Word
      <4> QED
        BY <2>3, <3>1, <3>2, <4>4, <4>5
    <3>3. CASE i \div 4 # laneQ
      <4>1. i < 4 * laneQ
        BY <1>1, <2>5, <3>1, <3>3
      <4>2. laneBuf[i] = <<at, i>>
        BY <2>1, <4>1 DEF DrainInv, LanesHold
      <4>3. laneBuf'[i] = laneBuf[i]
        BY <2>3, <3>1, <3>3
      <4> QED
        BY <4>2, <4>3
    <3> QED
      BY <3>2, <3>3
  <2>6. LanesHold(4 * laneQ)'
    BY <2>1, <2>5 DEF LanesHold
  <2>7. Filled(body, sample * nb, chunk)'
    BY <2>1 DEF DrainInv, Filled
  <2> QED
    BY <1>0, <2>1, <2>4, <2>6, <2>7 DEF DrainInv, Stays
<1>6. CASE Gathered
  <2>1. phase = "lane" /\ laneQ = LaneCount /\ bidx' = 0 /\ phase' = "byte"
        /\ UNCHANGED <<nb, chunk, sample, laneQ, laneBuf, body, frames>>
    BY <1>6 DEF Gathered
  <2>2. LanesTypeOK'
    BY <1>1, <1>2, <2>1 DEF LanesTypeOK, LaneCount
  <2>3. LanesHold(nb)'
    BY <1>1, <2>1 DEF DrainInv, LanesHold
  <2>4. sample * nb \in Nat /\ sample * nb + 0 = sample * nb
    <3>1. sample * nb \in Nat
      BY <1>1, Products
    <3> QED
      BY <3>1
  <2>5. Filled(body, sample * nb + bidx, chunk)'
    BY <2>1, <2>4 DEF DrainInv, Filled
  <2> QED
    BY <1>0, <2>1, <2>2, <2>3, <2>5 DEF DrainInv, Stays
<1>7. CASE EmitByte
  <2>1. phase = "byte" /\ bidx < nb /\ body' = Append(body, laneBuf[bidx % 64]) /\ bidx' = bidx + 1
        /\ UNCHANGED <<nb, chunk, sample, laneQ, laneBuf, phase, frames>>
    BY <1>7 DEF EmitByte
  <2>2. LanesTypeOK'
    BY <1>1, <1>2, <2>1 DEF LanesTypeOK, LaneCount
  <2>3. LanesHold(nb)'
    BY <2>1 DEF DrainInv, LanesHold
  <2>4. bidx % 64 = bidx /\ bidx \in 0 .. nb - 1
    BY <1>1, <2>1
  <2>5. laneBuf[bidx % 64] = <<chunk * Spf + sample, bidx>>
    BY <1>1, <2>1, <2>4 DEF DrainInv, LanesHold
  <2>6. Filled(body, sample * nb + bidx, chunk)
    BY <2>1 DEF DrainInv
  <2>7. Filled(body', sample * nb + (bidx + 1), chunk)
    BY <1>1, <2>1, <2>4, <2>5, <2>6, FilledNext
  <2>8. Filled(body, sample * nb + bidx, chunk)'
    BY <2>1, <2>7 DEF Filled
  <2>9. phase' = "byte" /\ chunk < Chunks /\ sample < Spf /\ chunk' = chunk /\ sample' = sample
    BY <2>1 DEF DrainInv
  <2>10. FramesSent'
    BY <1>0, <2>1 DEF Stays
  <2> QED
    BY <2>2, <2>3, <2>8, <2>9, <2>10 DEF DrainInv
<1>8. CASE SampleDone
  <2>1. /\ phase = "byte" /\ bidx = nb /\ sample' = sample + 1 /\ laneQ' = 0
        /\ UNCHANGED <<nb, laneBuf, bidx, body>>
        /\ IF sample + 1 < Spf THEN phase' = "lane" /\ UNCHANGED <<chunk, frames>>
           ELSE /\ chunk' = chunk + 1 /\ frames' = Append(frames, Frame(chunk, body))
                /\ phase' = IF chunk + 1 < Chunks THEN "frame" ELSE "hunt"
    BY <1>8 DEF SampleDone, Number
  <2>2. /\ sample < Spf /\ chunk < Chunks /\ Filled(body, sample * nb + bidx, chunk)
        /\ Len(frames) = chunk
        /\ \A c \in 1 .. chunk : IsFrame(frames[c], c - 1)
    BY <2>1 DEF DrainInv, FramesSent
  <2>3. sample * nb \in Nat /\ (sample + 1) * nb = sample * nb + nb
    BY <1>1, Products
  <2>4. Filled(body, (sample + 1) * nb, chunk)
    BY <2>1, <2>2, <2>3
  <2>5. chunk' \in 0 .. Chunks /\ LanesTypeOK'
    BY <1>1, <1>2, <2>1, <2>2 DEF LanesTypeOK, LaneCount
  <2>6. CASE sample + 1 < Spf
    <3>1. phase' = "lane" /\ chunk' = chunk /\ frames' = frames
      BY <2>1, <2>6
    <3>2. LanesHold(4 * laneQ)'
      BY <1>1, <2>1 DEF LanesHold
    <3>3. Filled(body, sample * nb, chunk)'
      BY <2>1, <2>4, <3>1 DEF Filled
    <3> QED
      BY <1>0, <2>1, <2>2, <2>5, <2>6, <3>1, <3>2, <3>3 DEF DrainInv, Stays
  <2>7. CASE ~(sample + 1 < Spf)
    <3> DEFINE f == Frame(chunk, body)
    <3>1. sample + 1 = Spf
      BY <1>1, <2>2, <2>7
    <3>2. /\ chunk' = chunk + 1 /\ frames' = Append(frames, f)
          /\ phase' = IF chunk + 1 < Chunks THEN "frame" ELSE "hunt"
      BY <2>1, <2>7
    <3>3. f.body = body /\ f.chunk = chunk
      BY DEF Frame
    <3>4. f \in Payloads
      <4>1. body \in Seq(Stored) /\ 2 + Len(body) \in Nat
        BY <2>2, LenProperties DEF Filled
      <4> QED
        BY <1>1, <3>3, <4>1 DEF Payloads, Frame
    <3>5. IsFrame(f, chunk)
      BY <2>4, <3>1, <3>3 DEF IsFrame
    <3> HIDE DEF f
    <3>6. /\ frames' \in Seq(Payloads) /\ Len(frames') = chunk + 1 /\ frames'[chunk + 1] = f
          /\ \A c \in 1 .. chunk : frames'[c] = frames[c]
      BY <1>2, <2>2, <3>2, <3>4, AppendProperties
    <3>7. ASSUME NEW c \in 1 .. chunk + 1 PROVE IsFrame(frames'[c], c - 1)
      <4>1. CASE c = chunk + 1
        <5>1. c - 1 = chunk
          BY <1>1, <4>1
        <5> QED
          BY <3>5, <3>6, <4>1, <5>1
      <4>2. CASE c # chunk + 1
        <5>1. c \in 1 .. chunk
          BY <1>1, <4>2
        <5> QED
          BY <2>2, <3>6, <5>1
      <4> QED
        BY <4>1, <4>2
    <3>8. (\A c \in 1 .. chunk : IsFrame(frames[c], c - 1))'
      BY <2>1, <3>2, <3>7 DEF IsFrame, Filled, Frame
    <3>9. chunk + 1 <= Chunks /\ (~(chunk + 1 < Chunks) => chunk + 1 = Chunks)
      BY <1>1, <2>2
    <3>10. FramesSent'
      BY <3>2, <3>6, <3>8 DEF FramesSent
    <3> QED
      BY <2>5, <3>2, <3>9, <3>10 DEF DrainInv
  <2> QED
    BY <2>6, <2>7
<1> QED
  BY <1>3, <1>4, <1>5, <1>6, <1>7, <1>8 DEF LanesNext

\* What fills a payload is determined.
LEMMA FilledOnce ==
  ASSUME nb \in Nat \ {0}, Spf \in Nat, NEW c, NEW q, NEW r,
         Filled(q, Spf * nb, c), Filled(r, Spf * nb, c)
  PROVE  q = r
<1>1. q \in Seq(Stored) /\ r \in Seq(Stored) /\ Len(q) = Spf * nb /\ Len(r) = Spf * nb
  BY DEF Filled
<1> DEFINE n == Spf * nb
<1>2. n \in Nat
  BY Products
<1>3. ASSUME NEW i \in 1 .. n PROVE q[i] = r[i]
  <2>1. i - 1 \in 0 .. n - 1 /\ i - 1 + 1 = i
    <3> HIDE DEF n
    <3> QED
      BY <1>2
  <2>2. PICK s \in 0 .. Spf - 1, j \in 0 .. nb - 1 : i - 1 = s * nb + j
    BY <2>1, PlacesBelow
  <2> DEFINE k == s * nb + j
  <2>3. k = i - 1 /\ s \in Nat
    BY <2>2
  <2>4. k < n
    <3> HIDE DEF n, k
    <3> QED
      BY <1>2, <2>1, <2>3
  <2>5. q[k + 1] = <<c * Spf + s, j>> /\ r[k + 1] = <<c * Spf + s, j>>
    BY <2>3, <2>4 DEF Filled
  <2> HIDE DEF k
  <2>6. k + 1 = i
    BY <2>3
  <2> QED
    BY <2>5, <2>6
<1> QED
  BY <1>1, <1>3, SeqEqual

\* The golden payload of a chunk.
GoldenWord(c, s) == [j \in 1 .. nb |-> Word((c - 1) * Spf + s - 1)[j - 1]]
GoldenPayload(c) == FlattenSeq([s \in 1 .. Spf |-> GoldenWord(c, s)])

\* It is filled with the words of the chunk.
LEMMA GoldenFilled ==
  ASSUME nb \in Nat \ {0}, Spf \in Nat \ {0}, NEW c \in Nat \ {0}
  PROVE  Filled(GoldenPayload(c), Spf * nb, c - 1)
<1> DEFINE parts == [s \in 1 .. Spf |-> GoldenWord(c, s)]
           first == (c - 1) * Spf
           q == FlattenSeq(parts)
<1>1. first \in Nat
  <2>1. c - 1 \in Nat
    OBVIOUS
  <2> QED
    BY <2>1, Products
<1>2. ASSUME NEW s \in 1 .. Spf
      PROVE  /\ GoldenWord(c, s) \in Seq(Stored) /\ Len(GoldenWord(c, s)) = nb
             /\ \A j \in 1 .. nb : GoldenWord(c, s)[j] = <<first + s - 1, j - 1>>
  <2>1. GoldenWord(c, s) = [j \in 1 .. nb |-> Word(first + s - 1)[j - 1]]
    BY DEF GoldenWord
  <2> HIDE DEF first
  <2>2. ASSUME NEW j \in 1 .. nb
        PROVE  Word(first + s - 1)[j - 1] = <<first + s - 1, j - 1>> /\ <<first + s - 1, j - 1>> \in Stored
    <3>1. j - 1 \in 0 .. nb - 1 /\ first + s - 1 \in Nat
      BY <1>1
    <3> QED
      BY <3>1 DEF Word, Stored
  <2>3. GoldenWord(c, s) = [j \in 1 .. nb |-> <<first + s - 1, j - 1>>]
    BY <2>1, <2>2
  <2>4. GoldenWord(c, s) \in [1 .. nb -> Stored]
    BY <2>2, <2>3
  <2> QED
    BY <2>3, <2>4
<1>3. parts \in [1 .. Spf -> Seq(Stored)] /\ \A s \in 1 .. Spf : Len(parts[s]) = nb
  BY <1>2
<1> HIDE DEF parts, first
<1>4. /\ q \in Seq(Stored) /\ Len(q) = Spf * nb
      /\ \A a \in 0 .. Spf - 1, i \in 0 .. nb - 1 : q[a * nb + i + 1] = parts[a + 1][i + 1]
  <2>1. q \in Seq(Stored) /\ Len(q) = Spf * nb /\ RowsOf(q, parts, Spf, nb)
    BY <1>3, FlattenRows
  <2> HIDE DEF q
  <2> QED
    BY <2>1 DEF RowsOf
<1> HIDE DEF q
<1>5. ASSUME NEW s \in Nat, NEW j \in 0 .. nb - 1, s * nb + j < Spf * nb
      PROVE  q[s * nb + j + 1] = <<(c - 1) * Spf + s, j>>
  <2>1. s \in 0 .. Spf - 1
    <3>1. CASE Spf <= s
      <4>1. Spf * nb <= s * nb /\ Spf * nb \in Nat /\ s * nb \in Nat
        BY <3>1, Products
      <4> DEFINE x == s * nb
                 y == Spf * nb
      <4>2. x \in Nat /\ y \in Nat /\ y <= x /\ x + j < y
        BY <1>5, <4>1
      <4> HIDE DEF x, y
      <4>3. FALSE
        BY <4>2
      <4> QED
        BY <4>3
    <3> QED
      BY <3>1
  <2>2. q[s * nb + j + 1] = parts[s + 1][j + 1]
    BY <1>4, <2>1
  <2>3. s + 1 \in 1 .. Spf /\ j + 1 \in 1 .. nb /\ j + 1 - 1 = j
    BY <2>1
  <2>4. parts[s + 1][j + 1] = <<first + (s + 1) - 1, j + 1 - 1>>
    <3>1. parts[s + 1] = GoldenWord(c, s + 1)
      BY <2>3 DEF parts
    <3> QED
      BY <1>2, <2>3, <3>1
  <2>5. first + (s + 1) - 1 = first + s
    BY <1>1
  <2> QED
    BY <2>2, <2>3, <2>4, <2>5 DEF first
<1>6. Filled(q, Spf * nb, c - 1)
  BY <1>4, <1>5 DEF Filled
<1> QED
  BY <1>6 DEF q, parts, GoldenPayload

\* The host gets the words of a payload back.
LEMMA Unpacked ==
  ASSUME nb \in Nat \ {0}, Spf \in Nat \ {0}, NEW c \in Nat, NEW q, Filled(q, Spf * nb, c),
         NEW u, u = UnpackSamples(q)
  PROVE  u = [k \in 1 .. Spf |-> Word(c * Spf + k - 1)]
<1> DEFINE starts == Starts(Len(q))
<1>1. Len(q) = Spf * nb /\ q \in Seq(Stored)
  BY DEF Filled
<1>2. (Spf * nb) \div nb = Spf
  <2>1. \A b \in Nat, w \in Nat \ {0} : (b * w) \div w = b
    BY Z3
  <2> QED
    BY <2>1
<1>3. starts = [k \in 1 .. Spf |-> (k - 1) * nb]
  BY <1>1, <1>2 DEF Starts
<1>4. u = [k \in 1 .. Spf |-> [j \in 0 .. nb - 1 |-> q[starts[k] + j + 1]]]
  <2>1. u = [k \in DOMAIN starts |-> [j \in 0 .. nb - 1 |-> q[starts[k] + j + 1]]]
    BY Zenon DEF UnpackSamples
  <2>2. DOMAIN starts = 1 .. Spf
    BY <1>3
  <2> HIDE DEF starts
  <2> QED
    BY <2>1, <2>2
<1> HIDE DEF starts
<1>5. ASSUME NEW k \in 1 .. Spf PROVE u[k] = Word(c * Spf + k - 1)
  <2>1. k - 1 \in 0 .. Spf - 1 /\ k - 1 \in Nat
    OBVIOUS
  <2>2. c * Spf \in Nat
    BY Products
  <2>3. c * Spf + (k - 1) = c * Spf + k - 1
    BY <2>2
  <2>4. ASSUME NEW j \in 0 .. nb - 1 PROVE q[starts[k] + j + 1] = <<c * Spf + k - 1, j>>
    <3> DEFINE s == k - 1
    <3>1. s * nb + j \in 0 .. Spf * nb - 1 /\ Spf * nb \in Nat
      BY <2>1, PlacesBelow
    <3>2. s * nb + j < Spf * nb /\ s \in Nat
      <4> DEFINE x == s * nb + j
                 y == Spf * nb
      <4>1. x \in 0 .. y - 1 /\ y \in Nat
        BY <3>1
      <4> HIDE DEF x, y
      <4>2. x < y
        BY <4>1
      <4> QED
        BY <2>1, <4>2 DEF x, y
    <3>3. q[s * nb + j + 1] = <<c * Spf + s, j>>
      BY <3>2 DEF Filled
    <3>4. starts[k] = s * nb
      BY <1>3
    <3> QED
      BY <2>3, <3>3, <3>4
  <2>5. u[k] = [j \in 0 .. nb - 1 |-> q[starts[k] + j + 1]]
    BY <1>4
  <2>6. u[k] = [j \in 0 .. nb - 1 |-> <<c * Spf + k - 1, j>>]
    BY <2>4, <2>5
  <2> QED
    BY <2>6 DEF Word
<1>6. u = [k \in 1 .. Spf |-> u[k]]
  BY <1>4
<1> QED
  BY <1>5, <1>6

\* With every frame sent, the frames are the golden model's and the host has
\* every word.
LEMMA DrainArrives ==
  ASSUME WordBytes \subseteq 1 .. 64, DrainInv, phase = "hunt"
  PROVE  /\ frames = DrainFrames
         /\ FlattenSeq([c \in DOMAIN frames |-> UnpackSamples(frames[c].body)]) =
              [k \in 1 .. Length |-> Word(k - 1)]
<1>1. LanesTypeOK /\ chunk = Chunks /\ Len(frames) = chunk /\ frames \in Seq(Payloads)
      /\ \A c \in 1 .. chunk : IsFrame(frames[c], c - 1)
  BY DEF DrainInv, FramesSent
<1>2. /\ nb \in Nat \ {0} /\ Spf \in Nat \ {0} /\ Chunks \in Nat \ {0}
      /\ Chunks * Spf = Length /\ Length \in Nat
  BY <1>1, DrainNumbers
<1>3. DOMAIN frames = 1 .. Chunks /\ frames = [c \in 1 .. Chunks |-> frames[c]]
  BY <1>1, <1>2
<1>4. ASSUME NEW c \in 1 .. Chunks
      PROVE  /\ frames[c] = Frame(c - 1, GoldenPayload(c))
             /\ UnpackSamples(frames[c].body) = [k \in 1 .. Spf |-> Word((c - 1) * Spf + k - 1)]
  <2>1. c \in Nat \ {0} /\ c - 1 \in Nat
    BY <1>2
  <2>2. frames[c] = Frame(c - 1, frames[c].body) /\ Filled(frames[c].body, Spf * nb, c - 1)
    BY <1>1 DEF IsFrame
  <2>3. Filled(GoldenPayload(c), Spf * nb, c - 1)
    BY <1>2, <2>1, GoldenFilled
  <2>4. frames[c].body = GoldenPayload(c)
    BY <1>2, <2>2, <2>3, FilledOnce
  <2>5. UnpackSamples(frames[c].body) = [k \in 1 .. Spf |-> Word((c - 1) * Spf + k - 1)]
    BY <1>2, <2>1, <2>2, Unpacked
  <2> QED
    BY <2>2, <2>4, <2>5
<1>5. frames = DrainFrames
  <2>1. DrainFrames = [c \in 1 .. Chunks |-> Frame(c - 1, GoldenPayload(c))]
    BY DEF DrainFrames, GoldenPayload, GoldenWord
  <2> QED
    BY <1>3, <1>4, <2>1
<1> DEFINE words == [c \in DOMAIN frames |-> UnpackSamples(frames[c].body)]
           StoredWords == [0 .. nb - 1 -> Stored]
           buffer == [k \in 1 .. Length |-> Word(k - 1)]
<1>6. words = [c \in 1 .. Chunks |-> [k \in 1 .. Spf |-> Word((c - 1) * Spf + k - 1)]]
  BY <1>3, <1>4
<1>7. \A s \in Nat : Word(s) \in StoredWords
  BY DEF Word, Stored
<1> HIDE DEF words, StoredWords
<1>8. words \in [1 .. Chunks -> Seq(StoredWords)] /\ \A c \in 1 .. Chunks : Len(words[c]) = Spf
  <2>1. ASSUME NEW c \in 1 .. Chunks PROVE words[c] \in Seq(StoredWords) /\ Len(words[c]) = Spf
    <3>1. c - 1 \in Nat /\ (c - 1) * Spf \in Nat
      <4>1. c - 1 \in Nat
        BY <1>2
      <4> QED
        BY <1>2, <4>1, Products
    <3> DEFINE x == (c - 1) * Spf
    <3>2. words[c] = [k \in 1 .. Spf |-> Word(x + k - 1)]
      BY <1>6
    <3>3. x \in Nat
      BY <3>1
    <3> HIDE DEF x
    <3>4. ASSUME NEW k \in 1 .. Spf PROVE Word(x + k - 1) \in StoredWords
      <4>1. x + k - 1 \in Nat
        BY <3>3
      <4> QED
        BY <1>7, <4>1
    <3>5. words[c] \in [1 .. Spf -> StoredWords]
      BY <3>2, <3>4
    <3> QED
      BY <1>2, <3>2, <3>5
  <2> QED
    BY <1>6, <2>1
<1> DEFINE q == FlattenSeq(words)
<1>9. q \in Seq(StoredWords) /\ Len(q) = Length /\ RowsOf(q, words, Chunks, Spf)
  <2>1. q \in Seq(StoredWords) /\ Len(q) = Chunks * Spf /\ RowsOf(q, words, Chunks, Spf)
    BY <1>2, <1>8, FlattenRows
  <2> HIDE DEF q
  <2> QED
    BY <1>2, <2>1
<1> HIDE DEF q
<1>10. ASSUME NEW k \in 1 .. Length PROVE q[k] = Word(k - 1)
  <2>1. k - 1 \in 0 .. Length - 1 /\ k - 1 + 1 = k
    BY <1>2
  <2>2. PICK a \in 0 .. Chunks - 1, i \in 0 .. Spf - 1 : k - 1 = a * Spf + i
    BY <1>2, <2>1, PlacesBelow
  <2>3. a \in Nat /\ a * Spf \in Nat /\ a + 1 \in 1 .. Chunks /\ i + 1 \in 1 .. Spf /\ a + 1 - 1 = a
    <3>1. a \in Nat
      BY <1>2
    <3>2. a * Spf \in Nat
      BY <1>2, <3>1, Products
    <3> QED
      BY <1>2, <3>1, <3>2
  <2>4. q[a * Spf + i + 1] = words[a + 1][i + 1]
    BY <1>9 DEF RowsOf
  <2>5. words[a + 1][i + 1] = Word(a * Spf + (i + 1) - 1)
    <3> DEFINE d == a + 1
               e == i + 1
    <3>1. d \in 1 .. Chunks /\ e \in 1 .. Spf /\ d - 1 = a
      BY <2>3
    <3> HIDE DEF d, e
    <3>2. words[d][e] = Word((d - 1) * Spf + e - 1)
      BY <1>6, <3>1
    <3> QED
      BY <3>1, <3>2 DEF d, e
  <2> DEFINE x == a * Spf
  <2>6. x \in Nat /\ k - 1 = x + i
    BY <2>2, <2>3
  <2> HIDE DEF x
  <2>7. x + i + 1 = k /\ x + (i + 1) - 1 = k - 1
    BY <2>6
  <2> QED
    BY <2>4, <2>5, <2>7 DEF x
<1>11. q = buffer
  <2>1. DOMAIN q = 1 .. Length /\ q = [k \in 1 .. Length |-> q[k]]
    BY <1>9
  <2> QED
    BY <1>10, <2>1
<1> QED
  BY <1>5, <1>11 DEF q, words

\* Every drain brings the golden model's frames, and every word to the host:
\* for every width the engine's indices can count, and every buffer.
THEOREM WordsReachHost == WordBytes \subseteq 1 .. 64 => (LanesSpec => []WordsArrive)
<1> SUFFICES ASSUME WordBytes \subseteq 1 .. 64 PROVE LanesSpec => []WordsArrive
  OBVIOUS
<1>1. LanesInit => DrainInv
  BY DrainInit
<1>2. DrainInv /\ [LanesNext]_lanesVars => DrainInv'
  BY DrainStep
<1>3. DrainInv => WordsArrive
  BY DrainArrives DEF WordsArrive
<1> QED
  BY <1>1, <1>2, <1>3, PTL DEF LanesSpec
=============================================================================
