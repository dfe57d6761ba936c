---------------------------- MODULE DrainHeader ----------------------------
(***************************************************************************)
(* The header of a DRAIN answer (rtl/scope_drain.sv): STATUS, TRIG_INDEX,  *)
(* the two halves of TSTRIG and one WIN_META record for each window, read  *)
(* one after the other over the CSR bus while the core runs on.  The       *)
(* engine is the only master, so nothing is armed or aborted meanwhile; it *)
(* leaves Pause clock cycles or more between two accesses (CsrCrossing      *)
(* shows two).                                                             *)
(* A step is a clock edge.                                                 *)
(***************************************************************************)
EXTENDS ScopeCore, Sequences

CONSTANTS
  Low,      \* 2^32: the values of TSTRIG_LO
  Pause     \* cycles between two accesses: the RAM read takes one

ASSUME LowAssumption == Low \in Nat \ {0}
ASSUME PauseAssumption == Pause \in Nat \ {0}

VARIABLES
  pc,       \* the next access, "off" without a request, "sent" at its end
  gap,      \* cycles since the last access, up to Pause
  hdr,      \* status_q, ti_q, tsl_q, tsh_q and the records sent so far
  winSel,   \* WIN_SEL
  winRead   \* output register of u_win_meta

headerVars == <<vars, pc, gap, hdr, winSel, winRead>>

Empty == [parked |-> FALSE, wrapped |-> FALSE, done |-> 0, index |-> 0, low |-> 0, high |-> 0,
          records |-> <<>>]

\* A run is over: every window done, nothing left to start.
RunOver == st = "DONE" /\ windowsDone >= windowsQ

\* The metadata RAM reads in every cycle what WIN_SEL held before it.
MetaRead == winRead' = meta[winSel]

\* An access of the engine in this cycle, after its pause.
At(place) == pc = place /\ gap = Pause /\ gap' = 0

Request == pc = "off" /\ pc' = "STATUS" /\ gap' = Pause /\ UNCHANGED <<hdr, winSel>>

ReadStatus ==
  /\ At("STATUS") /\ pc' = "TRIG_INDEX"
  /\ hdr' = [hdr EXCEPT !.parked = RunOver, !.wrapped = wrapped, !.done = windowsDone]
  /\ UNCHANGED winSel

ReadIndex ==
  /\ At("TRIG_INDEX") /\ pc' = "TSTRIG_LO"
  /\ hdr' = [hdr EXCEPT !.index = trigIndex]
  /\ UNCHANGED winSel

ReadLow ==
  /\ At("TSTRIG_LO") /\ pc' = "TSTRIG_HI"
  /\ hdr' = [hdr EXCEPT !.low = tsAtTrig % Low]
  /\ UNCHANGED winSel

\* A defect the checks must notice: as many records as windows configured.
MoreOfConfigured(n) == n < windowsQ

\* Another record is to come; windows_done is that of the STATUS read.
More(n) == n < hdr.done

ReadHigh ==
  /\ At("TSTRIG_HI") /\ pc' = IF More(0) THEN "WIN_SEL" ELSE "sent"
  /\ hdr' = [hdr EXCEPT !.high = tsAtTrig \div Low]
  /\ UNCHANGED winSel

\* A defect the checks must notice: the records asked for from 1.
SelectFromOne ==
  /\ At("WIN_SEL") /\ pc' = "WIN_META"
  /\ winSel' = Len(hdr.records) + 1
  /\ UNCHANGED hdr

Select ==
  /\ At("WIN_SEL") /\ pc' = "WIN_META"
  /\ winSel' = Len(hdr.records)
  /\ UNCHANGED hdr

ReadMeta ==
  /\ At("WIN_META")
  /\ hdr' = [hdr EXCEPT !.records = Append(@, winRead)]
  /\ pc' = IF More(Len(hdr.records) + 1) THEN "WIN_SEL" ELSE "sent"
  /\ UNCHANGED winSel

\* The header is complete; the data frames follow.
Sent == pc = "sent" /\ pc' = "off" /\ gap' = Pause /\ hdr' = Empty /\ UNCHANGED winSel

\* A cycle without an access.
Wait ==
  /\ gap' = IF gap < Pause THEN gap + 1 ELSE gap
  /\ UNCHANGED <<pc, hdr, winSel>>

Access == \/ Request \/ ReadStatus \/ ReadIndex \/ ReadLow \/ ReadHigh
          \/ Select \/ ReadMeta \/ Sent

HeaderInit ==
  /\ Init
  /\ pc = "off" /\ gap = Pause /\ hdr = Empty /\ winSel = 0
  /\ winRead = [wrapped |-> FALSE, index |-> 0]

\* Strobes and configuration writes are requests of their own.
HeaderNext ==
  \/ /\ \E v, t \in BOOLEAN : Edge(v, t, FALSE, FALSE)
     /\ MetaRead /\ (Access \/ Wait)
  \/ /\ pc = "off"
     /\ \/ \E v, t, a, d \in BOOLEAN : (a \/ d) /\ Edge(v, t, a, d)
        \/ \E p \in Addresses : WritePretrig(p)
        \/ \E w \in 0 .. MaxWindows : WriteWindows(w)
     /\ MetaRead /\ Wait

HeaderSpec == HeaderInit /\ [][HeaderNext]_headerVars

----------------------------------------------------------------------------
\* A header, whenever it is asked for, has the records of the windows that it
\* counts as done, each as it was written when the window completed, although
\* later windows complete while the records are read (scope_drain.sv 319-384,
\* INTERFACES.md "per window w < windows_done").
RecordsOfWindowsDone ==
  pc = "sent" =>
    /\ Len(hdr.records) = hdr.done
    /\ \A w \in 1 .. hdr.done : hdr.records[w] = meta[w - 1]

\* The header of a parked run is of one piece: index, wrapped and stamp, from
\* four reads, are those of the last window, and the buffer holds the trigger
\* sample where the index says.  (Between two windows they can be of two.)
ParkedHeaderIsWhole ==
  pc = "sent" /\ hdr.parked =>
    /\ hdr.records[hdr.done] = [wrapped |-> hdr.wrapped, index |-> hdr.index]
    /\ buf[hdr.index] = hdr.high * Low + hdr.low
=============================================================================
