------------------------------ MODULE MCDrain ------------------------------
(* From the buffer to the user, for TLC: the header of a DRAIN answer (part *)
(* header), its data frames (lanes) and the export of a capture (exports).  *)
EXTENDS DrainHeader, DrainLanes, Exporters

VARIABLE part

\* Five probes: bytes of two bits, codes of base two.
MCPalette == {{}, {0}, {1, 2}, {4}, {0, 1, 3, 4}}
Entry(name, a, b) == [name |-> <<name>>, range |-> <<a, b>>]

\* No names; a group and a single bit; a reversed range over part of another
\* group; everything in one.
MCMappings ==
  {<<>>,
   <<Entry("bus", 2, 1), Entry("cs", 4, 4)>>,
   <<Entry("state", 3, 0), Entry("low", 0, 1)>>,
   <<Entry("all", 4, 0)>>}

MCWidths == 1 .. 64

MCInit ==
  /\ part \in {"header", "lanes", "exports"}
  /\ HeaderInit /\ LanesInit /\ ExportInit
  /\ part # "lanes" => nb = 1
  /\ part # "exports" => sigs = LoadProbes(<<>>) /\ trigPos = NoTrigger

\* Runs of two windows that keep history; aborts and second runs, before or
\* after the end of the first, come at one sample number.
Header ==
  /\ HeaderNext
  /\ pretrig' \in {0, 2}
  /\ st = "IDLE" /\ st' = "FILLING" => windows = 2 /\ pretrig = 2
  /\ st # "IDLE" /\ st' = "IDLE" => now = 2 /\ hdr = Empty
  /\ windowsDone' < windowsDone => now = 2 /\ hdr = Empty

MCNext ==
  /\ \/ part = "header" /\ Header /\ UNCHANGED <<lanesVars, exportVars>>
     \/ part = "lanes" /\ LanesNext /\ UNCHANGED <<headerVars, exportVars>>
     \/ part = "exports" /\ ExportNext /\ UNCHANGED <<headerVars, lanesVars>>
  /\ UNCHANGED part

MCSpec == MCInit /\ [][MCNext]_<<headerVars, lanesVars, exportVars, part>>
=============================================================================
