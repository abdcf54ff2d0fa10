-------------------------- MODULE ObservabilityLog --------------------------
(***************************************************************************)
(* The event log: observability/port.ts publishes every event to           *)
(* observability/jsonl-exporter.ts and waits for none, so exports that     *)
(* look at the size, rotate and append interleave at every await, next to  *)
(* the administrator's query.  An event is its export; file 0 is the log,  *)
(* file i the i-th of its history.  A rename that fails for another reason *)
(* than a missing source is left out.                                      *)
(***************************************************************************)
EXTENDS Naturals, FiniteSets

CONSTANTS
  Events,    \* one for each export, numbered in the order of publishing
  KeepLogs,  \* AI_WEB_OBSERVABILITY_KEEP_ROTATED
  MaxLines,  \* AI_WEB_OBSERVABILITY_MAX_BYTES, in events
  MaxUnderWay \* bound: exports under way at once

ASSUME LogAssumption == {KeepLogs, MaxLines, MaxUnderWay} \subseteq Nat \ {0} /\ Events \subseteq Nat

VARIABLES
  logFile,    \* the events in each file; no events, no file
  logExport,  \* each export: what it does next, and the next file to rename
  logQuery    \* the query: the next file, what it found, what was there at first
logVars == <<logFile, logExport, logQuery>>

LogFiles == 0 .. KeepLogs
Logged == UNION {logFile[i] : i \in LogFiles}
ExportAt(next, index) == [next |-> next, index |-> index]
NoQuery == [file |-> 0, running |-> FALSE, found |-> {}, due |-> {}, ended |-> FALSE]

LogInit ==
  /\ logFile = [i \in LogFiles |-> {}]
  /\ logExport = [e \in Events |-> ExportAt("unpublished", 0)]
  /\ logQuery = NoQuery

-----------------------------------------------------------------------------
UnderWay == {e \in Events : logExport[e].next \in {"look", "rename", "append"}}

Publish(e) ==
  /\ logExport[e].next = "unpublished" /\ Cardinality(UnderWay) < MaxUnderWay
  /\ \A d \in Events : d < e => logExport[d].next # "unpublished"
  /\ logExport' = [logExport EXCEPT ![e] = ExportAt("look", 0)]
  /\ UNCHANGED <<logFile, logQuery>>

LogFull == Cardinality(logFile[0]) >= MaxLines

LookAtSize(e) ==
  /\ logExport[e].next = "look"
  /\ logExport' = [logExport EXCEPT ![e] =
       IF LogFull THEN ExportAt("rename", KeepLogs - 1) ELSE ExportAt("append", 0)]
  /\ UNCHANGED <<logFile, logQuery>>

\* From the oldest to the log itself; a file that is missing is passed over,
\* one that is in the way is replaced.
RenameNext(e) ==
  LET i == logExport[e].index
  IN  /\ logExport[e].next = "rename"
      /\ logFile' = IF logFile[i] = {} THEN logFile
                    ELSE [logFile EXCEPT ![i + 1] = logFile[i], ![i] = {}]
      /\ logExport' = [logExport EXCEPT ![e] = IF i = 0 THEN ExportAt("append", 0) ELSE ExportAt("rename", i - 1)]
      /\ UNCHANGED logQuery

AppendLine(e) ==
  /\ logExport[e].next = "append"
  /\ logFile' = [logFile EXCEPT ![0] = @ \cup {e}]
  /\ logExport' = [logExport EXCEPT ![e] = ExportAt("done", 0)]
  /\ UNCHANGED logQuery

\* The error is swallowed and the event lost.
ExportFails(e) ==
  /\ logExport[e].next \in {"look", "append"}
  /\ logExport' = [logExport EXCEPT ![e] = ExportAt("done", 0)]
  /\ UNCHANGED <<logFile, logQuery>>

StartQuery ==
  /\ logQuery = NoQuery
  /\ logQuery' = [NoQuery EXCEPT !.running = TRUE, !.due = Logged]
  /\ UNCHANGED <<logFile, logExport>>

\* Mutant of NthRead: the history first, so that events come in their order.
NthReadOldestFirst(n) == KeepLogs - n

NthRead(n) == n

ReadNextLog ==
  LET n == logQuery.file
  IN  /\ logQuery.running
      /\ logQuery' = [logQuery EXCEPT !.found = @ \cup logFile[NthRead(n)], !.file = n + 1,
                                      !.running = n < KeepLogs, !.ended = n = KeepLogs]
      /\ UNCHANGED <<logFile, logExport>>

LogNext ==
  \/ \E e \in Events : Publish(e) \/ LookAtSize(e) \/ RenameNext(e) \/ AppendLine(e) \/ ExportFails(e)
  \/ StartQuery \/ ReadNextLog

LogSpec == LogInit /\ [][LogNext]_logVars

-----------------------------------------------------------------------------

(***************************************************************************)
(* A query that runs into a rotation may read a file twice but never       *)
(* misses an event: what was in the files when it began, and is still in   *)
(* them, it has found (queryByRequestId walks the way the files move).     *)
(***************************************************************************)
QueryMissesNothing == logQuery.ended => logQuery.due \cap Logged \subseteq logQuery.found
=============================================================================
