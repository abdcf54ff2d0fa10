--------------------------- MODULE DataMigration ---------------------------
(***************************************************************************)
(* The migration each production start runs before it listens              *)
(* (instrumentation.ts over lib/data-migrations.ts): file by file, a       *)
(* backup, the upgraded store, and on any error the files backed up so far *)
(* are copied back and the start is refused.  The machine may stop between *)
(* any two steps and a copy may stop half way.  A server that runs writes  *)
(* stores without the version, so every start finds some to upgrade.  The  *)
(* command line next to a running server is left out.                      *)
(***************************************************************************)
EXTENDS Naturals, Sequences

CONSTANTS
  StoreFiles,   \* the stores, in the order they are listed: 1, 2, ...
  MaxStarts,    \* bound: starts of the process
  MaxWrites     \* bound: writes the running server makes

ASSUME MigrationAssumption == StoreFiles \subseteq Nat \ {0} /\ MaxStarts \in Nat /\ MaxWrites \in Nat

VARIABLES
  migFile,    \* each store: its version, and the last write it holds
  migBackup,  \* the backup directory of each start
  migRun,     \* the start under way
  migLast,    \* the last write of each store, and each store as the start found it
  migWrites
migVars == <<migFile, migBackup, migRun, migLast, migWrites>>

Store(version, write) == [version |-> version, write |-> write]
HalfWritten == Store("half", 0)
NoBackup == Store("none", 0)
RemovedStore == Store("none", 0)
Starts == 1 .. MaxStarts
Stopped == [phase |-> "down", at |-> 0, start |-> 0, backedUp |-> <<>>]

\* A store that cannot be parsed is one a start refuses.
MigrationInit ==
  /\ migFile \in [StoreFiles -> {Store("old", 0), Store("new", 0), Store("damaged", 0)}]
  /\ migBackup = [k \in Starts |-> [f \in StoreFiles |-> NoBackup]]
  /\ migRun = Stopped
  /\ migLast = [write |-> [f \in StoreFiles |-> 0], found |-> migFile]
  /\ migWrites = 0

-----------------------------------------------------------------------------
At(phase) == migRun.phase = phase /\ migRun.at \in StoreFiles
After(f) == IF \E g \in StoreFiles : g > f THEN [migRun EXCEPT !.phase = "read", !.at = f + 1]
            ELSE [migRun EXCEPT !.phase = "up", !.at = 0]

\* Every start has a backup directory of its own, named for the time.
Register ==
  /\ migRun.phase \in {"down", "refused"} /\ migRun.start < MaxStarts
  /\ migRun' = [phase |-> "read", at |-> 1, start |-> migRun.start + 1, backedUp |-> <<>>]
  /\ migLast' = [migLast EXCEPT !.found = migFile]
  /\ UNCHANGED <<migFile, migBackup, migWrites>>

\* Mutant of RollBack: only when the file that failed has been backed up.
RollBackOfThis ==
  migRun' = [migRun EXCEPT !.phase =
    IF \E i \in DOMAIN migRun.backedUp : migRun.backedUp[i] = migRun.at THEN "restore" ELSE "refused"]

\* restoreBackup: what has been backed up, in that order.
RollBack == migRun' = [migRun EXCEPT !.phase = IF migRun.backedUp = <<>> THEN "refused" ELSE "restore"]

ReadStore ==
  /\ At("read")
  /\ CASE migFile[migRun.at].version \in {"damaged", "half"} -> RollBack
       [] migFile[migRun.at].version = "old" -> migRun' = [migRun EXCEPT !.phase = "backup"]
       [] migFile[migRun.at].version = "new" -> migRun' = After(migRun.at)
       [] migFile[migRun.at] = RemovedStore -> migRun' = After(migRun.at)   \* not in listStoreFiles
  /\ UNCHANGED <<migFile, migBackup, migLast, migWrites>>

\* Mutant of BackedUpBefore: the file is on the list before it is copied.
BackedUpBeforeCopy(f) == Append(migRun.backedUp, f)

BackedUpBefore(f) == migRun.backedUp

\* cp under way: a stop, or an error such as a full disk, leaves half a copy.
BackUp ==
  /\ At("backup")
  /\ migBackup' = [migBackup EXCEPT ![migRun.start][migRun.at] = HalfWritten]
  /\ migRun' = [migRun EXCEPT !.phase = "copy", !.backedUp = BackedUpBefore(migRun.at)]
  /\ UNCHANGED <<migFile, migLast, migWrites>>

BackedUp ==
  /\ At("copy")
  /\ migBackup' = [migBackup EXCEPT ![migRun.start][migRun.at] = migFile[migRun.at]]
  /\ migRun' = [migRun EXCEPT !.phase = "replace", !.backedUp = Append(@, migRun.at)]
  /\ UNCHANGED <<migFile, migLast, migWrites>>

\* The temporary file is renamed over the store.
ReplaceStore ==
  /\ At("replace")
  /\ migFile' = [migFile EXCEPT ![migRun.at].version = "new"]
  /\ migRun' = After(migRun.at)
  /\ UNCHANGED <<migBackup, migLast, migWrites>>

StepFails ==
  /\ At("read") \/ At("backup") \/ At("copy") \/ At("replace")
  /\ RollBack
  /\ UNCHANGED <<migFile, migBackup, migLast, migWrites>>

\* cp with force removes the store first, then writes it in place.
RestoreBegins ==
  /\ migRun.phase = "restore"
  /\ IF migRun.backedUp = <<>> THEN migRun' = [migRun EXCEPT !.phase = "refused"] /\ UNCHANGED migFile
     ELSE /\ \E torn \in {RemovedStore, HalfWritten} : migFile' = [migFile EXCEPT ![migRun.backedUp[1]] = torn]
          /\ migRun' = [migRun EXCEPT !.phase = "restoring"]
  /\ UNCHANGED <<migBackup, migLast, migWrites>>

Restored ==
  /\ migRun.phase = "restoring"
  /\ migFile' = [migFile EXCEPT ![migRun.backedUp[1]] = migBackup[migRun.start][migRun.backedUp[1]]]
  /\ migRun' = [migRun EXCEPT !.phase = "restore", !.backedUp = Tail(@)]
  /\ UNCHANGED <<migBackup, migLast, migWrites>>

\* A copy back that fails ends the roll-back, too.
RestoreFails ==
  /\ migRun.phase = "restoring"
  /\ migRun' = [migRun EXCEPT !.phase = "broken"]
  /\ UNCHANGED <<migFile, migBackup, migLast, migWrites>>

\* A store written by the server: its version is dropped, but by voice-settings.ts,
\* which writes back the object it has read.
ServeWrite(f) ==
  /\ migRun.phase = "up" /\ migWrites < MaxWrites
  /\ \E version \in {"old"} \cup ({migFile[f].version} \cap {"new"}) :
       migFile' = [migFile EXCEPT ![f] = Store(version, migWrites + 1)]
  /\ migLast' = [migLast EXCEPT !.write[f] = migWrites + 1]
  /\ migWrites' = migWrites + 1
  /\ UNCHANGED <<migBackup, migRun>>

StopProcess ==
  /\ migRun.phase \notin {"down", "refused"}
  /\ migRun' = [Stopped EXCEPT !.start = migRun.start]
  /\ UNCHANGED <<migFile, migBackup, migLast, migWrites>>

MigrationNext ==
  \/ Register \/ ReadStore \/ BackUp \/ BackedUp \/ ReplaceStore \/ StepFails
  \/ RestoreBegins \/ Restored \/ RestoreFails \/ StopProcess
  \/ \E f \in StoreFiles : ServeWrite(f)

MigrationSpec == MigrationInit /\ [][MigrationNext]_migVars

-----------------------------------------------------------------------------
(***************************************************************************)
(* Whatever stops in the middle of a start, of a backup or of a roll-back, *)
(* on whichever start, the last write of every store that could be read is *)
(* still on the disk: in the store or in a backup.                         *)
(***************************************************************************)
LastWriteSurvives ==
  \A f \in StoreFiles :
    LET holds(s) == s.version \in {"old", "new"} /\ s.write = migLast.write[f]
    IN  \/ holds(migFile[f]) \/ \E k \in Starts : holds(migBackup[k][f])
        \/ migFile[f] = Store("damaged", 0)

(***************************************************************************)
(* A start that was refused after its roll-back has changed no store: none *)
(* is left upgraded beside one that is not (runDataMigrations' catch).     *)
(***************************************************************************)
RefusedStartChangesNothing == migRun.phase = "refused" => migFile = migLast.found

=============================================================================
