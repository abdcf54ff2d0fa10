---------------------------- MODULE Stores_proofs ----------------------------
(***************************************************************************)
(* Proofs about what the server stores beside conversations: the migration *)
(* of the data directory, stored providers, knowledge, the chunks of a     *)
(* document, memories and the event log.  The components share no state;   *)
(* each part of this module is about one of them.                          *)
(***************************************************************************)
EXTENDS DataMigration, Settings, KnowledgeStore, PersonaMemory, ObservabilityLog, Chunker,
        Lists_proofs, SequenceTheorems, FunctionTheorems, FiniteSetTheorems, TLAPS

-----------------------------------------------------------------------------
(***************************************************************************)
(* The migration of the data directory, for any stores and any number of   *)
(* starts and writes.                                                      *)
(***************************************************************************)
Versions == {"old", "new", "damaged", "half", "none"}
StoresRead == [version : Versions, write : Nat]
Phases == {"down", "read", "backup", "copy", "replace", "restore", "restoring", "refused", "broken", "up"}

MigrationTypeOK ==
  /\ migFile \in [StoreFiles -> StoresRead]
  /\ migBackup \in [Starts -> [StoreFiles -> StoresRead]]
  /\ migRun \in [phase : Phases, at : Nat, start : 0 .. MaxStarts, backedUp : Seq(StoreFiles)]
  /\ migLast \in [write : [StoreFiles -> Nat], found : [StoreFiles -> StoresRead]]
  /\ migWrites \in Nat

\* What has been backed up and not yet copied back.
Elements(s) == {s[i] : i \in DOMAIN s}
Backed == Elements(migRun.backedUp)

Holds(f, s) == s.version \in {"old", "new"} /\ s.write = migLast.write[f]

\* A store that is half written or gone has a backup; one that can be read is right.
StoresSafe ==
  \A f \in StoreFiles :
    \/ Holds(f, migFile[f])
    \/ migFile[f] = Store("damaged", 0)
    \/ migFile[f] \in {RemovedStore, HalfWritten} /\ \E k \in Starts : Holds(f, migBackup[k][f])

\* The start under way is at a store it can read and has not backed up yet.
RunOrdered ==
  /\ migRun.phase # "down" => migRun.start \in Starts
  /\ migRun.phase \in {"backup", "copy", "replace"} =>
       migRun.at \in StoreFiles /\ migFile[migRun.at].version = "old"
  /\ migRun.phase \in {"read", "backup", "copy"} => \A f \in Backed : f < migRun.at
  /\ migRun.phase = "replace" => migRun.at \in Backed /\ \A f \in Backed : f <= migRun.at
  /\ migRun.phase = "restoring" => migRun.backedUp # <<>>
  /\ migRun.phase = "refused" => migRun.backedUp = <<>>

Undecided == {"read", "backup", "copy", "replace", "restore", "restoring", "refused"}

\* Until a start is over, what it may have changed is in its backup.
ChangesBackedUp ==
  migRun.phase \in Undecided =>
    \A f \in StoreFiles :
      /\ f \notin Backed => migFile[f] = migLast.found[f]
      /\ f \in Backed => /\ migBackup[migRun.start][f] = migLast.found[f]
                         /\ Holds(f, migBackup[migRun.start][f])

MigrationInv == MigrationTypeOK /\ StoresSafe /\ RunOrdered /\ ChangesBackedUp

-----------------------------------------------------------------------------
\* What a list holds after an append, and without its head.
LEMMA AppendHolds ==
  ASSUME NEW S, NEW s \in Seq(S), NEW e \in S
  PROVE  /\ Append(s, e) \in Seq(S)
         /\ Elements(Append(s, e)) = Elements(s) \cup {e}
<1>1. /\ Append(s, e) \in Seq(S) /\ DOMAIN Append(s, e) = 1 .. Len(s) + 1 /\ DOMAIN s = 1 .. Len(s)
      /\ Append(s, e)[Len(s) + 1] = e /\ \A i \in 1 .. Len(s) : Append(s, e)[i] = s[i]
      /\ Len(s) \in Nat
  BY AppendProperties, LenProperties
<1> QED
  BY <1>1 DEF Elements

LEMMA TailHolds ==
  ASSUME NEW S, NEW s \in Seq(S), s # <<>>
  PROVE  /\ Tail(s) \in Seq(S) /\ s[1] \in S /\ 1 \in DOMAIN s
         /\ Elements(s) = Elements(Tail(s)) \cup {s[1]}
<1>1. /\ Tail(s) \in Seq(S) /\ DOMAIN Tail(s) = 1 .. Len(s) - 1 /\ DOMAIN s = 1 .. Len(s)
      /\ \A i \in 1 .. Len(s) - 1 : Tail(s)[i] = s[i + 1]
      /\ Len(s) \in Nat \ {0} /\ \A i \in 1 .. Len(s) : s[i] \in S
  BY HeadTailProperties, EmptySeq, LenProperties, ElementOfSeq
<1>2. \A i \in 1 .. Len(s) : i = 1 \/ (i - 1 \in 1 .. Len(s) - 1 /\ Tail(s)[i - 1] = s[i])
  BY <1>1
<1>3. ASSUME NEW i \in DOMAIN s PROVE s[i] \in Elements(Tail(s)) \cup {s[1]}
  BY <1>1, <1>2 DEF Elements
<1>4. ASSUME NEW i \in DOMAIN Tail(s) PROVE Tail(s)[i] \in Elements(s)
  <2>1. i + 1 \in DOMAIN s /\ Tail(s)[i] = s[i + 1]
    BY <1>1
  <2> QED
    BY <2>1 DEF Elements
<1> QED
  BY <1>1, <1>3, <1>4 DEF Elements

-----------------------------------------------------------------------------
LEMMA MigrationInitially == MigrationInit => MigrationInv
<1> SUFFICES ASSUME MigrationInit PROVE MigrationInv
  OBVIOUS
<1>1. MigrationTypeOK
  BY MigrationAssumption DEF MigrationInit, MigrationTypeOK, StoresRead, Versions, Phases, Store, NoBackup, Stopped, Starts
<1>2. StoresSafe
  <2>1. ASSUME NEW f \in StoreFiles
        PROVE  /\ migFile[f] \in {Store("old", 0), Store("new", 0), Store("damaged", 0)}
               /\ migLast.write[f] = 0
    BY DEF MigrationInit
  <2>2. ASSUME NEW f \in StoreFiles PROVE Holds(f, migFile[f]) \/ migFile[f] = Store("damaged", 0)
    BY <2>1 DEF Holds, Store
  <2> QED
    BY <2>2 DEF StoresSafe
<1>3. RunOrdered /\ ChangesBackedUp
  BY DEF MigrationInit, RunOrdered, ChangesBackedUp, Stopped, Undecided
<1> QED
  BY <1>1, <1>2, <1>3 DEF MigrationInv

\* A start that gives up before it has upgraded the store it is at.
LEMMA RollBackKeeps ==
  ASSUME MigrationInv, RollBack, migRun.phase \in {"read", "backup", "copy", "replace"},
         UNCHANGED <<migFile, migBackup, migLast, migWrites>>
  PROVE  MigrationInv'
<1> USE DEF MigrationInv
<1>1. /\ migRun' \in [phase : Phases, at : Nat, start : 0 .. MaxStarts, backedUp : Seq(StoreFiles)]
      /\ migRun'.phase \in {"refused", "restore"} /\ migRun'.start = migRun.start
      /\ migRun'.backedUp = migRun.backedUp
      /\ migRun'.phase = "refused" => migRun.backedUp = <<>>
  BY DEF RollBack, MigrationTypeOK, Phases
<1>2. MigrationTypeOK' /\ StoresSafe'
  BY <1>1 DEF MigrationTypeOK, StoresSafe, Holds
<1>3. Backed' = Backed
  BY <1>1 DEF Backed
<1>4. RunOrdered' /\ ChangesBackedUp'
  BY <1>1, <1>3 DEF RunOrdered, ChangesBackedUp, Holds, Undecided
<1> QED
  BY <1>2, <1>4

\* Going on to the next store, or up when there is none.
LEMMA AfterMoves ==
  ASSUME MigrationTypeOK, NEW f \in StoreFiles, migRun' = After(f)
  PROVE  /\ migRun' \in [phase : Phases, at : Nat, start : 0 .. MaxStarts, backedUp : Seq(StoreFiles)]
         /\ migRun'.start = migRun.start /\ migRun'.backedUp = migRun.backedUp
         /\ \/ migRun'.phase = "read" /\ migRun'.at = f + 1
            \/ migRun'.phase = "up"
<1>1. f \in Nat /\ f + 1 \in Nat /\ 0 \in Nat
  BY MigrationAssumption
<1>2. CASE \E g \in StoreFiles : g > f
  <2>1. migRun' = [migRun EXCEPT !.phase = "read", !.at = f + 1]
    BY <1>2 DEF After
  <2> QED
    BY <1>1, <2>1 DEF MigrationTypeOK, Phases
<1>3. CASE ~\E g \in StoreFiles : g > f
  <2>1. migRun' = [migRun EXCEPT !.phase = "up", !.at = 0]
    BY <1>3 DEF After
  <2> QED
    BY <1>1, <2>1 DEF MigrationTypeOK, Phases
<1> QED
  BY <1>2, <1>3

LEMMA MigrationStep ==
  ASSUME MigrationInv, MigrationNext
  PROVE  MigrationInv'
<1> USE DEF MigrationInv
<1>0. /\ migRun.at \in Nat /\ migRun.phase \in Phases /\ migRun.start \in 0 .. MaxStarts
      /\ migRun.backedUp \in Seq(StoreFiles) /\ StoreFiles \subseteq Nat /\ MaxStarts \in Nat
      /\ Backed \subseteq StoreFiles
  <2>1. \A i \in DOMAIN migRun.backedUp : migRun.backedUp[i] \in StoreFiles
    BY ElementOfSeq, LenProperties DEF MigrationTypeOK
  <2> QED
    BY <2>1, MigrationAssumption DEF MigrationTypeOK, Backed, Elements
<1>1. CASE Register
  <2>1. /\ migRun' \in [phase : Phases, at : Nat, start : 0 .. MaxStarts, backedUp : Seq(StoreFiles)]
        /\ migRun'.phase = "read" /\ migRun'.start \in Starts /\ migRun'.backedUp = <<>>
    BY <1>0, <1>1, EmptySeq DEF Register, Phases, Starts
  <2>2. /\ migLast' \in [write : [StoreFiles -> Nat], found : [StoreFiles -> StoresRead]]
        /\ migLast'.write = migLast.write /\ migLast'.found = migFile
        /\ migFile' = migFile /\ migBackup' = migBackup /\ migWrites' = migWrites
    BY <1>1 DEF Register, MigrationTypeOK
  <2>3. Backed' = {}
    BY <2>1 DEF Backed, Elements
  <2>4. MigrationTypeOK' /\ StoresSafe'
    BY <2>1, <2>2 DEF MigrationTypeOK, StoresSafe, Holds
  <2>5. RunOrdered' /\ ChangesBackedUp'
    BY <2>1, <2>2, <2>3 DEF RunOrdered, ChangesBackedUp
  <2> QED
    BY <2>4, <2>5
<1>2. CASE ReadStore
  <2>1. migRun.phase = "read" /\ migRun.at \in StoreFiles
        /\ UNCHANGED <<migFile, migBackup, migLast, migWrites>>
    BY <1>2 DEF ReadStore, At
  <2>2. CASE RollBack
    BY <2>1, <2>2, RollBackKeeps
  <2>3. CASE migFile[migRun.at].version = "old" /\ migRun' = [migRun EXCEPT !.phase = "backup"]
    <3>1. /\ migRun' \in [phase : Phases, at : Nat, start : 0 .. MaxStarts, backedUp : Seq(StoreFiles)]
          /\ migRun'.phase = "backup" /\ migRun'.at = migRun.at /\ migRun'.start = migRun.start
          /\ migRun'.backedUp = migRun.backedUp
      BY <2>3 DEF MigrationTypeOK, Phases
    <3>2. Backed' = Backed
      BY <3>1 DEF Backed
    <3>3. MigrationTypeOK' /\ StoresSafe'
      BY <2>1, <3>1 DEF MigrationTypeOK, StoresSafe, Holds
    <3>4. RunOrdered' /\ ChangesBackedUp'
      BY <2>1, <2>3, <3>1, <3>2 DEF RunOrdered, ChangesBackedUp, Holds, Undecided
    <3> QED
      BY <3>3, <3>4
  <2>4. CASE migRun' = After(migRun.at)
    <3>1. Backed' = Backed
      BY <2>1, <2>4, AfterMoves DEF Backed
    <3>2. MigrationTypeOK' /\ StoresSafe'
      BY <2>1, <2>4, AfterMoves DEF MigrationTypeOK, StoresSafe, Holds
    <3>3. RunOrdered'
      BY <1>0, <2>1, <2>4, <3>1, AfterMoves DEF RunOrdered
    <3>4. ChangesBackedUp'
      BY <2>1, <2>4, <3>1, AfterMoves DEF ChangesBackedUp, Holds, Undecided
    <3> QED
      BY <3>2, <3>3, <3>4
  <2>5. migFile[migRun.at].version \in {"damaged", "half", "old", "new"} \/ migFile[migRun.at] = RemovedStore
    BY <2>1 DEF StoresSafe, Holds, Store, HalfWritten, RemovedStore
  <2> QED
    BY <1>2, <2>2, <2>3, <2>4, <2>5 DEF ReadStore
<1>3. CASE BackUp
  <2> DEFINE f == migRun.at
  <2>1. /\ migRun.phase = "backup" /\ f \in StoreFiles /\ migRun.start \in Starts
        /\ Holds(f, migFile[f]) /\ f \notin Backed /\ migFile[f].version = "old"
    BY <1>0, <1>3 DEF BackUp, At, RunOrdered, StoresSafe, Store, HalfWritten, RemovedStore
  <2>2. /\ migRun' \in [phase : Phases, at : Nat, start : 0 .. MaxStarts, backedUp : Seq(StoreFiles)]
        /\ migRun'.phase = "copy" /\ migRun'.at = migRun.at /\ migRun'.start = migRun.start
        /\ migRun'.backedUp = migRun.backedUp
    BY <1>3 DEF BackUp, BackedUpBefore, MigrationTypeOK, Phases
  <2>3. /\ migBackup' \in [Starts -> [StoreFiles -> StoresRead]]
        /\ \A k \in Starts, g \in StoreFiles : g # f => migBackup'[k][g] = migBackup[k][g]
        /\ UNCHANGED <<migFile, migLast, migWrites>>
    BY <1>3, <2>1 DEF BackUp, MigrationTypeOK, StoresRead, Versions, HalfWritten, Store
  <2>4. Backed' = Backed
    BY <2>2 DEF Backed
  <2>5. MigrationTypeOK'
    BY <2>2, <2>3 DEF MigrationTypeOK
  <2>6. StoresSafe'
    <3> SUFFICES ASSUME NEW g \in StoreFiles
                 PROVE  \/ Holds(g, migFile[g])'
                        \/ migFile'[g] = Store("damaged", 0)
                        \/ migFile'[g] \in {RemovedStore, HalfWritten} /\ \E k \in Starts : Holds(g, migBackup[k][g])'
      BY DEF StoresSafe
    <3>1. CASE g = f
      BY <2>1, <2>3, <3>1 DEF Holds
    <3>2. CASE g # f
      BY <2>3, <3>2 DEF StoresSafe, Holds
    <3> QED
      BY <3>1, <3>2
  <2>7. RunOrdered'
    BY <2>1, <2>2, <2>3, <2>4 DEF RunOrdered
  <2>8. ChangesBackedUp'
    BY <2>1, <2>2, <2>3, <2>4 DEF ChangesBackedUp, Holds, Undecided
  <2> QED
    BY <2>5, <2>6, <2>7, <2>8
<1>4. CASE BackedUp
  <2> DEFINE f == migRun.at
  <2>1. /\ migRun.phase = "copy" /\ f \in StoreFiles /\ migRun.start \in Starts
        /\ Holds(f, migFile[f]) /\ f \notin Backed /\ migFile[f].version = "old"
    <3>1. migRun.phase = "copy" /\ f \in StoreFiles
      BY <1>4 DEF BackedUp, At
    <3>2. migRun.start \in Starts /\ migFile[f].version = "old" /\ \A g \in Backed : g < f
      BY <3>1 DEF RunOrdered
    <3>3. f \notin Backed
      BY <1>0, <3>2
    <3>4. Holds(f, migFile[f])
      BY <3>1, <3>2 DEF StoresSafe, Store, HalfWritten, RemovedStore
    <3> QED
      BY <3>1, <3>2, <3>3, <3>4
  <2>2. /\ migRun' \in [phase : Phases, at : Nat, start : 0 .. MaxStarts, backedUp : Seq(StoreFiles)]
        /\ migRun'.phase = "replace" /\ migRun'.at = migRun.at /\ migRun'.start = migRun.start
        /\ migRun'.backedUp = Append(migRun.backedUp, f)
    BY <1>0, <1>4, <2>1, AppendHolds DEF BackedUp, MigrationTypeOK, Phases
  <2>3. /\ migBackup' \in [Starts -> [StoreFiles -> StoresRead]]
        /\ \A k \in Starts, g \in StoreFiles : g # f => migBackup'[k][g] = migBackup[k][g]
        /\ migBackup'[migRun.start][f] = migFile[f]
        /\ UNCHANGED <<migFile, migLast, migWrites>>
    BY <1>4, <2>1 DEF BackedUp, MigrationTypeOK
  <2>4. Backed' = Backed \cup {f}
    <3>1. Elements(Append(migRun.backedUp, f)) = Elements(migRun.backedUp) \cup {f}
      BY <1>0, <2>1, AppendHolds
    <3> QED
      BY <2>2, <3>1 DEF Backed
  <2>5. MigrationTypeOK'
    BY <2>2, <2>3 DEF MigrationTypeOK
  <2>6. StoresSafe'
    <3> SUFFICES ASSUME NEW g \in StoreFiles
                 PROVE  \/ Holds(g, migFile[g])'
                        \/ migFile'[g] = Store("damaged", 0)
                        \/ migFile'[g] \in {RemovedStore, HalfWritten} /\ \E k \in Starts : Holds(g, migBackup[k][g])'
      BY DEF StoresSafe
    <3>1. CASE g = f
      BY <2>1, <2>3, <3>1 DEF Holds
    <3>2. CASE g # f
      BY <2>3, <3>2 DEF StoresSafe, Holds
    <3> QED
      BY <3>1, <3>2
  <2>7. RunOrdered'
    BY <1>0, <2>1, <2>2, <2>3, <2>4 DEF RunOrdered
  <2>8. ChangesBackedUp'
    BY <2>1, <2>2, <2>3, <2>4 DEF ChangesBackedUp, Holds, Undecided
  <2> QED
    BY <2>5, <2>6, <2>7, <2>8
<1>5. CASE ReplaceStore
  <2> DEFINE f == migRun.at
  <2>1. /\ migRun.phase = "replace" /\ f \in StoreFiles /\ f \in Backed
        /\ Holds(f, migFile[f]) /\ migRun' = After(f)
        /\ UNCHANGED <<migBackup, migLast, migWrites>>
    BY <1>5 DEF ReplaceStore, At, RunOrdered, StoresSafe, Store, HalfWritten, RemovedStore
  <2>2. /\ migFile' \in [StoreFiles -> StoresRead]
        /\ migFile'[f].version = "new" /\ migFile'[f].write = migFile[f].write
        /\ \A g \in StoreFiles : g # f => migFile'[g] = migFile[g]
    BY <1>5, <2>1 DEF ReplaceStore, MigrationTypeOK, StoresRead, Versions
  <2>3. Backed' = Backed
    BY <2>1, AfterMoves DEF Backed
  <2>4. MigrationTypeOK'
    BY <2>1, <2>2, AfterMoves DEF MigrationTypeOK
  <2>6. StoresSafe'
    <3>1. ASSUME NEW g \in StoreFiles
          PROVE  \/ Holds(g, migFile[g])'
                 \/ migFile'[g] = Store("damaged", 0)
                 \/ migFile'[g] \in {RemovedStore, HalfWritten} /\ \E k \in Starts : Holds(g, migBackup[k][g])'
      <4>1. CASE g = f
        BY <2>1, <2>2, <4>1 DEF Holds
      <4>2. CASE g # f
        BY <2>1, <2>2, <4>2 DEF StoresSafe, Holds
      <4> QED
        BY <4>1, <4>2
    <3> QED
      BY <3>1, <2>1 DEF StoresSafe, Holds
  <2>5. RunOrdered' /\ ChangesBackedUp'
    BY <1>0, <2>1, <2>2, <2>3, AfterMoves DEF RunOrdered, ChangesBackedUp, Holds, Undecided
  <2> QED
    BY <2>4, <2>5, <2>6
<1>6. CASE StepFails
  BY <1>6, RollBackKeeps DEF StepFails, At
<1>7. CASE RestoreBegins
  <2>1. migRun.phase = "restore" /\ UNCHANGED <<migBackup, migLast, migWrites>>
    BY <1>7 DEF RestoreBegins
  <2>2. CASE migRun.backedUp = <<>>
    <3>1. /\ migRun' \in [phase : Phases, at : Nat, start : 0 .. MaxStarts, backedUp : Seq(StoreFiles)]
          /\ migRun'.phase = "refused" /\ migRun'.start = migRun.start
          /\ migRun'.backedUp = migRun.backedUp /\ migFile' = migFile
      BY <1>7, <2>2 DEF RestoreBegins, MigrationTypeOK, Phases
    <3>2. Backed' = Backed
      BY <3>1 DEF Backed
    <3>3. MigrationTypeOK' /\ StoresSafe'
      BY <2>1, <3>1 DEF MigrationTypeOK, StoresSafe, Holds
    <3>4. RunOrdered'
      BY <2>1, <2>2, <3>1, <3>2 DEF RunOrdered
    <3>5. ChangesBackedUp'
      BY <2>1, <3>1, <3>2 DEF ChangesBackedUp, Holds, Undecided
    <3> QED
      BY <3>3, <3>4, <3>5
  <2>3. CASE migRun.backedUp # <<>>
    <3> DEFINE f == migRun.backedUp[1]
    <3>1. f \in StoreFiles /\ f \in Backed
      BY <1>0, <2>3, TailHolds DEF Backed, Elements
    <3>2. /\ migRun' \in [phase : Phases, at : Nat, start : 0 .. MaxStarts, backedUp : Seq(StoreFiles)]
          /\ migRun'.phase = "restoring" /\ migRun'.start = migRun.start
          /\ migRun'.backedUp = migRun.backedUp
          /\ \E torn \in {RemovedStore, HalfWritten} : migFile' = [migFile EXCEPT ![f] = torn]
      BY <1>7, <2>3 DEF RestoreBegins, MigrationTypeOK, Phases
    <3>8. PICK torn \in {RemovedStore, HalfWritten} : migFile' = [migFile EXCEPT ![f] = torn]
      BY <3>2
    <3>3. Backed' = Backed
      BY <3>2 DEF Backed
    <3>4. migRun.start \in Starts /\ Holds(f, migBackup[migRun.start][f])
      BY <2>1, <3>1 DEF RunOrdered, ChangesBackedUp, Undecided
    <3>5. MigrationTypeOK'
      BY <2>1, <3>1, <3>2, <3>8 DEF MigrationTypeOK, StoresRead, Versions, HalfWritten, RemovedStore, Store
    <3>6. StoresSafe'
      BY <2>1, <3>1, <3>2, <3>4, <3>8 DEF StoresSafe, Holds, MigrationTypeOK
    <3>7. RunOrdered' /\ ChangesBackedUp'
      BY <2>1, <2>3, <3>1, <3>2, <3>3, <3>8 DEF RunOrdered, ChangesBackedUp, Holds, Undecided, MigrationTypeOK
    <3> QED
      BY <3>5, <3>6, <3>7
  <2> QED
    BY <2>2, <2>3
<1>8. CASE Restored
  <2> DEFINE f == migRun.backedUp[1]
             rest == Tail(migRun.backedUp)
  <2>1. /\ migRun.phase = "restoring" /\ migRun.backedUp # <<>> /\ migRun.start \in Starts
        /\ UNCHANGED <<migBackup, migLast, migWrites>>
    BY <1>8 DEF Restored, RunOrdered
  <2>2. /\ f \in StoreFiles /\ rest \in Seq(StoreFiles)
        /\ Backed = Elements(rest) \cup {f}
    BY <1>0, <2>1, TailHolds DEF Backed
  <2>3. /\ migRun' \in [phase : Phases, at : Nat, start : 0 .. MaxStarts, backedUp : Seq(StoreFiles)]
        /\ migRun'.phase = "restore" /\ migRun'.start = migRun.start /\ migRun'.backedUp = rest
    BY <1>8, <2>2 DEF Restored, MigrationTypeOK, Phases
  <2>4. Backed = Backed' \cup {f}
    BY <2>2, <2>3 DEF Backed
  <2>5. /\ Holds(f, migBackup[migRun.start][f]) /\ migBackup[migRun.start][f] = migLast.found[f]
    BY <2>1, <2>2 DEF ChangesBackedUp, Undecided
  <2>6. /\ migFile' \in [StoreFiles -> StoresRead]
        /\ migFile'[f] = migBackup[migRun.start][f]
        /\ \A g \in StoreFiles : g # f => migFile'[g] = migFile[g]
    BY <1>8, <2>1, <2>2 DEF Restored, MigrationTypeOK
  <2>7. MigrationTypeOK' /\ StoresSafe'
    <3>1. MigrationTypeOK'
      BY <2>1, <2>3, <2>6 DEF MigrationTypeOK
    <3>2. \A g \in StoreFiles : g # f =>
            \/ Holds(g, migFile[g])' \/ migFile'[g] = Store("damaged", 0)
            \/ migFile'[g] \in {RemovedStore, HalfWritten} /\ \E k \in Starts : Holds(g, migBackup[k][g])'
      BY <2>1, <2>6 DEF StoresSafe, Holds
    <3>3. ASSUME NEW g \in StoreFiles, g = f PROVE Holds(g, migFile[g])'
      BY <3>3, <2>1, <2>5, <2>6 DEF Holds
    <3>4. ASSUME NEW g \in StoreFiles
          PROVE  \/ Holds(g, migFile[g])' \/ migFile'[g] = Store("damaged", 0)
                 \/ migFile'[g] \in {RemovedStore, HalfWritten} /\ \E k \in Starts : Holds(g, migBackup[k][g])'
      BY <3>2, <3>3 DEF Holds
    <3> QED
      BY <3>1, <3>4 DEF StoresSafe
  <2>8. RunOrdered' /\ ChangesBackedUp'
    BY <2>1, <2>3, <2>4, <2>5, <2>6 DEF RunOrdered, ChangesBackedUp, Holds, Undecided
  <2> QED
    BY <2>7, <2>8
<1>9. CASE RestoreFails
  <2>1. /\ migRun' \in [phase : Phases, at : Nat, start : 0 .. MaxStarts, backedUp : Seq(StoreFiles)]
        /\ migRun'.phase = "broken" /\ migRun'.start = migRun.start /\ migRun.phase = "restoring"
        /\ UNCHANGED <<migFile, migBackup, migLast, migWrites>>
    BY <1>9 DEF RestoreFails, MigrationTypeOK, Phases
  <2> QED
    BY <2>1 DEF MigrationTypeOK, StoresSafe, Holds, RunOrdered, ChangesBackedUp, Undecided
<1>10. CASE StopProcess
  <2>1. /\ migRun' \in [phase : Phases, at : Nat, start : 0 .. MaxStarts, backedUp : Seq(StoreFiles)]
        /\ migRun'.phase = "down"
        /\ UNCHANGED <<migFile, migBackup, migLast, migWrites>>
    BY <1>0, <1>10, EmptySeq DEF StopProcess, Stopped, Phases
  <2> QED
    BY <2>1 DEF MigrationTypeOK, StoresSafe, Holds, RunOrdered, ChangesBackedUp, Undecided
<1>11. ASSUME NEW f \in StoreFiles, ServeWrite(f)
       PROVE  MigrationInv'
  <2>1. /\ migRun.phase = "up" /\ UNCHANGED <<migBackup, migRun>>
        /\ \E version \in {"old", "new"} : migFile' = [migFile EXCEPT ![f] = Store(version, migWrites + 1)]
        /\ migWrites' \in Nat /\ migWrites' = migWrites + 1
    BY <1>11 DEF ServeWrite, MigrationTypeOK
  <2>6. PICK version \in {"old", "new"} : migFile' = [migFile EXCEPT ![f] = Store(version, migWrites + 1)]
    BY <2>1
  <2>2. /\ migLast' \in [write : [StoreFiles -> Nat], found : [StoreFiles -> StoresRead]]
        /\ migLast'.write[f] = migWrites + 1
        /\ \A g \in StoreFiles : g # f => migLast'.write[g] = migLast.write[g]
    <3>1. migLast' = [migLast EXCEPT !.write[f] = migWrites + 1] /\ migWrites + 1 \in Nat
      BY <1>11 DEF ServeWrite, MigrationTypeOK
    <3>2. migLast.write \in [StoreFiles -> Nat]
      BY DEF MigrationTypeOK
    <3>3. /\ migLast'.write = [migLast.write EXCEPT ![f] = migWrites + 1]
          /\ migLast'.found = migLast.found /\ migLast' = [write |-> migLast'.write, found |-> migLast'.found]
      BY <3>1 DEF MigrationTypeOK
    <3>4. migLast.found \in [StoreFiles -> StoresRead]
      BY DEF MigrationTypeOK
    <3>5. /\ migLast'.write \in [StoreFiles -> Nat] /\ migLast'.write[f] = migWrites + 1
          /\ \A g \in StoreFiles : g # f => migLast'.write[g] = migLast.write[g]
      BY <3>1, <3>2, <3>3
    <3>6. migLast' \in [write : [StoreFiles -> Nat], found : [StoreFiles -> StoresRead]]
      BY <3>3, <3>4, <3>5
    <3> QED
      BY <3>5, <3>6
  <2>3. MigrationTypeOK'
    BY <2>1, <2>2, <2>6 DEF MigrationTypeOK, StoresRead, Versions, Store
  <2>4. StoresSafe'
    BY <2>1, <2>2, <2>6 DEF StoresSafe, Holds, MigrationTypeOK, Store
  <2>5. RunOrdered' /\ ChangesBackedUp'
    BY <2>1 DEF RunOrdered, ChangesBackedUp, Undecided
  <2> QED
    BY <2>3, <2>4, <2>5
<1> QED
  BY <1>1, <1>2, <1>3, <1>4, <1>5, <1>6, <1>7, <1>8, <1>9, <1>10, <1>11 DEF MigrationNext

(***************************************************************************)
(* The invariant of the migration: until a start is over, whatever it may  *)
(* have changed is in its backup, and a store torn by a copy has one.       *)
(***************************************************************************)
THEOREM MigrationInvariant == MigrationSpec => []MigrationInv
<1>1. MigrationInv /\ UNCHANGED migVars => MigrationInv'
  BY DEF migVars, MigrationInv, MigrationTypeOK, StoresSafe, Holds, RunOrdered, ChangesBackedUp, Backed
<1> QED
  BY <1>1, MigrationInitially, MigrationStep, PTL DEF MigrationSpec

(***************************************************************************)
(* The last write of every store that could be read is on the disk, in the *)
(* store or in a backup, whatever stops on whichever start                 *)
(* (runDataMigrations).                                                    *)
(***************************************************************************)
THEOREM MigrationKeepsLastWrite == MigrationSpec => []LastWriteSurvives
<1>1. MigrationInv => LastWriteSurvives
  BY DEF MigrationInv, StoresSafe, Holds, LastWriteSurvives
<1> QED
  BY <1>1, MigrationInvariant, PTL

(***************************************************************************)
(* A start refused after its roll-back has changed no store                *)
(* (runDataMigrations' catch).                                             *)
(***************************************************************************)
THEOREM MigrationRefusesCleanly == MigrationSpec => []RefusedStartChangesNothing
<1>1. ASSUME MigrationInv, migRun.phase = "refused" PROVE migFile = migLast.found
  <2>1. \A f \in StoreFiles : migFile[f] = migLast.found[f]
    <3>1. migRun.backedUp = <<>>
      BY <1>1 DEF MigrationInv, RunOrdered
    <3>2. Backed = {}
      BY <3>1 DEF Backed, Elements
    <3> QED
      BY <1>1, <3>2 DEF MigrationInv, ChangesBackedUp, Undecided
  <2> QED
    BY <1>1, <2>1 DEF MigrationInv, MigrationTypeOK
<1> QED
  BY <1>1, MigrationInvariant, PTL DEF RefusedStartChangesNothing

-----------------------------------------------------------------------------
(***************************************************************************)
(* The stored providers: whatever is typed, left blank, deleted, lost or   *)
(* answered out of order.                                                  *)
(***************************************************************************)
\* A section a save may store.
Complete(s, p) ==
  /\ p.key # KeyMissing
  /\ UrlAccepted(p.url) /\ p.model # "" /\ (s = "media" => p.extra # "")

\* What a route makes of a section: it stays, goes, or is replaced by a
\* complete one whose key is the one sent or the one that was stored.
Sound(file, new, sent) ==
  /\ new = [s \in Sections |-> new[s]]
  /\ \A s \in Sections :
       \/ new[s] = file[s]
       \/ new[s] = NoProvider
       \/ Complete(s, new[s]) /\ new[s].key \in {sent[s].key, file[s].key}

SettingsInv ==
  /\ settings = [s \in Sections |-> settings[s]]
  /\ settingsCleared = [s \in Sections |-> settingsCleared[s]]
  /\ \A s \in Sections : settings[s] = NoProvider \/ Complete(s, settings[s])
  /\ \A s \in Sections : KeyMissing \notin settingsCleared[s] /\ settings[s].key \notin settingsCleared[s]

LEMMA ProviderFields ==
  \A u, m, x, k : LET p == Provider(u, m, x, k)
                  IN  p.url = u /\ p.model = m /\ p.extra = x /\ p.key = k
BY DEF Provider

LEMMA VerdictFiles == \A f : Accepted_(f).file = f /\ Refused_(f).file = f
BY DEF Accepted_, Refused_

\* UpdateMedia: fields left blank are filled with what is stored.
LEMMA MediaUpdateSound ==
  ASSUME NEW file, file = [s \in Sections |-> file[s]], NEW sent
  PROVE  Sound(file, UpdateMedia(file, sent["media"]).file, sent)
<1> DEFINE new == sent["media"]
           old == file["media"]
           p == Provider(Either(new.url, old.url), Either(new.model, old.model), Either(new.extra, old.extra),
                         Newer(new.key, old.key))
<1>1. p.key \in {new.key, old.key}
  BY ProviderFields DEF Newer
<1>2. UpdateMedia(file, new) =
        IF ValidateMedia(p) /\ p.key # KeyMissing THEN Accepted_([file EXCEPT !["media"] = p]) ELSE Refused_(file)
  BY DEF UpdateMedia
<1> HIDE DEF p
<1>3. CASE ValidateMedia(p) /\ p.key # KeyMissing
  <2>1. UpdateMedia(file, new).file = [file EXCEPT !["media"] = p]
    BY <1>2, <1>3, VerdictFiles
  <2>2. Complete("media", p)
    BY <1>3 DEF ValidateMedia, Complete
  <2> DEFINE f == [file EXCEPT !["media"] = p]
  <2>3. f = [s \in Sections |-> f[s]] /\ f["media"] = p /\ \A s \in Sections : s # "media" => f[s] = file[s]
    BY DEF Sections
  <2> HIDE DEF f
  <2>4. Sound(file, f, sent)
    BY <1>1, <2>2, <2>3 DEF Sound
  <2> QED
    BY <2>1, <2>4 DEF f
<1>4. CASE ~(ValidateMedia(p) /\ p.key # KeyMissing)
  BY <1>2, <1>4 DEF Sound, Refused_
<1> QED
  BY <1>3, <1>4

\* Apply: one section of voice, the other sections stay.
LEMMA ApplySound ==
  ASSUME NEW file, file = [s \in Sections |-> file[s]], NEW x \in {"asr", "tts"}, NEW sent
  PROVE  LET new == Apply(file, x, sent[x]).file
         IN  /\ Sound(file, new, sent)
             /\ \A s \in Sections : s # x => new[s] = file[s]
<1> DEFINE old == file[x]
           in == sent[x]
           p == Provider(in.url, in.model, Either(in.extra, old.extra), Newer(in.key, old.key))
<1>1. p.key \in {in.key, old.key} /\ p.url = in.url /\ p.model = in.model
  BY ProviderFields DEF Newer
<1>2. Missing # Null
  BY DEF Missing, Null, Provider
<1>3. /\ in = Missing => Apply(file, x, in) = Accepted_(file)
      /\ in = Null => Apply(file, x, in) = Accepted_([file EXCEPT ![x] = NoProvider])
      /\ in # Missing /\ in # Null /\ ValidateVoice(in) /\ p.key # KeyMissing =>
           Apply(file, x, in) = Accepted_([file EXCEPT ![x] = p])
      /\ in # Missing /\ in # Null /\ ~(ValidateVoice(in) /\ p.key # KeyMissing) =>
           Apply(file, x, in) = Refused_(file)
  <2> HIDE DEF in
  <2> QED
    BY <1>2 DEF Apply
<1> HIDE DEF p
<1>4. \/ Apply(file, x, in).file = file
      \/ Apply(file, x, in).file = [file EXCEPT ![x] = NoProvider]
      \/ Apply(file, x, in).file = [file EXCEPT ![x] = p] /\ Complete(x, p)
  <2>1. CASE in = Missing
    BY <1>3, <2>1, VerdictFiles
  <2>2. CASE in = Null
    BY <1>3, <2>2, VerdictFiles
  <2>3. CASE in # Missing /\ in # Null /\ ValidateVoice(in) /\ p.key # KeyMissing
    <3>1. Complete(x, p)
      BY <1>1, <2>3 DEF ValidateVoice, Complete
    <3> QED
      BY <1>3, <2>3, <3>1, VerdictFiles
  <2>4. CASE in # Missing /\ in # Null /\ ~(ValidateVoice(in) /\ p.key # KeyMissing)
    BY <1>3, <2>4 DEF Refused_
  <2> QED
    BY <2>1, <2>2, <2>3, <2>4
<1>5. x \in Sections
  BY DEF Sections
<1> QED
  BY <1>1, <1>4, <1>5 DEF Sound

\* Both sections of voice, of which the second may refuse the whole save.
LEMMA VoiceUpdateSound ==
  ASSUME NEW file, file = [s \in Sections |-> file[s]], NEW sent
  PROVE  Sound(file, VoiceRoute(file, sent).file, sent)
<1> DEFINE first == Apply(file, "asr", sent["asr"])
           second == Apply(first.file, "tts", sent["tts"])
<1>1. Sound(file, first.file, sent) /\ \A s \in Sections : s # "asr" => first.file[s] = file[s]
  BY ApplySound
<1>2. first.file = [s \in Sections |-> first.file[s]]
  BY <1>1 DEF Sound
<1> HIDE DEF first
<1>3. Sound(first.file, second.file, sent) /\ \A s \in Sections : s # "tts" => second.file[s] = first.file[s]
  BY <1>2, ApplySound
<1> HIDE DEF second
<1>4. Sound(file, second.file, sent)
  BY <1>1, <1>3 DEF Sound, Sections
<1>5. Sound(file, file, sent)
  BY DEF Sound
<1>6. VoiceRoute(file, sent).file \in {file, second.file}
  <2>1. UpdateVoice(file, sent) = IF first.ok /\ second.ok THEN second ELSE Refused_(file)
    BY DEF UpdateVoice, first, second
  <2> QED
    BY <2>1 DEF VoiceRoute, Refused_
<1> QED
  BY <1>4, <1>5, <1>6

LEMMA SavedSound ==
  ASSUME settings = [s \in Sections |-> settings[s]], NEW call
  PROVE  Sound(settings, Saved(call).file, call.sent)
<1>1. Sound(settings, settings, call.sent)
  BY DEF Sound
<1>2. CASE call.op = "saveMedia"
  BY <1>2, MediaUpdateSound DEF Saved
<1>3. CASE call.op \in {"saveVoice", "clearVoice"}
  BY <1>3, VoiceUpdateSound DEF Saved
<1>4. CASE call.op = "clearMedia"
  <2>1. Saved(call).file = [settings EXCEPT !["media"] = NoProvider]
    BY <1>4 DEF Saved, ClearMedia, Accepted_
  <2> QED
    BY <2>1 DEF Sound, Sections
<1>5. CASE call.op \notin {"saveMedia", "saveVoice", "clearVoice", "clearMedia"}
  BY <1>1, <1>5 DEF Saved, Accepted_
<1> QED
  BY <1>2, <1>3, <1>4, <1>5

\* A sound save keeps the invariant: what goes is deleted, what is typed is
\* deleted no longer, what is left blank keeps a key that was not deleted.
LEMMA SoundSaveKeepsKeys ==
  ASSUME SettingsInv, NEW sent, Sound(settings, settings', sent),
         settingsCleared' = ClearedAfter(settings, settings', sent)
  PROVE  SettingsInv'
<1> DEFINE gone(s) == IF settings'[s].url = "" /\ settings[s].key # KeyMissing THEN {settings[s].key} ELSE {}
           typed(s) == IF settings'[s] # settings[s] THEN {sent[s].key} ELSE {}
<1>1. /\ settingsCleared' = [s \in Sections |-> settingsCleared'[s]]
      /\ \A s \in Sections : settingsCleared'[s] = (settingsCleared[s] \cup gone(s)) \ typed(s)
  BY DEF ClearedAfter
<1>2. NoProvider.key = KeyMissing /\ NoProvider.url = ""
  BY DEF NoProvider, Provider
<1>3. ASSUME NEW s \in Sections
      PROVE  /\ settings'[s] = NoProvider \/ Complete(s, settings'[s])
             /\ KeyMissing \notin settingsCleared'[s] /\ settings'[s].key \notin settingsCleared'[s]
  <2>1. /\ settings[s] = NoProvider \/ Complete(s, settings[s])
        /\ KeyMissing \notin settingsCleared[s] /\ settings[s].key \notin settingsCleared[s]
    BY DEF SettingsInv
  <2>2. \A p : Complete(s, p) => p.url # ""
    BY DEF Complete, UrlAccepted
  <2>3. settingsCleared'[s] = (settingsCleared[s] \cup gone(s)) \ typed(s)
    BY <1>1
  <2>4. KeyMissing \notin settingsCleared'[s]
    BY <2>1, <2>3
  <2>5. CASE settings'[s] = settings[s]
    <3>1. gone(s) = {}
      BY <1>2, <2>1, <2>2, <2>5
    <3> QED
      BY <2>1, <2>3, <2>4, <2>5, <3>1
  <2>6. CASE settings'[s] = NoProvider
    BY <1>2, <2>4, <2>6
  <2>7. CASE /\ settings'[s] # settings[s]
             /\ Complete(s, settings'[s]) /\ settings'[s].key \in {sent[s].key, settings[s].key}
    <3>1. gone(s) = {} /\ typed(s) = {sent[s].key}
      BY <2>2, <2>7
    <3> QED
      BY <2>1, <2>3, <2>4, <2>7, <3>1
  <2> QED
    BY <2>5, <2>6, <2>7 DEF Sound
<1>4. settings' = [s \in Sections |-> settings'[s]]
  BY DEF Sound
<1> QED
  BY <1>1, <1>3, <1>4 DEF SettingsInv

LEMMA SettingsStep ==
  ASSUME SettingsInv, [SettingsNext]_settingsVars
  PROVE  SettingsInv'
<1>1. CASE \E c \in SettingsCalls : ServeSettings(c)
  <2>1. PICK c \in SettingsCalls : ServeSettings(c)
    BY <1>1
  <2>2. /\ settings' = Saved(settingsCall[c]).file
        /\ settingsCleared' = ClearedAfter(settings, settings', settingsCall[c].sent)
    BY <2>1 DEF ServeSettings
  <2>3. Sound(settings, settings', settingsCall[c].sent)
    BY <2>2, SavedSound DEF SettingsInv
  <2> QED
    BY <2>2, <2>3, SoundSaveKeepsKeys
<1>2. CASE UNCHANGED <<settings, settingsCleared>>
  BY <1>2 DEF SettingsInv
<1>3. SettingsClick => UNCHANGED <<settings, settingsCleared>>
  BY DEF SettingsClick, SaveMediaSettings, SaveVoiceSettings, LoadSettings, ClearMediaSettings, ClearVoiceSection,
         GenerateImage, TranscribeVoice, SpeakVoice, SendCall
<1>4. \A c \in SettingsCalls :
        ServeUse(c) \/ ReceiveSettings(c) \/ ProviderAnswers(c) \/ LoseCall(c) => UNCHANGED <<settings, settingsCleared>>
  BY DEF ServeUse, ReceiveSettings, ProviderAnswers, LoseCall
<1> QED
  BY <1>1, <1>2, <1>3, <1>4 DEF SettingsNext, SettingsHandle, settingsVars

(***************************************************************************)
(* Every stored provider is complete, and its key is none that has been    *)
(* deleted since it was last typed (lib/media-settings.ts,                 *)
(* lib/voice-settings.ts), for any drafts, keys and calls in flight.       *)
(***************************************************************************)
THEOREM StoredProvidersSound == SettingsSpec => []SettingsCorrect
<1>1. SettingsInit => SettingsInv
  BY ProviderFields DEF SettingsInit, SettingsInv, NoProvider
<1>2. SettingsInv /\ [SettingsNext]_settingsVars => SettingsInv'
  BY SettingsStep
<1>3. SettingsInv => SettingsCorrect
  BY DEF SettingsInv, SettingsCorrect, StoredProvidersValid, ClearedKeyNotRevived, Complete
<1> QED
  BY <1>1, <1>2, <1>3, PTL DEF SettingsSpec

-----------------------------------------------------------------------------
(***************************************************************************)
(* The knowledge of a user, in either adapter.                             *)
(***************************************************************************)
BaseRecords == [id : KnowledgeOps, scope : Scopes, model : Models]
DocumentRecords == [id : KnowledgeOps, base : KnowledgeOps, count : Nat]
ChunkRecords == [document : KnowledgeOps, base : KnowledgeOps, model : Models, index : Nat]
KnowledgeStores == [bases : SUBSET BaseRecords, documents : SUBSET DocumentRecords, chunks : SUBSET ChunkRecords]

Requests ==
  [at : {"idle", "waiting", "embedding", "writing", "done", "failed"},
   wants : {"none", "add", "delete", "clear"}, scope : Scopes \cup {"none"},
   document : KnowledgeOps \cup {NoRequest}, model : Models \cup {"none"}, count : Nat, draft : KnowledgeStores]

KnowledgeTypeOK ==
  /\ kbAdapter \in {"none", "file", "memory"}
  /\ kbStore \in KnowledgeStores
  /\ kbHolder \in KnowledgeOps \cup {NoRequest}
  /\ kbOp \in [KnowledgeOps -> Requests]

\* A request to add a document says what and where; only such a one embeds.
InputsGiven ==
  \A o \in KnowledgeOps :
    /\ kbOp[o].wants = "add" => kbOp[o].scope \in Scopes /\ kbOp[o].model \in Models /\ kbOp[o].count \in ChunkCounts
    /\ kbOp[o].at = "waiting" => kbOp[o].wants # "none"
    /\ kbOp[o].wants = "clear" => kbOp[o].scope \in Scopes
    /\ kbOp[o].at = "embedding" => kbOp[o].wants = "add"
    /\ kbOp[o].at = "embedding" /\ kbAdapter = "memory" => kbOp[o].document \in KnowledgeOps
    /\ kbAdapter = "none" => kbOp[o].at = "idle"

\* Drafts of the file adapter are made and written under the lock.
DraftsUnderLock ==
  /\ \A o \in KnowledgeOps :
       IF kbAdapter = "file" THEN kbOp[o].at \in {"embedding", "writing"} <=> kbHolder = o
       ELSE kbOp[o].at # "writing"
  /\ kbAdapter # "file" => kbHolder = NoRequest
  /\ kbAdapter = "none" => kbStore = EmptyStore

DocumentIds(store) == {d.id : d \in store.documents}
BaseIds(store) == {b.id : b \in store.bases}

\* A draft adds nothing to the file but the document of its own request.
DraftsFollow ==
  \A o \in KnowledgeOps :
    kbAdapter = "file" /\ kbOp[o].at \in {"embedding", "writing"} =>
      /\ DocumentIds(kbOp[o].draft) \subseteq
           DocumentIds(kbStore) \cup (IF kbOp[o].at = "writing" THEN {o} ELSE {})
      /\ BaseIds(kbOp[o].draft) \subseteq BaseIds(kbStore) \cup {o}

\* Every chunk is one of a document of the same base.
ChunksListed(store) ==
  \A c \in store.chunks : \E d \in store.documents : d.id = c.document /\ d.base = c.base

AllListed == ChunksListed(kbStore) /\ \A o \in KnowledgeOps : ChunksListed(kbOp[o].draft)

KnowledgeInv == KnowledgeTypeOK /\ InputsGiven /\ DraftsUnderLock /\ DraftsFollow /\ AllListed

ChunksOfDocument(store, d) == {c \in store.chunks : c.document = d.id /\ c.base = d.base}

Whole(store) ==
  /\ IsFiniteSet(store.documents) /\ IsFiniteSet(store.chunks)
  /\ \A a, b \in store.bases : a.scope = b.scope => a = b
  /\ \A d \in store.documents :
       /\ \E b \in store.bases : b.id = d.base
       /\ \E m \in Models : ChunksOfDocument(store, d) = ChunksOf(d.id, d.base, m, d.count)
  /\ \A b \in store.bases :
       /\ Cardinality(DocumentsIn(store, b.id)) <= MaxDocuments
       /\ Cardinality(ChunksIn(store, b.id)) <= MaxChunks

\* Ids in the file are those of requests that are done.
IdsOfDone == \A o \in KnowledgeOps : o \in DocumentIds(kbStore) \cup BaseIds(kbStore) => kbOp[o].at = "done"

\* What was found to fit still fits when the embeddings are there.
RoomKept ==
  \A o \in KnowledgeOps : kbOp[o].at = "embedding" =>
    LET draft == kbOp[o].draft IN
      /\ BasesOf(draft, kbOp[o].scope) # {}
      /\ Room(draft, BaseId(draft, kbOp[o].scope), kbOp[o].count)

FileInv ==
  kbAdapter = "file" =>
    /\ Whole(kbStore) /\ IdsOfDone /\ RoomKept
    /\ \A o \in KnowledgeOps : kbOp[o].at \in {"embedding", "writing"} => Whole(kbOp[o].draft)

LEMMA EmptyStoreWhole == EmptyStore \in KnowledgeStores /\ ChunksListed(EmptyStore) /\ Whole(EmptyStore)
BY FS_EmptySet DEF EmptyStore, KnowledgeStores, ChunksListed, Whole

LEMMA ChunksOfFacts ==
  ASSUME NEW id \in KnowledgeOps, NEW base \in KnowledgeOps, NEW model \in Models, NEW count \in Nat
  PROVE  /\ ChunksOf(id, base, model, count) \subseteq ChunkRecords
         /\ \A c \in ChunksOf(id, base, model, count) : c.document = id /\ c.base = base
         /\ IsFiniteSet(ChunksOf(id, base, model, count))
         /\ Cardinality(ChunksOf(id, base, model, count)) = count
<1> DEFINE chunk(i) == [document |-> id, base |-> base, model |-> model, index |-> i]
           f == [i \in 1 .. count |-> chunk(i)]
           all == ChunksOf(id, base, model, count)
<1>1. /\ all = {chunk(i) : i \in 1 .. count}
      /\ \A i \in 1 .. count : /\ chunk(i) \in ChunkRecords /\ chunk(i).document = id /\ chunk(i).base = base
                               /\ chunk(i).index = i
  BY DEF ChunksOf, ChunkRecords
<1> HIDE DEF chunk, all
<1>2. f \in [1 .. count -> all]
  BY <1>1
<1>3. f \in Bijection(1 .. count, all)
  <2>1. \A i, j \in 1 .. count : f[i] = f[j] => i = j
    BY <1>1
  <2>2. \A c \in all : \E i \in 1 .. count : f[i] = c
    BY <1>1
  <2>3. f \in Injection(1 .. count, all)
    BY <1>2, <2>1, Fun_IsInj
  <2>4. f \in Surjection(1 .. count, all)
    BY <1>2, <2>2, Fun_IsSurj
  <2> QED BY <2>3, <2>4, Fun_IsBij
<1>4. IsFiniteSet(1 .. count) /\ Cardinality(1 .. count) = count
  BY FS_Interval
<1>5. IsFiniteSet(all) /\ Cardinality(all) = count
  <2>1. ExistsBijection(1 .. count, all)
    BY <1>3 DEF ExistsBijection
  <2> QED BY <1>4, <2>1, FS_Bijection
<1> QED BY <1>1, <1>5 DEF all

\* What the operators make of a store.
LEMMA WithBaseStore ==
  ASSUME NEW s \in KnowledgeStores, NEW o \in KnowledgeOps, NEW scope \in Scopes, NEW model \in Models,
         NEW t, t = WithBase(s, o, scope, model)
  PROVE  /\ t \in KnowledgeStores /\ t.documents = s.documents /\ t.chunks = s.chunks
         /\ BasesOf(t, scope) # {} /\ s.bases \subseteq t.bases
         /\ \A b \in t.bases : b \in s.bases \/ (b.id = o /\ b.scope = scope /\ BasesOf(s, scope) = {})
         /\ \A a, b \in t.bases : a \notin s.bases /\ b \notin s.bases => a = b
<1>1. CASE BasesOf(s, scope) # {}
  BY <1>1 DEF WithBase
<1>2. CASE BasesOf(s, scope) = {}
  <2> DEFINE b == KnowledgeBase(o, scope, model)
  <2>1. b \in BaseRecords /\ b.id = o /\ b.scope = scope
    BY DEF KnowledgeBase, BaseRecords
  <2>2. t = [s EXCEPT !.bases = s.bases \cup {b}]
    BY <1>2 DEF WithBase
  <2> HIDE DEF b
  <2>3. t.bases = s.bases \cup {b} /\ t.documents = s.documents /\ t.chunks = s.chunks
    BY <2>2 DEF KnowledgeStores
  <2>4. t \in KnowledgeStores
    BY <2>1, <2>2 DEF KnowledgeStores
  <2>5. b \in BasesOf(t, scope)
    BY <2>1, <2>3 DEF BasesOf
  <2> QED BY <1>2, <2>1, <2>3, <2>4, <2>5
<1> QED BY <1>1, <1>2

LEMMA BaseIdIsBase ==
  ASSUME NEW s \in KnowledgeStores, NEW scope, BasesOf(s, scope) # {}
  PROVE  \E b \in s.bases : b.scope = scope /\ b.id = BaseId(s, scope) /\ b.id \in KnowledgeOps
<1> DEFINE b == CHOOSE b \in BasesOf(s, scope) : TRUE
<1>1. b \in BasesOf(s, scope)
  OBVIOUS
<1>2. BaseId(s, scope) = b.id
  BY DEF BaseId
<1> HIDE DEF b
<1> QED BY <1>1, <1>2 DEF BasesOf, KnowledgeStores, BaseRecords

LEMMA WithDocumentStore ==
  ASSUME NEW s \in KnowledgeStores, NEW o \in KnowledgeOps, NEW base \in KnowledgeOps, NEW model \in Models,
         NEW count \in Nat, NEW t, t = WithDocument(s, o, base, model, count)
  PROVE  /\ t \in KnowledgeStores /\ t.bases = s.bases
         /\ t.documents = s.documents \cup {KnowledgeDocument(o, base, count)}
         /\ t.chunks = s.chunks \cup ChunksOf(o, base, model, count)
         /\ KnowledgeDocument(o, base, count) \in DocumentRecords
         /\ KnowledgeDocument(o, base, count).id = o
         /\ KnowledgeDocument(o, base, count).base = base
         /\ KnowledgeDocument(o, base, count).count = count
<1> DEFINE d == KnowledgeDocument(o, base, count)
           new == ChunksOf(o, base, model, count)
<1>1. d \in DocumentRecords /\ d.id = o /\ d.base = base /\ d.count = count
  BY DEF KnowledgeDocument, DocumentRecords
<1>2. new \subseteq ChunkRecords
  BY ChunksOfFacts
<1>3. t = [s EXCEPT !.documents = s.documents \cup {d}, !.chunks = s.chunks \cup new]
  BY DEF WithDocument
<1> HIDE DEF d, new
<1>4. /\ s = [bases |-> s.bases, documents |-> s.documents, chunks |-> s.chunks]
      /\ s.bases \subseteq BaseRecords /\ s.documents \subseteq DocumentRecords /\ s.chunks \subseteq ChunkRecords
  BY DEF KnowledgeStores
<1>5. t = [bases |-> s.bases, documents |-> s.documents \cup {d}, chunks |-> s.chunks \cup new]
  BY <1>3, <1>4
<1>6. t \in KnowledgeStores
  BY <1>1, <1>2, <1>4, <1>5 DEF KnowledgeStores
<1> QED BY <1>1, <1>5, <1>6 DEF d, new

LEMMA WithoutDocumentStore ==
  ASSUME NEW s \in KnowledgeStores, NEW id, NEW t, t = WithoutDocument(s, id)
  PROVE  /\ t \in KnowledgeStores /\ t.bases = s.bases
         /\ t.documents = {d \in s.documents : d.id # id} /\ t.chunks = {c \in s.chunks : c.document # id}
<1> DEFINE ds == {d \in s.documents : d.id # id}
           cs == {c \in s.chunks : c.document # id}
<1>1. t = [s EXCEPT !.documents = ds, !.chunks = cs]
  BY DEF WithoutDocument
<1>2. ds \subseteq s.documents /\ cs \subseteq s.chunks
  OBVIOUS
<1> HIDE DEF ds, cs
<1>3. /\ s = [bases |-> s.bases, documents |-> s.documents, chunks |-> s.chunks]
      /\ s.bases \subseteq BaseRecords /\ s.documents \subseteq DocumentRecords /\ s.chunks \subseteq ChunkRecords
  BY DEF KnowledgeStores
<1>4. t = [bases |-> s.bases, documents |-> ds, chunks |-> cs]
  BY <1>1, <1>3
<1>5. t \in KnowledgeStores
  BY <1>2, <1>3, <1>4 DEF KnowledgeStores
<1> QED BY <1>4, <1>5 DEF ds, cs

LEMMA WithoutScopeStore ==
  ASSUME NEW s \in KnowledgeStores, NEW scope, NEW t, t = WithoutScope(s, scope)
  PROVE  \E gone :
           /\ t \in KnowledgeStores
           /\ t.bases = {b \in s.bases : b.id \notin gone}
           /\ t.documents = {d \in s.documents : d.base \notin gone}
           /\ t.chunks = {c \in s.chunks : c.base \notin gone}
<1> DEFINE gone == {b.id : b \in BasesOf(s, scope)}
<1>1. t = [bases |-> {b \in s.bases : b.id \notin gone},
           documents |-> {d \in s.documents : d.base \notin gone},
           chunks |-> {c \in s.chunks : c.base \notin gone}]
  BY DEF WithoutScope
<1> HIDE DEF gone
<1> QED BY <1>1 DEF KnowledgeStores

\* Chunks go with their documents.
LEMMA ListedKept ==
  ASSUME NEW s \in KnowledgeStores, ChunksListed(s)
  PROVE  /\ \A o, scope, model : ChunksListed(WithBase(s, o, scope, model))
         /\ \A o \in KnowledgeOps, base \in KnowledgeOps, model \in Models, count \in Nat :
              ChunksListed(WithDocument(s, o, base, model, count))
         /\ \A id : ChunksListed(WithoutDocument(s, id))
         /\ \A scope : ChunksListed(WithoutScope(s, scope))
<1>1. \A o, scope, model : ChunksListed(WithBase(s, o, scope, model))
  BY DEF WithBase, ChunksListed, KnowledgeStores
<1>2. ASSUME NEW o \in KnowledgeOps, NEW base \in KnowledgeOps, NEW model \in Models, NEW count \in Nat
      PROVE  ChunksListed(WithDocument(s, o, base, model, count))
  <2> DEFINE t == WithDocument(s, o, base, model, count)
             d == KnowledgeDocument(o, base, count)
  <2>1. /\ t.documents = s.documents \cup {d} /\ t.chunks = s.chunks \cup ChunksOf(o, base, model, count)
        /\ d.id = o /\ d.base = base
    BY WithDocumentStore
  <2>2. \A c \in ChunksOf(o, base, model, count) : c.document = o /\ c.base = base
    BY ChunksOfFacts
  <2> HIDE DEF t, d
  <2>3. ChunksListed(t)
    BY <2>1, <2>2 DEF ChunksListed
  <2> QED BY <2>3 DEF t
<1>3. ASSUME NEW id PROVE ChunksListed(WithoutDocument(s, id))
  BY WithoutDocumentStore DEF ChunksListed
<1>4. ASSUME NEW scope PROVE ChunksListed(WithoutScope(s, scope))
  BY WithoutScopeStore DEF ChunksListed
<1> QED BY <1>1, <1>2, <1>3, <1>4

-----------------------------------------------------------------------------
\* Every draft and the file are stores, and requests say what they want.
LEMMA KnowledgeInitially == KnowledgeInit => KnowledgeInv /\ FileInv
<1> SUFFICES ASSUME KnowledgeInit PROVE KnowledgeInv /\ FileInv
  OBVIOUS
<1>1. IdleRequest \in Requests
  BY EmptyStoreWhole DEF IdleRequest, Requests
<1>2. KnowledgeTypeOK
  BY <1>1, EmptyStoreWhole DEF KnowledgeInit, KnowledgeTypeOK
<1>3. \A o \in KnowledgeOps :
        kbOp[o].at = "idle" /\ kbOp[o].wants = "none" /\ kbOp[o].draft = EmptyStore
  BY DEF KnowledgeInit, IdleRequest
<1>4. kbAdapter = "none" /\ kbStore = EmptyStore /\ kbHolder = NoRequest
  BY DEF KnowledgeInit
<1> QED
  BY <1>2, <1>3, <1>4, EmptyStoreWhole
     DEF KnowledgeInv, FileInv, InputsGiven, DraftsUnderLock, DraftsFollow, AllListed

\* A request that ends, and one that goes on.
LEMMA RequestEnds ==
  ASSUME KnowledgeTypeOK, NEW o \in KnowledgeOps, NEW at \in {"done", "failed"}, EndRequest(o, at)
  PROVE  /\ kbOp' \in [KnowledgeOps -> Requests]
         /\ kbOp'[o] = [kbOp[o] EXCEPT !.at = at, !.draft = EmptyStore]
         /\ kbOp'[o].at = at /\ kbOp'[o].draft = EmptyStore
         /\ kbOp'[o].wants = kbOp[o].wants /\ kbOp'[o].scope = kbOp[o].scope
         /\ kbOp'[o].model = kbOp[o].model /\ kbOp'[o].count = kbOp[o].count
         /\ \A p \in KnowledgeOps : p # o => kbOp'[p] = kbOp[p]
<1> DEFINE r == [kbOp[o] EXCEPT !.at = at, !.draft = EmptyStore]
<1>1. kbOp' = [kbOp EXCEPT ![o] = r]
  BY DEF EndRequest, KnowledgeTypeOK
<1>2. kbOp[o] \in Requests
  BY DEF KnowledgeTypeOK
<1>3. r \in Requests
  BY <1>2, EmptyStoreWhole DEF Requests
<1>4. /\ r.at = at /\ r.draft = EmptyStore /\ r.wants = kbOp[o].wants /\ r.scope = kbOp[o].scope
      /\ r.model = kbOp[o].model /\ r.count = kbOp[o].count
  BY <1>2 DEF Requests
<1> HIDE DEF r
<1> QED BY <1>1, <1>3, <1>4 DEF KnowledgeTypeOK, r

\* What entering the lock of the file makes of a request: the three kinds that
\* go on, with their drafts.
LEMMA EntersFile ==
  ASSUME KnowledgeInv, NEW o \in KnowledgeOps, EnterFile(o)
  PROVE  /\ kbAdapter = "file" /\ kbHolder = NoRequest /\ kbOp[o].at = "waiting"
         /\ UNCHANGED <<kbAdapter, kbStore>>
         /\ \/ (EndRequest(o, "done") \/ EndRequest(o, "failed")) /\ kbHolder' = kbHolder
            \/ /\ kbHolder' = o
               /\ \E r \in Requests :
                    /\ kbOp' = [kbOp EXCEPT ![o] = r]
                    /\ r.wants = kbOp[o].wants /\ r.scope = kbOp[o].scope
                    /\ r.model = kbOp[o].model /\ r.count = kbOp[o].count
                    /\ \/ /\ r.wants = "add" /\ r.at = "embedding"
                          /\ r.draft = WithBase(kbStore, o, r.scope, r.model)
                          /\ Room(r.draft, BaseId(r.draft, r.scope), r.count)
                       \/ /\ r.wants = "delete" /\ r.at = "writing"
                          /\ r.draft = WithoutDocument(kbStore, kbOp[o].document)
                       \/ /\ r.wants = "clear" /\ r.at = "writing"
                          /\ r.draft = WithoutScope(kbStore, r.scope)
<1> DEFINE op == kbOp[o]
           store == WithBase(kbStore, o, op.scope, op.model)
           draft == CASE op.wants = "add" -> store
                      [] op.wants = "delete" -> WithoutDocument(kbStore, op.document)
                      [] op.wants = "clear" -> WithoutScope(kbStore, op.scope)
           bad == \/ op.wants = "add" /\ ~Room(store, BaseId(store, op.scope), op.count)
                  \/ op.wants = "delete" /\ ~\E d \in kbStore.documents : d.id = op.document
           nothing == op.wants = "clear" /\ BasesOf(kbStore, op.scope) = {}
           at == IF op.wants = "add" THEN "embedding" ELSE "writing"
           r == [op EXCEPT !.draft = draft, !.at = at]
<1>1. /\ kbAdapter = "file" /\ op.at = "waiting" /\ kbHolder = NoRequest /\ UNCHANGED <<kbAdapter, kbStore>>
      /\ IF bad \/ nothing
         THEN EndRequest(o, IF bad THEN "failed" ELSE "done") /\ UNCHANGED kbHolder
         ELSE kbHolder' = o /\ kbOp' = [kbOp EXCEPT ![o].draft = draft, ![o].at = at]
  BY DEF EnterFile, Free
<1>2. op \in Requests /\ kbOp \in [KnowledgeOps -> Requests] /\ kbStore \in KnowledgeStores
  BY DEF KnowledgeInv, KnowledgeTypeOK
<1>3. op.wants \in {"add", "delete", "clear"}
  BY <1>1, <1>2 DEF KnowledgeInv, InputsGiven, Requests
<1>4. draft \in KnowledgeStores
  <2>1. CASE op.wants = "add"
    <3>1. op.scope \in Scopes /\ op.model \in Models
      BY <2>1 DEF KnowledgeInv, InputsGiven
    <3>2. store \in KnowledgeStores
      BY <1>2, <3>1, WithBaseStore
    <3> QED BY <2>1, <3>2
  <2>2. CASE op.wants = "delete"
    <3>1. draft = WithoutDocument(kbStore, op.document)
      BY <2>2
    <3> QED BY <1>2, <3>1, WithoutDocumentStore
  <2>3. CASE op.wants = "clear"
    <3>1. draft = WithoutScope(kbStore, op.scope)
      BY <2>3
    <3> QED BY <1>2, <3>1, WithoutScopeStore
  <2> QED BY <1>3, <2>1, <2>2, <2>3
<1>5. CASE bad \/ nothing
  <2> HIDE DEF bad, nothing
  <2> QED BY <1>1, <1>5
<1>6. CASE ~(bad \/ nothing)
  <2>1. kbHolder' = o /\ kbOp' = [kbOp EXCEPT ![o].draft = draft, ![o].at = at]
    <3> HIDE DEF bad, nothing, draft, at
    <3> QED BY <1>1, <1>6
  <2>2. draft = CASE op.wants = "add" -> store
                  [] op.wants = "delete" -> WithoutDocument(kbStore, op.document)
                  [] op.wants = "clear" -> WithoutScope(kbStore, op.scope)
    OBVIOUS
  <2>3. at = (IF op.wants = "add" THEN "embedding" ELSE "writing") /\ at \in {"embedding", "writing"}
    OBVIOUS
  <2>4. op.wants = "add" => Room(store, BaseId(store, op.scope), op.count)
    BY <1>6
  <2> HIDE DEF draft, at, store, bad, nothing
  <2>5. kbOp' = [kbOp EXCEPT ![o] = r]
    BY <1>2, <2>1
  <2>6. r \in Requests
    BY <1>2, <1>4, <2>3 DEF Requests
  <2>7. /\ r.draft = draft /\ r.at = at /\ r.wants = op.wants /\ r.scope = op.scope
        /\ r.model = op.model /\ r.count = op.count
    BY <1>2 DEF Requests
  <2> HIDE DEF r
  <2>8. \/ r.wants = "add" /\ r.at = "embedding" /\ r.draft = store
        \/ r.wants = "delete" /\ r.at = "writing" /\ r.draft = WithoutDocument(kbStore, op.document)
        \/ r.wants = "clear" /\ r.at = "writing" /\ r.draft = WithoutScope(kbStore, op.scope)
    BY <1>3, <2>2, <2>3, <2>7
  <2>9. r.wants = "add" => Room(r.draft, BaseId(r.draft, r.scope), r.count)
    BY <2>4, <2>7, <2>8
  <2>10. r.draft = store => r.draft = WithBase(kbStore, o, r.scope, r.model)
    BY <2>7 DEF store
  <2> QED BY <1>1, <2>1, <2>5, <2>6, <2>7, <2>8, <2>9, <2>10
<1> QED BY <1>5, <1>6

\* Steps of one request that leave the file alone.
LEMMA KnowledgeQuiet ==
  ASSUME KnowledgeInv, NEW o \in KnowledgeOps, UNCHANGED <<kbAdapter, kbStore>>,
         kbOp' \in [KnowledgeOps -> Requests], \A p \in KnowledgeOps : p # o => kbOp'[p] = kbOp[p],
         InputsGiven', DraftsUnderLock', kbHolder' \in KnowledgeOps \cup {NoRequest},
         ChunksListed(kbOp'[o].draft),
         kbAdapter = "file" /\ kbOp'[o].at \in {"embedding", "writing"} =>
           /\ DocumentIds(kbOp'[o].draft) \subseteq
                DocumentIds(kbStore) \cup (IF kbOp'[o].at = "writing" THEN {o} ELSE {})
           /\ BaseIds(kbOp'[o].draft) \subseteq BaseIds(kbStore) \cup {o}
  PROVE  KnowledgeInv'
<1>1. KnowledgeTypeOK'
  BY DEF KnowledgeInv, KnowledgeTypeOK
<1>2. DraftsFollow'
  BY DEF KnowledgeInv, DraftsFollow
<1>3. AllListed'
  BY DEF KnowledgeInv, AllListed
<1> QED BY <1>1, <1>2, <1>3 DEF KnowledgeInv

LEMMA OpenKnowledgeKeeps == KnowledgeInv /\ OpenKnowledge => KnowledgeInv' /\ FileInv'
<1> SUFFICES ASSUME KnowledgeInv, OpenKnowledge PROVE KnowledgeInv' /\ FileInv'
  OBVIOUS
<1>1. /\ kbAdapter = "none" /\ kbAdapter' \in {"file", "memory"} /\ UNCHANGED <<kbStore, kbHolder, kbOp>>
      /\ kbStore = EmptyStore /\ kbHolder = NoRequest /\ NoRequest \notin KnowledgeOps
      /\ \A o \in KnowledgeOps : kbOp[o].at = "idle"
  BY KnowledgeAssumption DEF OpenKnowledge, KnowledgeInv, DraftsUnderLock, InputsGiven, NoRequest
<1>2. KnowledgeTypeOK' /\ AllListed'
  BY <1>1 DEF KnowledgeInv, KnowledgeTypeOK, AllListed
<1>3. InputsGiven'
  BY <1>1 DEF KnowledgeInv, InputsGiven
<1>4. DraftsUnderLock' /\ DraftsFollow'
  BY <1>1 DEF DraftsUnderLock, DraftsFollow
<1>5. FileInv'
  BY <1>1, EmptyStoreWhole DEF FileInv, IdsOfDone, RoomKept, DocumentIds, BaseIds, EmptyStore
<1> QED BY <1>2, <1>3, <1>4, <1>5 DEF KnowledgeInv

LEMMA AskKnowledgeKeeps ==
  ASSUME KnowledgeInv, FileInv, NEW o \in KnowledgeOps, AskKnowledge(o)
  PROVE  KnowledgeInv' /\ FileInv'
<1>1. PICK r \in Requests :
        /\ kbOp' = [kbOp EXCEPT ![o] = r] /\ r.at = "waiting" /\ r.wants # "none" /\ r.draft = EmptyStore
        /\ r.wants = "add" => r.scope \in Scopes /\ r.model \in Models /\ r.count \in ChunkCounts
        /\ r.wants = "clear" => r.scope \in Scopes
  <2>1. CASE \E scope \in Scopes, model \in Models, count \in ChunkCounts :
               kbOp' = [kbOp EXCEPT ![o] = [IdleRequest EXCEPT !.at = "waiting", !.wants = "add",
                                         !.scope = scope, !.model = model, !.count = count]]
    <3>1. PICK scope \in Scopes, model \in Models, count \in ChunkCounts :
               kbOp' = [kbOp EXCEPT ![o] = [IdleRequest EXCEPT !.at = "waiting", !.wants = "add",
                                         !.scope = scope, !.model = model, !.count = count]]
      BY <2>1
    <3> DEFINE r == [IdleRequest EXCEPT !.at = "waiting", !.wants = "add", !.scope = scope, !.model = model, !.count = count]
    <3>2. /\ r \in Requests /\ r.at = "waiting" /\ r.wants = "add" /\ r.draft = EmptyStore
          /\ r.scope = scope /\ r.model = model /\ r.count = count
      BY KnowledgeAssumption, EmptyStoreWhole DEF IdleRequest, Requests
    <3> HIDE DEF r
    <3>3. r.wants # "none" /\ r.wants # "clear"
      BY <3>2
    <3> QED BY <3>1, <3>2, <3>3 DEF r
  <2>2. CASE \E id \in {d \in KnowledgeOps : d < o} :
               kbOp' = [kbOp EXCEPT ![o] = [IdleRequest EXCEPT !.at = "waiting", !.wants = "delete", !.document = id]]
    <3>1. PICK id \in KnowledgeOps :
               kbOp' = [kbOp EXCEPT ![o] = [IdleRequest EXCEPT !.at = "waiting", !.wants = "delete", !.document = id]]
      BY <2>2
    <3> DEFINE r == [IdleRequest EXCEPT !.at = "waiting", !.wants = "delete", !.document = id]
    <3>2. r \in Requests /\ r.at = "waiting" /\ r.wants = "delete" /\ r.draft = EmptyStore
      BY EmptyStoreWhole DEF IdleRequest, Requests
    <3> HIDE DEF r
    <3> QED BY <3>1, <3>2 DEF r
  <2>3. CASE \E scope \in Scopes :
               kbOp' = [kbOp EXCEPT ![o] = [IdleRequest EXCEPT !.at = "waiting", !.wants = "clear", !.scope = scope]]
    <3>1. PICK scope \in Scopes :
               kbOp' = [kbOp EXCEPT ![o] = [IdleRequest EXCEPT !.at = "waiting", !.wants = "clear", !.scope = scope]]
      BY <2>3
    <3> DEFINE r == [IdleRequest EXCEPT !.at = "waiting", !.wants = "clear", !.scope = scope]
    <3>2. r \in Requests /\ r.at = "waiting" /\ r.wants = "clear" /\ r.draft = EmptyStore /\ r.scope = scope
      BY EmptyStoreWhole DEF IdleRequest, Requests
    <3> HIDE DEF r
    <3> QED BY <3>1, <3>2 DEF r
  <2> QED BY <2>1, <2>2, <2>3 DEF AskKnowledge
<1>2. /\ UNCHANGED <<kbAdapter, kbStore, kbHolder>> /\ kbAdapter # "none" /\ kbOp[o].at = "idle"
      /\ kbOp \in [KnowledgeOps -> Requests] /\ kbHolder \in KnowledgeOps \cup {NoRequest}
  BY DEF AskKnowledge, KnowledgeInv, KnowledgeTypeOK
<1>3. /\ kbOp' \in [KnowledgeOps -> Requests] /\ kbOp'[o] = r
      /\ \A p \in KnowledgeOps : p # o => kbOp'[p] = kbOp[p]
  BY <1>1, <1>2
<1>4. InputsGiven'
  BY <1>1, <1>2, <1>3 DEF KnowledgeInv, InputsGiven
<1>5. DraftsUnderLock'
  BY <1>1, <1>2, <1>3 DEF KnowledgeInv, DraftsUnderLock
<1>6. KnowledgeInv'
  BY <1>1, <1>2, <1>3, <1>4, <1>5, EmptyStoreWhole, KnowledgeQuiet
<1>7. FileInv'
  BY <1>1, <1>2, <1>3 DEF FileInv, IdsOfDone, RoomKept
<1> QED BY <1>6, <1>7

-----------------------------------------------------------------------------
\* A store that only lost documents with their chunks, or a base with its
\* documents, is whole.
LEMMA WholeSmaller ==
  ASSUME NEW s \in KnowledgeStores, Whole(s), NEW t,
         t.bases \subseteq s.bases, t.documents \subseteq s.documents, t.chunks \subseteq s.chunks,
         \A d \in t.documents :
           ChunksOfDocument(t, d) = ChunksOfDocument(s, d) /\ \E b \in t.bases : b.id = d.base
  PROVE  Whole(t)
<1>1. IsFiniteSet(s.documents) /\ IsFiniteSet(s.chunks)
  BY DEF Whole
<1>2. IsFiniteSet(t.documents) /\ IsFiniteSet(t.chunks)
  BY <1>1, FS_Subset
<1>3. ASSUME NEW base
      PROVE  /\ Cardinality(DocumentsIn(t, base)) \in Nat /\ Cardinality(DocumentsIn(s, base)) \in Nat
             /\ Cardinality(DocumentsIn(t, base)) <= Cardinality(DocumentsIn(s, base))
             /\ Cardinality(ChunksIn(t, base)) \in Nat /\ Cardinality(ChunksIn(s, base)) \in Nat
             /\ Cardinality(ChunksIn(t, base)) <= Cardinality(ChunksIn(s, base))
  <2>1. /\ DocumentsIn(t, base) \subseteq DocumentsIn(s, base) /\ DocumentsIn(s, base) \subseteq s.documents
        /\ ChunksIn(t, base) \subseteq ChunksIn(s, base) /\ ChunksIn(s, base) \subseteq s.chunks
    BY DEF DocumentsIn, ChunksIn
  <2>2. IsFiniteSet(DocumentsIn(s, base)) /\ IsFiniteSet(ChunksIn(s, base))
    BY <1>1, <2>1, FS_Subset
  <2>3. IsFiniteSet(DocumentsIn(t, base)) /\ IsFiniteSet(ChunksIn(t, base))
    BY <2>1, <2>2, FS_Subset
  <2> QED BY <2>1, <2>2, <2>3, FS_Subset, FS_CardinalityType
<1>4. ASSUME NEW b \in t.bases
      PROVE  Cardinality(DocumentsIn(t, b.id)) <= MaxDocuments /\ Cardinality(ChunksIn(t, b.id)) <= MaxChunks
  <2>1. Cardinality(DocumentsIn(s, b.id)) <= MaxDocuments /\ Cardinality(ChunksIn(s, b.id)) <= MaxChunks
    BY DEF Whole
  <2> QED BY <1>3, <2>1, KnowledgeAssumption
<1>5. \A d \in t.documents :
        /\ \E b \in t.bases : b.id = d.base
        /\ \E m \in Models : ChunksOfDocument(t, d) = ChunksOf(d.id, d.base, m, d.count)
  BY DEF Whole
<1>6. \A a, b \in t.bases : a.scope = b.scope => a = b
  BY DEF Whole
<1> QED BY <1>2, <1>4, <1>5, <1>6 DEF Whole

LEMMA WholeWithoutDocument ==
  ASSUME NEW s \in KnowledgeStores, Whole(s), NEW id
  PROVE  Whole(WithoutDocument(s, id))
<1> DEFINE t == WithoutDocument(s, id)
<1>1. /\ t.bases = s.bases
      /\ t.documents = {d \in s.documents : d.id # id} /\ t.chunks = {c \in s.chunks : c.document # id}
  BY WithoutDocumentStore
<1> HIDE DEF t
<1>2. \A d \in t.documents : ChunksOfDocument(t, d) = ChunksOfDocument(s, d)
  BY <1>1 DEF ChunksOfDocument
<1>3. \A d \in t.documents : \E b \in t.bases : b.id = d.base
  BY <1>1 DEF Whole
<1>4. Whole(t)
  BY <1>1, <1>2, <1>3, WholeSmaller
<1> QED BY <1>4 DEF t

LEMMA WholeWithoutScope ==
  ASSUME NEW s \in KnowledgeStores, Whole(s), NEW scope
  PROVE  Whole(WithoutScope(s, scope))
<1> DEFINE t == WithoutScope(s, scope)
<1>1. PICK gone :
        /\ t.bases = {b \in s.bases : b.id \notin gone}
        /\ t.documents = {d \in s.documents : d.base \notin gone}
        /\ t.chunks = {c \in s.chunks : c.base \notin gone}
  BY WithoutScopeStore
<1> HIDE DEF t
<1>2. \A d \in t.documents : ChunksOfDocument(t, d) = ChunksOfDocument(s, d)
  BY <1>1 DEF ChunksOfDocument
<1>3. \A d \in t.documents : \E b \in t.bases : b.id = d.base
  BY <1>1 DEF Whole
<1>4. Whole(t)
  BY <1>1, <1>2, <1>3, WholeSmaller
<1> QED BY <1>4 DEF t

LEMMA WholeWithBase ==
  ASSUME NEW s \in KnowledgeStores, Whole(s), ChunksListed(s), NEW o \in KnowledgeOps, o \notin BaseIds(s),
         NEW scope \in Scopes, NEW model \in Models
  PROVE  Whole(WithBase(s, o, scope, model))
<1> DEFINE t == WithBase(s, o, scope, model)
<1>1. /\ t.documents = s.documents /\ t.chunks = s.chunks /\ s.bases \subseteq t.bases
      /\ \A b \in t.bases : b \in s.bases \/ (b.id = o /\ b.scope = scope /\ BasesOf(s, scope) = {})
      /\ \A a, b \in t.bases : a \notin s.bases /\ b \notin s.bases => a = b
  BY WithBaseStore
<1> HIDE DEF t
<1>2. \A a, b \in t.bases : a.scope = b.scope => a = b
  BY <1>1 DEF Whole, BasesOf
<1>3. /\ \A base : DocumentsIn(t, base) = DocumentsIn(s, base) /\ ChunksIn(t, base) = ChunksIn(s, base)
      /\ \A d : ChunksOfDocument(t, d) = ChunksOfDocument(s, d)
  BY <1>1 DEF DocumentsIn, ChunksIn, ChunksOfDocument
<1>4. DocumentsIn(s, o) = {} /\ ChunksIn(s, o) = {}
  <2>1. \A d \in s.documents : d.base # o
    BY DEF Whole, BaseIds
  <2> QED BY <2>1 DEF DocumentsIn, ChunksIn, ChunksListed
<1>5. Cardinality({}) = 0 /\ 0 <= MaxDocuments /\ 0 <= MaxChunks
  BY FS_EmptySet, KnowledgeAssumption
<1>6. \A b \in t.bases :
        Cardinality(DocumentsIn(t, b.id)) <= MaxDocuments /\ Cardinality(ChunksIn(t, b.id)) <= MaxChunks
  BY <1>1, <1>3, <1>4, <1>5 DEF Whole
<1>7. \A d \in t.documents :
        /\ \E b \in t.bases : b.id = d.base
        /\ \E m \in Models : ChunksOfDocument(t, d) = ChunksOf(d.id, d.base, m, d.count)
  BY <1>1, <1>3 DEF Whole
<1>8. Whole(t)
  BY <1>1, <1>2, <1>6, <1>7 DEF Whole
<1> QED BY <1>8 DEF t

LEMMA WholeWithDocument ==
  ASSUME NEW s \in KnowledgeStores, Whole(s), ChunksListed(s), NEW o \in KnowledgeOps, o \notin DocumentIds(s),
         NEW base \in KnowledgeOps, NEW model \in Models, NEW count \in Nat,
         Room(s, base, count), \E b \in s.bases : b.id = base
  PROVE  Whole(WithDocument(s, o, base, model, count))
<1> DEFINE t == WithDocument(s, o, base, model, count)
           d == KnowledgeDocument(o, base, count)
           new == ChunksOf(o, base, model, count)
<1>1. /\ t.bases = s.bases /\ t.documents = s.documents \cup {d} /\ t.chunks = s.chunks \cup new
      /\ d.id = o /\ d.base = base /\ d.count = count
  BY WithDocumentStore
<1>2. (\A c \in new : c.document = o /\ c.base = base) /\ IsFiniteSet(new) /\ Cardinality(new) = count
  BY ChunksOfFacts
<1>3. \A c \in s.chunks : c.document # o
  BY DEF ChunksListed, DocumentIds
<1>4. \A e \in s.documents : e.id # o
  BY DEF DocumentIds
<1>5. IsFiniteSet(s.documents) /\ IsFiniteSet(s.chunks)
  BY DEF Whole
<1>6. Cardinality(DocumentsIn(s, base)) < MaxDocuments /\ Cardinality(ChunksIn(s, base)) + count <= MaxChunks
  BY DEF Room
<1>7. new = ChunksOf(o, base, model, count)
  OBVIOUS
<1> HIDE DEF t, d, new
<1>8. IsFiniteSet(t.documents) /\ IsFiniteSet(t.chunks)
  <2>1. IsFiniteSet({d})
    BY FS_Singleton
  <2>2. IsFiniteSet(s.documents \cup {d})
    BY <1>5, <2>1, FS_Union
  <2>3. IsFiniteSet(s.chunks \cup new)
    BY <1>2, <1>5, FS_Union
  <2> QED BY <1>1, <2>2, <2>3
<1>9. ASSUME NEW e \in t.documents
      PROVE  /\ \E b \in t.bases : b.id = e.base
             /\ \E m \in Models : ChunksOfDocument(t, e) = ChunksOf(e.id, e.base, m, e.count)
  <2>1. CASE e = d
    <3>1. ChunksOfDocument(t, e) = new
      BY <1>1, <1>2, <1>3, <2>1 DEF ChunksOfDocument
    <3> QED BY <1>1, <1>7, <2>1, <3>1
  <2>2. CASE e \in s.documents
    <3>1. ChunksOfDocument(t, e) = ChunksOfDocument(s, e)
      BY <1>1, <1>2, <1>4, <2>2 DEF ChunksOfDocument
    <3> QED BY <1>1, <2>2, <3>1 DEF Whole
  <2> QED BY <1>1, <2>1, <2>2
<1>10. Cardinality(DocumentsIn(t, base)) <= MaxDocuments
  <2>1. DocumentsIn(t, base) = DocumentsIn(s, base) \cup {d} /\ DocumentsIn(s, base) \subseteq s.documents
    BY <1>1 DEF DocumentsIn
  <2>2. IsFiniteSet(DocumentsIn(s, base)) /\ Cardinality(DocumentsIn(s, base)) \in Nat
    BY <1>5, <2>1, FS_Subset, FS_CardinalityType
  <2>3. Cardinality(DocumentsIn(t, base)) \in {Cardinality(DocumentsIn(s, base)), Cardinality(DocumentsIn(s, base)) + 1}
    BY <2>1, <2>2, FS_AddElement
  <2> QED BY <1>6, <2>2, <2>3, KnowledgeAssumption
<1>11. Cardinality(ChunksIn(t, base)) <= MaxChunks
  <2>1. ChunksIn(t, base) = ChunksIn(s, base) \cup new /\ ChunksIn(s, base) \subseteq s.chunks
    BY <1>1, <1>2 DEF ChunksIn
  <2>2. ChunksIn(s, base) \cap new = {}
    BY <1>2, <1>3 DEF ChunksIn
  <2>3. IsFiniteSet(ChunksIn(s, base)) /\ Cardinality(ChunksIn(s, base)) \in Nat
    BY <1>5, <2>1, FS_Subset, FS_CardinalityType
  <2>4. Cardinality(ChunksIn(t, base)) = Cardinality(ChunksIn(s, base)) + count - Cardinality({})
    BY <1>2, <2>1, <2>2, <2>3, FS_Union
  <2> QED BY <1>6, <2>3, <2>4, FS_EmptySet, KnowledgeAssumption
<1>12. ASSUME NEW b \in t.bases
       PROVE  Cardinality(DocumentsIn(t, b.id)) <= MaxDocuments /\ Cardinality(ChunksIn(t, b.id)) <= MaxChunks
  <2>1. CASE b.id = base
    BY <1>10, <1>11, <2>1
  <2>2. CASE b.id # base
    <3>1. DocumentsIn(t, b.id) = DocumentsIn(s, b.id) /\ ChunksIn(t, b.id) = ChunksIn(s, b.id)
      BY <1>1, <1>2, <2>2 DEF DocumentsIn, ChunksIn
    <3> QED BY <1>1, <3>1 DEF Whole
  <2> QED BY <2>1, <2>2
<1>13. Whole(t)
  BY <1>1, <1>8, <1>9, <1>12 DEF Whole
<1> QED BY <1>13 DEF t

-----------------------------------------------------------------------------
LEMMA EnterFileKeeps ==
  ASSUME KnowledgeInv, FileInv, NEW o \in KnowledgeOps, EnterFile(o)
  PROVE  KnowledgeInv' /\ FileInv'
<1>1. /\ kbAdapter = "file" /\ kbHolder = NoRequest /\ kbOp[o].at = "waiting"
      /\ UNCHANGED <<kbAdapter, kbStore>>
  BY EntersFile
<1>2. /\ kbOp \in [KnowledgeOps -> Requests] /\ kbStore \in KnowledgeStores /\ NoRequest \notin KnowledgeOps
      /\ ChunksListed(kbStore) /\ Whole(kbStore) /\ o \notin DocumentIds(kbStore) \cup BaseIds(kbStore)
      /\ KnowledgeTypeOK
  BY <1>1, KnowledgeAssumption DEF KnowledgeInv, KnowledgeTypeOK, AllListed, FileInv, IdsOfDone, NoRequest
<1>3. ASSUME NEW at \in {"done", "failed"}, EndRequest(o, at), kbHolder' = kbHolder
      PROVE  KnowledgeInv' /\ FileInv'
  <2>1. /\ kbOp' \in [KnowledgeOps -> Requests] /\ kbOp'[o].at = at /\ kbOp'[o].draft = EmptyStore
        /\ kbOp'[o].wants = kbOp[o].wants /\ kbOp'[o].scope = kbOp[o].scope
        /\ kbOp'[o].model = kbOp[o].model /\ kbOp'[o].count = kbOp[o].count
        /\ \A p \in KnowledgeOps : p # o => kbOp'[p] = kbOp[p]
    BY <1>2, <1>3, RequestEnds
  <2>2. InputsGiven' /\ DraftsUnderLock'
    BY <1>1, <1>2, <1>3, <2>1 DEF KnowledgeInv, InputsGiven, DraftsUnderLock
  <2>3. KnowledgeInv'
    BY <1>1, <1>2, <1>3, <2>1, <2>2, EmptyStoreWhole, KnowledgeQuiet
  <2>4. FileInv'
    BY <1>1, <1>2, <2>1 DEF FileInv, IdsOfDone, RoomKept
  <2> QED BY <2>3, <2>4
<1>4. ASSUME kbHolder' = o, NEW r \in Requests, kbOp' = [kbOp EXCEPT ![o] = r],
             r.wants = kbOp[o].wants /\ r.scope = kbOp[o].scope /\ r.model = kbOp[o].model /\ r.count = kbOp[o].count,
             \/ /\ r.wants = "add" /\ r.at = "embedding"
                /\ r.draft = WithBase(kbStore, o, r.scope, r.model)
                /\ Room(r.draft, BaseId(r.draft, r.scope), r.count)
             \/ /\ r.wants = "delete" /\ r.at = "writing"
                /\ r.draft = WithoutDocument(kbStore, kbOp[o].document)
             \/ /\ r.wants = "clear" /\ r.at = "writing"
                /\ r.draft = WithoutScope(kbStore, r.scope)
      PROVE  KnowledgeInv' /\ FileInv'
  <2>1. kbOp'[o] = r /\ kbOp' \in [KnowledgeOps -> Requests] /\ \A p \in KnowledgeOps : p # o => kbOp'[p] = kbOp[p]
    BY <1>2, <1>4
  <2>2. r.wants = "add" => r.scope \in Scopes /\ r.model \in Models
    BY <1>4 DEF KnowledgeInv, InputsGiven
  <2>3. InputsGiven'
    BY <1>1, <1>4, <2>1 DEF KnowledgeInv, InputsGiven
  <2>4. DraftsUnderLock'
    BY <1>1, <1>2, <1>4, <2>1 DEF KnowledgeInv, DraftsUnderLock
  <2>5. /\ ChunksListed(r.draft) /\ Whole(r.draft)
        /\ DocumentIds(r.draft) \subseteq DocumentIds(kbStore) /\ BaseIds(r.draft) \subseteq BaseIds(kbStore) \cup {o}
        /\ r.at = "embedding" => BasesOf(r.draft, r.scope) # {} /\ Room(r.draft, BaseId(r.draft, r.scope), r.count)
    <3>1. CASE r.wants = "add"
      <4>1. r.draft = WithBase(kbStore, o, r.scope, r.model) /\ Room(r.draft, BaseId(r.draft, r.scope), r.count)
        BY <1>4, <3>1
      <4>2. ChunksListed(r.draft)
        BY <1>2, <4>1, ListedKept
      <4>3. Whole(r.draft)
        BY <1>2, <2>2, <3>1, <4>1, WholeWithBase
      <4>4. /\ r.draft.documents = kbStore.documents /\ BasesOf(r.draft, r.scope) # {}
            /\ \A b \in r.draft.bases : b \in kbStore.bases \/ b.id = o
        BY <1>2, <2>2, <3>1, <4>1, WithBaseStore
      <4> QED BY <4>1, <4>2, <4>3, <4>4 DEF DocumentIds, BaseIds
    <3>2. CASE r.wants = "delete"
      <4>1. r.draft = WithoutDocument(kbStore, kbOp[o].document) /\ r.at = "writing"
        BY <1>4, <3>2
      <4>2. ChunksListed(r.draft) /\ Whole(r.draft)
        BY <1>2, <4>1, ListedKept, WholeWithoutDocument
      <4>3. r.draft.documents \subseteq kbStore.documents /\ r.draft.bases = kbStore.bases
        BY <1>2, <4>1, WithoutDocumentStore
      <4> QED BY <4>1, <4>2, <4>3 DEF DocumentIds, BaseIds
    <3>3. CASE r.wants = "clear"
      <4>1. r.draft = WithoutScope(kbStore, r.scope) /\ r.at = "writing"
        BY <1>4, <3>3
      <4>2. ChunksListed(r.draft) /\ Whole(r.draft)
        BY <1>2, <4>1, ListedKept, WholeWithoutScope
      <4>3. r.draft.documents \subseteq kbStore.documents /\ r.draft.bases \subseteq kbStore.bases
        BY <1>2, <4>1, WithoutScopeStore
      <4> QED BY <4>1, <4>2, <4>3 DEF DocumentIds, BaseIds
    <3> QED BY <1>4, <3>1, <3>2, <3>3
  <2>6. KnowledgeInv'
    BY <1>1, <1>4, <2>1, <2>3, <2>4, <2>5, KnowledgeQuiet
  <2>7. RoomKept'
    BY <1>1, <2>1, <2>5 DEF FileInv, RoomKept
  <2>8. IdsOfDone'
    BY <1>1, <1>2, <2>1 DEF FileInv, IdsOfDone
  <2>9. FileInv'
    BY <1>1, <1>2, <2>1, <2>5, <2>7, <2>8 DEF FileInv
  <2> QED BY <2>6, <2>9
<1> QED BY <1>3, <1>4, EntersFile

LEMMA EmbeddingOkKeeps ==
  ASSUME KnowledgeInv, FileInv, NEW o \in KnowledgeOps, EmbeddingOk(o)
  PROVE  KnowledgeInv' /\ FileInv'
<1> DEFINE op == kbOp[o]
           base == BaseId(op.draft, op.scope)
           draft == WithDocument(op.draft, o, base, op.model, op.count)
           r == [op EXCEPT !.at = "writing", !.draft = draft]
<1>1. /\ kbAdapter = "file" /\ op.at = "embedding" /\ UNCHANGED <<kbAdapter, kbStore, kbHolder>>
      /\ op \in Requests /\ op.draft \in KnowledgeStores /\ kbOp \in [KnowledgeOps -> Requests]
      /\ kbHolder = o /\ op.wants = "add" /\ op.scope \in Scopes /\ op.model \in Models /\ op.count \in Nat
      /\ ChunksListed(op.draft) /\ Whole(op.draft) /\ Whole(kbStore)
      /\ BasesOf(op.draft, op.scope) # {} /\ Room(op.draft, base, op.count)
      /\ DocumentIds(op.draft) \subseteq DocumentIds(kbStore) /\ BaseIds(op.draft) \subseteq BaseIds(kbStore) \cup {o}
      /\ o \notin DocumentIds(kbStore)
  BY DEF EmbeddingOk, KnowledgeInv, KnowledgeTypeOK, InputsGiven, DraftsUnderLock, DraftsFollow, AllListed,
         FileInv, RoomKept, IdsOfDone, Requests
<1>2. kbOp' = [kbOp EXCEPT ![o] = r]
  BY <1>1 DEF EmbeddingOk
<1>3. base \in KnowledgeOps /\ \E b \in op.draft.bases : b.id = base
  BY <1>1, BaseIdIsBase
<1> HIDE DEF base
<1>4. /\ draft \in KnowledgeStores /\ draft.bases = op.draft.bases
      /\ draft.documents = op.draft.documents \cup {KnowledgeDocument(o, base, op.count)}
      /\ KnowledgeDocument(o, base, op.count).id = o
  BY <1>1, <1>3, WithDocumentStore
<1>5. ChunksListed(draft)
  BY <1>1, <1>3, ListedKept
<1>6. Whole(draft)
  BY <1>1, <1>3, WholeWithDocument
<1>7. DocumentIds(draft) \subseteq DocumentIds(kbStore) \cup {o} /\ BaseIds(draft) \subseteq BaseIds(kbStore) \cup {o}
  BY <1>1, <1>4 DEF DocumentIds, BaseIds
<1> HIDE DEF draft
<1>8. /\ r \in Requests /\ r.at = "writing" /\ r.draft = draft
      /\ r.wants = op.wants /\ r.scope = op.scope /\ r.model = op.model /\ r.count = op.count
  BY <1>1, <1>4 DEF Requests
<1> HIDE DEF r
<1>9. kbOp'[o] = r /\ kbOp' \in [KnowledgeOps -> Requests] /\ \A p \in KnowledgeOps : p # o => kbOp'[p] = kbOp[p]
  BY <1>1, <1>2, <1>8
<1>10. InputsGiven'
  BY <1>1, <1>8, <1>9 DEF KnowledgeInv, InputsGiven
<1>11. DraftsUnderLock'
  BY <1>1, <1>8, <1>9 DEF KnowledgeInv, DraftsUnderLock
<1>12. KnowledgeInv'
  BY <1>1, <1>5, <1>7, <1>8, <1>9, <1>10, <1>11, KnowledgeQuiet
<1>13. RoomKept' /\ IdsOfDone'
  BY <1>1, <1>8, <1>9 DEF FileInv, RoomKept, IdsOfDone
<1>14. FileInv'
  BY <1>1, <1>6, <1>8, <1>9, <1>13 DEF FileInv
<1> QED BY <1>12, <1>14

LEMMA EmbeddingFailsKeeps ==
  ASSUME KnowledgeInv, FileInv, NEW o \in KnowledgeOps, EmbeddingFails(o)
  PROVE  KnowledgeInv' /\ FileInv'
<1>1. /\ kbAdapter = "file" /\ kbOp[o].at = "embedding" /\ UNCHANGED <<kbAdapter, kbStore>> /\ kbHolder' = NoRequest
      /\ kbHolder = o /\ NoRequest \notin KnowledgeOps /\ KnowledgeTypeOK
  BY KnowledgeAssumption DEF EmbeddingFails, KnowledgeInv, DraftsUnderLock, NoRequest
<1>2. /\ kbOp' \in [KnowledgeOps -> Requests] /\ kbOp'[o].at = "failed" /\ kbOp'[o].draft = EmptyStore
      /\ kbOp'[o].wants = kbOp[o].wants /\ kbOp'[o].scope = kbOp[o].scope
      /\ kbOp'[o].model = kbOp[o].model /\ kbOp'[o].count = kbOp[o].count
      /\ \A p \in KnowledgeOps : p # o => kbOp'[p] = kbOp[p]
  BY <1>1, RequestEnds DEF EmbeddingFails
<1>3. InputsGiven' /\ DraftsUnderLock'
  BY <1>1, <1>2 DEF KnowledgeInv, InputsGiven, DraftsUnderLock
<1>4. KnowledgeInv'
  BY <1>1, <1>2, <1>3, EmptyStoreWhole, KnowledgeQuiet
<1>5. FileInv'
  BY <1>1, <1>2 DEF FileInv, IdsOfDone, RoomKept
<1> QED BY <1>4, <1>5

\* Nobody else holds a draft: the file is replaced by what was made of it.
LEMMA WriteFileKeeps ==
  ASSUME KnowledgeInv, FileInv, NEW o \in KnowledgeOps, WriteFile(o)
  PROVE  KnowledgeInv' /\ FileInv'
<1>1. /\ kbAdapter = "file" /\ kbOp[o].at = "writing" /\ UNCHANGED kbAdapter /\ kbHolder' = NoRequest
      /\ kbHolder = o /\ NoRequest \notin KnowledgeOps /\ KnowledgeTypeOK
      /\ kbOp[o].draft \in KnowledgeStores /\ ChunksListed(kbOp[o].draft) /\ Whole(kbOp[o].draft)
      /\ DocumentIds(kbOp[o].draft) \subseteq DocumentIds(kbStore) \cup {o}
      /\ BaseIds(kbOp[o].draft) \subseteq BaseIds(kbStore) \cup {o}
      /\ \A p \in KnowledgeOps : p # o => kbOp[p].at \notin {"embedding", "writing"}
  BY KnowledgeAssumption
     DEF WriteFile, KnowledgeInv, KnowledgeTypeOK, DraftsUnderLock, DraftsFollow, AllListed, FileInv, Requests, NoRequest
<1>2. PICK at \in {"done", "failed"} :
        EndRequest(o, at) /\ (kbStore' = kbStore \/ (at = "done" /\ kbStore' = kbOp[o].draft))
  BY DEF WriteFile
<1>3. /\ kbOp' \in [KnowledgeOps -> Requests] /\ kbOp'[o].at = at /\ kbOp'[o].draft = EmptyStore
      /\ kbOp'[o].wants = kbOp[o].wants /\ kbOp'[o].scope = kbOp[o].scope
      /\ kbOp'[o].model = kbOp[o].model /\ kbOp'[o].count = kbOp[o].count
      /\ \A p \in KnowledgeOps : p # o => kbOp'[p] = kbOp[p]
  BY <1>1, <1>2, RequestEnds
<1>4. InputsGiven' /\ DraftsUnderLock' /\ DraftsFollow'
  BY <1>1, <1>2, <1>3 DEF KnowledgeInv, InputsGiven, DraftsUnderLock, DraftsFollow
<1>5. kbStore' \in KnowledgeStores /\ ChunksListed(kbStore') /\ Whole(kbStore')
  BY <1>1, <1>2 DEF KnowledgeInv, KnowledgeTypeOK, AllListed, FileInv
<1>6. KnowledgeTypeOK' /\ AllListed'
  BY <1>1, <1>3, <1>5, EmptyStoreWhole DEF KnowledgeInv, KnowledgeTypeOK, AllListed
<1>7. IdsOfDone'
  <2>1. CASE kbStore' = kbStore
    BY <1>1, <1>3, <2>1 DEF FileInv, IdsOfDone
  <2>2. CASE at = "done" /\ kbStore' = kbOp[o].draft
    BY <1>1, <1>3, <2>2 DEF FileInv, IdsOfDone
  <2> QED BY <1>2, <2>1, <2>2
<1>8. RoomKept'
  BY <1>1, <1>2, <1>3 DEF RoomKept
<1>9. FileInv'
  BY <1>1, <1>2, <1>3, <1>5, <1>7, <1>8 DEF FileInv
<1> QED BY <1>4, <1>6, <1>9 DEF KnowledgeInv

LEMMA InMemoryKeeps ==
  ASSUME KnowledgeInv, NEW o \in KnowledgeOps, BeginInMemory(o) \/ EndInMemory(o)
  PROVE  KnowledgeInv' /\ FileInv'
<1>1. /\ kbAdapter = "memory" /\ kbHolder = NoRequest /\ UNCHANGED <<kbAdapter, kbHolder>>
      /\ KnowledgeTypeOK /\ kbStore \in KnowledgeStores /\ ChunksListed(kbStore)
      /\ kbOp \in [KnowledgeOps -> Requests] /\ kbOp[o] \in Requests
  BY DEF BeginInMemory, EndInMemory, KnowledgeInv, KnowledgeTypeOK, DraftsUnderLock, AllListed
<1>2. ASSUME NEW at \in {"done", "failed"}, EndRequest(o, at), kbStore' \in KnowledgeStores, ChunksListed(kbStore')
      PROVE  KnowledgeInv' /\ FileInv'
  <2>1. /\ kbOp' \in [KnowledgeOps -> Requests] /\ kbOp'[o].at = at /\ kbOp'[o].draft = EmptyStore
        /\ kbOp'[o].wants = kbOp[o].wants /\ kbOp'[o].scope = kbOp[o].scope
        /\ kbOp'[o].model = kbOp[o].model /\ kbOp'[o].count = kbOp[o].count
        /\ \A p \in KnowledgeOps : p # o => kbOp'[p] = kbOp[p]
    BY <1>1, <1>2, RequestEnds
  <2>2. InputsGiven' /\ DraftsUnderLock'
    BY <1>1, <2>1 DEF KnowledgeInv, InputsGiven, DraftsUnderLock
  <2>3. KnowledgeTypeOK' /\ AllListed' /\ DraftsFollow' /\ FileInv'
    BY <1>1, <1>2, <2>1, EmptyStoreWhole
       DEF KnowledgeInv, KnowledgeTypeOK, AllListed, DraftsFollow, FileInv
  <2> QED BY <2>2, <2>3 DEF KnowledgeInv
<1>3. ASSUME kbOp[o].at = "waiting", kbOp[o].wants = "add",
             kbStore' = WithBase(kbStore, o, kbOp[o].scope, kbOp[o].model),
             kbOp' = [kbOp EXCEPT ![o].at = "embedding", ![o].document = BaseId(kbStore', kbOp[o].scope)]
      PROVE  KnowledgeInv' /\ FileInv'
  <2>1. kbOp[o].scope \in Scopes /\ kbOp[o].model \in Models
    BY <1>3 DEF KnowledgeInv, InputsGiven
  <2>2. kbStore' \in KnowledgeStores /\ BasesOf(kbStore', kbOp[o].scope) # {} /\ ChunksListed(kbStore')
    <3>1. kbStore \in KnowledgeStores /\ ChunksListed(kbStore)
      BY <1>1 DEF KnowledgeInv, KnowledgeTypeOK, AllListed
    <3>2. kbStore' = WithBase(kbStore, o, kbOp[o].scope, kbOp[o].model)
      BY <1>3
    <3>3. kbStore' \in KnowledgeStores /\ BasesOf(kbStore', kbOp[o].scope) # {}
      BY <3>1, <3>2, <2>1, WithBaseStore
    <3>4. ChunksListed(kbStore')
      BY <3>1, <3>2, ListedKept
    <3> QED BY <3>3, <3>4
  <2> DEFINE base == BaseId(kbStore', kbOp[o].scope)
             r == [kbOp[o] EXCEPT !.at = "embedding", !.document = base]
  <2>3. base \in KnowledgeOps
    BY <2>2, BaseIdIsBase
  <2>4. kbOp' = [kbOp EXCEPT ![o] = r]
    BY <1>1, <1>3
  <2> HIDE DEF base
  <2>5. /\ r \in Requests /\ r.at = "embedding" /\ r.document = base /\ r.draft = kbOp[o].draft
        /\ r.wants = "add" /\ r.scope = kbOp[o].scope /\ r.model = kbOp[o].model /\ r.count = kbOp[o].count
    BY <1>1, <1>3, <2>3 DEF Requests
  <2> HIDE DEF r
  <2>6. kbOp'[o] = r /\ kbOp' \in [KnowledgeOps -> Requests] /\ \A p \in KnowledgeOps : p # o => kbOp'[p] = kbOp[p]
    BY <1>1, <2>4, <2>5
  <2>7. InputsGiven' /\ DraftsUnderLock'
    BY <1>1, <1>3, <2>3, <2>5, <2>6 DEF KnowledgeInv, InputsGiven, DraftsUnderLock
  <2>8. KnowledgeTypeOK' /\ AllListed' /\ DraftsFollow' /\ FileInv'
    BY <1>1, <2>2, <2>5, <2>6 DEF KnowledgeInv, KnowledgeTypeOK, AllListed, DraftsFollow, FileInv
  <2> QED BY <2>7, <2>8 DEF KnowledgeInv
<1>4. CASE BeginInMemory(o)
  <2>1. \A id : WithoutDocument(kbStore, id) \in KnowledgeStores /\ ChunksListed(WithoutDocument(kbStore, id))
    BY <1>1, WithoutDocumentStore, ListedKept
  <2>2. \A scope : WithoutScope(kbStore, scope) \in KnowledgeStores /\ ChunksListed(WithoutScope(kbStore, scope))
    BY <1>1, WithoutScopeStore, ListedKept
  <2>3. CASE kbOp[o].wants = "add"
    BY <1>3, <1>4, <2>3 DEF BeginInMemory
  <2>4. CASE kbOp[o].wants = "delete"
    <3>1. PICK at \in {"done", "failed"} : EndRequest(o, at) /\ kbStore' = WithoutDocument(kbStore, kbOp[o].document)
      BY <1>4, <2>4 DEF BeginInMemory
    <3> QED BY <1>2, <2>1, <3>1
  <2>5. CASE kbOp[o].wants = "clear"
    <3>1. EndRequest(o, "done") /\ kbStore' = WithoutScope(kbStore, kbOp[o].scope)
      BY <1>4, <2>5 DEF BeginInMemory
    <3> QED BY <1>2, <2>2, <3>1
  <2> QED BY <1>4, <2>3, <2>4, <2>5 DEF BeginInMemory
<1>5. CASE EndInMemory(o)
  <2> DEFINE op == kbOp[o]
  <2>1. op.at = "embedding" /\ op.document \in KnowledgeOps /\ op.model \in Models /\ op.count \in Nat
    BY <1>1, <1>5 DEF EndInMemory, KnowledgeInv, InputsGiven, Requests
  <2>2. /\ WithDocument(kbStore, o, op.document, op.model, op.count) \in KnowledgeStores
        /\ ChunksListed(WithDocument(kbStore, o, op.document, op.model, op.count))
    BY <1>1, <2>1, WithDocumentStore, ListedKept
  <2> QED BY <1>1, <1>2, <1>5, <2>2 DEF EndInMemory
<1> QED BY <1>4, <1>5

THEOREM KnowledgeInvariant == KnowledgeSpec => [](KnowledgeInv /\ FileInv)
<1>1. KnowledgeInv /\ FileInv /\ [KnowledgeNext]_knowledgeVars => (KnowledgeInv /\ FileInv)'
  <2> SUFFICES ASSUME KnowledgeInv, FileInv, [KnowledgeNext]_knowledgeVars PROVE KnowledgeInv' /\ FileInv'
    OBVIOUS
  <2>1. CASE UNCHANGED knowledgeVars
    BY <2>1 DEF knowledgeVars, KnowledgeInv, KnowledgeTypeOK, InputsGiven, DraftsUnderLock, DraftsFollow, AllListed,
                FileInv, IdsOfDone, RoomKept
  <2> QED
    BY <2>1, OpenKnowledgeKeeps, AskKnowledgeKeeps, EnterFileKeeps, EmbeddingOkKeeps, EmbeddingFailsKeeps,
       WriteFileKeeps, InMemoryKeeps DEF KnowledgeNext, KnowledgeHandle
<1> QED BY <1>1, KnowledgeInitially, PTL DEF KnowledgeSpec

(***************************************************************************)
(* knowledge-library.ts keeps the file whole, for any documents, limits    *)
(* and requests: whatever fails between reading and writing it, there is   *)
(* one base per scope, every document has its chunks and a base, no chunk  *)
(* is left behind, and no base is above its limits.                        *)
(***************************************************************************)
THEOREM KnowledgeNoOrphans == KnowledgeSpec => []NoOrphans
<1>1. KnowledgeInv /\ FileInv => NoOrphans
  <2> SUFFICES ASSUME KnowledgeInv, FileInv, kbAdapter = "file" PROVE NoOrphans
    BY DEF NoOrphans
  <2>1. Whole(kbStore) /\ kbStore \in KnowledgeStores /\ ChunksListed(kbStore)
    BY DEF FileInv, KnowledgeInv, KnowledgeTypeOK, AllListed
  <2>2. ASSUME NEW scope \in Scopes PROVE Cardinality(BasesOf(kbStore, scope)) <= 1
    <3>1. CASE BasesOf(kbStore, scope) = {}
      BY <3>1, FS_EmptySet
    <3>2. CASE BasesOf(kbStore, scope) # {}
      <4>1. PICK b : b \in BasesOf(kbStore, scope)
        BY <3>2
      <4>2. BasesOf(kbStore, scope) = {b}
        BY <2>1, <4>1 DEF Whole, BasesOf
      <4>3. Cardinality({b}) = 1
        BY FS_Singleton
      <4> QED BY <4>2, <4>3
    <3> QED BY <3>1, <3>2
  <2>3. ASSUME NEW d \in kbStore.documents
        PROVE  /\ \E b \in kbStore.bases : b.id = d.base
               /\ Cardinality({c \in kbStore.chunks : c.document = d.id /\ c.base = d.base}) = d.count
    <3>1. PICK m \in Models : ChunksOfDocument(kbStore, d) = ChunksOf(d.id, d.base, m, d.count)
      BY <2>1 DEF Whole
    <3>2. d.id \in KnowledgeOps /\ d.base \in KnowledgeOps /\ d.count \in Nat
      BY <2>1 DEF KnowledgeStores, DocumentRecords
    <3>3. Cardinality(ChunksOfDocument(kbStore, d)) = d.count
      BY <3>1, <3>2, ChunksOfFacts
    <3> QED BY <2>1, <3>3 DEF Whole, ChunksOfDocument
  <2>4. \A c \in kbStore.chunks : \E d \in kbStore.documents : c.document = d.id
    BY <2>1 DEF ChunksListed
  <2>5. \A b \in kbStore.bases :
          /\ Cardinality(DocumentsIn(kbStore, b.id)) <= MaxDocuments
          /\ Cardinality(ChunksIn(kbStore, b.id)) <= MaxChunks
    BY <2>1 DEF Whole
  <2> QED BY <2>2, <2>3, <2>4, <2>5 DEF NoOrphans
<1> QED BY <1>1, KnowledgeInvariant, PTL

(***************************************************************************)
(* A search finds chunks of listed documents only, in either adapter and   *)
(* whatever is deleted while documents are being embedded.                 *)
(***************************************************************************)
THEOREM KnowledgeFoundListed == KnowledgeSpec => []FoundMeansListed
<1>1. KnowledgeInv => FoundMeansListed
  BY DEF KnowledgeInv, AllListed, ChunksListed, FoundMeansListed, Searchable
<1> QED BY <1>1, KnowledgeInvariant, PTL

(***************************************************************************)
(* A document enters a store by its own request and no other: what was     *)
(* deleted is not written back by a request that was under way.            *)
(***************************************************************************)
THEOREM KnowledgeDeletedStays == KnowledgeSpec => DeletedStaysDeleted
<1> DEFINE Enters == \A o \in KnowledgeOps :
       (\E d \in kbStore'.documents : d.id = o) /\ (\A d \in kbStore.documents : d.id # o) =>
         kbOp[o].at \in {"writing", "embedding"} /\ kbOp'[o].at = "done"
<1>1. ASSUME KnowledgeInv, KnowledgeNext PROVE Enters
  <2>1. CASE kbStore' = kbStore
    BY <2>1
  <2>2. ASSUME NEW p \in KnowledgeOps, WriteFile(p), kbStore' # kbStore PROVE Enters
    <3>1. kbStore' = kbOp[p].draft /\ EndRequest(p, "done") /\ kbOp[p].at = "writing" /\ kbAdapter = "file"
      BY <1>1, <2>2 DEF WriteFile, KnowledgeInv, DraftsUnderLock
    <3>2. DocumentIds(kbStore') \subseteq DocumentIds(kbStore) \cup {p}
      BY <1>1, <3>1 DEF KnowledgeInv, DraftsFollow
    <3>3. kbOp'[p].at = "done"
      BY <1>1, <3>1, RequestEnds DEF KnowledgeInv
    <3> QED BY <3>1, <3>2, <3>3 DEF DocumentIds
  <2>3. ASSUME NEW p \in KnowledgeOps, BeginInMemory(p) PROVE Enters
    <3>1. kbStore \in KnowledgeStores
      BY <1>1 DEF KnowledgeInv, KnowledgeTypeOK
    <3>2. kbStore'.documents \subseteq kbStore.documents
      <4>1. CASE kbOp[p].wants = "add"
        <5>1. kbStore' = WithBase(kbStore, p, kbOp[p].scope, kbOp[p].model)
          BY <2>3, <4>1 DEF BeginInMemory
        <5>2. kbOp[p].scope \in Scopes /\ kbOp[p].model \in Models
          BY <1>1, <4>1 DEF KnowledgeInv, InputsGiven
        <5> QED BY <3>1, <5>1, <5>2, WithBaseStore
      <4>2. CASE kbOp[p].wants = "delete"
        BY <2>3, <3>1, <4>2, WithoutDocumentStore DEF BeginInMemory
      <4>3. CASE kbOp[p].wants = "clear"
        BY <2>3, <3>1, <4>3, WithoutScopeStore DEF BeginInMemory
      <4> QED BY <2>3, <4>1, <4>2, <4>3 DEF BeginInMemory
    <3> QED BY <3>2
  <2>4. ASSUME NEW p \in KnowledgeOps, EndInMemory(p), kbStore' # kbStore PROVE Enters
    <3>1. /\ kbOp[p].at = "embedding" /\ EndRequest(p, "done") /\ kbAdapter = "memory"
          /\ kbStore' = WithDocument(kbStore, p, kbOp[p].document, kbOp[p].model, kbOp[p].count)
      BY <2>4 DEF EndInMemory
    <3>2. kbOp[p].document \in KnowledgeOps /\ kbOp[p].model \in Models /\ kbOp[p].count \in Nat
      BY <1>1, <3>1 DEF KnowledgeInv, KnowledgeTypeOK, InputsGiven, Requests
    <3>3. /\ kbStore'.documents =
                kbStore.documents \cup {KnowledgeDocument(p, kbOp[p].document, kbOp[p].count)}
          /\ KnowledgeDocument(p, kbOp[p].document, kbOp[p].count).id = p
      BY <1>1, <3>1, <3>2, WithDocumentStore DEF KnowledgeInv, KnowledgeTypeOK
    <3>4. kbOp'[p].at = "done"
      BY <1>1, <3>1, RequestEnds DEF KnowledgeInv
    <3> QED BY <3>1, <3>3, <3>4
  <2>5. ASSUME NEW p \in KnowledgeOps,
               AskKnowledge(p) \/ EnterFile(p) \/ EmbeddingOk(p) \/ EmbeddingFails(p)
        PROVE  kbStore' = kbStore
    BY <2>5 DEF AskKnowledge, EnterFile, EmbeddingOk, EmbeddingFails
  <2>6. OpenKnowledge => kbStore' = kbStore
    BY DEF OpenKnowledge
  <2> QED BY <1>1, <2>1, <2>2, <2>3, <2>4, <2>5, <2>6 DEF KnowledgeNext, KnowledgeHandle
<1>2. KnowledgeInv /\ [KnowledgeNext]_knowledgeVars => [Enters]_knowledgeVars
  BY <1>1
<1> QED BY <1>2, KnowledgeInvariant, PTL DEF KnowledgeSpec, DeletedStaysDeleted

-----------------------------------------------------------------------------
(***************************************************************************)
(* The event log: a query runs into any number of rotations.               *)
(***************************************************************************)
ExportsAt(steps) == [next : steps, index : 0 .. KeepLogs - 1]

LogTypeOK ==
  /\ logFile \in [LogFiles -> SUBSET Events]
  /\ logExport \in [Events -> ExportsAt({"unpublished", "look", "rename", "append", "done"})]
  /\ logQuery \in [file : 0 .. KeepLogs + 1, running : BOOLEAN, found : SUBSET Events, due : SUBSET Events,
                   ended : BOOLEAN]

\* An event in a file has been exported, and is not exported again.
LoggedOnce == \A i \in LogFiles : \A e \in logFile[i] : logExport[e].next = "done"

\* Renaming moves events away from what the query has read, never into it.
AheadOfQuery ==
  /\ \A e \in logQuery.due : logExport[e].next = "done"
  /\ \A i \in LogFiles : \A e \in logQuery.due \cap logFile[i] : e \in logQuery.found \/ logQuery.file <= i
  /\ logQuery.running => logQuery.file <= KeepLogs
  /\ logQuery.ended => logQuery.file = KeepLogs + 1

LogInv == LogTypeOK /\ LoggedOnce /\ AheadOfQuery

LEMMA ExportTyped ==
  \A next, steps : next \in steps => \A i \in 0 .. KeepLogs - 1 : ExportAt(next, i) \in ExportsAt(steps)
BY DEF ExportAt, ExportsAt

LEMMA LogInitially == LogInit => LogInv
BY LogAssumption DEF LogInit, LogInv, LogTypeOK, LoggedOnce, AheadOfQuery, LogFiles, ExportAt, ExportsAt, NoQuery

LEMMA LogStep == ASSUME LogInv, [LogNext]_logVars PROVE LogInv'
<1> USE LogAssumption DEF LogInv
<1>1. ASSUME NEW e \in Events, Publish(e) \/ LookAtSize(e) \/ ExportFails(e) PROVE LogInv'
  <2>1. PICK x \in ExportsAt({"look", "rename", "append", "done"}) : logExport' = [logExport EXCEPT ![e] = x]
    <3>1. 0 \in 0 .. KeepLogs - 1 /\ KeepLogs - 1 \in 0 .. KeepLogs - 1
      OBVIOUS
    <3>2. \E next \in {"look", "rename", "append", "done"}, i \in 0 .. KeepLogs - 1 :
            logExport' = [logExport EXCEPT ![e] = ExportAt(next, i)]
      BY <1>1, <3>1 DEF Publish, LookAtSize, ExportFails
    <3> QED BY <3>2, ExportTyped
  <2>2. UNCHANGED <<logFile, logQuery>> /\ logExport[e].next # "done"
    BY <1>1 DEF Publish, LookAtSize, ExportFails
  <2>3. LogTypeOK'
    BY <2>1, <2>2 DEF LogTypeOK, ExportsAt
  <2>4. \A d \in Events : logExport[d].next = "done" => logExport'[d] = logExport[d]
    BY <2>1, <2>2 DEF LogTypeOK
  <2> QED BY <2>2, <2>3, <2>4 DEF LogTypeOK, LoggedOnce, AheadOfQuery
<1>2. ASSUME NEW e \in Events, RenameNext(e) PROVE LogInv'
  <2> DEFINE i == logExport[e].index
  <2>1. /\ logExport[e].next = "rename" /\ logQuery' = logQuery
        /\ i \in 0 .. KeepLogs - 1 /\ i \in LogFiles /\ i + 1 \in LogFiles /\ i + 1 # i
    BY <1>2 DEF RenameNext, LogTypeOK, LogFiles, ExportsAt
  <2>2. PICK x \in ExportsAt({"rename", "append"}) : logExport' = [logExport EXCEPT ![e] = x]
    <3>1. 0 \in 0 .. KeepLogs - 1 /\ (i # 0 => i - 1 \in 0 .. KeepLogs - 1)
      BY <2>1
    <3>2. \E next \in {"rename", "append"}, j \in 0 .. KeepLogs - 1 :
            logExport' = [logExport EXCEPT ![e] = ExportAt(next, j)]
      BY <1>2, <3>1 DEF RenameNext
    <3> QED BY <3>2, ExportTyped
  <2>3. \A d \in Events : logExport[d].next = "done" => logExport'[d] = logExport[d]
    BY <2>1, <2>2 DEF LogTypeOK
  <2>4. /\ logFile' \in [LogFiles -> SUBSET Events]
        /\ \A j \in LogFiles : logFile'[j] \subseteq logFile[j] \/ (j = i + 1 /\ logFile'[j] \subseteq logFile[i])
    <3>1. logFile' = logFile \/ logFile' = [logFile EXCEPT ![i + 1] = logFile[i], ![i] = {}]
      BY <1>2 DEF RenameNext
    <3>2. logFile \in [LogFiles -> SUBSET Events]
      BY DEF LogTypeOK
    <3> HIDE DEF i
    <3>3. CASE logFile' = [logFile EXCEPT ![i + 1] = logFile[i], ![i] = {}]
      <4> DEFINE f == [logFile EXCEPT ![i + 1] = logFile[i]]
      <4>1. f \in [LogFiles -> SUBSET Events] /\ f[i + 1] = logFile[i]
        BY <2>1, <3>2
      <4>2. \A j \in LogFiles : j # i + 1 => f[j] = logFile[j]
        BY <3>2
      <4>3. logFile' = [f EXCEPT ![i] = {}]
        BY <3>3
      <4> HIDE DEF f
      <4> QED BY <4>1, <4>2, <4>3
    <3>4. CASE logFile' = logFile
      BY <3>2, <3>4
    <3> QED BY <3>1, <3>3, <3>4
  <2> HIDE DEF i
  <2>5. LogTypeOK'
    BY <2>1, <2>2, <2>4 DEF LogTypeOK, ExportsAt
  <2>6. LoggedOnce'
    BY <2>1, <2>3, <2>4 DEF LogTypeOK, LoggedOnce
  <2>7. ASSUME NEW j \in LogFiles, NEW d \in logQuery.due \cap logFile'[j]
        PROVE  d \in logQuery.found \/ logQuery.file <= j
    <3>1. CASE d \in logFile[j]
      BY <2>7, <3>1 DEF AheadOfQuery
    <3>2. CASE j = i + 1 /\ d \in logFile[i]
      <4>1. d \in logQuery.found \/ logQuery.file <= i
        BY <2>1, <2>7, <3>2 DEF AheadOfQuery
      <4>2. logQuery.file \in Nat /\ i \in Nat
        BY <2>1 DEF LogTypeOK
      <4> QED BY <3>2, <4>1, <4>2
    <3> QED BY <2>4, <2>7, <3>1, <3>2
  <2>8. AheadOfQuery'
    BY <2>1, <2>3, <2>7 DEF AheadOfQuery, LogTypeOK
  <2> QED BY <2>5, <2>6, <2>8
<1>3. ASSUME NEW e \in Events, AppendLine(e) PROVE LogInv'
  <2>1. /\ logExport[e].next = "append" /\ 0 \in LogFiles /\ logQuery' = logQuery
        /\ logFile' = [logFile EXCEPT ![0] = logFile[0] \cup {e}]
        /\ logExport' = [logExport EXCEPT ![e] = ExportAt("done", 0)]
        /\ ExportAt("done", 0) \in ExportsAt({"done"}) /\ ExportAt("done", 0).next = "done"
    BY <1>3 DEF AppendLine, LogFiles, ExportAt, ExportsAt
  <2>2. LogTypeOK'
    BY <2>1 DEF LogTypeOK, ExportsAt
  <2>3. \A d \in Events : logExport[d].next = "done" \/ d = e => logExport'[d].next = "done"
    BY <2>1 DEF LogTypeOK
  <2>4. \A j \in LogFiles : logFile'[j] \subseteq logFile[j] \cup {e} /\ logFile[j] \subseteq Events
    BY <2>1 DEF LogTypeOK
  <2>5. e \notin logQuery.due
    BY <2>1 DEF AheadOfQuery
  <2>6. LoggedOnce'
    <3> SUFFICES ASSUME NEW i \in LogFiles, NEW d \in logFile'[i] PROVE logExport'[d].next = "done"
      BY DEF LoggedOnce
    <3>1. d \in Events /\ (d \in logFile[i] \/ d = e)
      BY <2>4
    <3> QED BY <2>3, <3>1 DEF LoggedOnce
  <2>7. AheadOfQuery'
    BY <2>1, <2>3, <2>4, <2>5 DEF LogTypeOK, AheadOfQuery
  <2> QED BY <2>2, <2>6, <2>7
<1>4. CASE StartQuery
  <2>1. /\ UNCHANGED <<logFile, logExport>>
        /\ logQuery' = [file |-> 0, running |-> TRUE, found |-> {}, due |-> Logged, ended |-> FALSE]
    BY <1>4 DEF StartQuery, NoQuery
  <2>2. \A e \in Logged : e \in Events /\ logExport[e].next = "done"
    <3> SUFFICES ASSUME NEW e \in Logged PROVE e \in Events /\ logExport[e].next = "done"
      OBVIOUS
    <3>1. PICK i \in LogFiles : e \in logFile[i]
      BY DEF Logged
    <3> QED BY <3>1 DEF LogTypeOK, LoggedOnce
  <2> QED BY <2>1, <2>2 DEF LogTypeOK, LoggedOnce, AheadOfQuery, LogFiles
<1>5. CASE ReadNextLog
  <2> DEFINE n == logQuery.file
  <2>1. /\ UNCHANGED <<logFile, logExport>> /\ n \in LogFiles
        /\ n \in 0 .. KeepLogs
    BY <1>5 DEF ReadNextLog, LogTypeOK, AheadOfQuery, LogFiles
  <2>2. logQuery' = [file |-> n + 1, running |-> n < KeepLogs, found |-> logQuery.found \cup logFile[n],
                     due |-> logQuery.due, ended |-> n = KeepLogs]
    BY <1>5 DEF ReadNextLog, LogTypeOK, NthRead
  <2>3. LogTypeOK'
    BY <2>1, <2>2 DEF LogTypeOK
  <2>4. \A i \in LogFiles : n <= i => i = n \/ n + 1 <= i
    BY <2>1 DEF LogFiles
  <2> HIDE DEF n
  <2>5. \A i \in LogFiles : \A e \in logQuery.due \cap logFile[i] : e \in logQuery.found \cup logFile[n] \/ n + 1 <= i
    BY <2>4 DEF AheadOfQuery, n
  <2>6. AheadOfQuery'
    <3>1. /\ logQuery'.due = logQuery.due /\ logQuery'.file = n + 1
          /\ logQuery'.found = logQuery.found \cup logFile[n]
          /\ (logQuery'.running <=> n < KeepLogs) /\ (logQuery'.ended <=> n = KeepLogs)
      BY <2>2
    <3>2. n \in Nat /\ (n < KeepLogs => n + 1 <= KeepLogs)
      BY <2>1
    <3> QED BY <2>1, <2>5, <3>1, <3>2 DEF AheadOfQuery
  <2> QED BY <2>1, <2>3, <2>6 DEF LoggedOnce
<1>6. CASE UNCHANGED logVars
  BY <1>6 DEF logVars, LogTypeOK, LoggedOnce, AheadOfQuery
<1> QED BY <1>1, <1>2, <1>3, <1>4, <1>5, <1>6 DEF LogNext

(***************************************************************************)
(* queryByRequestId finds every event that was in the files when it began  *)
(* and still is when it ends, for any number of exports and of rotated     *)
(* files: renaming walks the way the query walks.                          *)
(***************************************************************************)
THEOREM LogQueryMissesNothing == LogSpec => []QueryMissesNothing
<1>1. LogInv => QueryMissesNothing
  <2> SUFFICES ASSUME LogInv, logQuery.ended, NEW e \in logQuery.due \cap Logged
               PROVE  e \in logQuery.found
    BY DEF QueryMissesNothing
  <2>1. PICK i \in LogFiles : e \in logFile[i]
    BY DEF Logged
  <2>2. ~(logQuery.file <= i)
    BY LogAssumption DEF LogInv, AheadOfQuery, LogFiles
  <2> QED BY <2>1, <2>2 DEF LogInv, AheadOfQuery
<1>2. LogInv /\ [LogNext]_logVars => LogInv'
  BY LogStep
<1> QED BY <1>1, <1>2, LogInitially, PTL DEF LogSpec
-----------------------------------------------------------------------------
(***************************************************************************)
(* The memories: refreshes and clears overlap.                             *)
(***************************************************************************)
\* Entries of t come from different places of s.
TakenFrom(t, s) ==
  /\ Len(t) <= Len(s)
  /\ \E place \in [DOMAIN t -> DOMAIN s] :
       /\ \A i \in DOMAIN t : t[i] = s[place[i]]
       /\ \A i, j \in DOMAIN t : place[i] = place[j] => i = j

LEMMA ClearedIs ==
  ASSUME NEW S, NEW s \in Seq(S), NEW persona
  PROVE  Cleared(s, persona) \in Seq(S) /\ TakenFrom(Cleared(s, persona), s)
<1> DEFINE kept == {i \in DOMAIN s : s[i].persona # persona}
           t == Filtered(s, kept)
<1>1. kept \subseteq DOMAIN s /\ t = Cleared(s, persona)
  BY DEF Cleared
<1> HIDE DEF kept, t
<1>2. t \in Seq(S) /\ Len(t) <= Len(s) /\ \E place \in [DOMAIN t -> kept] : Picks(place, s, kept, t)
  BY <1>1, FilteredIs DEF t
<1>3. PICK place \in [DOMAIN t -> kept] : Picks(place, s, kept, t)
  BY <1>2
<1>4. place \in [DOMAIN t -> DOMAIN s]
  BY <1>1
<1>5. ASSUME NEW i \in DOMAIN t, NEW j \in DOMAIN t, place[i] = place[j] PROVE i = j
  <2>1. DOMAIN t = 1 .. Len(t) /\ DOMAIN s = 1 .. Len(s)
    BY <1>2, LenProperties
  <2>2. i \in Nat /\ j \in Nat /\ place[i] \in Nat
    BY <1>4, <2>1
  <2>3. ~(i < j) /\ ~(j < i)
    BY <1>3, <1>5, <2>2 DEF Picks
  <2> QED BY <2>2, <2>3
<1>6. \A i \in DOMAIN t : t[i] = s[place[i]]
  BY <1>3 DEF Picks
<1>7. TakenFrom(t, s)
  BY <1>2, <1>4, <1>5, <1>6 DEF TakenFrom
<1> QED BY <1>1, <1>2, <1>7

\* The summaries a conversation of lens[t] messages can have given.
CastOf(t) == IF t \in Talks THEN Range(MemoryCast[t]) ELSE {}
Persons == UNION {CastOf(t) : t \in Talks}
Possible == {m \in [persona : Persons, talk : Talks, count : Nat] :
               m.persona \in CastOf(m.talk) /\ UpdateStep <= m.count}
Within(lens) == {m \in Possible : m.count <= lens[m.talk]}
Outgrown(count) == {m \in Possible \cup {NoSummary} : Stale(m, count)}

OnePerPersona(store) == \A i, j \in DOMAIN store : store[i].persona = store[j].persona => i = j

Refreshing == {"checking", "generating", "saving"}
RequestRecords(t) ==
  [at : Refreshing \cup {"idle", "skipped", "updated", "clearing", "cleared", "failed"}, talk : {t}, count : Nat,
   todo : Seq(CastOf(t)), stale : Seq(CastOf(t)), seen : Seq(Possible \cup {NoSummary})]

RequestCorrect(op, lens) ==
  /\ op \in RequestRecords(op.talk)
  /\ op.at \in Refreshing =>
       /\ op.talk \in Talks /\ UpdateStep <= op.count /\ op.count <= lens[op.talk]
       /\ op.seen \in Seq(Outgrown(op.count)) /\ Len(op.seen) = Len(op.stale)
  /\ op.at \in {"checking", "clearing"} => op.todo # <<>>
  /\ op.at \in {"generating", "saving"} => op.stale # <<>>

MemInv ==
  /\ talkLen \in [Talks -> Nat]
  /\ memories \in Seq(Within(talkLen)) /\ OnePerPersona(memories) /\ Len(memories) <= MaxSummaries
  /\ DOMAIN memoryOp = MemoryOps /\ memoryOp = [o \in MemoryOps |-> memoryOp[o]]
  /\ \A o \in MemoryOps : RequestCorrect(memoryOp[o], talkLen)

LEMMA TakenStaysUnique ==
  ASSUME NEW S, NEW T, NEW s \in Seq(S), NEW t \in Seq(T), TakenFrom(t, s), OnePerPersona(s)
  PROVE  OnePerPersona(t)
<1>1. PICK place \in [DOMAIN t -> DOMAIN s] :
         /\ \A i \in DOMAIN t : t[i] = s[place[i]]
         /\ \A i, j \in DOMAIN t : place[i] = place[j] => i = j
  BY DEF TakenFrom
<1> SUFFICES ASSUME NEW i \in DOMAIN t, NEW j \in DOMAIN t, t[i].persona = t[j].persona PROVE i = j
  BY DEF OnePerPersona
<1>2. s[place[i]].persona = s[place[j]].persona /\ place[i] \in DOMAIN s /\ place[j] \in DOMAIN s
  BY <1>1
<1> QED BY <1>1, <1>2 DEF OnePerPersona

\* The file says this of the persona, and nothing else.
Says(store, summary) ==
  /\ \E i \in DOMAIN store : store[i].persona = summary.persona
  /\ \A i \in DOMAIN store : store[i].persona = summary.persona => store[i] = summary

LEMMA UpsertedIs ==
  ASSUME NEW S, NEW s \in Seq(S), NEW summary \in S, OnePerPersona(s), Len(s) <= MaxSummaries,
         NEW t, t = Upserted(s, summary)
  PROVE  t \in Seq(S) /\ OnePerPersona(t) /\ Len(t) <= MaxSummaries /\ Says(t, summary)
<1>1. Len(s) \in Nat /\ DOMAIN s = 1 .. Len(s) /\ \A i \in 1 .. Len(s) : s[i] \in S
  BY LenProperties, ElementOfSeq
<1>2. MaxSummaries \in Nat \ {0}
  BY MemoryAssumption
<1>3. CASE \E i \in DOMAIN s : s[i].persona = summary.persona
  <2>1. t = [i \in 1 .. Len(s) |-> IF s[i].persona = summary.persona THEN summary ELSE s[i]]
    BY <1>1, <1>3 DEF Upserted
  <2>2. t \in [1 .. Len(s) -> S]
    BY <1>1, <2>1
  <2>3. t \in Seq(S)
    BY <1>1, <2>2, SeqDef
  <2>4. Len(t) = Len(s) /\ DOMAIN t = 1 .. Len(s)
    BY <1>1, <2>2, <2>3, LenProperties
  <2>5. \A i \in DOMAIN t : t[i].persona = s[i].persona /\ (t[i].persona = summary.persona => t[i] = summary)
    BY <2>1, <2>4
  <2>6. OnePerPersona(t)
    BY <1>1, <2>4, <2>5 DEF OnePerPersona
  <2>7. \E i \in DOMAIN t : t[i].persona = summary.persona
    BY <1>1, <1>3, <2>4, <2>5
  <2> QED BY <2>3, <2>4, <2>5, <2>6, <2>7 DEF Says
<1>4. CASE \A i \in DOMAIN s : s[i].persona # summary.persona
  <2> DEFINE u == IF Len(s) >= MaxSummaries THEN Tail(s) ELSE s
  <2>1. /\ u \in Seq(S) /\ Len(u) \in Nat /\ Len(u) + 1 <= MaxSummaries /\ DOMAIN u = 1 .. Len(u)
        /\ \E d \in {0, 1} : Len(u) + d = Len(s) /\ \A i \in 1 .. Len(u) : u[i] = s[i + d]
    <3>1. CASE Len(s) >= MaxSummaries
      <4>1. s # <<>>
        BY <1>1, <1>2, <3>1, EmptySeq
      <4>2. Tail(s) \in Seq(S) /\ Len(Tail(s)) = Len(s) - 1 /\ \A i \in 1 .. Len(Tail(s)) : Tail(s)[i] = s[i + 1]
        BY <4>1, HeadTailProperties
      <4>3. DOMAIN Tail(s) = 1 .. Len(Tail(s)) /\ Len(Tail(s)) \in Nat
        BY <4>2, LenProperties
      <4> QED BY <1>1, <1>2, <3>1, <4>2, <4>3
    <3>2. CASE ~(Len(s) >= MaxSummaries)
      BY <1>1, <1>2, <3>2
    <3> QED BY <3>1, <3>2
  <2>2. t = Append(u, summary)
    BY <1>4 DEF Upserted
  <2> HIDE DEF u
  <2>3. /\ t \in Seq(S) /\ Len(t) = Len(u) + 1 /\ t[Len(u) + 1] = summary
        /\ \A i \in 1 .. Len(u) : t[i] = u[i]
    BY <2>1, <2>2, AppendProperties
  <2>4. DOMAIN t = 1 .. (Len(u) + 1)
    BY <2>3, LenProperties
  <2>5. PICK d \in {0, 1} : Len(u) + d = Len(s) /\ \A i \in 1 .. Len(u) : u[i] = s[i + d]
    BY <2>1
  <2>6. \A i \in 1 .. Len(u) : t[i] = s[i + d] /\ i + d \in DOMAIN s
    BY <1>1, <2>1, <2>3, <2>5
  <2>7. \A i \in DOMAIN t : t[i].persona = summary.persona => i = Len(u) + 1
    <3>1. \A i \in 1 .. Len(u) : t[i].persona # summary.persona
      BY <1>4, <2>6
    <3> QED BY <2>1, <2>4, <3>1
  <2>8. OnePerPersona(t)
    <3> SUFFICES ASSUME NEW i \in DOMAIN t, NEW j \in DOMAIN t, t[i].persona = t[j].persona PROVE i = j
      BY DEF OnePerPersona
    <3>1. CASE i = Len(u) + 1 \/ j = Len(u) + 1
      BY <2>3, <2>7, <3>1
    <3>2. CASE i # Len(u) + 1 /\ j # Len(u) + 1
      <4>1. i \in 1 .. Len(u) /\ j \in 1 .. Len(u)
        BY <2>1, <2>4, <3>2
      <4>2. s[i + d].persona = s[j + d].persona /\ i + d \in DOMAIN s /\ j + d \in DOMAIN s
        BY <2>6, <4>1
      <4>3. i + d = j + d
        BY <4>2 DEF OnePerPersona
      <4> QED BY <2>1, <4>1, <4>3
    <3> QED BY <3>1, <3>2
  <2>9. Len(u) + 1 \in DOMAIN t
    BY <2>1, <2>4
  <2> QED BY <2>1, <2>3, <2>7, <2>8, <2>9 DEF Says
<1> QED BY <1>3, <1>4

\* What the file says of a persona.
LEMMA MemoryOfIs ==
  ASSUME NEW S, NEW s \in Seq(S), NEW persona
  PROVE  /\ MemoryOf(s, persona) \in S \cup {NoSummary}
         /\ \A summary : summary.persona = persona /\ Says(s, summary) => MemoryOf(s, persona) = summary
<1>1. \A i \in DOMAIN s : s[i] \in S
  BY LenProperties, ElementOfSeq
<1>2. CASE \E i \in DOMAIN s : s[i].persona = persona
  <2> DEFINE k == CHOOSE i \in DOMAIN s : s[i].persona = persona
  <2>1. k \in DOMAIN s /\ s[k].persona = persona
    BY <1>2
  <2>2. MemoryOf(s, persona) = s[k]
    BY <1>2 DEF MemoryOf
  <2> HIDE DEF k
  <2> QED BY <1>1, <2>1, <2>2 DEF Says
<1>3. CASE ~\E i \in DOMAIN s : s[i].persona = persona
  BY <1>3 DEF MemoryOf, Says
<1> QED BY <1>2, <1>3

LEMMA SavedIsFound ==
  ASSUME NEW S, NEW s \in Seq(S), NEW summary \in S, OnePerPersona(s), Len(s) <= MaxSummaries
  PROVE  MemoryOf(Upserted(s, summary), summary.persona) = summary
<1>1. PICK t : t = Upserted(s, summary)
  OBVIOUS
<1>2. t \in Seq(S)
  BY <1>1, UpsertedIs
<1>3. Says(t, summary)
  BY <1>1, UpsertedIs
<1> QED BY <1>1, <1>2, <1>3, MemoryOfIs

LEMMA CastTyped ==
  \A t \in Talks : MemoryCast[t] \in Seq(CastOf(t)) /\ CastOf(t) \subseteq Persons /\ CastOf(t) = Range(MemoryCast[t])
BY MemoryAssumption DEF CastOf, Persons

\* A step of one request leaves the others as they are.
LEMMA RequestStep ==
  ASSUME MemInv, NEW o \in MemoryOps, NEW next, memoryOp' = [memoryOp EXCEPT ![o] = next],
         RequestCorrect(next, talkLen), talkLen' = talkLen,
         memories' \in Seq(Within(talkLen)), OnePerPersona(memories'), Len(memories') <= MaxSummaries
  PROVE  MemInv'
<1>1. DOMAIN memoryOp' = MemoryOps /\ memoryOp' = [p \in MemoryOps |-> memoryOp'[p]]
  BY DEF MemInv
<1>2. \A p \in MemoryOps : RequestCorrect(memoryOp'[p], talkLen)
  BY DEF MemInv
<1> QED BY <1>1, <1>2 DEF MemInv

LEMMA MoreTalk ==
  ASSUME MemInv, NEW t \in Talks, Talk(t)
  PROVE  MemInv'
<1>1. talkLen' \in [Talks -> Nat] /\ \A u \in Talks : talkLen[u] \in Nat /\ talkLen[u] <= talkLen'[u]
  BY DEF Talk, MemInv
<1>2. Within(talkLen) \subseteq Within(talkLen')
  BY <1>1 DEF Within, Possible
<1>3. memories' \in Seq(Within(talkLen'))
  BY <1>2, SeqMonotonic DEF MemInv, Talk
<1>4. ASSUME NEW o \in MemoryOps PROVE RequestCorrect(memoryOp'[o], talkLen')
  <2>1. RequestCorrect(memoryOp[o], talkLen) /\ memoryOp' = memoryOp
    BY DEF MemInv, Talk
  <2>2. memoryOp[o].at \in Refreshing => memoryOp[o].count \in Nat /\ memoryOp[o].count <= talkLen'[memoryOp[o].talk]
    <3>1. memoryOp[o].count \in Nat
      BY <2>1 DEF RequestCorrect, RequestRecords
    <3>2. memoryOp[o].at \in Refreshing => memoryOp[o].talk \in Talks /\ memoryOp[o].count <= talkLen[memoryOp[o].talk]
      BY <2>1 DEF RequestCorrect
    <3> QED BY <1>1, <3>1, <3>2
  <2> QED BY <2>1, <2>2 DEF RequestCorrect
<1> QED BY <1>1, <1>3, <1>4 DEF MemInv, Talk

\* What a request starts as.
LEMMA StartsCorrect ==
  ASSUME MemInv, NEW t \in Talks,
         NEW at \in {"checking", "clearing", "skipped", "cleared"}, NEW count \in Nat,
         at = "checking" => UpdateStep <= count /\ count <= talkLen[t],
         at \in {"checking", "clearing"} => MemoryCast[t] # <<>>,
         NEW op,
         \/ op = [IdleMemoryOp EXCEPT !.at = at, !.talk = t, !.count = count, !.todo = MemoryCast[t]]
         \/ op = [IdleMemoryOp EXCEPT !.at = at, !.talk = t, !.todo = MemoryCast[t]] /\ count = 0
  PROVE  RequestCorrect(op, talkLen)
<1>1. <<>> \in Seq(CastOf(t)) /\ <<>> \in Seq(Possible \cup {NoSummary}) /\ <<>> \in Seq(Outgrown(count))
  BY EmptySeq
<1>2. op \in RequestRecords(t)
  BY <1>1, CastTyped DEF RequestRecords, Refreshing, IdleMemoryOp
<1>3. op.at = at /\ op.talk = t /\ op.count = count /\ op.todo = MemoryCast[t] /\ op.stale = <<>> /\ op.seen = <<>>
  BY DEF IdleMemoryOp
<1> QED BY <1>1, <1>2, <1>3 DEF RequestCorrect, Refreshing

LEMMA StartRefreshKeeps ==
  ASSUME MemInv, NEW o \in MemoryOps, StartRefresh(o)
  PROVE  MemInv'
<1>1. PICK t \in Talks : memoryOp' = [memoryOp EXCEPT ![o] =
         [IdleMemoryOp EXCEPT !.at = IF talkLen[t] < UpdateStep \/ MemoryCast[t] = <<>> THEN "skipped" ELSE "checking",
                      !.talk = t, !.count = talkLen[t], !.todo = MemoryCast[t]]]
  BY DEF StartRefresh
<1>2. PICK at : at = IF talkLen[t] < UpdateStep \/ MemoryCast[t] = <<>> THEN "skipped" ELSE "checking"
  OBVIOUS
<1>3. PICK count : count = talkLen[t]
  OBVIOUS
<1>4. /\ count \in Nat /\ at \in {"checking", "skipped"}
      /\ at = "checking" => UpdateStep <= count /\ MemoryCast[t] # <<>>
  <2>1. talkLen[t] \in Nat /\ UpdateStep \in Nat
    BY MemoryAssumption DEF MemInv
  <2> QED BY <1>2, <1>3, <2>1
<1>5. PICK next : next = [IdleMemoryOp EXCEPT !.at = at, !.talk = t, !.count = count, !.todo = MemoryCast[t]]
  OBVIOUS
<1>6. RequestCorrect(next, talkLen)
  <2>1. /\ at = "checking" => UpdateStep <= count /\ count <= talkLen[t]
        /\ at \in {"checking", "clearing"} => MemoryCast[t] # <<>>
    BY <1>3, <1>4
  <2> QED BY <1>4, <1>5, <2>1, StartsCorrect
<1>7. memoryOp' = [memoryOp EXCEPT ![o] = next]
  BY <1>1, <1>2, <1>3, <1>5
<1> QED BY <1>6, <1>7, RequestStep DEF StartRefresh, MemInv

LEMMA StartClearKeeps ==
  ASSUME MemInv, NEW o \in MemoryOps, StartClear(o)
  PROVE  MemInv'
<1>1. PICK t \in Talks : memoryOp' = [memoryOp EXCEPT ![o] =
         [IdleMemoryOp EXCEPT !.at = IF MemoryCast[t] = <<>> THEN "cleared" ELSE "clearing",
                      !.talk = t, !.todo = MemoryCast[t]]]
  BY DEF StartClear
<1>2. PICK at : at = IF MemoryCast[t] = <<>> THEN "cleared" ELSE "clearing"
  OBVIOUS
<1>3. PICK next : next = [IdleMemoryOp EXCEPT !.at = at, !.talk = t, !.todo = MemoryCast[t]]
  OBVIOUS
<1>4. RequestCorrect(next, talkLen)
  BY <1>2, <1>3, StartsCorrect
<1>5. memoryOp' = [memoryOp EXCEPT ![o] = next]
  BY <1>1, <1>2, <1>3
<1> QED BY <1>4, <1>5, RequestStep DEF StartClear, MemInv

LEMMA CheckNextKeeps ==
  ASSUME MemInv, NEW o \in MemoryOps, CheckNext(o)
  PROVE  MemInv'
<1>1. PICK op : op = memoryOp[o]
  OBVIOUS
<1>2. PICK existing : existing = MemoryOf(memories, Head(op.todo))
  OBVIOUS
<1>3. PICK stale \in BOOLEAN : stale = Stale(existing, op.count)
  BY DEF Stale
<1>4. PICK todo, found, seen, at :
        /\ todo = Tail(op.todo)
        /\ found = IF stale THEN Append(op.stale, Head(op.todo)) ELSE op.stale
        /\ seen = IF stale THEN Append(op.seen, existing) ELSE op.seen
        /\ at = IF todo # <<>> THEN op.at ELSE IF stale \/ op.stale # <<>> THEN "generating" ELSE "skipped"
  OBVIOUS
<1>5. PICK next : next = [op EXCEPT !.todo = todo, !.stale = found, !.seen = seen, !.at = at]
  OBVIOUS
<1>6. op.at = "checking" /\ memoryOp' = [memoryOp EXCEPT ![o] = next]
  BY <1>1, <1>2, <1>3, <1>4, <1>5 DEF CheckNext
<1>7. RequestCorrect(op, talkLen)
  BY <1>1 DEF MemInv
<1> DEFINE C == CastOf(op.talk)
           P == Possible \cup {NoSummary}
           G == Outgrown(op.count)
<1>8. /\ op \in RequestRecords(op.talk) /\ op.todo \in Seq(C) /\ op.stale \in Seq(C) /\ op.count \in Nat
      /\ op.todo # <<>> /\ op.talk \in Talks /\ UpdateStep <= op.count /\ op.count <= talkLen[op.talk]
      /\ op.seen \in Seq(G) /\ Len(op.seen) = Len(op.stale)
  BY <1>6, <1>7 DEF RequestCorrect, RequestRecords, Refreshing
<1> HIDE DEF C, P, G
<1>9. Head(op.todo) \in C /\ todo \in Seq(C)
  BY <1>4, <1>8, HeadTailProperties
<1>10. existing \in P
  <2>1. memories \in Seq(Within(talkLen)) /\ Within(talkLen) \subseteq Possible
    BY DEF MemInv, Within
  <2> QED BY <1>2, <2>1, MemoryOfIs DEF P
<1>11. stale => existing \in G
  BY <1>3, <1>10 DEF G, P, Outgrown
<1>12. found \in Seq(C) /\ seen \in Seq(G) /\ Len(seen) = Len(found)
  BY <1>4, <1>8, <1>9, <1>11, AppendProperties
<1>13. stale \/ op.stale # <<>> => found # <<>>
  BY <1>4, <1>8, <1>9, AppendProperties
<1>14. seen \in Seq(P)
  BY <1>12, SeqMonotonic DEF G, P, Outgrown
<1>15. next.todo = todo /\ next.stale = found /\ next.seen = seen /\ next.at = at /\ next.talk = op.talk /\ next.count = op.count
  BY <1>5, <1>8 DEF RequestRecords
<1>16. at \in {"checking", "generating", "skipped"}
  BY <1>4, <1>6
<1>17. next \in RequestRecords(op.talk)
  BY <1>5, <1>8, <1>9, <1>12, <1>14, <1>16 DEF RequestRecords, C, P, Refreshing
<1>18. RequestCorrect(next, talkLen)
  BY <1>4, <1>6, <1>8, <1>12, <1>13, <1>15, <1>16, <1>17 DEF RequestCorrect, Refreshing, G
<1> QED BY <1>6, <1>18, RequestStep DEF CheckNext, MemInv

LEMMA GenerateKeeps ==
  ASSUME MemInv, NEW o \in MemoryOps, Generate(o) \/ AbandonMemoryOp(o)
  PROVE  MemInv'
<1>1. PICK op : op = memoryOp[o]
  OBVIOUS
<1>2. PICK at \in {"saving", "failed"} : /\ memoryOp' = [memoryOp EXCEPT ![o].at = at]
                                         /\ at = "saving" => op.at = "generating"
  BY <1>1 DEF Generate, AbandonMemoryOp
<1>3. PICK next : next = [op EXCEPT !.at = at]
  OBVIOUS
<1>4. memoryOp' = [memoryOp EXCEPT ![o] = next]
  BY <1>1, <1>2, <1>3
<1>5. RequestCorrect(op, talkLen)
  BY <1>1 DEF MemInv
<1>6. /\ next.at = at /\ next.talk = op.talk /\ next.count = op.count /\ next.stale = op.stale /\ next.seen = op.seen
      /\ next \in RequestRecords(op.talk)
  BY <1>3, <1>5 DEF RequestCorrect, RequestRecords, Refreshing
<1>7. RequestCorrect(next, talkLen)
  BY <1>2, <1>5, <1>6 DEF RequestCorrect, Refreshing
<1> QED BY <1>4, <1>7, RequestStep DEF Generate, AbandonMemoryOp, MemInv

LEMMA SaveNextKeeps ==
  ASSUME MemInv, NEW o \in MemoryOps, SaveNext(o)
  PROVE  MemInv'
<1>1. PICK op : op = memoryOp[o]
  OBVIOUS
<1>2. PICK stale, seen, at :
        stale = Tail(op.stale) /\ seen = Tail(op.seen) /\ at = IF Len(op.stale) = 1 THEN "updated" ELSE op.at
  OBVIOUS
<1>3. PICK next : next = [op EXCEPT !.stale = stale, !.seen = seen, !.at = at]
  OBVIOUS
<1>4. /\ op.at = "saving" /\ memoryOp' = [memoryOp EXCEPT ![o] = next] /\ talkLen' = talkLen
      /\ memories' = Upserted(memories, Summary(Head(op.stale), op.talk, op.count))
  BY <1>1, <1>2, <1>3 DEF SaveNext
<1>5. RequestCorrect(op, talkLen)
  BY <1>1 DEF MemInv
<1> DEFINE C == CastOf(op.talk)
           G == Outgrown(op.count)
<1>6. /\ op \in RequestRecords(op.talk) /\ op.stale \in Seq(C) /\ op.count \in Nat
      /\ op.stale # <<>> /\ op.talk \in Talks /\ UpdateStep <= op.count /\ op.count <= talkLen[op.talk]
      /\ op.seen \in Seq(G) /\ Len(op.seen) = Len(op.stale)
  BY <1>4, <1>5 DEF RequestCorrect, RequestRecords, Refreshing
<1> HIDE DEF C, G
<1>7. Len(op.stale) \in Nat \ {0} /\ op.seen # <<>>
  BY <1>6, EmptySeq
<1>8. Head(op.stale) \in C /\ stale \in Seq(C) /\ Len(stale) = Len(op.stale) - 1
  BY <1>2, <1>6, HeadTailProperties
<1>9. seen \in Seq(G) /\ Len(seen) = Len(op.seen) - 1
  BY <1>2, <1>6, <1>7, HeadTailProperties
<1>10. seen \in Seq(Possible \cup {NoSummary})
  BY <1>9, SeqMonotonic DEF G, Outgrown
<1>11. /\ next.stale = stale /\ next.seen = seen /\ next.at = at /\ next.talk = op.talk /\ next.count = op.count
       /\ next.todo = op.todo
  BY <1>3, <1>6 DEF RequestRecords
<1>12. at \in {"saving", "updated"} /\ (at = "saving" => stale # <<>>)
  <2>1. Len(<<>>) = 0
    BY EmptySeq
  <2>2. Len(op.stale) # 1 => Len(stale) # 0
    BY <1>7, <1>8
  <2> QED BY <1>2, <1>4, <2>1, <2>2
<1>13. next \in RequestRecords(op.talk)
  BY <1>3, <1>6, <1>8, <1>10, <1>12 DEF RequestRecords, C, Refreshing
<1>14. Len(seen) = Len(stale)
  BY <1>6, <1>8, <1>9
<1>15. RequestCorrect(next, talkLen)
  BY <1>6, <1>8, <1>9, <1>11, <1>12, <1>13, <1>14 DEF RequestCorrect, Refreshing, G
<1>16. Summary(Head(op.stale), op.talk, op.count) \in Within(talkLen)
  <2>1. Head(op.stale) \in Persons
    BY <1>6, <1>8, CastTyped DEF C
  <2> QED BY <1>6, <1>8, <2>1 DEF Within, Possible, Summary, C
<1>17. memories' \in Seq(Within(talkLen)) /\ OnePerPersona(memories') /\ Len(memories') <= MaxSummaries
  <2>1. PICK store : store = memories'
    OBVIOUS
  <2>2. store = Upserted(memories, Summary(Head(op.stale), op.talk, op.count))
    BY <1>4, <2>1
  <2>3. store \in Seq(Within(talkLen)) /\ OnePerPersona(store) /\ Len(store) <= MaxSummaries
    BY <1>16, <2>2, UpsertedIs DEF MemInv
  <2> QED BY <2>1, <2>3
<1> QED BY <1>4, <1>15, <1>17, RequestStep

LEMMA ClearNextKeeps ==
  ASSUME MemInv, NEW o \in MemoryOps, ClearNext(o)
  PROVE  MemInv'
<1>1. PICK op : op = memoryOp[o]
  OBVIOUS
<1>2. PICK todo, at : todo = Tail(op.todo) /\ at = IF Len(op.todo) = 1 THEN "cleared" ELSE op.at
  OBVIOUS
<1>3. PICK next : next = [op EXCEPT !.todo = todo, !.at = at]
  OBVIOUS
<1>4. /\ op.at = "clearing" /\ memoryOp' = [memoryOp EXCEPT ![o] = next] /\ talkLen' = talkLen
      /\ memories' = Cleared(memories, Head(op.todo))
  BY <1>1, <1>2, <1>3 DEF ClearNext
<1>5. RequestCorrect(op, talkLen)
  BY <1>1 DEF MemInv
<1> DEFINE C == CastOf(op.talk)
<1>6. op \in RequestRecords(op.talk) /\ op.todo \in Seq(C) /\ op.todo # <<>>
  BY <1>4, <1>5 DEF RequestCorrect, RequestRecords
<1> HIDE DEF C
<1>7. Len(op.todo) \in Nat \ {0} /\ todo \in Seq(C) /\ Len(todo) = Len(op.todo) - 1
  BY <1>2, <1>6, EmptySeq, HeadTailProperties
<1>8. at \in {"clearing", "cleared"} /\ (at = "clearing" => todo # <<>>)
  <2>1. Len(<<>>) = 0
    BY EmptySeq
  <2>2. Len(op.todo) # 1 => Len(todo) # 0
    BY <1>7
  <2> QED BY <1>2, <1>4, <2>1, <2>2
<1>9. next.todo = todo /\ next.at = at /\ next.talk = op.talk /\ next \in RequestRecords(op.talk)
  BY <1>3, <1>6, <1>7, <1>8 DEF RequestRecords, C, Refreshing
<1>10. RequestCorrect(next, talkLen)
  BY <1>8, <1>9 DEF RequestCorrect, Refreshing
<1>11. memories' \in Seq(Within(talkLen)) /\ TakenFrom(memories', memories)
  BY <1>4, ClearedIs DEF MemInv
<1>12. OnePerPersona(memories')
  BY <1>11, TakenStaysUnique DEF MemInv
<1>13. Len(memories') <= MaxSummaries
  <2>1. Len(memories') \in Nat /\ Len(memories) \in Nat /\ Len(memories') <= Len(memories)
    BY <1>11, LenProperties DEF TakenFrom, MemInv
  <2> QED BY <2>1, MemoryAssumption DEF MemInv
<1> QED BY <1>4, <1>10, <1>11, <1>12, <1>13, RequestStep

LEMMA MemoryStep ==
  ASSUME MemInv, [MemoryNext]_memoryVars
  PROVE  MemInv'
<1>1. ASSUME NEW t \in Talks, Talk(t) PROVE MemInv'
  BY <1>1, MoreTalk
<1>2. ASSUME NEW o \in MemoryOps, StartRefresh(o) PROVE MemInv'
  BY <1>2, StartRefreshKeeps
<1>3. ASSUME NEW o \in MemoryOps, CheckNext(o) PROVE MemInv'
  BY <1>3, CheckNextKeeps
<1>4. ASSUME NEW o \in MemoryOps, Generate(o) \/ AbandonMemoryOp(o) PROVE MemInv'
  BY <1>4, GenerateKeeps
<1>5. ASSUME NEW o \in MemoryOps, SaveNext(o) PROVE MemInv'
  BY <1>5, SaveNextKeeps
<1>6. ASSUME NEW o \in MemoryOps, StartClear(o) PROVE MemInv'
  BY <1>6, StartClearKeeps
<1>7. ASSUME NEW o \in MemoryOps, ClearNext(o) PROVE MemInv'
  BY <1>7, ClearNextKeeps
<1>8. CASE UNCHANGED memoryVars
  BY <1>8 DEF memoryVars, MemInv
<1> QED BY <1>1, <1>2, <1>3, <1>4, <1>5, <1>6, <1>7, <1>8 DEF MemoryNext

LEMMA MemoryInvariant == MemorySpec => []MemInv
<1>1. MemoryInit => MemInv
  <2> SUFFICES ASSUME MemoryInit PROVE MemInv
    OBVIOUS
  <2>1. <<>> \in Seq(Within(talkLen)) /\ Len(<<>>) = 0 /\ OnePerPersona(<<>>)
    BY EmptySeq, LenProperties DEF OnePerPersona
  <2>2. RequestCorrect(IdleMemoryOp, talkLen)
    <3>1. /\ <<>> \in Seq(CastOf("none")) /\ <<>> \in Seq(Possible \cup {NoSummary})
      BY EmptySeq
    <3> QED BY <3>1 DEF RequestCorrect, RequestRecords, IdleMemoryOp, Refreshing
  <2> QED BY <2>1, <2>2, MemoryAssumption DEF MemoryInit, MemInv
<1>2. MemInv /\ [MemoryNext]_memoryVars => MemInv'
  BY MemoryStep
<1> QED BY <1>1, <1>2, PTL DEF MemorySpec

(***************************************************************************)
(* However refreshes and clears overlap, the file holds one summary per    *)
(* persona, of a conversation the persona is in and of messages that were  *)
(* there, never of fewer than the least number.                            *)
(***************************************************************************)
THEOREM MemoryConsistent == MemorySpec => []MemoriesConsistent
<1>1. MemInv => MemoriesConsistent
  <2> SUFFICES ASSUME MemInv PROVE MemoriesConsistent
    OBVIOUS
  <2>1. ASSUME NEW m \in Range(memories) PROVE m \in Within(talkLen)
    <3>1. PICK i \in DOMAIN memories : m = memories[i]
      BY <2>1 DEF Range
    <3>2. memories \in Seq(Within(talkLen))
      BY DEF MemInv
    <3>3. i \in 1 .. Len(memories)
      BY <3>1, <3>2, LenProperties
    <3> QED BY <3>1, <3>2, <3>3, ElementOfSeq
  <2>2. ASSUME NEW m \in Range(memories)
        PROVE  m.persona \in Range(MemoryCast[m.talk]) /\ UpdateStep <= m.count /\ m.count <= talkLen[m.talk]
    BY <2>1, <2>2 DEF Within, Possible, CastOf
  <2> QED BY <2>2 DEF MemoriesConsistent, MemInv, OnePerPersona
<1> QED BY <1>1, MemoryInvariant, PTL

(***************************************************************************)
(* A refresh that saves over the summary it had found stale covers at      *)
(* least UpdateStep messages more, and what it saved is what the file says *)
(* of the persona.                                                         *)
(***************************************************************************)
THEOREM MemoryAdvances == MemorySpec => SummaryAdvances
<1> DEFINE Advance ==
      \A o \in MemoryOps :
        memoryOp[o].at = "saving" /\ memoryOp'[o].at # "failed" /\ memoryOp'[o] # memoryOp[o] =>
          LET op == memoryOp[o]
              found == MemoryOf(memories, Head(op.stale))
              saved == MemoryOf(memories', Head(op.stale))
          IN  /\ saved = Summary(Head(op.stale), op.talk, op.count)
              /\ found = Head(op.seen) /\ found # NoSummary => saved.count >= found.count + UpdateStep
<1>1. MemInv /\ [MemoryNext]_memoryVars => [Advance]_memoryVars
  <2> SUFFICES ASSUME MemInv, MemoryNext, NEW o \in MemoryOps,
                      memoryOp[o].at = "saving", memoryOp'[o].at # "failed", memoryOp'[o] # memoryOp[o]
               PROVE  LET op == memoryOp[o]
                          found == MemoryOf(memories, Head(op.stale))
                          saved == MemoryOf(memories', Head(op.stale))
                      IN  /\ saved = Summary(Head(op.stale), op.talk, op.count)
                          /\ found = Head(op.seen) /\ found # NoSummary => saved.count >= found.count + UpdateStep
    BY DEF memoryVars
  <2>1. SaveNext(o)
    <3>1. DOMAIN memoryOp = MemoryOps
      BY DEF MemInv
    <3>2. ~\E t \in Talks : Talk(t)
      BY DEF Talk
    <3>3. ASSUME NEW p \in MemoryOps, p # o PROVE
             ~(StartRefresh(p) \/ CheckNext(p) \/ Generate(p) \/ SaveNext(p) \/ StartClear(p) \/ ClearNext(p) \/ AbandonMemoryOp(p))
      BY <3>1, <3>3 DEF StartRefresh, CheckNext, Generate, SaveNext, StartClear, ClearNext, AbandonMemoryOp
    <3>4. ~(StartRefresh(o) \/ CheckNext(o) \/ Generate(o) \/ StartClear(o) \/ ClearNext(o))
      BY DEF StartRefresh, CheckNext, Generate, StartClear, ClearNext
    <3>5. ~AbandonMemoryOp(o)
      <4>1. memoryOp[o] \in RequestRecords(memoryOp[o].talk)
        BY DEF MemInv, RequestCorrect
      <4> QED BY <3>1, <4>1 DEF AbandonMemoryOp, RequestRecords
    <3> QED BY <3>2, <3>3, <3>4, <3>5 DEF MemoryNext
  <2>2. PICK op : op = memoryOp[o]
    OBVIOUS
  <2>3. PICK summary : summary = Summary(Head(op.stale), op.talk, op.count)
    OBVIOUS
  <2>4. memories' = Upserted(memories, summary)
    BY <2>1, <2>2, <2>3 DEF SaveNext
  <2>5. /\ op.stale \in Seq(CastOf(op.talk)) /\ op.count \in Nat
        /\ op.stale # <<>> /\ op.talk \in Talks /\ UpdateStep <= op.count /\ op.count <= talkLen[op.talk]
        /\ op.seen \in Seq(Outgrown(op.count)) /\ Len(op.seen) = Len(op.stale)
    <3>1. RequestCorrect(op, talkLen) /\ op.at = "saving"
      BY <2>2 DEF MemInv
    <3> QED BY <3>1 DEF RequestCorrect, RequestRecords, Refreshing
  <2>6. Head(op.stale) \in CastOf(op.talk) /\ op.seen # <<>>
    BY <2>5, HeadTailProperties, EmptySeq
  <2>7. Head(op.seen) \in Outgrown(op.count)
    BY <2>5, <2>6, HeadTailProperties
  <2>8. summary \in Within(talkLen) /\ summary.persona = Head(op.stale) /\ summary.count = op.count
    <3>1. Head(op.stale) \in Persons
      BY <2>5, <2>6, CastTyped
    <3> QED BY <2>3, <2>5, <2>6, <3>1 DEF Within, Possible, Summary
  <2>9. MemoryOf(memories', Head(op.stale)) = summary
    <3>1. MemoryOf(Upserted(memories, summary), summary.persona) = summary
      BY <2>8, SavedIsFound DEF MemInv
    <3> QED BY <2>4, <2>8, <3>1
  <2>10. Head(op.seen) # NoSummary => op.count >= Head(op.seen).count + UpdateStep
    BY <2>7 DEF Outgrown, Stale
  <2> QED BY <2>2, <2>3, <2>8, <2>9, <2>10
<1> QED BY <1>1, MemoryInvariant, PTL DEF MemorySpec, SummaryAdvances

-----------------------------------------------------------------------------
(***************************************************************************)
(* Chunker: the chunks of a document, for any sizes and any text.          *)
(***************************************************************************)
Pieces == {p \in [first : Nat, last : Nat] : p.first <= p.last}
Begin(chunk) == chunk[1].first
End(chunk) == chunk[Len(chunk)].last

\* Chunks without a gap, of a size that may be sent.
Solids == {c \in Seq(Pieces) :
             /\ c # <<>> /\ Begin(c) <= End(c) /\ Letters(c) = Begin(c) .. End(c)
             /\ ChunkSize(c) \in 1 .. MaxChars}

LEMMA ChunkerSizes ==
  MaxChars \in Nat \ {0} /\ MinChars \in Nat /\ Overlap \in Nat /\ 2 * Overlap <= MaxChars
BY ChunkerAssumption

LEMMA PieceIs ==
  ASSUME NEW p \in Pieces
  PROVE  /\ p.first \in Nat /\ p.last \in Nat /\ p.first <= p.last /\ PieceSize(p) \in Nat \ {0}
         /\ PieceSize(p) = p.last - p.first + 1 /\ p = [first |-> p.first, last |-> p.last]
<1>1. p.first \in Nat /\ p.last \in Nat /\ p.first <= p.last /\ p = [first |-> p.first, last |-> p.last]
  BY DEF Pieces
<1> QED BY <1>1 DEF PieceSize

\* Lists of pieces that are not empty.
LEMMA EndsAre ==
  ASSUME NEW c \in Seq(Pieces), c # <<>>
  PROVE  /\ Len(c) \in Nat \ {0} /\ c[1] \in Pieces /\ c[Len(c)] \in Pieces
         /\ Begin(c) \in Nat /\ End(c) \in Nat
<1>1. PICK n \in Nat : n = Len(c)
  BY LenProperties
<1>2. n # 0
  BY <1>1, EmptySeq
<1>3. 1 \in 1 .. n /\ n \in 1 .. n
  BY <1>2
<1>4. c[1] \in Pieces /\ c[n] \in Pieces
  BY <1>1, <1>3, ElementOfSeq
<1> QED BY <1>1, <1>2, <1>4, PieceIs DEF Begin, End

PieceSizes(c) == [i \in DOMAIN c |-> PieceSize(c[i])]

LEMMA PieceSizesAre ==
  ASSUME NEW c \in Seq(Pieces)
  PROVE  /\ PieceSizes(c) \in Seq(Nat) /\ PieceSizes(c) \in Seq(Int) /\ Len(PieceSizes(c)) = Len(c)
         /\ \A i \in 1 .. Len(c) : PieceSizes(c)[i] = PieceSize(c[i]) /\ c[i] \in Pieces
         /\ ChunkSize(c) = SumOf(PieceSizes(c)) /\ ChunkSize(c) \in Nat
<1>1. PICK n \in Nat : n = Len(c) /\ DOMAIN c = 1 .. n
  BY LenProperties
<1>2. \A i \in 1 .. n : c[i] \in Pieces
  BY <1>1, ElementOfSeq
<1>3. \A i \in 1 .. n : PieceSize(c[i]) \in Nat
  BY <1>2, PieceIs
<1>4. PICK t : t = PieceSizes(c)
  OBVIOUS
<1>5. t \in [1 .. n -> Nat] /\ \A i \in 1 .. n : t[i] = PieceSize(c[i])
  <2>1. t = [i \in 1 .. n |-> PieceSize(c[i])]
    BY <1>1, <1>4 DEF PieceSizes
  <2>2. t \in [1 .. n -> Nat]
    BY <1>3, <2>1
  <2> QED BY <2>1, <2>2
<1>6. t \in Seq(Nat)
  BY <1>5, SeqDef
<1>7. Len(t) = n /\ t \in Seq(Int)
  BY <1>5, <1>6, LenProperties, SeqMonotonic
<1>8. SumOf(t) \in Nat
  BY <1>6, SumOfType
<1>9. ChunkSize(c) = SumOf(t)
  BY <1>4 DEF ChunkSize, PieceSizes
<1> QED BY <1>1, <1>2, <1>4, <1>5, <1>6, <1>7, <1>8, <1>9

LEMMA JoinedIs ==
  ASSUME NEW c \in Seq(Pieces), NEW d \in Seq(Pieces)
  PROVE  /\ c \o d \in Seq(Pieces)
         /\ ChunkSize(c \o d) = ChunkSize(c) + ChunkSize(d)
         /\ Letters(c \o d) = Letters(c) \cup Letters(d)
         /\ c # <<>> => c \o d # <<>> /\ Begin(c \o d) = Begin(c)
         /\ d # <<>> => c \o d # <<>> /\ End(c \o d) = End(d)
<1>1. PICK m \in Nat : m = Len(c) /\ DOMAIN c = 1 .. m
  BY LenProperties
<1>2. PICK n \in Nat : n = Len(d) /\ DOMAIN d = 1 .. n
  BY LenProperties
<1>3. PICK u : u = c \o d
  OBVIOUS
<1>4. /\ u \in Seq(Pieces) /\ Len(u) = m + n
      /\ \A i \in 1 .. m + n : u[i] = IF i <= m THEN c[i] ELSE d[i - m]
  BY <1>1, <1>2, <1>3, ConcatProperties
<1>5. DOMAIN u = 1 .. m + n
  BY <1>4, LenProperties
<1>6. (\A i \in 1 .. m : i \in 1 .. m + n /\ u[i] = c[i]) /\ \A i \in 1 .. n : m + i \in 1 .. m + n /\ u[m + i] = d[i]
  <2>1. \A i \in 1 .. m : i \in 1 .. m + n /\ u[i] = c[i]
    BY <1>4
  <2>2. ASSUME NEW i \in 1 .. n PROVE m + i \in 1 .. m + n /\ u[m + i] = d[i]
    <3>1. m + i \in 1 .. m + n /\ ~(m + i <= m) /\ m + i - m = i
      OBVIOUS
    <3> QED BY <1>4, <3>1
  <2> QED BY <2>1, <2>2
<1>7. \A i \in 1 .. m + n : i \in 1 .. m \/ \E j \in 1 .. n : i = m + j
  <2> SUFFICES ASSUME NEW i \in 1 .. m + n, ~(i \in 1 .. m) PROVE \E j \in 1 .. n : i = m + j
    OBVIOUS
  <2>1. i - m \in 1 .. n /\ i = m + (i - m)
    OBVIOUS
  <2> QED BY <2>1
<1>8. Range(u) = Range(c) \cup Range(d)
  <2>1. ASSUME NEW x \in Range(u) PROVE x \in Range(c) \cup Range(d)
    <3>1. PICK i \in 1 .. m + n : x = u[i]
      BY <1>5 DEF Range
    <3>2. CASE i \in 1 .. m
      BY <1>1, <1>6, <3>1, <3>2 DEF Range
    <3>3. CASE \E j \in 1 .. n : i = m + j
      BY <1>2, <1>6, <3>1, <3>3 DEF Range
    <3> QED BY <1>7, <3>2, <3>3
  <2>2. ASSUME NEW x \in Range(c) PROVE x \in Range(u)
    BY <1>1, <1>5, <1>6 DEF Range
  <2>3. ASSUME NEW x \in Range(d) PROVE x \in Range(u)
    BY <1>2, <1>5, <1>6 DEF Range
  <2> QED BY <2>1, <2>2, <2>3
<1>9. Letters(u) = Letters(c) \cup Letters(d)
  BY <1>8 DEF Letters
<1>10. ChunkSize(u) = ChunkSize(c) + ChunkSize(d)
  <2>1. PieceSizes(u) = PieceSizes(c) \o PieceSizes(d)
    <3>1. PICK s : s = PieceSizes(c) \o PieceSizes(d)
      OBVIOUS
    <3>2. /\ PieceSizes(c) \in Seq(Int) /\ Len(PieceSizes(c)) = m /\ \A i \in 1 .. m : PieceSizes(c)[i] = PieceSize(c[i])
          /\ PieceSizes(d) \in Seq(Int) /\ Len(PieceSizes(d)) = n /\ \A i \in 1 .. n : PieceSizes(d)[i] = PieceSize(d[i])
          /\ PieceSizes(u) \in Seq(Int) /\ Len(PieceSizes(u)) = m + n /\ \A i \in 1 .. m + n : PieceSizes(u)[i] = PieceSize(u[i])
      BY <1>1, <1>2, <1>4, PieceSizesAre
    <3>3. /\ s \in Seq(Int) /\ Len(s) = m + n
          /\ \A i \in 1 .. m + n : s[i] = IF i <= m THEN PieceSizes(c)[i] ELSE PieceSizes(d)[i - m]
      BY <3>1, <3>2, ConcatProperties
    <3>4. ASSUME NEW i \in 1 .. m + n PROVE s[i] = PieceSizes(u)[i]
      <4>1. CASE i <= m
        <5>1. i \in 1 .. m
          BY <4>1
        <5>2. s[i] = PieceSizes(c)[i] /\ PieceSizes(c)[i] = PieceSize(c[i])
          BY <3>2, <3>3, <4>1, <5>1
        <5>3. PieceSizes(u)[i] = PieceSize(u[i]) /\ u[i] = c[i]
          BY <1>4, <3>2, <4>1
        <5> QED BY <5>2, <5>3
      <4>2. CASE ~(i <= m)
        <5>1. PICK j \in 1 .. n : j = i - m
          BY <4>2
        <5>2. s[i] = PieceSizes(d)[j] /\ PieceSizes(d)[j] = PieceSize(d[j])
          BY <3>2, <3>3, <4>2, <5>1
        <5>3. PieceSizes(u)[i] = PieceSize(u[i]) /\ u[i] = d[j]
          BY <1>4, <3>2, <4>2, <5>1
        <5> QED BY <5>2, <5>3
      <4> QED BY <4>1, <4>2
    <3>5. s = PieceSizes(u)
      BY <3>2, <3>3, <3>4, SeqEqual
    <3> QED BY <3>1, <3>5
  <2>2. SumOf(PieceSizes(c) \o PieceSizes(d)) = SumOf(PieceSizes(c)) + SumOf(PieceSizes(d))
    BY PieceSizesAre, SumOfConcat
  <2> QED BY <1>4, <2>1, <2>2, PieceSizesAre
<1>11. c # <<>> => u # <<>> /\ Begin(u) = Begin(c)
  <2> SUFFICES ASSUME c # <<>> PROVE u # <<>> /\ Begin(u) = Begin(c)
    OBVIOUS
  <2>1. 1 \in 1 .. m /\ m + n # 0
    BY <1>1, EndsAre
  <2>2. u[1] = c[1]
    BY <1>6, <2>1
  <2> QED BY <1>4, <2>1, <2>2, EmptySeq DEF Begin
<1>12. d # <<>> => u # <<>> /\ End(u) = End(d)
  <2> SUFFICES ASSUME d # <<>> PROVE u # <<>> /\ End(u) = End(d)
    OBVIOUS
  <2>1. n \in 1 .. n /\ m + n # 0
    BY <1>2, EndsAre
  <2>2. u[m + n] = d[n]
    BY <1>6, <2>1
  <2> QED BY <1>2, <1>4, <2>1, <2>2, EmptySeq DEF End
<1> QED BY <1>3, <1>4, <1>9, <1>10, <1>11, <1>12

LEMMA PieceSolid ==
  ASSUME NEW p \in Pieces
  PROVE  /\ <<p>> \in Seq(Pieces) /\ ChunkSize(<<p>>) = PieceSize(p)
         /\ Begin(<<p>>) = p.first /\ End(<<p>>) = p.last
         /\ PieceSize(p) <= MaxChars => <<p>> \in Solids
<1>1. <<p>> \in Seq(Pieces) /\ Len(<<p>>) = 1 /\ <<p>>[1] = p /\ <<p>> # <<>>
  OBVIOUS
<1>2. Begin(<<p>>) = p.first /\ End(<<p>>) = p.last
  BY <1>1 DEF Begin, End
<1>3. ChunkSize(<<p>>) = PieceSize(p)
  <2>1. PieceSizes(<<p>>) = <<PieceSize(p)>>
    BY <1>1 DEF PieceSizes
  <2>2. PieceSize(p) \in Int
    BY PieceIs
  <2> QED BY <1>1, <2>1, <2>2, PieceSizesAre, SumOfOne
<1>4. Letters(<<p>>) = p.first .. p.last
  <2>1. Range(<<p>>) = {p}
    BY DEF Range
  <2> QED BY <2>1 DEF Letters
<1>5. ASSUME PieceSize(p) <= MaxChars PROVE <<p>> \in Solids
  <2>1. ChunkSize(<<p>>) \in 1 .. MaxChars
    BY <1>3, <1>5, PieceIs, ChunkerSizes
  <2>2. Begin(<<p>>) <= End(<<p>>)
    BY <1>2, PieceIs
  <2> QED BY <1>1, <1>2, <1>4, <2>1, <2>2 DEF Solids
<1> QED BY <1>1, <1>2, <1>3, <1>5

LEMMA SolidIs ==
  ASSUME NEW c \in Solids
  PROVE  /\ c \in Seq(Pieces) /\ c # <<>> /\ Begin(c) \in Nat /\ End(c) \in Nat /\ Begin(c) <= End(c)
         /\ Letters(c) = Begin(c) .. End(c) /\ ChunkSize(c) \in 1 .. MaxChars
BY EndsAre DEF Solids

LEMMA SolidJoined ==
  ASSUME NEW c \in Solids, NEW d \in Solids, Begin(c) <= Begin(d), Begin(d) <= End(c) + 1, End(c) <= End(d),
         ChunkSize(c) + ChunkSize(d) <= MaxChars
  PROVE  c \o d \in Solids /\ Begin(c \o d) = Begin(c) /\ End(c \o d) = End(d)
<1>1. /\ c \in Seq(Pieces) /\ c # <<>> /\ d \in Seq(Pieces) /\ d # <<>>
      /\ Begin(c) \in Nat /\ End(c) \in Nat /\ Begin(d) \in Nat /\ End(d) \in Nat
      /\ Letters(c) = Begin(c) .. End(c) /\ Letters(d) = Begin(d) .. End(d) /\ Begin(c) <= End(c)
      /\ ChunkSize(c) \in 1 .. MaxChars /\ ChunkSize(d) \in 1 .. MaxChars
  BY SolidIs
<1>2. PICK u : u = c \o d
  OBVIOUS
<1>3. /\ u \in Seq(Pieces) /\ ChunkSize(u) = ChunkSize(c) + ChunkSize(d)
      /\ Letters(u) = Letters(c) \cup Letters(d)
      /\ u # <<>> /\ Begin(u) = Begin(c) /\ End(u) = End(d)
  BY <1>1, <1>2, JoinedIs
<1>4. Begin(c) .. End(c) \cup Begin(d) .. End(d) = Begin(c) .. End(d)
  BY <1>1
<1>5. ChunkSize(u) \in 1 .. MaxChars /\ Begin(u) <= End(u)
  BY <1>1, <1>3, ChunkerSizes
<1>6. u \in Solids
  BY <1>1, <1>3, <1>4, <1>5 DEF Solids
<1> QED BY <1>2, <1>3, <1>6

-----------------------------------------------------------------------------
\* Two chunks of a text, the first before the second.
Touch(c, d) == Begin(c) < Begin(d) /\ End(c) <= End(d) /\ Begin(d) <= End(c) + 1
Apart(c, d) == Begin(c) < Begin(d) /\ End(c) < Begin(d) /\ End(c) <= End(d)

InOrder(chunks) ==
  /\ chunks \in Seq(Solids)
  /\ \A i, j \in 1 .. Len(chunks) :
       i < j => IF j = i + 1 THEN Touch(chunks[i], chunks[j]) ELSE Apart(chunks[i], chunks[j])

\* The chunks are all of the text from letter a to letter b.
Covering(chunks, a, b) ==
  /\ InOrder(chunks)
  /\ IF chunks = <<>> THEN b = a - 1
     ELSE Begin(chunks[1]) = a /\ End(chunks[Len(chunks)]) = b

LEMMA CoveringIs ==
  ASSUME NEW chunks, NEW a \in Nat, NEW b \in Int, Covering(chunks, a, b), NEW n \in Nat, n = Len(chunks)
  PROVE  /\ \A i \in 1 .. n : chunks[i] \in Solids /\ Begin(chunks[i]) >= a /\ End(chunks[i]) <= b
         /\ chunks = <<>> <=> n = 0
<1>1. chunks \in Seq(Solids)
  BY DEF Covering, InOrder
<1>2. chunks = <<>> <=> n = 0
  BY <1>1, EmptySeq
<1>3. ASSUME NEW i \in 1 .. n PROVE chunks[i] \in Solids /\ Begin(chunks[i]) >= a /\ End(chunks[i]) <= b
  <2>1. 1 \in 1 .. n /\ n \in 1 .. n /\ chunks # <<>>
    BY <1>2
  <2>2. \A j \in 1 .. n : chunks[j] \in Solids
    BY <1>1, ElementOfSeq
  <2>3. Begin(chunks[1]) = a /\ End(chunks[n]) = b
    BY <2>1 DEF Covering
  <2>4. \A j \in 1 .. n : Begin(chunks[j]) \in Nat /\ End(chunks[j]) \in Nat
    BY <2>2, SolidIs
  <2>5. 1 < i => Begin(chunks[1]) < Begin(chunks[i])
    BY <2>1 DEF Covering, InOrder, Touch, Apart
  <2>6. i < n => End(chunks[i]) <= End(chunks[n])
    BY <2>1 DEF Covering, InOrder, Touch, Apart
  <2>7. Begin(chunks[i]) >= a
    <3>1. CASE i = 1
      BY <2>3, <3>1
    <3>2. CASE i # 1
      BY <2>1, <2>3, <2>4, <2>5, <3>2
    <3> QED BY <3>1, <3>2
  <2>8. End(chunks[i]) <= b
    <3>1. CASE i = n
      BY <2>3, <3>1
    <3>2. CASE i # n
      BY <2>1, <2>3, <2>4, <2>6, <3>2
    <3> QED BY <3>1, <3>2
  <2> QED BY <2>2, <2>7, <2>8
<1> QED BY <1>2, <1>3

LEMMA CoveringOne ==
  ASSUME NEW c \in Solids
  PROVE  Covering(<<c>>, Begin(c), End(c))
<1>1. <<c>> \in Seq(Solids) /\ Len(<<c>>) = 1 /\ <<c>>[1] = c /\ <<c>> # <<>>
  OBVIOUS
<1>2. \A i, j \in 1 .. 1 : ~(i < j)
  OBVIOUS
<1> QED BY <1>1, <1>2 DEF Covering, InOrder

LEMMA CoveringNone ==
  ASSUME NEW a \in Nat
  PROVE  Covering(<<>>, a, a - 1)
<1>1. <<>> \in Seq(Solids) /\ Len(<<>>) = 0
  BY EmptySeq
<1>2. \A i, j \in 1 .. 0 : ~(i < j)
  OBVIOUS
<1> QED BY <1>1, <1>2 DEF Covering, InOrder

LEMMA CoveringJoined ==
  ASSUME NEW s, NEW t, NEW a \in Nat, NEW b \in Int, NEW e \in Nat, NEW c \in Int,
         Covering(s, a, b), Covering(t, e, c), e = b + 1
  PROVE  Covering(s \o t, a, c)
<1>1. s \in Seq(Solids) /\ t \in Seq(Solids)
  BY DEF Covering, InOrder
<1>2. PICK m \in Nat : m = Len(s)
  BY <1>1, LenProperties
<1>3. PICK n \in Nat : n = Len(t)
  BY <1>1, LenProperties
<1>4. /\ \A i \in 1 .. m : s[i] \in Solids /\ Begin(s[i]) >= a /\ End(s[i]) <= b
      /\ s = <<>> <=> m = 0
  BY <1>2, CoveringIs
<1>5. /\ \A i \in 1 .. n : t[i] \in Solids /\ Begin(t[i]) >= e /\ End(t[i]) <= c
      /\ t = <<>> <=> n = 0
  BY <1>3, CoveringIs
<1>6. PICK u : u = s \o t
  OBVIOUS
<1>7. /\ u \in Seq(Solids) /\ Len(u) = m + n
      /\ \A i \in 1 .. m + n : u[i] = IF i <= m THEN s[i] ELSE t[i - m]
  BY <1>1, <1>2, <1>3, <1>6, ConcatProperties
<1>8. /\ \A i \in 1 .. m : Begin(s[i]) \in Nat /\ End(s[i]) \in Nat /\ Begin(s[i]) <= End(s[i])
      /\ \A i \in 1 .. n : Begin(t[i]) \in Nat /\ End(t[i]) \in Nat /\ Begin(t[i]) <= End(t[i])
  BY <1>4, <1>5, SolidIs
<1>9. ASSUME NEW i \in 1 .. m + n, NEW j \in 1 .. m + n, i < j
      PROVE  IF j = i + 1 THEN Touch(u[i], u[j]) ELSE Apart(u[i], u[j])
  <2>1. CASE j <= m
    <3>1. i \in 1 .. m /\ j \in 1 .. m /\ u[i] = s[i] /\ u[j] = s[j]
      BY <1>7, <1>9, <2>1
    <3> QED BY <1>2, <1>9, <3>1 DEF Covering, InOrder
  <2>2. CASE i > m
    <3>1. PICK h \in 1 .. n, k \in 1 .. n : h = i - m /\ k = j - m
      BY <1>9, <2>2
    <3>2. u[i] = t[h] /\ u[j] = t[k]
      <4>1. ~(i <= m) /\ ~(j <= m)
        BY <1>9, <2>2
      <4> QED BY <1>7, <3>1, <4>1
    <3>3. h < k /\ (j = i + 1 <=> k = h + 1)
      BY <1>9, <3>1
    <3> QED BY <1>3, <3>2, <3>3 DEF Covering, InOrder
  <2>3. CASE i <= m /\ j > m
    <3>1. i \in 1 .. m
      BY <2>3
    <3>2. PICK k \in 1 .. n : k = j - m
      BY <2>3
    <3>3. u[i] = s[i] /\ u[j] = t[k]
      BY <1>7, <2>3, <3>2
    <3>4. End(u[i]) <= b /\ e <= Begin(u[j])
      BY <1>4, <1>5, <3>1, <3>3
    <3>5. /\ Begin(u[i]) \in Nat /\ End(u[i]) \in Nat /\ Begin(u[i]) <= End(u[i])
          /\ Begin(u[j]) \in Nat /\ End(u[j]) \in Nat /\ Begin(u[j]) <= End(u[j])
      BY <1>8, <3>1, <3>3
    <3>6. Apart(u[i], u[j])
      BY <3>4, <3>5 DEF Apart
    <3>7. ASSUME j = i + 1 PROVE Touch(u[i], u[j])
      <4>1. i = m /\ k = 1 /\ m # 0 /\ n # 0
        BY <2>3, <3>1, <3>2, <3>7
      <4>2. End(s[m]) = b /\ Begin(t[1]) = e
        BY <1>2, <1>3, <1>4, <1>5, <4>1 DEF Covering
      <4>3. Begin(u[j]) <= End(u[i]) + 1
        BY <3>3, <3>5, <4>1, <4>2
      <4> QED BY <3>6, <4>3 DEF Apart, Touch
    <3> QED BY <3>6, <3>7
  <2> QED BY <1>9, <2>1, <2>2, <2>3
<1>10. InOrder(u)
  BY <1>7, <1>9 DEF InOrder
<1>11. IF u = <<>> THEN c = a - 1 ELSE Begin(u[1]) = a /\ End(u[m + n]) = c
  <2>0. u = <<>> <=> m + n = 0
    BY <1>7, EmptySeq
  <2>1. CASE m = 0 /\ n = 0
    <3>1. b = a - 1 /\ c = e - 1
      BY <1>4, <1>5, <2>1 DEF Covering
    <3> QED BY <2>0, <2>1, <3>1
  <2>2. CASE m = 0 /\ n # 0
    <3>1. b = a - 1 /\ Begin(t[1]) = e /\ End(t[n]) = c
      BY <1>3, <1>4, <1>5, <2>2 DEF Covering
    <3>2. u[1] = t[1] /\ u[m + n] = t[n]
      <4>1. 1 \in 1 .. m + n /\ ~(1 <= m) /\ 1 - m = 1 /\ m + n \in 1 .. m + n /\ ~(m + n <= m) /\ m + n - m = n
        BY <2>2
      <4> QED BY <1>7, <4>1
    <3> QED BY <2>0, <2>2, <3>1, <3>2
  <2>3. CASE m # 0 /\ n = 0
    <3>1. c = e - 1 /\ Begin(s[1]) = a /\ End(s[m]) = b
      BY <1>2, <1>4, <1>5, <2>3 DEF Covering
    <3>2. u[1] = s[1] /\ u[m + n] = s[m]
      <4>1. 1 \in 1 .. m + n /\ 1 <= m /\ m + n \in 1 .. m + n /\ m + n <= m /\ m + n = m
        BY <2>3
      <4> QED BY <1>7, <4>1
    <3> QED BY <2>0, <2>3, <3>1, <3>2
  <2>4. CASE m # 0 /\ n # 0
    <3>1. Begin(s[1]) = a /\ End(t[n]) = c
      BY <1>2, <1>3, <1>4, <1>5, <2>4 DEF Covering
    <3>2. u[1] = s[1] /\ u[m + n] = t[n]
      <4>1. 1 \in 1 .. m + n /\ 1 <= m /\ m + n \in 1 .. m + n /\ ~(m + n <= m) /\ m + n - m = n
        BY <2>4
      <4> QED BY <1>7, <4>1
    <3> QED BY <2>0, <2>4, <3>1, <3>2
  <2> QED BY <2>1, <2>2, <2>3, <2>4
<1> QED BY <1>6, <1>7, <1>10, <1>11 DEF Covering

LEMMA CoveringAppended ==
  ASSUME NEW s, NEW a \in Nat, NEW c \in Solids, NEW b \in Int, Covering(s, a, b), Begin(c) = b + 1
  PROVE  Covering(Append(s, c), a, End(c))
<1>1. s \in Seq(Solids)
  BY DEF Covering, InOrder
<1>2. Append(s, c) = s \o <<c>>
  BY <1>1
<1>3. PICK e \in Nat, f \in Nat : e = Begin(c) /\ f = End(c)
  BY SolidIs
<1>4. Covering(<<c>>, e, f)
  BY <1>3, CoveringOne
<1>5. Covering(s \o <<c>>, a, f)
  BY <1>3, <1>4, CoveringJoined
<1> QED BY <1>2, <1>3, <1>5

-----------------------------------------------------------------------------
LEMMA Multiples ==
  ASSUME NEW step \in Nat, NEW i \in Nat, NEW j \in Nat
  PROVE  /\ i * step \in Nat /\ (i + 1) * step = i * step + step
         /\ i < j => i * step + step <= j * step
         /\ i + 1 < j => i * step + 2 * step <= j * step
<1>1. i * step \in Nat /\ (i + 1) * step = i * step + step
  OBVIOUS
<1>2. ASSUME NEW d \in Nat, NEW k \in Nat, j = i + k + d PROVE j * step >= i * step + k * step
  <2>1. j * step = i * step + k * step + d * step
    BY <1>2
  <2>2. d * step \in Nat /\ k * step \in Nat
    OBVIOUS
  <2> QED BY <1>1, <2>1, <2>2
<1>3. ASSUME i < j PROVE i * step + step <= j * step
  <2>1. PICK d \in Nat : j = i + 1 + d
    <3>1. j - i - 1 \in Nat /\ j = i + 1 + (j - i - 1)
      BY <1>3
    <3> QED BY <3>1
  <2>2. j * step >= i * step + 1 * step
    BY <1>2, <2>1
  <2> QED BY <2>2
<1>4. ASSUME i + 1 < j PROVE i * step + 2 * step <= j * step
  <2>1. PICK d \in Nat : j = i + 2 + d
    <3>1. j - i - 2 \in Nat /\ j = i + 2 + (j - i - 2)
      BY <1>4
    <3> QED BY <3>1
  <2>2. j * step >= i * step + 2 * step
    BY <1>2, <2>1
  <2> QED BY <2>2
<1> QED BY <1>1, <1>3, <1>4

\* How many steps it takes to get over a length.
LEMMA Rounds ==
  ASSUME NEW step \in Nat \ {0}, NEW size \in Nat \ {0}
  PROVE  LET count == (size + step - 1) \div step
         IN  count \in Nat \ {0} /\ (count - 1) * step < size /\ size <= count * step
<1>1. PICK x \in Nat : x = size + step - 1
  OBVIOUS
<1>2. PICK q \in Nat : q = x \div step
  OBVIOUS
<1>3. q * step <= x /\ x < q * step + step
  BY <1>2
<1>4. q # 0
  BY <1>1, <1>3
<1>5. (q - 1) * step = q * step - step /\ q * step \in Nat
  OBVIOUS
<1> QED BY <1>1, <1>2, <1>3, <1>4, <1>5

LEMMA WindowsCover ==
  ASSUME NEW p \in Pieces, PieceSize(p) > MaxChars
  PROVE  Covering(Windows(p), p.first, p.last)
<1>1. PICK first \in Nat, last \in Nat, size \in Nat \ {0} :
        first = p.first /\ last = p.last /\ size = PieceSize(p) /\ last = first + size - 1
  BY PieceIs
<1>2. PICK most \in Nat \ {0}, step \in Nat \ {0} :
        most = MaxChars /\ step = MaxChars - Overlap /\ step <= most /\ most <= 2 * step
  BY ChunkerSizes
<1>3. PICK count \in Nat \ {0} :
        count = (size + step - 1) \div step /\ (count - 1) * step < size /\ size <= count * step
  BY Rounds
<1> DEFINE shift(k) == (k - 1) * step
<1>4. /\ shift(1) = 0 /\ shift(count) < size /\ size <= shift(count) + step
      /\ \A k \in 1 .. count : shift(k) \in Nat /\ shift(k) <= shift(count)
      /\ \A i, j \in 1 .. count :
           /\ i < j => shift(i) + step <= shift(j)
           /\ j = i + 1 => shift(j) = shift(i) + step
           /\ i + 1 < j => shift(i) + 2 * step <= shift(j)
  <2>1. shift(1) = 0
    OBVIOUS
  <2>2. shift(count) < size /\ size <= shift(count) + step
    <3>1. count - 1 \in Nat /\ count - 1 + 1 = count
      OBVIOUS
    <3>2. count * step = (count - 1) * step + step
      BY <3>1, Multiples
    <3> QED BY <1>3, <3>2
  <2>3. ASSUME NEW i \in 1 .. count, NEW j \in 1 .. count
        PROVE  /\ shift(i) \in Nat
               /\ i < j => shift(i) + step <= shift(j)
               /\ j = i + 1 => shift(j) = shift(i) + step
               /\ i + 1 < j => shift(i) + 2 * step <= shift(j)
    <3>1. PICK h \in Nat, k \in Nat : h = i - 1 /\ k = j - 1
      OBVIOUS
    <3>2. /\ h * step \in Nat /\ (h + 1) * step = h * step + step
          /\ h < k => h * step + step <= k * step
          /\ h + 1 < k => h * step + 2 * step <= k * step
      BY Multiples
    <3>3. (i < j <=> h < k) /\ (j = i + 1 <=> k = h + 1) /\ (i + 1 < j <=> h + 1 < k)
      BY <3>1
    <3>4. shift(i) = h * step /\ shift(j) = k * step
      BY <3>1
    <3> HIDE DEF shift
    <3> QED BY <3>2, <3>3, <3>4
  <2>4. ASSUME NEW k \in 1 .. count PROVE shift(k) <= shift(count)
    <3>1. count \in 1 .. count
      OBVIOUS
    <3>2. shift(k) \in Nat /\ shift(count) \in Nat /\ (k < count => shift(k) + step <= shift(count))
      BY <2>3, <3>1
    <3> HIDE DEF shift
    <3>3. k < count \/ k = count
      OBVIOUS
    <3> QED BY <3>2, <3>3
  <2> HIDE DEF shift
  <2> QED BY <2>1, <2>2, <2>3, <2>4
<1> DEFINE from(k) == first + shift(k)
           to(k) == IF from(k) + most - 1 < last THEN from(k) + most - 1 ELSE last
           w(k) == [first |-> from(k), last |-> to(k)]
           W == [k \in 1 .. count |-> <<w(k)>>]
<1>5. W = Windows(p)
  BY <1>1, <1>2, <1>3 DEF Windows
<1> HIDE DEF shift
<1>6. \A k \in 1 .. count : /\ from(k) \in Nat /\ to(k) \in Nat /\ from(k) <= to(k)
                            /\ to(k) - from(k) + 1 <= most /\ from(k) <= last /\ to(k) <= last
                            /\ to(k) = last \/ to(k) = from(k) + most - 1
                            /\ to(k) <= from(k) + most - 1
  BY <1>1, <1>4
<1>7. ASSUME NEW k \in 1 .. count
      PROVE  <<w(k)>> \in Solids /\ Begin(<<w(k)>>) = from(k) /\ End(<<w(k)>>) = to(k)
  <2>1. w(k) \in Pieces /\ w(k).first = from(k) /\ w(k).last = to(k)
    <3>1. from(k) \in Nat /\ to(k) \in Nat /\ from(k) <= to(k)
      BY <1>6
    <3> HIDE DEF from, to
    <3> QED BY <3>1 DEF Pieces
  <2>2. PieceSize(w(k)) <= MaxChars
    <3>1. PieceSize(w(k)) = to(k) - from(k) + 1
      BY <2>1 DEF PieceSize
    <3> HIDE DEF from, to, w
    <3> QED BY <1>2, <1>6, <3>1
  <2> HIDE DEF w
  <2> QED BY <2>1, <2>2, PieceSolid
<1>8. ASSUME NEW i \in 1 .. count, NEW j \in 1 .. count, i < j
      PROVE  IF j = i + 1 THEN Touch(<<w(i)>>, <<w(j)>>) ELSE Apart(<<w(i)>>, <<w(j)>>)
  <2>1. /\ shift(i) \in Nat /\ shift(j) \in Nat /\ shift(i) + step <= shift(j)
        /\ j = i + 1 => shift(j) = shift(i) + step
        /\ i + 1 < j => shift(i) + 2 * step <= shift(j)
    BY <1>4, <1>8
  <2>2. from(i) < from(j)
    BY <2>1
  <2>3. to(i) <= to(j)
    BY <2>1, <2>2
  <2>4. j = i + 1 => from(j) <= to(i) + 1
    BY <1>2, <1>6, <2>1
  <2>5. j # i + 1 => to(i) < from(j)
    <3> SUFFICES ASSUME j # i + 1 PROVE to(i) < from(j)
      OBVIOUS
    <3>1. i + 1 < j
      BY <1>8
    <3>2. from(i) + 2 * step <= from(j) /\ to(i) <= from(i) + most - 1
      BY <1>6, <2>1, <3>1
    <3>3. from(i) \in Nat /\ from(j) \in Nat /\ to(i) \in Nat
      BY <1>6
    <3> HIDE DEF from, to
    <3> QED BY <1>2, <3>2, <3>3
  <2> HIDE DEF from, to, w
  <2> QED BY <1>7, <2>2, <2>3, <2>4, <2>5 DEF Touch, Apart
<1> HIDE DEF w
<1>9. W \in Seq(Solids) /\ Len(W) = count /\ \A k \in 1 .. count : W[k] = <<w(k)>>
  <2>1. W \in [1 .. count -> Solids] /\ \A k \in 1 .. count : W[k] = <<w(k)>>
    BY <1>7
  <2> HIDE DEF W
  <2>2. W \in Seq(Solids)
    BY <2>1, SeqDef
  <2> QED BY <2>1, <2>2, LenProperties
<1> HIDE DEF W
<1>10. InOrder(W)
  BY <1>8, <1>9 DEF InOrder
<1>11. Begin(W[1]) = first /\ End(W[count]) = last
  <2>1. 1 \in 1 .. count /\ count \in 1 .. count
    OBVIOUS
  <2>2. from(1) = first
    BY <1>4
  <2>3. to(count) = last
    <3>1. from(count) + most - 1 >= last
      BY <1>1, <1>2, <1>4, <2>1
    <3>2. from(count) \in Nat
      BY <1>6, <2>1
    <3>3. ~(from(count) + most - 1 < last)
      BY <3>1, <3>2
    <3> HIDE DEF from
    <3> QED BY <3>3
  <2> HIDE DEF from, to
  <2> QED BY <1>7, <1>9, <2>1, <2>2, <2>3
<1>12. W # <<>>
  BY <1>9, EmptySeq
<1>13. Covering(W, first, last)
  BY <1>9, <1>10, <1>11, <1>12 DEF Covering
<1> QED BY <1>1, <1>5, <1>13

\* Paragraphs, by the lengths of their sentences.
Prose == {paragraph \in Seq(Nat \ {0}) : paragraph # <<>>}

\* The sentences are pieces, each begun where the one before it ends.
Consecutive(pieces, n, a, b) ==
  /\ pieces \in Seq(Pieces) /\ Len(pieces) = n
  /\ pieces[1].first = a /\ pieces[n].last = b
  /\ \A i \in 1 .. n - 1 : pieces[i + 1].first = pieces[i].last + 1

LEMMA SentencesAre ==
  ASSUME NEW paragraph \in Prose, NEW start \in Nat \ {0}, NEW n \in Nat, n = Len(paragraph)
  PROVE  /\ n # 0 /\ SumOf(paragraph) \in Nat \ {0}
         /\ Consecutive(Sentences(paragraph, start), n, start, start + SumOf(paragraph) - 1)
<1>1. paragraph \in Seq(Nat \ {0}) /\ paragraph \in Seq(Nat) /\ paragraph \in Seq(Int) /\ n # 0
  <2>1. paragraph \in Seq(Nat \ {0}) /\ paragraph # <<>>
    BY DEF Prose
  <2> QED BY <2>1, SeqMonotonic, EmptySeq
<1>2. PICK g \in [0 .. n -> Nat] : Sums(g, paragraph)
  BY <1>1, SumsExist
<1>3. g \in [0 .. n -> Int] /\ \A i \in 0 .. n : g[i] \in Nat
  OBVIOUS
<1>4. ASSUME NEW i \in 0 .. n PROVE SumOf(SubSeq(paragraph, 1, i)) = g[i]
  <2>1. 0 \in 0 .. Len(paragraph) /\ i \in 0 .. Len(paragraph)
    OBVIOUS
  <2>2. SumOf(SubSeq(paragraph, 0 + 1, i)) = g[i] - g[0]
    BY <1>1, <1>2, <1>3, <2>1, SumOfPart
  <2>3. 0 + 1 = 1 /\ g[0] = 0 /\ g[i] \in Nat
    BY <1>2, <1>3 DEF Sums
  <2> QED BY <2>2, <2>3
<1>5. SumOf(paragraph) = g[n]
  BY <1>1, <1>2, <1>3, SumOfIs
<1>6. \A i \in 1 .. n : /\ paragraph[i] \in Nat \ {0} /\ g[i] = g[i - 1] + paragraph[i]
                        /\ i - 1 \in 0 .. n /\ i \in 0 .. n
  BY <1>1, <1>2, ElementOfSeq DEF Sums
<1> DEFINE piece(i) == [first |-> start + g[i - 1], last |-> start + g[i] - 1]
           pieces == [i \in 1 .. n |-> piece(i)]
<1>7. pieces = Sentences(paragraph, start)
  <2>1. DOMAIN paragraph = 1 .. n
    BY <1>1, LenProperties
  <2>2. \A i \in 1 .. n : SumOf(SubSeq(paragraph, 1, i - 1)) = g[i - 1] /\ SumOf(SubSeq(paragraph, 1, i)) = g[i]
    BY <1>4, <1>6
  <2> QED BY <2>1, <2>2 DEF Sentences
<1>8. ASSUME NEW i \in 1 .. n PROVE piece(i) \in Pieces
  <2>1. g[i - 1] \in Nat /\ g[i] \in Nat /\ g[i - 1] < g[i]
    BY <1>3, <1>6
  <2>2. start + g[i - 1] \in Nat /\ start + g[i] - 1 \in Nat /\ start + g[i - 1] <= start + g[i] - 1
    BY <2>1
  <2> QED BY <2>2 DEF Pieces
<1>9. pieces \in Seq(Pieces) /\ Len(pieces) = n
  <2>1. pieces \in [1 .. n -> Pieces]
    BY <1>8
  <2> HIDE DEF pieces
  <2>2. pieces \in Seq(Pieces)
    BY <2>1, SeqDef
  <2> QED BY <2>1, <2>2, LenProperties
<1>10. pieces[1].first = start /\ pieces[n].last = start + g[n] - 1
  <2>1. 1 \in 1 .. n /\ n \in 1 .. n /\ 1 - 1 = 0 /\ g[0] = 0
    BY <1>1, <1>2 DEF Sums
  <2>2. start + g[1 - 1] = start
    BY <2>1
  <2> QED BY <2>1, <2>2
<1>11. ASSUME NEW i \in 1 .. n - 1 PROVE pieces[i + 1].first = pieces[i].last + 1
  <2>1. i \in 1 .. n /\ i + 1 \in 1 .. n /\ i + 1 - 1 = i /\ g[i] \in Nat
    BY <1>3
  <2>2. pieces[i + 1].first = start + g[i + 1 - 1] /\ pieces[i].last = start + g[i] - 1
    BY <2>1
  <2> HIDE DEF pieces
  <2> QED BY <2>1, <2>2
<1>12. g[n] # 0 /\ g[n] \in Nat
  <2>1. n \in 1 .. n
    BY <1>1
  <2>2. g[n] = g[n - 1] + paragraph[n] /\ paragraph[n] \in Nat \ {0} /\ g[n - 1] \in Nat
    BY <1>3, <1>6, <2>1
  <2> QED BY <2>2
<1> HIDE DEF pieces
<1> QED BY <1>1, <1>5, <1>7, <1>9, <1>10, <1>11, <1>12 DEF Consecutive

-----------------------------------------------------------------------------
\* The loop over the sentences of a paragraph, after letter b.
RawStates == [raw : Seq(Seq(Pieces)), current : Seq(Pieces)]

ParagraphInv(a, b, s) ==
  /\ s \in RawStates
  /\ \E m \in Int :
       /\ Covering(s.raw, a, m)
       /\ IF s.current = <<>> THEN m = b
          ELSE s.current \in Solids /\ Begin(s.current) = m + 1 /\ End(s.current) = b

LEMMA CoveringTyped ==
  ASSUME NEW chunks, NEW a, NEW b, Covering(chunks, a, b)
  PROVE  chunks \in Seq(Solids) /\ chunks \in Seq(Seq(Pieces))
<1>1. chunks \in Seq(Solids) /\ Solids \subseteq Seq(Pieces)
  BY DEF Covering, InOrder, Solids
<1> QED BY <1>1, SeqMonotonic

LEMMA FlushCovers ==
  ASSUME NEW a \in Nat, NEW b \in Int, NEW s, ParagraphInv(a, b, s)
  PROVE  Covering(Flush(s), a, b)
<1>1. PICK m \in Int : /\ Covering(s.raw, a, m)
                       /\ IF s.current = <<>> THEN m = b
                          ELSE s.current \in Solids /\ Begin(s.current) = m + 1 /\ End(s.current) = b
  BY DEF ParagraphInv
<1>2. CASE s.current = <<>>
  BY <1>1, <1>2 DEF Flush
<1>3. CASE s.current # <<>>
  <2>1. Covering(Append(s.raw, s.current), a, End(s.current))
    BY <1>1, <1>3, CoveringAppended
  <2> QED BY <1>1, <1>3, <2>1 DEF Flush
<1> QED BY <1>2, <1>3

LEMMA AddTyped ==
  ASSUME NEW s \in RawStates, NEW p \in Pieces
  PROVE  AddSentence(s, p) \in RawStates
<1>1. PICK raw \in Seq(Seq(Pieces)), current \in Seq(Pieces) : s = [raw |-> raw, current |-> current]
  BY DEF RawStates
<1>2. Flush(s) \in Seq(Seq(Pieces))
  BY <1>1 DEF Flush
<1>3. <<p>> \in Seq(Pieces) /\ <<>> \in Seq(Pieces)
  BY EmptySeq
<1>4. CASE PieceSize(p) > MaxChars
  <2>1. Windows(p) \in Seq(Seq(Pieces))
    BY <1>4, WindowsCover, CoveringTyped
  <2>2. Flush(s) \o Windows(p) \in Seq(Seq(Pieces))
    BY <1>2, <2>1
  <2>3. AddSentence(s, p) = [raw |-> Flush(s) \o Windows(p), current |-> <<>>]
    BY <1>4 DEF AddSentence
  <2> QED BY <1>3, <2>2, <2>3 DEF RawStates
<1>5. CASE ~(PieceSize(p) > MaxChars) /\ ChunkSize(s.current) + PieceSize(p) > MaxChars
  <2>1. AddSentence(s, p) = [raw |-> Flush(s), current |-> <<p>>]
    BY <1>5 DEF AddSentence
  <2> QED BY <1>2, <1>3, <2>1 DEF RawStates
<1>6. CASE ~(PieceSize(p) > MaxChars) /\ ~(ChunkSize(s.current) + PieceSize(p) > MaxChars)
  <2>1. AddSentence(s, p) = [s EXCEPT !.current = Append(@, p)]
    BY <1>6 DEF AddSentence
  <2>2. AddSentence(s, p) = [raw |-> raw, current |-> Append(current, p)]
    BY <1>1, <2>1
  <2>3. Append(current, p) \in Seq(Pieces)
    BY <1>1
  <2>4. \A grown \in Seq(Pieces) : [raw |-> raw, current |-> grown] \in RawStates
    BY DEF RawStates
  <2> QED BY <2>2, <2>3, <2>4
<1> QED BY <1>4, <1>5, <1>6

LEMMA AddSentenceStep ==
  ASSUME NEW a \in Nat, NEW b \in Int, NEW s, ParagraphInv(a, b, s), NEW p \in Pieces, p.first = b + 1
  PROVE  ParagraphInv(a, p.last, AddSentence(s, p))
<1>1. PICK raw \in Seq(Seq(Pieces)), current \in Seq(Pieces) : s = [raw |-> raw, current |-> current]
  BY DEF ParagraphInv, RawStates
<1>2. PICK m \in Int : /\ Covering(raw, a, m)
                       /\ IF current = <<>> THEN m = b
                          ELSE current \in Solids /\ Begin(current) = m + 1 /\ End(current) = b
  BY <1>1 DEF ParagraphInv
<1>3. Covering(Flush(s), a, b)
  BY FlushCovers
<1>4. PICK first \in Nat, last \in Nat, size \in Nat \ {0} :
        first = p.first /\ last = p.last /\ first <= last /\ size = PieceSize(p) /\ size = last - first + 1
  BY PieceIs
<1>5. PICK t : t = AddSentence(s, p)
  OBVIOUS
<1>6. t \in RawStates
  <2>1. s \in RawStates
    BY DEF ParagraphInv
  <2> QED BY <1>5, <2>1, AddTyped
<1>7. CASE size > MaxChars
  <2>1. t = [raw |-> Flush(s) \o Windows(p), current |-> <<>>]
    BY <1>4, <1>5, <1>7 DEF AddSentence
  <2>2. Covering(Windows(p), first, last)
    BY <1>4, <1>7, WindowsCover
  <2>3. Covering(Flush(s) \o Windows(p), a, last)
    BY <1>3, <1>4, <2>2, CoveringJoined
  <2>4. t.current = <<>> /\ Covering(t.raw, a, last)
    BY <2>1, <2>3
  <2> QED BY <1>4, <1>5, <1>6, <2>4 DEF ParagraphInv
<1>8. CASE ~(size > MaxChars) /\ ChunkSize(current) + size > MaxChars
  <2>1. t = [raw |-> Flush(s), current |-> <<p>>]
    BY <1>1, <1>4, <1>5, <1>8 DEF AddSentence
  <2>2. size <= MaxChars
    BY <1>8, ChunkerSizes
  <2>3. <<p>> \in Solids /\ Begin(<<p>>) = b + 1 /\ End(<<p>>) = last /\ <<p>> # <<>>
    BY <1>4, <2>2, PieceSolid
  <2>4. t.raw = Flush(s) /\ t.current = <<p>>
    BY <2>1
  <2> QED BY <1>3, <1>4, <1>5, <1>6, <2>3, <2>4 DEF ParagraphInv
<1>9. CASE ~(size > MaxChars) /\ ~(ChunkSize(current) + size > MaxChars)
  <2>1. t = [raw |-> raw, current |-> Append(current, p)]
    BY <1>1, <1>4, <1>5, <1>9 DEF AddSentence
  <2>2. size <= MaxChars /\ ChunkSize(current) + size <= MaxChars
    <3>1. ChunkSize(current) \in Nat
      BY PieceSizesAre
    <3> QED BY <1>9, <3>1, ChunkerSizes
  <2>3. /\ <<p>> \in Seq(Pieces) /\ ChunkSize(<<p>>) = size
        /\ <<p>> \in Solids /\ Begin(<<p>>) = first /\ End(<<p>>) = last
    BY <1>4, <2>2, PieceSolid
  <2>4. /\ Append(current, p) \in Solids /\ End(Append(current, p)) = last
        /\ Begin(Append(current, p)) = m + 1
    <3>1. CASE current = <<>>
      <4>1. Append(current, p) = <<p>>
        BY <3>1
      <4> QED BY <1>2, <1>4, <2>3, <3>1, <4>1
    <3>2. CASE current # <<>>
      <4>1. Append(current, p) = current \o <<p>>
        OBVIOUS
      <4>2. current \in Solids /\ Begin(current) = m + 1 /\ End(current) = b
        BY <1>2, <3>2
      <4>3. Begin(current) \in Nat /\ End(current) \in Nat /\ Begin(current) <= End(current)
        BY <4>2, SolidIs
      <4>4. Begin(current) <= Begin(<<p>>) /\ Begin(<<p>>) <= End(current) + 1 /\ End(current) <= End(<<p>>)
        BY <1>4, <2>3, <4>2, <4>3
      <4>5. current \o <<p>> \in Solids /\ Begin(current \o <<p>>) = Begin(current) /\ End(current \o <<p>>) = End(<<p>>)
        BY <2>2, <2>3, <4>2, <4>4, SolidJoined
      <4> QED BY <2>3, <4>1, <4>2, <4>5
    <3> QED BY <3>1, <3>2
  <2>5. t.raw = raw /\ t.current = Append(current, p) /\ t.current # <<>>
    <3>1. Append(current, p) # <<>>
      BY <2>4, SolidIs
    <3> QED BY <2>1, <3>1
  <2> QED BY <1>2, <1>4, <1>5, <1>6, <2>4, <2>5 DEF ParagraphInv
<1> QED BY <1>7, <1>8, <1>9

NoRaw == [raw |-> <<>>, current |-> <<>>]

LEMMA RawRuns ==
  ASSUME NEW pieces \in Seq(Pieces)
  PROVE  \E g \in [0 .. Len(pieces) -> RawStates] :
           g = [i \in 0 .. Len(pieces) |-> IF i = 0 THEN NoRaw ELSE AddSentence(g[i - 1], pieces[i])]
<1>1. PICK n \in Nat : n = Len(pieces)
  BY LenProperties
<1> DEFINE F == [p \in (1 .. n) \X RawStates |-> AddSentence(p[2], pieces[p[1]])]
<1>2. NoRaw \in RawStates
  BY EmptySeq DEF NoRaw, RawStates
<1>3. F \in [(1 .. n) \X RawStates -> RawStates]
  <2>1. ASSUME NEW p \in (1 .. n) \X RawStates PROVE AddSentence(p[2], pieces[p[1]]) \in RawStates
    <3>1. p[1] \in 1 .. n /\ p[2] \in RawStates
      OBVIOUS
    <3>2. pieces[p[1]] \in Pieces
      BY <1>1, <3>1, ElementOfSeq
    <3> QED BY <3>1, <3>2, AddTyped
  <2> QED BY <2>1
<1>4. \A i \in 1 .. n, s \in RawStates : F[<<i, s>>] = AddSentence(s, pieces[i])
  OBVIOUS
<1> HIDE DEF F
<1>5. PICK g \in [0 .. n -> RawStates] : Iterates(g, n, NoRaw, F)
  BY <1>2, <1>3, IterationExists
<1>6. ASSUME NEW i \in 0 .. n PROVE g[i] = IF i = 0 THEN NoRaw ELSE AddSentence(g[i - 1], pieces[i])
  <2>1. CASE i = 0
    BY <1>5, <2>1 DEF Iterates
  <2>2. CASE i # 0
    <3>1. i \in 1 .. n /\ i - 1 \in 0 .. n
      BY <2>2
    <3>2. g[i - 1] \in RawStates /\ g[i] = F[<<i, g[i - 1]>>]
      BY <1>5, <3>1 DEF Iterates
    <3> QED BY <1>4, <2>2, <3>1, <3>2
  <2> QED BY <2>1, <2>2
<1>7. g = [i \in 0 .. n |-> IF i = 0 THEN NoRaw ELSE AddSentence(g[i - 1], pieces[i])]
  BY <1>6
<1> QED BY <1>1, <1>5, <1>7

LEMMA RawOfCovers ==
  ASSUME NEW paragraph \in Prose, NEW start \in Nat \ {0}
  PROVE  /\ SumOf(paragraph) \in Nat \ {0}
         /\ Covering(RawOf(paragraph, start), start, start + SumOf(paragraph) - 1)
<1>1. PICK n \in Nat : n = Len(paragraph)
  BY LenProperties DEF Prose
<1>2. PICK pieces : pieces = Sentences(paragraph, start)
  OBVIOUS
<1>3. PICK total \in Nat \ {0} : total = SumOf(paragraph)
  BY <1>1, SentencesAre
<1>4. n # 0 /\ Consecutive(pieces, n, start, start + total - 1)
  BY <1>1, <1>2, <1>3, SentencesAre
<1>5. CASE total <= MaxChars
  <2>1. PICK p : p = [first |-> start, last |-> start + total - 1]
    OBVIOUS
  <2>2. p \in Pieces /\ PieceSize(p) = total /\ p.first = start /\ p.last = start + total - 1
    BY <2>1 DEF Pieces, PieceSize
  <2>3. <<p>> \in Solids /\ Begin(<<p>>) = start /\ End(<<p>>) = start + total - 1
    BY <1>5, <2>2, PieceSolid
  <2>4. Covering(<<<<p>>>>, start, start + total - 1)
    BY <2>3, CoveringOne
  <2>5. RawOf(paragraph, start) = <<<<p>>>>
    BY <1>3, <1>5, <2>1 DEF RawOf
  <2> QED BY <1>3, <2>4, <2>5
<1>6. CASE ~(total <= MaxChars)
  <2> DEFINE Q(h) == h = [i \in 0 .. Len(pieces) |->
                            IF i = 0 THEN NoRaw ELSE AddSentence(h[i - 1], pieces[i])]
             run == CHOOSE h : Q(h)
  <2>1. RawOf(paragraph, start) = Flush(run[Len(pieces)])
    BY <1>2, <1>3, <1>6 DEF RawOf, NoRaw
  <2>2. pieces \in Seq(Pieces) /\ Len(pieces) = n
    BY <1>4 DEF Consecutive
  <2>3. PICK g \in [0 .. Len(pieces) -> RawStates] : Q(g)
    BY <2>2, RawRuns
  <2>4. Q(run)
    <3> HIDE DEF Q
    <3> QED BY <2>3
  <2> HIDE DEF run
  <2>5. run[0] = NoRaw /\ \A i \in 1 .. n : run[i] = AddSentence(run[i - 1], pieces[i])
    BY <2>2, <2>4
  <2> HIDE DEF Q
  <2>6. \A i \in 1 .. n : pieces[i] \in Pieces /\ pieces[i].last \in Nat
    BY <2>2, ElementOfSeq, PieceIs
  <2> DEFINE done(i) == IF i = 0 THEN start - 1 ELSE pieces[i].last
             T == {i \in 0 .. n : ParagraphInv(start, done(i), run[i])}
  <2>7. 0 \in T
    <3>1. NoRaw \in RawStates /\ NoRaw.raw = <<>> /\ NoRaw.current = <<>>
      BY EmptySeq DEF NoRaw, RawStates
    <3>2. Covering(<<>>, start, start - 1) /\ start - 1 \in Int
      BY CoveringNone
    <3>3. ParagraphInv(start, start - 1, NoRaw)
      BY <3>1, <3>2 DEF ParagraphInv
    <3> QED BY <2>5, <3>3
  <2>8. ASSUME NEW i \in 0 .. n - 1, i \in T PROVE i + 1 \in T
    <3>1. i + 1 \in 1 .. n /\ i + 1 \in 0 .. n /\ i + 1 - 1 = i /\ i + 1 # 0
      OBVIOUS
    <3>2. run[i + 1] = AddSentence(run[i], pieces[i + 1])
      BY <2>5, <3>1
    <3>3. pieces[i + 1] \in Pieces /\ done(i + 1) = pieces[i + 1].last /\ done(i) \in Int
      BY <2>6, <3>1
    <3>4. pieces[i + 1].first = done(i) + 1
      <4>1. CASE i = 0
        <5>1. pieces[i + 1].first = start
          BY <1>4, <4>1 DEF Consecutive
        <5> QED BY <4>1, <5>1
      <4>2. CASE i # 0
        <5>1. i \in 1 .. n - 1
          BY <4>2
        <5>2. pieces[i + 1].first = pieces[i].last + 1
          BY <1>4, <5>1 DEF Consecutive
        <5> QED BY <4>2, <5>2
      <4> QED BY <4>1, <4>2
    <3>5. ParagraphInv(start, done(i), run[i])
      BY <2>8
    <3> HIDE DEF done
    <3>6. ParagraphInv(start, pieces[i + 1].last, AddSentence(run[i], pieces[i + 1]))
      BY <3>3, <3>4, <3>5, AddSentenceStep
    <3> QED BY <3>1, <3>2, <3>3, <3>6
  <2>9. n \in T
    <3> HIDE DEF T
    <3>1. \A i \in 0 .. n : i \in T
      BY <2>7, <2>8, InductionUpTo
    <3> QED BY <3>1
  <2>10. done(n) = start + total - 1
    BY <1>4 DEF Consecutive
  <2>11. ParagraphInv(start, start + total - 1, run[n])
    BY <2>9, <2>10
  <2>12. Covering(Flush(run[n]), start, start + total - 1)
    BY <2>11, FlushCovers
  <2> QED BY <1>3, <2>1, <2>2, <2>12
<1> QED BY <1>5, <1>6

-----------------------------------------------------------------------------
\* The loop over the paragraphs of a text.
TextStates == [raw : Seq(Seq(Pieces)), start : Nat \ {0}]
NoText == [raw |-> <<>>, start |-> 1]
AddParagraph(s, paragraph) ==
  [raw |-> s.raw \o RawOf(paragraph, s.start), start |-> s.start + SumOf(paragraph)]
TextInv(s) == s \in TextStates /\ Covering(s.raw, 1, s.start - 1)
Sizes(text) == [i \in DOMAIN text |-> SumOf(text[i])]

LEMMA AddParagraphStep ==
  ASSUME NEW s \in TextStates, NEW paragraph \in Prose
  PROVE  /\ AddParagraph(s, paragraph) \in TextStates
         /\ AddParagraph(s, paragraph).start = s.start + SumOf(paragraph)
         /\ TextInv(s) => TextInv(AddParagraph(s, paragraph))
<1>1. PICK raw \in Seq(Seq(Pieces)), start \in Nat \ {0} : s = [raw |-> raw, start |-> start]
  BY DEF TextStates
<1>2. PICK size \in Nat \ {0} : size = SumOf(paragraph)
  BY RawOfCovers
<1>3. PICK new : new = RawOf(paragraph, start)
  OBVIOUS
<1>4. Covering(new, start, start + size - 1)
  BY <1>2, <1>3, RawOfCovers
<1>5. new \in Seq(Seq(Pieces)) /\ raw \o new \in Seq(Seq(Pieces))
  <2>1. new \in Seq(Seq(Pieces))
    BY <1>4, CoveringTyped
  <2> QED BY <2>1, ConcatProperties
<1>6. PICK next \in Nat \ {0} : next = start + size
  OBVIOUS
<1>7. AddParagraph(s, paragraph) = [raw |-> raw \o new, start |-> next]
  BY <1>1, <1>2, <1>3, <1>6 DEF AddParagraph
<1>8. AddParagraph(s, paragraph) \in TextStates
  BY <1>5, <1>7 DEF TextStates
<1>9. ASSUME TextInv(s) PROVE TextInv(AddParagraph(s, paragraph))
  <2>1. Covering(raw, 1, start - 1)
    BY <1>1, <1>9 DEF TextInv
  <2>2. start = (start - 1) + 1 /\ start - 1 \in Int /\ start + size - 1 \in Int /\ start + size - 1 = next - 1
    BY <1>6
  <2>3. Covering(raw \o new, 1, start + size - 1)
    BY <1>4, <2>1, <2>2, CoveringJoined
  <2>4. AddParagraph(s, paragraph).raw = raw \o new /\ AddParagraph(s, paragraph).start = next
    BY <1>7
  <2> QED BY <1>8, <2>2, <2>3, <2>4 DEF TextInv
<1> QED BY <1>1, <1>2, <1>6, <1>7, <1>8, <1>9

LEMMA TextRuns ==
  ASSUME NEW text \in Seq(Prose)
  PROVE  \E g \in [0 .. Len(text) -> TextStates] :
           g = [i \in 0 .. Len(text) |-> IF i = 0 THEN NoText ELSE AddParagraph(g[i - 1], text[i])]
<1>1. PICK n \in Nat : n = Len(text)
  BY LenProperties
<1> DEFINE F == [p \in (1 .. n) \X TextStates |-> AddParagraph(p[2], text[p[1]])]
<1>2. NoText \in TextStates
  BY EmptySeq DEF NoText, TextStates
<1>3. F \in [(1 .. n) \X TextStates -> TextStates]
  <2>1. ASSUME NEW p \in (1 .. n) \X TextStates PROVE AddParagraph(p[2], text[p[1]]) \in TextStates
    <3>1. p[1] \in 1 .. n /\ p[2] \in TextStates
      OBVIOUS
    <3>2. text[p[1]] \in Prose
      BY <1>1, <3>1, ElementOfSeq
    <3> QED BY <3>1, <3>2, AddParagraphStep
  <2> QED BY <2>1
<1>4. \A i \in 1 .. n, s \in TextStates : F[<<i, s>>] = AddParagraph(s, text[i])
  OBVIOUS
<1> HIDE DEF F
<1>5. PICK g \in [0 .. n -> TextStates] : Iterates(g, n, NoText, F)
  BY <1>2, <1>3, IterationExists
<1>6. ASSUME NEW i \in 0 .. n PROVE g[i] = IF i = 0 THEN NoText ELSE AddParagraph(g[i - 1], text[i])
  <2>1. CASE i = 0
    BY <1>5, <2>1 DEF Iterates
  <2>2. CASE i # 0
    <3>1. i \in 1 .. n /\ i - 1 \in 0 .. n
      BY <2>2
    <3>2. g[i - 1] \in TextStates /\ g[i] = F[<<i, g[i - 1]>>]
      BY <1>5, <3>1 DEF Iterates
    <3> QED BY <1>4, <2>2, <3>1, <3>2
  <2> QED BY <2>1, <2>2
<1>7. g = [i \in 0 .. n |-> IF i = 0 THEN NoText ELSE AddParagraph(g[i - 1], text[i])]
  BY <1>6
<1> QED BY <1>1, <1>5, <1>7

LEMMA SizesAre ==
  ASSUME NEW text \in Seq(Prose)
  PROVE  /\ Sizes(text) \in Seq(Nat) /\ Sizes(text) \in Seq(Int) /\ Len(Sizes(text)) = Len(text)
         /\ \A i \in 1 .. Len(text) : Sizes(text)[i] = SumOf(text[i]) /\ text[i] \in Prose
<1>1. PICK n \in Nat : n = Len(text) /\ DOMAIN text = 1 .. n
  BY LenProperties
<1>2. \A i \in 1 .. n : text[i] \in Prose /\ SumOf(text[i]) \in Nat
  <2>1. \A i \in 1 .. n : text[i] \in Prose
    BY <1>1, ElementOfSeq
  <2>2. 1 \in Nat \ {0}
    OBVIOUS
  <2> QED BY <2>1, <2>2, RawOfCovers
<1>3. PICK t : t = Sizes(text)
  OBVIOUS
<1>4. t \in [1 .. n -> Nat] /\ \A i \in 1 .. n : t[i] = SumOf(text[i])
  <2>1. t = [i \in 1 .. n |-> SumOf(text[i])]
    BY <1>1, <1>3 DEF Sizes
  <2> QED BY <1>2, <2>1
<1>5. t \in Seq(Nat)
  BY <1>4, SeqDef
<1>6. Len(t) = n /\ t \in Seq(Int)
  BY <1>4, <1>5, LenProperties, SeqMonotonic
<1> QED BY <1>1, <1>2, <1>3, <1>4, <1>5, <1>6

LEMMA RawCovers ==
  ASSUME NEW text \in Seq(Prose)
  PROVE  SumOf(Sizes(text)) \in Nat /\ Covering(Raw(text), 1, SumOf(Sizes(text)))
<1>1. PICK n \in Nat : n = Len(text)
  BY LenProperties
<1> DEFINE Q(h) == h = [i \in 0 .. Len(text) |-> IF i = 0 THEN NoText ELSE AddParagraph(h[i - 1], text[i])]
           run == CHOOSE h : Q(h)
<1>2. Raw(text) = run[Len(text)].raw
  BY Zenon DEF Raw, AddParagraph, NoText
<1>3. PICK g \in [0 .. n -> TextStates] : Q(g)
  BY <1>1, TextRuns
<1>4. Q(run)
  <2> HIDE DEF Q
  <2> QED BY <1>3
<1> HIDE DEF run
<1>5. run[0] = NoText /\ \A i \in 1 .. n : run[i] = AddParagraph(run[i - 1], text[i])
  BY <1>1, <1>4
<1> HIDE DEF Q
<1>6. PICK sizes : sizes = Sizes(text)
  OBVIOUS
<1>7. /\ sizes \in Seq(Nat) /\ sizes \in Seq(Int) /\ Len(sizes) = n
      /\ \A i \in 1 .. n : sizes[i] = SumOf(text[i]) /\ text[i] \in Prose /\ sizes[i] \in Nat
  <2>1. /\ sizes \in Seq(Nat) /\ sizes \in Seq(Int) /\ Len(sizes) = n
        /\ \A i \in 1 .. n : sizes[i] = SumOf(text[i]) /\ text[i] \in Prose
    BY <1>1, <1>6, SizesAre
  <2> QED BY <2>1, ElementOfSeq
<1>8. PICK sum \in [0 .. n -> Nat] : Sums(sum, sizes)
  BY <1>7, SumsExist
<1>9. sum[0] = 0 /\ \A i \in 1 .. n : sum[i] = sum[i - 1] + sizes[i]
  BY <1>7, <1>8 DEF Sums
<1>10. SumOf(sizes) = sum[n]
  <2>1. sum \in [0 .. Len(sizes) -> Int]
    BY <1>7
  <2> QED BY <1>7, <1>8, <2>1, SumOfIs
<1> DEFINE T == {i \in 0 .. n : TextInv(run[i]) /\ run[i].start = 1 + sum[i]}
<1>11. 0 \in T
  <2>1. NoText \in TextStates /\ NoText.raw = <<>> /\ NoText.start = 1
    BY EmptySeq DEF NoText, TextStates
  <2>2. Covering(<<>>, 1, 1 - 1)
    BY CoveringNone
  <2>3. TextInv(NoText)
    BY <2>1, <2>2 DEF TextInv
  <2> QED BY <1>5, <1>9, <2>1, <2>3
<1>12. ASSUME NEW i \in 0 .. n - 1, i \in T PROVE i + 1 \in T
  <2>1. i + 1 \in 1 .. n /\ i + 1 \in 0 .. n /\ i + 1 - 1 = i
    OBVIOUS
  <2>2. run[i + 1] = AddParagraph(run[i], text[i + 1]) /\ text[i + 1] \in Prose
    BY <1>5, <1>7, <2>1
  <2>3. TextInv(run[i]) /\ run[i] \in TextStates /\ run[i].start = 1 + sum[i]
    BY <1>12 DEF TextInv
  <2>4. TextInv(run[i + 1]) /\ run[i + 1].start = 1 + sum[i] + SumOf(text[i + 1])
    BY <2>2, <2>3, AddParagraphStep
  <2>5. sum[i + 1] = sum[i] + SumOf(text[i + 1]) /\ SumOf(text[i + 1]) \in Nat /\ sum[i] \in Nat
    BY <1>7, <1>9, <2>1
  <2>6. run[i + 1].start = 1 + sum[i + 1]
    BY <2>4, <2>5
  <2> QED BY <2>1, <2>4, <2>6
<1>13. n \in T
  <2> HIDE DEF T
  <2>1. \A i \in 0 .. n : i \in T
    BY <1>11, <1>12, InductionUpTo
  <2> QED BY <2>1
<1>14. Covering(run[n].raw, 1, run[n].start - 1) /\ run[n].start = 1 + sum[n] /\ sum[n] \in Nat
  BY <1>13 DEF TextInv
<1>15. 1 + sum[n] - 1 = sum[n]
  BY <1>14
<1> QED BY <1>1, <1>2, <1>6, <1>10, <1>14, <1>15

-----------------------------------------------------------------------------
(***************************************************************************)
(* Merging: what the loop over the chunks has made of the first i of them. *)
(***************************************************************************)
MergeInv(raw, i, chunks) ==
  /\ InOrder(chunks) /\ chunks # <<>>
  /\ Begin(chunks[1]) = Begin(raw[1]) /\ End(chunks[Len(chunks)]) = End(raw[i])
  /\ \A j \in i + 1 .. Len(raw) :
       /\ Begin(chunks[Len(chunks)]) < Begin(raw[j])
       /\ \A k \in 1 .. Len(chunks) - 1 : End(chunks[k]) < Begin(raw[j])

\* An order is kept when its last chunk gives way to one that ends later.
LEMMA InOrderLonger ==
  ASSUME NEW s, InOrder(s), NEW n \in Nat \ {0}, n = Len(s), NEW c \in Solids,
         Begin(c) = Begin(s[n]), End(s[n]) <= End(c)
  PROVE  InOrder([s EXCEPT ![n] = c])
<1>1. s \in Seq(Solids) /\ DOMAIN s = 1 .. n
  BY LenProperties DEF InOrder
<1>2. PICK t : t = [s EXCEPT ![n] = c]
  OBVIOUS
<1>3. n \in 1 .. n
  OBVIOUS
<1>4. s \in [1 .. n -> Solids]
  BY <1>1, LenProperties
<1>5. t \in [1 .. n -> Solids] /\ \A i \in 1 .. n : t[i] = IF i = n THEN c ELSE s[i]
  BY <1>2, <1>3, <1>4
<1>6. t \in Seq(Solids) /\ Len(t) = n
  <2>1. t \in Seq(Solids)
    BY <1>5, SeqDef
  <2> QED BY <1>5, <2>1, LenProperties
<1>7. ASSUME NEW i \in 1 .. n, NEW j \in 1 .. n, i < j
      PROVE  IF j = i + 1 THEN Touch(t[i], t[j]) ELSE Apart(t[i], t[j])
  <2>1. t[i] = s[i] /\ s[i] \in Solids /\ s[j] \in Solids
    BY <1>4, <1>5, <1>7
  <2>2. IF j = i + 1 THEN Touch(s[i], s[j]) ELSE Apart(s[i], s[j])
    BY <1>7 DEF InOrder
  <2>3. CASE j # n
    BY <1>5, <2>1, <2>2, <2>3
  <2>4. CASE j = n
    <3>1. t[j] = c
      BY <1>5, <2>4
    <3>2. /\ Begin(s[i]) \in Nat /\ End(s[i]) \in Nat /\ Begin(s[j]) \in Nat /\ End(s[j]) \in Nat
          /\ Begin(c) \in Nat /\ End(c) \in Nat
      BY <2>1, SolidIs
    <3>3. Begin(c) = Begin(s[j]) /\ End(s[j]) <= End(c)
      BY <2>4
    <3> QED BY <2>1, <2>2, <3>1, <3>2, <3>3 DEF Touch, Apart
  <2> QED BY <2>3, <2>4
<1> QED BY <1>2, <1>6, <1>7 DEF InOrder

\* An order is kept when a chunk after all of it is added.
LEMMA InOrderAppended ==
  ASSUME NEW s, InOrder(s), NEW n \in Nat \ {0}, n = Len(s), NEW c \in Solids,
         Touch(s[n], c), \A k \in 1 .. n - 1 : Apart(s[k], c)
  PROVE  InOrder(Append(s, c)) /\ Len(Append(s, c)) = n + 1
<1>1. s \in Seq(Solids)
  BY DEF InOrder
<1>2. PICK t : t = Append(s, c)
  OBVIOUS
<1>3. t \in Seq(Solids) /\ Len(t) = n + 1 /\ t[n + 1] = c /\ \A i \in 1 .. n : t[i] = s[i]
  BY <1>1, <1>2, AppendProperties
<1>4. ASSUME NEW i \in 1 .. n + 1, NEW j \in 1 .. n + 1, i < j
      PROVE  IF j = i + 1 THEN Touch(t[i], t[j]) ELSE Apart(t[i], t[j])
  <2>1. i \in 1 .. n /\ t[i] = s[i]
    BY <1>3, <1>4
  <2>2. CASE j # n + 1
    <3>1. j \in 1 .. n /\ t[j] = s[j]
      BY <1>3, <2>2
    <3> QED BY <1>4, <2>1, <3>1 DEF InOrder
  <2>3. CASE j = n + 1 /\ i = n
    BY <1>3, <2>1, <2>3
  <2>4. CASE j = n + 1 /\ i # n
    <3>1. i \in 1 .. n - 1 /\ j # i + 1
      BY <2>1, <2>4
    <3> QED BY <1>3, <2>1, <2>4, <3>1
  <2> QED BY <2>2, <2>3, <2>4
<1> QED BY <1>2, <1>3, <1>4 DEF InOrder

LEMMA FirstMerged ==
  ASSUME NEW raw, NEW n \in Nat \ {0}, n = Len(raw), InOrder(raw)
  PROVE  Merge(<<>>, raw[1]) = <<raw[1]>> /\ MergeInv(raw, 1, <<raw[1]>>)
<1>1. 1 \in 1 .. n /\ raw \in Seq(Solids)
  BY DEF InOrder
<1>2. PICK c \in Solids : c = raw[1]
  BY <1>1, ElementOfSeq
<1>3. Merge(<<>>, c) = <<c>>
  BY DEF Merge
<1>4. InOrder(<<c>>)
  BY CoveringOne DEF Covering
<1>5. Len(<<c>>) = 1 /\ <<c>>[1] = c /\ <<c>> # <<>>
  OBVIOUS
<1>6. \A j \in 2 .. n : Begin(c) < Begin(raw[j])
  <2> SUFFICES ASSUME NEW j \in 2 .. n PROVE Begin(c) < Begin(raw[j])
    OBVIOUS
  <2>1. j \in 1 .. n /\ 1 < j
    OBVIOUS
  <2> QED BY <1>1, <1>2, <2>1 DEF InOrder, Touch, Apart
<1>7. \A k \in 1 .. 1 - 1 : FALSE
  OBVIOUS
<1> QED BY <1>2, <1>3, <1>4, <1>5, <1>6, <1>7 DEF MergeInv

LEMMA MergeStep ==
  ASSUME NEW raw, NEW n \in Nat, n = Len(raw), InOrder(raw), NEW i \in 1 .. n - 1, NEW chunks,
         MergeInv(raw, i, chunks)
  PROVE  MergeInv(raw, i + 1, Merge(chunks, raw[i + 1]))
<1>1. PICK h \in 2 .. n : h = i + 1
  OBVIOUS
<1>2. i \in 1 .. n /\ h \in 1 .. n /\ i < h
  BY <1>1
<1>3. raw \in Seq(Solids) /\ chunks \in Seq(Solids) /\ chunks # <<>>
  BY DEF InOrder, MergeInv
<1>4. PICK c \in Solids : c = raw[h]
  BY <1>2, <1>3, ElementOfSeq
<1>5. PICK m \in Nat \ {0} : m = Len(chunks)
  <2>1. Len(chunks) \in Nat /\ Len(chunks) # 0
    BY <1>3, EmptySeq, LenProperties
  <2> QED BY <2>1
<1>6. m \in 1 .. m /\ 1 \in 1 .. m
  OBVIOUS
<1>7. PICK d \in Solids : d = chunks[m]
  BY <1>3, <1>5, <1>6, ElementOfSeq
<1>8. Touch(raw[i], c)
  BY <1>1, <1>2, <1>4 DEF InOrder
<1>9. /\ Begin(chunks[1]) = Begin(raw[1]) /\ End(d) = End(raw[i])
      /\ \A j \in h .. n : /\ Begin(d) < Begin(raw[j])
                           /\ \A k \in 1 .. m - 1 : End(chunks[k]) < Begin(raw[j])
  BY <1>1, <1>5, <1>7 DEF MergeInv
<1>10. /\ Begin(c) \in Nat /\ End(c) \in Nat /\ Begin(c) <= End(c)
       /\ Begin(d) \in Nat /\ End(d) \in Nat /\ Begin(d) <= End(d)
       /\ ChunkSize(c) \in 1 .. MaxChars /\ ChunkSize(d) \in 1 .. MaxChars
  BY SolidIs
<1>11. \A k \in 1 .. m : /\ chunks[k] \in Solids /\ Begin(chunks[k]) \in Nat /\ End(chunks[k]) \in Nat
                         /\ Begin(chunks[k]) <= End(chunks[k])
  BY <1>3, <1>5, ElementOfSeq, SolidIs
<1>12. Touch(d, c) /\ h \in h .. n
  BY <1>8, <1>9, <1>4, <1>2 DEF Touch
<1>13. ASSUME NEW j \in h + 1 .. n
       PROVE  /\ j \in h .. n /\ j \in 1 .. n /\ h < j /\ Begin(c) < Begin(raw[j])
              /\ End(d) < Begin(raw[j])
  <2>1. j \in h .. n /\ j \in 1 .. n /\ h < j /\ i < j /\ j # i + 1
    BY <1>1
  <2>2. Begin(c) < Begin(raw[j])
    BY <1>2, <1>4, <2>1 DEF InOrder, Touch, Apart
  <2>3. Apart(raw[i], raw[j])
    BY <1>2, <2>1 DEF InOrder
  <2>4. End(d) < Begin(raw[j])
    BY <1>9, <2>3 DEF Apart
  <2> QED BY <2>1, <2>2, <2>4
<1>14. InOrder(chunks)
  BY DEF MergeInv
<1>15. CASE Fits(d, c)
  <2>1. Merge(chunks, c) = [chunks EXCEPT ![m] = d \o c]
    BY <1>3, <1>5, <1>7, <1>15 DEF Merge
  <2>2. ChunkSize(d) + ChunkSize(c) <= MaxChars
    BY <1>15 DEF Fits
  <2>3. PICK e \in Solids : e = d \o c /\ Begin(e) = Begin(d) /\ End(e) = End(c)
    <3>1. Begin(d) <= Begin(c) /\ Begin(c) <= End(d) + 1 /\ End(d) <= End(c)
      BY <1>10, <1>12 DEF Touch
    <3> QED BY <2>2, <3>1, SolidJoined
  <2>4. PICK t : t = [chunks EXCEPT ![m] = e]
    OBVIOUS
  <2>5. InOrder(t)
    <3>1. Begin(e) = Begin(chunks[m]) /\ End(chunks[m]) <= End(e)
      BY <1>7, <1>12, <2>3 DEF Touch
    <3> QED BY <1>5, <1>14, <2>4, <3>1, InOrderLonger
  <2>6. Len(t) = m /\ t[m] = e /\ (\A k \in 1 .. m - 1 : t[k] = chunks[k]) /\ t # <<>>
    <3>1. chunks \in [1 .. m -> Solids]
      BY <1>3, <1>5, LenProperties
    <3>2. t \in [1 .. m -> Solids] /\ t[m] = e /\ \A k \in 1 .. m - 1 : t[k] = chunks[k]
      BY <1>6, <2>4, <3>1
    <3>3. t \in Seq(Solids)
      BY <2>5 DEF InOrder
    <3>4. Len(t) = m
      BY <3>2, <3>3, LenProperties
    <3> QED BY <3>2, <3>3, <3>4, EmptySeq
  <2>7. Begin(t[1]) = Begin(raw[1])
    <3>1. CASE m = 1
      BY <1>7, <1>9, <2>3, <2>6, <3>1
    <3>2. CASE m # 1
      <4>1. 1 \in 1 .. m - 1
        BY <3>2
      <4> QED BY <1>9, <2>6, <4>1
    <3> QED BY <3>1, <3>2
  <2>8. End(t[m]) = End(raw[h])
    BY <1>4, <2>3, <2>6
  <2>9. \A j \in h + 1 .. n : /\ Begin(t[m]) < Begin(raw[j])
                              /\ \A k \in 1 .. m - 1 : End(t[k]) < Begin(raw[j])
    BY <1>9, <1>13, <2>3, <2>6
  <2>10. MergeInv(raw, h, t)
    BY <2>5, <2>6, <2>7, <2>8, <2>9 DEF MergeInv
  <2> QED BY <1>1, <1>4, <2>1, <2>3, <2>4, <2>10
<1>16. CASE ~Fits(d, c)
  <2>1. Merge(chunks, c) = Append(chunks, c)
    BY <1>3, <1>5, <1>7, <1>16 DEF Merge
  <2>2. PICK t : t = Append(chunks, c)
    OBVIOUS
  <2>3. \A k \in 1 .. m - 1 : Apart(chunks[k], c)
    <3> SUFFICES ASSUME NEW k \in 1 .. m - 1 PROVE Apart(chunks[k], c)
      OBVIOUS
    <3>1. End(chunks[k]) < Begin(c) /\ k \in 1 .. m
      BY <1>4, <1>9, <1>12
    <3> QED BY <1>10, <1>11, <3>1 DEF Apart
  <2>4. InOrder(t) /\ Len(t) = m + 1
    BY <1>5, <1>7, <1>12, <1>14, <2>2, <2>3, InOrderAppended
  <2>5. t[m + 1] = c /\ (\A k \in 1 .. m : t[k] = chunks[k]) /\ t # <<>>
    <3>1. t[m + 1] = c /\ \A k \in 1 .. m : t[k] = chunks[k]
      BY <1>3, <1>5, <2>2, AppendProperties
    <3>2. t \in Seq(Solids)
      BY <2>4 DEF InOrder
    <3> QED BY <2>4, <3>1, <3>2, EmptySeq
  <2>6. ASSUME NEW j \in h + 1 .. n
        PROVE  /\ Begin(t[m + 1]) < Begin(raw[j])
               /\ \A k \in 1 .. m : End(t[k]) < Begin(raw[j])
    <3>1. Begin(c) < Begin(raw[j]) /\ End(d) < Begin(raw[j]) /\ j \in h .. n
      BY <1>13
    <3>2. ASSUME NEW k \in 1 .. m PROVE End(chunks[k]) < Begin(raw[j])
      <4>1. CASE k = m
        BY <1>7, <3>1, <4>1
      <4>2. CASE k # m
        <5>1. k \in 1 .. m - 1
          BY <4>2
        <5> QED BY <1>9, <3>1, <5>1
      <4> QED BY <4>1, <4>2
    <3> QED BY <2>5, <3>1, <3>2
  <2>7. m + 1 - 1 = m /\ Begin(t[1]) = Begin(raw[1]) /\ End(t[m + 1]) = End(raw[h])
    BY <1>4, <1>6, <1>9, <2>5
  <2>8. PICK q \in Nat : q = m + 1
    OBVIOUS
  <2>9. MergeInv(raw, h, t)
    <3>1. \A j \in h + 1 .. n : /\ Begin(t[q]) < Begin(raw[j])
                                /\ \A k \in 1 .. q - 1 : End(t[k]) < Begin(raw[j])
      BY <2>6, <2>7, <2>8
    <3> QED BY <2>4, <2>5, <2>7, <2>8, <3>1 DEF MergeInv
  <2> QED BY <1>1, <1>4, <2>1, <2>2, <2>9
<1> QED BY <1>15, <1>16

LEMMA MergeTyped ==
  ASSUME NEW chunks \in Seq(Seq(Pieces)), NEW c \in Seq(Pieces)
  PROVE  Merge(chunks, c) \in Seq(Seq(Pieces))
<1>1. PICK n \in Nat : n = Len(chunks)
  BY LenProperties
<1>2. Append(chunks, c) \in Seq(Seq(Pieces))
  OBVIOUS
<1>3. ASSUME chunks # <<>> PROVE [chunks EXCEPT ![n] = @ \o c] \in Seq(Seq(Pieces))
  <2>1. n \in 1 .. n
    BY <1>1, <1>3, EmptySeq
  <2>2. chunks \in [1 .. n -> Seq(Pieces)] /\ chunks[n] \o c \in Seq(Pieces)
    BY <1>1, <2>1, LenProperties, ElementOfSeq, ConcatProperties
  <2>3. [chunks EXCEPT ![n] = @ \o c] \in [1 .. n -> Seq(Pieces)]
    BY <2>1, <2>2
  <2> QED BY <2>3, SeqDef
<1> QED BY <1>1, <1>2, <1>3 DEF Merge

LEMMA MergeRuns ==
  ASSUME NEW raw \in Seq(Seq(Pieces))
  PROVE  \E g \in [0 .. Len(raw) -> Seq(Seq(Pieces))] :
           g = [i \in 0 .. Len(raw) |-> IF i = 0 THEN <<>> ELSE Merge(g[i - 1], raw[i])]
<1>1. PICK n \in Nat : n = Len(raw)
  BY LenProperties
<1>2. PICK S : S = Seq(Seq(Pieces))
  OBVIOUS
<1> DEFINE F == [p \in (1 .. n) \X S |-> Merge(p[2], raw[p[1]])]
<1>3. <<>> \in S
  BY <1>2, EmptySeq
<1>4. F \in [(1 .. n) \X S -> S]
  <2>1. ASSUME NEW p \in (1 .. n) \X S PROVE Merge(p[2], raw[p[1]]) \in S
    <3>1. p[1] \in 1 .. n /\ p[2] \in S
      OBVIOUS
    <3>2. raw[p[1]] \in Seq(Pieces)
      BY <1>1, <3>1, ElementOfSeq
    <3> QED BY <1>2, <3>1, <3>2, MergeTyped
  <2> QED BY <2>1
<1>5. \A i \in 1 .. n, s \in S : F[<<i, s>>] = Merge(s, raw[i])
  OBVIOUS
<1> HIDE DEF F
<1>6. PICK g \in [0 .. n -> S] : Iterates(g, n, <<>>, F)
  BY <1>3, <1>4, IterationExists
<1>7. ASSUME NEW i \in 0 .. n PROVE g[i] = IF i = 0 THEN <<>> ELSE Merge(g[i - 1], raw[i])
  <2>1. CASE i = 0
    BY <1>6, <2>1 DEF Iterates
  <2>2. CASE i # 0
    <3>1. i \in 1 .. n /\ i - 1 \in 0 .. n
      BY <2>2
    <3>2. g[i - 1] \in S /\ g[i] = F[<<i, g[i - 1]>>]
      BY <1>6, <3>1 DEF Iterates
    <3> QED BY <1>5, <2>2, <3>1, <3>2
  <2> QED BY <2>1, <2>2
<1>8. g = [i \in 0 .. n |-> IF i = 0 THEN <<>> ELSE Merge(g[i - 1], raw[i])]
  BY <1>7
<1> QED BY <1>1, <1>2, <1>6, <1>8

\* Whatever the text, its chunks are all of it.
LEMMA ChunkTextCovers ==
  ASSUME NEW text \in Seq(Prose)
  PROVE  SumOf(Sizes(text)) \in Nat /\ Covering(ChunkText(text), 1, SumOf(Sizes(text)))
<1>1. PICK raw : raw = Raw(text)
  OBVIOUS
<1>2. PICK total \in Nat : total = SumOf(Sizes(text))
  BY RawCovers
<1>3. Covering(raw, 1, total)
  BY <1>1, <1>2, RawCovers
<1>4. InOrder(raw) /\ raw \in Seq(Solids) /\ raw \in Seq(Seq(Pieces))
  BY <1>3, CoveringTyped DEF Covering
<1>5. PICK n \in Nat : n = Len(raw)
  BY <1>4, LenProperties
<1> DEFINE Q(h) == h = [i \in 0 .. Len(raw) |-> IF i = 0 THEN <<>> ELSE Merge(h[i - 1], raw[i])]
           run == CHOOSE h : Q(h)
<1>6. ChunkText(text) = run[Len(raw)]
  BY <1>1, Zenon DEF ChunkText
<1>7. PICK g \in [0 .. Len(raw) -> Seq(Seq(Pieces))] : Q(g)
  BY <1>4, MergeRuns
<1>8. Q(run)
  <2> HIDE DEF Q
  <2> QED BY <1>7
<1> HIDE DEF run
<1>9. run[0] = <<>> /\ \A i \in 1 .. n : run[i] = Merge(run[i - 1], raw[i])
  BY <1>5, <1>8
<1> HIDE DEF Q
<1>10. CASE n = 0
  <2>1. raw = <<>>
    BY <1>4, <1>5, <1>10, EmptySeq
  <2>2. total = 1 - 1
    BY <1>3, <2>1 DEF Covering
  <2>3. Covering(<<>>, 1, 1 - 1)
    BY CoveringNone
  <2> QED BY <1>2, <1>5, <1>6, <1>9, <1>10, <2>2, <2>3
<1>11. CASE n # 0
  <2> DEFINE T == {i \in 0 .. n : i # 0 => MergeInv(raw, i, run[i])}
  <2>1. 0 \in T
    OBVIOUS
  <2>2. ASSUME NEW i \in 0 .. n - 1, i \in T PROVE i + 1 \in T
    <3>1. i + 1 \in 1 .. n /\ i + 1 \in 0 .. n /\ i + 1 - 1 = i
      OBVIOUS
    <3>2. run[i + 1] = Merge(run[i], raw[i + 1])
      BY <1>9, <3>1
    <3>3. CASE i = 0
      <4>1. n \in Nat \ {0}
        BY <1>11
      <4>2. MergeInv(raw, 1, Merge(<<>>, raw[1]))
        BY <1>4, <1>5, <4>1, FirstMerged
      <4> QED BY <1>9, <3>1, <3>2, <3>3, <4>2
    <3>4. CASE i # 0
      <4>1. i \in 1 .. n - 1 /\ MergeInv(raw, i, run[i])
        BY <2>2, <3>4
      <4>2. MergeInv(raw, i + 1, Merge(run[i], raw[i + 1]))
        BY <1>4, <1>5, <4>1, MergeStep
      <4> QED BY <3>1, <3>2, <4>2
    <3> QED BY <3>3, <3>4
  <2>3. n \in T
    <3> HIDE DEF T
    <3>1. \A i \in 0 .. n : i \in T
      BY <2>1, <2>2, InductionUpTo
    <3> QED BY <3>1
  <2>4. MergeInv(raw, n, run[n])
    BY <1>11, <2>3
  <2>5. raw # <<>>
    BY <1>4, <1>5, <1>11, EmptySeq
  <2>6. Begin(raw[1]) = 1 /\ End(raw[n]) = total
    BY <1>3, <1>5, <2>5 DEF Covering
  <2>7. Covering(run[n], 1, total)
    BY <2>4, <2>6 DEF MergeInv, Covering
  <2> QED BY <1>2, <1>5, <1>6, <2>7
<1> QED BY <1>10, <1>11

\* Chunks that are all of a text, up to a letter, hold each letter up to it.
LEMMA NoneMissing ==
  ASSUME NEW chunks, NEW total \in Nat, Covering(chunks, 1, total), NEW n \in Nat, n = Len(chunks),
         NEW l \in 1 .. total
  PROVE  \E i \in 1 .. n : l \in Letters(chunks[i])
<1>1. /\ \A i \in 1 .. n : chunks[i] \in Solids
      /\ chunks = <<>> <=> n = 0
  BY CoveringIs
<1>2. \A i \in 1 .. n : /\ Begin(chunks[i]) \in Nat /\ End(chunks[i]) \in Nat
                        /\ Letters(chunks[i]) = Begin(chunks[i]) .. End(chunks[i])
  BY <1>1, SolidIs
<1>3. n # 0 /\ Begin(chunks[1]) = 1 /\ End(chunks[n]) = total
  <2>1. chunks # <<>>
    BY DEF Covering
  <2> QED BY <1>1, <2>1 DEF Covering
<1> DEFINE K == {i \in 1 .. n : l <= End(chunks[i])}
<1>4. K \in SUBSET Nat /\ n \in K
  BY <1>3
<1>5. PICK i \in K : \A j \in K : i <= j
  <2> HIDE DEF K
  <2> QED BY <1>4, LeastOf
<1>6. i \in 1 .. n /\ l <= End(chunks[i])
  BY <1>5
<1>7. Begin(chunks[i]) <= l
  <2>1. CASE i = 1
    BY <1>3, <2>1
  <2>2. CASE i # 1
    <3>1. PICK h \in 1 .. n : h = i - 1
      BY <1>6, <2>2
    <3>2. h < i /\ i = h + 1
      BY <1>6, <3>1
    <3>3. ~(h \in K)
      BY <1>5, <3>1, <3>2
    <3>4. ~(l <= End(chunks[h]))
      BY <3>1, <3>3
    <3>5. Touch(chunks[h], chunks[i])
      BY <1>6, <3>1, <3>2 DEF Covering, InOrder
    <3>6. Begin(chunks[i]) <= End(chunks[h]) + 1
      BY <3>5 DEF Touch
    <3> QED BY <1>2, <1>6, <3>1, <3>4, <3>6
  <2> QED BY <2>1, <2>2
<1> QED BY <1>2, <1>6, <1>7

LEMMA TwoAtMost ==
  ASSUME NEW chunks, NEW total \in Nat, Covering(chunks, 1, total), NEW n \in Nat, n = Len(chunks),
         NEW l \in Nat
  PROVE  Cardinality({i \in 1 .. n : l \in Letters(chunks[i])}) <= 2
<1>1. \A i \in 1 .. n : chunks[i] \in Solids
  BY CoveringIs
<1>2. \A i \in 1 .. n : /\ Begin(chunks[i]) \in Nat /\ End(chunks[i]) \in Nat
                        /\ Letters(chunks[i]) = Begin(chunks[i]) .. End(chunks[i])
  BY <1>1, SolidIs
<1> DEFINE K == {i \in 1 .. n : l \in Letters(chunks[i])}
<1>3. CASE K = {}
  BY <1>3, FS_EmptySet
<1>4. CASE K # {}
  <2>1. K \in SUBSET Nat
    OBVIOUS
  <2>2. PICK i \in K : \A j \in K : i <= j
    <3> HIDE DEF K
    <3> QED BY <1>4, <2>1, LeastOf
  <2>3. i \in 1 .. n /\ l \in Letters(chunks[i])
    BY <2>2
  <2>4. ASSUME NEW j \in K PROVE j = i \/ j = i + 1
    <3> SUFFICES ASSUME j # i, j # i + 1 PROVE FALSE
      OBVIOUS
    <3>1. j \in 1 .. n /\ i < j /\ l \in Letters(chunks[j])
      BY <2>2, <2>3
    <3>2. Apart(chunks[i], chunks[j])
      BY <2>3, <3>1 DEF Covering, InOrder
    <3> QED BY <1>2, <2>3, <3>1, <3>2 DEF Apart
  <2>5. K \subseteq {i, i + 1}
    BY <2>4
  <2>6. IsFiniteSet({i, i + 1}) /\ Cardinality({i, i + 1}) = 2
    <3>1. i # i + 1
      BY <2>3
    <3>2. PICK one, both, h : one = {i} /\ h = i + 1 /\ both = one \cup {h}
      OBVIOUS
    <3>3. IsFiniteSet(one) /\ Cardinality(one) = 1
      BY <3>2, FS_Singleton
    <3>4. IsFiniteSet(both) /\ Cardinality(both) = 1 + 1
      <4>1. h \notin one
        BY <3>1, <3>2
      <4>2. IsFiniteSet(both) /\ Cardinality(both) = Cardinality(one) + 1
        BY <3>2, <3>3, <4>1, FS_AddElement
      <4> QED BY <3>3, <4>2
    <3>5. both = {i, i + 1}
      BY <3>2
    <3> QED BY <3>4, <3>5
  <2>7. Cardinality(K) <= Cardinality({i, i + 1})
    <3> HIDE DEF K
    <3> QED BY <2>5, <2>6, FS_Subset
  <2> QED BY <2>6, <2>7
<1> QED BY <1>3, <1>4

LEMMA CoveredText ==
  ASSUME NEW text \in Seq(Prose), chunkerText = text, Covering(chunkerOut, 1, SumOf(Sizes(text)))
  PROVE  ChunksCover
<1>1. PICK chunks : chunks = chunkerOut
  OBVIOUS
<1>2. PICK total \in Nat : total = SumOf(Sizes(text))
  BY RawCovers
<1>3. total = SumOf([i \in DOMAIN chunkerText |-> SumOf(chunkerText[i])])
  BY <1>2 DEF Sizes
<1>4. Covering(chunks, 1, total)
  BY <1>1, <1>2
<1>5. PICK n \in Nat : n = Len(chunks) /\ DOMAIN chunks = 1 .. n
  BY <1>4, LenProperties DEF Covering, InOrder
<1>6. \A i \in 1 .. n : chunks[i] \in Solids /\ Begin(chunks[i]) >= 1 /\ End(chunks[i]) <= total
  BY <1>4, <1>5, CoveringIs
<1>7. \A i \in 1 .. n : /\ Begin(chunks[i]) \in Nat /\ End(chunks[i]) \in Nat
                        /\ Letters(chunks[i]) = Begin(chunks[i]) .. End(chunks[i])
                        /\ ChunkSize(chunks[i]) \in 1 .. MaxChars
  BY <1>6, SolidIs
<1>8. UNION {Letters(chunks[i]) : i \in 1 .. n} = 1 .. total
  <2>1. ASSUME NEW l \in UNION {Letters(chunks[i]) : i \in 1 .. n} PROVE l \in 1 .. total
    <3>1. PICK i \in 1 .. n : l \in Letters(chunks[i])
      OBVIOUS
    <3> QED BY <1>6, <1>7, <3>1
  <2>2. ASSUME NEW l \in 1 .. total PROVE l \in UNION {Letters(chunks[i]) : i \in 1 .. n}
    <3>1. PICK i \in 1 .. n : l \in Letters(chunks[i])
      BY <1>4, <1>5, NoneMissing
    <3> QED BY <3>1
  <2> QED BY <2>1, <2>2
<1>9. \A i, j \in 1 .. n : i < j => chunks[i][1].first < chunks[j][1].first
  BY <1>4, <1>5 DEF Covering, InOrder, Touch, Apart, Begin
<1>10. \A l \in 1 .. total : Cardinality({i \in 1 .. n : l \in Letters(chunks[i])}) <= 2
  BY <1>4, <1>5, TwoAtMost
<1>11. /\ UNION {Letters(chunkerOut[i]) : i \in DOMAIN chunkerOut} = 1 .. total
       /\ \A i, j \in DOMAIN chunkerOut : i < j => chunkerOut[i][1].first < chunkerOut[j][1].first
       /\ \A i \in DOMAIN chunkerOut : ChunkSize(chunkerOut[i]) \in 1 .. MaxChars
       /\ \A l \in 1 .. total : Cardinality({i \in DOMAIN chunkerOut : l \in Letters(chunkerOut[i])}) <= 2
  <2>1. DOMAIN chunkerOut = 1 .. n
    BY <1>1, <1>5
  <2>2. \A i \in 1 .. n : ChunkSize(chunks[i]) \in 1 .. MaxChars
    BY <1>7
  <2> QED BY <1>1, <1>8, <1>9, <1>10, <2>1, <2>2, Zenon
<1> QED BY <1>3, <1>11, Zenon DEF ChunksCover

LEMMA ParagraphsAreProse ==
  ASSUME NEW n \in Nat, NEW text \in [1 .. n -> Paragraphs]
  PROVE  text \in Seq(Prose)
<1>1. ASSUME NEW paragraph \in Paragraphs PROVE paragraph \in Prose
  <2>1. PICK m \in 1 .. MaxSentences : paragraph \in [1 .. m -> SentenceSizes]
    BY DEF Paragraphs
  <2>2. m \in Nat \ {0} /\ SentenceSizes \subseteq Nat \ {0}
    BY ChunkerAssumption
  <2>3. paragraph \in [1 .. m -> Nat \ {0}]
    BY <2>1, <2>2
  <2>4. paragraph \in Seq(Nat \ {0}) /\ Len(paragraph) = m
    <3>1. paragraph \in Seq(Nat \ {0})
      BY <2>2, <2>3, SeqDef
    <3> QED BY <2>2, <2>3, <3>1, LenProperties
  <2> QED BY <2>2, <2>4, EmptySeq DEF Prose
<1>2. text \in [1 .. n -> Prose]
  BY <1>1
<1> QED BY <1>2, SeqDef

ChunkerSpec == ChunkerInit /\ [][ChunkerNext]_chunkerVars

(***************************************************************************)
(* Whatever the paragraphs of a document and the lengths of their          *)
(* sentences, and for any sizes and overlap that chunkText's clamp lets    *)
(* through, the chunks that are embedded hold every letter, in order, none *)
(* in more than two of them and none too long for a request.               *)
(***************************************************************************)
THEOREM ChunksCoverText == ChunkerSpec => []ChunksCover
<1> DEFINE IInv == /\ chunkerText \in Seq(Prose)
                   /\ Covering(chunkerOut, 1, SumOf(Sizes(chunkerText)))
<1>1. ChunkerInit => IInv
  <2> SUFFICES ASSUME ChunkerInit PROVE IInv
    OBVIOUS
  <2>1. chunkerText = <<>> /\ chunkerOut = <<>> /\ <<>> \in Seq(Prose)
    BY EmptySeq DEF ChunkerInit
  <2>2. Sizes(<<>>) = <<>>
    BY DEF Sizes
  <2>3. SumOf(Sizes(<<>>)) = 1 - 1
    BY <2>2, SumOfEmpty
  <2>4. Covering(<<>>, 1, 1 - 1)
    BY CoveringNone
  <2> QED BY <2>1, <2>3, <2>4
<1>2. IInv /\ [ChunkerNext]_chunkerVars => IInv'
  <2> SUFFICES ASSUME IInv, [ChunkerNext]_chunkerVars PROVE IInv'
    OBVIOUS
  <2>1. CASE ChunkDocument
    <3>1. PICK n \in 1 .. 2 : \E text \in [1 .. n -> Paragraphs] :
                                chunkerText' = text /\ chunkerOut' = ChunkText(text)
      BY <2>1 DEF ChunkDocument
    <3>2. PICK text \in [1 .. n -> Paragraphs] : chunkerText' = text /\ chunkerOut' = ChunkText(text)
      BY <3>1
    <3>3. text \in Seq(Prose)
      BY ParagraphsAreProse
    <3>4. Covering(ChunkText(text), 1, SumOf(Sizes(text)))
      BY <3>3, ChunkTextCovers
    <3> QED BY <3>2, <3>3, <3>4
  <2>2. CASE UNCHANGED chunkerVars
    BY <2>2 DEF chunkerVars
  <2> QED BY <2>1, <2>2 DEF ChunkerNext
<1>3. IInv => ChunksCover
  BY CoveredText
<1> QED BY <1>1, <1>2, <1>3, PTL DEF ChunkerSpec
=============================================================================
