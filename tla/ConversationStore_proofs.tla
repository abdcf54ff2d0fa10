---------------------- MODULE ConversationStore_proofs ----------------------
(***************************************************************************)
(* No update of a conversation store is lost, for any number of calls,     *)
(* users and conversations, and across restarts: the store implements the  *)
(* atomic repository.  The argument is mutual exclusion of the lock, which *)
(* keeps the snapshot of the running call equal to what is on disk.  What  *)
(* the acknowledged calls stored follows from it and from the order of the *)
(* tickets: messages stand in that order, and only older ones are dropped. *)
(***************************************************************************)
EXTENDS ConversationStore, FileLock_proofs, SequenceTheorems, FunctionTheorems, FiniteSetTheorems

\* Cutting a sequence of messages down to the cap leaves messages.
LEMMA CappedType ==
  ASSUME NEW s \in Seq(Messages)
  PROVE  Capped(s) \in Seq(Messages)
BY MaxMessagesAssumption DEF Capped

\* An operation that is neither malformed nor misdirected maps stores to stores.
LEMMA ApplyType ==
  ASSUME NEW s, IsStore(s), NEW o \in Ops, NEW m \in Messages, ~NotFound(s, o)
  PROVE  IsStore(Apply(s, o, m))
<1> USE DEF IsStore
<1>1. CASE o \in CreateOps
  <2>1. NewConversation(o) \in Conversation
    BY <1>1 DEF CreateOps, NewConversation, Conversation, Titles, Modes
  <2>2. Apply(s, o, m) = [k \in DOMAIN s \cup {o.conv} |->
                            IF k = o.conv THEN NewConversation(o) ELSE s[k]]
    BY <1>1 DEF CreateOps, Apply
  <2>3. QED BY <1>1, <2>1, <2>2 DEF CreateOps
<1>2. CASE o \in AppendOps
  <2>1. o.kind = "append" /\ o.conv \in DOMAIN s
    BY <1>2 DEF AppendOps, NotFound
  <2>2. ASSUME NEW v \in Conversation PROVE Appended(v, o, m) \in Conversation
    <3>0. Append(v.messages, m) \in Seq(Messages)
      BY DEF Conversation
    <3>1. Capped(Append(v.messages, m)) \in Seq(Messages)
      BY <3>0, CappedType
    <3>2. QED BY <3>1 DEF Appended, Conversation, Titles
  <2>3. Apply(s, o, m) = [s EXCEPT ![o.conv] = Appended(@, o, m)]
    BY <2>1 DEF Apply
  <2>4. QED BY <2>1, <2>2, <2>3
<1>3. CASE o \in UpdateOps
  <2>1. o.kind = "update" /\ o.conv \in DOMAIN s
    BY <1>3 DEF UpdateOps, NotFound
  <2>2. ASSUME NEW v \in Conversation PROVE Patched(v, o, m) \in Conversation
    BY DEF Patched, Conversation, Titles
  <2>3. Apply(s, o, m) = [s EXCEPT ![o.conv] = Patched(@, o, m)]
    BY <2>1 DEF Apply
  <2>4. QED BY <2>1, <2>2, <2>3
<1>4. CASE o \in DeleteOps
  <2>1. Apply(s, o, m) = [k \in DOMAIN s \ {o.conv} |-> s[k]]
    BY <1>4 DEF DeleteOps, Apply
  <2>2. QED BY <2>1
<1>5. QED BY <1>1, <1>2, <1>3, <1>4 DEF Ops

\* The store starts well: nobody is in a body and no fate is decided.
LEMMA StoreInvInit == Init => StoreInv
<1> SUFFICES ASSUME Init PROVE StoreInv
  OBVIOUS
<1>1. LockInv
  BY LockInvInit DEF Init
<1>2. TypeOK
  BY StoreAssumption DEF Init, TypeOK, Stages
<1>3. BodyUnderLock /\ LoadedIsWellFormed /\ FoundBeforeWriting /\ SnapshotFresh /\ FateOpen
  BY DEF Init, LockInit, BodyUnderLock, LoadedIsWellFormed, FoundBeforeWriting,
         SnapshotFresh, FateOpen
<1>4. QED BY <1>1, <1>2, <1>3 DEF StoreInv

\* Every step of the store is a step of the lock, or leaves the lock alone.
LEMMA StoreStepIsLockStep == [Next]_vars => [LockNext]_lockVars
BY DEF Next, vars, LockNext, Arrive, Begin, Body, End, Crash, RejectOptions, Load,
       RejectMissing, OpenTemporary, CloseTemporary, Rename, IoError, Throw, Advance

\* Each action of the store keeps every variable in its type.
LEMMA StoreTypeStep == StoreInv /\ [Next]_vars => TypeOK'
<1> SUFFICES ASSUME StoreInv, [Next]_vars PROVE TypeOK'
  OBVIOUS
<1> USE StoreAssumption, FileLockAssumption DEF StoreInv, TypeOK, Stages
<1>1. ASSUME NEW c \in Calls, Arrive(c) PROVE TypeOK'
  BY <1>1 DEF Arrive, storeVars
<1>2. ASSUME NEW c \in Calls, Begin(c) PROVE TypeOK'
  BY <1>2 DEF Begin
<1>3. ASSUME NEW c \in Calls, RejectOptions(c) PROVE TypeOK'
  BY <1>3 DEF RejectOptions, Throw, Advance
<1>4. ASSUME NEW c \in Calls, Load(c) PROVE TypeOK'
  BY <1>4 DEF Load, Advance, Contents
<1>5. ASSUME NEW c \in Calls, RejectMissing(c) PROVE TypeOK'
  BY <1>5 DEF RejectMissing, Throw, Advance
<1>6. ASSUME NEW c \in Calls, OpenTemporary(c) PROVE TypeOK'
  BY <1>6 DEF OpenTemporary, Advance
<1>7. ASSUME NEW c \in Calls, CloseTemporary(c) PROVE TypeOK'
  BY <1>7 DEF CloseTemporary, Advance
<1>8. ASSUME NEW c \in Calls, Rename(c) PROVE TypeOK'
  <2>1. stage[c] = "staged"
    BY <1>8 DEF Rename, Advance
  <2>2. snapshot[c] = disk[FileOf[c]] /\ ~NotFound(snapshot[c], op[c])
    BY <2>1 DEF SnapshotFresh, FoundBeforeWriting, Contents
  <2>3. IsStore(Apply(snapshot[c], op[c], c))
    BY <2>2, ApplyType
  <2>4. QED BY <1>8, <2>3 DEF Rename, Advance
<1>9. ASSUME NEW c \in Calls, IoError(c) PROVE TypeOK'
  BY <1>9 DEF IoError, Throw, Advance
<1>10. ASSUME NEW c \in Calls, End(c) PROVE TypeOK'
  BY <1>10 DEF End, storeVars
<1>11. CASE Crash
  BY <1>11 DEF Crash
<1>12. CASE UNCHANGED vars
  BY <1>12 DEF vars, storeVars
<1>13. QED
  BY <1>1, <1>2, <1>3, <1>4, <1>5, <1>6, <1>7, <1>8, <1>9, <1>10, <1>11, <1>12
     DEF Next, Body

\* The bookkeeping of bodies and fates survives every step.
LEMMA BookkeepingStep ==
  StoreInv /\ [Next]_vars =>
    BodyUnderLock' /\ LoadedIsWellFormed' /\ FoundBeforeWriting' /\ FateOpen'
<1> SUFFICES ASSUME StoreInv, [Next]_vars
    PROVE BodyUnderLock' /\ LoadedIsWellFormed' /\ FoundBeforeWriting' /\ FateOpen'
  OBVIOUS
<1> USE DEF StoreInv, TypeOK, LockInv, LockTypeOK, BodyUnderLock, LoadedIsWellFormed,
            FoundBeforeWriting, FateOpen, Active
<1> DEFINE Goal ==
      BodyUnderLock' /\ LoadedIsWellFormed' /\ FoundBeforeWriting' /\ FateOpen'
<1>1. ASSUME NEW c \in Calls, Arrive(c) PROVE Goal
  BY <1>1 DEF Arrive, storeVars, Enter
<1>2. ASSUME NEW c \in Calls, Begin(c) PROVE Goal
  BY <1>2 DEF Begin, Start
<1>3. ASSUME NEW c \in Calls, RejectOptions(c) PROVE Goal
  BY <1>3 DEF RejectOptions, Throw, Advance, lockVars
<1>4. ASSUME NEW c \in Calls, Load(c) PROVE Goal
  BY <1>4 DEF Load, Advance, lockVars
<1>5. ASSUME NEW c \in Calls, RejectMissing(c) PROVE Goal
  BY <1>5 DEF RejectMissing, Throw, Advance, lockVars
<1>6. ASSUME NEW c \in Calls, OpenTemporary(c) PROVE Goal
  BY <1>6 DEF OpenTemporary, Advance, lockVars
<1>7. ASSUME NEW c \in Calls, CloseTemporary(c) PROVE Goal
  BY <1>7 DEF CloseTemporary, Advance, lockVars
<1>8. ASSUME NEW c \in Calls, Rename(c) PROVE Goal
  BY <1>8 DEF Rename, Advance, lockVars
<1>9. ASSUME NEW c \in Calls, IoError(c) PROVE Goal
  BY <1>9 DEF IoError, Throw, Advance, lockVars
<1>10. ASSUME NEW c \in Calls, End(c) PROVE Goal
  BY <1>10 DEF End, storeVars, Finish
<1>11. CASE Crash
  BY <1>11 DEF Crash, Restart
<1>12. CASE UNCHANGED vars
  BY <1>12 DEF vars, storeVars, lockVars
<1>13. QED
  BY <1>1, <1>2, <1>3, <1>4, <1>5, <1>6, <1>7, <1>8, <1>9, <1>10, <1>11, <1>12
     DEF Next, Body

\* Only the running call of a file replaces it, so its snapshot stays fresh.
LEMMA SnapshotFreshStep == StoreInv /\ [Next]_vars => SnapshotFresh'
<1> SUFFICES ASSUME StoreInv, [Next]_vars PROVE SnapshotFresh'
  OBVIOUS
<1> USE FileLockAssumption DEF StoreInv, TypeOK, SnapshotFresh, Contents
<1>1. ASSUME NEW c \in Calls, Arrive(c) PROVE SnapshotFresh'
  BY <1>1 DEF Arrive, storeVars
<1>2. ASSUME NEW c \in Calls, Begin(c) PROVE SnapshotFresh'
  BY <1>2 DEF Begin
<1>3. ASSUME NEW c \in Calls, RejectOptions(c) PROVE SnapshotFresh'
  BY <1>3 DEF RejectOptions, Throw, Advance
<1>4. ASSUME NEW c \in Calls, Load(c) PROVE SnapshotFresh'
  BY <1>4 DEF Load, Advance
<1>5. ASSUME NEW c \in Calls, RejectMissing(c) PROVE SnapshotFresh'
  BY <1>5 DEF RejectMissing, Throw, Advance
<1>6. ASSUME NEW c \in Calls, OpenTemporary(c) PROVE SnapshotFresh'
  BY <1>6 DEF OpenTemporary, Advance
<1>7. ASSUME NEW c \in Calls, CloseTemporary(c) PROVE SnapshotFresh'
  BY <1>7 DEF CloseTemporary, Advance
<1>8. ASSUME NEW c \in Calls, Rename(c) PROVE SnapshotFresh'
  <2> SUFFICES ASSUME NEW d \in Calls, stage'[d] \in {"loaded", "writing", "staged"}
               PROVE  snapshot'[d] = disk'[FileOf[d]]
    OBVIOUS
  <2>1. d # c /\ stage[d] = stage'[d]
    BY <1>8 DEF Rename, Advance
  <2>2. pc[c] = "running" /\ pc[d] = "running"
    BY <1>8, <2>1 DEF Rename, Advance, BodyUnderLock
  <2>3. FileOf[d] # FileOf[c]
    BY <2>1, <2>2, LockInvExcludes DEF MutualExclusion
  <2>4. QED BY <1>8, <2>1, <2>3 DEF Rename, Advance
<1>9. ASSUME NEW c \in Calls, IoError(c) PROVE SnapshotFresh'
  BY <1>9 DEF IoError, Throw, Advance
<1>10. ASSUME NEW c \in Calls, End(c) PROVE SnapshotFresh'
  BY <1>10 DEF End, storeVars
<1>11. CASE Crash
  BY <1>11 DEF Crash
<1>12. CASE UNCHANGED vars
  BY <1>12 DEF vars, storeVars
<1>13. QED
  BY <1>1, <1>2, <1>3, <1>4, <1>5, <1>6, <1>7, <1>8, <1>9, <1>10, <1>11, <1>12
     DEF Next, Body

\* Every step of the store keeps the inductive invariant.
LEMMA StoreInvStep == StoreInv /\ [Next]_vars => StoreInv'
<1> SUFFICES ASSUME StoreInv, [Next]_vars PROVE StoreInv'
  OBVIOUS
<1>1. LockInv'
  BY StoreStepIsLockStep, LockInvStep DEF StoreInv
<1>2. QED
  BY <1>1, StoreTypeStep, BookkeepingStep, SnapshotFreshStep DEF StoreInv

(***************************************************************************)
(* StoreInv holds in every reachable state of the store.                   *)
(***************************************************************************)
THEOREM StoreInvariant == Spec => []StoreInv
BY StoreInvInit, StoreInvStep, PTL DEF Spec

(***************************************************************************)
(* Every variable keeps its type: a crash between any two file operations  *)
(* leaves a whole store on disk, the old one or the new one.               *)
(***************************************************************************)
THEOREM StoreTypeCorrect == Spec => []TypeOK
<1>1. StoreInv => TypeOK
  BY DEF StoreInv
<1>2. QED BY <1>1, StoreInvariant, PTL

(***************************************************************************)
(* What a call is about to write is an edit of what is on disk.            *)
(***************************************************************************)
THEOREM StoreSnapshotFresh == Spec => []SnapshotFresh
<1>1. StoreInv => SnapshotFresh
  BY DEF StoreInv
<1>2. QED BY <1>1, StoreInvariant, PTL
-----------------------------------------------------------------------------
\* The operations of the repository are those of the store.
LEMMA SameOperations ==
  ASSUME NEW s, NEW o, NEW m
  PROVE  /\ Repository!Apply(s, o, m) = Apply(s, o, m)
         /\ Repository!NotFound(s, o) <=> NotFound(s, o)
         /\ Repository!Malformed(o) <=> Malformed(o)
BY DEF Repository!Apply, Repository!NotFound, Repository!Malformed,
       Repository!NewConversation, Repository!Appended, Repository!Patched,
       Repository!Capped, Apply, NotFound, Malformed, NewConversation, Appended,
       Patched, Capped

\* A body that throws settles the fate of its call and touches nothing else.
LEMMA ThrowSettles ==
  ASSUME StoreInv, NEW c \in Calls, NEW from, NEW fate, Throw(c, from, fate),
         from \in {"begun", "loaded", "writing", "staged"}
  PROVE  Repository!Settle(c, fate) /\ UNCHANGED disk
BY DEF StoreInv, FateOpen, Throw, Advance, Repository!Settle

\* Every step of the store is a step of the repository, or none.
LEMMA StoreStepIsRepositoryStep == StoreInv /\ [Next]_vars => [Repository!Next]_(Repository!vars)
<1> SUFFICES ASSUME StoreInv, [Next]_vars
             PROVE  Repository!Next \/ UNCHANGED <<op, disk, outcome>>
  BY DEF Repository!vars
<1>1. ASSUME NEW c \in Calls, RejectOptions(c) PROVE Repository!Refuse(c)
  <2>1. Throw(c, "begun", "refused") /\ Malformed(op[c])
    BY <1>1 DEF RejectOptions
  <2>2. Repository!Settle(c, "refused") /\ UNCHANGED disk
    BY <2>1, ThrowSettles
  <2>3. QED BY <2>1, <2>2, SameOperations DEF Repository!Refuse
<1>2. ASSUME NEW c \in Calls, RejectMissing(c) PROVE Repository!Refuse(c)
  <2>1. Throw(c, "loaded", "refused") /\ NotFound(snapshot[c], op[c])
    BY <1>2 DEF RejectMissing
  <2>2. Repository!Settle(c, "refused") /\ UNCHANGED disk
    BY <2>1, ThrowSettles
  <2>3. snapshot[c] = disk[FileOf[c]]
    BY <2>1 DEF StoreInv, SnapshotFresh, Contents, Throw, Advance
  <2>4. QED BY <2>1, <2>2, <2>3, SameOperations DEF Repository!Refuse
<1>3. ASSUME NEW c \in Calls, IoError(c) PROVE Repository!Break(c)
  <2>1. PICK from \in {"begun", "loaded", "writing", "staged"} : Throw(c, from, "broken")
    BY <1>3 DEF IoError
  <2>2. QED BY <2>1, ThrowSettles DEF Repository!Break
<1>4. ASSUME NEW c \in Calls, Rename(c) PROVE Repository!Perform(c)
  <2>1. stage[c] = "staged" /\ outcome[c] = "none"
    BY <1>4 DEF Rename, Advance, StoreInv, FateOpen
  <2>2. snapshot[c] = disk[FileOf[c]] /\ ~NotFound(snapshot[c], op[c]) /\ ~Malformed(op[c])
    BY <2>1 DEF StoreInv, SnapshotFresh, FoundBeforeWriting, LoadedIsWellFormed, Contents
  <2>3. disk' = [disk EXCEPT ![FileOf[c]] = Apply(@, op[c], c)]
    BY <1>4, <2>2 DEF Rename, StoreInv, TypeOK
  <2>4. Repository!Settle(c, "ok")
    BY <1>4, <2>1 DEF Rename, Advance, Repository!Settle
  <2>5. QED BY <2>2, <2>3, <2>4, SameOperations DEF Repository!Perform
<1>5. ASSUME NEW c \in Calls,
             Arrive(c) \/ Begin(c) \/ Load(c) \/ OpenTemporary(c)
               \/ CloseTemporary(c) \/ End(c)
      PROVE  UNCHANGED <<op, disk, outcome>>
  BY <1>5 DEF Arrive, Begin, Load, OpenTemporary, CloseTemporary, End, Advance, storeVars
<1>6. CASE Crash
  BY <1>6 DEF Crash
<1>7. CASE UNCHANGED vars
  BY <1>7 DEF vars, storeVars
<1>8. QED
  BY <1>1, <1>2, <1>3, <1>4, <1>5, <1>6, <1>7 DEF Next, Body, Repository!Next

(***************************************************************************)
(* The store implements the repository: every acknowledged operation takes *)
(* effect once, on the store as it is at that instant, and none else does. *)
(***************************************************************************)
THEOREM StoreImplementsRepository == Spec => ImplementsRepository
<1>1. Init => Repository!Init
  BY DEF Init, Repository!Init
<1>2. QED
  BY <1>1, StoreStepIsRepositoryStep, StoreInvariant, PTL
     DEF Spec, Repository!Spec, ImplementsRepository

-----------------------------------------------------------------------------
(***************************************************************************)
(* What is in the conversations.  The messages of a conversation are those *)
(* of acknowledged appends, in the order of their calls, behind messages   *)
(* from before; an acknowledged append that is not among them has been     *)
(* pushed out by later ones, which are all there is by now.                *)
(***************************************************************************)
Ordered(s, order) ==
  \A i, j \in DOMAIN s :
    i < j /\ s[i] \in Calls => s[j] \in Calls /\ order[s[i]] < order[s[j]]

IsIn(c, s) == \E i \in DOMAIN s : s[i] = c

OnlyYounger(c, s, order) ==
  /\ Len(s) = MaxMessages
  /\ \A i \in DOMAIN s : s[i] \in Calls /\ order[c] < order[s[i]]

Text(f, k) == disk[f][k].messages

InOrder(f, k) == Ordered(Text(f, k), ticket)

OnlyAcknowledged(f, k) ==
  \A i \in DOMAIN Text(f, k) :
    Text(f, k)[i] \in Calls => Text(f, k)[i] \in AcknowledgedAppends(f, k)

LatestKept(f, k) ==
  \A c \in AcknowledgedAppends(f, k) :
    IsIn(c, Text(f, k)) \/ OnlyYounger(c, Text(f, k), ticket)

\* Nothing is in a conversation whose creation is still to come.
NotYetCreated ==
  \A c \in Calls : op[c].kind = "create" /\ outcome[c] # "ok" =>
    /\ op[c].conv \notin DOMAIN disk[FileOf[c]]
    /\ AcknowledgedAppends(FileOf[c], op[c].conv) = {}

\* Calls that died did not leave an older call behind.
LostBehindNobody ==
  \A c, d \in Calls : pc[c] = "lost" /\ Before(d, c) => ~Active(d)

MessagesInv ==
  /\ op \in Workloads /\ LostBehindNobody /\ NotYetCreated
  /\ \A f \in Files : \A k \in DOMAIN disk[f] :
       InOrder(f, k) /\ OnlyAcknowledged(f, k) /\ LatestKept(f, k)

LEMMA MessagesInit == Init => MessagesInv
<1> SUFFICES ASSUME Init PROVE MessagesInv
  OBVIOUS
<1>1. \A f, k : AcknowledgedAppends(f, k) = {}
  BY DEF Init, AcknowledgedAppends
<1>2. NotYetCreated
  <2>1. FreshIds(op)
    BY StoreAssumption DEF Init
  <2> QED BY <1>1, <2>1 DEF Init, NotYetCreated, FreshIds
<1>3. \A f \in Files : \A k \in DOMAIN disk[f] :
        InOrder(f, k) /\ OnlyAcknowledged(f, k) /\ LatestKept(f, k)
  BY <1>1, StoreAssumption DEF Init, InOrder, Ordered, OnlyAcknowledged, LatestKept, Text
<1> QED BY <1>2, <1>3 DEF Init, LockInit, MessagesInv, LostBehindNobody

\* All but the first z messages.
LEMMA Suffix ==
  ASSUME NEW a \in Seq(Messages), NEW z \in Nat, NEW k \in Nat, Len(a) = z + k,
         NEW b, b = SubSeq(a, z + 1, z + k)
  PROVE  b \in Seq(Messages) /\ Len(b) = k /\ \A i \in 1 .. k : b[i] = a[i + z]
<1> DEFINE from == z + 1
           to == z + k
<1>1. /\ from \in Int /\ to \in Int /\ to - from + 1 = k /\ (from <= to \/ k = 0)
      /\ \A i \in 1 .. k : from + i - 1 = i + z
      /\ \A i \in from .. to : i \in 1 .. Len(a)
  OBVIOUS
<1>2. \A i \in from .. to : a[i] \in Messages
  BY <1>1, ElementOfSeq
<1>3. b = SubSeq(a, from, to)
  OBVIOUS
<1> HIDE DEF from, to
<1>4. /\ b \in Seq(Messages)
      /\ Len(b) = IF from <= to THEN to - from + 1 ELSE 0
      /\ \A i \in 1 .. to - from + 1 : b[i] = a[from + i - 1]
  BY <1>1, <1>2, <1>3, SubSeqProperties
<1> QED BY <1>1, <1>4

\* t is s with m appended and the z oldest messages dropped, which go only if
\* the cap is reached.
Drops(z, s, m, t) ==
  /\ DOMAIN t = 1 .. Len(t) /\ Len(t) \in Nat \ {0} /\ Len(t) <= MaxMessages
  /\ Len(t) + z = Len(s) + 1
  /\ \A i \in 1 .. Len(t) : t[i] = IF i = Len(t) THEN m ELSE s[i + z]
  /\ z > 0 => Len(t) = MaxMessages

LEMMA CappedAppend ==
  ASSUME NEW s \in Seq(Messages), NEW m \in Messages, NEW t, t = Capped(Append(s, m))
  PROVE  \E z \in Nat : Drops(z, s, m, t)
<1> DEFINE a == Append(s, m)
           n == Len(s) + 1
<1>1. /\ a \in Seq(Messages) /\ DOMAIN a = 1 .. n /\ Len(a) = n /\ Len(s) \in Nat
      /\ a[n] = m /\ \A i \in 1 .. Len(s) : a[i] = s[i]
  BY AppendProperties, LenProperties
<1>5. t = Capped(a)
  OBVIOUS
<1> HIDE DEF a
<1>2. MaxMessages \in Nat \ {0}
  BY MaxMessagesAssumption
<1>3. CASE n > MaxMessages
  <2> DEFINE z == n - MaxMessages
  <2>1. t = SubSeq(a, z + 1, n) /\ z \in Nat \ {0}
    <3>1. Capped(a) = SubSeq(a, n - MaxMessages + 1, n)
      BY <1>1, <1>3 DEF Capped
    <3>2. z \in Nat \ {0}
      BY <1>1, <1>2, <1>3
    <3> QED BY <1>5, <3>1, <3>2
  <2>2. n = z + MaxMessages
    BY <1>1, <1>2
  <2>3. /\ t \in Seq(Messages) /\ Len(t) = MaxMessages
        /\ \A i \in 1 .. MaxMessages : t[i] = a[i + z]
    BY <1>1, <1>2, <2>1, <2>2, Suffix
  <2>4. DOMAIN t = 1 .. Len(t)
    BY <2>3, LenProperties
  <2>5. \A i \in 1 .. MaxMessages : a[i + z] = IF i = MaxMessages THEN m ELSE s[i + z]
    BY <1>1, <1>2, <1>3
  <2>6. MaxMessages + z = n
    BY <1>1, <1>2
  <2>7. z \in Nat /\ MaxMessages <= MaxMessages
    BY <1>2, <2>1
  <2> HIDE DEF z
  <2>8. Drops(z, s, m, t)
    BY <1>2, <2>3, <2>4, <2>5, <2>6, <2>7 DEF Drops
  <2> QED BY <2>7, <2>8
<1>4. CASE n <= MaxMessages
  <2>1. t = a
    BY <1>1, <1>2, <1>4, <1>5 DEF Capped
  <2>2. Drops(0, s, m, t)
    BY <1>1, <1>2, <1>4, <2>1 DEF Drops
  <2> QED BY <2>2
<1> QED BY <1>1, <1>2, <1>3, <1>4

\* An append keeps a conversation in order, and what it drops is older than
\* all that stays.
LEMMA AppendInOrder ==
  ASSUME NEW s \in Seq(Messages), NEW m \in Calls, NEW t, NEW z \in Nat, Drops(z, s, m, t),
         NEW order \in [Calls -> Nat], Ordered(s, order),
         \A i \in DOMAIN s : s[i] \in Calls => order[s[i]] < order[m]
  PROVE  /\ Ordered(t, order)
         /\ \A i \in DOMAIN t : t[i] = m \/ \E j \in DOMAIN s : t[i] = s[j]
         /\ \A c \in Calls : order[c] < order[m] /\ (IsIn(c, s) \/ OnlyYounger(c, s, order))
               => IsIn(c, t) \/ OnlyYounger(c, t, order)
<1> DEFINE n == Len(t)
           k == Len(s)
<1>1. /\ DOMAIN t = 1 .. n /\ n \in Nat \ {0} /\ n + z = k + 1 /\ t[n] = m
      /\ \A i \in 1 .. n : i # n => t[i] = s[i + z]
      /\ z > 0 => n = MaxMessages
      /\ n <= MaxMessages
  <2>1. n \in Nat \ {0}
    BY DEF Drops
  <2>2. n \in 1 .. n
    BY <2>1
  <2> QED BY <2>1, <2>2 DEF Drops
<1>2. DOMAIN s = 1 .. k /\ k \in Nat /\ MaxMessages \in Nat \ {0}
  BY LenProperties, MaxMessagesAssumption
<1> HIDE DEF n, k
<1>3. \A i \in 1 .. n : i # n => i + z \in 1 .. k
  BY <1>1, <1>2
<1>4. ASSUME NEW i \in 1 .. n, NEW j \in 1 .. n, i < j, t[i] \in Calls
      PROVE  t[j] \in Calls /\ order[t[i]] < order[t[j]]
  <2>1. i # n /\ t[i] = s[i + z] /\ i + z \in 1 .. k
    BY <1>1, <1>3, <1>4
  <2>2. CASE j = n
    BY <1>1, <1>2, <1>4, <2>1, <2>2
  <2>3. CASE j # n
    <3>1. t[j] = s[j + z] /\ j + z \in 1 .. k /\ i + z < j + z
      BY <1>1, <1>3, <1>4, <2>3
    <3> QED BY <1>2, <1>4, <2>1, <3>1 DEF Ordered
  <2> QED BY <2>2, <2>3
<1>5. ASSUME NEW i \in 1 .. n PROVE t[i] = m \/ \E j \in DOMAIN s : t[i] = s[j]
  BY <1>1, <1>2, <1>3
<1>6. ASSUME NEW c \in Calls, order[c] < order[m], NEW p \in 1 .. k, s[p] = c, z < p
      PROVE  IsIn(c, t)
  <2>1. p - z \in 1 .. n /\ p - z # n /\ (p - z) + z = p
    BY <1>1, <1>2, <1>6
  <2>2. t[p - z] = c
    BY <1>1, <1>6, <2>1
  <2> QED BY <1>1, <2>1, <2>2 DEF IsIn
<1>7. ASSUME NEW c \in Calls, order[c] < order[m], n = MaxMessages,
             \A i \in 1 .. n : i # n => s[i + z] \in Calls /\ order[c] < order[s[i + z]]
      PROVE  OnlyYounger(c, t, order)
  BY <1>1, <1>7 DEF OnlyYounger, n
<1>8. ASSUME NEW c \in Calls, order[c] < order[m], NEW p \in 1 .. k, s[p] = c, p <= z
      PROVE  OnlyYounger(c, t, order)
  <2>1. n = MaxMessages
    BY <1>1, <1>8
  <2>2. \A i \in 1 .. n : i # n => i + z \in 1 .. k /\ p < i + z
    BY <1>1, <1>2, <1>3, <1>8
  <2>3. \A i \in 1 .. n : i # n => s[i + z] \in Calls /\ order[c] < order[s[i + z]]
    BY <1>2, <1>8, <2>2 DEF Ordered
  <2> QED BY <1>7, <1>8, <2>1, <2>3
<1>9. ASSUME NEW c \in Calls, order[c] < order[m], OnlyYounger(c, s, order)
      PROVE  OnlyYounger(c, t, order)
  <2>1. k = MaxMessages
    BY <1>9 DEF OnlyYounger, k
  <2>2. n = MaxMessages
    BY <1>1, <1>2, <2>1
  <2>3. \A i \in 1 .. n : i # n => s[i + z] \in Calls /\ order[c] < order[s[i + z]]
    BY <1>2, <1>3, <1>9 DEF OnlyYounger
  <2> QED BY <1>7, <1>9, <2>2, <2>3
<1>10. ASSUME NEW c \in Calls, order[c] < order[m], IsIn(c, s) \/ OnlyYounger(c, s, order)
       PROVE  IsIn(c, t) \/ OnlyYounger(c, t, order)
  <2>1. CASE IsIn(c, s)
    <3>1. PICK p \in 1 .. k : s[p] = c
      BY <1>2, <2>1 DEF IsIn
    <3>2. z < p \/ p <= z
      BY <1>2
    <3> QED BY <1>6, <1>8, <1>10, <3>1, <3>2
  <2> QED BY <1>9, <1>10, <2>1
<1>11. Ordered(t, order)
  BY <1>1, <1>4 DEF Ordered
<1> QED BY <1>1, <1>5, <1>10, <1>11

\* What operation o, of call m, does to the messages of store s: t is the result.
TextEffect(s, o, m, t) ==
  /\ o.kind \in {"create", "append", "update", "delete"} /\ o.conv \in Convs
  /\ o.kind = "create" => DOMAIN t = DOMAIN s \cup {o.conv} /\ t[o.conv].messages = <<>>
  /\ o.kind = "append" =>
       /\ o.conv \in DOMAIN s /\ DOMAIN t = DOMAIN s
       /\ t[o.conv].messages = Capped(Append(s[o.conv].messages, m))
  /\ o.kind = "update" => DOMAIN t = DOMAIN s /\ t[o.conv].messages = s[o.conv].messages
  /\ o.kind = "delete" => DOMAIN t = DOMAIN s \ {o.conv}
  /\ \A k \in DOMAIN s \ {o.conv} : k \in DOMAIN t => t[k] = s[k]

LEMMA ApplyText ==
  ASSUME NEW s, IsStore(s), NEW o \in Ops, NEW m \in Messages, ~NotFound(s, o),
         NEW t, t = Apply(s, o, m)
  PROVE  TextEffect(s, o, m, t)
<1> USE DEF IsStore, TextEffect
<1>1. CASE o \in CreateOps
  <2>1. Apply(s, o, m) = [k \in DOMAIN s \cup {o.conv} |->
                            IF k = o.conv THEN NewConversation(o) ELSE s[k]]
    BY <1>1 DEF CreateOps, Apply
  <2> QED BY <1>1, <2>1 DEF CreateOps, NewConversation
<1>2. CASE o \in AppendOps
  <2>1. o.kind = "append" /\ o.conv \in DOMAIN s /\ o.conv \in Convs
    BY <1>2 DEF AppendOps, NotFound
  <2>2. Apply(s, o, m) = [s EXCEPT ![o.conv] = Appended(@, o, m)]
    BY <2>1 DEF Apply
  <2>3. Appended(s[o.conv], o, m).messages = Capped(Append(s[o.conv].messages, m))
    BY <2>1 DEF Appended, Conversation
  <2> QED BY <2>1, <2>2, <2>3
<1>3. CASE o \in UpdateOps
  <2>1. o.kind = "update" /\ o.conv \in DOMAIN s /\ o.conv \in Convs
    BY <1>3 DEF UpdateOps, NotFound
  <2>2. Apply(s, o, m) = [s EXCEPT ![o.conv] = Patched(@, o, m)]
    BY <2>1 DEF Apply
  <2>3. Patched(s[o.conv], o, m).messages = s[o.conv].messages
    BY <2>1 DEF Patched, Conversation
  <2> QED BY <2>1, <2>2, <2>3
<1>4. CASE o \in DeleteOps
  <2>1. Apply(s, o, m) = [k \in DOMAIN s \ {o.conv} |-> s[k]]
    BY <1>4 DEF DeleteOps, Apply
  <2> QED BY <1>4, <2>1 DEF DeleteOps
<1> QED BY <1>1, <1>2, <1>3, <1>4 DEF Ops

\* No acknowledged call is younger than one whose fate is open.
LEMMA OpenIsYoungest ==
  ASSUME StoreInv, LostBehindNobody, NEW c \in Calls, NEW d \in Calls,
         FileOf[c] = FileOf[d], outcome[c] = "ok", pc[d] = "running", outcome[d] = "none"
  PROVE  ticket[c] \in Nat \ {0} /\ ticket[c] < ticket[d]
<1>1. pc[c] \in {"running", "done", "lost"}
  BY DEF StoreInv, FateOpen, LockInv, LockTypeOK, States
<1>2. /\ ticket[c] \in Nat /\ ticket[d] \in Nat /\ ticket[c] # 0 /\ ticket[d] # 0
      /\ ticket[c] # ticket[d]
  BY <1>1 DEF StoreInv, LockInv, LockTypeOK, TicketsInOrder
<1>3. ~Before(d, c)
  BY <1>1 DEF StoreInv, LockInv, FirstComeFirstServed, LostBehindNobody, Active
<1> QED BY <1>2, <1>3 DEF Before

\* Neither the files nor the acknowledged calls change.
LEMMA MessagesQuiet ==
  ASSUME StoreInv, MessagesInv, LostBehindNobody',
         UNCHANGED <<disk, op>>,
         \A c \in Calls : /\ outcome'[c] = "ok" <=> outcome[c] = "ok"
                          /\ outcome[c] = "ok" => ticket'[c] = ticket[c]
  PROVE  MessagesInv'
<1>1. \A f, k : AcknowledgedAppends(f, k)' = AcknowledgedAppends(f, k)
  BY DEF AcknowledgedAppends
<1>2. NotYetCreated'
  BY <1>1 DEF MessagesInv, NotYetCreated
<1>3. ASSUME NEW f \in Files, NEW k \in DOMAIN disk[f]
      PROVE  InOrder(f, k)' /\ OnlyAcknowledged(f, k)' /\ LatestKept(f, k)'
  <2>1. /\ Text(f, k)' = Text(f, k)
        /\ InOrder(f, k) /\ OnlyAcknowledged(f, k) /\ LatestKept(f, k)
    BY <1>3 DEF Text, MessagesInv
  <2>2. \A c \in AcknowledgedAppends(f, k) : c \in Calls /\ ticket'[c] = ticket[c]
    BY DEF AcknowledgedAppends
  <2>3. InOrder(f, k)'
    BY <2>1, <2>2 DEF InOrder, Ordered, OnlyAcknowledged
  <2>4. OnlyAcknowledged(f, k)'
    BY <1>1, <2>1 DEF OnlyAcknowledged
  <2>5. LatestKept(f, k)'
    BY <1>1, <2>1, <2>2 DEF LatestKept, IsIn, OnlyYounger, OnlyAcknowledged
  <2> QED BY <2>3, <2>4, <2>5
<1> QED BY <1>2, <1>3 DEF MessagesInv

LEMMA LostStep == ASSUME StoreInv, LostBehindNobody, [Next]_vars PROVE LostBehindNobody'
<1> USE DEF StoreInv, LockInv, LockTypeOK, LostBehindNobody, Before, Active
<1>1. [LockNext]_lockVars
  BY StoreStepIsLockStep
<1>2. ASSUME NEW c \in Calls, Enter(c) PROVE LostBehindNobody'
  <2>1. /\ pc[c] = "idle" /\ pc' = [pc EXCEPT ![c] = "queued"]
        /\ ticket' = [ticket EXCEPT ![c] = arrivals + 1]
    BY <1>2 DEF Enter
  <2>2. \A d \in Calls : ticket[d] <= arrivals
    BY DEF TicketsInOrder
  <2> QED BY <2>1, <2>2
<1>3. ASSUME NEW c \in Calls, Start(c) \/ Finish(c) PROVE LostBehindNobody'
  BY <1>3 DEF Start, Finish
<1>4. CASE Restart
  BY <1>4 DEF Restart
<1>5. CASE UNCHANGED lockVars
  BY <1>5 DEF lockVars
<1> QED BY <1>1, <1>2, <1>3, <1>4, <1>5 DEF LockNext

\* The one step that changes a file.
LEMMA RenameKeepsMessages ==
  ASSUME StoreInv, MessagesInv, LostBehindNobody', NEW d \in Calls, Rename(d)
  PROVE  MessagesInv'
<1>0. PICK g, l : g = FileOf[d] /\ l = op[d].conv
  OBVIOUS
<1>1. /\ pc[d] = "running" /\ stage[d] = "staged" /\ outcome[d] = "none"
      /\ disk' = [disk EXCEPT ![g] = Apply(snapshot[d], op[d], d)]
      /\ outcome' = [outcome EXCEPT ![d] = "ok"]
      /\ UNCHANGED <<op, ticket>>
  BY <1>0 DEF Rename, Advance, lockVars, StoreInv, FateOpen
<1>2. /\ snapshot[d] = disk[g] /\ ~NotFound(disk[g], op[d]) /\ ~Malformed(op[d])
      /\ g \in Files /\ IsStore(disk[g]) /\ op[d] \in Ops /\ d \in Messages
      /\ DOMAIN disk = Files /\ DOMAIN outcome = Calls
  BY <1>0, <1>1, StoreAssumption, FileLockAssumption
     DEF StoreInv, TypeOK, SnapshotFresh, FoundBeforeWriting, LoadedIsWellFormed, Contents
<1>3. /\ op[d].kind \in {"create", "append", "update", "delete"} /\ l \in Convs
      /\ op[d].kind = "create" => DOMAIN disk'[g] = DOMAIN disk[g] \cup {l} /\ Text(g, l)' = <<>>
      /\ op[d].kind = "append" =>
           /\ l \in DOMAIN disk[g] /\ DOMAIN disk'[g] = DOMAIN disk[g]
           /\ Text(g, l)' = Capped(Append(Text(g, l), d))
      /\ op[d].kind = "update" => DOMAIN disk'[g] = DOMAIN disk[g] /\ Text(g, l)' = Text(g, l)
      /\ op[d].kind = "delete" => DOMAIN disk'[g] = DOMAIN disk[g] \ {l}
      /\ \A k \in DOMAIN disk[g] \ {l} : Text(g, k)' = Text(g, k)
      /\ \A f \in Files \ {g} : disk'[f] = disk[f]
  <2> DEFINE u == Apply(disk[g], op[d], d)
             store == disk[g]
  <2>1. store = disk[g] /\ u = Apply(store, op[d], d) /\ IsStore(store) /\ ~NotFound(store, op[d])
    BY <1>2
  <2>2. disk'[g] = u /\ \A f \in Files \ {g} : disk'[f] = disk[f]
    BY <1>1, <1>2
  <2> HIDE DEF u, store
  <2>3. /\ op[d].kind \in {"create", "append", "update", "delete"} /\ l \in Convs
        /\ op[d].kind = "create" => DOMAIN u = DOMAIN store \cup {l} /\ u[l].messages = <<>>
        /\ op[d].kind = "append" =>
             /\ l \in DOMAIN store /\ DOMAIN u = DOMAIN store
             /\ u[l].messages = Capped(Append(store[l].messages, d))
        /\ op[d].kind = "update" => DOMAIN u = DOMAIN store /\ u[l].messages = store[l].messages
        /\ op[d].kind = "delete" => DOMAIN u = DOMAIN store \ {l}
        /\ \A k \in DOMAIN store \ {l} : k \in DOMAIN u => u[k] = store[k]
    <3>1. TextEffect(store, op[d], d, u)
      BY <1>2, <2>1, ApplyText
    <3> QED BY <1>0, <3>1 DEF TextEffect
  <2>4. DOMAIN store \ {l} \subseteq DOMAIN u
    BY <2>3
  <2>5. /\ DOMAIN disk'[g] = DOMAIN u /\ DOMAIN disk[g] = DOMAIN store
        /\ \A k : Text(g, k)' = u[k].messages /\ Text(g, k) = store[k].messages
    BY <2>1, <2>2 DEF Text
  <2> QED BY <2>2, <2>3, <2>4, <2>5
<1>4. \A f, k : AcknowledgedAppends(f, k)' =
        AcknowledgedAppends(f, k) \cup (IF f = g /\ k = l /\ op[d].kind = "append" THEN {d} ELSE {})
  BY <1>0, <1>1, <1>2 DEF AcknowledgedAppends
<1>5. FreshIds(op)
  BY StoreAssumption DEF MessagesInv
<1>6. NotYetCreated'
  <2> SUFFICES ASSUME NEW c \in Calls, op[c].kind = "create", outcome'[c] # "ok",
                      NEW h, NEW k, h = FileOf[c], k = op[c].conv
               PROVE  k \notin DOMAIN disk'[h] /\ AcknowledgedAppends(h, k)' = {}
    BY <1>1 DEF NotYetCreated
  <2>1. c # d /\ outcome[c] # "ok"
    BY <1>1, <1>2
  <2>2. k \notin DOMAIN disk[h] /\ AcknowledgedAppends(h, k) = {}
    BY <2>1 DEF MessagesInv, NotYetCreated
  <2>3. op[d].kind = "create" => l # k
    BY <1>0, <1>5, <2>1 DEF FreshIds
  <2>4. h \in Files
    BY FileLockAssumption
  <2>5. AcknowledgedAppends(h, k)' = {}
    <3>1. CASE op[d].kind = "append"
      <4>1. l \in DOMAIN disk[g]
        BY <1>3, <3>1
      <4>2. ~(h = g /\ k = l)
        BY <2>2, <4>1
      <4> QED BY <1>4, <2>2, <4>2
    <3> QED BY <1>4, <2>2, <3>1
  <2>6. CASE h = g
    <3>1. DOMAIN disk'[g] \subseteq DOMAIN disk[g] \cup (IF op[d].kind = "create" THEN {l} ELSE {})
      BY <1>3
    <3> QED BY <2>2, <2>3, <2>5, <2>6, <3>1
  <2>7. CASE h # g
    BY <1>3, <2>2, <2>4, <2>5, <2>7
  <2> QED BY <2>6, <2>7
<1>7. ASSUME NEW f \in Files, NEW k \in DOMAIN disk[f], Text(f, k)' = Text(f, k),
             AcknowledgedAppends(f, k)' = AcknowledgedAppends(f, k)
      PROVE  InOrder(f, k)' /\ OnlyAcknowledged(f, k)' /\ LatestKept(f, k)'
  <2>1. InOrder(f, k) /\ OnlyAcknowledged(f, k) /\ LatestKept(f, k) /\ ticket' = ticket
    BY <1>1 DEF MessagesInv
  <2> QED BY <1>7, <2>1 DEF InOrder, Ordered, OnlyAcknowledged, LatestKept, IsIn, OnlyYounger
<1>8. ASSUME op[d].kind = "create"
      PROVE  InOrder(g, l)' /\ OnlyAcknowledged(g, l)' /\ LatestKept(g, l)'
  <2>1. AcknowledgedAppends(g, l)' = {}
    BY <1>0, <1>1, <1>4, <1>8 DEF MessagesInv, NotYetCreated
  <2> QED BY <1>3, <1>8, <2>1 DEF InOrder, Ordered, OnlyAcknowledged, LatestKept
<1>9. ASSUME op[d].kind = "append"
      PROVE  InOrder(g, l)' /\ OnlyAcknowledged(g, l)' /\ LatestKept(g, l)'
  <2> DEFINE s == Text(g, l)
             t == Text(g, l)'
             old == AcknowledgedAppends(g, l)
  <2>1. l \in DOMAIN disk[g] /\ t = Capped(Append(s, d)) /\ s \in Seq(Messages)
    BY <1>2, <1>3, <1>9 DEF IsStore, Conversation, Text
  <2>2. PICK z \in Nat : Drops(z, s, d, t)
    BY <1>2, <2>1, CappedAppend
  <2>3. \A c \in old : c \in Calls /\ ticket[c] < ticket[d]
    BY <1>0, <1>1, OpenIsYoungest DEF AcknowledgedAppends, MessagesInv
  <2>4. InOrder(g, l) /\ OnlyAcknowledged(g, l) /\ LatestKept(g, l)
    BY <1>2, <2>1 DEF MessagesInv
  <2>5. ticket \in [Calls -> Nat]
    BY DEF StoreInv, LockInv, LockTypeOK
  <2>6. AcknowledgedAppends(g, l)' = old \cup {d} /\ ticket' = ticket
    BY <1>1, <1>4, <1>9
  <2>7. \A i \in DOMAIN s : s[i] \in Calls => s[i] \in old
    BY <2>4 DEF OnlyAcknowledged
  <2>8. Ordered(s, ticket) /\ \A c \in old : IsIn(c, s) \/ OnlyYounger(c, s, ticket)
    BY <2>4 DEF InOrder, LatestKept
  <2> HIDE DEF s, t, old
  <2>9. /\ Ordered(t, ticket)
        /\ \A i \in DOMAIN t : t[i] = d \/ \E j \in DOMAIN s : t[i] = s[j]
        /\ \A c \in Calls : ticket[c] < ticket[d] /\ (IsIn(c, s) \/ OnlyYounger(c, s, ticket))
              => IsIn(c, t) \/ OnlyYounger(c, t, ticket)
    BY <2>1, <2>2, <2>3, <2>5, <2>7, <2>8, AppendInOrder
  <2>10. IsIn(d, t)
    <3>1. Len(t) \in Nat \ {0}
      BY <2>2 DEF Drops
    <3>2. Len(t) \in 1 .. Len(t)
      BY <3>1
    <3> QED BY <2>2, <3>1, <3>2 DEF Drops, IsIn
  <2>11. \A i \in DOMAIN t : t[i] \in Calls => t[i] \in old \cup {d}
    BY <2>7, <2>9
  <2>12. \A c \in old \cup {d} : IsIn(c, t) \/ OnlyYounger(c, t, ticket)
    BY <2>3, <2>8, <2>9, <2>10
  <2>13. InOrder(g, l)'
    BY <2>6, <2>9 DEF InOrder, Ordered, t
  <2>14. OnlyAcknowledged(g, l)'
    BY <2>6, <2>11 DEF OnlyAcknowledged, t
  <2>15. LatestKept(g, l)'
    BY <2>6, <2>12 DEF LatestKept, IsIn, OnlyYounger, t
  <2> QED BY <2>13, <2>14, <2>15
<1>10. ASSUME NEW f \in Files, NEW k \in DOMAIN disk'[f]
       PROVE  InOrder(f, k)' /\ OnlyAcknowledged(f, k)' /\ LatestKept(f, k)'
  <2>1. CASE f # g
    <3>1. k \in DOMAIN disk[f] /\ Text(f, k)' = Text(f, k) /\ AcknowledgedAppends(f, k)' = AcknowledgedAppends(f, k)
      BY <1>3, <1>4, <2>1 DEF Text
    <3> QED BY <1>7, <3>1
  <2>2. CASE f = g /\ k # l
    <3>1. k \in DOMAIN disk[f] /\ Text(f, k)' = Text(f, k) /\ AcknowledgedAppends(f, k)' = AcknowledgedAppends(f, k)
      BY <1>3, <1>4, <2>2
    <3> QED BY <1>7, <3>1
  <2>3. CASE f = g /\ k = l
    <3>1. op[d].kind # "delete"
      BY <1>3, <2>3
    <3>2. CASE op[d].kind = "update"
      <4>1. k \in DOMAIN disk[f] /\ Text(f, k)' = Text(f, k)
        BY <1>3, <2>3, <3>2
      <4>2. AcknowledgedAppends(f, k)' = AcknowledgedAppends(f, k)
        BY <1>4, <3>2
      <4> QED BY <1>7, <4>1, <4>2
    <3>3. op[d].kind \in {"create", "append", "update"}
      BY <1>3, <3>1
    <3> QED BY <1>8, <1>9, <2>3, <3>2, <3>3
  <2> QED BY <2>1, <2>2, <2>3
<1> QED BY <1>1, <1>6, <1>10 DEF MessagesInv

LEMMA MessagesStep == ASSUME StoreInv, MessagesInv, [Next]_vars PROVE MessagesInv'
<1>1. LostBehindNobody'
  BY LostStep DEF MessagesInv
<1>2. ASSUME NEW c \in Calls, Rename(c) PROVE MessagesInv'
  BY <1>1, <1>2, RenameKeepsMessages
<1>3. ASSUME NEW c \in Calls, NEW from, NEW fate \in {"refused", "broken"}, Throw(c, from, fate),
             from \in {"begun", "loaded", "writing", "staged"}
      PROVE  MessagesInv'
  <2>1. /\ outcome[c] = "none" /\ outcome' = [outcome EXCEPT ![c] = fate]
        /\ UNCHANGED <<disk, op, ticket>>
    BY <1>3 DEF Throw, Advance, lockVars, StoreInv, FateOpen
  <2> QED BY <1>1, <2>1, MessagesQuiet DEF StoreInv, TypeOK
<1>4. ASSUME NEW c \in Calls, Arrive(c) PROVE MessagesInv'
  <2>1. outcome[c] = "none" /\ ticket' = [ticket EXCEPT ![c] = arrivals + 1]
    BY <1>4 DEF Arrive, Enter, StoreInv, FateOpen
  <2> QED BY <1>1, <1>4, <2>1, MessagesQuiet DEF Arrive, storeVars, StoreInv, LockInv, LockTypeOK
<1>5. ASSUME NEW c \in Calls,
             Begin(c) \/ Load(c) \/ OpenTemporary(c) \/ CloseTemporary(c) \/ End(c)
      PROVE  MessagesInv'
  <2>1. UNCHANGED <<disk, op, outcome, ticket>>
    BY <1>5 DEF Begin, Load, OpenTemporary, CloseTemporary, End, Advance, Start, Finish, storeVars, lockVars
  <2> QED BY <1>1, <2>1, MessagesQuiet
<1>6. CASE Crash \/ UNCHANGED vars
  <2>1. UNCHANGED <<disk, op, outcome, ticket>>
    BY <1>6 DEF Crash, Restart, vars, storeVars, lockVars
  <2> QED BY <1>1, <2>1, MessagesQuiet
<1> QED
  BY <1>2, <1>3, <1>4, <1>5, <1>6 DEF Next, Body, RejectOptions, RejectMissing, IoError

LEMMA MessagesInvariant == Spec => [](StoreInv /\ MessagesInv)
<1>1. Init => StoreInv /\ MessagesInv
  BY StoreInvInit, MessagesInit
<1>2. StoreInv /\ MessagesInv /\ [Next]_vars => (StoreInv /\ MessagesInv)'
  BY StoreInvStep, MessagesStep
<1> QED BY <1>1, <1>2, PTL DEF Spec

(***************************************************************************)
(* Messages of a conversation stand in the order in which the calls that   *)
(* append them were made, whatever else is done to the file, and whichever *)
(* calls fail or die in between.                                           *)
(***************************************************************************)
THEOREM StoreMessagesInOrder == Spec => []MessagesInOrderOfCalls
<1>1. MessagesInv => MessagesInOrderOfCalls
  BY DEF MessagesInv, InOrder, Ordered, Text, MessagesInOrderOfCalls
<1> QED BY MessagesInvariant, <1>1, PTL

\* Only finitely many calls have arrived.
LEMMA ArrivedFinite ==
  ASSUME LockInv, NEW S \in SUBSET {c \in Calls : ticket[c] # 0} PROVE IsFiniteSet(S)
<1>1. [c \in S |-> ticket[c]] \in Injection(S, 1 .. arrivals)
  <2>1. \A c \in S : ticket[c] \in 1 .. arrivals
    <3> SUFFICES ASSUME NEW c \in S PROVE ticket[c] \in 1 .. arrivals
      OBVIOUS
    <3>1. c \in Calls /\ ticket[c] # 0
      OBVIOUS
    <3>2. arrivals \in Nat /\ ticket[c] \in Nat /\ ticket[c] <= arrivals
      BY <3>1 DEF LockInv, LockTypeOK, TicketsInOrder
    <3> QED BY <3>1, <3>2
  <2>2. \A c, d \in S : ticket[c] = ticket[d] => c = d
    BY DEF LockInv, TicketsInOrder
  <2> QED BY <2>1, <2>2, Fun_IsInj
<1>2. IsFiniteSet(1 .. arrivals)
  BY FS_Interval DEF LockInv, LockTypeOK
<1> QED BY <1>1, <1>2, FS_Injection

(***************************************************************************)
(* An acknowledged message is in its conversation until MaxMessages newer  *)
(* ones have pushed it out, for any cap and any number of calls.           *)
(***************************************************************************)
THEOREM StoreKeepsAcknowledged == Spec => []AcknowledgedMessagesKept
<1>1. StoreInv /\ MessagesInv => AcknowledgedMessagesKept
  <2> SUFFICES ASSUME StoreInv, MessagesInv, NEW f \in Files, NEW k \in DOMAIN disk[f],
                      NEW c \in AcknowledgedAppends(f, k), OnlyYounger(c, Text(f, k), ticket)
               PROVE  Cardinality({d \in AcknowledgedAppends(f, k) : ticket[d] > ticket[c]}) >= MaxMessages
    BY DEF MessagesInv, LatestKept, IsIn, Text, AcknowledgedMessagesKept
  <2> DEFINE later == {d \in AcknowledgedAppends(f, k) : ticket[d] > ticket[c]}
             s == Text(f, k)
  <2>1. s \in Seq(Messages) /\ DOMAIN s = 1 .. MaxMessages
    <3>1. s \in Seq(Messages)
      BY DEF StoreInv, TypeOK, IsStore, Conversation, Text
    <3> QED BY <3>1, LenProperties DEF OnlyYounger
  <2>2. \A d \in Calls : ticket[d] \in Nat
    BY DEF StoreInv, LockInv, LockTypeOK
  <2>3. \A i \in 1 .. MaxMessages : s[i] \in later
    BY <2>1, <2>2 DEF OnlyYounger, MessagesInv, OnlyAcknowledged, AcknowledgedAppends
  <2>4. \A i, j \in 1 .. MaxMessages : i # j => s[i] # s[j]
    <3>1. \A i, j \in 1 .. MaxMessages : i < j => ticket[s[i]] < ticket[s[j]]
      BY <2>1 DEF OnlyYounger, MessagesInv, InOrder, Ordered
    <3>2. \A i \in 1 .. MaxMessages : ticket[s[i]] \in Nat
      BY <2>2, <2>3 DEF AcknowledgedAppends
    <3> QED BY <3>1, <3>2, MaxMessagesAssumption
  <2>5. [i \in 1 .. MaxMessages |-> s[i]] \in Injection(1 .. MaxMessages, later)
    BY <2>3, <2>4, Fun_IsInj
  <2>6. IsFiniteSet(later)
    <3>1. later \subseteq {d \in Calls : ticket[d] # 0}
      BY <2>2 DEF AcknowledgedAppends
    <3> QED BY <3>1, ArrivedFinite DEF StoreInv
  <2>7. Cardinality(1 .. MaxMessages) = MaxMessages /\ Cardinality(later) \in Nat
    BY <2>6, FS_Interval, FS_CardinalityType, MaxMessagesAssumption
  <2>8. Cardinality(1 .. MaxMessages) <= Cardinality(later)
    BY <2>5, <2>6, FS_Injection
  <2> QED BY <2>7, <2>8, MaxMessagesAssumption
<1> QED BY MessagesInvariant, <1>1, PTL
=============================================================================
