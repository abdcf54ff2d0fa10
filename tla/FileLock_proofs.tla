--------------------------- MODULE FileLock_proofs ---------------------------
(***************************************************************************)
(* Mutual exclusion and first-come-first-served order of withFileLock, for *)
(* any number of calls and files.  LockInv is inductive; the two           *)
(* properties follow from it, and that every step of the lock is one of a  *)
(* queue per file.                                                         *)
(***************************************************************************)
EXTENDS FileLock, Sequences, FiniteSetTheorems, TLAPS

\* The lock starts out unused: no call has a ticket and the map is empty.
LEMMA LockInvInit == LockInit => LockInv
BY FileLockAssumption
   DEF LockInit, LockInv, LockTypeOK, States, TicketsInOrder, MapHoldsYoungest,
       GateIsOlder, GateIsNextOlder, FirstComeFirstServed, Before, Active

\* Each action of the lock keeps every variable in its type.
LEMMA LockTypeStep == LockTypeOK /\ [LockNext]_lockVars => LockTypeOK'
<1> SUFFICES ASSUME LockTypeOK, [LockNext]_lockVars PROVE LockTypeOK'
  OBVIOUS
<1> USE FileLockAssumption DEF LockTypeOK, States
<1>1. ASSUME NEW c \in Calls, Enter(c) PROVE LockTypeOK'
  BY <1>1 DEF Enter
<1>2. ASSUME NEW c \in Calls, Start(c) PROVE LockTypeOK'
  BY <1>2 DEF Start
<1>3. ASSUME NEW c \in Calls, Finish(c) PROVE LockTypeOK'
  BY <1>3 DEF Finish, Unlinked
<1>4. CASE Restart
  BY <1>4 DEF Restart
<1>5. CASE UNCHANGED lockVars
  BY <1>5 DEF lockVars
<1>6. QED
  BY <1>1, <1>2, <1>3, <1>4, <1>5 DEF LockNext

\* A call that arrives takes the highest ticket and queues behind the youngest.
LEMMA EnterStep ==
  ASSUME LockInv, LockTypeOK', NEW n \in Calls, Enter(n)
  PROVE  LockInv'
<1> USE FileLockAssumption DEF LockInv, LockTypeOK, States, Enter, Active, Before
<1>1. TicketsInOrder'
  BY DEF TicketsInOrder
<1>2. MapHoldsYoungest'
  BY DEF TicketsInOrder, MapHoldsYoungest
<1>3. GateIsOlder'
  <2> SUFFICES ASSUME NEW d \in Calls, Active(d)', previous'[d] # NoCall
               PROVE  Before(previous[d], d)'
    BY DEF GateIsOlder
  <2>1. CASE d = n
    BY <2>1 DEF TicketsInOrder, MapHoldsYoungest
  <2>2. CASE d # n
    BY <2>2 DEF TicketsInOrder, GateIsOlder
  <2>3. QED BY <2>1, <2>2
<1>4. GateIsNextOlder'
  <2> SUFFICES ASSUME NEW c \in Calls, NEW d \in Calls,
                      Active(d)', Before(c, d)', Active(c)'
               PROVE  previous'[d] # NoCall /\ ticket'[c] <= ticket'[previous'[d]]
    BY DEF GateIsNextOlder
  <2>1. c # n /\ Active(c)
    BY DEF TicketsInOrder
  <2>2. CASE d = n
    BY <2>1, <2>2 DEF TicketsInOrder, MapHoldsYoungest
  <2>3. CASE d # n
    <3>1. Active(d) /\ Before(c, d)
      BY <2>1, <2>3
    <3>2. previous[d] # NoCall /\ ticket[c] <= ticket[previous[d]]
      BY <2>1, <3>1 DEF GateIsNextOlder
    <3>3. previous[d] # n
      BY <3>1, <3>2 DEF GateIsOlder, TicketsInOrder
    <3>4. QED BY <2>1, <2>3, <3>2, <3>3
  <2>4. QED BY <2>2, <2>3
<1>5. FirstComeFirstServed'
  BY DEF FirstComeFirstServed, TicketsInOrder
<1>6. QED BY <1>1, <1>2, <1>3, <1>4, <1>5

\* A call that starts has nobody in use before it: its gate was the next older.
LEMMA StartStep ==
  ASSUME LockInv, LockTypeOK', NEW n \in Calls, Start(n)
  PROVE  LockInv'
<1> USE FileLockAssumption DEF LockInv, LockTypeOK, States, Start, Active, Before
<1>1. TicketsInOrder' /\ MapHoldsYoungest' /\ GateIsOlder'
  BY DEF TicketsInOrder, MapHoldsYoungest, GateIsOlder
<1>2. GateIsNextOlder'
  BY DEF GateIsNextOlder
<1>3. FirstComeFirstServed'
  <2> SUFFICES ASSUME NEW c \in Calls, NEW d \in Calls,
                      Before(c, d)', pc'[d] \in {"running", "done"}
               PROVE  ~Active(c)'
    BY DEF FirstComeFirstServed
  <2>1. CASE d # n
    BY <2>1 DEF FirstComeFirstServed
  <2>2. CASE d = n
    <3> SUFFICES ASSUME Active(c) PROVE FALSE
      BY <2>2
    <3>1. previous[n] # NoCall /\ ticket[c] <= ticket[previous[n]]
      BY <2>2 DEF GateIsNextOlder
    <3>2. previous[n] \in Calls /\ pc[previous[n]] = "done"
      BY <3>1 DEF GateOpen
    <3>3. Before(previous[n], n)
      BY <3>1 DEF GateIsOlder
    <3>4. c # previous[n]
      BY <3>2
    <3>5. Before(c, previous[n])
      BY <2>2, <3>1, <3>2, <3>3, <3>4 DEF TicketsInOrder
    <3>6. QED BY <3>2, <3>5 DEF FirstComeFirstServed
  <2>3. QED BY <2>1, <2>2
<1>4. QED BY <1>1, <1>2, <1>3

\* A call that leaves as the last arrival leaves nobody behind.
LEMMA FinishStep ==
  ASSUME LockInv, LockTypeOK', NEW n \in Calls, Finish(n)
  PROVE  LockInv'
<1> USE FileLockAssumption DEF LockInv, LockTypeOK, States, Finish, Active, Before
<1>1. TicketsInOrder' /\ GateIsOlder' /\ GateIsNextOlder' /\ FirstComeFirstServed'
  BY DEF TicketsInOrder, GateIsOlder, GateIsNextOlder, FirstComeFirstServed
<1>2. MapHoldsYoungest'
  <2>1. CASE fileLocks[FileOf[n]] = n
    <3>1. ASSUME NEW e \in Calls, e # n, FileOf[e] = FileOf[n], Active(e)
          PROVE  FALSE
      <4>1. ticket[e] <= ticket[n]
        BY <2>1, <3>1 DEF MapHoldsYoungest
      <4>2. ticket[e] # 0 /\ ticket[e] # ticket[n]
        BY <3>1 DEF TicketsInOrder
      <4>3. Before(e, n)
        <5>1. ticket[e] \in Nat /\ ticket[n] \in Nat
          BY <3>1
        <5>2. ticket[e] < ticket[n]
          BY <4>1, <4>2, <5>1
        <5>3. QED BY <3>1, <4>2, <5>2
      <4>4. QED BY <3>1, <4>3 DEF FirstComeFirstServed
    <3>2. QED BY <2>1, <3>1 DEF MapHoldsYoungest, Unlinked
  <2>2. CASE fileLocks[FileOf[n]] # n
    BY <2>2 DEF MapHoldsYoungest, Unlinked
  <2>3. QED BY <2>1, <2>2
<1>3. QED BY <1>1, <1>2

\* Every step of the lock keeps the inductive invariant.
LEMMA LockInvStep == LockInv /\ [LockNext]_lockVars => LockInv'
<1> SUFFICES ASSUME LockInv, [LockNext]_lockVars PROVE LockInv'
  OBVIOUS
<1>0. LockTypeOK'
  BY LockTypeStep DEF LockInv
<1>1. ASSUME NEW c \in Calls, Enter(c) PROVE LockInv'
  BY <1>0, <1>1, EnterStep
<1>2. ASSUME NEW c \in Calls, Start(c) PROVE LockInv'
  BY <1>0, <1>2, StartStep
<1>3. ASSUME NEW c \in Calls, Finish(c) PROVE LockInv'
  BY <1>0, <1>3, FinishStep
<1>4. CASE Restart
  BY <1>0, <1>4
     DEF Restart, LockInv, LockTypeOK, States, TicketsInOrder, MapHoldsYoungest,
         GateIsOlder, GateIsNextOlder, FirstComeFirstServed, Before, Active
<1>5. CASE UNCHANGED lockVars
  BY <1>5
     DEF lockVars, LockInv, LockTypeOK, TicketsInOrder, MapHoldsYoungest,
         GateIsOlder, GateIsNextOlder, FirstComeFirstServed, Before, Active
<1>6. QED
  BY <1>1, <1>2, <1>3, <1>4, <1>5 DEF LockNext

\* The invariant excludes two running calls on one file: one arrived first.
LEMMA LockInvExcludes == LockInv => MutualExclusion
BY DEF LockInv, LockTypeOK, States, TicketsInOrder, FirstComeFirstServed,
       MutualExclusion, Before, Active

(***************************************************************************)
(* LockInv holds in every reachable state.                                 *)
(***************************************************************************)
THEOREM LockInvariant == LockSpec => []LockInv
BY LockInvInit, LockInvStep, PTL DEF LockSpec

(***************************************************************************)
(* Every variable of the lock keeps its type.                              *)
(***************************************************************************)
THEOREM LockTypeCorrect == LockSpec => []LockTypeOK
<1>1. LockInv => LockTypeOK
  BY DEF LockInv
<1>2. QED BY <1>1, LockInvariant, PTL

(***************************************************************************)
(* withFileLock is a lock: two bodies on one file never run together,      *)
(* whatever the number of callers and of files.                            *)
(***************************************************************************)
THEOREM LockMutualExclusion == LockSpec => []MutualExclusion
BY LockInvariant, LockInvExcludes, PTL

(***************************************************************************)
(* withFileLock is fair: calls on one file run in the order of arrival.    *)
(***************************************************************************)
THEOREM LockFirstComeFirstServed == LockSpec => []FirstComeFirstServed
<1>1. LockInv => FirstComeFirstServed
  BY DEF LockInv
<1>2. QED BY <1>1, LockInvariant, PTL

(***************************************************************************)
(* The map has an entry exactly for the files in use.                      *)
(***************************************************************************)
THEOREM LockEntryIffInUse == LockSpec => []EntryIffInUse
<1>1. LockInv => EntryIffInUse
  BY FileLockAssumption DEF LockInv, LockTypeOK, MapHoldsYoungest, EntryIffInUse
<1>2. QED BY <1>1, LockInvariant, PTL

(***************************************************************************)
(* What the stores rely on, in one statement.                              *)
(***************************************************************************)
THEOREM LockSafety == LockSpec => []LockCorrect
BY LockMutualExclusion, LockFirstComeFirstServed, LockEntryIffInUse, PTL DEF LockCorrect
-----------------------------------------------------------------------------
(***************************************************************************)
(* The lock implements a queue per file.  q lists the calls in use in the  *)
(* order of their tickets; there is such a list in every reachable state,  *)
(* and it is what the mapping, which counts tickets, gives.                *)
(***************************************************************************)
Lists(q, S, rank) ==
  /\ q \in Seq(S)
  /\ \A c \in S : \E i \in 1 .. Len(q) : q[i] = c
  /\ \A i, j \in 1 .. Len(q) : i < j => rank[q[i]] < rank[q[j]]

Listed == \A f \in Files : \E q : Lists(q, InUse(f), ticket)

\* A list in order is the function that counts.
Counted(S, rank) ==
  [n \in 1 .. Cardinality(S) |-> CHOOSE c \in S : Cardinality({d \in S : rank[d] <= rank[c]}) = n]

LEMMA ListCounts ==
  ASSUME NEW S, NEW rank, \A c \in S : rank[c] \in Nat, NEW q, Lists(q, S, rank)
  PROVE  Counted(S, rank) = q
<1> DEFINE PlaceOf(c) == Cardinality({d \in S : rank[d] <= rank[c]})
<1>1. q \in Seq(S) /\ Len(q) \in Nat /\ q = [i \in 1 .. Len(q) |-> q[i]] /\ \A i \in 1 .. Len(q) : q[i] \in S
  BY DEF Lists
<1>2. \A c \in S : rank[c] \in Nat
  OBVIOUS
<1>3. \A i, j \in 1 .. Len(q) : i < j => rank[q[i]] < rank[q[j]]
  BY DEF Lists
<1>4. \A i, j \in 1 .. Len(q) : (rank[q[j]] <= rank[q[i]]) <=> j <= i
  <2> SUFFICES ASSUME NEW i \in 1 .. Len(q), NEW j \in 1 .. Len(q)
               PROVE  (rank[q[j]] <= rank[q[i]]) <=> j <= i
    OBVIOUS
  <2>1. rank[q[i]] \in Nat /\ rank[q[j]] \in Nat
    BY <1>1, <1>2
  <2> QED BY <1>3, <2>1
<1>5. ASSUME NEW n \in Nat, n <= Len(q), NEW T, T = {c \in S : \E i \in 1 .. n : c = q[i]}
      PROVE  IsFiniteSet(T) /\ Cardinality(T) = n
  <2> DEFINE g == [i \in 1 .. n |-> q[i]]
  <2>1. \A i \in 1 .. n : i \in 1 .. Len(q) /\ q[i] \in S
    BY <1>1, <1>5
  <2>2. g \in Bijection(1 .. n, T)
    <3>1. g \in [1 .. n -> T]
      BY <1>5, <2>1
    <3>2. \A i, j \in 1 .. n : g[i] = g[j] => i = j
      <4> SUFFICES ASSUME NEW i \in 1 .. n, NEW j \in 1 .. n, q[i] = q[j] PROVE i = j
        OBVIOUS
      <4>1. rank[q[i]] \in Nat /\ rank[q[i]] = rank[q[j]]
        BY <1>2, <2>1
      <4>2. j <= i /\ i <= j
        BY <1>4, <2>1, <4>1
      <4> QED BY <4>2
    <3>3. \A c \in T : \E i \in 1 .. n : g[i] = c
      BY <1>5
    <3> HIDE DEF g
    <3> QED BY <3>1, <3>2, <3>3 DEF Bijection, Injection, Surjection, IsInjective
  <2>3. ExistsBijection(1 .. n, T)
    BY <2>2 DEF ExistsBijection
  <2>4. IsFiniteSet(1 .. n) /\ Cardinality(1 .. n) = n
    BY FS_Interval
  <2> QED BY <2>3, <2>4, FS_Bijection
<1>6. Cardinality(S) = Len(q)
  <2>1. S = {c \in S : \E i \in 1 .. Len(q) : c = q[i]}
    BY DEF Lists
  <2> QED BY <1>1, <1>5, <2>1
<1>7. \A i \in 1 .. Len(q) : PlaceOf(q[i]) = i
  <2> SUFFICES ASSUME NEW i \in 1 .. Len(q) PROVE PlaceOf(q[i]) = i
    OBVIOUS
  <2>1. i \in Nat /\ i <= Len(q) /\ \A j : j \in 1 .. i <=> j \in 1 .. Len(q) /\ j <= i
    BY <1>1
  <2>2. {d \in S : rank[d] <= rank[q[i]]} = {c \in S : \E j \in 1 .. i : c = q[j]}
    <3>1. ASSUME NEW d \in S PROVE (rank[d] <= rank[q[i]]) <=> \E j \in 1 .. i : d = q[j]
      <4>1. PICK k \in 1 .. Len(q) : q[k] = d
        BY DEF Lists
      <4>2. (rank[d] <= rank[q[i]]) => \E j \in 1 .. i : d = q[j]
        BY <1>4, <2>1, <4>1
      <4>3. ASSUME NEW j \in 1 .. i, d = q[j] PROVE rank[d] <= rank[q[i]]
        BY <1>4, <2>1, <4>3
      <4> QED BY <4>2, <4>3
    <3> QED BY <3>1
  <2> QED BY <1>5, <2>1, <2>2 
<1>8. \A n \in 1 .. Len(q) : (CHOOSE c \in S : PlaceOf(c) = n) = q[n]
  <2> SUFFICES ASSUME NEW n \in 1 .. Len(q) PROVE (CHOOSE c \in S : PlaceOf(c) = n) = q[n]
    OBVIOUS
  <2>1. q[n] \in S /\ PlaceOf(q[n]) = n
    BY <1>1, <1>7
  <2>2. \A c \in S : PlaceOf(c) = n => c = q[n]
    <3> SUFFICES ASSUME NEW c \in S, PlaceOf(c) = n PROVE c = q[n]
      OBVIOUS
    <3>1. PICK k \in 1 .. Len(q) : q[k] = c
      BY DEF Lists
    <3> QED BY <1>7, <3>1
  <2> HIDE DEF PlaceOf
  <2> QED BY <2>1, <2>2
<1>9. Counted(S, rank) = [n \in 1 .. Len(q) |-> q[n]]
  BY <1>6, <1>8 DEF Counted
<1> QED BY <1>1, <1>9

LEMMA QueueIsCounted ==
  \A f : QueueOf(f) = Counted(InUse(f), ticket) /\ QueueOf(f)' = Counted(InUse(f)', ticket')
BY DEF QueueOf, PlaceIn, Counted

\* The queue of a file is its list, now and after a step.
LEMMA ListIsQueue ==
  ASSUME LockTypeOK, NEW f, NEW q, Lists(q, InUse(f), ticket)
  PROVE  QueueOf(f) = q
<1>1. \A c \in InUse(f) : ticket[c] \in Nat
  BY DEF LockTypeOK, InUse
<1> QED BY <1>1, QueueIsCounted, ListCounts

LEMMA ListIsNextQueue ==
  ASSUME LockTypeOK', NEW f, NEW q, Lists(q, InUse(f)', ticket')
  PROVE  QueueOf(f)' = q
<1>1. \A c \in InUse(f)' : ticket'[c] \in Nat
  BY DEF LockTypeOK, InUse
<1> QED BY <1>1, QueueIsCounted, ListCounts

\* Nobody waits for a lock nobody has asked for.
LEMMA ListedInit == LockInit => Listed
<1> SUFFICES ASSUME LockInit, NEW f \in Files PROVE Lists(<<>>, InUse(f), ticket)
  BY DEF Listed
<1>1. InUse(f) = {}
  BY DEF LockInit, InUse, Active
<1> QED BY <1>1 DEF Lists

\* A list stays one while its calls stay in use and keep their tickets.
LEMMA ListStays ==
  ASSUME NEW f, NEW q, Lists(q, InUse(f), ticket), InUse(f)' = InUse(f),
         \A c \in InUse(f) : ticket'[c] = ticket[c]
  PROVE  Lists(q, InUse(f)', ticket')
<1>1. \A i \in 1 .. Len(q) : ticket'[q[i]] = ticket[q[i]]
  BY DEF Lists
<1> QED BY <1>1 DEF Lists

\* Who arrives goes to the end of the queue of its file, and to no other.
LEMMA EnterLists ==
  ASSUME LockInv, NEW n \in Calls, Enter(n), NEW f \in Files, NEW q, Lists(q, InUse(f), ticket)
  PROVE  Lists(IF f = FileOf[n] THEN Append(q, n) ELSE q, InUse(f)', ticket')
<1>1. /\ pc \in [Calls -> States] /\ ticket \in [Calls -> Nat] /\ arrivals \in Nat /\ n \notin InUse(f)
      /\ \A c \in InUse(f) : c \in Calls /\ ticket[c] <= arrivals /\ ticket'[c] = ticket[c]
      /\ ticket'[n] = arrivals + 1
  BY DEF LockInv, LockTypeOK, TicketsInOrder, Enter, InUse, Active
<1>2. InUse(f)' = IF f = FileOf[n] THEN InUse(f) \cup {n} ELSE InUse(f)
  <2>1. \A c \in Calls : Active(c)' <=> Active(c) \/ c = n
    BY <1>1 DEF Enter, Active
  <2> QED BY <2>1 DEF InUse
<1>3. CASE f # FileOf[n]
  BY <1>1, <1>2, <1>3, ListStays
<1>4. CASE f = FileOf[n]
  <2>1. PICK p : p = Append(q, n)
    OBVIOUS
  <2>2. /\ q \in Seq(InUse(f)) /\ Len(q) \in Nat /\ p \in Seq(InUse(f) \cup {n}) /\ Len(p) = Len(q) + 1
        /\ p[Len(q) + 1] = n /\ \A i \in 1 .. Len(q) : p[i] = q[i] /\ q[i] \in InUse(f)
    BY <2>1 DEF Lists
  <2>3. ASSUME NEW c \in InUse(f) \cup {n} PROVE \E i \in 1 .. Len(p) : p[i] = c
    <3>1. CASE c = n
      <4>1. Len(q) + 1 \in 1 .. Len(p)
        BY <2>2
      <4> QED BY <2>2, <3>1, <4>1
    <3>2. CASE c # n
      <4>1. PICK i \in 1 .. Len(q) : q[i] = c
        BY <2>3, <3>2 DEF Lists
      <4>2. i \in 1 .. Len(p)
        BY <2>2
      <4> QED BY <2>2, <4>1, <4>2
    <3> QED BY <3>1, <3>2
  <2>4. ASSUME NEW i \in 1 .. Len(p), NEW j \in 1 .. Len(p), i < j PROVE ticket'[p[i]] < ticket'[p[j]]
    <3>1. i \in 1 .. Len(q)
      BY <2>2, <2>4
    <3>2. CASE j = Len(q) + 1
      <4>1. ticket'[p[i]] <= arrivals /\ ticket'[p[i]] \in Nat /\ ticket'[p[j]] = arrivals + 1
        BY <1>1, <2>2, <3>1, <3>2
      <4> QED BY <1>1, <4>1
    <3>3. CASE j # Len(q) + 1
      <4>1. j \in 1 .. Len(q)
        BY <2>2, <3>3
      <4>2. ticket[q[i]] < ticket[q[j]]
        BY <2>4, <3>1, <4>1 DEF Lists
      <4> QED BY <1>1, <2>2, <3>1, <4>1, <4>2
    <3> QED BY <3>2, <3>3
  <2> QED BY <1>2, <1>4, <2>1, <2>2, <2>3, <2>4 DEF Lists
<1> QED BY <1>3, <1>4

\* Who runs is the first of its queue.
LEMMA HeadRuns ==
  ASSUME LockInv, NEW n \in Calls, pc[n] = "running", NEW q, Lists(q, InUse(FileOf[n]), ticket)
  PROVE  Len(q) > 0 /\ q[1] = n
<1>1. n \in InUse(FileOf[n])
  BY DEF InUse, Active
<1>2. PICK k \in 1 .. Len(q) : q[k] = n
  BY <1>1 DEF Lists
<1>3. Len(q) \in Nat /\ 1 \in 1 .. Len(q) /\ q[1] \in InUse(FileOf[n])
  BY <1>2 DEF Lists
<1>4. ASSUME k # 1 PROVE FALSE
  <2>1. ticket[q[1]] < ticket[n]
    BY <1>2, <1>3, <1>4 DEF Lists
  <2>2. q[1] \in Calls /\ Active(q[1]) /\ FileOf[q[1]] = FileOf[n]
    BY <1>3 DEF InUse
  <2>3. ticket[q[1]] # 0
    BY <2>2 DEF LockInv, TicketsInOrder, Active
  <2>4. Before(q[1], n)
    BY <2>1, <2>2, <2>3 DEF Before
  <2> QED BY <2>2, <2>4 DEF LockInv, FirstComeFirstServed
<1> QED BY <1>2, <1>3, <1>4

\* Who leaves was the first of its queue.
LEMMA FinishLists ==
  ASSUME LockInv, NEW n \in Calls, Finish(n), NEW f \in Files, NEW q, Lists(q, InUse(f), ticket)
  PROVE  Lists(IF f = FileOf[n] THEN Tail(q) ELSE q, InUse(f)', ticket')
<1>1. pc \in [Calls -> States] /\ ticket' = ticket /\ pc[n] = "running"
  BY DEF LockInv, LockTypeOK, Finish
<1>2. InUse(f)' = IF f = FileOf[n] THEN InUse(f) \ {n} ELSE InUse(f)
  <2>1. \A c \in Calls : Active(c)' <=> Active(c) /\ c # n
    BY <1>1 DEF Finish, Active
  <2> QED BY <2>1 DEF InUse
<1>3. CASE f # FileOf[n]
  BY <1>1, <1>2, <1>3, ListStays
<1>4. CASE f = FileOf[n]
  <2>1. Len(q) > 0 /\ q[1] = n
    BY <1>1, <1>4, HeadRuns
  <2>2. PICK p : p = Tail(q)
    OBVIOUS
  <2>3. /\ q \in Seq(InUse(f)) /\ Len(q) \in Nat /\ p \in Seq(InUse(f)) /\ Len(p) = Len(q) - 1
        /\ \A i \in 1 .. Len(p) : p[i] = q[i + 1] /\ i + 1 \in 1 .. Len(q)
    BY <2>1, <2>2 DEF Lists
  <2>4. ASSUME NEW i \in 1 .. Len(p) PROVE p[i] \in InUse(f) \ {n}
    <3>1. ticket[q[1]] < ticket[q[i + 1]] /\ q[i + 1] \in InUse(f)
      <4>1. 1 \in 1 .. Len(q) /\ i + 1 \in 1 .. Len(q) /\ 1 < i + 1
        BY <2>1, <2>3, <2>4
      <4>2. ticket[q[1]] < ticket[q[i + 1]]
        BY <4>1 DEF Lists
      <4> QED BY <2>3, <4>1, <4>2
    <3>2. q[1] \in Calls /\ ticket[q[1]] \in Nat
      BY <2>1 DEF LockInv, LockTypeOK
    <3> QED BY <2>1, <2>3, <2>4, <3>1, <3>2
  <2>5. p \in Seq(InUse(f) \ {n})
    BY <2>3, <2>4
  <2>6. ASSUME NEW c \in InUse(f) \ {n} PROVE \E i \in 1 .. Len(p) : p[i] = c
    <3>1. PICK k \in 1 .. Len(q) : q[k] = c
      BY DEF Lists
    <3>2. k # 1 /\ k - 1 \in 1 .. Len(p)
      BY <2>1, <2>3, <2>6, <3>1
    <3>3. p[k - 1] = q[(k - 1) + 1] /\ (k - 1) + 1 = k
      BY <2>3, <3>2
    <3> QED BY <3>1, <3>2, <3>3
  <2>7. ASSUME NEW i \in 1 .. Len(p), NEW j \in 1 .. Len(p), i < j PROVE ticket[p[i]] < ticket[p[j]]
    <3>1. i + 1 \in 1 .. Len(q) /\ j + 1 \in 1 .. Len(q) /\ i + 1 < j + 1
      BY <2>3, <2>7
    <3>2. ticket[q[i + 1]] < ticket[q[j + 1]]
      BY <3>1 DEF Lists
    <3> QED BY <2>3, <3>2
  <2> QED BY <1>1, <1>2, <1>4, <2>2, <2>5, <2>6, <2>7 DEF Lists
<1> QED BY <1>3, <1>4

\* Nobody is left in a queue by a restart.
LEMMA RestartEmpties == ASSUME LockInv, Restart, NEW f PROVE InUse(f)' = {}
<1>1. \A c \in Calls : ~Active(c)'
  BY DEF Restart, Active
<1> QED BY <1>1 DEF InUse

\* In every step there is a list for every file again.
LEMMA ListedStep == LockInv /\ Listed /\ [LockNext]_lockVars => Listed'
<1> SUFFICES ASSUME LockInv, Listed, [LockNext]_lockVars, NEW f \in Files
             PROVE  \E q : Lists(q, InUse(f)', ticket')
  BY DEF Listed
<1>0. PICK q : Lists(q, InUse(f), ticket)
  BY DEF Listed
<1>1. ASSUME NEW n \in Calls, Enter(n) PROVE \E p : Lists(p, InUse(f)', ticket')
  BY <1>0, <1>1, EnterLists
<1>2. ASSUME NEW n \in Calls, Start(n) PROVE \E p : Lists(p, InUse(f)', ticket')
  <2>1. InUse(f)' = InUse(f) /\ ticket' = ticket
    BY <1>2 DEF LockInv, LockTypeOK, Start, InUse, Active
  <2> QED BY <1>0, <2>1, ListStays
<1>3. ASSUME NEW n \in Calls, Finish(n) PROVE \E p : Lists(p, InUse(f)', ticket')
  BY <1>0, <1>3, FinishLists
<1>4. CASE Restart
  <2>1. Lists(<<>>, InUse(f)', ticket')
    BY <1>4, RestartEmpties DEF Lists
  <2> QED BY <2>1
<1>5. CASE UNCHANGED lockVars
  <2>1. InUse(f)' = InUse(f) /\ ticket' = ticket
    BY <1>5 DEF lockVars, InUse, Active
  <2> QED BY <1>0, <2>1, ListStays
<1> QED BY <1>1, <1>2, <1>3, <1>4, <1>5 DEF LockNext

\* Who begins to run was waiting in its queue, and nobody ran.
LEMMA StartServes ==
  ASSUME LockInv, LockInv', Listed, NEW n \in Calls, Start(n)
  PROVE  Executor!Serve(FileOf[n])
<1> DEFINE f == FileOf[n]
<1>1. /\ pc \in [Calls -> States] /\ pc[n] = "queued" /\ ticket' = ticket /\ f \in Files
      /\ pc' = [pc EXCEPT ![n] = "running"]
  BY FileLockAssumption DEF LockInv, LockTypeOK, Start
<1>2. \A g : InUse(g)' = InUse(g)
  BY <1>1 DEF InUse, Active
<1>3. \A g \in Files : QueueOf(g)' = QueueOf(g)
  BY <1>1, <1>2, QueueIsCounted
<1>4. QueueOf(f) # <<>>
  <2>1. PICK q : Lists(q, InUse(f), ticket)
    BY <1>1 DEF Listed
  <2>2. QueueOf(f) = q /\ n \in InUse(f)
    BY <1>1, <2>1, ListIsQueue DEF LockInv, InUse, Active
  <2> QED BY <2>1, <2>2 DEF Lists
<1>5. ~Served(f)
  <2> SUFFICES ASSUME NEW c \in Calls, FileOf[c] = f, pc[c] = "running" PROVE FALSE
    BY DEF Served
  <2>1. c # n /\ pc'[c] = "running" /\ pc'[n] = "running"
    BY <1>1
  <2>2. MutualExclusion'
    BY LockInvExcludes, PTL
  <2> QED BY <2>1, <2>2 DEF MutualExclusion
<1>6. \A g \in Files : Served(g)' = IF g = f THEN TRUE ELSE Served(g)
  BY <1>1 DEF Served
<1>7. {c \in Calls : pc[c] # "idle"}' = {c \in Calls : pc[c] # "idle"}
  BY <1>1
<1>8. [g \in Files |-> Served(g)]' = [[g \in Files |-> Served(g)] EXCEPT ![f] = TRUE]
  BY <1>6
<1>9. [g \in Files |-> QueueOf(g)]' = [g \in Files |-> QueueOf(g)]
  BY <1>3
<1> QED BY <1>1, <1>4, <1>5, <1>7, <1>8, <1>9 DEF Executor!Serve

\* Who ends leaves the queue at its head.
LEMMA FinishLeaves ==
  ASSUME LockInv, LockInv', Listed, NEW n \in Calls, Finish(n)
  PROVE  Executor!Leave(FileOf[n])
<1> DEFINE f == FileOf[n]
<1>1. /\ pc \in [Calls -> States] /\ pc[n] = "running" /\ f \in Files
      /\ pc' = [pc EXCEPT ![n] = "done"]
  BY FileLockAssumption DEF LockInv, LockTypeOK, Finish
<1>2. \A g \in Files : QueueOf(g)' = IF g = f THEN Tail(QueueOf(g)) ELSE QueueOf(g)
  <2> SUFFICES ASSUME NEW g \in Files PROVE QueueOf(g)' = IF g = f THEN Tail(QueueOf(g)) ELSE QueueOf(g)
    OBVIOUS
  <2>1. PICK q : Lists(q, InUse(g), ticket)
    BY DEF Listed
  <2>2. QueueOf(g) = q
    BY <2>1, ListIsQueue DEF LockInv
  <2>3. PICK p : p = IF g = f THEN Tail(q) ELSE q
    OBVIOUS
  <2>4. Lists(p, InUse(g)', ticket')
    BY <2>1, <2>3, FinishLists
  <2>5. QueueOf(g)' = p
    BY <2>4, ListIsNextQueue DEF LockInv
  <2> QED BY <2>2, <2>3, <2>5
<1>3. Served(f)
  BY <1>1 DEF Served
<1>4. \A g \in Files : Served(g)' = IF g = f THEN FALSE ELSE Served(g)
  <2>1. ASSUME NEW c \in Calls, FileOf[c] = f, pc'[c] = "running" PROVE FALSE
    <3>1. c # n /\ pc[c] = "running"
      BY <1>1, <2>1
    <3> QED BY <1>1, <2>1, <3>1, LockInvExcludes DEF MutualExclusion
  <2>2. \A g \in Files : g # f => Served(g)' = Served(g)
    BY <1>1 DEF Served
  <2>3. Served(f)' = FALSE
    BY <2>1 DEF Served
  <2> QED BY <2>2, <2>3
<1>5. {c \in Calls : pc[c] # "idle"}' = {c \in Calls : pc[c] # "idle"}
  BY <1>1
<1>6. [g \in Files |-> Served(g)]' = [[g \in Files |-> Served(g)] EXCEPT ![f] = FALSE]
  BY <1>4
<1>7. [g \in Files |-> QueueOf(g)]' = [[g \in Files |-> QueueOf(g)] EXCEPT ![f] = Tail(@)]
  BY <1>2
<1> QED BY <1>1, <1>3, <1>5, <1>6, <1>7 DEF Executor!Leave

\* Who arrives joins its queue.
LEMMA EnterArrives ==
  ASSUME LockInv, LockInv', Listed, NEW n \in Calls, Enter(n)
  PROVE  Executor!Arrive(n)
<1> DEFINE f == FileOf[n]
<1>1. /\ pc \in [Calls -> States] /\ pc[n] = "idle" /\ f \in Files
      /\ pc' = [pc EXCEPT ![n] = "queued"]
  BY FileLockAssumption DEF LockInv, LockTypeOK, Enter
<1>2. \A g \in Files : QueueOf(g)' = IF g = f THEN Append(QueueOf(g), n) ELSE QueueOf(g)
  <2> SUFFICES ASSUME NEW g \in Files PROVE QueueOf(g)' = IF g = f THEN Append(QueueOf(g), n) ELSE QueueOf(g)
    OBVIOUS
  <2>1. PICK q : Lists(q, InUse(g), ticket)
    BY DEF Listed
  <2>2. QueueOf(g) = q
    BY <2>1, ListIsQueue DEF LockInv
  <2>3. PICK p : p = IF g = f THEN Append(q, n) ELSE q
    OBVIOUS
  <2>4. Lists(p, InUse(g)', ticket')
    BY <2>1, <2>3, EnterLists
  <2>5. QueueOf(g)' = p
    BY <2>4, ListIsNextQueue DEF LockInv
  <2> QED BY <2>2, <2>3, <2>5
<1>3. {c \in Calls : pc[c] # "idle"}' = {c \in Calls : pc[c] # "idle"} \cup {n}
  BY <1>1
<1>4. \A g \in Files : Served(g)' = Served(g)
  BY <1>1 DEF Served
<1>5. [g \in Files |-> Served(g)]' = [g \in Files |-> Served(g)]
  BY <1>4
<1>6. [g \in Files |-> QueueOf(g)]' = [[g \in Files |-> QueueOf(g)] EXCEPT ![f] = Append(@, n)]
  BY <1>2
<1> QED BY <1>1, <1>3, <1>5, <1>6 DEF Executor!Arrive

LEMMA RestartForgets ==
  ASSUME LockInv, LockInv', Restart
  PROVE  Executor!Forget
<1>1. pc \in [Calls -> States] /\ pc' = [c \in Calls |-> IF Active(c) THEN "lost" ELSE pc[c]]
  BY DEF LockInv, LockTypeOK, Restart
<1>2. ASSUME NEW g \in Files PROVE QueueOf(g)' = <<>> /\ Served(g)' = FALSE
  <2>1. Lists(<<>>, InUse(g)', ticket')
    BY RestartEmpties DEF Lists
  <2>2. QueueOf(g)' = <<>>
    BY <2>1, ListIsNextQueue DEF LockInv
  <2>3. \A c \in Calls : pc'[c] # "running"
    BY <1>1 DEF Active
  <2> QED BY <2>2, <2>3 DEF Served
<1>3. {c \in Calls : pc[c] # "idle"}' = {c \in Calls : pc[c] # "idle"}
  BY <1>1 DEF Active
<1>4. [g \in Files |-> QueueOf(g)]' = [g \in Files |-> <<>>]
  BY <1>2
<1>5. [g \in Files |-> Served(g)]' = [g \in Files |-> FALSE]
  BY <1>2
<1> QED BY <1>3, <1>4, <1>5 DEF Executor!Forget

LEMMA LockInitIsExecutors == LockInit => Executor!Init
<1> SUFFICES ASSUME LockInit PROVE Executor!Init
  OBVIOUS
<1>1. LockTypeOK /\ Listed /\ pc = [c \in Calls |-> "idle"]
  BY LockInvInit, ListedInit DEF LockInv, LockInit
<1>2. ASSUME NEW g \in Files PROVE QueueOf(g) = <<>> /\ Served(g) = FALSE
  <2>1. InUse(g) = {}
    BY <1>1 DEF InUse, Active
  <2>2. Lists(<<>>, InUse(g), ticket)
    BY <2>1 DEF Lists
  <2> QED BY <1>1, <2>2, ListIsQueue DEF Served
<1>3. {c \in Calls : pc[c] # "idle"} = {}
  BY <1>1
<1>4. [g \in Files |-> QueueOf(g)] = [g \in Files |-> <<>>] /\ [g \in Files |-> Served(g)] = [g \in Files |-> FALSE]
  BY <1>2
<1> QED BY <1>3, <1>4 DEF Executor!Init

LEMMA LockStepIsExecutors ==
  LockInv /\ LockInv' /\ Listed /\ [LockNext]_lockVars => [Executor!Next]_(Executor!vars)
<1> SUFFICES ASSUME LockInv, LockInv', Listed, [LockNext]_lockVars PROVE [Executor!Next]_(Executor!vars)
  OBVIOUS
<1>0. \A c \in Calls : FileOf[c] \in Files
  BY FileLockAssumption
<1>1. ASSUME NEW n \in Calls, Enter(n) PROVE Executor!Next
  BY <1>1, EnterArrives DEF Executor!Next
<1>2. ASSUME NEW n \in Calls, Start(n) PROVE Executor!Next
  BY <1>0, <1>2, StartServes DEF Executor!Next
<1>3. ASSUME NEW n \in Calls, Finish(n) PROVE Executor!Next
  BY <1>0, <1>3, FinishLeaves DEF Executor!Next
<1>4. CASE Restart
  BY <1>4, RestartForgets DEF Executor!Next
<1>5. CASE UNCHANGED lockVars
  <2>1. pc' = pc /\ ticket' = ticket
    BY <1>5 DEF lockVars
  <2>2. \A g : InUse(g)' = InUse(g) /\ Served(g)' = Served(g)
    BY <2>1 DEF InUse, Active, Served
  <2>3. \A g : QueueOf(g)' = QueueOf(g)
    BY <2>1, <2>2, QueueIsCounted
  <2>4. [g \in Files |-> QueueOf(g)]' = [g \in Files |-> QueueOf(g)] /\ [g \in Files |-> Served(g)]' = [g \in Files |-> Served(g)]
    BY <2>2, <2>3
  <2> QED BY <2>1, <2>4 DEF Executor!vars
<1> QED BY <1>1, <1>2, <1>3, <1>4, <1>5 DEF LockNext

(***************************************************************************)
(* The promise chain of withFileLock implements a queue per file, step by  *)
(* step: whatever is done to files through the lock could have been done   *)
(* by one process that takes the calls of each file from a queue.          *)
(***************************************************************************)
THEOREM LockImplementsExecutor == LockSpec => Executor!Init /\ [][Executor!Next]_(Executor!vars)
<1>1. LockSpec => []Listed
  BY LockInvariant, ListedInit, ListedStep, PTL DEF LockSpec
<1>2. LockInit => Executor!Init
  BY LockInitIsExecutors
<1>3. LockInv /\ LockInv' /\ Listed /\ [LockNext]_lockVars => [Executor!Next]_(Executor!vars)
  BY LockStepIsExecutors
<1> QED BY <1>1, <1>2, <1>3, LockInvariant, PTL DEF LockSpec
=============================================================================
