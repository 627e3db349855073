-------------------------- MODULE ScriptTasksProofs --------------------------
(***************************************************************************)
(* Proofs about IdleTaskQueue, for any number of tasks and any delays, and *)
(* about its composition with the script thread, for any number of threads *)
(* and script tasks.                                                       *)
(***************************************************************************)
EXTENDS ScriptTasks, FiniteSetTheorems, TLAPS

-----------------------------------------------------------------------------
(***************************************************************************)
(* The idle task queue alone.  Owned says of every task in memory where it *)
(* is, and Scheduled what the order of the tasks that are ready or started *)
(* tells: a task without a delay never waits in the heap, so that it stands *)
(* behind every earlier one.                                               *)
(***************************************************************************)

Places(t) ==
  /\ t \in waiting => \A i \in 1..Len(ready) : ready[i] # t
  /\ phase = "running" /\ t = current =>
       t \notin waiting /\ \A i \in 1..Len(ready) : ready[i] # t

Owned ==
  /\ taskMap \subseteq 1..given
  /\ waiting \subseteq taskMap
  /\ \A i \in 1..Len(ready) : ready[i] \in taskMap
  /\ \A i, j \in 1..Len(ready) : ready[i] = ready[j] => i = j
  /\ phase = "running" => current \in taskMap
  /\ \A t \in taskMap :
       /\ Places(t)
       /\ \/ t \in waiting
          \/ \E i \in 1..Len(ready) : ready[i] = t
          \/ phase = "running" /\ t = current
  /\ \A t, u \in taskMap : address[t] = address[u] => t = u

Scheduled ==
  /\ phase = "running" => count > 0
  /\ \A t \in waiting : dueAt[t] # 0
  /\ \A i \in 1..Len(ready) : dueAt[ready[i]] <= now
  /\ \A i, j \in 1..Len(ready) :
       i < j /\ dueAt[ready[i]] = 0 /\ dueAt[ready[j]] = 0 => ready[i] < ready[j]
  /\ \A k \in 1..Len(started) :
       /\ started[k] <= given
       /\ started[k] \notin waiting
       /\ \A i \in 1..Len(ready) :
            /\ started[k] # ready[i]
            /\ dueAt[started[k]] = 0 /\ dueAt[ready[i]] = 0 => started[k] < ready[i]

QueueInv == TypeOK /\ Owned /\ Scheduled

LEMMA AppendFields ==
  ASSUME NEW S, NEW q \in Seq(S), NEW x \in S
  PROVE  /\ Append(q, x) \in Seq(S) /\ Len(q) \in Nat
         /\ Len(Append(q, x)) = Len(q) + 1
         /\ \A i \in 1..(Len(q) + 1) : Append(q, x)[i] = IF i <= Len(q) THEN q[i] ELSE x
OBVIOUS

(* Taking the first element of a queue.                                    *)
LEMMA TailFields ==
  ASSUME NEW S, NEW q \in Seq(S), q # << >>
  PROVE  /\ Tail(q) \in Seq(S) /\ Head(q) \in S /\ Head(q) = q[1]
         /\ Len(q) \in Nat \ {0} /\ Len(Tail(q)) = Len(q) - 1
         /\ \A i \in 1..(Len(q) - 1) : Tail(q)[i] = q[i + 1]
OBVIOUS

LEMMA QueueInit == Init => QueueInv
<1> SUFFICES ASSUME Init  PROVE QueueInv
  OBVIOUS
<1>1. TypeOK
  <2>1. ready \in Seq(Ids) /\ started \in Seq(Ids) /\ Len(ready) = 0
    BY DEF Init
  <2> QED BY <2>1, BoundsAssumption DEF Init, TypeOK
<1>2. Owned /\ Scheduled
  BY DEF Init, Owned, Scheduled
<1> QED BY <1>1, <1>2 DEF QueueInv

LEMMA GiveStep ==
  ASSUME QueueInv, NEW d \in Delays, GiveTask(d)
  PROVE  QueueInv'
<1> DEFINE t == given + 1
<1>1. /\ t \in Ids /\ t \in Nat /\ t = given + 1 /\ t <= MaxTasks
      /\ given \in Nat /\ now \in Nat /\ d \in Nat
      /\ ready \in Seq(Ids) /\ dueAt \in [Ids -> Nat] /\ address \in [Ids -> 0..MaxTasks]
      /\ taskMap \subseteq 1..given /\ waiting \subseteq taskMap /\ taskMap \subseteq Ids
  <2>1. given \in 0..MaxTasks /\ given < MaxTasks /\ now \in 0..MaxTime
    BY DEF QueueInv, TypeOK, GiveTask
  <2>2. /\ t \in 1..MaxTasks /\ t \in Nat /\ t = given + 1 /\ t <= MaxTasks
        /\ given \in Nat /\ now \in Nat
    BY <2>1, BoundsAssumption
  <2>3. d \in Nat
    BY DelaysAssumption
  <2>4. /\ ready \in Seq(Ids) /\ dueAt \in [Ids -> Nat] /\ address \in [Ids -> 0..MaxTasks]
        /\ taskMap \subseteq 1..given /\ waiting \subseteq taskMap /\ taskMap \subseteq Ids
    BY DEF QueueInv, TypeOK, Owned
  <2> QED BY <2>2, <2>3, <2>4 DEF Ids
<1>2. PICK a \in FreeAddresses : address' = [address EXCEPT ![t] = a]
  BY DEF GiveTask
<1>3. /\ given' = t /\ dueAt' = [dueAt EXCEPT ![t] = RunTime(d)]
      /\ taskMap' = taskMap \cup {t} /\ phase # "loop"
      /\ UNCHANGED <<now, canceled, shouldStop, stops, phase, count, current, started>>
      /\ d = 0 => ready' = Append(ready, t) /\ waiting' = waiting
      /\ d # 0 => ready' = ready /\ waiting' = waiting \cup {t}
  BY DEF GiveTask, Enqueue, ScriptMayRun, runVars
<1>4. RunTime(d) \in Nat /\ (RunTime(d) = 0 <=> d = 0)
  BY <1>1 DEF RunTime
<1>5. /\ dueAt' \in [Ids -> Nat] /\ dueAt'[t] = RunTime(d)
      /\ \A u \in Ids : u # t => dueAt'[u] = dueAt[u]
  BY <1>1, <1>3, <1>4
<1>6. /\ address' \in [Ids -> 0..MaxTasks] /\ address'[t] = a
      /\ \A u \in taskMap : address'[u] = address[u] /\ a # address[u]
      /\ t \notin taskMap
  BY <1>1, <1>2, BoundsAssumption DEF FreeAddresses, Ids
<1>7. /\ ready' \in Seq(Ids) /\ Len(ready) \in Nat
      /\ Len(ready') = IF d = 0 THEN Len(ready) + 1 ELSE Len(ready)
      /\ \A i \in 1..Len(ready) : ready'[i] = ready[i]
      /\ d = 0 => ready'[Len(ready) + 1] = t
  <2>1. CASE d = 0
    <3>1. ready' = Append(ready, t)
      BY <1>3, <2>1
    <3>2. /\ ready' \in Seq(Ids) /\ Len(ready) \in Nat /\ Len(ready') = Len(ready) + 1
          /\ \A i \in 1..(Len(ready) + 1) : ready'[i] = IF i <= Len(ready) THEN ready[i] ELSE t
      BY <1>1, <3>1, AppendFields
    <3> HIDE DEF t
    <3> QED BY <2>1, <3>2
  <2>2. CASE d # 0
    <3>1. ready' = ready
      BY <1>3, <2>2
    <3> QED BY <1>1, <2>2, <3>1
  <2> QED BY <2>1, <2>2
<1> HIDE DEF t
<1>8. TypeOK'
  <2>1. count \in 0..(Len(ready') + (IF phase = "running" THEN 1 ELSE 0))
    <3> DEFINE extra == IF phase = "running" THEN 1 ELSE 0
    <3>1. count \in 0..(Len(ready) + extra) /\ extra \in Nat
      BY DEF QueueInv, TypeOK
    <3>2. Len(ready) \in Nat /\ Len(ready') \in {Len(ready), Len(ready) + 1}
      BY <1>7
    <3> HIDE DEF extra
    <3>3. count \in 0..(Len(ready') + extra)
      BY <3>1, <3>2
    <3> QED BY <3>3 DEF extra
  <2>2. /\ given' \in 0..MaxTasks /\ waiting' \subseteq Ids /\ taskMap' \subseteq Ids
        /\ canceled' \subseteq Ids /\ started' \in Seq(Ids)
    <3>1. given' \in 0..MaxTasks
      BY <1>1, <1>3, BoundsAssumption
    <3>2. waiting' \subseteq Ids /\ taskMap' \subseteq Ids
      BY <1>1, <1>3
    <3> QED BY <1>3, <3>1, <3>2 DEF QueueInv, TypeOK
  <2> QED BY <1>3, <1>5, <1>6, <1>7, <2>1, <2>2 DEF QueueInv, TypeOK
<1>9. \A i \in 1..Len(ready) :
        ready[i] \in taskMap /\ ready[i] # t /\ ready[i] \in Ids /\ ready[i] < t
  <2>1. \A u \in taskMap : u \in Nat /\ u < t
    BY <1>1
  <2> QED BY <1>1, <1>6, <2>1 DEF QueueInv, Owned
<1>10. phase = "running" => current \in taskMap /\ current # t
  BY <1>6 DEF QueueInv, Owned
<1>11. Owned'
  <2>1. taskMap' \subseteq 1..given' /\ waiting' \subseteq taskMap'
    <3>1. t \in 1..t /\ 1..given \subseteq 1..t
      BY <1>1
    <3>2. waiting' \subseteq taskMap'
      BY <1>1, <1>3
    <3> QED BY <1>1, <1>3, <3>1, <3>2
  <2>2. \A i \in 1..Len(ready') : ready'[i] \in taskMap'
    BY <1>3, <1>7, <1>9
  <2>3. \A i, j \in 1..Len(ready') : ready'[i] = ready'[j] => i = j
    BY <1>7, <1>9 DEF QueueInv, Owned
  <2>4. phase' = "running" => current' \in taskMap'
    BY <1>3, <1>10
  <2>5. ASSUME NEW u \in taskMap'
        PROVE  /\ Places(u)'
               /\ \/ u \in waiting'
                  \/ \E i \in 1..Len(ready') : ready'[i] = u
                  \/ phase' = "running" /\ u = current'
    <3>1. CASE u = t
      BY <1>1, <1>3, <1>6, <1>7, <1>9, <1>10, <3>1 DEF Places
    <3>2. CASE u # t
      <4>1. u \in taskMap
        BY <1>3, <3>2
      <4>2. u \in waiting' <=> u \in waiting
        BY <1>3, <3>2
      <4>3. (\E i \in 1..Len(ready') : ready'[i] = u) <=> \E i \in 1..Len(ready) : ready[i] = u
        BY <1>7, <3>2
      <4> QED BY <1>3, <4>1, <4>2, <4>3 DEF QueueInv, Owned, Places
    <3> QED BY <3>1, <3>2
  <2>6. \A u, v \in taskMap' : address'[u] = address'[v] => u = v
    BY <1>3, <1>6 DEF QueueInv, Owned
  <2> QED BY <2>1, <2>2, <2>3, <2>4, <2>5, <2>6 DEF Owned
<1>12. Scheduled'
  <2>1. \A u \in waiting' : dueAt'[u] # 0
    BY <1>1, <1>3, <1>4, <1>5, <1>6 DEF QueueInv, Scheduled
  <2>2. \A i \in 1..Len(ready') : dueAt'[ready'[i]] <= now'
    <3>1. now' = now /\ now \in Nat
      BY <1>1, <1>3
    <3> SUFFICES ASSUME NEW i \in 1..Len(ready')  PROVE dueAt'[ready'[i]] <= now
      BY <3>1
    <3>2. CASE i \in 1..Len(ready)
      <4>1. dueAt'[ready'[i]] = dueAt[ready[i]]
        BY <1>5, <1>7, <1>9, <3>2
      <4>2. dueAt[ready[i]] <= now
        BY <3>2 DEF QueueInv, Scheduled
      <4> QED BY <4>1, <4>2
    <3>3. CASE i \notin 1..Len(ready)
      <4>1. d = 0 /\ ready'[i] = t
        BY <1>7, <3>3
      <4> QED BY <3>1, <4>1, <1>4, <1>5
    <3> QED BY <3>2, <3>3
  <2>3. \A i, j \in 1..Len(ready') :
          i < j /\ dueAt'[ready'[i]] = 0 /\ dueAt'[ready'[j]] = 0 => ready'[i] < ready'[j]
    <3> SUFFICES ASSUME NEW i \in 1..Len(ready'), NEW j \in 1..Len(ready'), i < j,
                        dueAt'[ready'[i]] = 0, dueAt'[ready'[j]] = 0
                 PROVE  ready'[i] < ready'[j]
      OBVIOUS
    <3>1. i \in 1..Len(ready) /\ ready'[i] = ready[i] /\ dueAt[ready[i]] = 0
      BY <1>5, <1>7, <1>9
    <3>2. CASE j \in 1..Len(ready)
      <4>1. ready'[j] = ready[j] /\ dueAt[ready[j]] = 0
        BY <1>5, <1>7, <1>9, <3>2
      <4>2. ready[i] < ready[j]
        BY <3>1, <3>2, <4>1 DEF QueueInv, Scheduled
      <4> QED BY <3>1, <4>1, <4>2
    <3>3. CASE j \notin 1..Len(ready)
      <4>1. ready'[j] = t
        BY <1>7, <3>3
      <4> QED BY <1>1, <1>9, <3>1, <4>1
    <3> QED BY <3>2, <3>3
  <2>4. ASSUME NEW k \in 1..Len(started')
        PROVE  /\ started'[k] <= given'
               /\ started'[k] \notin waiting'
               /\ \A i \in 1..Len(ready') :
                    /\ started'[k] # ready'[i]
                    /\ dueAt'[started'[k]] = 0 /\ dueAt'[ready'[i]] = 0
                         => started'[k] < ready'[i]
    <3>1. started[k] \in Ids /\ started[k] <= given /\ started[k] < t /\ started[k] # t
          /\ started'[k] = started[k]
      <4>1. started \in Seq(Ids) /\ k \in 1..Len(started) /\ Len(started) \in Nat
        BY <1>3 DEF QueueInv, TypeOK
      <4>2. started[k] \in Ids
        BY <4>1
      <4>3. started[k] \in Nat /\ started[k] <= given
        BY <4>1, <4>2 DEF QueueInv, Scheduled, Ids
      <4> QED BY <1>1, <1>3, <4>2, <4>3
    <3>2. dueAt'[started[k]] = dueAt[started[k]]
      BY <1>5, <3>1
    <3>3. started[k] \notin waiting'
      BY <1>3, <3>1 DEF QueueInv, Scheduled
    <3>4. ASSUME NEW i \in 1..Len(ready')
          PROVE  /\ started[k] # ready'[i]
                 /\ dueAt[started[k]] = 0 /\ dueAt'[ready'[i]] = 0 => started[k] < ready'[i]
      <4>1. CASE i \in 1..Len(ready)
        BY <1>3, <1>5, <1>7, <1>9, <4>1 DEF QueueInv, Scheduled
      <4>2. CASE i \notin 1..Len(ready)
        <5>1. ready'[i] = t
          BY <1>7, <4>2
        <5> QED BY <1>1, <3>1, <5>1 DEF Ids
      <4> QED BY <4>1, <4>2
    <3> QED BY <1>1, <1>3, <3>1, <3>2, <3>3, <3>4 DEF Ids
  <2>5. phase' = "running" => count' > 0
    BY <1>3 DEF QueueInv, Scheduled
  <2> QED BY <2>1, <2>2, <2>3, <2>4, <2>5 DEF Scheduled
<1> QED BY <1>8, <1>11, <1>12 DEF QueueInv

LEMMA ConcatFields ==
  ASSUME NEW S, NEW q \in Seq(S), NEW n \in Nat, NEW r \in [1..n -> S]
  PROVE  /\ q \o r \in Seq(S) /\ Len(q) \in Nat
         /\ Len(q \o r) = Len(q) + n
         /\ \A i \in 1..Len(q) : (q \o r)[i] = q[i]
         /\ \A i \in (Len(q) + 1)..(Len(q) + n) : (q \o r)[i] = r[i - Len(q)]
<1>1. r \in Seq(S) /\ Len(r) = n
  OBVIOUS
<1> QED BY <1>1

(* Due tasks leave the heap.                                               *)
LEMMA RunStep ==
  ASSUME QueueInv, RunIdleTasks
  PROVE  QueueInv'
<1> DEFINE T == TakenFromHeap
           n == Cardinality(T)
<1>1. /\ ready \in Seq(Ids) /\ waiting \subseteq Ids /\ dueAt \in [Ids -> Nat]
      /\ address \in [Ids -> 0..MaxTasks] /\ now \in Nat /\ waiting \subseteq taskMap
      /\ taskMap \subseteq Ids
  BY DEF QueueInv, TypeOK, Owned
<1>2. T \subseteq waiting /\ \A t \in T : dueAt[t] <= now
  <2>1. ASSUME NEW t \in T  PROVE t \in waiting /\ dueAt[t] <= now
    <3>1. t \in waiting /\ \A u \in Above(t) : Due(u)
      BY DEF TakenFromHeap
    <3>2. address[t] \in 0..MaxTasks
      BY <1>1, <3>1
    <3>3. t \in Above(t)
      BY <3>1, <3>2, BoundsAssumption DEF Above
    <3> QED BY <3>1, <3>3 DEF Due
  <2> QED BY <2>1
<1>3. n \in Nat
  <2>1. IsFiniteSet(Ids)
    BY BoundsAssumption, FS_Interval DEF Ids
  <2>2. IsFiniteSet(T)
    BY <1>1, <1>2, <2>1, FS_Subset
  <2> QED BY <2>2, FS_CardinalityType
<1>4. PICK taken \in TakenInOrder : ready' = ready \o taken
  BY DEF RunIdleTasks
<1>5. /\ phase = "out" /\ phase' = "loop"
      /\ waiting' = waiting \ T /\ count' = Len(ready) + n
      /\ UNCHANGED <<now, given, dueAt, address, canceled, taskMap, shouldStop, stops,
                     current, started>>
  BY DEF RunIdleTasks, BatchSize
<1>6. /\ taken \in [1..n -> T]
      /\ \A t \in T : \E i \in 1..n : taken[i] = t
      /\ \A i, j \in 1..n : i < j => address[taken[i]] > address[taken[j]]
  BY DEF TakenInOrder, Range
<1> HIDE DEF T, n
<1>7. \A i, j \in 1..n : taken[i] = taken[j] => i = j
  <2> SUFFICES ASSUME NEW i \in 1..n, NEW j \in 1..n, taken[i] = taken[j], i # j
               PROVE  FALSE
    OBVIOUS
  <2>1. address[taken[i]] \in 0..MaxTasks
    BY <1>1, <1>2, <1>6
  <2>2. i < j \/ j < i
    BY <1>3
  <2> QED BY <1>6, <2>1, <2>2, BoundsAssumption
<1>8. /\ ready' \in Seq(Ids) /\ Len(ready) \in Nat /\ Len(ready') = Len(ready) + n
      /\ \A i \in 1..Len(ready) : ready'[i] = ready[i]
      /\ \A i \in (Len(ready) + 1)..(Len(ready) + n) :
           ready'[i] = taken[i - Len(ready)] /\ i - Len(ready) \in 1..n
  <2>1. taken \in [1..n -> Ids]
    BY <1>1, <1>2, <1>6
  <2> QED BY <1>1, <1>3, <1>4, <2>1, ConcatFields
<1>9. \A i \in 1..Len(ready') :
        \/ i \in 1..Len(ready) /\ ready'[i] = ready[i] /\ ready[i] \in taskMap
        \/ /\ i \in (Len(ready) + 1)..(Len(ready) + n) /\ ready'[i] \in T
           /\ ready'[i] = taken[i - Len(ready)] /\ i - Len(ready) \in 1..n
  <2> SUFFICES ASSUME NEW i \in 1..Len(ready'), i \notin 1..Len(ready)
               PROVE  /\ i \in (Len(ready) + 1)..(Len(ready) + n) /\ ready'[i] \in T
                      /\ ready'[i] = taken[i - Len(ready)] /\ i - Len(ready) \in 1..n
    BY <1>8 DEF QueueInv, Owned
  <2>1. i \in (Len(ready) + 1)..(Len(ready) + n)
    BY <1>3, <1>8
  <2> QED BY <1>6, <1>8, <2>1
<1>10. TypeOK'
  <2>1. count' \in 0..(Len(ready') + (IF phase' = "running" THEN 1 ELSE 0))
    BY <1>3, <1>5, <1>8
  <2>2. waiting' \subseteq Ids
    BY <1>1, <1>5
  <2> QED BY <1>5, <1>8, <2>1, <2>2 DEF QueueInv, TypeOK
<1>11. Owned'
  <2>1. \A i \in 1..Len(ready') : ready'[i] \in taskMap'
    BY <1>1, <1>2, <1>5, <1>9
  <2>2. ASSUME NEW i \in 1..Len(ready'), NEW j \in 1..Len(ready'), ready'[i] = ready'[j]
        PROVE  i = j
    <3>1. CASE i \in 1..Len(ready) /\ j \in 1..Len(ready)
      BY <1>8, <2>2, <3>1 DEF QueueInv, Owned
    <3>2. CASE i \notin 1..Len(ready) /\ j \notin 1..Len(ready)
      <4>1. i - Len(ready) = j - Len(ready)
        BY <1>7, <1>9, <2>2, <3>2
      <4> QED BY <1>8, <4>1
    <3>3. ASSUME NEW k \in 1..Len(ready), NEW l \in 1..Len(ready'), l \notin 1..Len(ready)
          PROVE  ready'[k] # ready'[l]
      <4>1. ready'[k] = ready[k] /\ ready[k] \in taskMap
        BY <1>8 DEF QueueInv, Owned
      <4>2. ready'[l] \in waiting
        BY <1>2, <1>9, <3>3
      <4> QED BY <4>1, <4>2 DEF QueueInv, Owned, Places
    <3> QED BY <2>2, <3>1, <3>2, <3>3
  <2>3. ASSUME NEW u \in taskMap'
        PROVE  /\ Places(u)'
               /\ \/ u \in waiting'
                  \/ \E i \in 1..Len(ready') : ready'[i] = u
                  \/ phase' = "running" /\ u = current'
    <3>1. CASE u \in T
      <4>1. PICK i \in 1..n : taken[i] = u
        BY <1>6, <3>1
      <4>2. Len(ready) + i \in 1..Len(ready') /\ ready'[Len(ready) + i] = u
        <5>1. Len(ready) + i \in (Len(ready) + 1)..(Len(ready) + n)
              /\ (Len(ready) + i) - Len(ready) = i
          BY <1>3, <1>8
        <5> QED BY <1>3, <1>8, <4>1, <5>1
      <4> QED BY <1>5, <3>1, <4>2 DEF Places
    <3>2. CASE u \notin T
      <4>1. u \in waiting' => \A i \in 1..Len(ready') : ready'[i] # u
        BY <1>5, <1>9, <3>2 DEF QueueInv, Owned, Places
      <4>2. u \in waiting' \/ \E i \in 1..Len(ready) : ready[i] = u
        BY <1>5, <3>2 DEF QueueInv, Owned
      <4>3. u \in waiting' \/ \E i \in 1..Len(ready') : ready'[i] = u
        BY <1>3, <1>8, <4>2
      <4> QED BY <1>5, <4>1, <4>3 DEF Places
    <3> QED BY <3>1, <3>2
  <2> QED BY <1>1, <1>5, <2>1, <2>2, <2>3 DEF QueueInv, Owned
<1>12. Scheduled'
  <2>1. \A i \in 1..Len(ready') : dueAt'[ready'[i]] <= now'
    BY <1>2, <1>5, <1>9 DEF QueueInv, Scheduled
  <2>2. \A i \in 1..Len(ready') : dueAt'[ready'[i]] = 0 =>
          i \in 1..Len(ready) /\ ready'[i] = ready[i]
    BY <1>2, <1>5, <1>9 DEF QueueInv, Scheduled
  <2>3. \A k \in 1..Len(started), i \in 1..Len(ready') : started[k] # ready'[i]
    BY <1>2, <1>9 DEF QueueInv, Scheduled
  <2> QED BY <1>5, <2>1, <2>2, <2>3 DEF QueueInv, Scheduled
<1> QED BY <1>10, <1>11, <1>12 DEF QueueInv

(* The first of the ready tasks is taken, to be skipped or started.        *)
LEMMA TakeStep ==
  ASSUME QueueInv, SkipTask \/ StartTask
  PROVE  QueueInv'
<1> DEFINE t == Head(ready)
<1>1. /\ phase = "loop" /\ count > 0 /\ ready' = Tail(ready)
      /\ UNCHANGED <<now, given, dueAt, address, canceled, waiting, shouldStop, stops>>
      /\ \/ /\ taskMap' = taskMap \ {t} /\ count' = count - 1
            /\ UNCHANGED <<phase, current, started>>
         \/ /\ phase' = "running" /\ current' = t /\ started' = Append(started, t)
            /\ UNCHANGED <<taskMap, count>>
  BY DEF SkipTask, StartTask, LoopGoesOn, RemoveTask
<1>2. /\ ready \in Seq(Ids) /\ started \in Seq(Ids) /\ count \in 0..Len(ready)
      /\ taskMap \subseteq Ids /\ waiting \subseteq taskMap
  BY <1>1 DEF QueueInv, TypeOK, Owned
<1>3. ready # << >>
  BY <1>1, <1>2
<1>4. /\ t = ready[1] /\ ready' \in Seq(Ids) /\ Len(ready) \in Nat \ {0}
      /\ t \in Ids
      /\ Len(ready') = Len(ready) - 1
      /\ \A i \in 1..Len(ready') : ready'[i] = ready[i + 1] /\ i + 1 \in 1..Len(ready)
      /\ 1 \in 1..Len(ready)
  BY <1>1, <1>2, <1>3, TailFields
<1> HIDE DEF t
<1>5. /\ t \in taskMap /\ t \notin waiting
      /\ \A i \in 1..Len(ready') : ready'[i] # t /\ ready'[i] \in taskMap
  <2>1. t \in taskMap /\ t \notin waiting
    BY <1>4 DEF QueueInv, Owned, Places
  <2>2. ASSUME NEW i \in 1..Len(ready')  PROVE ready'[i] # t /\ ready'[i] \in taskMap
    <3>1. i + 1 # 1 /\ i + 1 \in 1..Len(ready) /\ 1 \in 1..Len(ready)
      BY <1>4
    <3> QED BY <1>4, <3>1 DEF QueueInv, Owned
  <2> QED BY <2>1, <2>2
<1>6. TypeOK'
  <2>1. count' \in 0..(Len(ready') + (IF phase' = "running" THEN 1 ELSE 0))
    <3>1. CASE count' = count - 1 /\ phase' = phase
      BY <1>1, <1>2, <1>4, <3>1
    <3>2. CASE count' = count /\ phase' = "running"
      BY <1>2, <1>4, <3>2
    <3>3. \/ count' = count - 1 /\ phase' = phase
          \/ count' = count /\ phase' = "running"
      BY <1>1
    <3> QED BY <3>1, <3>2, <3>3
  <2>2. current' \in 0..MaxTasks
    <3>1. t \in 0..MaxTasks /\ current \in 0..MaxTasks
      BY <1>4, BoundsAssumption DEF QueueInv, TypeOK, Ids
    <3> QED BY <1>1, <3>1
  <2>3. started' \in Seq(Ids)
    <3>1. Append(started, t) \in Seq(Ids)
      BY <1>2, <1>4, AppendFields
    <3> QED BY <1>1, <1>2, <3>1
  <2>4. taskMap' \subseteq Ids /\ phase' \in {"out", "loop", "running"}
    BY <1>1, <1>2
  <2> QED BY <1>1, <1>4, <2>1, <2>2, <2>3, <2>4 DEF QueueInv, TypeOK
<1>7. Owned'
  <2>1. taskMap' \subseteq taskMap /\ (phase' = "running" \/ taskMap' = taskMap \ {t})
        /\ \A u \in taskMap : u # t => u \in taskMap'
    BY <1>1
  <2>2. waiting' \subseteq taskMap' /\ \A i \in 1..Len(ready') : ready'[i] \in taskMap'
    BY <1>1, <1>2, <1>5, <2>1
  <2>3. ASSUME NEW i \in 1..Len(ready'), NEW j \in 1..Len(ready'), ready'[i] = ready'[j]
        PROVE  i = j
    <3>1. i + 1 = j + 1
      BY <1>4, <2>3 DEF QueueInv, Owned
    <3> QED BY <3>1
  <2>4. phase' = "running" => current' = t /\ t \in taskMap'
    BY <1>1, <1>5
  <2>5. ASSUME NEW u \in taskMap'
        PROVE  /\ Places(u)'
               /\ \/ u \in waiting'
                  \/ \E i \in 1..Len(ready') : ready'[i] = u
                  \/ phase' = "running" /\ u = current'
    <3>1. CASE u = t
      <4>1. phase' = "running"
        BY <2>1, <3>1
      <4> QED BY <1>1, <1>5, <2>4, <3>1, <4>1 DEF Places
    <3>2. CASE u # t
      <4>1. u \in waiting \/ \E i \in 1..Len(ready) : ready[i] = u /\ i # 1
        BY <1>1, <1>4, <2>1, <3>2 DEF QueueInv, Owned
      <4>2. ASSUME NEW i \in 1..Len(ready), ready[i] = u, i # 1
            PROVE  \E k \in 1..Len(ready') : ready'[k] = u
        <5>1. i - 1 \in 1..Len(ready') /\ (i - 1) + 1 = i
          BY <1>4, <4>2
        <5> QED BY <1>4, <4>2, <5>1
      <4>3. u \in waiting => \A i \in 1..Len(ready') : ready'[i] # u
        BY <1>4, <2>1 DEF QueueInv, Owned, Places
      <4> QED BY <1>1, <2>4, <3>2, <4>1, <4>2, <4>3 DEF Places
    <3> QED BY <3>1, <3>2
  <2> QED BY <1>1, <2>1, <2>2, <2>3, <2>4, <2>5 DEF QueueInv, Owned
<1>8. Scheduled'
  <2>1. \A i, j \in 1..Len(ready') :
          i < j /\ dueAt'[ready'[i]] = 0 /\ dueAt'[ready'[j]] = 0 => ready'[i] < ready'[j]
    <3>1. \A i, j \in 1..Len(ready') : i < j => i + 1 < j + 1
      OBVIOUS
    <3> QED BY <1>1, <1>4, <3>1 DEF QueueInv, Scheduled
  <2>2. \A i \in 1..Len(ready') : dueAt'[ready'[i]] <= now'
    BY <1>1, <1>4 DEF QueueInv, Scheduled
  <2>3. ASSUME NEW k \in 1..Len(started')
        PROVE  /\ started'[k] <= given' /\ started'[k] \notin waiting'
               /\ \A i \in 1..Len(ready') :
                    /\ started'[k] # ready'[i]
                    /\ dueAt'[started'[k]] = 0 /\ dueAt'[ready'[i]] = 0
                         => started'[k] < ready'[i]
    <3>1. CASE k \in 1..Len(started) /\ started'[k] = started[k]
      BY <1>1, <1>4, <3>1 DEF QueueInv, Scheduled
    <3>2. CASE started'[k] = t
      <4>1. t <= given
        BY <1>5 DEF QueueInv, Owned
      <4>2. ASSUME NEW i \in 1..Len(ready')
            PROVE  dueAt'[t] = 0 /\ dueAt'[ready'[i]] = 0 => t < ready'[i]
        <5>1. 1 < i + 1
          OBVIOUS
        <5> QED BY <1>1, <1>4, <5>1 DEF QueueInv, Scheduled
      <4> QED BY <1>1, <1>5, <3>2, <4>1, <4>2
    <3>3. \/ k \in 1..Len(started) /\ started'[k] = started[k]
          \/ started'[k] = t
      <4>1. CASE started' = started
        BY <4>1
      <4>2. CASE started' = Append(started, t)
        <5>1. Len(started) \in Nat /\ Len(started') = Len(started) + 1
          BY <1>2, <1>4, <4>2, AppendFields
        <5> QED BY <1>2, <1>4, <4>2, <5>1, AppendFields
      <4> QED BY <1>1, <4>1, <4>2
    <3> QED BY <3>1, <3>2, <3>3
  <2> QED BY <1>1, <2>1, <2>2, <2>3 DEF QueueInv, Scheduled
<1> QED BY <1>6, <1>7, <1>8 DEF QueueInv

LEMMA EndStep ==
  ASSUME QueueInv, EndTask
  PROVE  QueueInv'
<1>1. /\ phase = "running" /\ phase' = "loop" /\ taskMap' = taskMap \ {current}
      /\ current' = 0 /\ count' = count - 1
      /\ UNCHANGED <<now, given, dueAt, address, canceled, waiting, ready, shouldStop, stops,
                     started>>
  BY DEF EndTask, RemoveTask
<1>2. current \notin waiting /\ \A i \in 1..Len(ready) : ready[i] # current
  BY <1>1 DEF QueueInv, Owned, Places
<1>3. TypeOK'
  <2>1. count \in 0..(Len(ready) + 1) /\ count > 0 /\ Len(ready) \in Nat
    BY <1>1 DEF QueueInv, TypeOK, Scheduled
  <2>2. count' \in 0..(Len(ready') + (IF phase' = "running" THEN 1 ELSE 0))
    BY <2>1, <1>1
  <2>3. taskMap' \subseteq Ids /\ current' \in 0..MaxTasks
    BY <1>1, BoundsAssumption DEF QueueInv, TypeOK
  <2> QED BY <1>1, <2>2, <2>3 DEF QueueInv, TypeOK
<1>4. Owned'
  <2>1. /\ taskMap \subseteq 1..given /\ waiting \subseteq taskMap
        /\ \A i \in 1..Len(ready) : ready[i] \in taskMap
        /\ \A i, j \in 1..Len(ready) : ready[i] = ready[j] => i = j
        /\ \A t \in taskMap :
             /\ Places(t)
             /\ t \in waiting \/ (\E i \in 1..Len(ready) : ready[i] = t) \/ t = current
        /\ \A t, u \in taskMap : address[t] = address[u] => t = u
    BY <1>1 DEF QueueInv, Owned
  <2>2. \A t \in taskMap' : t \in taskMap /\ t # current
    BY <1>1
  <2>3. ASSUME NEW t \in taskMap'
        PROVE  Places(t)' /\ (t \in waiting \/ \E i \in 1..Len(ready) : ready[i] = t)
    <3>1. t \in waiting => \A i \in 1..Len(ready) : ready[i] # t
      BY <2>1, <2>2, <2>3, Zenon DEF Places
    <3> QED BY <1>1, <2>1, <2>2, <2>3, <3>1 DEF Places
  <2>4. waiting' \subseteq taskMap' /\ taskMap' \subseteq 1..given'
    BY <1>1, <1>2, <2>1
  <2>5. \A i \in 1..Len(ready) : ready[i] \in taskMap'
    BY <1>1, <1>2, <2>1
  <2> QED BY <1>1, <2>1, <2>2, <2>3, <2>4, <2>5 DEF Owned
<1>5. Scheduled'
  BY <1>1 DEF QueueInv, Scheduled
<1> QED BY <1>3, <1>4, <1>5 DEF QueueInv

(* Steps that leave the queues as they are.                                *)
LEMMA OtherSteps ==
  ASSUME QueueInv,
         \/ \E t \in Ids : CancelTask(t)
         \/ StopIdleTasks \/ EndIdleTasks \/ Tick \/ UNCHANGED vars
  PROVE  QueueInv'
<1>1. /\ UNCHANGED <<given, dueAt, address, waiting, ready, taskMap, current, started>>
      /\ now \in Nat /\ now' \in 0..MaxTime /\ now <= now'
      /\ canceled' \subseteq Ids /\ stops' \in 0..MaxStops /\ shouldStop' \in BOOLEAN
      /\ \/ phase' = phase /\ count' = count
         \/ phase = "loop" /\ phase' = "out" /\ count' = 0
  <2>0. /\ now \in Nat /\ now \in 0..MaxTime /\ now <= now
        /\ canceled \subseteq Ids /\ stops \in 0..MaxStops /\ shouldStop \in BOOLEAN
    BY DEF QueueInv, TypeOK
  <2>1. CASE \E t \in Ids : CancelTask(t)
    BY <2>0, <2>1 DEF CancelTask, runVars
  <2>2. CASE StopIdleTasks
    <3>1. stops + 1 \in 0..MaxStops
      BY <2>0, <2>2, BoundsAssumption DEF StopIdleTasks
    <3> QED BY <2>0, <2>2, <3>1 DEF StopIdleTasks, runVars, queueVars
  <2>3. CASE EndIdleTasks
    BY <2>0, <2>3 DEF EndIdleTasks, queueVars
  <2>4. CASE Tick
    <3>1. now + 1 \in 0..MaxTime /\ now <= now + 1
      BY <2>0, <2>4, BoundsAssumption DEF Tick
    <3> QED BY <2>0, <2>4, <3>1 DEF Tick, runVars, queueVars
  <2>5. CASE UNCHANGED vars
    BY <2>0, <2>5 DEF vars, runVars, queueVars
  <2> QED BY <2>1, <2>2, <2>3, <2>4, <2>5
<1>2. Len(ready) \in Nat /\ \A i \in 1..Len(ready) : dueAt[ready[i]] \in Nat
  BY DEF QueueInv, TypeOK
<1>3. TypeOK'
  BY <1>1, <1>2 DEF QueueInv, TypeOK
<1>4. Owned'
  BY <1>1 DEF QueueInv, Owned, Places
<1>5. Scheduled'
  BY <1>1, <1>2 DEF QueueInv, Scheduled
<1> QED BY <1>3, <1>4, <1>5 DEF QueueInv

LEMMA QueueNext == QueueInv /\ [Next]_vars => QueueInv'
<1> SUFFICES ASSUME QueueInv, [Next]_vars  PROVE QueueInv'
  OBVIOUS
<1>1. ASSUME NEW d \in Delays, GiveTask(d)  PROVE QueueInv'
  BY <1>1, GiveStep
<1>2. CASE \/ \E t \in Ids : CancelTask(t)
           \/ StopIdleTasks \/ EndIdleTasks \/ Tick \/ UNCHANGED vars
  BY <1>2, OtherSteps
<1>3. CASE RunIdleTasks
  BY <1>3, RunStep
<1>4. CASE SkipTask \/ StartTask
  BY <1>4, TakeStep
<1>5. CASE EndTask
  BY <1>5, EndStep
<1> QED BY <1>1, <1>2, <1>3, <1>4, <1>5 DEF Next

LEMMA QueueInvariant == Init /\ [][Next]_vars => []QueueInv
BY QueueInit, QueueNext, PTL

(* A queue without repetition has as many members as its length.           *)
LEMMA QueueSize ==
  ASSUME NEW S, NEW q \in Seq(S),
         \A i, j \in 1..Len(q) : q[i] = q[j] => i = j
  PROVE  IsFiniteSet(ToSet(q)) /\ Cardinality(ToSet(q)) = Len(q)
<1>1. Len(q) \in Nat /\ DOMAIN q = 1..Len(q)
  OBVIOUS
<1>2. q \in [1..Len(q) -> ToSet(q)] /\ \A x \in ToSet(q) : \E i \in 1..Len(q) : q[i] = x
  BY <1>1 DEF ToSet
<1>3. ExistsBijection(1..Len(q), ToSet(q))
  BY <1>2 DEF ExistsBijection, Bijection, Injection, Surjection, IsInjective
<1> QED BY <1>1, <1>3, FS_NatBijection, FS_CountingElements

LEMMA DisjointUnion ==
  ASSUME NEW S, NEW T, IsFiniteSet(S), IsFiniteSet(T), S \cap T = {}
  PROVE  IsFiniteSet(S \cup T) /\ Cardinality(S \cup T) = Cardinality(S) + Cardinality(T)
<1>1. Cardinality(S) \in Nat /\ Cardinality(T) \in Nat
  BY FS_CardinalityType
<1>2. Cardinality(S \cap T) = 0
  BY FS_EmptySet
<1>3. /\ IsFiniteSet(S \cup T)
      /\ Cardinality(S \cup T) = Cardinality(S) + Cardinality(T) - Cardinality(S \cap T)
  BY FS_Union
<1> QED BY <1>1, <1>2, <1>3

LEMMA OwnedIsOnePlace == QueueInv => EachTaskInOnePlace
<1> SUFFICES ASSUME QueueInv  PROVE EachTaskInOnePlace
  OBVIOUS
<1> DEFINE runs == IF phase = "running" THEN {current} ELSE {}
           queue == ToSet(ready)
<1>1. /\ ready \in Seq(Ids) /\ waiting \subseteq Ids
      /\ queue = {ready[i] : i \in 1..Len(ready)}
  <2>1. ready \in Seq(Ids) /\ waiting \subseteq Ids
    BY DEF QueueInv, TypeOK
  <2>2. DOMAIN ready = 1..Len(ready)
    BY <2>1
  <2> QED BY <2>1, <2>2, Zenon DEF ToSet
<1>2. IsFiniteSet(waiting)
  <2>1. IsFiniteSet(Ids)
    BY BoundsAssumption, FS_Interval DEF Ids
  <2> QED BY <1>1, <2>1, FS_Subset
<1>3. IsFiniteSet(queue) /\ Cardinality(queue) = Len(ready)
  BY <1>1, QueueSize DEF QueueInv, Owned
<1>4. IsFiniteSet(runs)
  BY FS_Singleton, FS_EmptySet
<1>5. waiting \cap queue = {}
  BY <1>1 DEF QueueInv, Owned, Places
<1>6. (waiting \cup queue) \cap runs = {}
  BY <1>1 DEF QueueInv, Owned, Places
<1>7. taskMap = (waiting \cup queue) \cup runs
  <2>1. taskMap \subseteq (waiting \cup queue) \cup runs
    BY <1>1 DEF QueueInv, Owned
  <2>2. (waiting \cup queue) \cup runs \subseteq taskMap
    <3>1. waiting \subseteq taskMap
      BY DEF QueueInv, Owned
    <3>2. queue \subseteq taskMap
      <4> SUFFICES ASSUME NEW x \in queue  PROVE x \in taskMap
        OBVIOUS
      <4>1. PICK i \in 1..Len(ready) : x = ready[i]
        BY <1>1
      <4> QED BY <4>1 DEF QueueInv, Owned
    <3>3. runs \subseteq taskMap
      BY DEF QueueInv, Owned
    <3> QED BY <3>1, <3>2, <3>3
  <2> QED BY <2>1, <2>2
<1> HIDE DEF runs, queue
<1>8. Cardinality(taskMap) = Cardinality(waiting) + Len(ready) + Cardinality(runs)
  <2>1. IsFiniteSet(waiting \cup queue)
        /\ Cardinality(waiting \cup queue) = Cardinality(waiting) + Cardinality(queue)
    BY <1>2, <1>3, <1>5, DisjointUnion
  <2>2. Cardinality((waiting \cup queue) \cup runs)
          = Cardinality(waiting \cup queue) + Cardinality(runs)
    BY <1>4, <1>6, <2>1, DisjointUnion
  <2> QED BY <1>3, <1>7, <2>1, <2>2
<1>9. TypeOK /\ \A t, u \in taskMap : address[t] = address[u] => t = u
  BY DEF QueueInv, Owned
<1> QED BY <1>7, <1>8, <1>9 DEF EachTaskInOnePlace, runs, queue

LEMMA StartIsAsked ==
  ASSUME QueueInv, [Next]_vars, started' # started
  PROVE  LET t == started'[Len(started')]
         IN  /\ t \notin canceled /\ Due(t) /\ t \notin ToSet(started)
             /\ dueAt[t] = 0 => \A u \in ToSet(started) : dueAt[u] = 0 => u < t
<1> DEFINE t == Head(ready)
<1>1. StartTask
  BY DEF Next, GiveTask, CancelTask, StopIdleTasks, Tick, RunIdleTasks, SkipTask, EndTask,
         EndIdleTasks, runVars, vars
<1>2. /\ t \notin canceled /\ started' = Append(started, t)
      /\ count > 0 /\ phase = "loop"
  BY <1>1 DEF StartTask, LoopGoesOn
<1>3. ready \in Seq(Ids) /\ started \in Seq(Ids) /\ ready # << >>
  BY <1>2 DEF QueueInv, TypeOK
<1>4. t = ready[1] /\ t \in Ids /\ 1 \in 1..Len(ready)
  BY <1>3, TailFields
<1> HIDE DEF t
<1>5. started'[Len(started')] = t
  BY <1>2, <1>3, <1>4, AppendFields
<1>6. Due(t)
  BY <1>4 DEF QueueInv, Scheduled, Due
<1>7. \A u \in ToSet(started) : \E k \in 1..Len(started) : started[k] = u
  BY <1>3 DEF ToSet
<1>8. t \notin ToSet(started)
  BY <1>4, <1>7 DEF QueueInv, Scheduled
<1>9. dueAt[t] = 0 => \A u \in ToSet(started) : dueAt[u] = 0 => u < t
  BY <1>4, <1>7 DEF QueueInv, Scheduled
<1> QED BY <1>2, <1>5, <1>6, <1>8, <1>9

(* Every task that is in memory is in task_map_ and in exactly one of the  *)
(* heap, the queue and the local variable of RunIdleTasks, so that no      *)
(* pointer to a deleted task is followed and none is deleted twice.        *)
THEOREM TasksOwnedOnce == Spec => []EachTaskInOnePlace
BY QueueInvariant, OwnedIsOnePlace, PTL DEF Spec

(* RunIdleTasks runs a task at most once, when it is due and not canceled, *)
(* and tasks without a delay in the order of the calls of GiveTask.        *)
THEOREM TasksRunAsAsked == Spec => RunsAsAsked
<1>1. QueueInv /\ [Next]_vars =>
        [started' # started =>
           LET t == started'[Len(started')]
           IN  /\ t \notin canceled /\ Due(t) /\ t \notin ToSet(started)
               /\ dueAt[t] = 0 => \A u \in ToSet(started) : dueAt[u] = 0 => u < t]_vars
  BY StartIsAsked
<1> QED BY <1>1, QueueInvariant, PTL DEF Spec, RunsAsAsked

-----------------------------------------------------------------------------
(***************************************************************************)
(* The script thread: no wakeup is lost, and script tasks run once each, in *)
(* order.                                                                  *)
(***************************************************************************)

LEMMA InitInv == ScriptInit => TaskTypeOK /\ NoLostWakeup /\ RunInOrder
<1> SUFFICES ASSUME ScriptInit PROVE TaskTypeOK /\ NoLostWakeup /\ RunInOrder
  OBVIOUS
<1>1. TaskTypeOK
  <2>1. /\ tasks \in Seq(1..MaxScriptTasks) /\ ran \in Seq(1..MaxScriptTasks)
        /\ loop \in Seq({"ProcessTasks", "BeginFrame"})
    BY DEF ScriptInit
  <2>2. /\ lastTask \in 0..MaxScriptTasks /\ running \in 0..MaxScriptTasks
    BY ScriptBoundsAssumption DEF ScriptInit
  <2>3. /\ caller \in [Thread -> {"idle", "post", "stop", "request"}]
        /\ requested \in BOOLEAN
        /\ script \in {"wait", "take", "task", "microtasks", "frame"}
    BY DEF ScriptInit
  <2> QED BY <2>1, <2>2, <2>3 DEF TaskTypeOK
<1>2. NoLostWakeup /\ RunInOrder
  BY DEF ScriptInit, NoLostWakeup, RunInOrder
<1> QED BY <1>1, <1>2

(* The actions by what they do to the state of the script tasks.           *)
LEMMA StepCases ==
  ASSUME [ScriptNext]_allVars
  PROVE  \/ \E t \in Thread : GiveScriptTask(t) \/ PostProcessTasks(t) \/ CallStopIdleTasks(t)
                              \/ RequestAnimationFrame(t)
         \/ DidBeginFrame \/ ProcessTasks \/ TakeTask \/ EndScriptTask \/ RunMicrotasks
         \/ CheckEmpty \/ BeginFrame \/ EndFrame
         \/ UNCHANGED scriptVars
BY DEF ScriptNext, Schedule, ScriptThread, RunIdleTask, UseIdleTasks, ClockTicks, allVars

(* Taking the first closure from the message loop.                         *)
LEMMA LoopTail ==
  ASSUME NEW S, NEW q \in Seq(S), q # << >>
  PROVE  /\ Tail(q) \in Seq(S) /\ Head(q) \in S
         /\ Len(q) \in Nat /\ Len(Tail(q)) = Len(q) - 1
         /\ \A i \in 1..Len(Tail(q)) : Tail(q)[i] = q[i + 1]
OBVIOUS

LEMMA TypeStep ==
  ASSUME TaskTypeOK, RunInOrder, [ScriptNext]_allVars
  PROVE  TaskTypeOK'
<1> USE ScriptBoundsAssumption DEF TaskTypeOK
<1>1. ASSUME NEW t \in Thread, GiveScriptTask(t)  PROVE TaskTypeOK'
  <2>1. lastTask + 1 \in 1..MaxScriptTasks
    BY <1>1 DEF GiveScriptTask
  <2> QED BY <1>1, <2>1 DEF GiveScriptTask, vars
<1>2. ASSUME NEW t \in Thread, PostProcessTasks(t)  PROVE TaskTypeOK'
  BY <1>2 DEF PostProcessTasks
<1>3. ASSUME NEW t \in Thread, CallStopIdleTasks(t)  PROVE TaskTypeOK'
  BY <1>3 DEF CallStopIdleTasks
<1>4. ASSUME NEW t \in Thread, RequestAnimationFrame(t)  PROVE TaskTypeOK'
  BY <1>4 DEF RequestAnimationFrame
<1>5. CASE DidBeginFrame
  <2>1. loop' \in Seq({"ProcessTasks", "BeginFrame"})
    <3>1. loop' = Append(loop, "BeginFrame")
      BY <1>5 DEF DidBeginFrame
    <3>2. loop \in Seq({"ProcessTasks", "BeginFrame"})
      OBVIOUS
    <3> HIDE DEF TaskTypeOK
    <3> QED BY <3>1, <3>2
  <2>3. requested' \in BOOLEAN
    BY <1>5 DEF DidBeginFrame
  <2>2. UNCHANGED <<tasks, lastTask, caller, script, running, ran>>
    BY <1>5 DEF DidBeginFrame
  <2> QED BY <2>1, <2>2, <2>3
<1>6. CASE ProcessTasks
  BY <1>6, LoopTail DEF ProcessTasks
<1>7. CASE TakeTask
  <2>1. Head(tasks) \in 1..MaxScriptTasks /\ Tail(tasks) \in Seq(1..MaxScriptTasks)
    BY <1>7, LoopTail DEF TakeTask
  <2> QED BY <1>7, <2>1 DEF TakeTask
<1>8. CASE EndScriptTask
  BY <1>8 DEF EndScriptTask
<1>9. CASE RunMicrotasks
  BY <1>9 DEF RunMicrotasks
<1>10. CASE CheckEmpty
  BY <1>10 DEF CheckEmpty
<1>11. CASE BeginFrame
  BY <1>11, LoopTail DEF BeginFrame
<1>12. CASE EndFrame
  BY <1>12 DEF EndFrame
<1>13. CASE UNCHANGED scriptVars
  BY <1>13 DEF scriptVars
<1> QED
  BY StepCases, <1>1, <1>2, <1>3, <1>4, <1>5, <1>6, <1>7, <1>8, <1>9, <1>10, <1>11, <1>12, <1>13

LEMMA WakeupStep ==
  ASSUME TaskTypeOK, NoLostWakeup, [ScriptNext]_allVars
  PROVE  NoLostWakeup'
<1> USE DEF NoLostWakeup, InLoop, WillPost, Posted
<1>0. /\ tasks \in Seq(1..MaxScriptTasks)
      /\ caller \in [Thread -> {"idle", "post", "stop", "request"}]
      /\ loop \in Seq({"ProcessTasks", "BeginFrame"})
      /\ script \in {"wait", "take", "task", "microtasks", "frame"}
  BY DEF TaskTypeOK
<1>1. ASSUME NEW t \in Thread, GiveScriptTask(t)  PROVE NoLostWakeup'
  <2>1. CASE tasks = << >>
    <3>1. caller'[t] = "post"
      BY <1>0, <1>1, <2>1 DEF GiveScriptTask
    <3> QED BY <3>1
  <2>2. CASE tasks # << >>
    <3>1. \A u \in Thread : caller[u] = "post" => caller'[u] = "post"
      BY <1>0, <1>1 DEF GiveScriptTask
    <3> QED BY <1>0, <1>1, <2>2, <3>1 DEF GiveScriptTask
  <2> QED BY <2>1, <2>2
<1>2. ASSUME NEW t \in Thread, PostProcessTasks(t)  PROVE NoLostWakeup'
  <2>1. /\ Len(loop) \in Nat /\ Len(loop') = Len(loop) + 1
        /\ loop'[Len(loop) + 1] = "ProcessTasks"
    BY <1>0, <1>2 DEF PostProcessTasks
  <2>2. Posted'
    BY <2>1
  <2> QED BY <2>2
<1>3. ASSUME NEW t \in Thread, CallStopIdleTasks(t)  PROVE NoLostWakeup'
  <2>1. \A u \in Thread : caller[u] = "post" => caller'[u] = "post"
    BY <1>0, <1>3 DEF CallStopIdleTasks
  <2> QED BY <1>3, <2>1 DEF CallStopIdleTasks
<1>4. ASSUME NEW t \in Thread, RequestAnimationFrame(t)  PROVE NoLostWakeup'
  <2>1. \A u \in Thread : caller[u] = "post" => caller'[u] = "post"
    BY <1>0, <1>4 DEF RequestAnimationFrame
  <2> QED BY <1>4, <2>1 DEF RequestAnimationFrame
<1>5. CASE DidBeginFrame
  <2>1. \A i \in 1..Len(loop) : i \in 1..Len(loop') /\ loop'[i] = loop[i]
    BY <1>0, <1>5 DEF DidBeginFrame
  <2> QED BY <1>5, <2>1 DEF DidBeginFrame
<1>6. CASE ProcessTasks
  BY <1>6 DEF ProcessTasks
<1>7. CASE TakeTask
  BY <1>7 DEF TakeTask
<1>8. CASE EndScriptTask
  BY <1>8 DEF EndScriptTask
<1>9. CASE RunMicrotasks
  BY <1>9 DEF RunMicrotasks
<1>10. CASE CheckEmpty
  BY <1>10 DEF CheckEmpty
<1>11. CASE BeginFrame
  <2>1. /\ Len(loop) \in Nat /\ Len(loop') = Len(loop) - 1
        /\ loop[1] = "BeginFrame"
        /\ \A i \in 1..Len(loop') : loop'[i] = loop[i + 1]
    BY <1>0, <1>11, LoopTail DEF BeginFrame
  <2>2. Posted => Posted'
    <3> SUFFICES ASSUME NEW i \in 1..Len(loop), loop[i] = "ProcessTasks"
                 PROVE  Posted'
      OBVIOUS
    <3>1. i # 1
      BY <2>1
    <3>2. i - 1 \in 1..Len(loop') /\ loop'[i - 1] = loop[i]
      BY <2>1, <3>1
    <3> QED BY <3>2
  <2> QED BY <1>11, <2>2 DEF BeginFrame
<1>12. CASE EndFrame
  BY <1>12 DEF EndFrame
<1>13. CASE UNCHANGED scriptVars
  BY <1>13 DEF scriptVars
<1> QED
  BY StepCases, <1>1, <1>2, <1>3, <1>4, <1>5, <1>6, <1>7, <1>8, <1>9, <1>10, <1>11, <1>12, <1>13

LEMMA OrderStep ==
  ASSUME TaskTypeOK, RunInOrder, [ScriptNext]_allVars
  PROVE  RunInOrder'
<1>0. /\ tasks \in Seq(1..MaxScriptTasks) /\ ran \in Seq(1..MaxScriptTasks)
      /\ Len(tasks) \in Nat /\ Len(ran) \in Nat /\ lastTask \in Nat
      /\ Len(ran) + Len(tasks) = lastTask
      /\ \A i \in 1..Len(ran) : ran[i] = i
      /\ \A i \in 1..Len(tasks) : tasks[i] = Len(ran) + i
  BY DEF TaskTypeOK, RunInOrder
<1>1. ASSUME NEW t \in Thread, GiveScriptTask(t)  PROVE RunInOrder'
  <2>1. /\ Len(tasks') = Len(tasks) + 1 /\ lastTask' = lastTask + 1 /\ ran' = ran
        /\ \A i \in 1..Len(tasks) : tasks'[i] = tasks[i]
        /\ tasks'[Len(tasks) + 1] = lastTask + 1
    BY <1>0, <1>1 DEF GiveScriptTask
  <2>2. ASSUME NEW i \in 1..Len(tasks')  PROVE tasks'[i] = Len(ran) + i
    <3>1. CASE i = Len(tasks) + 1
      <4>1. tasks'[i] = lastTask + 1 /\ Len(ran) + i = lastTask + 1
        BY <1>0, <2>1, <3>1
      <4> QED BY <4>1
    <3>2. CASE i # Len(tasks) + 1
      <4>1. i \in 1..Len(tasks)
        BY <1>0, <2>1, <3>2
      <4> QED BY <1>0, <2>1, <4>1
    <3> QED BY <3>1, <3>2
  <2>3. Len(ran) + Len(tasks') = lastTask'
    BY <1>0, <2>1
  <2> QED BY <1>0, <2>1, <2>2, <2>3 DEF RunInOrder
<1>2. CASE TakeTask
  <2>1. /\ Len(tasks') = Len(tasks) - 1 /\ Len(tasks) # 0 /\ lastTask' = lastTask
        /\ \A i \in 1..Len(tasks') : tasks'[i] = tasks[i + 1]
        /\ Head(tasks) = tasks[1]
    BY <1>0, <1>2, LoopTail DEF TakeTask
  <2>2. /\ Len(ran') = Len(ran) + 1
        /\ \A i \in 1..Len(ran) : ran'[i] = ran[i]
        /\ ran'[Len(ran) + 1] = tasks[1]
    BY <1>0, <1>2, <2>1 DEF TakeTask
  <2>3. tasks[1] = Len(ran) + 1
    BY <1>0, <2>1
  <2>4. \A i \in 1..Len(ran') : ran'[i] = i
    BY <1>0, <2>2, <2>3
  <2>5. \A i \in 1..Len(tasks') : tasks'[i] = Len(ran') + i
    BY <1>0, <2>1, <2>2
  <2>6. Len(ran') + Len(tasks') = lastTask'
    <3>1. /\ Len(ran') = Len(ran) + 1 /\ Len(tasks') = Len(tasks) - 1
          /\ Len(ran) \in Nat /\ Len(tasks) \in Nat
          /\ lastTask' = lastTask /\ Len(ran) + Len(tasks) = lastTask
      BY <1>0, <2>1, <2>2
    <3> QED BY <3>1
  <2> QED BY <2>4, <2>5, <2>6 DEF RunInOrder
<1>3. CASE UNCHANGED <<tasks, lastTask, ran>>
  BY <1>3 DEF RunInOrder
<1>4. \/ \E t \in Thread : GiveScriptTask(t)
      \/ TakeTask
      \/ UNCHANGED <<tasks, lastTask, ran>>
  BY StepCases DEF PostProcessTasks, CallStopIdleTasks, RequestAnimationFrame, DidBeginFrame,
                   ProcessTasks, EndScriptTask, RunMicrotasks, CheckEmpty, BeginFrame, EndFrame, scriptVars
<1> QED BY <1>1, <1>2, <1>3, <1>4

-----------------------------------------------------------------------------
LEMMA Invariant == ScriptSpec => [](TaskTypeOK /\ NoLostWakeup /\ RunInOrder)
<1> DEFINE Inv == TaskTypeOK /\ NoLostWakeup /\ RunInOrder
<1>1. ScriptInit => Inv
  BY InitInv
<1>2. Inv /\ [ScriptNext]_allVars => Inv'
  BY TypeStep, WakeupStep, OrderStep
<1> QED BY <1>1, <1>2, PTL DEF ScriptSpec

(* A script task in the queue always has a ProcessTasks that will take it: *)
(* ScheduleTask may post only for the first task of a queue                *)
(* (scheduler_impl.cc:213).                                                *)
THEOREM WakeupNotLost == ScriptSpec => []NoLostWakeup
BY Invariant, PTL

(* Script tasks run once each, in the order they were given.               *)
THEOREM TasksRunInOrder == ScriptSpec => []RunInOrder
BY Invariant, PTL

-----------------------------------------------------------------------------
(***************************************************************************)
(* The composition.  Whatever the script thread and the other threads do   *)
(* is, for the idle task queue, one of its own steps or nothing: what is   *)
(* proved of it alone holds in the composition.                            *)
(***************************************************************************)
LEMMA StepIsQueueStep == [ScriptNext]_allVars => [Next]_vars
<1> SUFFICES ASSUME [ScriptNext]_allVars  PROVE [Next]_vars
  OBVIOUS
<1>1. ASSUME NEW t \in Thread, Schedule(t)  PROVE [Next]_vars
  BY <1>1 DEF Schedule, GiveScriptTask, PostProcessTasks, CallStopIdleTasks,
              RequestAnimationFrame, Next
<1>2. CASE DidBeginFrame
  BY <1>2 DEF DidBeginFrame
<1>3. CASE ProcessTasks \/ TakeTask \/ EndScriptTask \/ RunMicrotasks \/ CheckEmpty
  BY <1>3 DEF ProcessTasks, TakeTask, EndScriptTask, RunMicrotasks, CheckEmpty
<1>4. CASE BeginFrame
  BY <1>4 DEF BeginFrame, Next
<1>5. CASE RunIdleTask
  BY <1>5 DEF RunIdleTask, Next
<1>6. CASE EndFrame
  BY <1>6 DEF EndFrame, Next
<1>7. CASE UseIdleTasks
  BY <1>7 DEF UseIdleTasks, Next, Ids
<1>8. CASE ClockTicks
  BY <1>8 DEF ClockTicks, Next
<1>9. CASE UNCHANGED allVars
  BY <1>9 DEF allVars
<1> QED BY <1>1, <1>2, <1>3, <1>4, <1>5, <1>6, <1>7, <1>8, <1>9 DEF ScriptNext, ScriptThread

LEMMA QueueInComposition == ScriptSpec => Init /\ [][Next]_vars
<1>1. ScriptInit => Init
  BY DEF ScriptInit
<1> QED BY <1>1, StepIsQueueStep, PTL DEF ScriptSpec

(* However frames, script tasks and calls of StopIdleTasks interleave, a   *)
(* task of the idle queue is in one place.                                 *)
THEOREM TasksStayOwnedOnce == ScriptSpec => []EachTaskInOnePlace
BY QueueInComposition, QueueInvariant, OwnedIsOnePlace, PTL

(* RunIdleTasks is on the stack of the script thread in a frame and never  *)
(* in a script task, although both are posted to one message loop.         *)
THEOREM FramesAndTasksApart == ScriptSpec => []ScriptTypeOK
<1> DEFINE Apart == phase # "out" <=> script = "frame"
<1>1. ScriptInit => Apart
  BY DEF ScriptInit, Init
<1>2. Apart /\ [ScriptNext]_allVars => Apart'
  <2> SUFFICES ASSUME Apart, [ScriptNext]_allVars  PROVE Apart'
    OBVIOUS
  <2>1. ASSUME NEW t \in Thread, Schedule(t)  PROVE Apart'
    BY <2>1 DEF Schedule, GiveScriptTask, PostProcessTasks, CallStopIdleTasks,
                RequestAnimationFrame, StopIdleTasks, vars, runVars
  <2>2. CASE DidBeginFrame
    BY <2>2 DEF DidBeginFrame, vars, runVars
  <2>3. CASE ProcessTasks \/ TakeTask \/ EndScriptTask \/ RunMicrotasks \/ CheckEmpty
    BY <2>3 DEF ProcessTasks, TakeTask, EndScriptTask, RunMicrotasks, CheckEmpty, vars, runVars
  <2>4. CASE BeginFrame
    BY <2>4 DEF BeginFrame, RunIdleTasks, vars, runVars
  <2>5. CASE RunIdleTask
    BY <2>5 DEF RunIdleTask, SkipTask, StartTask, EndTask, LoopGoesOn, scriptVars
  <2>6. CASE EndFrame
    BY <2>6 DEF EndFrame, EndIdleTasks
  <2>7. CASE UseIdleTasks
    BY <2>7 DEF UseIdleTasks, GiveTask, CancelTask, runVars, scriptVars
  <2>8. CASE ClockTicks
    BY <2>8 DEF ClockTicks, Tick, runVars, scriptVars
  <2>9. CASE UNCHANGED allVars
    BY <2>9 DEF allVars, vars, runVars, scriptVars
  <2> QED BY <2>1, <2>2, <2>3, <2>4, <2>5, <2>6, <2>7, <2>8, <2>9 DEF ScriptNext, ScriptThread
<1>3. QueueInv /\ TaskTypeOK /\ Apart => ScriptTypeOK
  BY DEF QueueInv, ScriptTypeOK
<1> QED BY <1>1, <1>2, <1>3, QueueInComposition, QueueInvariant, Invariant, PTL DEF ScriptSpec
=============================================================================
