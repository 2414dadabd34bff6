-------------------------- MODULE MapReduceProofs --------------------------
(***************************************************************************)
(* Proofs about MapReduce, for any number of workers, files and reducers:  *)
(* its types, and, when no worker takes more than ten seconds for a task,  *)
(* that a job is complete when Done() says so.                             *)
(***************************************************************************)
EXTENDS MapReduce, FiniteSetTheorems, TLAPS

Mapping(w) == pc[w] \in {"createFiles", "encode", "mapDone"}

Reducing(w) == pc[w] \in {"readFiles", "createOutput", "write", "reduceDone"}

\* A map task that a worker has is assigned, and to it alone.  The files of a
\* task are written when the worker reports it.
MapInv ==
    /\ \A w \in Workers : Mapping(w) => mapTasks[task[w]] = "Assigned"
    /\ \A v, w \in Workers : Mapping(v) /\ Mapping(w) /\ task[v] = task[w] => v = w
    /\ \A w \in Workers : pc[w] = "mapDone"
                            => \A r \in ReduceTasks : intermediate[task[w]][r] = "Full"
    /\ \A m \in MapTasks : mapTasks[m] = "Complete"
                            => \A r \in ReduceTasks : intermediate[m][r] = "Full"

\* The same for reduce tasks, which are not given out before mapDone.  What a
\* worker has read is what the files it went through contain.
ReduceInv ==
    /\ \A w \in Workers : Reducing(w) => mapDone /\ reduceTasks[task[w]] = "Assigned"
    /\ \A v, w \in Workers : Reducing(v) /\ Reducing(w) /\ task[v] = task[w] => v = w
    /\ \A w \in Workers : pc[w] = "readFiles" => got[w] = 0 .. next[w] - 1
    /\ \A w \in Workers : pc[w] \in {"createOutput", "write"} => got[w] = MapTasks
    /\ \A w \in Workers : pc[w] = "reduceDone" => output[task[w]] = MapTasks
    /\ \A r \in ReduceTasks : reduceTasks[r] = "Complete" => output[r] = MapTasks

\* The flags tell the truth.
FlagInv ==
    /\ mapDone => \A m \in MapTasks : mapTasks[m] = "Complete"
    /\ reduceDone => \A r \in ReduceTasks : reduceTasks[r] = "Complete"
    /\ exited => mapDone /\ reduceDone

JobInv == TypeOK /\ MapInv /\ ReduceInv /\ FlagInv /\ CountsExact

-----------------------------------------------------------------------------
(***************************************************************************)
(* Types.                                                                  *)
(***************************************************************************)

\* What updateTasks() returns is a slice of statuses of the same length.
LEMMA UpdateTasksType ==
    ASSUME NEW D, NEW tasks \in [D -> Statuses], NEW overdue
    PROVE  updateTasks(tasks, overdue) \in [D -> Statuses]
  BY Zenon DEF updateTasks, Statuses

\* The initial state has the right types.
LEMMA InitTypeOK == Init => TypeOK
  <1> SUFFICES ASSUME Init PROVE TypeOK
    BY Zenon
  <1>1. /\ mapTasks \in [MapTasks -> Statuses] /\ reduceTasks \in [ReduceTasks -> Statuses]
        /\ task \in [Workers -> Nat] /\ next \in [Workers -> Nat]
        /\ \A w \in Workers : pc[w] = "request"
    BY SizesAssumption DEF Init, Statuses
  <1>2. /\ got \in [Workers -> SUBSET MapTasks] /\ output \in [ReduceTasks -> SUBSET MapTasks]
        /\ intermediate \in [MapTasks -> [ReduceTasks -> {"Absent", "Empty", "Full"}]]
    BY Zenon DEF Init
  <1> QED
    BY <1>1, <1>2, Zenon DEF Init, TypeOK

\* Every step keeps the types.
LEMMA NextTypeOK == TypeOK /\ [Next]_vars => TypeOK'
  <1> SUFFICES ASSUME TypeOK, [Next]_vars PROVE TypeOK'
    BY Zenon
  <1> USE SizesAssumption
  <1>1. ASSUME DoneLooks PROVE TypeOK'
    BY Zenon, <1>1 DEF TypeOK, DoneLooks
  <1>2. ASSUME NEW late, DoneUpdates(late) PROVE TypeOK'
    <2>1. mapTasks' \in [MapTasks -> Statuses] /\ reduceTasks' \in [ReduceTasks -> Statuses]
      BY Zenon, <1>2, UpdateTasksType DEF TypeOK, DoneUpdates
    <2> QED
      BY <1>2, <2>1, Zenon DEF TypeOK, DoneUpdates
  <1>3. ASSUME NEW w \in Workers, NEW i \in MapTasks, RequestMap(w, i) PROVE TypeOK'
    BY <1>3 DEF TypeOK, RequestMap, MapTasks, Statuses
  <1>4. ASSUME NEW w \in Workers, NEW i \in ReduceTasks, RequestReduce(w, i) PROVE TypeOK'
    BY <1>4 DEF TypeOK, RequestReduce, ReduceTasks, Statuses
  <1>5. ASSUME NEW w \in Workers, createFile(w) PROVE TypeOK'
    <2>1. intermediate' \in [MapTasks -> [ReduceTasks -> {"Absent", "Empty", "Full"}]]
      BY <1>5 DEF TypeOK, createFile, ReduceTasks
    <2>2. /\ next' \in [Workers -> Nat]
          /\ \A v \in Workers : /\ pc'[v] = "createFiles" => next'[v] < nReduce
                                /\ pc'[v] = "readFiles" => next'[v] < NMap
      BY <1>5 DEF TypeOK, createFile
    <2> QED
      BY Zenon, <1>5, <2>1, <2>2 DEF TypeOK, createFile, coordinatorVars
  <1>6. ASSUME NEW w \in Workers, encode(w) PROVE TypeOK'
    BY Zenon, <1>6 DEF TypeOK, encode, coordinatorVars
  <1>7. ASSUME NEW w \in Workers, MapTaskDone(w) PROVE TypeOK'
    BY <1>7 DEF TypeOK, MapTaskDone, Statuses, AllDone
  <1>8. ASSUME NEW w \in Workers, readFile(w) PROVE TypeOK'
    BY <1>8 DEF TypeOK, readFile, coordinatorVars, AllRead, MapTasks
  <1>9. ASSUME NEW w \in Workers, createOutput(w) PROVE TypeOK'
    BY Zenon, <1>9 DEF TypeOK, createOutput, coordinatorVars
  <1>10. ASSUME NEW w \in Workers, write(w) PROVE TypeOK'
    BY Zenon, <1>10 DEF TypeOK, write, coordinatorVars
  <1>11. ASSUME NEW w \in Workers, ReduceTaskDone(w) PROVE TypeOK'
    BY <1>11 DEF TypeOK, ReduceTaskDone, Statuses, AllDone
  <1>12. ASSUME NEW w \in Workers, dialFails(w) PROVE TypeOK'
    BY Zenon, <1>12 DEF TypeOK, dialFails, coordinatorVars
  <1>13. ASSUME NEW w \in Workers, crash(w) PROVE TypeOK'
    BY Zenon, <1>13 DEF TypeOK, crash, coordinatorVars
  <1>14. CASE UNCHANGED vars
    BY Zenon, <1>14 DEF TypeOK, vars, coordinatorVars
  <1> QED
    BY Zenon, <1>1, <1>2, <1>3, <1>4, <1>5, <1>6, <1>7, <1>8, <1>9, <1>10, <1>11, <1>12, <1>13, <1>14
       DEF Next, Done, Work

\* The variables have their types, and no task number is outside the slice it
\* indexes, for any number of workers, slow or not.
THEOREM TypeCorrect == Spec => []TypeOK
  BY InitTypeOK, NextTypeOK, PTL DEF Spec

-----------------------------------------------------------------------------
(***************************************************************************)
(* Counting.                                                               *)
(***************************************************************************)
Completed(tasks) == {i \in DOMAIN tasks : tasks[i] = "Complete"}

\* When one more task is complete there is one more to count.
LEMMA CountOneMore ==
    ASSUME NEW n \in Nat, NEW tasks \in [0 .. n -> Statuses], NEW i \in 0 .. n,
           tasks[i] # "Complete"
    PROVE  Cardinality(Completed([tasks EXCEPT ![i] = "Complete"]))
             = Cardinality(Completed(tasks)) + 1
  <1>1. Completed([tasks EXCEPT ![i] = "Complete"]) = Completed(tasks) \cup {i}
    BY Zenon DEF Completed
  <1>2. i \notin Completed(tasks)
    BY Zenon DEF Completed
  <1>3. IsFiniteSet(0 .. n) /\ Completed(tasks) \in SUBSET (0 .. n)
    BY FS_Interval DEF Completed
  <1>4. IsFiniteSet(Completed(tasks))
    BY Zenon, <1>3, FS_Subset
  <1> QED
    BY <1>1, <1>2, <1>4, FS_AddElement, Zenon

\* When as many tasks are complete as there are, all are.
LEMMA CountAll ==
    ASSUME NEW n \in Nat, NEW tasks \in [0 .. n -> Statuses],
           AllDone(Cardinality(Completed(tasks)), tasks)
    PROVE  \A i \in 0 .. n : tasks[i] = "Complete"
  <1>1. IsFiniteSet(0 .. n) /\ Completed(tasks) \in SUBSET (0 .. n)
    BY FS_Interval DEF Completed
  <1>2. /\ Cardinality(Completed(tasks)) \in Nat /\ Cardinality(0 .. n) \in Nat
        /\ Cardinality(Completed(tasks)) <= Cardinality(0 .. n)
        /\ Cardinality(0 .. n) = Cardinality(Completed(tasks)) => 0 .. n = Completed(tasks)
    BY Zenon, <1>1, FS_Subset, FS_CardinalityType
  <1>3. Cardinality(Completed(tasks)) >= Cardinality(0 .. n)
    BY Zenon DEF AllDone
  <1>4. 0 .. n = Completed(tasks)
    BY <1>2, <1>3
  <1> QED
    BY Zenon, <1>4 DEF Completed

\* CountsExact in terms of Completed.
LEMMA CountsExactCompleted ==
    ASSUME TypeOK
    PROVE  CountsExact <=> /\ mapTasksCompleted = Cardinality(Completed(mapTasks))
                           /\ reduceTasksCompleted = Cardinality(Completed(reduceTasks))
  <1>1. /\ Completed(mapTasks) = {i \in MapTasks : mapTasks[i] = "Complete"}
        /\ Completed(reduceTasks) = {i \in ReduceTasks : reduceTasks[i] = "Complete"}
    BY Zenon DEF TypeOK, Completed
  <1> QED
    BY Zenon, <1>1 DEF CountsExact

\* A step after which the same tasks are complete and the counters are the
\* same keeps CountsExact.
LEMMA SameCounts ==
    ASSUME TypeOK, TypeOK', CountsExact,
           \A i \in MapTasks : mapTasks'[i] = "Complete" <=> mapTasks[i] = "Complete",
           \A i \in ReduceTasks : reduceTasks'[i] = "Complete" <=> reduceTasks[i] = "Complete",
           UNCHANGED <<mapTasksCompleted, reduceTasksCompleted>>
    PROVE  CountsExact'
  <1>1. /\ {i \in MapTasks : mapTasks[i] = "Complete"}
             = {i \in MapTasks : mapTasks'[i] = "Complete"}
        /\ {i \in ReduceTasks : reduceTasks[i] = "Complete"}
             = {i \in ReduceTasks : reduceTasks'[i] = "Complete"}
    BY Zenon
  <1> QED
    BY Zenon, <1>1 DEF CountsExact

-----------------------------------------------------------------------------
(***************************************************************************)
(* The phases of a job.                                                    *)
(***************************************************************************)
LEMMA InitJobInv == Init => JobInv
  <1> SUFFICES ASSUME Init PROVE JobInv
    BY Zenon
  <1>1. TypeOK
    BY Zenon, InitTypeOK
  <1>2. MapInv /\ ReduceInv /\ FlagInv
    BY Zenon DEF Init, MapInv, ReduceInv, FlagInv, Mapping, Reducing
  <1>3. /\ {i \in MapTasks : mapTasks[i] = "Complete"} = {}
        /\ {i \in ReduceTasks : reduceTasks[i] = "Complete"} = {}
    BY Zenon DEF Init
  <1>4. CountsExact
    BY Zenon, <1>3, FS_EmptySet DEF Init, CountsExact
  <1> QED
    BY Zenon, <1>1, <1>2, <1>4 DEF JobInv

\* Nobody works on a map task that is not assigned, and once mapDone is set
\* nobody works on any.
LEMMA NoMapperLeft ==
    ASSUME JobInv, mapDone, NEW w \in Workers
    PROVE  ~Mapping(w)
  BY Zenon DEF JobInv, TypeOK, MapInv, FlagInv, Mapping

\* The coordinator hands out a map task.
LEMMA RequestMapJobInv ==
    ASSUME JobInv, TypeOK', NEW w \in Workers, NEW i \in MapTasks, RequestMap(w, i)
    PROVE  JobInv'
  <1> USE DEF JobInv
  <1>1. MapInv'
    BY DEF MapInv, Mapping, RequestMap, Assignable, TypeOK
  <1>2. ReduceInv'
    BY Zenon DEF ReduceInv, Reducing, RequestMap, TypeOK
  <1>3. FlagInv'
    BY Zenon DEF FlagInv, RequestMap
  <1>4. CountsExact'
    BY Zenon, SameCounts DEF RequestMap, Assignable, TypeOK
  <1> QED
    BY Zenon, <1>1, <1>2, <1>3, <1>4

\* The coordinator hands out a reduce task.
LEMMA RequestReduceJobInv ==
    ASSUME JobInv, TypeOK', NEW w \in Workers, NEW i \in ReduceTasks, RequestReduce(w, i)
    PROVE  JobInv'
  <1> USE DEF JobInv
  <1>1. MapInv'
    BY DEF MapInv, Mapping, RequestReduce, TypeOK
  <1>2. ReduceInv'
    BY DEF ReduceInv, Reducing, RequestReduce, Assignable, TypeOK
  <1>3. FlagInv'
    BY Zenon DEF FlagInv, RequestReduce
  <1>4. CountsExact'
    BY Zenon, SameCounts DEF RequestReduce, Assignable, TypeOK
  <1> QED
    BY Zenon, <1>1, <1>2, <1>3, <1>4

\* Done() takes no task from a worker, since none is slow.
LEMMA DoneJobInv ==
    ASSUME JobInv, TypeOK', Slow = {}, Done
    PROVE  JobInv'
  <1> USE DEF JobInv
  <1>1. CASE DoneLooks
    <2>1. MapInv' /\ ReduceInv' /\ FlagInv'
      BY <1>1 DEF DoneLooks, MapInv, ReduceInv, FlagInv, Mapping, Reducing
    <2>2. CountsExact'
      BY Zenon, <1>1 DEF DoneLooks, CountsExact
    <2> QED
      BY Zenon, <2>1, <2>2
  <1>2. ASSUME NEW late, DoneUpdates(late) PROVE JobInv'
    <2>1. /\ \A i \in MapTasks : mapTasks'[i] # mapTasks[i]
                => /\ mapTasks[i] = "Assigned" /\ mapTasks'[i] = "Unassigned"
                   /\ \A w \in Workers : ~(Mapping(w) /\ task[w] = i)
      BY Zenon, <1>2 DEF DoneUpdates, updateTasks, OverdueMaps, MapHolders, Mapping, TypeOK
    <2>2. /\ \A i \in ReduceTasks : reduceTasks'[i] # reduceTasks[i]
                => /\ reduceTasks[i] = "Assigned" /\ reduceTasks'[i] = "Unassigned"
                   /\ \A w \in Workers : ~(Reducing(w) /\ task[w] = i)
      BY Zenon, <1>2 DEF DoneUpdates, updateTasks, OverdueReduces, ReduceHolders, Reducing, TypeOK
    <2>3. /\ UNCHANGED <<mapTasksCompleted, reduceTasksCompleted, mapDone, reduceDone,
                         pc, task, next, got, intermediate, output>>
          /\ exited' = (mapDone /\ reduceDone)
      BY Zenon, <1>2 DEF DoneUpdates
    <2>4. MapInv'
      BY <2>1, <2>3 DEF MapInv, Mapping, TypeOK
    <2>5. ReduceInv'
      BY <2>2, <2>3 DEF ReduceInv, Reducing, TypeOK
    <2>6. FlagInv'
      BY <2>1, <2>2, <2>3, Zenon DEF FlagInv
    <2>7. CountsExact'
      BY Zenon, <2>1, <2>2, <2>3, SameCounts
    <2> QED
      BY Zenon, <2>4, <2>5, <2>6, <2>7
  <1> QED
    BY Zenon, <1>1, <1>2 DEF Done

\* The worker steps that touch the files of a map task: it is the worker's own.
LEMMA MapWorkJobInv ==
    ASSUME JobInv, TypeOK', NEW w \in Workers, createFile(w) \/ encode(w)
    PROVE  JobInv'
  <1> USE DEF JobInv
  <1>1. /\ Mapping(w) /\ pc[w] # "mapDone" /\ pc' = [pc EXCEPT ![w] = pc'[w]]
        /\ pc'[w] \in {"createFiles", "encode", "mapDone"}
        /\ UNCHANGED <<coordinatorVars, task, got, output>>
        /\ \A v \in Workers : v # w => next'[v] = next[v]
    BY Zenon DEF createFile, encode, Mapping, TypeOK
  <1>2. /\ \A m \in MapTasks : m # task[w] => intermediate'[m] = intermediate[m]
        /\ pc'[w] = "mapDone" => \A r \in ReduceTasks : intermediate'[task[w]][r] = "Full"
    BY DEF createFile, encode, TypeOK
  <1>3. MapInv'
    <2>1. \A v \in Workers : (Mapping(v)' <=> Mapping(v)) /\ (v # w => pc'[v] = pc[v])
      BY Zenon, <1>1 DEF Mapping, TypeOK
    <2>2. \A v \in Workers : Mapping(v) => task[v] \in MapTasks
      BY Zenon DEF Mapping, TypeOK
    <2>3. \A v \in Workers : pc'[v] = "mapDone"
            => \A r \in ReduceTasks : intermediate'[task[v]][r] = "Full"
      BY <1>1, <1>2, <2>1, <2>2 DEF MapInv, Mapping
    <2>4. \A m \in MapTasks : mapTasks[m] = "Complete"
            => \A r \in ReduceTasks : intermediate'[m][r] = "Full"
      BY <1>1, <1>2 DEF MapInv
    <2> QED
      BY <1>1, <2>1, <2>3, <2>4 DEF MapInv, coordinatorVars
  <1>4. ReduceInv'
    BY Zenon, <1>1 DEF ReduceInv, Reducing, TypeOK, coordinatorVars
  <1>5. FlagInv' /\ CountsExact'
    BY Zenon, <1>1 DEF FlagInv, CountsExact, coordinatorVars
  <1> QED
    BY Zenon, <1>3, <1>4, <1>5

\* The last report of a map task sets mapDone, and only that one.
LEMMA MapTaskDoneJobInv ==
    ASSUME JobInv, TypeOK', NEW w \in Workers, MapTaskDone(w)
    PROVE  JobInv'
  <1> USE DEF JobInv
  <1>1. /\ pc[w] = "mapDone" /\ Mapping(w) /\ task[w] \in MapTasks
        /\ mapTasks[task[w]] = "Assigned"
        /\ mapTasks' = [mapTasks EXCEPT ![task[w]] = "Complete"]
        /\ mapTasksCompleted' = mapTasksCompleted + 1
        /\ mapDone' = (mapDone \/ AllDone(mapTasksCompleted', mapTasks))
        /\ pc' = [pc EXCEPT ![w] = "request"]
        /\ UNCHANGED <<reduceTasks, reduceTasksCompleted, reduceDone, exited,
                       task, next, got, intermediate, output>>
    BY Zenon DEF MapTaskDone, MapInv, Mapping, TypeOK
  <1>2. MapInv'
    BY <1>1 DEF MapInv, Mapping, TypeOK
  <1>3. ~mapDone
    BY Zenon, <1>1, NoMapperLeft
  <1>4. ReduceInv'
    BY <1>1, <1>3 DEF ReduceInv, Reducing, TypeOK
  <1>5. NMap - 1 \in Nat /\ MapTasks = 0 .. NMap - 1
    BY SizesAssumption DEF MapTasks
  <1>6. CountsExact'
    <2>1. Cardinality(Completed(mapTasks')) = Cardinality(Completed(mapTasks)) + 1
      BY <1>1, <1>5, CountOneMore, Zenon DEF TypeOK
    <2>2. /\ mapTasksCompleted = Cardinality(Completed(mapTasks))
          /\ reduceTasksCompleted = Cardinality(Completed(reduceTasks))
      BY Zenon, CountsExactCompleted
    <2>3. /\ mapTasksCompleted' = Cardinality(Completed(mapTasks'))
          /\ reduceTasksCompleted' = Cardinality(Completed(reduceTasks'))
      BY Zenon, <1>1, <2>1, <2>2
    <2>4. /\ Completed(mapTasks') = {i \in MapTasks : mapTasks'[i] = "Complete"}
          /\ Completed(reduceTasks') = {i \in ReduceTasks : reduceTasks'[i] = "Complete"}
      BY Zenon DEF TypeOK, Completed
    <2> QED
      BY Zenon, <2>3, <2>4 DEF CountsExact
  <1>7. mapDone' => \A m \in MapTasks : mapTasks'[m] = "Complete"
    <2> SUFFICES ASSUME mapDone' PROVE \A m \in MapTasks : mapTasks'[m] = "Complete"
      BY Zenon
    <2>1. mapTasksCompleted' = Cardinality(Completed(mapTasks'))
      <3>1. Completed(mapTasks') = {i \in MapTasks : mapTasks'[i] = "Complete"}
        BY Zenon DEF TypeOK, Completed
      <3> QED
        BY Zenon, <1>6, <3>1 DEF CountsExact
    <2>2. AllDone(Cardinality(Completed(mapTasks')), mapTasks')
      BY Zenon, <1>1, <1>3, <2>1 DEF AllDone, TypeOK
    <2> QED
      BY <1>5, <2>2, CountAll, Zenon DEF TypeOK
  <1>8. FlagInv'
    BY Zenon, <1>1, <1>3, <1>7 DEF FlagInv
  <1> QED
    BY Zenon, <1>2, <1>4, <1>6, <1>8

\* A reducer finds every file whole.
LEMMA InputIsReady ==
    ASSUME JobInv
    PROVE  InputReady
  BY Zenon DEF JobInv, TypeOK, MapInv, ReduceInv, FlagInv, Reducing, InputReady

\* A reducer reads an intermediate file.
LEMMA ReadFileJobInv ==
    ASSUME JobInv, TypeOK', NEW w \in Workers, readFile(w)
    PROVE  JobInv'
  <1> USE DEF JobInv
  <1>1. pc[w] = "readFiles" /\ next[w] \in MapTasks /\ task[w] \in ReduceTasks
    BY SizesAssumption DEF readFile, TypeOK, MapTasks
  <1>2. intermediate[next[w]][task[w]] = "Full"
    BY Zenon, <1>1, InputIsReady DEF InputReady
  <1>3. /\ next' = [next EXCEPT ![w] = @ + 1]
        /\ got' = [got EXCEPT ![w] = @ \cup {next[w]}]
        /\ pc' = [pc EXCEPT ![w] = IF next[w] + 1 >= NMap THEN "createOutput" ELSE "readFiles"]
        /\ UNCHANGED <<coordinatorVars, task, intermediate, output>>
    BY Zenon, <1>1, <1>2 DEF readFile, AllRead, TypeOK
  <1>4. MapInv' /\ FlagInv' /\ CountsExact'
    BY <1>1, <1>3 DEF MapInv, FlagInv, CountsExact, Mapping, TypeOK, coordinatorVars
  <1>5. got'[w] = 0 .. next'[w] - 1
    BY <1>1, <1>3 DEF ReduceInv, TypeOK, MapTasks
  <1>6. next'[w] >= NMap => got'[w] = MapTasks
    BY <1>1, <1>3, <1>5, SizesAssumption DEF TypeOK, MapTasks
  <1>7. ReduceInv'
    <2>1. \A v \in Workers : Reducing(v)' <=> Reducing(v)
      BY Zenon, <1>1, <1>3 DEF Reducing, TypeOK
    <2>2. \A v \in Workers : v # w
            => pc'[v] = pc[v] /\ got'[v] = got[v] /\ next'[v] = next[v]
      BY Zenon, <1>3 DEF TypeOK
    <2>3. pc'[w] \in {"readFiles", "createOutput"} /\ (pc'[w] = "createOutput" => next'[w] >= NMap)
      BY Zenon, <1>1, <1>3 DEF TypeOK
    <2>4. \A v \in Workers : Reducing(v)' => mapDone' /\ reduceTasks'[task'[v]] = "Assigned"
      BY Zenon, <1>3, <2>1 DEF ReduceInv, coordinatorVars
    <2>5. \A v \in Workers : pc'[v] = "readFiles" => got'[v] = 0 .. next'[v] - 1
      BY Zenon, <1>5, <2>2 DEF ReduceInv
    <2>6. \A v \in Workers : pc'[v] \in {"createOutput", "write"} => got'[v] = MapTasks
      BY Zenon, <1>6, <2>2, <2>3 DEF ReduceInv
    <2>7. \A v \in Workers : pc'[v] = "reduceDone" => output'[task'[v]] = MapTasks
      BY <1>3, <2>2, <2>3 DEF ReduceInv
    <2> QED
      BY <1>3, <2>1, <2>4, <2>5, <2>6, <2>7, Zenon DEF ReduceInv, coordinatorVars
  <1> QED
    BY Zenon, <1>4, <1>7

\* The worker steps that touch the output of a reduce task: it is the worker's
\* own.
LEMMA ReduceWorkJobInv ==
    ASSUME JobInv, TypeOK', NEW w \in Workers, createOutput(w) \/ write(w)
    PROVE  JobInv'
  <1> USE DEF JobInv
  <1>1. /\ pc[w] \in {"createOutput", "write"} /\ pc' = [pc EXCEPT ![w] = pc'[w]]
        /\ pc'[w] \in {"write", "reduceDone"}
        /\ UNCHANGED <<coordinatorVars, task, next, got, intermediate>>
    BY Zenon DEF createOutput, write, TypeOK
  <1>2. got[w] = MapTasks
    BY Zenon, <1>1 DEF ReduceInv
  <1>3. /\ \A r \in ReduceTasks : r # task[w] => output'[r] = output[r]
        /\ pc'[w] = "reduceDone" => output'[task[w]] = MapTasks
    BY Zenon, <1>2 DEF createOutput, write, TypeOK
  <1>4. MapInv'
    <2>1. \A v \in Workers : (Mapping(v)' <=> Mapping(v)) /\ (v # w => pc'[v] = pc[v])
      BY Zenon, <1>1 DEF Mapping, TypeOK
    <2> QED
      BY <1>1, <2>1 DEF MapInv, coordinatorVars
  <1>5. ReduceInv'
    <2>1. \A v \in Workers : (Reducing(v)' <=> Reducing(v)) /\ (v # w => pc'[v] = pc[v])
      BY Zenon, <1>1 DEF Reducing, TypeOK
    <2>2. \A v \in Workers : Reducing(v) => task[v] \in ReduceTasks
      BY Zenon DEF Reducing, TypeOK
    <2>3. \A v \in Workers : pc'[v] = "reduceDone" => output'[task[v]] = MapTasks
      BY <1>1, <1>3, <2>1, <2>2 DEF ReduceInv, Reducing
    <2>4. \A r \in ReduceTasks : reduceTasks[r] = "Complete" => output'[r] = MapTasks
      BY Zenon, <1>1, <1>3 DEF ReduceInv, Reducing
    <2>5. \A v \in Workers : pc'[v] \in {"createOutput", "write"} => got[v] = MapTasks
      BY Zenon, <1>2, <2>1 DEF ReduceInv
    <2>6. \A v \in Workers : pc'[v] = "readFiles" => got[v] = 0 .. next[v] - 1
      BY Zenon, <1>1, <2>1 DEF ReduceInv
    <2> QED
      BY Zenon, <1>1, <2>1, <2>3, <2>4, <2>5, <2>6 DEF ReduceInv, coordinatorVars
  <1>6. FlagInv' /\ CountsExact'
    BY Zenon, <1>1 DEF FlagInv, CountsExact, coordinatorVars
  <1> QED
    BY Zenon, <1>4, <1>5, <1>6

\* The last report of a reduce task sets reduceDone.
LEMMA ReduceTaskDoneJobInv ==
    ASSUME JobInv, TypeOK', NEW w \in Workers, ReduceTaskDone(w)
    PROVE  JobInv'
  <1> USE DEF JobInv
  <1>1. /\ pc[w] = "reduceDone" /\ Reducing(w) /\ task[w] \in ReduceTasks
        /\ reduceTasks[task[w]] = "Assigned" /\ output[task[w]] = MapTasks
        /\ reduceTasks' = [reduceTasks EXCEPT ![task[w]] = "Complete"]
        /\ reduceTasksCompleted' = reduceTasksCompleted + 1
        /\ reduceDone' = (reduceDone \/ AllDone(reduceTasksCompleted', reduceTasks))
        /\ pc' = [pc EXCEPT ![w] = "request"]
        /\ UNCHANGED <<mapTasks, mapTasksCompleted, mapDone, exited,
                       task, next, got, intermediate, output>>
    BY Zenon DEF ReduceTaskDone, ReduceInv, Reducing, TypeOK
  <1>2. MapInv'
    BY <1>1 DEF MapInv, Mapping, TypeOK
  <1>3. ~reduceDone
    BY Zenon, <1>1 DEF FlagInv
  <1>4. ReduceInv'
    BY <1>1 DEF ReduceInv, Reducing, TypeOK
  <1>5. nReduce - 1 \in Nat /\ ReduceTasks = 0 .. nReduce - 1
    BY SizesAssumption DEF ReduceTasks
  <1>6. Cardinality(Completed(reduceTasks')) = Cardinality(Completed(reduceTasks)) + 1
    BY <1>1, <1>5, CountOneMore, Zenon DEF TypeOK
  <1>7. /\ mapTasksCompleted' = Cardinality(Completed(mapTasks'))
        /\ reduceTasksCompleted' = Cardinality(Completed(reduceTasks'))
    BY Zenon, <1>1, <1>6, CountsExactCompleted
  <1>8. CountsExact'
    <2>1. /\ Completed(mapTasks') = {i \in MapTasks : mapTasks'[i] = "Complete"}
          /\ Completed(reduceTasks') = {i \in ReduceTasks : reduceTasks'[i] = "Complete"}
      BY Zenon DEF TypeOK, Completed
    <2> QED
      BY Zenon, <1>7, <2>1 DEF CountsExact
  <1>9. reduceDone' => \A r \in ReduceTasks : reduceTasks'[r] = "Complete"
    <2>1. reduceDone' => AllDone(Cardinality(Completed(reduceTasks')), reduceTasks')
      BY Zenon, <1>1, <1>3, <1>7 DEF AllDone, TypeOK
    <2> QED
      BY <1>5, <2>1, CountAll, Zenon DEF TypeOK
  <1>10. FlagInv'
    BY Zenon, <1>1, <1>3, <1>9 DEF FlagInv
  <1> QED
    BY Zenon, <1>2, <1>4, <1>8, <1>10

\* A worker that is gone works on nothing.
LEMMA GoneJobInv ==
    ASSUME JobInv, TypeOK', NEW w \in Workers, dialFails(w) \/ crash(w)
    PROVE  JobInv'
  <1> USE DEF JobInv
  <1>1. /\ pc' = [pc EXCEPT ![w] = "gone"]
        /\ UNCHANGED <<coordinatorVars, task, next, got, intermediate, output>>
    BY Zenon DEF dialFails, crash
  <1>2. MapInv' /\ FlagInv' /\ CountsExact'
    BY <1>1 DEF MapInv, FlagInv, CountsExact, Mapping, TypeOK, coordinatorVars
  <1>3. ReduceInv'
    BY Zenon, <1>1 DEF ReduceInv, Reducing, TypeOK, coordinatorVars
  <1> QED
    BY Zenon, <1>2, <1>3

\* JobInv is inductive when no worker is slow.
LEMMA NextJobInv ==
    ASSUME JobInv, Slow = {}, [Next]_vars
    PROVE  JobInv'
  <1>1. TypeOK'
    BY Zenon, NextTypeOK DEF JobInv
  <1>2. CASE Done
    BY Zenon, <1>1, <1>2, DoneJobInv
  <1>3. ASSUME NEW w \in Workers, Work(w) PROVE JobInv'
    BY Zenon, <1>1, <1>3, RequestMapJobInv, RequestReduceJobInv, MapWorkJobInv, MapTaskDoneJobInv,
       ReadFileJobInv, ReduceWorkJobInv, ReduceTaskDoneJobInv, GoneJobInv DEF Work
  <1>4. ASSUME NEW w \in Workers, crash(w) PROVE JobInv'
    BY Zenon, <1>1, <1>4, GoneJobInv
  <1>5. CASE UNCHANGED vars
    <2>1. MapInv' /\ ReduceInv'
      BY <1>5 DEF JobInv, MapInv, ReduceInv, Mapping, Reducing, vars, coordinatorVars
    <2>2. FlagInv' /\ CountsExact'
      BY Zenon, <1>5 DEF JobInv, FlagInv, CountsExact, vars, coordinatorVars
    <2> QED
      BY Zenon, <1>1, <2>1, <2>2 DEF JobInv
  <1> QED
    BY Zenon, <1>2, <1>3, <1>4, <1>5 DEF Next

\* Together they hold in every state of a job without slow workers.
LEMMA JobInvariant ==
    ASSUME Slow = {}
    PROVE  Spec => []JobInv
  <1>1. Init => JobInv
    BY Zenon, InitJobInv
  <1>2. JobInv /\ [Next]_vars => JobInv'
    BY Zenon, NextJobInv
  <1> QED
    BY <1>1, <1>2, PTL DEF Spec

\* When Done() returns true every output file holds the reduction of every map
\* task, for any number of workers, files and reducers and any deaths of
\* workers, provided that no worker takes more than ten seconds for a task.
THEOREM JobFinishedCorrect ==
    ASSUME Slow = {}
    PROVE  Spec => []JobFinished
  <1>1. JobInv => JobFinished
    BY Zenon DEF JobInv, ReduceInv, FlagInv, JobFinished
  <1> QED
    BY <1>1, JobInvariant, PTL

\* Under the same condition TaskDone counts each task once.
THEOREM CountsExactCorrect ==
    ASSUME Slow = {}
    PROVE  Spec => []CountsExact
  <1>1. JobInv => CountsExact
    BY Zenon DEF JobInv
  <1> QED
    BY <1>1, JobInvariant, PTL

\* Under the same condition a reducer reads complete files only.
THEOREM InputReadyCorrect ==
    ASSUME Slow = {}
    PROVE  Spec => []InputReady
  <1>1. JobInv => InputReady
    BY Zenon, InputIsReady
  <1> QED
    BY <1>1, JobInvariant, PTL
=============================================================================
