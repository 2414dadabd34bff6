----------------------------- MODULE MapReduce -----------------------------
(***************************************************************************)
(* The MapReduce coordinator and workers of src/src/mr, the loop in        *)
(* main/mrcoordinator.go that polls Done(), and the files the workers      *)
(* share.                                                                  *)
(*                                                                         *)
(* Each RPC handler runs under one mutex and is one action; Done() reads   *)
(* mapDone and reduceDone before it locks, so it is two.  A worker is a    *)
(* process that may be delayed or die between any two of its steps.  Of a  *)
(* file only this is kept: whether it exists, and whether all of its       *)
(* contents are written.                                                   *)
(***************************************************************************)
EXTENDS Integers, FiniteSets

CONSTANTS
    Workers,     \* the worker processes
    NMap,        \* len(files)
    nReduce,
    Slow,        \* workers that may spend more than 10 s on a task
    MayCrash     \* workers that may die

ASSUME SizesAssumption == NMap \in Nat \ {0} /\ nReduce \in Nat \ {0}

ASSUME WorkersAssumption ==
    IsFiniteSet(Workers) /\ Slow \subseteq Workers /\ MayCrash \subseteq Workers

VARIABLES
    mapTasks, reduceTasks,                    \* the status of each task
    mapTasksCompleted, reduceTasksCompleted,
    mapDone, reduceDone,
    doneBranch,      \* the branch Done() has chosen but not yet run
    exited,          \* Done() has returned true and the coordinator is gone
    pc, task,        \* what each worker is about to do, and for which task
    next, got,       \* the next file of a loop; reduce: the map outputs read
    intermediate,    \* the files mr-X-Y.txt
    output           \* the map outputs that went into the file mr-out-Y

coordinatorVars == <<mapTasks, reduceTasks, mapTasksCompleted, reduceTasksCompleted,
                     mapDone, reduceDone, doneBranch, exited>>
vars == <<coordinatorVars, pc, task, next, got, intermediate, output>>

MapTasks == 0 .. NMap - 1
ReduceTasks == 0 .. nReduce - 1

\* MakeCoordinator()
Init ==
    /\ mapTasks = [i \in MapTasks |-> "Unassigned"]
    /\ reduceTasks = [i \in ReduceTasks |-> "Unassigned"]
    /\ mapTasksCompleted = 0 /\ reduceTasksCompleted = 0
    /\ mapDone = FALSE /\ reduceDone = FALSE
    /\ doneBranch = "none" /\ exited = FALSE
    /\ pc = [w \in Workers |-> "request"]
    /\ task = [w \in Workers |-> 0]
    /\ next = [w \in Workers |-> 0] /\ got = [w \in Workers |-> {}]
    /\ intermediate = [m \in MapTasks |-> [r \in ReduceTasks |-> "Absent"]]
    /\ output = [r \in ReduceTasks |-> {}]

-----------------------------------------------------------------------------
(***************************************************************************)
(* The coordinator's handlers.  RequestTask that finds no task leaves the  *)
(* worker where it was, about to ask again after a second.                 *)
(***************************************************************************)

\* Mutant of Assignable: a task that somebody has is handed out again.
AssignableTwice(tasks, i) ==
    /\ tasks[i] # "Complete"
    /\ \A k \in DOMAIN tasks : k < i => tasks[k] = "Complete"

\* The task that assignTask() picks: the first one nobody has.
Assignable(tasks, i) ==
    /\ tasks[i] = "Unassigned"
    /\ \A k \in DOMAIN tasks : k < i => tasks[k] # "Unassigned"

\* RequestTask in the map phase.
RequestMap(w, i) ==
    /\ pc[w] = "request" /\ ~exited
    /\ ~mapDone
    /\ Assignable(mapTasks, i)
    /\ mapTasks' = [mapTasks EXCEPT ![i] = "Assigned"]
    /\ pc' = [pc EXCEPT ![w] = "createFiles"]
    /\ task' = [task EXCEPT ![w] = i]
    /\ next' = [next EXCEPT ![w] = 0]
    /\ UNCHANGED <<reduceTasks, mapTasksCompleted, reduceTasksCompleted, mapDone,
                   reduceDone, doneBranch, exited, got, intermediate, output>>

\* RequestTask in the reduce phase.
RequestReduce(w, i) ==
    /\ pc[w] = "request" /\ ~exited
    /\ mapDone /\ ~reduceDone
    /\ Assignable(reduceTasks, i)
    /\ reduceTasks' = [reduceTasks EXCEPT ![i] = "Assigned"]
    /\ pc' = [pc EXCEPT ![w] = "readFiles"]
    /\ task' = [task EXCEPT ![w] = i]
    /\ next' = [next EXCEPT ![w] = 0] /\ got' = [got EXCEPT ![w] = {}]
    /\ UNCHANGED <<mapTasks, mapTasksCompleted, reduceTasksCompleted, mapDone,
                   reduceDone, doneBranch, exited, intermediate, output>>

\* Mutant of AllDone: the comparison is off by one.
AllDoneEarly(completed, tasks) == completed + 1 >= Cardinality(DOMAIN tasks)

\* completed >= len(tasks)
AllDone(completed, tasks) == completed >= Cardinality(DOMAIN tasks)

\* TaskDone for a map task.
MapTaskDone(w) ==
    /\ pc[w] = "mapDone" /\ ~exited
    /\ mapTasks' = [mapTasks EXCEPT ![task[w]] = "Complete"]
    /\ mapTasksCompleted' = mapTasksCompleted + 1
    /\ mapDone' = (mapDone \/ AllDone(mapTasksCompleted', mapTasks))
    /\ pc' = [pc EXCEPT ![w] = "request"]
    /\ UNCHANGED <<reduceTasks, reduceTasksCompleted, reduceDone, doneBranch, exited,
                   task, next, got, intermediate, output>>

\* TaskDone for a reduce task.
ReduceTaskDone(w) ==
    /\ pc[w] = "reduceDone" /\ ~exited
    /\ reduceTasks' = [reduceTasks EXCEPT ![task[w]] = "Complete"]
    /\ reduceTasksCompleted' = reduceTasksCompleted + 1
    /\ reduceDone' = (reduceDone \/ AllDone(reduceTasksCompleted', reduceTasks))
    /\ pc' = [pc EXCEPT ![w] = "request"]
    /\ UNCHANGED <<mapTasks, mapTasksCompleted, mapDone, doneBranch, exited,
                   task, next, got, intermediate, output>>

\* Done() looks at mapDone and reduceDone without a lock.
DoneLooks ==
    /\ ~exited /\ doneBranch = "none"
    /\ doneBranch' = IF ~mapDone THEN "map" ELSE IF ~reduceDone THEN "reduce" ELSE "finish"
    /\ UNCHANGED <<mapTasks, reduceTasks, mapTasksCompleted, reduceTasksCompleted, mapDone,
                   reduceDone, exited, pc, task, next, got, intermediate, output>>

\* The workers that are at work on map task i, or on reduce task i.
MapHolders(i) ==
    {w \in Workers : pc[w] \in {"createFiles", "encode", "mapDone"} /\ task[w] = i}
ReduceHolders(i) ==
    {w \in Workers : pc[w] \in {"readFiles", "createOutput", "write", "reduceDone"}
                       /\ task[w] = i}

\* Tasks that may have been assigned for 10 s: those that nobody works on,
\* and those that only slow workers work on.
OverdueMaps == {i \in MapTasks : mapTasks[i] = "Assigned" /\ MapHolders(i) \subseteq Slow}
OverdueReduces ==
    {i \in ReduceTasks : reduceTasks[i] = "Assigned" /\ ReduceHolders(i) \subseteq Slow}

\* Mutant of updateTasks: overdue tasks stay assigned.
updateTasksNever(tasks, overdue) == tasks

\* updateTasks()
updateTasks(tasks, overdue) ==
    [i \in DOMAIN tasks |-> IF i \in overdue THEN "Unassigned" ELSE tasks[i]]

\* The rest of Done(), and mrcoordinator's exit when it returns true.  Of the
\* tasks that may be overdue those in late are.
DoneUpdates(late) ==
    /\ ~exited /\ doneBranch # "none"
    /\ mapTasks' = IF doneBranch = "map" THEN updateTasks(mapTasks, late \cap OverdueMaps)
                   ELSE mapTasks
    /\ reduceTasks' = IF doneBranch = "reduce"
                      THEN updateTasks(reduceTasks, late \cap OverdueReduces)
                      ELSE reduceTasks
    /\ doneBranch' = "none"
    /\ exited' = (mapDone /\ reduceDone)
    /\ UNCHANGED <<mapTasksCompleted, reduceTasksCompleted, mapDone, reduceDone,
                   pc, task, next, got, intermediate, output>>

-----------------------------------------------------------------------------
(***************************************************************************)
(* The worker.                                                             *)
(***************************************************************************)

\* performMap(), and one round of the loop of storeIntermediate() that
\* creates the files; os.Create empties one that exists.
createFile(w) ==
    /\ pc[w] = "createFiles"
    /\ intermediate' = [intermediate EXCEPT ![task[w]][next[w]] = "Empty"]
    /\ next' = [next EXCEPT ![w] = @ + 1]
    /\ pc' = [pc EXCEPT ![w] = IF next'[w] >= nReduce THEN "encode" ELSE @]
    /\ UNCHANGED <<coordinatorVars, task, got, output>>

\* The loop of storeIntermediate() that writes them.  Keys go to the files in
\* no order, so no file is complete before the loop ends.
encode(w) ==
    /\ pc[w] = "encode"
    /\ intermediate' = [intermediate EXCEPT ![task[w]] = [r \in ReduceTasks |-> "Full"]]
    /\ pc' = [pc EXCEPT ![w] = "mapDone"]
    /\ UNCHANGED <<coordinatorVars, task, next, got, output>>

\* Mutant of AllRead: the loop runs once too often.
AllReadLate(n) == n > NMap

\* The loop of getIntermediate() ends.
AllRead(n) == n >= NMap

\* One round of the loop of getIntermediate(): the file of map task next[w].
\* A worker that cannot open it exits.
readFile(w) ==
    LET contents == intermediate[next[w]][task[w]]
    IN  /\ pc[w] = "readFiles"
        /\ next' = [next EXCEPT ![w] = @ + 1]
        /\ got' = [got EXCEPT ![w] = IF contents = "Full" THEN @ \cup {next[w]} ELSE @]
        /\ pc' = [pc EXCEPT ![w] = IF contents = "Absent" THEN "gone"
                                   ELSE IF AllRead(next'[w]) THEN "createOutput" ELSE @]
        /\ UNCHANGED <<coordinatorVars, task, intermediate, output>>

\* performReduce() creates or empties mr-out-Y ...
createOutput(w) ==
    /\ pc[w] = "createOutput"
    /\ output' = [output EXCEPT ![task[w]] = {}]
    /\ pc' = [pc EXCEPT ![w] = "write"]
    /\ UNCHANGED <<coordinatorVars, task, next, got, intermediate>>

\* ... and writes the reduction of what the worker has read.
write(w) ==
    /\ pc[w] = "write"
    /\ output' = [output EXCEPT ![task[w]] = got[w]]
    /\ pc' = [pc EXCEPT ![w] = "reduceDone"]
    /\ UNCHANGED <<coordinatorVars, task, next, got, intermediate>>

\* A worker that cannot reach the coordinator exits (call()).
dialFails(w) ==
    /\ pc[w] \in {"request", "mapDone", "reduceDone"} /\ exited
    /\ pc' = [pc EXCEPT ![w] = "gone"]
    /\ UNCHANGED <<coordinatorVars, task, next, got, intermediate, output>>

\* A worker dies (maybeCrash() in mrapps/crash.go).
crash(w) ==
    /\ w \in MayCrash /\ pc[w] # "gone"
    /\ pc' = [pc EXCEPT ![w] = "gone"]
    /\ UNCHANGED <<coordinatorVars, task, next, got, intermediate, output>>

Work(w) ==
    \/ \E i \in MapTasks : RequestMap(w, i)
    \/ \E i \in ReduceTasks : RequestReduce(w, i)
    \/ createFile(w) \/ encode(w) \/ MapTaskDone(w)
    \/ readFile(w) \/ createOutput(w) \/ write(w) \/ ReduceTaskDone(w)
    \/ dialFails(w)

Done == DoneLooks \/ \E late \in SUBSET (MapTasks \cup ReduceTasks) : DoneUpdates(late)

Next == Done \/ \E w \in Workers : Work(w) \/ crash(w)

Spec == Init /\ [][Next]_vars

\* A worker that does not die goes on with its work.  mrcoordinator calls
\* Done() every second, and a call made long enough after a task was assigned
\* finds it overdue.
Fairness ==
    /\ \A w \in Workers : WF_vars(Work(w))
    /\ WF_vars(Done) /\ SF_vars(DoneUpdates(MapTasks \cup ReduceTasks))

FairSpec == Spec /\ Fairness

-----------------------------------------------------------------------------
Statuses == {"Unassigned", "Assigned", "Complete"}

\* Every variable has its declared type, and no worker is ever given a task
\* number that is not in the slice it indexes.
TypeOK ==
    /\ mapTasks \in [MapTasks -> Statuses] /\ reduceTasks \in [ReduceTasks -> Statuses]
    /\ mapTasksCompleted \in Nat /\ reduceTasksCompleted \in Nat
    /\ mapDone \in BOOLEAN /\ reduceDone \in BOOLEAN /\ exited \in BOOLEAN
    /\ doneBranch \in {"none", "map", "reduce", "finish"}
    /\ pc \in [Workers -> {"request", "createFiles", "encode", "mapDone", "readFiles",
                           "createOutput", "write", "reduceDone", "gone"}]
    /\ task \in [Workers -> Nat] /\ next \in [Workers -> Nat]
    /\ got \in [Workers -> SUBSET MapTasks]
    /\ intermediate \in [MapTasks -> [ReduceTasks -> {"Absent", "Empty", "Full"}]]
    /\ output \in [ReduceTasks -> SUBSET MapTasks]
    /\ \A w \in Workers : /\ pc[w] \in {"createFiles", "encode", "mapDone"}
                               => task[w] \in MapTasks
                          /\ pc[w] \in {"readFiles", "createOutput", "write", "reduceDone"}
                               => task[w] \in ReduceTasks
                          /\ pc[w] = "createFiles" => next[w] < nReduce
                          /\ pc[w] = "readFiles" => next[w] < NMap

\* When Done() has said that the job is finished, every output file holds
\* the reduction of every map task's output.
JobFinished == exited => \A r \in ReduceTasks : output[r] = MapTasks

\* A task is counted once: the counters of TaskDone agree with the statuses.
CountsExact ==
    /\ mapTasksCompleted = Cardinality({i \in MapTasks : mapTasks[i] = "Complete"})
    /\ reduceTasksCompleted = Cardinality({i \in ReduceTasks : reduceTasks[i] = "Complete"})

\* No reducer is at work before all its input is there, and nobody takes it
\* away while it reads: mapDone separates the two phases.
InputReady ==
    \A w \in Workers : pc[w] = "readFiles" => \A m \in MapTasks : intermediate[m][task[w]] = "Full"

\* The job finishes, whoever dies, as long as a worker is left.
JobFinishes == <>exited
=============================================================================
