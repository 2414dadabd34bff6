# A TLA+ model of the 6.5840 labs

Specifications, model-checking runs and proofs for the Go code under `src/src`:
MapReduce, a single key/value server, Raft, a key/value service replicated over
Raft, the simulated network they run on with the tester that crashes servers on
it, and the linearizability checker that judges them. Everything is written from
the code. Where a comment, a test or a checker of the repository says something
else, a run shows the difference or it is described below.

## The system and what models it

| part of the repository | what it does | modules |
|---|---|---|
| `raft/raft.go`, `raft/persister.go` | elections, log replication, log compaction, the applier goroutine, saved state | `RaftLog`, `Raft`, `RaftElection`, `RaftSafety` |
| `raft/config.go` (appliers) | the service behind `applyCh` | `Raft` |
| `labrpc/`, `raft/config.go` (start1, crash1, connect, disconnect, cleanup) | the network, and the tester that crashes, restarts and partitions servers | `LabRpc` |
| `kvraft/` server and clerk | replicated map with duplicate detection and snapshots | `KvRaft` over `RaftService` |
| `kvsrv/` server and clerk | one map server, lost replies | `KvSrv` |
| `models/kv.go` | the sequential map the tests compare with | `KvModel`, `KvStore` |
| `mr/`, `main/mrcoordinator.go`, `mrapps/crash.go` | coordinator, workers, files, workers that die or dawdle | `MapReduce` |
| `porcupine/` | the linearizability checker of the tests | `Porcupine` |
| `labgob/`, `shardctrler/`, `shardkv/`, other `main/` programs, other `mrapps/` | encoding, stubs, batch programs | not modelled (see below) |

How they interact: a clerk sends RPCs over labrpc to a server. In kvraft the
server hands the operation to its Raft peer with `Start`, Raft peers exchange
RPCs over labrpc and send committed commands and snapshots on `applyCh`, and
the server's `update` goroutine executes them and wakes the RPC handler. In
`KvRaft` the Raft below is the abstract `RaftService`: a growing sequence of
committed commands, logs that hold a prefix of it followed by entries which
may still be replaced, and several peers that believe they lead. `Raft`, `KvSrv`
and `KvRaft` have the network by its effect on them: messages that are lost,
late and overtaken, calls executed at most once, crashes that lose all but what
was saved. `LabRpc` looks inside: how a call is lost, late or executed, and why
what a crashed server confirmed is what its successor reads.

### Raft

`RaftLog` has the index arithmetic of `raft.go` as pure operators on one log: a
Go slice whose element 0 is a dummy becomes a sequence whose first element is
the dummy. `Raft` has the fields of `rf` as functions of the peer, and one
action for each section of code that runs under `rf.mu`:

| action | code |
|---|---|
| `startElection` | `ticker` past its timeout check, `startElection` |
| `RequestVote`, `handleRequestVoteReply` (with `becomeLeader`) | the methods of that name |
| `Start` | `Start` |
| `heartbeatWorker` | the AppendEntries branch: arguments are built and sent |
| `RejectAppendEntries`, `AppendEntries` | `AppendEntries`, stale term or not |
| `handleSendAppendEntries` | the same, from the reply on |
| `Snapshot` | `Snapshot`, called by the service for what it has applied |
| `handleInstallSnapshot`, `InstallSnapshot`, `handleInstallSnapshotReply` | the same, split at the RPC |
| `workerExit` | the deferred function that clears `isReplicating` |
| `applyCommitted`, `applierSnap` | one locked round of the applier; the service takes one message |
| `Restart` | crash1, start1, `Make` and `readPersist` on what was saved |

Messages are kept in sets that only grow, so a message may be late, overtaken
or never received. A RequestVote is executed once and its reply counted once,
since a candidate makes one call per peer and term and labrpc executes a call
at most once. AppendEntries and InstallSnapshot may be received any number of
times: a heartbeat with the same arguments is a new call. Timers are
nondeterminism: an election timeout may fire whenever the peer is not leader.
Commands are integers; a snapshot is the sequence of commands it stands for.

### KvSrv, KvRaft, KvModel and KvStore

`KvModel` translates `models/kv.go`. `KvStore` is linearizability for it: a
call is invoked, takes effect at one instant and returns. A Put or an Append
takes effect by an action of its own; a Get changes nothing, so it may return
any value its key held while it was open. The history variable `answers` holds
what each open call may return. `KvSrv` and `KvRaft` are shown to implement it
(`Linearizable == Store!Spec`). Strings are sequences of `Letters`.

`KvSrv`: each handler holds the mutex from beginning to end and is one action
(`HandleGet`, `HandlePut`, `HandleAppend`), past its wait on `cond`.
`DropReply` is the network. `KvRaft`: `Call`, `Retry` and `Return` are the
clerk; a handler is a record that outlives the RPC the clerk gave up on
(`StartOp`, `NotLeader`, `Timeout`); `update`, `sendCommands` and
`sendSnapshot` are the goroutine that reads `applyCh` and Raft's loop that
feeds it; `InstallSnapshot` and `Restart` replace a server's state. A Put or
Append takes effect in `Commit`, when Raft first commits it. The history
variable `outcomes` holds the map and the duplicate table after each number of
committed commands; `ReplicasReplay` compares every server with it.

### MapReduce

The RPC handlers run under one mutex each and are one action each, split by
phase. `Done()` reads two flags before it locks, so it is two actions
(`DoneLooks`, `DoneUpdates`). The 10 s timeout is nondeterminism limited by
`Slow`: a task may be found overdue when nobody works on it, or when all who
do are in `Slow`. The worker's steps are those between which another process
can see the files: created empty one by one, written, read one by one. Of a file
only whether it exists and is complete is kept.

### LabRpc

The tester cannot stop the goroutines of a crashed server. So `LabRpc` gives a
server incarnations, one for each `start1`, and lets all of them go on calling
and handling: what keeps the old ones from harm is new names for the ends,
`DeleteServer`, and three copies of the Persister. A call goes through `Call`,
`Receive`, `readEndnameInfo`, `StartHandler`, `TakeReply` or `Abandon`,
`Decide` and `Return`, and may be dropped on the way (`Drop`, `CallFails`);
`Handle` and `Drain` are the goroutine of its handler. Every section under the
network's lock is one step. The tester is one goroutine, `doing` is its place
in `crash1()` and `start1()`: `crash1`, `DeleteServer`, `Supersede`, `Resave`,
`Make`, `AddServer`. Of a handler this is kept: it adds its call to the
incarnation's state, saves the whole state, and returns or hangs.

### Porcupine

One step is one round of the loop of `checkSingle`: `Linearize`, `Skip`,
`Backtrack` or `Stop`. The doubly linked list is there with its links, since
that `unlift` puts back what `lift` took out is one of the questions; bitset and
cache are sets. `Send`, `Receive`, `TimeOut`, `Drain` and `Finish` are
`checkParallel` and its goroutines. Entries with equal times are sorted in any
order that `byTime.Less` allows, as `sort.Sort` is not stable. The reference,
`LinearizableHistory`, looks for an order of all operations of the history at
once, over the map with all keys.

## Runs

Three peers, two servers, two clerks and two or three workers are the smallest
numbers with a majority that is not everybody, a change of leader, rivals for a
key, and a worker left when another dies. The state of Raft is too large for
one run with everything in it, so each run bounds what its question does not
need; `MCRaft` names the bounds. `MayStand` says who may stand in which term
and `MayHear` who may be sent AppendEntries in it: they are scenarios, inside
which every interleaving, loss and delay is explored. In `conflict` and
`compaction` a leader sends AppendEntries only when no RequestVote is unanswered (`LateVotes = FALSE`). Late replies, and AppendEntries that arrive
late, are still there, so a candidate may come to lead when a later leader is at
work; votes cast late are the subject of `election`, which has them all. The two
different AppendEntries and the InstallSnapshot of `compaction` suffice to commit,
compact and install, with a call still under way that then arrives below the
snapshot. That a peer which has installed one restarts with it is proved
(`DurableAlways`, with snapshots).

| run | question | states |
|---|---|---|
| `election` | two rivals in term 1, anybody in term 2, everybody may crash: `ElectionInv`, `ElectionSafety`, `VoteOnce`, `TermMonotone` | 369 k |
| `conflict` | four leaders in turn, the last two replicate; conflicting tails, and an old entry on a majority that is not committed; everybody may crash: `LogMatching`, `LeaderCompleteness`, `ProbesWalkBack`, `Durable`, `CommitMonotone` | 447 k |
| `compaction` | two leaders in turn, a snapshot at index 2 of 3, the applier and delayed AppendEntries racing it; both leaders apply and compact, the first may crash: `TypeOK`, `ApplyInOrder`, `LeaderCompleteness`, `StateMachineSafety`, `CommittedStable` | 560 k |
| `kvsrv` | Get on two keys, Append to one and Put to the other: `TypeOK`, `CacheTracksCalls`, `Linearizable`, `CallsReturn` | 112 k |
| `kvraft` | an appender and a reader, three RPCs between them, two elections, one server takes snapshots, the other has them installed and may crash: `TypeOK`, `NoChannelLeaks`, `ReplicasReplay`, `Linearizable` | 1375 k |
| `mapreduce` | three workers, two may die, none is slow: `TypeOK`, `JobFinished`, `CountsExact`, `InputReady`, `JobFinishes` | 33 k |
| `labrpc` | two calls to a server that is disconnected, crashed and restarted, or one to it and one from it, live or crashed, on a network that may turn unreliable and is cleaned up: `TypeOK`, `ReplyIsDurable`, `OnlyConnected`, `CallsReturn`, `HandlersEnd` | 395 k |
| `porcupine` | all histories of three operations of four kinds at two times, the last perhaps on a second key; without a timeout, with one, and with one and partial linearizations: `TypeOK`, `ListIntact`, `VerdictCorrect`, `PartialsValid`, `InfoStable`, `CheckEnds` | 1363 k |

Runs that TLC refutes, each a disagreement between the code and a line of the
repository (the quotes are in `PROJECT.json`):

- `two_votes`: `InstallSnapshot` sets `VotedFor = -1` without a change of term
  (raft.go:523). A peer votes for one candidate, receives the snapshot of a
  leader of the same term, votes for another: two leaders in a term.
- `nil_command`: while `isReplicating` is set `heartbeatWorker` does not return
  (raft.go:990) but sends AppendEntries below the compacted log. Its first entry
  is the dummy, and a peer with an empty log accepts and applies it.
- `mapreduce_slow`: the second report of a task is counted as another task, by
  the counter of map tasks (coordinator.go:79) and by that of reduce tasks
  (coordinator.go:86), and the job ends with output missing. The trace of the
  run has a reduce task counted twice.
- `kvsrv_append`: a repeated Append of kvsrv answers from the key's current
  value (kvsrv/server.go:69), while models/kv.go:55 accepts the old value only.
  One clerk's Append is executed and its reply lost, another clerk Puts the key,
  and the repetition returns the value of the Put, to which nothing was
  appended. The history has no linearization once a Get reads that value: an
  Append that returned it would have left a longer one.

More differences were met while modelling and have no run:

- `lastApplied` is taken back by an installed snapshot (raft.go:1119), against
  its comment "increases monotonically" (raft.go:89): commands are then
  delivered twice, which the duplicate table of kvraft hides
  (`ReplicasReplay`).
- A key of kvraft that holds the string `"ErrNoKey"` reads as an absent one
  (kvraft/server.go:93).
- `checkParallel` without a timeout and without partitions waits for a result
  that nobody sends (checker.go:295). The histories of `Porcupine` are not
  empty, as those of the tests.

The other Raft runs choose bounds at which the first two do not happen: no
snapshot and same-term vote in one run, and snapshots at an index at which the
dummy entry cannot be accepted. `kvsrv` gives Append and Put different keys and
each clerk a letter of its own, since the answer to a repeated Append is right
when only Appends touch the key and no appended string occurs twice. `KvRaft`
assumes a Raft that is correct.

Deadlock is not checked in the runs of `MCRaft` and `MCKvRaft`: the bounds end
behaviours (a split vote in the last allowed term, the last allowed call). Nor
in those of `MapReduce`, where every process may be gone, in `KvSrv`, where all
clerks may have made their `MaxSeq` calls, in `LabRpc`, where the test is over
after `cleanup`, and in `Porcupine`, where the check ends.

`labrpc`: two incarnations, so that an old one meets a new one, and two calls,
so that one can be under way in each. Only one server is crashed and restarted,
and whether the network is lossy is decided before the first call; the safety
properties are proved without these bounds, `CallsReturn` and `HandlersEnd` are
checked within them. `porcupine`: the cache matters when the search comes to the
same operations in two orders with another one still open, which takes three.
Two times give ties of every kind, and operations that overlap and that do not.
The four kinds are a Put and an Append of one letter, an Append that returned
the empty string as the old value, and a Get that returned the letter: some
orders are accepted and others not. Partial linearizations without a timeout are
not in the run; the tests ask for them with one.

Symmetry is the set of permutations that map every bound to itself, and is used
for invariants and action properties only, never with liveness.

Fairness. `KvSrv`: a request is served in the end (`WF(Serve)`: the clerk
repeats it at once and labrpc drops each message independently) and a reply is
delivered in the end (`SF(Return)`: of infinitely many replies one is not
dropped). `MapReduce`: a worker that is not dead goes on (`WF(Work)`),
mrcoordinator calls `Done` every second (`WF(Done)`), and one of the calls made
while a task stays assigned to nobody alive comes 10 s after its assignment
(`SF(DoneUpdates)` of all overdue tasks). `LabRpc`: the goroutines of the
network and of handlers go on (`WF`), callers and tester may stop anywhere; that
a handler returns is not assumed. `Porcupine`: its goroutines go on (`WF`), the
timeout may never fire.

`ProbesWalkBack` is the progress measure behind catching up, as an invariant: a
peer of the leader's term that rejects a probe takes `nextIndex` below it. That
a follower is caught up in the end also needs a leader that stays, which no
fairness of the code's timers gives.

Each property of a passing run is paired in `PROJECT.json` with a mutant: a
plausible slip in the code for which the same run fails.

## Theorems

TLAPS proves these for every value of the constants: any number of peers,
clerks, keys, calls, messages and crashes.

| module | theorem | statement |
|---|---|---|
| `RaftProofs` | `TypeCorrect` | `Spec => []TypeOK` |
| `RaftProofs` | `DurableAlways` | `Spec => []Durable` |
| `RaftProofs` | `TermsMonotone` | `Spec => TermMonotone` |
| `RaftProofs` | `ElectionInvariant` | `SnapshotAt = {}`: `Spec => []ElectionInv` |
| `RaftProofs` | `ElectionSafe` | `SnapshotAt = {}`: `Spec => []ElectionSafety` |
| `RaftProofs` | `VotesOnce` | `SnapshotAt = {}`: `Spec => VoteOnce` |
| `RaftTheorems` | `SafetyInvariant` | `SnapshotAt = {}`: `Spec => []SafetyInv` |
| `RaftTheorems` | `LogsMatch` | `SnapshotAt = {}`: `Spec => []LogMatching` |
| `RaftTheorems` | `LeadersComplete` | `SnapshotAt = {}`: `Spec => []LeaderCompleteness` |
| `RaftTheorems` | `StateMachinesAgree` | `SnapshotAt = {}`: `Spec => []StateMachineSafety` |
| `RaftTheorems` | `AppliesInOrder` | `SnapshotAt = {}`: `Spec => []ApplyInOrder` |
| `RaftTheorems` | `ProbesGoBack` | `SnapshotAt = {}`: `Spec => []ProbesWalkBack` |
| `RaftTheorems` | `CommitsRise` | `SnapshotAt = {}`: `Spec => CommitMonotone` |
| `RaftTheorems` | `CommittedEntriesStay` | `SnapshotAt = {}`: `Spec => CommittedStable` |
| `KvSrvProofs` | `TypeCorrect` | `Spec => []TypeOK` |
| `KvSrvProofs` | `CacheCorrect` | `Spec => []CacheTracksCalls` |
| `KvSrvProofs` | `PutGetLinearizable` | operations without Append: `Spec => Linearizable` |
| `KvRaftProofs` | `TypeCorrect` | `Spec => []TypeOK` |
| `KvRaftProofs` | `NoChannelLeaksCorrect` | `Spec => []NoChannelLeaks` |
| `KvRaftProofs` | `ReplicasReplayCorrect` | `Spec => []ReplicasReplay` |
| `KvRaftProofs` | `ServiceLinearizable` | nobody stores `"ErrNoKey"`: `Spec => Linearizable` |
| `MapReduceProofs` | `TypeCorrect` | `Spec => []TypeOK` |
| `MapReduceProofs` | `JobFinishedCorrect` | `Slow = {}`: `Spec => []JobFinished` |
| `MapReduceProofs` | `CountsExactCorrect` | `Slow = {}`: `Spec => []CountsExact` |
| `MapReduceProofs` | `InputReadyCorrect` | `Slow = {}`: `Spec => []InputReady` |
| `LabRpcProofs` | `TypeCorrect` | `Spec => []TypeOK` |
| `LabRpcProofs` | `ReplyIsDurableCorrect` | `Spec => []ReplyIsDurable` |
| `LabRpcProofs` | `OnlyConnectedCorrect` | `Spec => []OnlyConnected` |
| `PorcupineProofs` | `CheckInvariant` | `Spec => []CheckInv` |
| `PorcupineProofs` | `CheckTypeCorrect` | `Spec => []TypeOK` |
| `PorcupineProofs` | `ListStaysWhole` | `Spec => []ListIntact` |
| `PorcupineProofs` | `PartialsAreValid` | `Spec => []PartialsValid` |
| `PorcupineProofs` | `VerdictIsCorrect` | `Spec => []VerdictCorrect` |
| `PorcupineProofs` | `InfoStaysPut` | `Spec => InfoStable` |

### Raft: types, disk and elections

`TypeOK` is inductive by itself; the work is in the lemmas of `RaftProofs` about
the log operators, which return logs with their dummy entry whatever they are
given. `Durable` (the saved state is the current one) is inductive with it, and
gives `TermMonotone` since a restart then changes no term. Election safety rests
on `ElectionInv` of `RaftElection`. A peer's `VotedFor` is gone once it moves to
a later term, so the invariant speaks of ballots found in the messages: a
ballot's voter is at or past its term and, in it, still has that vote; nobody
cast two in a term; a candidate's `votes` are ballots for it; who sent
AppendEntries has a majority of them. Two majorities intersect. It needs
`NoSnapshots`, that without calls to `Snapshot` no `InstallSnapshot` is ever
sent, and that in turn needs that backtracking never takes `nextIndex` below 1.

The hypothesis `SnapshotAt = {}` is a service that takes no snapshots, as those
of most of the Raft tests. It cannot be dropped: with `InstallSnapshot` a term
may have two leaders (`two_votes`), which makes `ElectionSafety` false, and a
dummy entry may be applied (`nil_command`); every argument about logs rests on
there being one leader. With snapshots the properties are checked by TLC only,
in `compaction`, at bounds at which the two defects do not happen. `LogMatching`
and `ProbesWalkBack` are checked without snapshots.

### Raft: logs, commits and services

None of `LogMatching`, `LeaderCompleteness` and `StateMachineSafety` is
inductive, and no invariant over the peers' states alone is: the log that made
an entry committed may have been truncated everywhere when the entry is spoken
of, and a commit index may have been lost in a restart. `SafetyInv` of
`RaftSafety` therefore says that some history fits the state: the leader `W[t]`
that each term had, and the log `T[t]` that it had while in office, at its
longest.

- Every entry of every log is in the log of the leader of its term, with all
  that precedes it (`LogsBacked`). `LogMatching` follows at once.
- AppendEntries on their way carry parts of `T` (`CallsCarryLogs`), successful
  replies acknowledge parts of it (`RepliesAnswer`).
- An entry of a leader's own term is *chosen* when a majority acknowledged it in
  that term, and *choosable* when a majority did or still may, because it has
  not left the term. Later leaders have what is choosable (`LeadersHaveIt`), who
  acknowledged it keeps it (`PeersKeepIt`) and votes only for candidates whose
  log is at least as good (`VotersSeeIt`). A new leader got a vote from the
  majority of a choosable entry, so it has the entry: this is the step of
  `becomeLeader`. That `updateLeaderCommitIndex` counts entries of the leader's
  own term only is needed here.
- Commit indices, and those in messages, are covered by chosen entries
  (`CommitsSettled`); what is applied, or on `applyCh`, is the command in front
  of a chosen entry (`AppliedDecided`). Two chosen entries are in one log, which
  gives `LeaderCompleteness` and `StateMachineSafety`.

A step either leaves the history as it is, or makes `T[t]` one entry longer
(`Start`), or records a new leader (`handleRequestVoteReply`).
`RaftSafetyProofs` has the steps, one part of the invariant at a time,
`RaftTheorems` puts them together with `ElectionInv`. Before the proof, TLC
checked the parts of `SafetyInv` with `T` and `W` as history variables, at the
bounds of `conflict` (1.34 million states), on two rivals, and in random
behaviours with wider bounds.

### KvSrv and KvRaft

KvSrv. `CacheInv` adds the types to `CacheTracksCalls`: `requestCache[c] =
seq[c]` exactly when the open Put or Append of `c` took effect. `AnswerInv`
says that a reply on its way is one of `answers`. Then each step of `KvSrv` is
a step of `KvStore` or a stutter. With Append the statement is false for some
operations (see the differences above), and what makes it true for others is a
fact about substrings that only the runs check.

KvRaft. `KvInv` follows a command from the clerk to its reply. Logs, committed
commands and handlers hold only what clerks have made (`MadeInv`). `OutcomeInv`
says that `outcomes` come from one command after the other, a duplicate changing
nothing. Raft may deliver a command again after a snapshot or a restart, so that
a server is at the outcome of *some* number `m` of commands with
`lastApplied <= m`, and what is delivered next continues it or repeats
(`ReplicaInv`): this is where the duplicate table is needed. `ChannelInv` says
who waits on which channel. `StoreInv` is the refinement mapping: the store is
the outcome of all committed commands, and each value that a Get's key had since
the Get was made is in `answers`. `ReplyInv` says that a reply is one of these.
Every step of `KvRaft` is then a step of `KvStore` or a stutter. The hypothesis
`NoSentinel` is the third difference above: with the string `"ErrNoKey"` stored
the statement is false.

### MapReduce

`JobFinished` says nothing of the steps before, so `JobInv` follows
the files: a task that some worker has is `Assigned`, and no other worker has it
(here `Slow = {}` is needed: an overdue task has no worker left); when its worker
reports it, its files are full; a complete task has full files; the counters are
the cardinalities of the complete tasks, so that "all counted" means "all
complete"; and a reduce task's output was made from all intermediate files.

### LabRpc

`ReplyIsDurable` speaks of two Persisters, the one a handler wrote and
the one the next incarnation gets, and of a moment before and after a crash.
`NetInv` connects them: each incarnation has a Persister of its own that holds
its memory, and the server that is on the network writes the one in `cfg.saved`
(`DiskInv`); a call whose handler is past its save is in the incarnation's
memory, and one that is about to answer is in `cfg.saved` (`CallInv`). `Decide`
establishes the last from the first two because the server is still there;
`Copy` keeps it because contents are copied; an old incarnation's write cannot
disturb it because its Persister is another one, or the same with more in it.
`TesterInv` says what the tester has done at each place of `crash1()` and
`start1()`, and that `ends` counts the incarnations; `EndsInv` with that is
`OnlyConnected` also while the tester is at work.

### Porcupine

The verdict is proved right for every history, of any length and on any number
of keys, and for every order in which the searches, their results and the
timeout come. `CheckInv` says of each search (`SearchOK`):

- The entries are sorted, calls before returns at equal times (`Sorted`; that
  `makeEntries` achieves it is `EntriesSorted`).
- The stack `calls` is a legal linearization of the operations in the bitset, in
  which each call was in front of every return that was left (`StackOK`).
- The list links the entries that are left, and each lifted entry keeps the
  links that it had among those that were left when it was lifted (`LinksOK`).
  This is more than `ListIntact`, and is what makes `unlift` right in reverse
  order (`LinksPush`, `LinksPop`).
- `Reach(set, value)`: some linearization of the *whole* history has at some
  point done exactly `set` on this key, and left the key at `value`. What is in
  the cache is on the stack or out of reach (`CacheOK`), and the calls that were
  passed at each level of the stack lead nowhere (`PassedOK`).

A return node stops a level: no linearization goes on with an operation behind it
(`DeadEnd`), so what was popped is out of reach. When nothing is left to pop,
nothing is reachable from the empty set, and the history is not linearizable:
that is the `Illegal` half. For the `Ok` half every key has a legal
linearization of its own, and these have to be merged into one (`Merge`): each
operation is given a point, the latest call among it and those before it on its
key, which lies between its call and its return; the operations are sorted by
point, and at one point by key and place. The rest of `CheckInv` (`ParallelInv`) follows
`checkParallel`: what was received, that a search that was killed and returned
false is not taken for illegal, and that with partial linearizations nobody is
still searching at the end. TLC checked `CheckInv` on the instance of
`porcupine` (1.36 million states) before it was proved.

### Assumptions

The proofs assume what the modules' ASSUMEs say: the peers of Raft are a finite
set that does not contain `Nobody`, the dummy's command is not a command of the
service, snapshots are taken at positive indices, the servers of kvraft are
numbered from 0 and there is one, bounds are natural numbers, operations have a
known type, a key of `Keys` and, in kvraft, a string over `Letters`, a server has at least
one incarnation, there are map and reduce tasks, the workers are a finite set,
and an operation of a history to be checked has a key of `Keys` and does not
return before it was called.

### Only model-checked

- Liveness: `CallsReturn`, `JobFinishes`, `HandlersEnd`, `CheckEnds`. Fairness
  and ENABLED are out of the prover's reach.
- Raft with snapshots, except `TypeOK`, `Durable` and `TermMonotone`.
- `KvSrv` with Append, and `MapReduce` with slow workers, whose properties do
  not hold in general.

## Not modelled

- `shardctrler` and `shardkv`: the servers are empty stubs.
- `checkEvents` of porcupine, which no test calls, and `visualization.go`.
- `labgob`, the testers' bookkeeping and statistics: encoding and output.
- The testers of kvsrv and kvraft, which crash and partition servers in the way
  of `raft/config.go`. `DeleteEnd`, which only kvsrv's tester calls.
- `mrsequential.go`, the Map and Reduce functions of `mrapps`.
- Goroutine leaks of a killed instance (`Kill` does not signal `applyCond`).
- Wall-clock time: election and heartbeat intervals, the delays of labrpc.
- That `Raft`, without the two defects above, implements `RaftService`: the
  interface is assumed by `KvRaft`, and what it rests on (`LogMatching`,
  `LeaderCompleteness`, `StateMachineSafety`, `CommittedStable`) is checked
  of `Raft`, and proved of it without snapshots.
