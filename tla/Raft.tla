-------------------------------- MODULE Raft --------------------------------
(***************************************************************************)
(* The Raft peers of src/src/raft/raft.go, their Persister, the labrpc     *)
(* network between them and the service that reads applyCh.                *)
(*                                                                         *)
(* Every section of the code that runs under rf.mu is one action.  A       *)
(* variable rf.x of peer i is the value x[i] of a function x; the log      *)
(* arithmetic is in RaftLog.                                               *)
(*                                                                         *)
(* Network.  A call may be lost, delayed and overtaken, and its reply too, *)
(* but labrpc never executes a call twice.  The arguments of the calls     *)
(* made so far, and their replies, are kept in sets that only grow: a      *)
(* message that is lost is one nobody ever receives.  A candidate makes    *)
(* one RequestVote call per peer and term, so a RequestVote is executed    *)
(* only while it has no reply, and a reply is counted only once.  A leader *)
(* repeats AppendEntries and InstallSnapshot calls as often as it likes    *)
(* (each heartbeat is a new call with the arguments of the moment), so a   *)
(* message of these kinds may be received any number of times: once for    *)
(* each of the equal calls that were made.                                 *)
(***************************************************************************)
EXTENDS RaftLog, FiniteSets

CONSTANTS
    Servers,     \* the peers
    Nobody,      \* VotedFor = -1
    Commands,    \* what the service passes to Start
    SnapshotAt   \* the indices at which the service calls Snapshot;
                 \* {} is a service that never does (maxraftstate = -1)

ASSUME ServersAssumption == IsFiniteSet(Servers) /\ Nobody \notin Servers

ASSUME CommandsAssumption == NoCommand \notin Commands

ASSUME SnapshotAtAssumption == SnapshotAt \subseteq Nat \ {0}

VARIABLES
    CurrentTerm, VotedFor, Log,            \* the state of the paper's Figure 2
    lastIncludedIndex, lastIncludedTerm,
    snapshot,                              \* the commands it stands for
    persister,                             \* what Make() will read back
    status, votes,                         \* votes: who granted, self included
    commitIndex, lastApplied, applySnapshot,
    nextIndex, matchIndex, isReplicating,
    applyCh,                               \* ApplyMsgs the applier has yet to send
    applied,                               \* the service's state: commands applied
    rvArgs, rvReplies,                     \* RequestVote calls and replies
    aeArgs, aeReplies,                     \* AppendEntries
    isArgs, isReplies                      \* InstallSnapshot

termVars == <<CurrentTerm, VotedFor>>
logVars == <<Log, lastIncludedIndex, lastIncludedTerm, snapshot>>
leaderVars == <<nextIndex, matchIndex>>
applyVars == <<lastApplied, applySnapshot, applyCh, applied>>
rvVars == <<rvArgs, rvReplies>>
aeVars == <<aeArgs, aeReplies>>
isVars == <<isArgs, isReplies>>
vars == <<termVars, logVars, persister, status, votes, commitIndex, leaderVars,
          isReplicating, applyVars, rvVars, aeVars, isVars>>

-----------------------------------------------------------------------------
Peers(i) == Servers \ {i}

\* count > len(rf.peers)/2
IsMajority(S) == Cardinality(S) > Cardinality(Servers) \div 2

LastIndex(i) == lastLogIndex(Log[i], lastIncludedIndex[i])

LastTerm(i) == lastLogIndexTerm(Log[i], lastIncludedTerm[i])

\* Mutant of RaftState: VotedFor is not encoded.
RaftStateNoVote(i) ==
    [CurrentTerm |-> CurrentTerm[i], VotedFor |-> Nobody, Log |-> Log[i],
     lastIncludedIndex |-> lastIncludedIndex[i],
     lastIncludedTerm |-> lastIncludedTerm[i], snapshot |-> snapshot[i]]

\* What persist() encodes for peer i, with the snapshot saved along with it.
RaftState(i) ==
    [CurrentTerm |-> CurrentTerm[i], VotedFor |-> VotedFor[i], Log |-> Log[i],
     lastIncludedIndex |-> lastIncludedIndex[i],
     lastIncludedTerm |-> lastIncludedTerm[i], snapshot |-> snapshot[i]]

\* Mutant of persist: nothing is saved.
persistNothing(i) == UNCHANGED persister

\* rf.persist(), as the last thing a step does to the persistent state.
persist(i) == persister' = [persister EXCEPT ![i] = RaftState(i)']

\* The effect of stepDown(term) on everything but the persister, for a term
\* that is known to be higher.
BecomeFollower(i, term) ==
    /\ CurrentTerm' = [CurrentTerm EXCEPT ![i] = term]
    /\ VotedFor' = [VotedFor EXCEPT ![i] = Nobody]
    /\ status' = [status EXCEPT ![i] = "Follower"]
    /\ isReplicating' = [isReplicating EXCEPT ![i] = [p \in Servers |-> FALSE]]

\* Mutant of stepDown: the new term is not saved.
stepDownUnsaved(i, term) == BecomeFollower(i, term) /\ UNCHANGED <<logVars, persister>>

\* stepDown(term) when it returns true and nothing follows it.
stepDown(i, term) ==
    /\ BecomeFollower(i, term)
    /\ UNCHANGED logVars
    /\ persist(i)

\* Make() on an empty Persister.
Init ==
    /\ CurrentTerm = [i \in Servers |-> 0]
    /\ VotedFor = [i \in Servers |-> Nobody]
    /\ Log = [i \in Servers |-> <<Dummy(0)>>]
    /\ lastIncludedIndex = [i \in Servers |-> 0]
    /\ lastIncludedTerm = [i \in Servers |-> NoTerm]
    /\ snapshot = [i \in Servers |-> <<>>]
    /\ persister = [i \in Servers |-> RaftState(i)]
    /\ status = [i \in Servers |-> "Follower"]
    /\ votes = [i \in Servers |-> {}]
    /\ commitIndex = [i \in Servers |-> 0]
    /\ lastApplied = [i \in Servers |-> 0]
    /\ applySnapshot = [i \in Servers |-> FALSE]
    /\ nextIndex = [i \in Servers |-> [p \in Servers |-> 1]]
    /\ matchIndex = [i \in Servers |-> [p \in Servers |-> 0]]
    /\ isReplicating = [i \in Servers |-> [p \in Servers |-> FALSE]]
    /\ applyCh = [i \in Servers |-> <<>>]
    /\ applied = [i \in Servers |-> <<>>]
    /\ rvArgs = {} /\ rvReplies = {}
    /\ aeArgs = {} /\ aeReplies = {}
    /\ isArgs = {} /\ isReplies = {}

-----------------------------------------------------------------------------
(***************************************************************************)
(* Elections.                                                              *)
(***************************************************************************)

\* ticker() finds that a peer other than the leader has not heard for an
\* election timeout, and runs startElection().
startElection(i) ==
    /\ status[i] # "Leader"
    /\ Cardinality(Servers) > 1
    /\ status' = [status EXCEPT ![i] = "Candidate"]
    /\ CurrentTerm' = [CurrentTerm EXCEPT ![i] = @ + 1]
    /\ VotedFor' = [VotedFor EXCEPT ![i] = i]
    /\ votes' = [votes EXCEPT ![i] = {i}]
    /\ rvArgs' = rvArgs \cup
         {[Term |-> CurrentTerm[i] + 1, From |-> i, To |-> p,
           LastLogIndex |-> LastIndex(i), LastLogTerm |-> LastTerm(i)] : p \in Peers(i)}
    /\ UNCHANGED logVars
    /\ persist(i)
    /\ UNCHANGED <<commitIndex, leaderVars, isReplicating, applyVars, rvReplies,
                   aeVars, isVars>>

\* The vote that peer j has in the term of request m: none when m makes it
\* step down first.
VoteInTerm(j, m) == IF m.Term > CurrentTerm[j] THEN Nobody ELSE VotedFor[j]

\* Mutant of GrantsVote: an earlier vote in the term is not looked at.
GrantsVoteAgain(j, m) ==
    /\ m.Term >= CurrentTerm[j]
    /\ isLogUpToDate(Log[j], lastIncludedIndex[j], lastIncludedTerm[j],
                     m.LastLogIndex, m.LastLogTerm)

\* The condition under which RequestVote grants its vote.
GrantsVote(j, m) ==
    /\ m.Term >= CurrentTerm[j]
    /\ VoteInTerm(j, m) \in {Nobody, m.From}
    /\ isLogUpToDate(Log[j], lastIncludedIndex[j], lastIncludedTerm[j],
                     m.LastLogIndex, m.LastLogTerm)

\* The RequestVote handler at peer j.
RequestVote(j, m) ==
    /\ m.To = j
    /\ ~\E r \in rvReplies : r.From = j /\ r.To = m.From /\ r.Term = m.Term
    /\ LET newTerm == m.Term > CurrentTerm[j]
           granted == GrantsVote(j, m)
       IN  /\ IF newTerm
              THEN /\ CurrentTerm' = [CurrentTerm EXCEPT ![j] = m.Term]
                   /\ status' = [status EXCEPT ![j] = "Follower"]
                   /\ isReplicating' =
                        [isReplicating EXCEPT ![j] = [p \in Servers |-> FALSE]]
              ELSE UNCHANGED <<CurrentTerm, status, isReplicating>>
           /\ VotedFor' = [VotedFor EXCEPT ![j] =
                             IF granted THEN m.From ELSE VoteInTerm(j, m)]
           /\ UNCHANGED logVars
           /\ IF newTerm \/ granted THEN persist(j) ELSE UNCHANGED persister
           /\ rvReplies' = rvReplies \cup
                {[Term |-> m.Term, From |-> j, To |-> m.From,
                  ReplyTerm |-> CurrentTerm'[j], VoteGranted |-> granted]}
    /\ UNCHANGED <<votes, commitIndex, leaderVars, applyVars, rvArgs, aeVars, isVars>>

\* becomeLeader()
becomeLeader(i) ==
    /\ status' = [status EXCEPT ![i] = "Leader"]
    /\ nextIndex' = [nextIndex EXCEPT ![i] =
                       [p \in Servers |-> lastIncludedIndex[i] + Len(Log[i])]]
    /\ matchIndex' = [matchIndex EXCEPT ![i] =
                        [p \in Servers |-> lastIncludedIndex[i]]]

\* handleRequestVoteReply() for the reply r, past its first guard.
handleRequestVoteReply(i, r) ==
    /\ r.To = i
    /\ CurrentTerm[i] = r.Term
    /\ status[i] = "Candidate"
    /\ \/ /\ r.ReplyTerm > CurrentTerm[i]
          /\ stepDown(i, r.ReplyTerm)
          /\ UNCHANGED <<votes, leaderVars>>
       \/ /\ r.ReplyTerm <= CurrentTerm[i]
          /\ r.VoteGranted
          /\ r.From \notin votes[i]
          /\ votes' = [votes EXCEPT ![i] = @ \cup {r.From}]
          /\ IF IsMajority(votes'[i]) THEN becomeLeader(i)
             ELSE UNCHANGED <<status, leaderVars>>
          /\ UNCHANGED <<termVars, logVars, persister, isReplicating>>
    /\ UNCHANGED <<commitIndex, applyVars, rvVars, aeVars, isVars>>

-----------------------------------------------------------------------------
(***************************************************************************)
(* Log replication.                                                        *)
(***************************************************************************)

\* Start(command) at a leader.
Start(i, command) ==
    /\ status[i] = "Leader"
    /\ Log' = [Log EXCEPT ![i] =
                 Append(@, [Term |-> CurrentTerm[i], Command |-> command])]
    /\ UNCHANGED <<termVars, lastIncludedIndex, lastIncludedTerm, snapshot>>
    /\ persist(i)
    /\ UNCHANGED <<status, votes, commitIndex, leaderVars, isReplicating, applyVars,
                   rvVars, aeVars, isVars>>

\* heartbeatWorker(peer) when it sends AppendEntries.  It does so also to a
\* peer that needs a snapshot while isReplicating is set for it.
heartbeatWorker(i, p) ==
    LET next == nextIndex[i][p]
        physicalNext == toPhysicalIndex(lastIncludedIndex[i], next)
    IN  /\ status[i] = "Leader"
        /\ next > lastIncludedIndex[i] \/ isReplicating[i][p]
        /\ physicalNext \in 0 .. Len(Log[i])
        /\ aeArgs' = aeArgs \cup
             {[Term |-> CurrentTerm[i], From |-> i, To |-> p,
               PrevLogIndex |-> next - 1,
               PrevLogTerm |-> getPrevLogTerm(Log[i], lastIncludedIndex[i],
                                              lastIncludedTerm[i], next - 1),
               Entries |-> SubSeq(Log[i], physicalNext + 1, Len(Log[i])),
               LeaderCommit |-> commitIndex[i]]}
        /\ UNCHANGED <<termVars, logVars, persister, status, votes, commitIndex,
                       leaderVars, isReplicating, applyVars, rvVars, aeReplies, isVars>>

\* Mutant of FollowerCommitIndex: a delayed call takes it back.
FollowerCommitIndexBlind(j, leaderCommit, lastNewIndex) ==
    IF leaderCommit < lastNewIndex THEN leaderCommit ELSE lastNewIndex

\* updateFollowerCommitIndex()
FollowerCommitIndex(j, leaderCommit, lastNewIndex) ==
    IF leaderCommit > commitIndex[j]
    THEN IF leaderCommit < lastNewIndex THEN leaderCommit ELSE lastNewIndex
    ELSE commitIndex[j]

\* The reply to AppendEntries m.  Last stands for the arguments the reply
\* handler still needs: PrevLogIndex + len(Entries).
AppendEntriesReply(j, m, term, success, conflict) ==
    [Term |-> m.Term, From |-> j, To |-> m.From,
     Last |-> m.PrevLogIndex + Len(m.Entries),
     ReplyTerm |-> term, Success |-> success, Conflict |-> conflict]

\* The AppendEntries handler at peer j, for a request of an old term.
RejectAppendEntries(j, m) ==
    /\ m.To = j
    /\ m.Term < CurrentTerm[j]
    /\ aeReplies' = aeReplies \cup
         {AppendEntriesReply(j, m, CurrentTerm[j], FALSE, NoConflict)}
    /\ UNCHANGED <<termVars, logVars, persister, status, votes, commitIndex, leaderVars,
                   isReplicating, applyVars, rvVars, aeArgs, isVars>>

\* The AppendEntries handler at peer j, for a current or newer term.
AppendEntries(j, m) ==
    LET match == matchPrevLog(Log[j], lastIncludedIndex[j], lastIncludedTerm[j],
                              m.PrevLogIndex, m.PrevLogTerm)
    IN  /\ m.To = j
        /\ m.Term >= CurrentTerm[j]
        /\ IF m.Term > CurrentTerm[j] THEN BecomeFollower(j, m.Term)
           ELSE /\ status' = [status EXCEPT ![j] = "Follower"]
                /\ UNCHANGED <<termVars, isReplicating>>
        /\ IF match
           THEN /\ Log' = [Log EXCEPT ![j] =
                             AppendNew(@, lastIncludedIndex[j], m.PrevLogIndex, m.Entries)]
                /\ commitIndex' = [commitIndex EXCEPT ![j] =
                     FollowerCommitIndex(j, m.LeaderCommit,
                                         m.PrevLogIndex + Len(m.Entries))]
           ELSE UNCHANGED <<Log, commitIndex>>
        /\ UNCHANGED <<lastIncludedIndex, lastIncludedTerm, snapshot>>
        /\ IF match \/ m.Term > CurrentTerm[j] THEN persist(j) ELSE UNCHANGED persister
        /\ aeReplies' = aeReplies \cup
             {AppendEntriesReply(j, m, m.Term, match,
                IF match THEN NoConflict
                ELSE Conflict(Log[j], lastIncludedIndex[j], lastIncludedTerm[j],
                              m.PrevLogIndex))}
        /\ UNCHANGED <<votes, leaderVars, applyVars, rvVars, aeArgs, isVars>>

\* updateMatchAndNextIndex()
updateMatchAndNextIndex(i, p, newMatchIndex) ==
    /\ matchIndex' = [matchIndex EXCEPT ![i][p] =
                        IF newMatchIndex > @ THEN newMatchIndex ELSE @]
    /\ nextIndex' = [nextIndex EXCEPT ![i][p] = matchIndex'[i][p] + 1]

\* Mutant of Committable: entries of earlier terms are counted too.
CommittableAnyTerm(i, match) ==
    {n \in commitIndex[i] + 1 .. LastIndex(i) :
        IsMajority({i} \cup {p \in Peers(i) : match[p] >= n})}

\* The indices that updateLeaderCommitIndex() may commit: entries of the
\* leader's own term that a majority is known to hold.  match is matchIndex.
Committable(i, match) ==
    {n \in commitIndex[i] + 1 .. LastIndex(i) :
        /\ termAt(Log[i], lastIncludedIndex[i], n) = CurrentTerm[i]
        /\ IsMajority({i} \cup {p \in Peers(i) : match[p] >= n})}

\* updateLeaderCommitIndex()
LeaderCommitIndex(i, match) ==
    IF Committable(i, match) = {} THEN commitIndex[i]
    ELSE CHOOSE n \in Committable(i, match) : \A k \in Committable(i, match) : k <= n

\* handleSendAppendEntries() for the reply r, past its first guard.
handleSendAppendEntries(i, r) ==
    /\ r.To = i
    /\ status[i] = "Leader"
    /\ CurrentTerm[i] = r.Term
    /\ \/ /\ r.ReplyTerm > CurrentTerm[i]
          /\ stepDown(i, r.ReplyTerm)
          /\ UNCHANGED <<leaderVars, commitIndex>>
       \/ /\ r.ReplyTerm <= CurrentTerm[i]
          /\ IF r.Success
             THEN /\ updateMatchAndNextIndex(i, r.From, r.Last)
                  /\ commitIndex' = [commitIndex EXCEPT ![i] =
                                       LeaderCommitIndex(i, matchIndex'[i])]
             ELSE /\ nextIndex' = [nextIndex EXCEPT ![i][r.From] =
                       Backtrack(Log[i], lastIncludedIndex[i],
                                 lastIncludedTerm[i], r.Conflict)]
                  /\ UNCHANGED <<matchIndex, commitIndex>>
          /\ UNCHANGED <<termVars, logVars, persister, status, isReplicating>>
    /\ UNCHANGED <<votes, applyVars, rvVars, aeVars, isVars>>

-----------------------------------------------------------------------------
(***************************************************************************)
(* Snapshots.                                                              *)
(***************************************************************************)

\* The service has applied an index of SnapshotAt and calls Snapshot(index,
\* data) before it reads the next ApplyMsg.
Snapshot(i) ==
    LET index == Len(applied[i])
    IN  /\ index \in SnapshotAt
        /\ index > lastIncludedIndex[i]
        /\ Log' = [Log EXCEPT ![i] = CompactLog(@, lastIncludedIndex[i], index)]
        /\ lastIncludedTerm' = [lastIncludedTerm EXCEPT ![i] =
                CompactTerm(Log[i], lastIncludedIndex[i], @, index)]
        /\ lastIncludedIndex' = [lastIncludedIndex EXCEPT ![i] = index]
        /\ snapshot' = [snapshot EXCEPT ![i] = applied[i]]
        /\ UNCHANGED termVars
        /\ persist(i)
        /\ UNCHANGED <<status, votes, commitIndex, leaderVars, isReplicating, applyVars,
                       rvVars, aeVars, isVars>>

\* heartbeatWorker(peer) when the peer needs a snapshot: it sets
\* isReplicating and handleInstallSnapshot(peer) makes the call.  The lock is
\* given up twice on the way, so two workers may both find the flag down and
\* both call; here this is the first, workerExit and the second.
handleInstallSnapshot(i, p) ==
    /\ status[i] = "Leader"
    /\ nextIndex[i][p] <= lastIncludedIndex[i]
    /\ ~isReplicating[i][p]
    /\ isReplicating' = [isReplicating EXCEPT ![i][p] = TRUE]
    /\ isArgs' = isArgs \cup
         {[Term |-> CurrentTerm[i], From |-> i, To |-> p,
           LastIncludedIndex |-> lastIncludedIndex[i],
           LastIncludedTerm |-> lastIncludedTerm[i], Data |-> snapshot[i]]}
    /\ UNCHANGED <<termVars, logVars, persister, status, votes, commitIndex, leaderVars,
                   applyVars, rvVars, aeVars, isReplies>>

\* The deferred function of a heartbeatWorker that ends.  Workers start at
\* any time and end after any delay, so the flag may be cleared at any time.
workerExit(i, p) ==
    /\ isReplicating[i][p]
    /\ isReplicating' = [isReplicating EXCEPT ![i][p] = FALSE]
    /\ UNCHANGED <<termVars, logVars, persister, status, votes, commitIndex, leaderVars,
                   applyVars, rvVars, aeVars, isVars>>

\* The reply to InstallSnapshot m: the term is read before it is updated.
InstallSnapshotReply(j, m) ==
    [Term |-> m.Term, From |-> j, To |-> m.From, ReplyTerm |-> CurrentTerm[j],
     LastIncludedIndex |-> m.LastIncludedIndex]

\* The InstallSnapshot handler at peer j.
InstallSnapshot(j, m) ==
    /\ m.To = j
    /\ isReplies' = isReplies \cup {InstallSnapshotReply(j, m)}
    /\ IF m.Term < CurrentTerm[j]
       THEN UNCHANGED <<termVars, status, persister>>
       ELSE /\ CurrentTerm' = [CurrentTerm EXCEPT ![j] = m.Term]
            /\ VotedFor' = [VotedFor EXCEPT ![j] = Nobody]
            /\ status' = [status EXCEPT ![j] = "Follower"]
    /\ IF m.Term < CurrentTerm[j] \/ m.LastIncludedIndex <= lastIncludedIndex[j]
       THEN UNCHANGED <<logVars, commitIndex, lastApplied, applySnapshot>>
       ELSE /\ snapshot' = [snapshot EXCEPT ![j] = m.Data]
            /\ Log' = [Log EXCEPT ![j] = InstalledLog(@, lastIncludedIndex[j],
                                m.LastIncludedIndex, m.LastIncludedTerm)]
            /\ lastIncludedIndex' = [lastIncludedIndex EXCEPT ![j] = m.LastIncludedIndex]
            /\ lastIncludedTerm' = [lastIncludedTerm EXCEPT ![j] = m.LastIncludedTerm]
            /\ commitIndex' = [commitIndex EXCEPT ![j] =
                 IF @ < m.LastIncludedIndex THEN m.LastIncludedIndex ELSE @]
            /\ lastApplied' = [lastApplied EXCEPT ![j] =
                 IF @ < m.LastIncludedIndex THEN m.LastIncludedIndex ELSE @]
            /\ applySnapshot' = [applySnapshot EXCEPT ![j] = TRUE]
    /\ m.Term >= CurrentTerm[j] => persist(j)
    /\ UNCHANGED <<votes, leaderVars, isReplicating, applyCh, applied, rvVars, aeVars, isArgs>>

\* The end of handleInstallSnapshot() for the reply r, past its guard.
handleInstallSnapshotReply(i, r) ==
    /\ r.To = i
    /\ status[i] = "Leader"
    /\ CurrentTerm[i] = r.Term
    /\ IF r.ReplyTerm > CurrentTerm[i]
       THEN /\ stepDown(i, r.ReplyTerm)
            /\ UNCHANGED leaderVars
       ELSE /\ updateMatchAndNextIndex(i, r.From, r.LastIncludedIndex)
            /\ UNCHANGED <<termVars, logVars, persister, status, isReplicating>>
    /\ UNCHANGED <<votes, commitIndex, applyVars, rvVars, aeVars, isVars>>

-----------------------------------------------------------------------------
(***************************************************************************)
(* Applying committed entries, and the service behind applyCh.             *)
(***************************************************************************)

\* The ApplyMsgs for the indices lastApplied + 1 .. commitIndex, without
\* those whose physical index is outside the log.
EntriesToApply(i) ==
    LET low == IF lastApplied[i] < lastIncludedIndex[i] THEN lastIncludedIndex[i]
               ELSE lastApplied[i]
        high == IF commitIndex[i] > LastIndex(i) THEN LastIndex(i) ELSE commitIndex[i]
    IN  [k \in 1 .. high - low |->
            [CommandValid |-> TRUE, Index |-> low + k,
             Command |-> Log[i][toPhysicalIndex(lastIncludedIndex[i], low + k) + 1].Command,
             Snapshot |-> <<>>]]

\* Mutant of applyCommitted: an installed snapshot is not sent when
\* lastApplied has caught up with it.
applyCommittedNoSnapshot(i) ==
    /\ applyCh[i] = <<>>
    /\ commitIndex[i] > lastApplied[i]
    /\ lastApplied' = [lastApplied EXCEPT ![i] = commitIndex[i]]
    /\ applyCh' = [applyCh EXCEPT ![i] = EntriesToApply(i)]
    /\ UNCHANGED <<termVars, logVars, persister, status, votes, commitIndex, leaderVars,
                   isReplicating, applySnapshot, applied, rvVars, aeVars, isVars>>

\* One round of the loop of applyCommitted() under the lock.  The messages
\* it collects are sent afterwards, one by one, without the lock.
applyCommitted(i) ==
    /\ applyCh[i] = <<>>
    /\ commitIndex[i] > lastApplied[i] \/ applySnapshot[i]
    /\ IF lastApplied[i] < lastIncludedIndex[i] \/ applySnapshot[i]
       THEN /\ lastApplied' = [lastApplied EXCEPT ![i] = lastIncludedIndex[i]]
            /\ applySnapshot' = [applySnapshot EXCEPT ![i] = FALSE]
            /\ applyCh' = [applyCh EXCEPT ![i] =
                 <<[CommandValid |-> FALSE, Index |-> lastIncludedIndex[i],
                    Command |-> NoCommand, Snapshot |-> snapshot[i]]>>]
       ELSE /\ lastApplied' = [lastApplied EXCEPT ![i] = commitIndex[i]]
            /\ applyCh' = [applyCh EXCEPT ![i] = EntriesToApply(i)]
            /\ UNCHANGED applySnapshot
    /\ UNCHANGED <<termVars, logVars, persister, status, votes, commitIndex, leaderVars,
                   isReplicating, applied, rvVars, aeVars, isVars>>

\* The commands 1 .. index of the service after it applies command at index.
ApplyCommand(commands, index, command) ==
    [k \in 1 .. index |-> IF k = index THEN command
                          ELSE IF k <= Len(commands) THEN commands[k] ELSE NoCommand]

\* The service receives one ApplyMsg, as applierSnap() in config.go does:
\* a snapshot replaces its state, a command is applied at its index.
applierSnap(i) ==
    /\ applyCh[i] # <<>>
    /\ LET msg == Head(applyCh[i])
       IN  applied' = [applied EXCEPT ![i] =
                         IF msg.CommandValid THEN ApplyCommand(@, msg.Index, msg.Command)
                         ELSE msg.Snapshot]
    /\ applyCh' = [applyCh EXCEPT ![i] = Tail(@)]
    /\ UNCHANGED <<termVars, logVars, persister, status, votes, commitIndex, leaderVars,
                   isReplicating, lastApplied, applySnapshot, rvVars, aeVars, isVars>>

-----------------------------------------------------------------------------
(***************************************************************************)
(* Crash and restart: crash1() and start1() in config.go.  The persister   *)
(* is copied before the old instance is killed, so what Kill() saves goes  *)
(* to a superseded copy.  A crashed peer does nothing until it restarts,   *)
(* which to its peers is a peer that does not answer, so the two are one   *)
(* step.  Replies to the calls of the old instance do not reach the new    *)
(* one; their term is one in which the new instance is a follower, so the  *)
(* guards of the reply handlers discard them.                              *)
(***************************************************************************)
Restart(i) ==
    LET saved == persister[i]
    IN  /\ CurrentTerm' = [CurrentTerm EXCEPT ![i] = saved.CurrentTerm]
        /\ VotedFor' = [VotedFor EXCEPT ![i] = saved.VotedFor]
        /\ Log' = [Log EXCEPT ![i] = saved.Log]
        /\ lastIncludedIndex' = [lastIncludedIndex EXCEPT ![i] = saved.lastIncludedIndex]
        /\ lastIncludedTerm' = [lastIncludedTerm EXCEPT ![i] = saved.lastIncludedTerm]
        /\ snapshot' = [snapshot EXCEPT ![i] = saved.snapshot]
        /\ status' = [status EXCEPT ![i] = "Follower"]
        /\ votes' = [votes EXCEPT ![i] = {}]
        /\ commitIndex' = [commitIndex EXCEPT ![i] = saved.lastIncludedIndex]
        /\ lastApplied' = [lastApplied EXCEPT ![i] = saved.lastIncludedIndex]
        /\ applySnapshot' = [applySnapshot EXCEPT ![i] = FALSE]
        /\ nextIndex' = [nextIndex EXCEPT ![i] = [p \in Servers |-> 1]]
        /\ matchIndex' = [matchIndex EXCEPT ![i] = [p \in Servers |-> 0]]
        /\ isReplicating' = [isReplicating EXCEPT ![i] = [p \in Servers |-> FALSE]]
        /\ applyCh' = [applyCh EXCEPT ![i] = <<>>]
        /\ applied' = [applied EXCEPT ![i] = saved.snapshot]
        /\ UNCHANGED <<persister, rvVars, aeVars, isVars>>

-----------------------------------------------------------------------------
Election ==
    \/ \E i \in Servers : startElection(i)
    \/ \E m \in rvArgs : RequestVote(m.To, m)
    \/ \E r \in rvReplies : handleRequestVoteReply(r.To, r)

Replication ==
    \/ \E i \in Servers, command \in Commands : Start(i, command)
    \/ \E i \in Servers : \E p \in Peers(i) : heartbeatWorker(i, p)
    \/ \E m \in aeArgs : RejectAppendEntries(m.To, m)
    \/ \E m \in aeArgs : AppendEntries(m.To, m)
    \/ \E r \in aeReplies : handleSendAppendEntries(r.To, r)

Compaction ==
    \/ \E i \in Servers : Snapshot(i)
    \/ \E i \in Servers : \E p \in Peers(i) : handleInstallSnapshot(i, p)
    \/ \E i \in Servers : \E p \in Peers(i) : workerExit(i, p)
    \/ \E m \in isArgs : InstallSnapshot(m.To, m)
    \/ \E r \in isReplies : handleInstallSnapshotReply(r.To, r)

Apply ==
    \/ \E i \in Servers : applyCommitted(i)
    \/ \E i \in Servers : applierSnap(i)

Step == Election \/ Replication \/ Compaction \/ Apply

Next == Step \/ \E i \in Servers : Restart(i)

Spec == Init /\ [][Next]_vars

-----------------------------------------------------------------------------
(***************************************************************************)
(* Types.                                                                  *)
(***************************************************************************)
Entries == [Term : Int, Command : Commands \cup {NoCommand}]

States == Seq(Commands \cup {NoCommand})

RequestVoteArgs ==
    [Term : Nat, From : Servers, To : Servers, LastLogIndex : Int, LastLogTerm : Int]

RequestVoteReplies ==
    [Term : Nat, From : Servers, To : Servers, ReplyTerm : Nat, VoteGranted : BOOLEAN]

AppendEntriesArgs ==
    [Term : Nat, From : Servers, To : Servers, PrevLogIndex : Int, PrevLogTerm : Int,
     Entries : Seq(Entries), LeaderCommit : Int]

AppendEntriesReplies ==
    [Term : Nat, From : Servers, To : Servers, Last : Int, ReplyTerm : Nat,
     Success : BOOLEAN, Conflict : [XTerm : Int, XIndex : Int, XLen : Int]]

InstallSnapshotArgs ==
    [Term : Nat, From : Servers, To : Servers, LastIncludedIndex : Nat,
     LastIncludedTerm : Int, Data : States]

InstallSnapshotReplies ==
    [Term : Nat, From : Servers, To : Servers, ReplyTerm : Nat, LastIncludedIndex : Nat]

TermType ==
    /\ CurrentTerm \in [Servers -> Nat]
    /\ VotedFor \in [Servers -> Servers \cup {Nobody}]

LogType ==
    /\ Log \in [Servers -> Seq(Entries) \ {<<>>}]
    /\ lastIncludedIndex \in [Servers -> Nat]
    /\ lastIncludedTerm \in [Servers -> Int]
    /\ snapshot \in [Servers -> States]

SavedStates ==
    [CurrentTerm : Nat, VotedFor : Servers \cup {Nobody}, Log : Seq(Entries) \ {<<>>},
     lastIncludedIndex : Nat, lastIncludedTerm : Int, snapshot : States]

RoleType ==
    /\ status \in [Servers -> {"Leader", "Candidate", "Follower"}]
    /\ votes \in [Servers -> SUBSET Servers]
    /\ commitIndex \in [Servers -> Int]
    /\ isReplicating \in [Servers -> [Servers -> BOOLEAN]]

LeaderType ==
    /\ nextIndex \in [Servers -> [Servers -> Int]]
    /\ matchIndex \in [Servers -> [Servers -> Int]]

ApplyMsgs ==
    [CommandValid : BOOLEAN, Index : Int, Command : Commands \cup {NoCommand},
     Snapshot : States]

ApplyType ==
    /\ lastApplied \in [Servers -> Int]
    /\ applySnapshot \in [Servers -> BOOLEAN]
    /\ applyCh \in [Servers -> Seq(ApplyMsgs)]
    /\ applied \in [Servers -> States]

RequestVoteType == rvArgs \subseteq RequestVoteArgs /\ rvReplies \subseteq RequestVoteReplies

AppendEntriesType ==
    aeArgs \subseteq AppendEntriesArgs /\ aeReplies \subseteq AppendEntriesReplies

InstallSnapshotType ==
    isArgs \subseteq InstallSnapshotArgs /\ isReplies \subseteq InstallSnapshotReplies

\* Every variable has the type its Go declaration gives it, no index of a
\* snapshot is negative, and rf.Log always holds at least its dummy entry,
\* so that lastLogIndexTerm() and rf.Log[0] are always defined.
TypeOK ==
    /\ TermType /\ LogType /\ persister \in [Servers -> SavedStates]
    /\ RoleType /\ LeaderType /\ ApplyType
    /\ RequestVoteType /\ AppendEntriesType /\ InstallSnapshotType

-----------------------------------------------------------------------------
(***************************************************************************)
(* Correctness properties.                                                 *)
(***************************************************************************)

\* The terms in which i has acted as leader, now or in an earlier state: it
\* is the leader, or it has sent a call that only a leader sends.
LedTerms(i) ==
    {m.Term : m \in {a \in aeArgs : a.From = i}}
      \cup {m.Term : m \in {a \in isArgs : a.From = i}}
      \cup {t \in {CurrentTerm[i]} : status[i] = "Leader"}

\* No two peers ever act as leader in the same term, whatever elections,
\* crashes and delayed votes there were (checkOneLeader in config.go).
ElectionSafety ==
    \A i, j \in Servers : i # j => LedTerms(i) \cap LedTerms(j) = {}

\* Once a peer has voted in a term it keeps that vote for as long as it is
\* in the term, through restarts too (VotedFor, written by RequestVote,
\* startElection, stepDown, InstallSnapshot and readPersist).
VoteOnce ==
    [][\A i \in Servers :
         CurrentTerm'[i] = CurrentTerm[i] /\ VotedFor[i] # Nobody
           => VotedFor'[i] = VotedFor[i]]_vars

\* CurrentTerm never goes back, not even by a crash and restart.
TermMonotone == [][\A i \in Servers : CurrentTerm'[i] >= CurrentTerm[i]]_vars

\* Whatever has been changed in a step that gave up rf.mu is on disk: a
\* crash at any moment loses no term, vote, entry or snapshot.
Durable == \A i \in Servers : persister[i] = RaftState(i)

\* The logical indices whose entries peer i has in its log.
Indices(i) == lastIncludedIndex[i] + 1 .. LastIndex(i)

EntryAt(i, k) == Log[i][toPhysicalIndex(lastIncludedIndex[i], k) + 1]

\* Two logs with an entry of the same index and term agree on it and on
\* every earlier entry that both still hold, although matchPrevLog compares
\* one entry only.
LogMatching ==
    \A i, j \in Servers : \A k \in Indices(i) \cap Indices(j) :
        EntryAt(i, k).Term = EntryAt(j, k).Term
          => \A l \in Indices(i) \cap Indices(j) : l <= k => EntryAt(i, l) = EntryAt(j, l)

\* A leader holds, or has compacted, every entry that a peer which is not
\* ahead of it in term knows to be committed: what updateLeaderCommitIndex
\* counts and what isLogUpToDate refuses fit together.
LeaderCompleteness ==
    \A i, j \in Servers :
        status[i] = "Leader" /\ CurrentTerm[j] <= CurrentTerm[i]
          => /\ commitIndex[j] <= LastIndex(i)
             /\ \A k \in Indices(i) \cap Indices(j) :
                    k <= commitIndex[j] => EntryAt(i, k) = EntryAt(j, k)

\* A rejected probe is never repeated: if a peer in the leader's term does
\* not accept an AppendEntries call that is under way, its conflict takes
\* nextIndex below the index that was probed, and not below 1.  So the
\* "walking back" of handleSendAppendEntries finds the place where the logs
\* match after finitely many rejections, whatever logs earlier leaders left.
ProbesWalkBack ==
    \A m \in aeArgs :
        LET i == m.From
            j == m.To
        IN  /\ status[i] = "Leader" /\ CurrentTerm[i] = m.Term /\ CurrentTerm[j] = m.Term
            /\ ~matchPrevLog(Log[j], lastIncludedIndex[j], lastIncludedTerm[j],
                             m.PrevLogIndex, m.PrevLogTerm)
            => Backtrack(Log[i], lastIncludedIndex[i], lastIncludedTerm[i],
                         Conflict(Log[j], lastIncludedIndex[j], lastIncludedTerm[j],
                                  m.PrevLogIndex)) \in 1 .. m.PrevLogIndex

\* No two services have applied different commands at the same index
\* (checkLogs in config.go), with commands and snapshots in any order.
StateMachineSafety ==
    \A i, j \in Servers : \A k \in DOMAIN applied[i] \cap DOMAIN applied[j] :
        applied[i][k] = applied[j][k]

\* applyCommitted() hands the service each command right after the one
\* before it, although it sends without the lock, while InstallSnapshot and
\* Snapshot change the log under it (applierSnap in config.go fails on a
\* command that is out of order).
ApplyInOrder ==
    \A i \in Servers :
        applyCh[i] # <<>> /\ Head(applyCh[i]).CommandValid
          => Head(applyCh[i]).Index = Len(applied[i]) + 1

\* commitIndex only falls by a restart: a delayed AppendEntries does not
\* take it back.
CommitMonotone ==
    [][\A i \in Servers : commitIndex'[i] < commitIndex[i] => Restart(i)]_vars

\* An entry that a peer knows to be committed is never truncated or
\* overwritten in its log by AppendEntries, InstallSnapshot or a restart;
\* it stays until a snapshot covers it.
CommittedStable ==
    [][\A i \in Servers : \A k \in Indices(i) :
         k <= commitIndex[i] /\ k > lastIncludedIndex'[i]
           => k \in Indices(i)' /\ EntryAt(i, k)' = EntryAt(i, k)]_vars
=============================================================================
