---------------------------- MODULE RaftTheorems ----------------------------
(***************************************************************************)
(* SafetyInv is an invariant of Raft when the service takes no snapshots,  *)
(* and with it the safety properties of the logs, the commits and the      *)
(* services: the steps of RaftSafetyProofs, put together with the election *)
(* invariant of RaftProofs.                                                *)
(***************************************************************************)
EXTENDS RaftSafetyProofs, RaftProofs

\* The facts of sets that the steps rest on.
LEMMA SetFactsHold == SetFacts
BY Zenon, MajoritiesIntersect, LeastExists, GreatestExists DEF SetFacts

\* Every step keeps the invariant.
LEMMA NextSafetyInv ==
    ASSUME SnapshotAt = {}, SafetyInv, [Next]_vars
    PROVE  SafetyInv'
<1>1. ElectionInv /\ ElectionInv' /\ TypeOK /\ Durable /\ NoSnapshots /\ TypeOK'
  <2>1. ElectionInv
    BY Zenon DEF SafetyInv
  <2>2. ElectionInv'
    BY Zenon, <2>1, NextElectionInv
  <2> QED
    BY Zenon, <2>1, <2>2 DEF ElectionInv
<1>2. PICK T \in LeaderLogs, W \in Leaderships : History(T, W)
  BY Zenon DEF SafetyInv
<1>3. TermsRise /\ SetFacts
  BY Zenon, <1>1, TermKeptByStep, SetFactsHold DEF TermsRise
<1>4. SUFFICES \E T2 \in LeaderLogs, W2 \in Leaderships : History(T2, W2)'
  BY Zenon, <1>1 DEF SafetyInv
<1>5. CASE Election
  BY Zenon, <1>1, <1>2, <1>3, <1>5, StartElectionSafe, RequestVoteSafe, HandleRequestVoteReplySafe
     DEF Election
<1>6. CASE Replication
  <2>1. ASSUME NEW i \in Servers, NEW command \in Commands, Start(i, command)
        PROVE  \E T2 \in LeaderLogs, W2 \in Leaderships : History(T2, W2)'
    BY Zenon, <1>1, <1>2, <1>3, <2>1, StartSafe
  <2>2. ASSUME NEW i \in Servers, NEW p \in Peers(i), heartbeatWorker(i, p) PROVE History(T, W)'
    BY Zenon, <1>1, <1>2, <1>3, <2>2, HeartbeatWorkerSafe
  <2>3. ASSUME NEW m \in aeArgs, RejectAppendEntries(m.To, m) PROVE History(T, W)'
    BY Zenon, <1>1, <1>2, <1>3, <2>3, RejectAppendEntriesSafe
  <2>4. ASSUME NEW m \in aeArgs, AppendEntries(m.To, m) PROVE History(T, W)'
    BY Zenon, <1>1, <1>2, <1>3, <2>4, AppendEntriesSafe
  <2>5. ASSUME NEW r \in aeReplies, handleSendAppendEntries(r.To, r) PROVE History(T, W)'
    BY Zenon, <1>1, <1>2, <1>3, <2>5, HandleSendAppendEntriesSafe
  <2> QED
    BY Zenon, <1>6, <2>1, <2>2, <2>3, <2>4, <2>5 DEF Replication
<1>7. CASE Compaction
  BY Zenon, <1>1, <1>2, <1>3, <1>7, CompactionIsWorkerExit, WorkerExitSafe
<1>8. CASE Apply
  BY Zenon, <1>1, <1>2, <1>3, <1>8, ApplyCommittedSafe, ApplierSnapSafe DEF Apply
<1>9. ASSUME NEW i \in Servers, Restart(i) PROVE History(T, W)'
  <2>1. UNCHANGED <<termVars, logVars>>
    BY Zenon, <1>1, <1>9, RestartRestores
  <2> QED
    BY Zenon, <1>1, <1>2, <1>3, <1>9, <2>1, RestartSafe
<1>10. CASE UNCHANGED vars
  <2>1. /\ CurrentTerm' = CurrentTerm /\ Log' = Log /\ snapshot' = snapshot /\ status' = status
        /\ matchIndex' = matchIndex /\ commitIndex' = commitIndex /\ applyVars' = applyVars
        /\ rvVars' = rvVars /\ aeArgs' = aeArgs /\ aeReplies' = aeReplies
    BY Zenon, <1>10 DEF vars, termVars, logVars, aeVars, leaderVars
  <2>2. RolesKept /\ NoNewAcks
    BY Zenon, <2>1 DEF RolesKept, NoNewAcks
  <2>3. History(T, W)'
    BY Zenon, <1>1, <1>2, <1>3, <2>1, <2>2, QuietStep
  <2> QED
    BY Zenon, <2>3
<1> QED
  BY Zenon, <1>5, <1>6, <1>7, <1>8, <1>9, <1>10 DEF Next, Step

\* From a conflict whose term the leader has only before prev, or not at all,
\* the leader goes back below prev.
LEMMA BacktrackBelow ==
    ASSUME NEW M, Len(M) \in Nat, NEW prev \in Int, NEW x \in Nat, NEW f \in 1 .. prev,
           \A p \in 1 .. Len(M) - 1 : termAtPhysical(M, p) = x => p < prev,
           NEW c, c = [XTerm |-> x, XIndex |-> f, XLen |-> 0]
    PROVE  Backtrack(M, 0, NoTerm, c) \in 1 .. prev
<1> DEFINE hits == {p \in 1 .. Len(M) - 1 : termAtPhysical(M, p) = x}
           last == CHOOSE p \in hits : \A q \in hits : q <= p
<1>1. hits \in SUBSET Int /\ \A p \in hits : p >= 1 /\ p <= Len(M) - 1 /\ p < prev
  OBVIOUS
<1>2. hits # {} => last \in Int /\ last >= 1 /\ last < prev
  <2> HIDE DEF hits
  <2>1. Len(M) - 1 \in Int
    OBVIOUS
  <2>2. hits # {} => \E p \in hits : \A q \in hits : q <= p
    BY Zenon, <1>1, <2>1, GreatestExists
  <2> QED
    BY Zenon, <1>1, <2>2
<1>3. findLastIndexOfTerm(M, 0, NoTerm, x)
        = IF hits # {} THEN 0 + last ELSE IF x = NoTerm THEN 0 ELSE -1
  BY Zenon DEF findLastIndexOfTerm
<1> HIDE DEF last, hits
<1>4. x # NoTerm
  BY DEF NoTerm
<1>5. c.XLen = 0 /\ c.XTerm = x /\ c.XIndex = f
  BY Zenon
<1>6. Backtrack(M, 0, NoTerm, c)
        = LET l == findLastIndexOfTerm(M, 0, NoTerm, x) IN IF l = -1 THEN f ELSE l + 1
  BY Zenon, <1>5 DEF Backtrack
<1> QED
  BY <1>2, <1>3, <1>4, <1>6

\* Were the leader's last entry of the conflicting term at or behind
\* PrevLogIndex, the logs would match there.
LEMMA SafetyInvProbesWalkBack == SafetyInv => ProbesWalkBack
<1> SUFFICES ASSUME SafetyInv, NEW m \in aeArgs, status[m.From] = "Leader",
                    CurrentTerm[m.From] = m.Term, CurrentTerm[m.To] = m.Term,
                    ~matchPrevLog(Log[m.To], lastIncludedIndex[m.To], lastIncludedTerm[m.To],
                                  m.PrevLogIndex, m.PrevLogTerm)
             PROVE  Backtrack(Log[m.From], lastIncludedIndex[m.From], lastIncludedTerm[m.From],
                              Conflict(Log[m.To], lastIncludedIndex[m.To],
                                       lastIncludedTerm[m.To], m.PrevLogIndex))
                      \in 1 .. m.PrevLogIndex
  BY Zenon DEF ProbesWalkBack
<1>1. PICK T \in LeaderLogs, W \in Leaderships : History(T, W)
  BY Zenon DEF SafetyInv
<1>2. TypeOK /\ AppendEntriesType /\ NoSnapshots
  BY Zenon DEF SafetyInv, ElectionInv, TypeOK
<1>3. /\ m.Term \in Nat /\ m.To \in Servers /\ m.From \in Servers /\ m.PrevLogIndex \in Int
      /\ Len(m.Entries) \in Nat
  BY Zenon, <1>2, AppendEntriesArgsFacts
<1>4. /\ m.PrevLogIndex >= 0
      /\ \A i \in Servers : lastIncludedIndex[i] = 0 /\ lastIncludedTerm[i] = NoTerm
  BY Zenon, <1>2 DEF NoSnapshots
<1>0. PICK x : x = m.PrevLogTerm
  BY Zenon
<1>5. PICK prev \in Nat, d \in Nat : prev = m.PrevLogIndex /\ d = Len(m.Entries)
  <2>1. m.PrevLogIndex \in Nat
    BY <1>3, <1>4
  <2> QED
    BY Zenon, <1>3, <2>1
<1>6. PICK L \in Seq(Entries) \ {<<>>}, M \in Seq(Entries) \ {<<>>} : L = Log[m.To] /\ M = Log[m.From]
  BY Zenon, <1>2, <1>3, LogFacts
<1>7. Len(L) \in Nat /\ Len(L) >= 1 /\ Len(M) \in Nat /\ Len(M) >= 1
  BY Zenon, <1>2, <1>3, <1>6, LogFacts
<1>8. T[m.Term] = M
  BY Zenon, <1>1, <1>3, <1>6 DEF History, LeadersRecorded
<1>9. /\ prev + d + 1 <= Len(M)
      /\ x = IF prev = 0 THEN NoTerm ELSE M[prev + 1].Term
  BY Zenon, <1>0, <1>1, <1>5, <1>8 DEF History, CallsCarryLogs, Carries
<1>10. ~matchPrevLog(L, 0, NoTerm, prev, x)
  BY Zenon, <1>0, <1>3, <1>4, <1>5, <1>6
<1>11. PICK c : c = Conflict(L, 0, NoTerm, prev)
  BY Zenon
<1>12. Backtrack(M, 0, NoTerm, c) \in 1 .. prev
  <2>1. prev # 0
    BY <1>7, <1>9, <1>10 DEF matchPrevLog, lastLogIndex
  <2>2. CASE prev > Len(L) - 1
    <3>1. c = [XTerm |-> 0, XIndex |-> 0, XLen |-> Len(L)]
      BY <1>7, <1>11, <2>2 DEF Conflict, lastLogIndex
    <3>2. Backtrack(M, 0, NoTerm, c) = Len(L)
      BY <1>7, <3>1 DEF Backtrack
    <3> QED
      BY <1>7, <2>2, <3>2
  <2>3. CASE prev <= Len(L) - 1
    <3>1. PICK y, f : y = L[prev + 1].Term /\ f = FirstIndexOfRun(L, 0, prev)
      BY Zenon
    <3>2. termAt(L, 0, prev) = y
      BY <1>7, <2>3, <3>1 DEF termAt, termAtPhysical, toPhysicalIndex
    <3>3. c = [XTerm |-> y, XIndex |-> f, XLen |-> 0]
      <4>1. ~(prev > lastLogIndex(L, 0))
        BY <1>7, <2>3 DEF lastLogIndex
      <4> QED
        BY Zenon, <1>11, <2>1, <3>1, <3>2, <4>1 DEF Conflict
    <3>4. f \in 1 .. prev
      <4>1. prev > 0 /\ prev \in Int /\ 0 \in Int /\ 0 + 1 = 1
        BY <2>1
      <4> QED
        BY Zenon, <3>1, <4>1, FirstIndexOfRunType
    <3>5. prev + 1 \in 2 .. Len(L) /\ prev + 1 \in 1 .. prev + 1
      BY <1>7, <2>1, <2>3
    <3>6. Has(L, prev + 1, y)
      BY Zenon, <3>1, <3>5 DEF Has
    <3>7. y \in Nat /\ Agree(L, T[y], prev + 1)
      BY Zenon, <1>1, <1>3, <1>6, <3>6, BackedEntry DEF History, LogsBacked
    <3>8. y # x
      BY <1>7, <1>10, <2>1, <2>3, <3>2 DEF matchPrevLog, lastLogIndex
    <3>9. ASSUME NEW p \in 1 .. Len(M) - 1, termAtPhysical(M, p) = y PROVE p < prev
      <4>1. SUFFICES ASSUME prev <= p PROVE FALSE
        <5>1. p \in Int
          OBVIOUS
        <5> QED
          BY <4>1, <5>1
      <4>2. M[p + 1].Term = y /\ p + 1 \in 2 .. Len(M) /\ prev + 1 \in 1 .. p + 1
        BY <1>7, <2>1, <3>9, <4>1 DEF termAtPhysical
      <4>3. Has(M, p + 1, y)
        BY Zenon, <4>2 DEF Has
      <4>4. Agree(M, T[y], p + 1)
        BY Zenon, <1>1, <1>3, <1>6, <4>3, BackedEntry DEF History, LogsBacked
      <4>5. M[prev + 1] = T[y][prev + 1] /\ L[prev + 1] = T[y][prev + 1]
        BY Zenon, <3>5, <3>7, <4>2, <4>4 DEF Agree
      <4>6. x = M[prev + 1].Term
        BY Zenon, <1>9, <2>1
      <4> QED
        BY Zenon, <3>1, <3>8, <4>5, <4>6
    <3>10. prev \in Int
      OBVIOUS
    <3> QED
      BY Zenon, <1>7, <3>3, <3>4, <3>7, <3>9, <3>10, BacktrackBelow
  <2>4. prev > Len(L) - 1 \/ prev <= Len(L) - 1
    BY <1>7
  <2> QED
    BY Zenon, <2>2, <2>3, <2>4
<1> QED
  BY Zenon, <1>3, <1>4, <1>5, <1>6, <1>11, <1>12

\* No step truncates, overwrites or takes back what a peer knows to be
\* committed.
LEMMA CommittedKeptByStep ==
    ASSUME SnapshotAt = {}, SafetyInv, [Next]_vars, NEW k \in Servers
    PROVE  KeepsCommitted(k)
<1>1. PICK T \in LeaderLogs, W \in Leaderships : History(T, W)
  BY Zenon DEF SafetyInv
<1>2. ElectionInv /\ TypeOK /\ Durable /\ NoSnapshots
  BY Zenon DEF SafetyInv, ElectionInv
<1>3. CASE Log' = Log /\ commitIndex' = commitIndex
  BY Zenon, <1>1, <1>2, <1>3, KeptUnchanged
<1>4. CASE Election
  <2>1. Log' = Log /\ commitIndex' = commitIndex
    <3>1. ASSUME NEW i \in Servers, startElection(i) PROVE Log' = Log /\ commitIndex' = commitIndex
      BY Zenon, <3>1 DEF startElection, logVars
    <3>2. ASSUME NEW m \in rvArgs, RequestVote(m.To, m) PROVE Log' = Log /\ commitIndex' = commitIndex
      BY Zenon, <3>2 DEF RequestVote, logVars
    <3>3. ASSUME NEW r \in rvReplies, handleRequestVoteReply(r.To, r)
          PROVE  Log' = Log /\ commitIndex' = commitIndex
      BY Zenon, <3>3 DEF handleRequestVoteReply, stepDown, logVars
    <3> QED
      BY Zenon, <1>4, <3>1, <3>2, <3>3 DEF Election
  <2> QED
    BY Zenon, <1>3, <2>1
<1>5. CASE Replication
  <2>1. ASSUME NEW i \in Servers, NEW p \in Peers(i), heartbeatWorker(i, p)
        PROVE  Log' = Log /\ commitIndex' = commitIndex
    BY Zenon, <2>1 DEF heartbeatWorker, logVars
  <2>2. ASSUME NEW m \in aeArgs, RejectAppendEntries(m.To, m)
        PROVE  Log' = Log /\ commitIndex' = commitIndex
    BY Zenon, <2>2 DEF RejectAppendEntries, logVars
  <2> QED
    BY Zenon, <1>1, <1>2, <1>3, <1>5, <2>1, <2>2, StartKeeps, AppendEntriesKeeps,
       HandleSendAppendEntriesKeeps, SetFactsHold DEF Replication
<1>6. CASE Compaction
  <2>1. PICK i \in Servers : \E p \in Peers(i) : workerExit(i, p)
    BY Zenon, <1>2, <1>6, CompactionIsWorkerExit
  <2>2. Log' = Log /\ commitIndex' = commitIndex
    BY Zenon, <2>1 DEF workerExit, logVars
  <2> QED
    BY Zenon, <1>3, <2>2
<1>7. CASE Apply
  <2>1. Log' = Log /\ commitIndex' = commitIndex
    BY Zenon, <1>7 DEF Apply, applyCommitted, applierSnap, logVars
  <2> QED
    BY Zenon, <1>3, <2>1
<1>8. ASSUME NEW i \in Servers, Restart(i) PROVE KeepsCommitted(k)
  <2>1. Log' = Log
    BY Zenon, <1>2, <1>8, RestartRestores DEF logVars
  <2>2. CASE k = i
    BY Zenon, <1>1, <1>2, <1>8, <2>1, <2>2, CommittedInLog DEF KeepsCommitted
  <2>3. CASE k # i
    <3>1. commitIndex \in [Servers -> Int]
      BY Zenon, <1>2 DEF TypeOK, RoleType
    <3>2. commitIndex'[k] = commitIndex[k]
      BY Zenon, <1>8, <2>3, <3>1 DEF Restart
    <3> QED
      BY Zenon, <1>1, <1>2, <2>1, <3>2, KeptUnchanged
  <2> QED
    BY Zenon, <2>2, <2>3
<1>9. CASE UNCHANGED vars
  BY Zenon, <1>3, <1>9 DEF vars, logVars
<1> QED
  BY Zenon, <1>4, <1>5, <1>6, <1>7, <1>8, <1>9 DEF Next, Step

\* Only a restart lowers a commit index.
LEMMA CommitMonotoneStep ==
    ASSUME SnapshotAt = {}, SafetyInv, [Next]_vars
    PROVE  \A i \in Servers : commitIndex'[i] < commitIndex[i] => Restart(i)
<1> SUFFICES ASSUME NEW i \in Servers, commitIndex'[i] < commitIndex[i] PROVE Restart(i)
  BY Zenon
<1>1. SafetyInv'
  BY Zenon, NextSafetyInv
<1>2. commitIndex[i] \in Int /\ commitIndex'[i] \in Int
  BY Zenon, <1>1 DEF SafetyInv, ElectionInv, TypeOK, RoleType
<1>3. ~(commitIndex'[i] >= commitIndex[i])
  BY <1>2
<1> QED
  BY Zenon, <1>3, CommittedKeptByStep DEF KeepsCommitted

\* A committed entry keeps its index and its value.
LEMMA CommittedStableStep ==
    ASSUME SnapshotAt = {}, SafetyInv, [Next]_vars
    PROVE  \A i \in Servers : \A k \in Indices(i) :
              k <= commitIndex[i] /\ k > lastIncludedIndex'[i]
                => k \in Indices(i)' /\ EntryAt(i, k)' = EntryAt(i, k)
<1> SUFFICES ASSUME NEW i \in Servers, NEW k \in Indices(i), k <= commitIndex[i]
             PROVE  k \in Indices(i)' /\ EntryAt(i, k)' = EntryAt(i, k)
  BY Zenon
<1>1. ElectionInv /\ ElectionInv'
  BY Zenon, NextSafetyInv DEF SafetyInv
<1>2. k \in Int /\ 1 <= k /\ EntryAt(i, k) = Log[i][k + 1]
  BY Zenon, <1>1, IndexFacts
<1>3. PICK c \in Nat : c = commitIndex[i]
  <2>1. PICK T \in LeaderLogs, W \in Leaderships : History(T, W)
    BY Zenon DEF SafetyInv
  <2> QED
    BY Zenon, <1>1, <2>1, CommittedInLog
<1>4. PICK N : N = Log'[i]
  BY Zenon
<1>5. c + 1 <= Len(N) /\ \A q \in 1 .. c + 1 : N[q] = Log[i][q]
  BY Zenon, <1>3, <1>4, CommittedKeptByStep DEF KeepsCommitted, Agree
<1>6. Len(N) \in Nat
  BY Zenon, <1>1, <1>4, SeqFacts DEF ElectionInv, TypeOK, LogType
<1>7. k + 1 \in 1 .. c + 1 /\ k \in 1 .. Len(N) - 1
  BY <1>2, <1>3, <1>5, <1>6
<1>8. Indices(i)' = 1 .. Len(N) - 1 /\ \A q \in Indices(i)' : EntryAt(i, q)' = N[q + 1]
  <2>1. lastIncludedIndex'[i] = 0
    BY Zenon, <1>1 DEF ElectionInv, NoSnapshots
  <2>2. PICK n \in Nat : n = Len(N)
    BY Zenon, <1>6
  <2>3. LastIndex(i)' = n - 1
    BY <1>4, <2>1, <2>2 DEF LastIndex, lastLogIndex
  <2>4. Indices(i)' = 1 .. n - 1
    BY <2>1, <2>3 DEF Indices
  <2>5. \A q \in 1 .. n - 1 : toPhysicalIndex(0, q) = q
    BY DEF toPhysicalIndex
  <2>6. \A q \in 1 .. n - 1 : EntryAt(i, q)' = N[q + 1]
    BY Zenon, <1>4, <2>1, <2>5 DEF EntryAt
  <2> QED
    BY Zenon, <2>2, <2>4, <2>6
<1> QED
  BY Zenon, <1>2, <1>5, <1>7, <1>8

-----------------------------------------------------------------------------
(***************************************************************************)
(* The theorems, for any set of servers, any bounds and any messages lost, *)
(* delayed, duplicated or reordered, when the service takes no snapshots.  *)
(***************************************************************************)

\* Some history of the leaders and their logs fits every reachable state.
THEOREM SafetyInvariant == ASSUME SnapshotAt = {} PROVE Spec => []SafetyInv
<1>1. Init => SafetyInv
  BY Zenon, InitElectionInv, InitSafetyInv
<1>2. SafetyInv /\ [Next]_vars => SafetyInv'
  BY Zenon, NextSafetyInv
<1> QED
  BY <1>1, <1>2, PTL DEF Spec

\* Two logs that have an entry of the same term at an index are the same up
\* to it, whatever AppendEntries truncated and overwrote.
THEOREM LogsMatch == ASSUME SnapshotAt = {} PROVE Spec => []LogMatching
<1>1. SafetyInv => LogMatching
  BY Zenon, SafetyInvLogMatching
<1> QED
  BY <1>1, SafetyInvariant, PTL

\* A leader has every entry that a peer knew to be committed in an earlier
\* term: the vote of RequestVote and the rule of updateLeaderCommitIndex that
\* only entries of the leader's own term are counted together guarantee it.
THEOREM LeadersComplete == ASSUME SnapshotAt = {} PROVE Spec => []LeaderCompleteness
<1>1. SafetyInv => LeaderCompleteness
  BY Zenon, SafetyInvLeaderCompleteness
<1> QED
  BY <1>1, SafetyInvariant, PTL

\* No two services apply different commands at an index, across restarts and
\* changes of leader.
THEOREM StateMachinesAgree == ASSUME SnapshotAt = {} PROVE Spec => []StateMachineSafety
<1>1. SafetyInv => StateMachineSafety
  BY Zenon, SafetyInvStateMachineSafety
<1> QED
  BY <1>1, SafetyInvariant, PTL

\* The ApplyMsg that the service reads next from applyCh is the one of the
\* index after the last it applied.
THEOREM AppliesInOrder == ASSUME SnapshotAt = {} PROVE Spec => []ApplyInOrder
<1>1. SafetyInv => ApplyInOrder
  BY Zenon, SafetyInvApplyInOrder
<1> QED
  BY <1>1, SafetyInvariant, PTL

\* A peer that refuses a leader's AppendEntries answers with a conflict from
\* which handleSendAppendEntries computes an earlier, valid nextIndex: the
\* search for the common prefix makes progress with every refusal.
THEOREM ProbesGoBack == ASSUME SnapshotAt = {} PROVE Spec => []ProbesWalkBack
<1>1. SafetyInv => ProbesWalkBack
  BY Zenon, SafetyInvProbesWalkBack
<1> QED
  BY <1>1, SafetyInvariant, PTL

\* A commit index goes back only in a restart.
THEOREM CommitsRise == ASSUME SnapshotAt = {} PROVE Spec => CommitMonotone
<1>1. SafetyInv /\ [Next]_vars
        => [\A i \in Servers : commitIndex'[i] < commitIndex[i] => Restart(i)]_vars
  BY Zenon, CommitMonotoneStep
<1> QED
  BY <1>1, SafetyInvariant, PTL DEF Spec, CommitMonotone

\* No step truncates or overwrites an entry that the peer knows to be
\* committed.
THEOREM CommittedEntriesStay == ASSUME SnapshotAt = {} PROVE Spec => CommittedStable
<1>1. SafetyInv /\ [Next]_vars
        => [\A i \in Servers : \A k \in Indices(i) :
              k <= commitIndex[i] /\ k > lastIncludedIndex'[i]
                => k \in Indices(i)' /\ EntryAt(i, k)' = EntryAt(i, k)]_vars
  BY Zenon, CommittedStableStep
<1> QED
  BY <1>1, SafetyInvariant, PTL DEF Spec, CommittedStable

=============================================================================
