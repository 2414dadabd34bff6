----------------------------- MODULE RaftSafety -----------------------------
(***************************************************************************)
(* Why committed entries are never lost, when the service takes no         *)
(* snapshots: the invariant behind LogMatching, LeaderCompleteness and     *)
(* StateMachineSafety of Raft.                                             *)
(*                                                                         *)
(* A log that a leader had may be gone from every peer when its entries    *)
(* are spoken of, so the invariant speaks of a history: W[t] is the leader *)
(* that term t had, or Nobody, and T[t] is the log it had while in office, *)
(* as long as it ever was.  What is asserted is that some such history     *)
(* fits the state.                                                         *)
(*                                                                         *)
(* Positions in a log are TLA+ positions: the dummy is at 1, the entry of  *)
(* index k at k + 1.                                                       *)
(***************************************************************************)
EXTENDS RaftElection

Leaderships == [Nat -> Servers \cup {Nobody}]

LeaderLogs == [Nat -> Seq(Entries) \ {<<>>}]

-----------------------------------------------------------------------------
(***************************************************************************)
(* Logs.                                                                   *)
(***************************************************************************)

\* Log L has an entry of term t at position p.
Has(L, p, t) == p \in 2 .. Len(L) /\ L[p].Term = t

\* Logs L and M are the same up to position p.
Agree(L, M, p) ==
    p <= Len(L) /\ p <= Len(M) /\ \A q \in 1 .. p : L[q] = M[q]

\* Every entry of L comes from the leader of its term, together with all
\* that precedes it.
Backed(L, T, W) ==
    /\ L[1] = Dummy(0)
    /\ \A p \in 2 .. Len(L) :
         /\ L[p].Term \in Nat /\ W[L[p].Term] # Nobody
         /\ Agree(L, T[L[p].Term], p)

\* L has no entry of a term after t.
NotAfter(L, t) == \A p \in 2 .. Len(L) : L[p].Term <= t

LogsBacked(T, W) ==
    /\ \A t \in Nat : Backed(T[t], T, W) /\ NotAfter(T[t], t)
    /\ \A i \in Servers : Backed(Log[i], T, W) /\ NotAfter(Log[i], CurrentTerm[i])

-----------------------------------------------------------------------------
(***************************************************************************)
(* Leaders, their calls and the replies to them.                           *)
(***************************************************************************)

\* W[t] won the election of term t and does not stand in it again; T follows
\* the log of a leader in office.
LeadersRecorded(T, W) ==
    /\ W[0] = Nobody
    /\ \A t \in Nat :
         W[t] # Nobody
           => /\ Elected(W[t], t) /\ t <= CurrentTerm[W[t]]
              /\ t = CurrentTerm[W[t]] => status[W[t]] # "Candidate"
    /\ \A i \in Servers :
         /\ status[i] # "Follower" => CurrentTerm[i] >= 1
         /\ status[i] = "Leader" => W[CurrentTerm[i]] = i /\ T[CurrentTerm[i]] = Log[i]

\* What an AppendEntries call says of the log M of the leader that made it.
Carries(m, M) ==
    /\ m.PrevLogIndex + Len(m.Entries) + 1 <= Len(M)
    /\ \A k \in 1 .. Len(m.Entries) : m.Entries[k] = M[m.PrevLogIndex + 1 + k]
    /\ m.PrevLogTerm = IF m.PrevLogIndex = 0 THEN NoTerm ELSE M[m.PrevLogIndex + 1].Term
    /\ m.LeaderCommit <= m.PrevLogIndex + Len(m.Entries)

CallsCarryLogs(T, W) ==
    \A m \in aeArgs : W[m.Term] = m.From /\ m.To # m.From /\ Carries(m, T[m.Term])

\* A successful reply answers a call of the term's leader.
RepliesAnswer(T, W) ==
    \A r \in aeReplies :
        r.Success => /\ W[r.Term] = r.To /\ r.From # r.To /\ r.Term <= CurrentTerm[r.From]
                     /\ r.Last + 1 <= Len(T[r.Term])

\* Every vote was asked for, a candidate asks all peers with the same
\* arguments, and its log is still the one it told them of.
CandidatesAsk ==
    /\ \A r \in rvReplies : \E m \in rvArgs : m.From = r.To /\ m.Term = r.Term
    /\ \A m \in rvArgs :
         /\ status[m.From] = "Candidate" /\ CurrentTerm[m.From] = m.Term
              => /\ m.LastLogIndex = lastLogIndex(Log[m.From], 0)
                 /\ m.LastLogTerm = lastLogIndexTerm(Log[m.From], NoTerm)
         /\ \A a \in rvArgs :
              a.From = m.From /\ a.Term = m.Term
                => a.LastLogIndex = m.LastLogIndex /\ a.LastLogTerm = m.LastLogTerm

-----------------------------------------------------------------------------
(***************************************************************************)
(* Entries that are, or may still come to be, on a majority.               *)
(***************************************************************************)

\* The leader of term t has an entry of its own term at position p.
Own(t, p, T, W) == W[t] # Nobody /\ Has(T[t], p, t)

\* Peer j had the entries of term t's leader up to position p while in t.
Acked(j, t, p, W) ==
    \/ W[t] = j
    \/ \E r \in aeReplies : r.Success /\ r.From = j /\ r.Term = t /\ p <= r.Last + 1

\* A majority had position p while in term t.
Chosen(t, p, T, W) ==
    /\ Own(t, p, T, W)
    /\ \E Q \in SUBSET Servers : IsMajority(Q) /\ \A j \in Q : Acked(j, t, p, W)

\* A majority had it, or could still come to have it while in term t.
Choosable(t, p, T, W) ==
    /\ Own(t, p, T, W)
    /\ \E Q \in SUBSET Servers :
         IsMajority(Q) /\ \A j \in Q : Acked(j, t, p, W) \/ CurrentTerm[j] <= t

\* Later leaders have what may be chosen.
LeadersHaveIt(T, W) ==
    \A t, u, p \in Nat :
        t < u /\ W[u] # Nobody /\ Choosable(t, p, T, W) => Has(T[u], p, t)

\* Who acknowledged it keeps it.
PeersKeepIt(T, W) ==
    \A j \in Servers, t, p \in Nat :
        Acked(j, t, p, W) /\ Choosable(t, p, T, W) => Has(Log[j], p, t)

\* The log that a candidate tells of in m is at least as good as one that
\* ends with an entry of term t at position p.
AtLeast(m, t, p) ==
    t < m.LastLogTerm \/ (t = m.LastLogTerm /\ p <= m.LastLogIndex + 1)

\* Who acknowledged it votes only for candidates that have it too.
VotersSeeIt(T, W) ==
    \A r \in rvReplies, m \in rvArgs, t, p \in Nat :
        /\ r.VoteGranted /\ m.From = r.To /\ m.Term = r.Term /\ t < r.Term
        /\ Acked(r.From, t, p, W) /\ Choosable(t, p, T, W)
        => AtLeast(m, t, p)

-----------------------------------------------------------------------------
(***************************************************************************)
(* Commitment and application.                                             *)
(***************************************************************************)

\* The entries of M up to index k are those that term u's leader has up to a
\* chosen entry, for some u <= t.
Settled(M, k, t, T, W) ==
    \/ k = 0
    \/ /\ k \in Nat
       /\ \E u, p \in Nat :
            u <= t /\ k < p /\ Chosen(u, p, T, W) /\ Agree(M, T[u], k + 1)

CommitsSettled(T, W) ==
    /\ \A i \in Servers : Settled(Log[i], commitIndex[i], CurrentTerm[i], T, W)
    /\ \A m \in aeArgs : Settled(T[m.Term], m.LeaderCommit, m.Term, T, W)

\* What a leader has in matchIndex was acknowledged in its term.
MatchesAcked(W) ==
    \A i \in Servers :
        status[i] = "Leader"
          => \A p \in Peers(i) :
               matchIndex[i][p] = 0 \/ Acked(p, CurrentTerm[i], matchIndex[i][p] + 1, W)

\* Some chosen entry has the command at index k in front of it, or is it.
Decided(k, command, T, W) ==
    \E u, p \in Nat : k < p /\ Chosen(u, p, T, W) /\ T[u][k + 1].Command = command

AppliedDecided(T, W) ==
    \A i \in Servers :
        /\ ~applySnapshot[i] /\ snapshot[i] = <<>>
        /\ lastApplied[i] = Len(applied[i]) + Len(applyCh[i])
        /\ \A k \in 1 .. Len(applied[i]) : Decided(k, applied[i][k], T, W)
        /\ \A k \in 1 .. Len(applyCh[i]) :
             /\ applyCh[i][k].CommandValid
             /\ applyCh[i][k].Index = Len(applied[i]) + k
             /\ Decided(Len(applied[i]) + k, applyCh[i][k].Command, T, W)

-----------------------------------------------------------------------------
\* The history T, W fits the state.
History(T, W) ==
    /\ LogsBacked(T, W) /\ LeadersRecorded(T, W)
    /\ CallsCarryLogs(T, W) /\ RepliesAnswer(T, W) /\ CandidatesAsk
    /\ LeadersHaveIt(T, W) /\ PeersKeepIt(T, W) /\ VotersSeeIt(T, W)
    /\ CommitsSettled(T, W) /\ MatchesAcked(W) /\ AppliedDecided(T, W)

\* The inductive invariant.
SafetyInv ==
    /\ ElectionInv
    /\ \E T \in LeaderLogs, W \in Leaderships : History(T, W)
=============================================================================
