---------------------------- MODULE RaftElection ----------------------------
(***************************************************************************)
(* Why at most one peer leads in a term, when the service takes no         *)
(* snapshots: the invariant behind ElectionSafety of Raft.  A vote that    *)
(* was ever cast is in the messages, so it can be spoken of after the      *)
(* voter has moved to a later term or has restarted.                       *)
(***************************************************************************)
EXTENDS Raft

\* The votes cast so far: a candidate's for itself, made when it asks for
\* the others, and those that RequestVote has granted.
Ballots ==
    {[Voter |-> m.From, For |-> m.From, Term |-> m.Term] : m \in rvArgs}
      \cup {[Voter |-> r.From, For |-> r.To, Term |-> r.Term] :
              r \in {a \in rvReplies : a.VoteGranted}}

Ballot(v, c, t) == [Voter |-> v, For |-> c, Term |-> t]

\* Who cast a vote in a term is in that term or a later one, and while it is
\* in that term VotedFor still says so.
VotesKept ==
    \A b \in Ballots :
        /\ b.Term <= CurrentTerm[b.Voter]
        /\ b.Term = CurrentTerm[b.Voter] => VotedFor[b.Voter] = b.For

\* No peer has cast two votes in a term.
OneVotePerTerm ==
    \A a, b \in Ballots : a.Voter = b.Voter /\ a.Term = b.Term => a.For = b.For

\* A candidate or leader counts only votes that were cast for it in its term,
\* and a leader has counted a majority.
VotesCounted ==
    \A i \in Servers :
        /\ status[i] # "Follower"
             => \A v \in votes[i] : Ballot(v, i, CurrentTerm[i]) \in Ballots
        /\ status[i] = "Leader" => IsMajority(votes[i])

\* A majority voted for c in term t.
Elected(c, t) ==
    \E Q \in SUBSET Servers : IsMajority(Q) /\ \A v \in Q : Ballot(v, c, t) \in Ballots

\* Who sends AppendEntries in a term was elected in that term.
SendersElected == \A m \in aeArgs : Elected(m.From, m.Term)

\* Without Snapshot no log is ever compacted and no InstallSnapshot is sent,
\* because no nextIndex falls below 1: a follower's conflict report always
\* leads findLastIndexOfTerm() back to an index of the log.
NoSnapshots ==
    /\ isArgs = {} /\ isReplies = {}
    /\ \A i \in Servers :
         /\ lastIncludedIndex[i] = 0 /\ lastIncludedTerm[i] = NoTerm
         /\ \A p \in Servers : nextIndex[i][p] >= 1 /\ matchIndex[i][p] >= 0
    /\ \A m \in aeArgs : m.PrevLogIndex >= 0
    /\ \A r \in aeReplies :
         /\ r.Last >= 0
         /\ r.ReplyTerm <= r.Term /\ ~r.Success
              => /\ r.Conflict.XLen >= 0
                 /\ r.Conflict.XLen = 0 => r.Conflict.XTerm = NoTerm \/ r.Conflict.XIndex >= 1

\* The inductive invariant.
ElectionInv ==
    /\ TypeOK /\ Durable /\ NoSnapshots
    /\ VotesKept /\ OneVotePerTerm /\ VotesCounted /\ SendersElected
=============================================================================
