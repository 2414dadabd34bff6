------------------------------- MODULE MCRaft -------------------------------
(***************************************************************************)
(* Raft on small instances.  The bounds cut off                            *)
(*   - entries beyond MaxIndex,                                            *)
(*   - AppendEntries calls with more than MaxAppends different arguments,  *)
(*   - InstallSnapshot calls with more than MaxInstalls,                   *)
(*   - elections other than those in MayStand, which maps each term to the *)
(*     peers whose election timer may fire into it,                        *)
(*   - AppendEntries calls of a term t to peers outside MayHear[t],        *)
(*   - unless LateVotes, AppendEntries calls made before every peer has    *)
(*     answered the RequestVote calls.                                     *)
(* MayCrash are the peers that may crash, MayApply those whose applier     *)
(* goroutine may run.  The command that a leader starts is its term, so    *)
(* that the origin of an entry can be told from what is applied.           *)
(***************************************************************************)
EXTENDS RaftElection, TLC

CONSTANTS MaxIndex, MaxAppends, MaxInstalls, MayStand, MayHear, LateVotes,
          MayCrash, MayApply

Bounds ==
    /\ \A i \in Servers :
         /\ LastIndex(i) <= MaxIndex
         /\ status[i] = "Candidate"
              => CurrentTerm[i] \in DOMAIN MayStand /\ i \in MayStand[CurrentTerm[i]]
         /\ \A k \in DOMAIN Log[i] : Log[i][k].Command \in {NoCommand, Log[i][k].Term}
         /\ applyCh[i] # <<>> => i \in MayApply
    /\ \A m \in aeArgs : m.To \in MayHear[m.Term]
    /\ Cardinality(aeArgs) <= MaxAppends
    /\ Cardinality(isArgs) <= MaxInstalls

MCNext ==
    /\ Step \/ \E i \in MayCrash : Restart(i)
    /\ Bounds'
    /\ LateVotes \/ aeArgs' = aeArgs \/ Cardinality(rvReplies) = Cardinality(rvArgs)

MCSpec == Init /\ [][MCNext]_vars

CONSTANTS s1, s2, s3

\* s1 and s2 may stand in term 1 and any peer in term 2.
TwoThenAny == <<{s1, s2}, Servers>>

\* One election, and s1 is the one who stands.
OneLeader == <<{s1}>>

\* s2 challenges s1, the first leader.
TwoLeaders == <<{s1}, {s2}>>

\* s1 and s2 lead in turn, twice.
FourLeaders == <<{s1}, {s2}, {s1}, {s2}>>

\* s1 leads; then s1 and s3 stand in the same term.
Rivals == <<{s1}, {s1, s3}>>

\* AppendEntries reach everyone.
Everyone == [t \in DOMAIN MayStand |-> Servers]

\* Of four leaders only the last two replicate, the last to s3 alone.
LateOnly == <<{}, {}, {s2, s3}, {s3}>>

\* The permutations of the peers that the bounds do not tell apart.
Symmetry ==
    {f \in Permutations(Servers) :
        /\ \A t \in DOMAIN MayStand : {f[i] : i \in MayStand[t]} = MayStand[t]
        /\ \A t \in DOMAIN MayHear : {f[i] : i \in MayHear[t]} = MayHear[t]
        /\ {f[i] : i \in MayCrash} = MayCrash
        /\ {f[i] : i \in MayApply} = MayApply}
=============================================================================
