---------------------------- MODULE RaftService ----------------------------
(***************************************************************************)
(* What Raft promises the service above it, as an abstract specification.  *)
(* There is one growing sequence of committed commands.  Each peer has a   *)
(* log, whose entries may be replaced until they are committed, and may    *)
(* believe that it is the leader, several peers at a time.  Terms, votes   *)
(* and messages are in module Raft.                                        *)
(***************************************************************************)
EXTENDS Integers, Sequences

CONSTANTS
    Servers,
    MaxLog,      \* bound: the length of a log
    MaxTerm      \* bound: the number of elections

ASSUME RaftBounds == MaxLog \in Nat /\ MaxTerm \in Nat

VARIABLES
    log,         \* the commands in each peer's log
    leaders,     \* the peers that believe they are the leader
    elections,   \* the number of elections held
    committed    \* the committed commands

raftVars == <<log, leaders, elections, committed>>

RaftInit ==
    /\ log = [s \in Servers |-> <<>>]
    /\ leaders = {}
    /\ elections = 0
    /\ committed = <<>>

\* A log has the first i committed commands.
Holds(entries, i) ==
    /\ i <= Len(committed) /\ i <= Len(entries)
    /\ \A k \in 1 .. i : entries[k] = committed[k]

\* A peer becomes leader.  It has every committed command.
Elect(s) ==
    /\ elections < MaxTerm /\ s \notin leaders
    /\ Holds(log[s], Len(committed))
    /\ leaders' = leaders \cup {s}
    /\ elections' = elections + 1
    /\ UNCHANGED <<log, committed>>

\* A leader learns that its term is over.
StepDown(s) ==
    /\ s \in leaders
    /\ leaders' = leaders \ {s}
    /\ UNCHANGED <<log, elections, committed>>

\* A peer's log becomes a prefix of the log of a leader.  It keeps the
\* committed commands that it has.
Replicate(s, l, n) ==
    /\ l \in leaders /\ s # l
    /\ n \in 1 .. Len(log[l])
    /\ log' = [log EXCEPT ![s] = SubSeq(log[l], 1, n)]
    /\ log' # log
    /\ \A i \in 1 .. Len(committed) : Holds(log[s], i) => Holds(log'[s], i)
    /\ leaders' = leaders \ {s}
    /\ UNCHANGED <<elections, committed>>

\* The peers agree on the next command of a leader's log.
Agree(l) ==
    /\ l \in leaders
    /\ Holds(log[l], Len(committed)) /\ Len(log[l]) > Len(committed)
    /\ committed' = Append(committed, log[l][Len(committed) + 1])
    /\ UNCHANGED <<log, leaders, elections>>

\* Start(command) at a leader.
StartCommand(s, command) ==
    /\ s \in leaders /\ Len(log[s]) < MaxLog
    /\ log' = [log EXCEPT ![s] = Append(@, command)]
    /\ UNCHANGED <<leaders, elections, committed>>

\* InstallSnapshot of the first n commands.
InstallPrefix(s, n) ==
    /\ log' = [log EXCEPT ![s] = IF Holds(@, n) THEN @ ELSE SubSeq(committed, 1, n)]
    /\ leaders' = leaders \ {s}
    /\ UNCHANGED <<elections, committed>>
=============================================================================
