------------------------------- MODULE KvRaft -------------------------------
(***************************************************************************)
(* The replicated key/value service of src/src/kvraft and its clerks, over *)
(* the Raft of RaftService and a network that loses calls.                 *)
(*                                                                         *)
(* A clerk's call is answered by a handler, which starts agreement on the  *)
(* operation and waits on a channel that is registered under the index     *)
(* that Raft gave it.  A call that fails leaves its handler behind, which  *)
(* may still run later.  A channel is named after the handler that made    *)
(* it; the goroutine update() hands each operation to at most one of the   *)
(* handlers that wait on its channel.                                      *)
(***************************************************************************)
EXTENDS RaftService, KvModel, FiniteSets

CONSTANTS
    Clients,
    Keys,
    Letters,        \* what strings are made of
    OpsOf(_),       \* the operations that a clerk may be asked for
    MaxSeq,         \* bound: the number of calls that a clerk makes
    MaxAttempts,    \* bound: the number of RPCs that a clerk sends
    MaySnapshot,    \* the servers that have a maxraftstate other than -1
    MayCrash        \* the servers that crash

ASSUME KvBounds == MaxSeq \in Nat /\ MaxAttempts \in Nat

\* The clerks number the servers as the indices of a slice.
ASSUME ServersAssumption ==
    /\ Cardinality(Servers) \in Nat \ {0}
    /\ Servers = 0 .. Cardinality(Servers) - 1

ASSUME OpsAssumption ==
    \A c \in Clients : \A op \in OpsOf(c) :
        op.OpType \in {"Get", "Put", "Append"} /\ op.Key \in Keys /\ op.Value \in Seq(Letters)

VARIABLES
    kv, requestCache, notify, lastApplied,    \* the fields of KVServer
    snapshot,    \* the snapshot in the persister
    next, upTo,  \* the entries that Raft is about to send on applyCh
    installed,   \* Raft has a snapshot to send on applyCh
    handlers,    \* the handlers that have not returned
    seq, leader, attempt,    \* of a clerk: ck.seq, ck.leader, the RPCs it has sent
    call,        \* the call a clerk has open, or NoCall
    reply,       \* the reply to its last RPC, or NoReply
    store, answers,    \* history: the map that the committed commands make,
                       \* and what the open calls may return (see KvModel)
    outcomes,    \* history: outcomes[n] is the map and the cache after the first
                 \* n committed commands, each executed the first time it occurs
    returned     \* the result of a clerk's last call

serverVars == <<kv, requestCache, notify, lastApplied, snapshot>>
applyVars == <<next, upTo, installed>>
clerkVars == <<seq, leader, attempt, call, returned>>
historyVars == <<store, answers, outcomes>>
vars == <<raftVars, serverVars, applyVars, clerkVars, historyVars, handlers, reply>>

NoReply == [Err |-> "none"]
NoSeq == -1
ErrNoKey == <<"ErrNoKey">>

EmptySnapshot == [kv |-> <<>>, requestCache |-> [c \in Clients |-> NoSeq], lastApplied |-> 0]

\* StartKVServer() and MakeClerk()
Init ==
    /\ RaftInit
    /\ kv = [s \in Servers |-> EmptySnapshot.kv]
    /\ requestCache = [s \in Servers |-> EmptySnapshot.requestCache]
    /\ notify = [s \in Servers |-> {}]
    /\ lastApplied = [s \in Servers |-> 0]
    /\ snapshot = [s \in Servers |-> EmptySnapshot]
    /\ next = [s \in Servers |-> 1] /\ upTo = [s \in Servers |-> 0]
    /\ installed = [s \in Servers |-> FALSE]
    /\ handlers = {}
    /\ seq = [c \in Clients |-> 0]
    /\ leader = [c \in Clients |-> 0]
    /\ attempt = [c \in Clients |-> 0]
    /\ call = [c \in Clients |-> NoCall]
    /\ reply = [c \in Clients |-> NoReply]
    /\ store = EmptyStore(Keys)
    /\ answers = [c \in Clients |-> {}]
    /\ outcomes = [n \in {0} |-> [kv |-> EmptySnapshot.kv,
                                   requestCache |-> EmptySnapshot.requestCache]]
    /\ returned = [c \in Clients |-> <<>>]

-----------------------------------------------------------------------------
(***************************************************************************)
(* The clerk.                                                              *)
(***************************************************************************)

\* A new RPC of clerk c is on its way to server s.
NewHandler(c, op, n, s) ==
    [op |-> op, ClientId |-> c, Seq |-> n, attempt |-> attempt[c] + 1,
     server |-> s, index |-> 0, ch |-> <<>>]

\* Clerk.Get, Put or Append is called.
Call(c, op) ==
    /\ call[c] = NoCall /\ seq[c] < MaxSeq /\ attempt[c] < MaxAttempts
    /\ call' = [call EXCEPT ![c] = op]
    /\ seq' = [seq EXCEPT ![c] = @ + 1]
    /\ attempt' = [attempt EXCEPT ![c] = @ + 1]
    /\ handlers' = handlers \cup {NewHandler(c, op, seq[c], leader[c])}
    /\ answers' = [answers EXCEPT ![c] = FirstAnswers(store, op)]
    /\ UNCHANGED <<raftVars, serverVars, applyVars, leader, returned, reply, store, outcomes>>

\* Mutant of NextServer: the number of the next server is not reduced.
NextServerUnreduced(c) == leader[c] + 1

NextServer(c) == (leader[c] + 1) % Cardinality(Servers)

\* The RPC fails or the reply is ErrWrongLeader: the clerk tries the next
\* server.
Retry(c) ==
    /\ call[c] # NoCall /\ attempt[c] < MaxAttempts
    /\ leader' = [leader EXCEPT ![c] = NextServer(c)]
    /\ attempt' = [attempt EXCEPT ![c] = @ + 1]
    /\ handlers' = handlers \cup {NewHandler(c, call[c], seq[c] - 1, NextServer(c))}
    /\ reply' = [reply EXCEPT ![c] = NoReply]
    /\ UNCHANGED <<raftVars, serverVars, applyVars, historyVars, seq, call, returned>>

\* The clerk's method returns.
Return(c) ==
    /\ reply[c].Err \in {"OK", "ErrNoKey"}
    /\ returned' = [returned EXCEPT ![c] = IF reply[c].Err = "OK" THEN reply[c].Value ELSE <<>>]
    /\ call' = [call EXCEPT ![c] = NoCall]
    /\ reply' = [reply EXCEPT ![c] = NoReply]
    /\ answers' = [answers EXCEPT ![c] = {}]
    /\ UNCHANGED <<raftVars, serverVars, applyVars, seq, leader, attempt, handlers, store,
                   outcomes>>

-----------------------------------------------------------------------------
(***************************************************************************)
(* The RPC handlers.                                                       *)
(***************************************************************************)

\* Handler h returns r.  The clerk gets it unless it has given the RPC up.
Finish(h, r) ==
    /\ handlers' = handlers \ {h}
    /\ reply' = IF h.attempt = attempt[h.ClientId]
                THEN [reply EXCEPT ![h.ClientId] = r] ELSE reply

ErrWrongLeader == [Err |-> "ErrWrongLeader"]

\* A handler finds that its server is not the leader.
NotLeader(h) ==
    /\ h.index = 0 /\ h.server \notin leaders
    /\ Finish(h, ErrWrongLeader)
    /\ UNCHANGED <<raftVars, serverVars, applyVars, clerkVars, historyVars>>

\* The channel registered for an index, or one made by handler h.
getNotifyCh(s, index, h) ==
    IF \E e \in notify[s] : e.index = index
    THEN (CHOOSE e \in notify[s] : e.index = index).ch
    ELSE <<h.ClientId, h.attempt>>

\* Get() or handlePutAppend() up to its wait.
StartOp(h) ==
    LET s == h.server
        index == Len(log[s]) + 1
        ch == getNotifyCh(s, index, h)
    IN  /\ h.index = 0
        /\ StartCommand(s, [op |-> h.op, ClientId |-> h.ClientId, Seq |-> h.Seq])
        /\ notify' = [notify EXCEPT ![s] = @ \cup {[index |-> index, ch |-> ch]}]
        /\ handlers' = (handlers \ {h}) \cup {[h EXCEPT !.index = index, !.ch = ch]}
        /\ UNCHANGED <<kv, requestCache, lastApplied, snapshot, applyVars, clerkVars,
                       historyVars, reply>>

\* Mutant of Timeout: the channel stays registered.
TimeoutKeepsChannel(h) ==
    /\ h.index # 0
    /\ Finish(h, ErrWrongLeader)
    /\ UNCHANGED <<raftVars, serverVars, applyVars, clerkVars, historyVars>>

\* A handler has waited for a second.  Whatever channel is registered for its
\* index is removed.
Timeout(h) ==
    /\ h.index # 0
    /\ notify' = [notify EXCEPT ![h.server] = {e \in @ : e.index # h.index}]
    /\ Finish(h, ErrWrongLeader)
    /\ UNCHANGED <<raftVars, kv, requestCache, lastApplied, snapshot, applyVars, clerkVars,
                   historyVars>>

-----------------------------------------------------------------------------
(***************************************************************************)
(* The goroutine update(), and the loop of Raft that feeds it.             *)
(***************************************************************************)

duplicate(cache, e) == cache[e.ClientId] # NoSeq /\ e.Seq <= cache[e.ClientId]

\* kv.get(): a key that is absent reads as the string "ErrNoKey".
get(map, key) == IF key \in DOMAIN map THEN map[key] ELSE ErrNoKey

\* kv.kv[key] = value
Assign(map, key, value) ==
    [k \in DOMAIN map \cup {key} |-> IF k = key THEN value ELSE map[k]]

\* apply() of a Put or an Append.
ApplyOp(map, op) ==
    CASE op.OpType = "Put" -> Assign(map, op.Key, op.Value)
      [] op.OpType = "Append" ->
            Assign(map, op.Key, (IF op.Key \in DOMAIN map THEN map[op.Key] ELSE <<>>) \o op.Value)
      [] OTHER -> map

\* Mutant of Matches: a handler does not look at what was applied.
MatchesAny(h, e) == TRUE

\* The operation e that was applied is the one that handler h started.
Matches(h, e) == e.ClientId = h.ClientId /\ e.Seq = h.Seq

\* What handler h answers when it is handed e with the value that was read.
Answer(h, e, value) ==
    IF ~Matches(h, e) THEN ErrWrongLeader
    ELSE IF e.op.OpType # "Get" THEN [Err |-> "OK", Value |-> <<>>]
    ELSE IF value = ErrNoKey THEN [Err |-> "ErrNoKey"]
    ELSE [Err |-> "OK", Value |-> value]

\* The handlers that wait on the channel registered for index i.
Waiters(s, i) ==
    {h \in handlers : h.server = s /\ [index |-> i, ch |-> h.ch] \in notify[s]}

\* update() receives the command at index i = next[s].  saves tells whether
\* Raft's state has reached maxraftstate; Raft ignores a snapshot that is not
\* newer than its own.
update(s, saves) ==
    LET i == next[s]
        e == committed[i]
    IN  /\ next[s] <= upTo[s]
        /\ IF duplicate(requestCache[s], e)
           THEN UNCHANGED <<kv, requestCache>>
           ELSE /\ kv' = [kv EXCEPT ![s] = ApplyOp(@, e.op)]
                /\ requestCache' = [requestCache EXCEPT ![s][e.ClientId] = e.Seq]
        /\ lastApplied' = [lastApplied EXCEPT ![s] = i]
        /\ snapshot' = IF saves /\ i > snapshot[s].lastApplied
                       THEN [snapshot EXCEPT ![s] = [kv |-> kv'[s], requestCache |-> requestCache'[s],
                                                     lastApplied |-> i]]
                       ELSE snapshot
        /\ notify' = [notify EXCEPT ![s] = {n \in @ : n.index # i}]
        /\ IF Waiters(s, i) = {} THEN UNCHANGED <<handlers, reply>>
           ELSE \E h \in Waiters(s, i) : Finish(h, Answer(h, e, get(kv'[s], e.op.Key)))
        /\ next' = [next EXCEPT ![s] = i + 1]
        /\ UNCHANGED <<raftVars, upTo, installed, clerkVars, historyVars>>

\* applyCommitted() takes the commands up to n, which Raft knows to be
\* committed, and sends them one by one.
sendCommands(s, n) ==
    /\ next[s] > upTo[s] /\ ~installed[s]
    /\ n >= next[s] /\ Holds(log[s], n)
    /\ upTo' = [upTo EXCEPT ![s] = n]
    /\ UNCHANGED <<raftVars, serverVars, next, installed, clerkVars, historyVars,
                   handlers, reply>>

\* Mutant of readSnapshot: the cache is not in the snapshot.
readSnapshotNoCache(s) ==
    /\ kv' = [kv EXCEPT ![s] = snapshot[s].kv]
    /\ requestCache' = [requestCache EXCEPT ![s] = EmptySnapshot.requestCache]
    /\ lastApplied' = [lastApplied EXCEPT ![s] = snapshot[s].lastApplied]

readSnapshot(s) ==
    /\ kv' = [kv EXCEPT ![s] = snapshot[s].kv]
    /\ requestCache' = [requestCache EXCEPT ![s] = snapshot[s].requestCache]
    /\ lastApplied' = [lastApplied EXCEPT ![s] = snapshot[s].lastApplied]

\* applyCommitted() sends the snapshot that was installed, and goes on after
\* it even when the service is further; update() ignores it in that case.
sendSnapshot(s) ==
    /\ next[s] > upTo[s] /\ installed[s]
    /\ installed' = [installed EXCEPT ![s] = FALSE]
    /\ next' = [next EXCEPT ![s] = snapshot[s].lastApplied + 1]
    /\ upTo' = [upTo EXCEPT ![s] = snapshot[s].lastApplied]
    /\ IF snapshot[s].lastApplied > lastApplied[s] THEN readSnapshot(s)
       ELSE UNCHANGED <<kv, requestCache, lastApplied>>
    /\ UNCHANGED <<raftVars, notify, snapshot, clerkVars, historyVars, handlers, reply>>

\* Raft installs a snapshot that a peer has taken.  It is the peer's last: one
\* that arrives when the peer has a later one is installed as if the peer had
\* not saved since, which update() is free not to do.
InstallSnapshot(s, t) ==
    /\ snapshot[t].lastApplied > snapshot[s].lastApplied
    /\ InstallPrefix(s, snapshot[t].lastApplied)
    /\ snapshot' = [snapshot EXCEPT ![s] = snapshot[t]]
    /\ installed' = [installed EXCEPT ![s] = TRUE]
    /\ UNCHANGED <<kv, requestCache, notify, lastApplied, next, upTo, clerkVars,
                   historyVars, handlers, reply>>

\* A server crashes and starts again from its persister.
Restart(s) ==
    /\ leaders' = leaders \ {s}
    /\ readSnapshot(s)
    /\ notify' = [notify EXCEPT ![s] = {}]
    /\ next' = [next EXCEPT ![s] = snapshot[s].lastApplied + 1]
    /\ upTo' = [upTo EXCEPT ![s] = snapshot[s].lastApplied]
    /\ installed' = [installed EXCEPT ![s] = FALSE]
    /\ handlers' = {h \in handlers : h.server # s}
    /\ UNCHANGED <<log, elections, committed, snapshot, clerkVars, historyVars, reply>>

-----------------------------------------------------------------------------
\* What the committed commands and then e come to.
OutcomeOf(e) ==
    LET last == outcomes[Len(committed)]
        first == \A j \in 1 .. Len(committed) :
                     committed[j].ClientId = e.ClientId => committed[j].Seq < e.Seq
    IN  IF ~first THEN last
        ELSE [kv |-> ApplyOp(last.kv, e.op),
              requestCache |-> [last.requestCache EXCEPT ![e.ClientId] = e.Seq]]

\* The commands that Raft agrees on define the map: the first time that a
\* clerk's open Put or Append is committed it takes effect.
Commit(l) ==
    /\ Agree(l)
    /\ LET e == log[l][Len(committed) + 1]
           c == e.ClientId
       IN  /\ IF e.op.OpType # "Get" /\ e.Seq = seq[c] - 1 /\ call[c] # NoCall /\ answers[c] = {}
              THEN /\ store' = Step(store, e.op)
                   /\ answers' = AnswersAfter(answers, call, c, store', <<>>)
              ELSE UNCHANGED <<store, answers>>
           /\ outcomes' = [n \in 0 .. Len(committed) + 1 |->
                             IF n <= Len(committed) THEN outcomes[n] ELSE OutcomeOf(e)]
    /\ UNCHANGED <<serverVars, applyVars, clerkVars, handlers, reply>>

\* What Raft does without the service's notice.
RaftStep ==
    /\ \E s \in Servers : \/ Elect(s) \/ StepDown(s)
                          \/ \E l \in Servers, n \in 1 .. MaxLog : Replicate(s, l, n)
    /\ UNCHANGED <<serverVars, applyVars, clerkVars, historyVars, handlers, reply>>

Clerk(c) == (\E op \in OpsOf(c) : Call(c, op)) \/ Retry(c) \/ Return(c)

Handler(h) == NotLeader(h) \/ StartOp(h) \/ Timeout(h)

Server(s) ==
    \/ \E saves \in BOOLEAN : (saves => s \in MaySnapshot) /\ update(s, saves)
    \/ \E n \in 1 .. MaxLog : sendCommands(s, n)
    \/ sendSnapshot(s)
    \/ \E t \in Servers : InstallSnapshot(s, t)
    \/ s \in MayCrash /\ Restart(s)

Next ==
    \/ \E c \in Clients : Clerk(c)
    \/ \E h \in handlers : Handler(h)
    \/ \E s \in Servers : Server(s) \/ Commit(s)
    \/ RaftStep

Spec == Init /\ [][Next]_vars

-----------------------------------------------------------------------------
\* Every variable has its declared type; a clerk addresses a server that
\* exists, and no server is ahead of what is committed.
TypeOK ==
    /\ leader \in [Clients -> Servers] /\ \A h \in handlers : h.server \in Servers
    /\ seq \in [Clients -> 0 .. MaxSeq] /\ attempt \in [Clients -> 0 .. MaxAttempts]
    /\ \A c \in Clients : reply[c].Err \in {"none", "OK", "ErrNoKey", "ErrWrongLeader"}
    /\ requestCache \in [Servers -> [Clients -> NoSeq .. MaxSeq]]
    /\ \A s \in Servers :
          /\ DOMAIN kv[s] \subseteq Keys
          /\ lastApplied[s] \in 0 .. Len(committed) /\ upTo[s] \in 0 .. Len(committed)
          /\ next[s] \in 1 .. upTo[s] + 1
          /\ snapshot[s].lastApplied \in 0 .. Len(committed)
          /\ \A n \in notify[s] : n.index \in 1 .. MaxLog

Store == INSTANCE KvStore WITH AppendReturns <- FALSE, kv <- store

\* The service is the linearizable map of KvStore: each Put and Append takes
\* effect once, when Raft commits it for the first time, and every call
\* returns a value that the map held while the call was open, whichever
\* server answers it.
Linearizable == Store!Spec

\* A channel stays registered only while a handler waits on it: neither the
\* commands of a lost leader nor the indices a snapshot skips leave one behind.
NoChannelLeaks ==
    \A s \in Servers : \A n \in notify[s] :
        \E h \in handlers : h.server = s /\ h.index = n.index /\ h.ch = n.ch

\* Every server, and every snapshot, holds the outcome of some number of the
\* committed commands, at least lastApplied of them: no command is skipped
\* or executed twice, though Raft sends commands again after a snapshot that
\* the service had no use for, and lastApplied then falls behind the map.
ReplicasReplay ==
    \A s \in Servers :
        /\ \E n \in lastApplied[s] .. Len(committed) :
              outcomes[n] = [kv |-> kv[s], requestCache |-> requestCache[s]]
        /\ \E n \in snapshot[s].lastApplied .. Len(committed) :
              outcomes[n] = [kv |-> snapshot[s].kv, requestCache |-> snapshot[s].requestCache]
=============================================================================
