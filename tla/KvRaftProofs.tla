---------------------------- MODULE KvRaftProofs ----------------------------
(***************************************************************************)
(* Proofs about KvRaft.  For any number of servers, clerks, calls and      *)
(* crashes, no notification channel leaks, every replica and snapshot is   *)
(* the outcome of a prefix of the committed commands, and the service is a *)
(* linearizable map: the operators of the model, the inductive invariant   *)
(* KvInv, the steps of the clerks, of the RPC handlers, of update() and of *)
(* Raft, each of which preserves it, and the theorems.                     *)
(***************************************************************************)
EXTENDS KvRaft, TLAPS

\* The operations that some clerk may call.
Ops == UNION {OpsOf(c) : c \in Clients}

\* What Raft is given, the strings, the maps, the caches.
Commands == [op : Ops, ClientId : Clients, Seq : Nat]

\* The strings: any sequence of letters.
Strings == Seq(Letters)

Maps == UNION {[K -> Strings] : K \in SUBSET Keys}

Caches == [Clients -> NoSeq .. MaxSeq]

\* A channel is named by the RPC that made it: its clerk and attempt.
ChannelNames == Clients \X Nat

\* What a clerk may hold as the answer to its RPC.
Replies == {NoReply, ErrWrongLeader, [Err |-> "ErrNoKey"]} \cup [Err : {"OK"}, Value : Strings]

\* The types, part by part.
RaftType == log \in [Servers -> Seq(Commands)] /\ committed \in Seq(Commands)

ClerkType ==
    /\ leader \in [Clients -> Servers] /\ seq \in [Clients -> 0 .. MaxSeq]
    /\ attempt \in [Clients -> 0 .. MaxAttempts]
    /\ call \in [Clients -> Ops \cup {NoCall}] /\ reply \in [Clients -> Replies]
    /\ DOMAIN returned = Clients

HandlerRecords ==
    [op : Ops, ClientId : Clients, Seq : Nat, attempt : Nat, server : Servers,
     index : 0 .. MaxLog, ch : ChannelNames \cup {<<>>}]

HandlerType ==
    /\ handlers \subseteq HandlerRecords
    /\ notify \in [Servers -> SUBSET [index : 1 .. MaxLog, ch : ChannelNames]]

ServerType ==
    /\ kv \in [Servers -> Maps] /\ requestCache \in [Servers -> Caches]
    /\ lastApplied \in [Servers -> Nat]
    /\ snapshot \in [Servers -> [kv : Maps, requestCache : Caches, lastApplied : Nat]]
    /\ next \in [Servers -> Nat] /\ upTo \in [Servers -> Nat]
    /\ installed \in [Servers -> BOOLEAN]

HistoryType ==
    /\ store \in [Keys -> Strings] /\ answers \in [Clients -> SUBSET Strings]
    /\ outcomes \in [0 .. Len(committed) -> [kv : Maps, requestCache : Caches]]

\* A command (or the request that a handler is about to start) is one that
\* its clerk has made, the open one if it has the last number.
Made(e) ==
    /\ e.Seq < seq[e.ClientId]
    /\ e.Seq = seq[e.ClientId] - 1 /\ call[e.ClientId] # NoCall => e.op = call[e.ClientId]

\* Raft and the handlers hold nothing but what clerks have made.
MadeInv ==
    /\ \A c \in Clients : call[c] # NoCall => seq[c] # 0
    /\ \A s \in Servers : \A k \in DOMAIN log[s] : Made(log[s][k])
    /\ \A k \in DOMAIN committed : Made(committed[k])
    /\ \A h \in handlers : Made(h)

\* The handler of the RPC that a clerk waits for.
AwaitedInv ==
    /\ \A h \in handlers :
          /\ h.attempt <= attempt[h.ClientId]
          /\ h.attempt = attempt[h.ClientId] =>
                /\ call[h.ClientId] # NoCall /\ h.Seq = seq[h.ClientId] - 1
                /\ reply[h.ClientId] = NoReply
    /\ \A h, g \in handlers : h.ClientId = g.ClientId /\ h.attempt = g.attempt => h = g

\* A handler has a channel once it has started its command; two handlers
\* that share a channel (a retry of the same index) wait at the same index.
ChannelInv ==
    /\ \A h \in handlers : IF h.index = 0 THEN h.ch = <<>>
                           ELSE h.ch \in ChannelNames /\ h.ch[2] <= attempt[h.ch[1]]
    /\ \A h, g \in handlers : h.index = 0 => g.ch # <<h.ClientId, h.attempt>>
    /\ \A h, g \in handlers : /\ h.index # 0 /\ g.index # 0
                              /\ h.server = g.server /\ h.ch = g.ch
                              => h.index = g.index
    /\ NoChannelLeaks

\* The state after a command that is not a duplicate.
Executed(state, e) ==
    [kv |-> ApplyOp(state.kv, e.op),
     requestCache |-> [state.requestCache EXCEPT ![e.ClientId] = e.Seq]]

\* The outcomes are those of one command after the other, where the cache
\* holds the last number executed for each clerk.
OutcomeInv ==
    /\ \A n \in 0 .. Len(committed) : \A j \in 1 .. n :
          committed[j].Seq <= outcomes[n].requestCache[committed[j].ClientId]
    /\ \A n \in 0 .. Len(committed) : \A c \in Clients :
          \/ outcomes[n].requestCache[c] = NoSeq
          \/ \E j \in 1 .. n : /\ committed[j].ClientId = c
                               /\ committed[j].Seq = outcomes[n].requestCache[c]
    /\ \A n \in 1 .. Len(committed) :
          outcomes[n] = IF duplicate(outcomes[n - 1].requestCache, committed[n])
                        THEN outcomes[n - 1] ELSE Executed(outcomes[n - 1], committed[n])

\* Server s, or its snapshot, holds the outcome of m commands.
ServerHolds(s, m) ==
    /\ lastApplied[s] <= m /\ next[s] - 1 <= m
    /\ outcomes[m] = [kv |-> kv[s], requestCache |-> requestCache[s]]

SnapshotHolds(s, m) ==
    /\ snapshot[s].lastApplied <= m
    /\ outcomes[m] = [kv |-> snapshot[s].kv, requestCache |-> snapshot[s].requestCache]

\* The memory and the snapshot of a server are outcomes, and the commands
\* that Raft delivers next continue the one in memory.
ReplicaInv ==
    \A s \in Servers :
        /\ upTo[s] <= Len(committed) /\ 1 <= next[s] /\ next[s] <= upTo[s] + 1
        /\ \E m \in 0 .. Len(committed) : ServerHolds(s, m)
        /\ \E m \in 0 .. Len(committed) : SnapshotHolds(s, m)

\* What kv.get() returns, with the empty string for an absent key.
Value(map, key) == IF key \in DOMAIN map THEN map[key] ELSE <<>>

\* The outcome of all committed commands.
Final == outcomes[Len(committed)]

\* The linearized store is the final outcome; a clerk is at most one call
\* ahead of it, and the answers that the open call may return are those that
\* the store has given since.
StoreInv ==
    /\ \A k \in Keys : store[k] = Value(Final.kv, k)
    /\ \A c \in Clients :
          /\ call[c] = NoCall => Final.requestCache[c] = seq[c] - 1 /\ reply[c] = NoReply
          /\ call[c] # NoCall => Final.requestCache[c] \in {seq[c] - 2, seq[c] - 1}
          /\ call[c].OpType \in {"Put", "Append"} =>
                answers[c] = IF Final.requestCache[c] = seq[c] - 1 THEN {<<>>} ELSE {}
          /\ call[c].OpType = "Get" =>
                /\ store[call[c].Key] \in answers[c]
                /\ \A j \in 1 .. Len(committed) :
                      committed[j].ClientId = c /\ committed[j].Seq = seq[c] - 1
                      => \A n \in j .. Len(committed) :
                            Value(outcomes[n].kv, call[c].Key) \in answers[c]

\* No string that a client stores is the one kv.get() returns for an absent key.
NoSentinel == ErrNoKey \notin Strings

\* A reply is given only for a committed call, and is one of those answers.
ReplyInv ==
    \A c \in Clients :
        reply[c].Err \in {"OK", "ErrNoKey"} =>
            /\ call[c] # NoCall /\ Final.requestCache[c] = seq[c] - 1
            /\ NoSentinel => (IF reply[c].Err = "OK" THEN reply[c].Value ELSE <<>>) \in answers[c]

\* The inductive invariant.
TypeInv == RaftType /\ ClerkType /\ HandlerType /\ ServerType /\ HistoryType

KvInv == /\ TypeInv /\ MadeInv /\ AwaitedInv /\ ChannelInv /\ OutcomeInv /\ ReplicaInv
         /\ StoreInv /\ ReplyInv

-----------------------------------------------------------------------------
(***************************************************************************)
(* The operators of the model.                                             *)
(***************************************************************************)

\* The indices and the elements of a sequence.
LEMMA SeqFacts ==
    ASSUME NEW S, NEW q \in Seq(S)
    PROVE  /\ Len(q) \in Nat /\ DOMAIN q = 1 .. Len(q) /\ q \in [1 .. Len(q) -> S]
           /\ \A k \in 1 .. Len(q) : q[k] \in S
  OBVIOUS

\* A sequence with one more element.
LEMMA AppendFacts ==
    ASSUME NEW S, NEW q \in Seq(S), NEW e \in S
    PROVE  /\ Append(q, e) \in Seq(S) /\ Len(Append(q, e)) = Len(q) + 1
           /\ \A k \in 1 .. Len(q) : Append(q, e)[k] = q[k]
           /\ Append(q, e)[Len(q) + 1] = e
  OBVIOUS

\* The first n elements of a sequence.
LEMMA PrefixFacts ==
    ASSUME NEW S, NEW q \in Seq(S), NEW n \in 0 .. Len(q)
    PROVE  /\ SubSeq(q, 1, n) \in Seq(S) /\ Len(SubSeq(q, 1, n)) = n
           /\ \A k \in 1 .. n : SubSeq(q, 1, n)[k] = q[k]
  OBVIOUS

\* The strings are closed under concatenation, as Append needs.
LEMMA ConcatString == \A a, b \in Strings : a \o b \in Strings
  BY DEF Strings

\* An operation has its fields, and is not NoCall.
LEMMA OpFacts ==
    ASSUME NEW op \in Ops
    PROVE  /\ op.OpType \in {"Get", "Put", "Append"} /\ op.Key \in Keys /\ op.Value \in Strings
           /\ op # NoCall
  <1>1. PICK c \in Clients : op \in OpsOf(c)
    BY Zenon DEF Ops
  <1>2. op.OpType \in {"Get", "Put", "Append"} /\ op.Key \in Keys /\ op.Value \in Strings
    BY Zenon, <1>1, OpsAssumption DEF Strings
  <1>3. NoCall.OpType = "none"
    BY Zenon DEF NoCall
  <1> QED
    BY Zenon, <1>2, <1>3

\* A map is a function on some of the keys.
LEMMA MapFacts ==
    ASSUME NEW map \in Maps
    PROVE  /\ DOMAIN map \subseteq Keys /\ \A k \in DOMAIN map : map[k] \in Strings
           /\ map = [k \in DOMAIN map |-> map[k]]
  BY Zenon DEF Maps

\* Assigning to a key leaves a map, with the value at that key.
LEMMA AssignFacts ==
    ASSUME NEW map \in Maps, NEW key \in Keys, NEW value \in Strings
    PROVE  /\ Assign(map, key, value) \in Maps
           /\ \A k : Value(Assign(map, key, value), k) = IF k = key THEN value ELSE Value(map, k)
  <1> DEFINE new == Assign(map, key, value)
  <1>1. DOMAIN new = DOMAIN map \cup {key}
    BY Zenon DEF Assign
  <1>2. DOMAIN new \in SUBSET Keys
    BY Zenon, <1>1, MapFacts
  <1>3. new \in [DOMAIN new -> Strings]
    BY Zenon, <1>1, MapFacts DEF Assign
  <1>4. new \in Maps
    BY <1>2, <1>3, Zenon DEF Maps
  <1>5. \A k : Value(new, k) = IF k = key THEN value ELSE Value(map, k)
    BY Zenon, <1>1 DEF Value, Assign
  <1> QED
    BY Zenon, <1>4, <1>5

\* What a Get of a map, or the map of the history, returns is a string.
LEMMA ValueString ==
    ASSUME NEW map \in Maps, NEW key
    PROVE  Value(map, key) \in Strings
  <1>1. <<>> \in Strings
    BY DEF Strings
  <1> QED
    BY Zenon, <1>1, MapFacts DEF Value

\* apply() of an operation.
LEMMA ApplyMap ==
    ASSUME NEW map \in Maps, NEW op \in Ops
    PROVE  /\ ApplyOp(map, op) \in Maps
           /\ Value(map, op.Key) \o op.Value \in Strings
           /\ op.OpType = "Get" => ApplyOp(map, op) = map
           /\ op.OpType = "Put" => ApplyOp(map, op) = Assign(map, op.Key, op.Value)
           /\ op.OpType = "Append"
                => ApplyOp(map, op) = Assign(map, op.Key, Value(map, op.Key) \o op.Value)
  <1>1. op.OpType \in {"Get", "Put", "Append"} /\ op.Key \in Keys /\ op.Value \in Strings
    BY Zenon, OpFacts
  <1>2. Value(map, op.Key) \in Strings /\ Value(map, op.Key) \o op.Value \in Strings
    BY Zenon, <1>1, ValueString, ConcatString
  <1>3. /\ op.OpType = "Get" => ApplyOp(map, op) = map
        /\ op.OpType = "Put" => ApplyOp(map, op) = Assign(map, op.Key, op.Value)
        /\ op.OpType = "Append"
             => ApplyOp(map, op) = Assign(map, op.Key, Value(map, op.Key) \o op.Value)
    BY Zenon DEF ApplyOp, Value
  <1> QED
    BY <1>1, <1>2, <1>3, AssignFacts

\* apply() agrees with the model of kv.go, in which an absent key is "".
LEMMA ApplyStep ==
    ASSUME NEW map \in Maps, NEW op \in Ops,
           NEW old \in [Keys -> Strings], \A k \in Keys : old[k] = Value(map, k)
    PROVE  /\ Step(old, op) \in [Keys -> Strings]
           /\ \A k \in Keys : Step(old, op)[k] = Value(ApplyOp(map, op), k)
  <1> DEFINE new == old[op.Key] \o op.Value
  <1>1. op.OpType \in {"Get", "Put", "Append"} /\ op.Key \in Keys /\ op.Value \in Strings
    BY Zenon, OpFacts
  <1>2. CASE op.OpType = "Get"
    BY Zenon, <1>2, ApplyMap DEF Step
  <1>3. CASE op.OpType = "Put"
    <2>1. Step(old, op) = [old EXCEPT ![op.Key] = op.Value]
      BY Zenon, <1>3 DEF Step
    <2>2. ApplyOp(map, op) = Assign(map, op.Key, op.Value)
      BY Zenon, <1>3, ApplyMap
    <2>3. \A k \in Keys : Value(ApplyOp(map, op), k)
                          = IF k = op.Key THEN op.Value ELSE Value(map, k)
      BY <1>1, <2>2, AssignFacts
    <2> QED
      BY Zenon, <1>1, <2>1, <2>3
  <1>4. CASE op.OpType = "Append"
    <2>1. Step(old, op) = [old EXCEPT ![op.Key] = new]
      BY Zenon, <1>4 DEF Step
    <2>2. new \in Strings /\ ApplyOp(map, op) = Assign(map, op.Key, new)
      BY Zenon, <1>1, <1>4, ApplyMap
    <2> HIDE DEF new
    <2>3. \A k \in Keys : Value(ApplyOp(map, op), k) = IF k = op.Key THEN new ELSE Value(map, k)
      BY <1>1, <2>2, AssignFacts
    <2> QED
      BY Zenon, <1>1, <2>1, <2>2, <2>3
  <1> QED
    BY Zenon, <1>1, <1>2, <1>3, <1>4

\* A handler that has no channel yet waits on none.
LEMMA ChannelNamed == <<>> \notin ChannelNames /\ \A a, b : <<>> # <<a, b>>
  BY DEF ChannelNames

-----------------------------------------------------------------------------
(***************************************************************************)
(* The parts of the invariant in steps that do not concern them.           *)
(***************************************************************************)

\* The logs and the committed commands keep their types.
LEMMA SameRaft == RaftType /\ UNCHANGED <<log, committed>> => RaftType'
  BY Zenon DEF RaftType

\* So do the fields of the clerks.
LEMMA SameClerk ==
    ClerkType /\ UNCHANGED <<leader, seq, attempt, call, reply, returned>> => ClerkType'
  BY Zenon DEF ClerkType

\* So do the RPC handlers and the notification channels.
LEMMA SameHandler == HandlerType /\ UNCHANGED <<handlers, notify>> => HandlerType'
  BY Zenon DEF HandlerType

\* So do the maps, caches and snapshots of the servers.
LEMMA SameServer == ServerType /\ UNCHANGED <<serverVars, applyVars>> => ServerType'
  BY Zenon DEF ServerType, serverVars, applyVars

\* So does the history.
LEMMA SameHistory == HistoryType /\ UNCHANGED <<historyVars, committed>> => HistoryType'
  BY Zenon DEF HistoryType, historyVars

\* What the clerks have made stays made.
LEMMA SameMade == MadeInv /\ UNCHANGED <<seq, call, log, committed, handlers>> => MadeInv'
  BY DEF MadeInv, Made

\* The clerks wait for the same handlers.
LEMMA SameAwaited ==
    AwaitedInv /\ UNCHANGED <<handlers, attempt, call, seq, reply>> => AwaitedInv'
  BY Zenon DEF AwaitedInv

\* The handlers own the same channels.
LEMMA SameChannel == ChannelInv /\ UNCHANGED <<handlers, notify, attempt>> => ChannelInv'
  BY DEF ChannelInv, NoChannelLeaks

\* The outcomes of the committed commands are the same.
LEMMA SameOutcome == OutcomeInv /\ UNCHANGED <<committed, outcomes>> => OutcomeInv'
  BY DEF OutcomeInv

\* The servers hold the same outcomes.
LEMMA SameReplica ==
    ReplicaInv /\ UNCHANGED <<serverVars, next, upTo, committed, outcomes>> => ReplicaInv'
  BY DEF ReplicaInv, ServerHolds, SnapshotHolds, serverVars

\* The store and the answers that are allowed are the same.
LEMMA SameStore ==
    StoreInv /\ UNCHANGED <<historyVars, committed, call, seq, reply>> => StoreInv'
  BY DEF StoreInv, Final, historyVars

\* The replies on their way to the clerks are the same.
LEMMA SameReply ==
    ReplyInv /\ UNCHANGED <<historyVars, committed, call, seq, reply>> => ReplyInv'
  BY Zenon DEF ReplyInv, Final, historyVars

\* Fewer handlers.
LEMMA FewerHandlers ==
    ASSUME MadeInv, handlers' \subseteq handlers, UNCHANGED <<seq, call, log, committed>>
    PROVE  MadeInv'
  BY Zenon DEF MadeInv, Made

-----------------------------------------------------------------------------
(***************************************************************************)
(* The initial state.                                                      *)
(***************************************************************************)

\* The servers start with empty maps and caches, the clerks with no call.
LEMMA InitKvInv == Init => KvInv
  <1> SUFFICES ASSUME Init PROVE KvInv
    BY Zenon
  <1>1. /\ log = [s \in Servers |-> <<>>] /\ committed = <<>> /\ Len(committed) = 0
        /\ handlers = {}
    BY Zenon DEF Init, RaftInit
  <1>2. EmptySnapshot.kv \in Maps /\ EmptySnapshot.kv = <<>> /\ EmptySnapshot.lastApplied = 0
    <2>1. <<>> \in [{} -> Strings]
      OBVIOUS
    <2> QED
      BY Zenon, <2>1 DEF EmptySnapshot, Maps
  <1>3. /\ EmptySnapshot.requestCache \in Caches
        /\ \A c \in Clients : EmptySnapshot.requestCache[c] = NoSeq
    BY KvBounds DEF EmptySnapshot, Caches, NoSeq
  <1>4. EmptySnapshot \in [kv : Maps, requestCache : Caches, lastApplied : Nat]
    BY Zenon, <1>2, <1>3 DEF EmptySnapshot
  <1>5. RaftType
    BY <1>1 DEF RaftType
  <1>6. ClerkType
    BY ServersAssumption, KvBounds DEF Init, ClerkType, Replies
  <1>7. HandlerType
    BY Zenon, <1>1 DEF Init, HandlerType
  <1> HIDE DEF EmptySnapshot
  <1>8. ServerType
    BY Zenon, <1>2, <1>3, <1>4 DEF Init, ServerType
  <1>9. outcomes = [n \in 0 .. 0 |-> [kv |-> EmptySnapshot.kv,
                                      requestCache |-> EmptySnapshot.requestCache]]
    BY DEF Init
  <1>10. HistoryType
    <2>1. <<>> \in Strings
      BY DEF Strings
    <2> QED
      BY <1>1, <1>2, <1>3, <1>9, <2>1 DEF Init, HistoryType, EmptyStore
  <1>11. MadeInv
    BY <1>1 DEF MadeInv, Init
  <1>12. AwaitedInv /\ ChannelInv
    BY Zenon, <1>1 DEF AwaitedInv, ChannelInv, NoChannelLeaks, Init
  <1>13. OutcomeInv
    BY <1>1, <1>3, <1>9 DEF OutcomeInv
  <1>14. ReplicaInv
    <2>1. ASSUME NEW s \in Servers
          PROVE  /\ upTo[s] = 0 /\ next[s] = 1 /\ lastApplied[s] = 0 /\ snapshot[s] = EmptySnapshot
                 /\ kv[s] = EmptySnapshot.kv /\ requestCache[s] = EmptySnapshot.requestCache
      BY Zenon DEF Init
    <2>2. ASSUME NEW s \in Servers
          PROVE  /\ upTo[s] <= Len(committed) /\ 1 <= next[s] /\ next[s] <= upTo[s] + 1
                 /\ ServerHolds(s, 0) /\ SnapshotHolds(s, 0)
      BY <1>1, <1>2, <1>9, <2>1 DEF ServerHolds, SnapshotHolds
    <2>3. 0 \in 0 .. Len(committed)
      BY <1>1
    <2> QED
      BY Zenon, <2>2, <2>3 DEF ReplicaInv
  <1>15. StoreInv
    <2>1. \A k : Value(EmptySnapshot.kv, k) = <<>>
      BY <1>2 DEF Value
    <2>2. Final = [kv |-> EmptySnapshot.kv, requestCache |-> EmptySnapshot.requestCache]
      BY <1>1, <1>9 DEF Final
    <2> QED
      BY <1>1, <1>3, <2>1, <2>2 DEF Init, StoreInv, EmptyStore, NoCall, NoSeq
  <1>16. ReplyInv
    BY Zenon DEF Init, ReplyInv, NoReply
  <1> QED
    BY Zenon, <1>5, <1>6, <1>7, <1>8, <1>10, <1>11, <1>12, <1>13, <1>14, <1>15, <1>16 DEF KvInv, TypeInv

-----------------------------------------------------------------------------
(***************************************************************************)
(* The clerk.                                                              *)
(***************************************************************************)

\* A clerk sends an RPC: its handler has a name that no channel has.
LEMMA SendRpc ==
    ASSUME TypeInv, ChannelInv, NEW c \in Clients, NEW op \in Ops, NEW n \in Nat, NEW s \in Servers,
           handlers' = handlers \cup {NewHandler(c, op, n, s)},
           attempt' = [attempt EXCEPT ![c] = @ + 1], notify' = notify
    PROVE  HandlerType' /\ ChannelInv'
  <1> DEFINE new == NewHandler(c, op, n, s)
  <1>1. /\ new.op = op /\ new.ClientId = c /\ new.Seq = n /\ new.attempt = attempt[c] + 1
        /\ new.server = s /\ new.index = 0 /\ new.ch = <<>>
    BY Zenon DEF NewHandler
  <1>2. ClerkType /\ HandlerType
    BY Zenon DEF TypeInv
  <1>3. attempt[c] \in Nat /\ \A d \in Clients : attempt[d] \in Nat /\ attempt'[d] \in Nat
                                                 /\ attempt[d] <= attempt'[d]
    BY <1>2 DEF ClerkType
  <1>4. new \in HandlerRecords
    BY <1>3, RaftBounds DEF NewHandler, HandlerRecords
  <1> HIDE DEF new
  <1>5. HandlerType'
    BY Zenon, <1>2, <1>4 DEF HandlerType, new
  <1>6. \A h \in handlers : /\ h.attempt \in Nat /\ h.ClientId \in Clients
                            /\ h.index \in 0 .. MaxLog /\ h.server \in Servers
    BY Zenon, <1>2 DEF HandlerType, HandlerRecords
  <1>7. \A h \in handlers' : IF h.index = 0 THEN h.ch = <<>>
                             ELSE h.ch \in ChannelNames /\ h.ch[2] <= attempt'[h.ch[1]]
    <2> SUFFICES ASSUME NEW h \in handlers, h.index # 0
                 PROVE  h.ch \in ChannelNames /\ h.ch[2] <= attempt'[h.ch[1]]
      BY Zenon, <1>1 DEF ChannelInv, new
    <2>1. h.ch \in ChannelNames /\ h.ch[2] <= attempt[h.ch[1]]
      BY Zenon DEF ChannelInv
    <2>2. h.ch[1] \in Clients /\ h.ch[2] \in Nat
      BY Zenon, <2>1 DEF ChannelNames
    <2> QED
      BY <1>3, <2>1, <2>2
  <1>8. \A h, g \in handlers' : h.index = 0 => g.ch # <<h.ClientId, h.attempt>>
    <2>1. ASSUME NEW h \in handlers', NEW g \in handlers', h.index = 0, g.index = 0
          PROVE  g.ch # <<h.ClientId, h.attempt>>
      BY Zenon, <1>7, <2>1, ChannelNamed
    <2>2. ASSUME NEW g \in handlers', g.index # 0
          PROVE  g.ch # <<new.ClientId, new.attempt>>
      <3>1. g \in handlers /\ g.ch \in ChannelNames /\ g.ch[2] <= attempt[g.ch[1]]
        BY Zenon, <1>1, <2>2 DEF ChannelInv, new
      <3> QED
        BY <1>1, <1>3, <3>1
    <2>3. ASSUME NEW h \in handlers, NEW g \in handlers', h.index = 0, g.index # 0
          PROVE  g.ch # <<h.ClientId, h.attempt>>
      BY Zenon, <1>1, <2>3 DEF ChannelInv, new
    <2> QED
      BY Zenon, <2>1, <2>2, <2>3 DEF new
  <1>9. \A h, g \in handlers' : /\ h.index # 0 /\ g.index # 0
                                /\ h.server = g.server /\ h.ch = g.ch
                                => h.index = g.index
    BY Zenon, <1>1 DEF ChannelInv, new
  <1>10. NoChannelLeaks'
    BY DEF ChannelInv, NoChannelLeaks
  <1> QED
    BY Zenon, <1>5, <1>7, <1>8, <1>9, <1>10 DEF ChannelInv

\* Get, Put or Append is called.
LEMMA CallKvInv ==
    ASSUME KvInv, NEW c \in Clients, NEW op \in OpsOf(c), Call(c, op)
    PROVE  KvInv'
  <1> DEFINE new == NewHandler(c, op, seq[c], leader[c])
  <1>1. /\ call[c] = NoCall /\ seq[c] < MaxSeq /\ attempt[c] < MaxAttempts
        /\ call' = [call EXCEPT ![c] = op] /\ seq' = [seq EXCEPT ![c] = seq[c] + 1]
        /\ attempt' = [attempt EXCEPT ![c] = attempt[c] + 1]
        /\ handlers' = handlers \cup {new}
        /\ answers' = [answers EXCEPT ![c] = FirstAnswers(store, op)]
        /\ UNCHANGED <<raftVars, serverVars, applyVars, leader, returned, reply, store, outcomes>>
    BY Zenon DEF Call
  <1>2. UNCHANGED <<log, committed, notify, kv, requestCache, lastApplied, snapshot, next, upTo>>
    BY Zenon, <1>1 DEF raftVars, serverVars, applyVars
  <1>3. /\ TypeInv /\ RaftType /\ ClerkType /\ HandlerType /\ ServerType /\ HistoryType
        /\ MadeInv /\ AwaitedInv /\ ChannelInv /\ OutcomeInv /\ ReplicaInv /\ StoreInv /\ ReplyInv
    BY Zenon DEF KvInv, TypeInv
  <1>4. /\ op \in Ops /\ op # NoCall /\ op.OpType \in {"Get", "Put", "Append"} /\ op.Key \in Keys
        /\ leader[c] \in Servers /\ seq[c] \in Nat /\ attempt[c] \in Nat
    BY <1>3, OpFacts DEF Ops, ClerkType
  <1>5. /\ new.op = op /\ new.ClientId = c /\ new.Seq = seq[c] /\ new.attempt = attempt[c] + 1
    BY Zenon DEF NewHandler
  <1>6. HandlerType' /\ ChannelInv'
    BY Zenon, <1>1, <1>2, <1>3, <1>4, SendRpc
  <1> HIDE DEF new
  <1>7. ClerkType'
    BY <1>1, <1>3, <1>4, KvBounds DEF ClerkType
  <1>8. HistoryType'
    <2>1. FirstAnswers(store, op) \in SUBSET Strings
      BY Zenon, <1>3, <1>4 DEF HistoryType, FirstAnswers
    <2> QED
      BY Zenon, <1>1, <1>2, <1>3, <2>1 DEF HistoryType
  <1>9. MadeInv'
    <2>1. ASSUME NEW e, e.ClientId \in Clients, e.Seq \in Nat, Made(e)
          PROVE  Made(e)'
      BY <1>1, <1>3, <1>4, <2>1 DEF Made, ClerkType
    <2>2. /\ \A s \in Servers : \A k \in DOMAIN log[s] : log[s][k] \in Commands
          /\ \A k \in DOMAIN committed : committed[k] \in Commands
          /\ \A h \in handlers : h.ClientId \in Clients /\ h.Seq \in Nat
      BY Zenon, <1>3, SeqFacts DEF RaftType, HandlerType, HandlerRecords
    <2>3. \A e \in Commands : e.ClientId \in Clients /\ e.Seq \in Nat
      BY Zenon DEF Commands
    <2>4. ASSUME NEW e, e = new
          PROVE  Made(e)'
      BY <1>1, <1>3, <1>4, <1>5, <2>4 DEF Made, ClerkType
    <2>5. \A d \in Clients : call'[d] # NoCall => seq'[d] # 0
      BY <1>1, <1>3, <1>4 DEF MadeInv, ClerkType
    <2>6. \A h \in handlers' : Made(h)'
      BY Zenon, <1>1, <1>3, <2>1, <2>2, <2>4 DEF MadeInv
    <2>7. ASSUME NEW s \in Servers, NEW k \in DOMAIN log[s]
          PROVE  Made(log[s][k])'
      BY SMTT(30), <1>1, <1>2, <1>3, <1>4, <2>2, <2>3 DEF MadeInv, Made, ClerkType
    <2>8. ASSUME NEW k \in DOMAIN committed
          PROVE  Made(committed[k])'
      BY <1>1, <1>2, <1>3, <1>4, <2>2, <2>3 DEF MadeInv, Made, ClerkType
    <2> QED
      BY Zenon, <1>2, <2>5, <2>6, <2>7, <2>8 DEF MadeInv
  <1>10. AwaitedInv'
    <2>1. \A h \in handlers : h.ClientId \in Clients /\ h.attempt \in Nat
      BY Zenon, <1>3 DEF HandlerType, HandlerRecords
    <2>2. reply[c] = NoReply
      BY Zenon, <1>1, <1>3 DEF StoreInv
    <2>3. \A h \in handlers' :
            /\ h.attempt <= attempt'[h.ClientId]
            /\ h.attempt = attempt'[h.ClientId] =>
                 /\ call'[h.ClientId] # NoCall /\ h.Seq = seq'[h.ClientId] - 1
                 /\ reply[h.ClientId] = NoReply
      BY <1>1, <1>3, <1>4, <1>5, <2>1, <2>2 DEF AwaitedInv, ClerkType
    <2>4. \A h, g \in handlers' : h.ClientId = g.ClientId /\ h.attempt = g.attempt => h = g
      BY <1>1, <1>3, <1>4, <1>5, <2>1 DEF AwaitedInv
    <2> QED
      BY Zenon, <1>1, <2>3, <2>4 DEF AwaitedInv
  <1>11. StoreInv'
    <2>1. Final' = Final /\ store' = store /\ committed' = committed /\ reply' = reply
      BY Zenon, <1>1, <1>2 DEF Final
    <2>2. \A k \in Keys : store'[k] = Value(Final.kv, k)
      BY Zenon, <1>3, <2>1 DEF StoreInv
    <2>3. ASSUME NEW d \in Clients, d # c
          PROVE  call'[d] = call[d] /\ seq'[d] = seq[d] /\ answers'[d] = answers[d]
      BY Zenon, <1>1, <1>3, <2>3 DEF ClerkType, HistoryType
    <2>4. /\ call'[c] = op /\ seq'[c] = seq[c] + 1 /\ answers'[c] = FirstAnswers(store, op)
          /\ Final.requestCache[c] = seq[c] - 1
      BY Zenon, <1>1, <1>3 DEF ClerkType, HistoryType, StoreInv
    <2>5. \A j \in 1 .. Len(committed) : committed[j].ClientId = c => committed[j].Seq # seq[c]
      BY <1>3, <1>4, SeqFacts DEF MadeInv, Made, RaftType, Commands
    <2>6. ASSUME NEW d \in Clients
          PROVE  /\ call'[d] = NoCall => Final.requestCache[d] = seq'[d] - 1 /\ reply[d] = NoReply
                 /\ call'[d] # NoCall => Final.requestCache[d] \in {seq'[d] - 2, seq'[d] - 1}
                 /\ call'[d].OpType \in {"Put", "Append"} =>
                      answers'[d] = IF Final.requestCache[d] = seq'[d] - 1 THEN {<<>>} ELSE {}
                 /\ call'[d].OpType = "Get" =>
                      /\ store[call'[d].Key] \in answers'[d]
                      /\ \A j \in 1 .. Len(committed) :
                           committed[j].ClientId = d /\ committed[j].Seq = seq'[d] - 1
                           => \A n \in j .. Len(committed) :
                                Value(outcomes[n].kv, call'[d].Key) \in answers'[d]
      <3>1. CASE d = c
        BY <1>4, <2>4, <2>5, <3>1 DEF FirstAnswers
      <3>2. CASE d # c
        BY <1>3, <2>3, <3>2 DEF StoreInv
      <3> QED
        BY Zenon, <3>1, <3>2
    <2> QED
      BY Zenon, <1>1, <2>1, <2>2, <2>6 DEF StoreInv
  <1>12. ReplyInv'
    <2>1. Final' = Final /\ reply' = reply
      BY Zenon, <1>1, <1>2 DEF Final
    <2>2. reply[c].Err = "none"
      BY <1>1, <1>3 DEF StoreInv, NoReply
    <2>3. \A d \in Clients : d # c => call'[d] = call[d] /\ seq'[d] = seq[d]
                                      /\ answers'[d] = answers[d]
      BY Zenon, <1>1, <1>3 DEF ClerkType, HistoryType
    <2> QED
      BY Zenon, <1>3, <2>1, <2>2, <2>3 DEF ReplyInv
  <1>13. RaftType' /\ ServerType' /\ OutcomeInv' /\ ReplicaInv'
    BY Zenon, <1>1, <1>2, <1>3, SameRaft, SameServer, SameOutcome, SameReplica
  <1> QED
    BY Zenon, <1>6, <1>7, <1>8, <1>9, <1>10, <1>11, <1>12, <1>13 DEF KvInv, TypeInv

\* A clerk tries the next server.
LEMMA RetryKvInv ==
    ASSUME KvInv, NEW c \in Clients, Retry(c)
    PROVE  KvInv'
  <1> DEFINE new == NewHandler(c, call[c], seq[c] - 1, NextServer(c))
  <1>1. /\ call[c] # NoCall /\ attempt[c] < MaxAttempts
        /\ leader' = [leader EXCEPT ![c] = NextServer(c)]
        /\ attempt' = [attempt EXCEPT ![c] = attempt[c] + 1]
        /\ handlers' = handlers \cup {new}
        /\ reply' = [reply EXCEPT ![c] = NoReply]
        /\ UNCHANGED <<raftVars, serverVars, applyVars, historyVars, seq, call, returned>>
    BY Zenon DEF Retry
  <1>2. UNCHANGED <<log, committed, notify, kv, requestCache, lastApplied, snapshot, next, upTo,
                    store, answers, outcomes>>
    BY Zenon, <1>1 DEF raftVars, serverVars, applyVars, historyVars
  <1>3. /\ TypeInv /\ RaftType /\ ClerkType /\ HandlerType /\ ServerType /\ HistoryType
        /\ MadeInv /\ AwaitedInv /\ ChannelInv /\ OutcomeInv /\ ReplicaInv /\ StoreInv /\ ReplyInv
    BY Zenon DEF KvInv, TypeInv
  <1>4. /\ call[c] \in Ops /\ seq[c] \in Nat /\ seq[c] - 1 \in Nat /\ attempt[c] \in Nat
    BY <1>1, <1>3 DEF ClerkType, MadeInv
  <1>5. NextServer(c) \in Servers
    <2>1. leader[c] \in Nat
      BY <1>3, ServersAssumption DEF ClerkType
    <2> QED
      BY <2>1, ServersAssumption DEF NextServer
  <1>6. /\ new.op = call[c] /\ new.ClientId = c /\ new.Seq = seq[c] - 1
        /\ new.attempt = attempt[c] + 1
    BY Zenon DEF NewHandler
  <1>7. HandlerType' /\ ChannelInv'
    BY Zenon, <1>1, <1>2, <1>3, <1>4, <1>5, SendRpc
  <1> HIDE DEF new
  <1>8. ClerkType'
    BY <1>1, <1>3, <1>4, <1>5, KvBounds DEF ClerkType, Replies
  <1>9. MadeInv'
    <2>1. Made(new)
      BY <1>1, <1>4, <1>6 DEF Made
    <2>2. \A h \in handlers' : Made(h)
      BY Zenon, <1>1, <1>3, <2>1 DEF MadeInv
    <2>3. \A h \in handlers' : Made(h)'
      BY Zenon, <1>1, <2>2 DEF Made
    <2> QED
      BY Zenon, <1>1, <1>2, <1>3, <2>3 DEF MadeInv, Made
  <1>10. AwaitedInv'
    <2>1. \A h \in handlers : h.ClientId \in Clients /\ h.attempt \in Nat
      BY Zenon, <1>3 DEF HandlerType, HandlerRecords
    <2>2. \A h \in handlers' :
            /\ h.attempt <= attempt'[h.ClientId]
            /\ h.attempt = attempt'[h.ClientId] =>
                 /\ call[h.ClientId] # NoCall /\ h.Seq = seq[h.ClientId] - 1
                 /\ reply'[h.ClientId] = NoReply
      BY <1>1, <1>3, <1>4, <1>6, <2>1 DEF AwaitedInv, ClerkType
    <2>3. \A h, g \in handlers' : h.ClientId = g.ClientId /\ h.attempt = g.attempt => h = g
      BY <1>1, <1>3, <1>4, <1>6, <2>1 DEF AwaitedInv
    <2> QED
      BY Zenon, <1>1, <2>2, <2>3 DEF AwaitedInv
  <1>11. \A d \in Clients : reply'[d] = IF d = c THEN NoReply ELSE reply[d]
    BY Zenon, <1>1, <1>3 DEF ClerkType
  <1>12. Final' = Final
    BY Zenon, <1>2 DEF Final
  <1>13. StoreInv'
    BY Zenon, <1>1, <1>2, <1>3, <1>11, <1>12 DEF StoreInv
  <1>14. ReplyInv'
    BY <1>1, <1>2, <1>3, <1>11, <1>12 DEF ReplyInv, NoReply
  <1>15. RaftType' /\ ServerType' /\ HistoryType' /\ OutcomeInv' /\ ReplicaInv'
    BY Zenon, <1>1, <1>2, <1>3, SameRaft, SameServer, SameHistory, SameOutcome, SameReplica
  <1> QED
    BY Zenon, <1>7, <1>8, <1>9, <1>10, <1>13, <1>14, <1>15 DEF KvInv, TypeInv

\* A clerk's method returns: the handler of its last RPC is gone.
LEMMA ReturnKvInv ==
    ASSUME KvInv, NEW c \in Clients, Return(c)
    PROVE  KvInv'
  <1>1. /\ reply[c].Err \in {"OK", "ErrNoKey"}
        /\ returned' = [returned EXCEPT ![c] = IF reply[c].Err = "OK" THEN reply[c].Value ELSE <<>>]
        /\ call' = [call EXCEPT ![c] = NoCall] /\ reply' = [reply EXCEPT ![c] = NoReply]
        /\ answers' = [answers EXCEPT ![c] = {}]
        /\ UNCHANGED <<raftVars, serverVars, applyVars, seq, leader, attempt, handlers, store,
                       outcomes>>
    BY Zenon DEF Return
  <1>2. UNCHANGED <<log, committed, notify, kv, requestCache, lastApplied, snapshot, next, upTo>>
    BY Zenon, <1>1 DEF raftVars, serverVars, applyVars
  <1>3. /\ TypeInv /\ RaftType /\ ClerkType /\ HandlerType /\ ServerType /\ HistoryType
        /\ MadeInv /\ AwaitedInv /\ ChannelInv /\ OutcomeInv /\ ReplicaInv /\ StoreInv /\ ReplyInv
    BY Zenon DEF KvInv, TypeInv
  <1>4. call[c] # NoCall /\ Final.requestCache[c] = seq[c] - 1 /\ reply[c] # NoReply
    BY <1>1, <1>3 DEF ReplyInv, NoReply
  <1>5. ClerkType'
    BY Zenon, <1>1, <1>3 DEF ClerkType, Replies
  <1>6. HistoryType'
    BY Zenon, <1>1, <1>2, <1>3 DEF HistoryType
  <1>7. \A d \in Clients : /\ call'[d] = IF d = c THEN NoCall ELSE call[d]
                           /\ reply'[d] = IF d = c THEN NoReply ELSE reply[d]
                           /\ answers'[d] = IF d = c THEN {} ELSE answers[d]
    BY Zenon, <1>1, <1>3 DEF ClerkType, HistoryType
  <1>8. MadeInv'
    <2>1. /\ \A s \in Servers : \A k \in DOMAIN log[s] : log[s][k] \in Commands
          /\ \A k \in DOMAIN committed : committed[k] \in Commands
          /\ \A h \in handlers : h.ClientId \in Clients
      BY Zenon, <1>3, SeqFacts DEF RaftType, HandlerType, HandlerRecords
    <2>2. \A e \in Commands : e.ClientId \in Clients
      BY Zenon DEF Commands
    <2> QED
      BY <1>1, <1>2, <1>3, <1>7, <2>1, <2>2 DEF MadeInv, Made
  <1>9. AwaitedInv'
    <2>1. \A h \in handlers : h.ClientId \in Clients
      BY Zenon, <1>3 DEF HandlerType, HandlerRecords
    <2>2. \A h \in handlers : h.attempt = attempt[h.ClientId] => h.ClientId # c
      BY Zenon, <1>3, <1>4 DEF AwaitedInv
    <2> QED
      BY <1>1, <1>3, <1>7, <2>1, <2>2 DEF AwaitedInv
  <1>10. Final' = Final
    BY Zenon, <1>1, <1>2 DEF Final
  <1>11. StoreInv'
    <2>1. NoCall.OpType = "none"
      BY Zenon DEF NoCall
    <2> QED
      BY <1>1, <1>2, <1>3, <1>4, <1>7, <1>10, <2>1 DEF StoreInv
  <1>12. ReplyInv'
    BY <1>1, <1>2, <1>3, <1>7, <1>10 DEF ReplyInv, NoReply
  <1>13. RaftType' /\ ServerType' /\ HandlerType' /\ OutcomeInv' /\ ReplicaInv' /\ ChannelInv'
    BY Zenon, <1>1, <1>2, <1>3, SameRaft, SameServer, SameHandler, SameOutcome, SameReplica, SameChannel
  <1> QED
    BY Zenon, <1>5, <1>6, <1>8, <1>9, <1>11, <1>12, <1>13 DEF KvInv, TypeInv

-----------------------------------------------------------------------------
(***************************************************************************)
(* The RPC handlers.                                                       *)
(***************************************************************************)

\* The answer r is one that the open call of clerk c may be given.
Allowed(c, r) ==
    r.Err \in {"OK", "ErrNoKey"} =>
        /\ Final.requestCache[c] = seq[c] - 1
        /\ NoSentinel => (IF r.Err = "OK" THEN r.Value ELSE <<>>) \in answers[c]

\* A handler returns: its clerk gets the answer only if it still waits.
LEMMA FinishStep ==
    ASSUME KvInv, NEW h \in handlers, NEW r \in Replies, Finish(h, r),
           UNCHANGED <<raftVars, clerkVars, historyVars>>,
           h.attempt = attempt[h.ClientId] => Allowed(h.ClientId, r)
    PROVE  /\ handlers' = handlers \ {h}
           /\ RaftType' /\ ClerkType' /\ HistoryType' /\ MadeInv' /\ AwaitedInv' /\ OutcomeInv'
           /\ StoreInv' /\ ReplyInv'
  <1> DEFINE c == h.ClientId
  <1>1. /\ handlers' = handlers \ {h}
        /\ reply' = IF h.attempt = attempt[c] THEN [reply EXCEPT ![c] = r] ELSE reply
    BY Zenon DEF Finish
  <1>2. UNCHANGED <<log, committed, seq, leader, attempt, call, returned, store, answers, outcomes>>
    BY Zenon DEF raftVars, clerkVars, historyVars
  <1>3. /\ TypeInv /\ RaftType /\ ClerkType /\ HandlerType /\ ServerType /\ HistoryType
        /\ MadeInv /\ AwaitedInv /\ ChannelInv /\ OutcomeInv /\ ReplicaInv /\ StoreInv /\ ReplyInv
    BY Zenon DEF KvInv, TypeInv
  <1>4. c \in Clients /\ \A g \in handlers : g.ClientId \in Clients
    BY Zenon, <1>3 DEF HandlerType, HandlerRecords
  <1>5. \A d \in Clients : reply'[d] = IF d = c /\ h.attempt = attempt[c] THEN r ELSE reply[d]
    BY Zenon, <1>1, <1>3, <1>4 DEF ClerkType
  <1>6. h.attempt = attempt[c] => call[c] # NoCall /\ reply[c] = NoReply
    BY Zenon, <1>3 DEF AwaitedInv
  <1>7. ClerkType'
    BY Zenon, <1>1, <1>2, <1>3, <1>4 DEF ClerkType
  <1>8. AwaitedInv'
    <2>1. \A g \in handlers' : g.attempt = attempt[g.ClientId]
                                 => ~(g.ClientId = c /\ h.attempt = attempt[c])
      BY Zenon, <1>1, <1>3 DEF AwaitedInv
    <2>2. \A g \in handlers' : g.attempt = attempt[g.ClientId] => reply'[g.ClientId] = NoReply
      BY <1>1, <1>3, <1>4, <1>5, <2>1 DEF AwaitedInv
    <2> QED
      BY Zenon, <1>1, <1>2, <1>3, <2>2 DEF AwaitedInv
  <1>9. Final' = Final
    BY Zenon, <1>2 DEF Final
  <1> HIDE DEF c
  <1>10. StoreInv'
    <2>1. \A d \in Clients : call[d] = NoCall => reply'[d] = reply[d]
      BY Zenon, <1>5, <1>6
    <2> QED
      BY Zenon, <1>2, <1>3, <1>9, <2>1 DEF StoreInv
  <1>11. ReplyInv'
    <2>1. ASSUME NEW d \in Clients, reply'[d].Err \in {"OK", "ErrNoKey"}
          PROVE  /\ call[d] # NoCall /\ Final.requestCache[d] = seq[d] - 1
                 /\ NoSentinel
                    => (IF reply'[d].Err = "OK" THEN reply'[d].Value ELSE <<>>) \in answers[d]
      <3>1. CASE d = c /\ h.attempt = attempt[c]
        BY Zenon, <1>5, <1>6, <2>1, <3>1 DEF Allowed, c
      <3>2. CASE ~(d = c /\ h.attempt = attempt[c])
        BY Zenon, <1>3, <1>5, <2>1, <3>2 DEF ReplyInv
      <3> QED
        BY Zenon, <3>1, <3>2
    <2> QED
      BY Zenon, <1>2, <1>9, <2>1 DEF ReplyInv
  <1>12. RaftType' /\ HistoryType' /\ MadeInv' /\ OutcomeInv'
    BY Zenon, <1>1, <1>2, <1>3, SameRaft, SameHistory, FewerHandlers, SameOutcome
  <1> QED
    BY Zenon, <1>1, <1>7, <1>8, <1>10, <1>11, <1>12

\* With fewer handlers only NoChannelLeaks is in danger.
LEMMA FewerChannels ==
    ASSUME ChannelInv, handlers' \subseteq handlers, attempt' = attempt, NoChannelLeaks'
    PROVE  ChannelInv'
  BY Zenon DEF ChannelInv

\* ErrWrongLeader is a reply that any call may be given.
LEMMA WrongLeaderReply ==
    ErrWrongLeader \in Replies /\ \A c : Allowed(c, ErrWrongLeader)
  BY Zenon DEF Replies, Allowed, ErrWrongLeader

\* A handler whose server is not the leader had no channel.
LEMMA NotLeaderKvInv ==
    ASSUME KvInv, NEW h \in handlers, NotLeader(h)
    PROVE  KvInv'
  <1>1. /\ h.index = 0 /\ Finish(h, ErrWrongLeader)
        /\ UNCHANGED <<raftVars, serverVars, applyVars, clerkVars, historyVars>>
    BY Zenon DEF NotLeader
  <1>2. UNCHANGED <<notify, attempt, committed, outcomes, next, upTo>>
    BY Zenon, <1>1 DEF raftVars, serverVars, applyVars, clerkVars, historyVars
  <1>3. HandlerType /\ ServerType /\ ChannelInv /\ ReplicaInv
    BY Zenon DEF KvInv, TypeInv
  <1>4. /\ handlers' = handlers \ {h}
        /\ RaftType' /\ ClerkType' /\ HistoryType' /\ MadeInv' /\ AwaitedInv' /\ OutcomeInv'
        /\ StoreInv' /\ ReplyInv'
    BY Zenon, <1>1, WrongLeaderReply, FinishStep
  <1>5. NoChannelLeaks'
    <2>1. \A s \in Servers : \A n \in notify[s] : n.index # 0
      BY <1>3 DEF HandlerType
    <2> QED
      BY <1>1, <1>2, <1>3, <1>4, <2>1 DEF ChannelInv, NoChannelLeaks
  <1>6. HandlerType'
    BY Zenon, <1>2, <1>3, <1>4 DEF HandlerType
  <1>7. ChannelInv'
    BY Zenon, <1>2, <1>3, <1>4, <1>5, FewerChannels
  <1>8. ServerType' /\ ReplicaInv'
    BY Zenon, <1>1, <1>2, <1>3, SameServer, SameReplica
  <1> QED
    BY Zenon, <1>4, <1>6, <1>7, <1>8 DEF KvInv, TypeInv

\* A handler that has waited too long removes what is registered for its
\* index.
LEMMA TimeoutKvInv ==
    ASSUME KvInv, NEW h \in handlers, Timeout(h)
    PROVE  KvInv'
  <1>1. /\ notify' = [notify EXCEPT ![h.server] = {e \in notify[h.server] : e.index # h.index}]
        /\ Finish(h, ErrWrongLeader)
        /\ UNCHANGED <<raftVars, kv, requestCache, lastApplied, snapshot, applyVars, clerkVars,
                       historyVars>>
    BY Zenon DEF Timeout
  <1>2. UNCHANGED <<attempt, committed, outcomes, next, upTo, installed>>
    BY Zenon, <1>1 DEF raftVars, applyVars, clerkVars, historyVars
  <1>3. HandlerType /\ ServerType /\ ChannelInv /\ ReplicaInv
    BY Zenon DEF KvInv, TypeInv
  <1>4. /\ handlers' = handlers \ {h}
        /\ RaftType' /\ ClerkType' /\ HistoryType' /\ MadeInv' /\ AwaitedInv' /\ OutcomeInv'
        /\ StoreInv' /\ ReplyInv'
    BY Zenon, <1>1, WrongLeaderReply, FinishStep
  <1>5. \A s \in Servers : notify'[s] = IF s = h.server THEN {e \in notify[s] : e.index # h.index}
                                        ELSE notify[s]
    BY Zenon, <1>1, <1>3 DEF HandlerType
  <1>6. NoChannelLeaks'
    <2> SUFFICES ASSUME NEW s \in Servers, NEW n \in notify'[s]
                 PROVE  \E g \in handlers' : g.server = s /\ g.index = n.index /\ g.ch = n.ch
      BY Zenon DEF NoChannelLeaks
    <2>1. n \in notify[s] /\ ~(s = h.server /\ n.index = h.index)
      BY Zenon, <1>5
    <2>2. PICK g \in handlers : g.server = s /\ g.index = n.index /\ g.ch = n.ch
      BY Zenon, <1>3, <2>1 DEF ChannelInv, NoChannelLeaks
    <2> QED
      BY Zenon, <1>4, <2>1, <2>2
  <1>7. HandlerType'
    <2>1. \A s \in Servers : notify'[s] \in SUBSET [index : 1 .. MaxLog, ch : ChannelNames]
      BY Zenon, <1>3, <1>5 DEF HandlerType
    <2>2. notify' = [s \in Servers |-> notify'[s]]
      BY Zenon, <1>1, <1>3 DEF HandlerType
    <2> QED
      BY Zenon, <1>3, <1>4, <2>1, <2>2 DEF HandlerType
  <1>8. ChannelInv'
    BY Zenon, <1>2, <1>3, <1>4, <1>6, FewerChannels
  <1>9. ServerType'
    BY Zenon, <1>1, <1>2, <1>3 DEF ServerType
  <1>10. ReplicaInv'
    BY Zenon, <1>1, <1>2, <1>3 DEF ReplicaInv, ServerHolds, SnapshotHolds
  <1> QED
    BY Zenon, <1>4, <1>7, <1>8, <1>9, <1>10 DEF KvInv, TypeInv

\* The channel that a handler is given is one that another handler waits on
\* for the same index, or has its own name.
LEMMA NotifyChannel ==
    ASSUME ChannelInv, NEW h \in handlers, NEW s \in Servers, NEW index
    PROVE  \/ \E g \in handlers : g.server = s /\ g.index = index /\ g.ch = getNotifyCh(s, index, h)
           \/ getNotifyCh(s, index, h) = <<h.ClientId, h.attempt>>
  <1>1. CASE \E e \in notify[s] : e.index = index
    <2> DEFINE e == CHOOSE x \in notify[s] : x.index = index
    <2>1. e \in notify[s] /\ e.index = index
      BY Zenon, <1>1
    <2>2. getNotifyCh(s, index, h) = e.ch
      BY Zenon, <1>1 DEF getNotifyCh
    <2> HIDE DEF e
    <2> QED
      BY <2>1, <2>2 DEF ChannelInv, NoChannelLeaks
  <1>2. CASE ~ \E e \in notify[s] : e.index = index
    BY Zenon, <1>2 DEF getNotifyCh
  <1> QED
    BY Zenon, <1>1, <1>2

\* A handler once its command is in the log.
Started(h, i, ch) == [h EXCEPT !.index = i, !.ch = ch]

\* The fields of a handler that has started.
LEMMA StartedHandler ==
    ASSUME NEW h \in HandlerRecords, NEW i, NEW ch
    PROVE  /\ Started(h, i, ch).op = h.op
           /\ Started(h, i, ch).ClientId = h.ClientId
           /\ Started(h, i, ch).Seq = h.Seq
           /\ Started(h, i, ch).attempt = h.attempt
           /\ Started(h, i, ch).server = h.server
           /\ Started(h, i, ch).index = i
           /\ Started(h, i, ch).ch = ch
           /\ i \in 0 .. MaxLog /\ ch \in ChannelNames
                => Started(h, i, ch) \in HandlerRecords
  BY Zenon DEF HandlerRecords, Started

\* A handler starts agreement on its command and registers a channel.
LEMMA StartOpKvInv ==
    ASSUME KvInv, NEW h \in handlers, StartOp(h)
    PROVE  KvInv'
  <1> DEFINE s == h.server
             index == Len(log[s]) + 1
             ch == getNotifyCh(s, index, h)
             cmd == [op |-> h.op, ClientId |-> h.ClientId, Seq |-> h.Seq]
             new == Started(h, index, ch)
  <1>1. /\ h.index = 0 /\ Len(log[s]) < MaxLog
        /\ log' = [log EXCEPT ![s] = Append(log[s], cmd)]
        /\ notify' = [notify EXCEPT ![s] = notify[s] \cup {[index |-> index, ch |-> ch]}]
        /\ handlers' = (handlers \ {h}) \cup {new}
        /\ UNCHANGED <<committed, kv, requestCache, lastApplied, snapshot, applyVars, clerkVars,
                       historyVars, reply>>
    BY Zenon DEF StartOp, StartCommand, Started
  <1>2. UNCHANGED <<seq, leader, attempt, call, returned, store, answers, outcomes, next, upTo,
                    installed>>
    BY Zenon, <1>1 DEF applyVars, clerkVars, historyVars
  <1>3. /\ TypeInv /\ RaftType /\ ClerkType /\ HandlerType /\ ServerType /\ HistoryType
        /\ MadeInv /\ AwaitedInv /\ ChannelInv /\ OutcomeInv /\ ReplicaInv /\ StoreInv /\ ReplyInv
    BY Zenon DEF KvInv, TypeInv
  <1>4. /\ h.op \in Ops /\ h.ClientId \in Clients /\ h.Seq \in Nat /\ h.attempt \in Nat
        /\ s \in Servers
    BY ZenonT(40), <1>3 DEF HandlerType, HandlerRecords
  <1>5. log[s] \in Seq(Commands) /\ Len(log[s]) \in Nat /\ index \in 1 .. MaxLog
    <2>1. log[s] \in Seq(Commands) /\ Len(log[s]) \in Nat
      BY Zenon, <1>3, <1>4, SeqFacts DEF RaftType
    <2>2. Len(log[s]) < MaxLog
      BY Zenon, <1>1
    <2> QED
      BY <2>1, <2>2, RaftBounds
  <1>6. cmd \in Commands /\ cmd.op = h.op /\ cmd.ClientId = h.ClientId /\ cmd.Seq = h.Seq
    BY Zenon, <1>4 DEF Commands
  <1>7. /\ new.op = h.op /\ new.ClientId = h.ClientId /\ new.Seq = h.Seq
        /\ new.attempt = h.attempt /\ new.server = s /\ new.index = index /\ new.ch = ch
        /\ ch \in ChannelNames => new \in HandlerRecords
    <2>1. h \in HandlerRecords
      BY Zenon, <1>3 DEF HandlerType
    <2>2. index \in 0 .. MaxLog
      BY <1>5
    <2> HIDE DEF index, ch
    <2> QED
      BY <2>1, <2>2, StartedHandler
  <1>8. \/ \E g \in handlers : g.server = s /\ g.index = index /\ g.ch = ch
        \/ ch = <<h.ClientId, h.attempt>>
    BY Zenon, <1>3, <1>4, NotifyChannel
  <1> HIDE DEF index, ch, cmd, new
  <1>9. ch \in ChannelNames /\ ch[2] <= attempt[ch[1]]
    <2>1. CASE \E g \in handlers : g.server = s /\ g.index = index /\ g.ch = ch
      BY <1>3, <1>5, <2>1 DEF ChannelInv
    <2>2. CASE ch = <<h.ClientId, h.attempt>>
      BY Zenon, <1>3, <1>4, <2>2 DEF AwaitedInv, ChannelNames
    <2> QED
      BY Zenon, <1>8, <2>1, <2>2
  <1>10. RaftType'
    BY Zenon, <1>1, <1>3, <1>4, <1>5, <1>6, AppendFacts DEF RaftType
  <1>11. HandlerType'
    <2>1. new \in HandlerRecords
      BY Zenon, <1>7, <1>9
    <2>2. [index |-> index, ch |-> ch] \in [index : 1 .. MaxLog, ch : ChannelNames]
      BY Zenon, <1>5, <1>9
    <2> QED
      BY Zenon, <1>1, <1>3, <1>4, <2>1, <2>2 DEF HandlerType
  <1>12. MadeInv'
    <2>1. Made(cmd) /\ Made(new)
      BY Zenon, <1>3, <1>6, <1>7 DEF MadeInv, Made
    <2>2. \A g \in handlers' : Made(g)
      BY Zenon, <1>1, <1>3, <2>1 DEF MadeInv
    <2>3. ASSUME NEW t \in Servers, NEW k \in DOMAIN log'[t]
          PROVE  Made(log'[t][k])
      <3>1. CASE t # s
        BY <1>1, <1>3, <1>4, <2>3, <3>1, Zenon DEF RaftType, MadeInv
      <3>2. CASE t = s
        <4>1. log'[s] = Append(log[s], cmd)
          BY Zenon, <1>1, <1>3, <1>4 DEF RaftType
        <4>2. (k \in DOMAIN log[s] /\ log'[s][k] = log[s][k]) \/ log'[s][k] = cmd
          BY <1>5, <1>6, <3>2, <4>1, AppendFacts, SeqFacts
        <4> QED
          BY Zenon, <1>3, <1>4, <2>1, <3>2, <4>2 DEF MadeInv
      <3> QED
        BY Zenon, <3>1, <3>2
    <2>4. /\ \A g \in handlers' : Made(g)'
          /\ \A t \in Servers : \A k \in DOMAIN log'[t] : Made(log[t][k])'
      BY Zenon, <1>2, <2>2, <2>3 DEF Made
    <2> QED
      BY Zenon, <1>1, <1>2, <1>3, <2>4 DEF MadeInv, Made
  <1>13. AwaitedInv'
    BY <1>1, <1>2, <1>3, <1>7 DEF AwaitedInv
  <1>14. ChannelInv'
    <2>1. \A g \in handlers' : IF g.index = 0 THEN g.ch = <<>>
                               ELSE g.ch \in ChannelNames /\ g.ch[2] <= attempt[g.ch[1]]
      BY <1>1, <1>3, <1>5, <1>7, <1>9 DEF ChannelInv
    <2>2. \A f, g \in handlers' : f.index = 0 => g.ch # <<f.ClientId, f.attempt>>
      <3>1. ASSUME NEW f \in handlers, f # h, f.index = 0
            PROVE  ch # <<f.ClientId, f.attempt>>
        <4>1. CASE \E g \in handlers : g.server = s /\ g.index = index /\ g.ch = ch
          BY Zenon, <1>3, <3>1, <4>1 DEF ChannelInv
        <4>2. CASE ch = <<h.ClientId, h.attempt>>
          BY Zenon, <1>3, <3>1, <4>2 DEF AwaitedInv
        <4> QED
          BY Zenon, <1>8, <4>1, <4>2
      <3>2. \A f \in handlers' : f.index = 0 => f \in handlers /\ f # h
        BY <1>1, <1>5, <1>7
      <3>3. \A g \in handlers' : g \in handlers \/ g.ch = ch
        BY Zenon, <1>1, <1>7
      <3> QED
        BY Zenon, <1>3, <3>1, <3>2, <3>3 DEF ChannelInv
    <2>3. \A f, g \in handlers' : /\ f.index # 0 /\ g.index # 0
                                  /\ f.server = g.server /\ f.ch = g.ch
                                  => f.index = g.index
      <3>1. ASSUME NEW g \in handlers, g.index # 0, g.server = s, g.ch = ch
            PROVE  g.index = index
        <4>1. CASE \E f \in handlers : f.server = s /\ f.index = index /\ f.ch = ch
          BY <1>3, <1>5, <3>1, <4>1 DEF ChannelInv
        <4>2. CASE ch = <<h.ClientId, h.attempt>>
          BY Zenon, <1>1, <1>3, <3>1, <4>2 DEF ChannelInv
        <4> QED
          BY Zenon, <1>8, <4>1, <4>2
      <3> QED
        BY <1>1, <1>3, <1>7, <3>1 DEF ChannelInv
    <2>4. NoChannelLeaks'
      <3> SUFFICES ASSUME NEW t \in Servers, NEW n \in notify'[t]
                   PROVE  \E g \in handlers' : g.server = t /\ g.index = n.index /\ g.ch = n.ch
        BY Zenon DEF NoChannelLeaks
      <3>1. CASE n \in notify[t]
        <4>1. n.index # 0
          BY <1>3, <3>1 DEF HandlerType
        <4>2. PICK g \in handlers : g.server = t /\ g.index = n.index /\ g.ch = n.ch
          BY Zenon, <1>3, <3>1 DEF ChannelInv, NoChannelLeaks
        <4> QED
          BY Zenon, <1>1, <4>1, <4>2
      <3>2. CASE n \notin notify[t]
        <4>1. t = s /\ n = [index |-> index, ch |-> ch]
          BY Zenon, <1>1, <1>3, <1>4, <3>2 DEF HandlerType
        <4> QED
          BY Zenon, <1>1, <1>7, <4>1
      <3> QED
        BY Zenon, <3>1, <3>2
    <2> QED
      BY Zenon, <1>2, <2>1, <2>2, <2>3, <2>4 DEF ChannelInv
  <1>15. ServerType'
    BY Zenon, <1>1, <1>2, <1>3 DEF ServerType
  <1>16. ReplicaInv'
    BY Zenon, <1>1, <1>2, <1>3 DEF ReplicaInv, ServerHolds, SnapshotHolds
  <1>17. ClerkType' /\ HistoryType' /\ OutcomeInv' /\ StoreInv' /\ ReplyInv'
    BY Zenon, <1>1, <1>2, <1>3, SameClerk, SameHistory, SameOutcome, SameStore, SameReply
  <1> QED
    BY Zenon, <1>10, <1>11, <1>12, <1>13, <1>14, <1>15, <1>16, <1>17 DEF KvInv, TypeInv

-----------------------------------------------------------------------------
(***************************************************************************)
(* The goroutine update() and the loop that feeds it.                      *)
(***************************************************************************)

\* A step of one server: what its clerks and the others see is as before.
LEMMA QuietService ==
    ASSUME KvInv, UNCHANGED <<committed, notify, clerkVars, historyVars, handlers, reply>>
    PROVE  /\ ClerkType' /\ HandlerType' /\ HistoryType' /\ AwaitedInv' /\ ChannelInv'
           /\ OutcomeInv' /\ StoreInv' /\ ReplyInv'
  <1>1. /\ ClerkType /\ HandlerType /\ HistoryType /\ AwaitedInv /\ ChannelInv /\ OutcomeInv
        /\ StoreInv /\ ReplyInv
    BY Zenon DEF KvInv, TypeInv
  <1>2. UNCHANGED <<seq, leader, attempt, call, returned, store, answers, outcomes>>
    BY Zenon DEF clerkVars, historyVars
  <1> QED
    BY Zenon, <1>1, <1>2, SameClerk, SameHandler, SameHistory, SameAwaited, SameChannel, SameOutcome,
       SameStore, SameReply

\* A step of server s keeps ReplicaInv if it does so for s.
LEMMA OneReplica ==
    ASSUME ReplicaInv, NEW s \in Servers, UNCHANGED <<committed, outcomes>>,
           \A t \in Servers :
             t # s => /\ kv'[t] = kv[t] /\ requestCache'[t] = requestCache[t]
                      /\ lastApplied'[t] = lastApplied[t] /\ snapshot'[t] = snapshot[t]
                      /\ next'[t] = next[t] /\ upTo'[t] = upTo[t],
           upTo'[s] <= Len(committed) /\ 1 <= next'[s] /\ next'[s] <= upTo'[s] + 1,
           NEW m \in 0 .. Len(committed), ServerHolds(s, m)',
           NEW n \in 0 .. Len(committed), SnapshotHolds(s, n)'
    PROVE  ReplicaInv'
  <1> SUFFICES ASSUME NEW t \in Servers
               PROVE  /\ upTo'[t] <= Len(committed) /\ 1 <= next'[t] /\ next'[t] <= upTo'[t] + 1
                      /\ \E i \in 0 .. Len(committed) : ServerHolds(t, i)'
                      /\ \E i \in 0 .. Len(committed) : SnapshotHolds(t, i)'
    BY Zenon DEF ReplicaInv
  <1>1. CASE t = s
    BY <1>1, Zenon
  <1>2. CASE t # s
    <2>1. /\ upTo'[t] <= Len(committed) /\ 1 <= next'[t] /\ next'[t] <= upTo'[t] + 1
      BY Zenon, <1>2 DEF ReplicaInv
    <2>2. PICK i \in 0 .. Len(committed) : ServerHolds(t, i)
      BY Zenon DEF ReplicaInv
    <2>3. ServerHolds(t, i)'
      BY Zenon, <1>2, <2>2 DEF ServerHolds
    <2>4. PICK j \in 0 .. Len(committed) : SnapshotHolds(t, j)
      BY Zenon DEF ReplicaInv
    <2>5. SnapshotHolds(t, j)'
      BY Zenon, <1>2, <2>4 DEF SnapshotHolds
    <2> QED
      BY Zenon, <2>1, <2>3, <2>5
  <1> QED
    BY Zenon, <1>1, <1>2

\* What ReplicaInv says of one server, with the witnesses named by PICK.
LEMMA ReplicaFacts ==
    ASSUME KvInv, NEW s \in Servers
    PROVE  /\ Len(committed) \in Nat /\ lastApplied[s] \in Nat /\ snapshot[s].lastApplied \in Nat
           /\ next[s] \in Nat /\ upTo[s] \in Nat
           /\ upTo[s] <= Len(committed) /\ 1 <= next[s] /\ next[s] <= upTo[s] + 1
           /\ \E m \in 0 .. Len(committed) : ServerHolds(s, m)
           /\ \E m \in 0 .. Len(committed) : SnapshotHolds(s, m)
  <1>1. RaftType /\ ServerType /\ ReplicaInv
    BY Zenon DEF KvInv, TypeInv
  <1>2. Len(committed) \in Nat
    BY Zenon, <1>1, SeqFacts DEF RaftType
  <1>3. /\ lastApplied[s] \in Nat /\ snapshot[s].lastApplied \in Nat
        /\ next[s] \in Nat /\ upTo[s] \in Nat
    BY Zenon, <1>1 DEF ServerType
  <1> QED
    BY Zenon, <1>1, <1>2, <1>3 DEF ReplicaInv

\* Raft takes the commands up to n from the log.
LEMMA sendCommandsKvInv ==
    ASSUME KvInv, NEW s \in Servers, NEW n \in 1 .. MaxLog, sendCommands(s, n)
    PROVE  KvInv'
  <1>1. /\ n >= next[s] /\ n <= Len(committed) /\ upTo' = [upTo EXCEPT ![s] = n]
        /\ UNCHANGED <<raftVars, serverVars, next, installed, clerkVars, historyVars,
                       handlers, reply>>
    BY Zenon DEF sendCommands, Holds
  <1>2. /\ UNCHANGED <<log, committed, notify, kv, requestCache, lastApplied, snapshot, outcomes,
                       seq, call>>
    BY Zenon, <1>1 DEF raftVars, serverVars, historyVars, clerkVars
  <1>3. RaftType /\ ServerType /\ MadeInv /\ ReplicaInv
    BY Zenon DEF KvInv, TypeInv
  <1>4. /\ ClerkType' /\ HandlerType' /\ HistoryType' /\ AwaitedInv' /\ ChannelInv'
        /\ OutcomeInv' /\ StoreInv' /\ ReplyInv'
    BY Zenon, <1>1, <1>2, QuietService
  <1>5. ServerType'
    BY <1>1, <1>2, <1>3 DEF ServerType
  <1>6. ReplicaInv'
    <2>1. PICK m \in 0 .. Len(committed) : ServerHolds(s, m)
      BY Zenon, ReplicaFacts
    <2>2. PICK i \in 0 .. Len(committed) : SnapshotHolds(s, i)
      BY Zenon, ReplicaFacts
    <2>3. ServerHolds(s, m)' /\ SnapshotHolds(s, i)'
      BY Zenon, <1>1, <1>2, <2>1, <2>2 DEF ServerHolds, SnapshotHolds
    <2>4. upTo'[s] <= Len(committed) /\ 1 <= next'[s] /\ next'[s] <= upTo'[s] + 1
      BY <1>1, <1>3 DEF ServerType, ReplicaInv
    <2>5. \A t \in Servers :
             t # s => /\ kv'[t] = kv[t] /\ requestCache'[t] = requestCache[t]
                      /\ lastApplied'[t] = lastApplied[t] /\ snapshot'[t] = snapshot[t]
                      /\ next'[t] = next[t] /\ upTo'[t] = upTo[t]
      BY Zenon, <1>1, <1>2, <1>3 DEF ServerType
    <2> QED
      BY Zenon, <1>2, <1>3, <2>3, <2>4, <2>5, OneReplica
  <1>7. RaftType' /\ MadeInv'
    BY Zenon, <1>1, <1>2, <1>3, SameRaft, SameMade
  <1> QED
    BY Zenon, <1>4, <1>5, <1>6, <1>7 DEF KvInv, TypeInv

\* The service, or its next incarnation, reads the snapshot.
LEMMA ReadSnapshotFacts ==
    ASSUME KvInv, NEW s \in Servers, readSnapshot(s), snapshot' = snapshot
    PROVE  /\ kv' \in [Servers -> Maps] /\ requestCache' \in [Servers -> Caches]
           /\ lastApplied' \in [Servers -> Nat]
           /\ kv'[s] = snapshot[s].kv /\ requestCache'[s] = snapshot[s].requestCache
           /\ lastApplied'[s] = snapshot[s].lastApplied
           /\ \A t \in Servers : t # s => /\ kv'[t] = kv[t] /\ requestCache'[t] = requestCache[t]
                                          /\ lastApplied'[t] = lastApplied[t]
  <1>1. ServerType
    BY Zenon DEF KvInv, TypeInv
  <1>2. snapshot[s].kv \in Maps /\ snapshot[s].requestCache \in Caches
        /\ snapshot[s].lastApplied \in Nat
    BY Zenon, <1>1 DEF ServerType
  <1> QED
    BY Zenon, <1>1, <1>2 DEF ServerType, readSnapshot

\* Raft sends the snapshot and goes on after it.
LEMMA sendSnapshotKvInv ==
    ASSUME KvInv, NEW s \in Servers, sendSnapshot(s)
    PROVE  KvInv'
  <1> DEFINE n == snapshot[s].lastApplied
  <1>1. /\ installed' = [installed EXCEPT ![s] = FALSE]
        /\ next' = [next EXCEPT ![s] = n + 1] /\ upTo' = [upTo EXCEPT ![s] = n]
        /\ \/ n > lastApplied[s] /\ readSnapshot(s)
           \/ n <= lastApplied[s] /\ UNCHANGED <<kv, requestCache, lastApplied>>
        /\ UNCHANGED <<raftVars, notify, snapshot, clerkVars, historyVars, handlers, reply>>
    <2>1. lastApplied[s] \in Nat /\ n \in Nat
      BY ReplicaFacts, Zenon
    <2> QED
      BY <2>1 DEF sendSnapshot
  <1>2. UNCHANGED <<log, committed, outcomes, seq, call>>
    BY Zenon, <1>1 DEF raftVars, historyVars, clerkVars
  <1>3. RaftType /\ ServerType /\ MadeInv /\ ReplicaInv
    BY Zenon DEF KvInv, TypeInv
  <1>4. /\ ClerkType' /\ HandlerType' /\ HistoryType' /\ AwaitedInv' /\ ChannelInv'
        /\ OutcomeInv' /\ StoreInv' /\ ReplyInv'
    BY Zenon, <1>1, <1>2, QuietService
  <1>5. n \in Nat /\ next'[s] = n + 1 /\ upTo'[s] = n
    BY Zenon, <1>1, <1>3 DEF ServerType
  <1>6. PICK m \in 0 .. Len(committed) : ServerHolds(s, m)
    BY Zenon, ReplicaFacts
  <1>7. PICK i \in 0 .. Len(committed) : SnapshotHolds(s, i)
    BY Zenon, ReplicaFacts
  <1>8. n <= i /\ Len(committed) \in Nat /\ SnapshotHolds(s, i)'
    BY Zenon, <1>1, <1>2, <1>7, ReplicaFacts DEF SnapshotHolds
  <1>9. upTo'[s] <= Len(committed) /\ 1 <= next'[s] /\ next'[s] <= upTo'[s] + 1
    BY <1>5, <1>8
  <1>10. \A t \in Servers : t # s => snapshot'[t] = snapshot[t] /\ next'[t] = next[t]
                                     /\ upTo'[t] = upTo[t]
    BY Zenon, <1>1, <1>3 DEF ServerType
  <1>11. RaftType' /\ MadeInv'
    BY Zenon, <1>1, <1>2, <1>3, SameRaft, SameMade
  <1> HIDE DEF n
  <1>12. CASE readSnapshot(s)
    <2>1. /\ kv' \in [Servers -> Maps] /\ requestCache' \in [Servers -> Caches]
          /\ lastApplied' \in [Servers -> Nat]
          /\ kv'[s] = snapshot[s].kv /\ requestCache'[s] = snapshot[s].requestCache
          /\ lastApplied'[s] = n
          /\ \A t \in Servers : t # s => /\ kv'[t] = kv[t] /\ requestCache'[t] = requestCache[t]
                                         /\ lastApplied'[t] = lastApplied[t]
      BY Zenon, <1>1, <1>12, ReadSnapshotFacts DEF n
    <2>2. ServerType'
      BY SMTT(30), <1>1, <1>3, <1>5, <2>1 DEF ServerType
    <2>3. ServerHolds(s, i)'
      BY <1>2, <1>5, <1>7, <1>8, <2>1 DEF ServerHolds, SnapshotHolds
    <2>4. ReplicaInv'
      BY Zenon, <1>2, <1>3, <1>8, <1>9, <1>10, <2>1, <2>3, OneReplica
    <2> QED
      BY Zenon, <1>4, <1>11, <2>2, <2>4 DEF KvInv, TypeInv
  <1>13. CASE n <= lastApplied[s] /\ UNCHANGED <<kv, requestCache, lastApplied>>
    <2>1. ServerType'
      BY SMTT(30), <1>1, <1>3, <1>5, <1>13 DEF ServerType
    <2>2. lastApplied[s] \in Nat /\ lastApplied[s] <= m
      BY Zenon, <1>3, <1>6 DEF ServerType, ServerHolds
    <2>3. ServerHolds(s, m)'
      BY <1>2, <1>5, <1>6, <1>13, <2>2 DEF ServerHolds
    <2>4. ReplicaInv'
      BY Zenon, <1>2, <1>3, <1>8, <1>9, <1>10, <1>13, <2>3, OneReplica
    <2> QED
      BY Zenon, <1>4, <1>11, <2>1, <2>4 DEF KvInv, TypeInv
  <1> QED
    BY Zenon, <1>1, <1>12, <1>13

\* A log that changes in one server is made of commands that clerks made.
LEMMA OneLog ==
    ASSUME RaftType, MadeInv, NEW s \in Servers, NEW q \in Seq(Commands),
           \A k \in DOMAIN q : Made(q[k]), log' = [log EXCEPT ![s] = q],
           handlers' \subseteq handlers, UNCHANGED <<committed, seq, call>>
    PROVE  RaftType' /\ MadeInv'
  <1>1. RaftType'
    BY Zenon DEF RaftType
  <1>2. ASSUME NEW t \in Servers, NEW k \in DOMAIN log'[t]
        PROVE  Made(log'[t][k])
    <2>1. log'[t] = IF t = s THEN q ELSE log[t]
      BY Zenon DEF RaftType
    <2> QED
      BY Zenon, <2>1 DEF MadeInv
  <1>3. \A t \in Servers : \A k \in DOMAIN log'[t] : Made(log[t][k])'
    BY <1>2 DEF Made
  <1>4. /\ \A c \in Clients : call'[c] # NoCall => seq'[c] # 0
        /\ \A k \in DOMAIN committed' : Made(committed[k])'
        /\ \A h \in handlers' : Made(h)'
    BY Zenon DEF MadeInv, Made
  <1> QED
    BY Zenon, <1>1, <1>3, <1>4 DEF MadeInv

\* A prefix of a sequence of commands.
LEMMA PrefixMade ==
    ASSUME NEW q \in Seq(Commands), \A k \in DOMAIN q : Made(q[k]),
           NEW n \in Nat, n <= Len(q)
    PROVE  /\ SubSeq(q, 1, n) \in Seq(Commands)
           /\ \A k \in DOMAIN SubSeq(q, 1, n) : Made(SubSeq(q, 1, n)[k])
  <1>1. DOMAIN q = 1 .. Len(q) /\ Len(q) \in Nat /\ \A k \in 1 .. Len(q) : q[k] \in Commands
    BY Zenon, SeqFacts
  <1>2. /\ SubSeq(q, 1, n) \in Seq(Commands) /\ Len(SubSeq(q, 1, n)) = n
        /\ \A k \in 1 .. n : SubSeq(q, 1, n)[k] = q[k]
    BY PrefixFacts
  <1>3. DOMAIN SubSeq(q, 1, n) = 1 .. n
    BY Zenon, <1>2, SeqFacts
  <1>4. \A k \in 1 .. n : k \in DOMAIN q
    BY <1>1
  <1> QED
    BY Zenon, <1>2, <1>3, <1>4

\* Raft installs the snapshot of a peer.
LEMMA InstallSnapshotKvInv ==
    ASSUME KvInv, NEW s \in Servers, NEW t \in Servers, InstallSnapshot(s, t)
    PROVE  KvInv'
  <1> DEFINE n == snapshot[t].lastApplied
             q == IF Holds(log[s], n) THEN log[s] ELSE SubSeq(committed, 1, n)
  <1>1. /\ log' = [log EXCEPT ![s] = q] /\ committed' = committed
        /\ snapshot' = [snapshot EXCEPT ![s] = snapshot[t]]
        /\ installed' = [installed EXCEPT ![s] = TRUE]
        /\ UNCHANGED <<kv, requestCache, notify, lastApplied, next, upTo, clerkVars,
                       historyVars, handlers, reply>>
    BY Zenon DEF InstallSnapshot, InstallPrefix
  <1>2. UNCHANGED <<outcomes, seq, call>>
    BY Zenon, <1>1 DEF historyVars, clerkVars
  <1>3. RaftType /\ ServerType /\ MadeInv /\ ReplicaInv
    BY Zenon DEF KvInv, TypeInv
  <1>4. /\ ClerkType' /\ HandlerType' /\ HistoryType' /\ AwaitedInv' /\ ChannelInv'
        /\ OutcomeInv' /\ StoreInv' /\ ReplyInv'
    BY Zenon, <1>1, QuietService
  <1>5. ServerType'
    BY Zenon, <1>1, <1>3 DEF ServerType
  <1>6. PICK m \in 0 .. Len(committed) : ServerHolds(s, m)
    BY Zenon, ReplicaFacts
  <1>7. PICK i \in 0 .. Len(committed) : SnapshotHolds(t, i)
    BY Zenon, ReplicaFacts
  <1>8. snapshot'[s] = snapshot[t] /\ \A u \in Servers : u # s => snapshot'[u] = snapshot[u]
    BY Zenon, <1>1, <1>3 DEF ServerType
  <1>9. ReplicaInv'
    <2>1. ServerHolds(s, m)'
      BY Zenon, <1>1, <1>2, <1>6 DEF ServerHolds
    <2>2. SnapshotHolds(s, i)'
      BY Zenon, <1>2, <1>7, <1>8 DEF SnapshotHolds
    <2>3. upTo'[s] <= Len(committed) /\ 1 <= next'[s] /\ next'[s] <= upTo'[s] + 1
      BY Zenon, <1>1, <1>3 DEF ReplicaInv
    <2> QED
      BY Zenon, <1>1, <1>2, <1>3, <1>8, <2>1, <2>2, <2>3, OneReplica
  <1>10. q \in Seq(Commands) /\ \A k \in DOMAIN q : Made(q[k])
    <2>1. n \in Nat /\ n <= Len(committed)
      <3>1. PICK a, N : a = n /\ N = Len(committed)
        BY Zenon
      <3>2. a \in Nat /\ N \in Nat /\ i \in 0 .. N /\ a <= i
        BY Zenon, <1>7, <3>1, ReplicaFacts DEF SnapshotHolds
      <3>3. a <= N
        BY <3>2
      <3> QED
        BY Zenon, <3>1, <3>2, <3>3
    <2>2. CASE Holds(log[s], n)
      BY Zenon, <1>3, <2>2 DEF RaftType, MadeInv
    <2>3. CASE ~Holds(log[s], n)
      <3>1. committed \in Seq(Commands) /\ \A k \in DOMAIN committed : Made(committed[k])
        BY Zenon, <1>3 DEF RaftType, MadeInv
      <3>2. q = SubSeq(committed, 1, n)
        BY Zenon, <2>3
      <3> HIDE DEF q, n
      <3> QED
        BY Zenon, <2>1, <3>1, <3>2, PrefixMade
    <2> QED
      BY ZenonT(40), <2>2, <2>3
  <1> HIDE DEF q
  <1>11. RaftType' /\ MadeInv'
    BY Zenon, <1>1, <1>2, <1>3, <1>10, OneLog
  <1> QED
    BY Zenon, <1>4, <1>5, <1>9, <1>11 DEF KvInv, TypeInv

\* A server crashes and restarts; its handlers and channels are gone.
LEMMA RestartKvInv ==
    ASSUME KvInv, NEW s \in Servers, Restart(s)
    PROVE  KvInv'
  <1> DEFINE n == snapshot[s].lastApplied
  <1>1. /\ readSnapshot(s) /\ notify' = [notify EXCEPT ![s] = {}]
        /\ next' = [next EXCEPT ![s] = n + 1] /\ upTo' = [upTo EXCEPT ![s] = n]
        /\ installed' = [installed EXCEPT ![s] = FALSE]
        /\ handlers' = {h \in handlers : h.server # s}
        /\ UNCHANGED <<log, committed, snapshot, clerkVars, historyVars, reply>>
    BY Zenon DEF Restart
  <1>2. UNCHANGED <<log, committed, seq, leader, attempt, call, returned, store, answers, outcomes>>
    BY Zenon, <1>1 DEF clerkVars, historyVars
  <1>3. /\ RaftType /\ ClerkType /\ HandlerType /\ ServerType /\ HistoryType /\ MadeInv
        /\ AwaitedInv /\ ChannelInv /\ OutcomeInv /\ ReplicaInv /\ StoreInv /\ ReplyInv
    BY Zenon DEF KvInv, TypeInv
  <1>4. handlers' \subseteq handlers
    BY Zenon, <1>1
  <1>5. \A t \in Servers : notify'[t] = IF t = s THEN {} ELSE notify[t]
    BY Zenon, <1>1, <1>3 DEF HandlerType
  <1>6. HandlerType'
    BY Zenon, <1>1, <1>3, <1>4 DEF HandlerType
  <1>7. NoChannelLeaks'
    <2> SUFFICES ASSUME NEW t \in Servers, NEW e \in notify'[t]
                 PROVE  \E g \in handlers' : g.server = t /\ g.index = e.index /\ g.ch = e.ch
      BY Zenon DEF NoChannelLeaks
    <2>1. t # s /\ e \in notify[t]
      BY Zenon, <1>5
    <2>2. PICK g \in handlers : g.server = t /\ g.index = e.index /\ g.ch = e.ch
      BY Zenon, <1>3, <2>1 DEF ChannelInv, NoChannelLeaks
    <2> QED
      BY Zenon, <1>1, <2>1, <2>2
  <1>8. ChannelInv'
    BY Zenon, <1>2, <1>3, <1>4, <1>7, FewerChannels
  <1>9. AwaitedInv'
    BY Zenon, <1>1, <1>2, <1>3, <1>4 DEF AwaitedInv
  <1>10. /\ RaftType' /\ ClerkType' /\ HistoryType' /\ MadeInv' /\ OutcomeInv' /\ StoreInv'
         /\ ReplyInv'
    BY Zenon, <1>1, <1>2, <1>3, <1>4, SameRaft, SameClerk, SameHistory, FewerHandlers, SameOutcome,
       SameStore, SameReply
  <1>11. /\ kv' \in [Servers -> Maps] /\ requestCache' \in [Servers -> Caches]
         /\ lastApplied' \in [Servers -> Nat]
         /\ kv'[s] = snapshot[s].kv /\ requestCache'[s] = snapshot[s].requestCache
         /\ lastApplied'[s] = n
         /\ \A t \in Servers : t # s => /\ kv'[t] = kv[t] /\ requestCache'[t] = requestCache[t]
                                        /\ lastApplied'[t] = lastApplied[t]
    BY Zenon, <1>1, ReadSnapshotFacts DEF n
  <1>12. n \in Nat /\ next'[s] = n + 1 /\ upTo'[s] = n
    BY Zenon, <1>1, <1>3 DEF ServerType
  <1>13. \A t \in Servers : t # s => snapshot'[t] = snapshot[t] /\ next'[t] = next[t]
                                     /\ upTo'[t] = upTo[t]
    BY Zenon, <1>1, <1>3 DEF ServerType
  <1>14. ServerType'
    BY <1>1, <1>3, <1>11, <1>12 DEF ServerType
  <1>15. PICK i \in 0 .. Len(committed) : SnapshotHolds(s, i)
    BY Zenon, ReplicaFacts
  <1>16. n <= i /\ Len(committed) \in Nat /\ SnapshotHolds(s, i)'
    BY ZenonT(40), <1>1, <1>2, <1>15, ReplicaFacts DEF SnapshotHolds
  <1> HIDE DEF n
  <1>17. ServerHolds(s, i)'
    <2>1. lastApplied'[s] <= i /\ next'[s] - 1 <= i
      <3>1. lastApplied'[s] = n
        BY Zenon, <1>11
      <3> QED
        BY <1>12, <1>16, <3>1
    <2>2. outcomes[i] = [kv |-> snapshot[s].kv, requestCache |-> snapshot[s].requestCache]
      BY Zenon, <1>15 DEF SnapshotHolds
    <2>3. outcomes'[i] = [kv |-> kv'[s], requestCache |-> requestCache'[s]]
      BY Zenon, <1>2, <1>11, <2>2
    <2> QED
      BY Zenon, <2>1, <2>3 DEF ServerHolds
  <1>18. upTo'[s] <= Len(committed) /\ 1 <= next'[s] /\ next'[s] <= upTo'[s] + 1
    BY <1>12, <1>16
  <1>19. ReplicaInv'
    BY Zenon, <1>2, <1>3, <1>11, <1>13, <1>16, <1>17, <1>18, OneReplica
  <1> QED
    BY Zenon, <1>6, <1>8, <1>9, <1>10, <1>14, <1>19 DEF KvInv, TypeInv

\* Raft elects a leader, deposes one or copies entries.
LEMMA RaftStepKvInv ==
    ASSUME KvInv, RaftStep
    PROVE  KvInv'
  <1>1. UNCHANGED <<committed, serverVars, applyVars, clerkVars, historyVars, handlers, reply>>
    BY Zenon DEF RaftStep, Elect, StepDown, Replicate
  <1>2. UNCHANGED <<notify, next, upTo, outcomes, seq, call>>
    BY Zenon, <1>1 DEF serverVars, applyVars, clerkVars, historyVars
  <1>3. /\ ClerkType' /\ HandlerType' /\ HistoryType' /\ AwaitedInv' /\ ChannelInv'
        /\ OutcomeInv' /\ StoreInv' /\ ReplyInv'
    BY Zenon, <1>1, <1>2, QuietService
  <1>4. RaftType /\ ServerType /\ MadeInv /\ ReplicaInv
    BY Zenon DEF KvInv, TypeInv
  <1>5. ServerType' /\ ReplicaInv'
    BY Zenon, <1>1, <1>2, <1>4, SameServer, SameReplica
  <1>6. CASE UNCHANGED log
    <2>1. RaftType' /\ MadeInv'
      BY Zenon, <1>1, <1>2, <1>4, <1>6, SameRaft, SameMade
    <2> QED
      BY Zenon, <1>3, <1>5, <2>1 DEF KvInv, TypeInv
  <1>7. ASSUME NEW s \in Servers, NEW l \in Servers, NEW n \in 1 .. MaxLog, Replicate(s, l, n)
        PROVE  KvInv'
    <2>1. n \in 1 .. Len(log[l]) /\ log' = [log EXCEPT ![s] = SubSeq(log[l], 1, n)]
      BY Zenon, <1>7 DEF Replicate
    <2>2. log[l] \in Seq(Commands) /\ \A k \in DOMAIN log[l] : Made(log[l][k])
      BY Zenon, <1>4 DEF RaftType, MadeInv
    <2>3. Len(log[l]) \in Nat
      BY Zenon, <2>2, SeqFacts
    <2>4. n \in Nat /\ n <= Len(log[l])
      BY <2>1, <2>3
    <2>5. /\ SubSeq(log[l], 1, n) \in Seq(Commands)
          /\ \A k \in DOMAIN SubSeq(log[l], 1, n) : Made(SubSeq(log[l], 1, n)[k])
      BY Zenon, <2>2, <2>4, PrefixMade
    <2>6. RaftType' /\ MadeInv'
      <3>1. handlers' \subseteq handlers
        BY Zenon, <1>1
      <3> QED
        BY Zenon, <1>1, <1>2, <1>4, <2>1, <2>5, <3>1, OneLog
    <2> QED
      BY Zenon, <1>3, <1>5, <2>6 DEF KvInv, TypeInv
  <1>8. \/ UNCHANGED log
        \/ \E s \in Servers, l \in Servers, n \in 1 .. MaxLog : Replicate(s, l, n)
    BY Zenon DEF RaftStep, Elect, StepDown
  <1> QED
    BY Zenon, <1>6, <1>7, <1>8

-----------------------------------------------------------------------------
(***************************************************************************)
(* update() receives a command.                                            *)
(***************************************************************************)

\* The server executes the command, or has its outcome already: either way it
\* then holds the outcome of at least i commands.
LEMMA UpdateServer ==
    ASSUME KvInv, NEW s \in Servers, NEW saves \in BOOLEAN, update(s, saves)
    PROVE  /\ next[s] \in 1 .. Len(committed)
           /\ kv' \in [Servers -> Maps] /\ requestCache' \in [Servers -> Caches]
           /\ \A t \in Servers : t # s => kv'[t] = kv[t] /\ requestCache'[t] = requestCache[t]
           /\ \E j \in next[s] .. Len(committed) :
                 outcomes[j] = [kv |-> kv'[s], requestCache |-> requestCache'[s]]
  <1> DEFINE i == next[s]
             e == committed[i]
             c == e.ClientId
  <1>1. /\ next[s] <= upTo[s]
        /\ IF duplicate(requestCache[s], e)
           THEN UNCHANGED <<kv, requestCache>>
           ELSE /\ kv' = [kv EXCEPT ![s] = ApplyOp(kv[s], e.op)]
                /\ requestCache' = [requestCache EXCEPT ![s] = [requestCache[s] EXCEPT ![c] = e.Seq]]
    BY Zenon DEF update
  <1>2. RaftType /\ ServerType /\ ClerkType /\ MadeInv /\ OutcomeInv
    BY Zenon DEF KvInv, TypeInv
  <1>3. Len(committed) \in Nat /\ i \in Nat /\ i \in 1 .. Len(committed)
    BY <1>1, ReplicaFacts
  <1>4. e \in Commands /\ Made(e)
    <2>1. i \in DOMAIN committed
      BY Zenon, <1>2, <1>3, SeqFacts DEF RaftType
    <2> QED
      BY Zenon, <1>2, <1>3, <2>1, SeqFacts DEF RaftType, MadeInv
  <1> HIDE DEF e
  <1>5. /\ c \in Clients /\ e.op \in Ops /\ e.Seq \in NoSeq .. MaxSeq /\ e.Seq \in Nat
    BY <1>2, <1>4, KvBounds DEF Commands, Made, ClerkType, NoSeq
  <1>6. kv[s] \in Maps /\ requestCache[s] \in Caches
    BY Zenon, <1>2 DEF ServerType
  <1>7. PICK m \in 0 .. Len(committed) : ServerHolds(s, m)
    BY Zenon, ReplicaFacts
  <1>8. /\ i - 1 <= m /\ m \in Nat /\ m <= Len(committed)
        /\ outcomes[m] = [kv |-> kv[s], requestCache |-> requestCache[s]]
    BY SMTT(30), <1>3, <1>7 DEF ServerHolds
  <1>9. CASE duplicate(requestCache[s], e)
    <2>1. UNCHANGED <<kv, requestCache>>
      BY ZenonT(40), <1>1, <1>9
    <2>2. CASE m >= i
      BY SMTT(30), <1>2, <1>3, <1>8, <2>1, <2>2 DEF ServerType
    <2>3. CASE m = i - 1
      <3>1. outcomes[i - 1].requestCache = requestCache[s]
        BY <1>8, <2>3
      <3>2. outcomes[i] = outcomes[i - 1]
        BY Zenon, <1>2, <1>3, <1>9, <3>1 DEF OutcomeInv, e
      <3> QED
        BY SMTT(30), <1>2, <1>3, <1>8, <2>1, <2>3, <3>2 DEF ServerType
    <2> QED
      BY <1>3, <1>8, <2>2, <2>3
  <1>10. CASE ~duplicate(requestCache[s], e)
    <2>1. /\ kv' = [kv EXCEPT ![s] = ApplyOp(kv[s], e.op)]
          /\ requestCache' = [requestCache EXCEPT ![s] = [requestCache[s] EXCEPT ![c] = e.Seq]]
      BY Zenon, <1>1, <1>10
    <2>2. ApplyOp(kv[s], e.op) \in Maps
      BY Zenon, <1>5, <1>6, ApplyMap
    <2>3. [requestCache[s] EXCEPT ![c] = e.Seq] \in Caches
      BY Zenon, <1>5, <1>6 DEF Caches
    <2>4. /\ kv' \in [Servers -> Maps] /\ requestCache' \in [Servers -> Caches]
          /\ \A t \in Servers : t # s => kv'[t] = kv[t] /\ requestCache'[t] = requestCache[t]
          /\ kv'[s] = ApplyOp(kv[s], e.op)
          /\ requestCache'[s] = [requestCache[s] EXCEPT ![c] = e.Seq]
      BY Zenon, <1>2, <2>1, <2>2, <2>3 DEF ServerType
    <2>5. ~(m >= i)
      <3>1. m >= i => e.Seq <= outcomes[m].requestCache[c]
        BY <1>2, <1>3, <1>8 DEF OutcomeInv, e
      <3>2. outcomes[m].requestCache = requestCache[s]
        BY <1>8
      <3>3. requestCache[s][c] \in NoSeq .. MaxSeq
        BY Zenon, <1>5, <1>6 DEF Caches
      <3> QED
        BY SMTT(30), <1>5, <1>10, <3>1, <3>2, <3>3 DEF duplicate, NoSeq
    <2>6. m = i - 1
      BY <1>3, <1>8, <2>5
    <2>7. outcomes[i - 1].requestCache = requestCache[s] /\ outcomes[i - 1].kv = kv[s]
      BY <1>8, <2>6
    <2>8. outcomes[i] = Executed(outcomes[i - 1], e)
      BY Zenon, <1>2, <1>3, <1>10, <2>7 DEF OutcomeInv, e
    <2>9. outcomes[i] = [kv |-> kv'[s], requestCache |-> requestCache'[s]]
      BY Zenon, <2>4, <2>7, <2>8 DEF Executed
    <2> QED
      BY <1>3, <2>4, <2>9
  <1> QED
    BY Zenon, <1>9, <1>10

\* A handler that is handed the command at index i, with the value of a state
\* that has it, gives its clerk an answer that the open call allows.
LEMMA AnswerAllowed ==
    ASSUME KvInv, NEW i \in 1 .. Len(committed), NEW j \in i .. Len(committed),
           NEW h \in handlers, NEW r,
           r = Answer(h, committed[i], get(outcomes[j].kv, committed[i].op.Key))
    PROVE  r \in Replies /\ (h.attempt = attempt[h.ClientId] => Allowed(h.ClientId, r))
  <1> DEFINE e == committed[i]
             c == h.ClientId
             map == outcomes[j].kv
             value == get(map, e.op.Key)
  <1>1. /\ RaftType /\ ClerkType /\ HandlerType /\ HistoryType /\ MadeInv /\ AwaitedInv
        /\ OutcomeInv /\ StoreInv
    BY Zenon DEF KvInv, TypeInv
  <1>2. Len(committed) \in Nat /\ i \in DOMAIN committed /\ e \in Commands
    BY Zenon, <1>1, SeqFacts DEF RaftType
  <1>3. c \in Clients /\ h.Seq \in Nat
    BY Zenon, <1>1 DEF HandlerType, HandlerRecords
  <1>4. Made(e)
    BY Zenon, <1>1, <1>2 DEF MadeInv
  <1>5. map \in Maps
    <2>1. j \in 0 .. Len(committed)
      BY <1>2
    <2> QED
      BY Zenon, <1>1, <2>1 DEF HistoryType
  <1>6. CASE ~Matches(h, e)
    <2>1. r = ErrWrongLeader
      BY Zenon, <1>6 DEF Answer
    <2> QED
      BY Zenon, <2>1, WrongLeaderReply
  <1>7. CASE Matches(h, e)
    <2>1. e.ClientId = c /\ e.Seq = h.Seq /\ e.op \in Ops
      BY Zenon, <1>2, <1>7 DEF Matches, Commands
    <2>2. r = IF e.op.OpType # "Get" THEN [Err |-> "OK", Value |-> <<>>]
              ELSE IF value = ErrNoKey THEN [Err |-> "ErrNoKey"]
              ELSE [Err |-> "OK", Value |-> value]
      BY Zenon, <1>7 DEF Answer
    <2>3. \/ value = ErrNoKey /\ (NoSentinel => Value(map, e.op.Key) = <<>>)
          \/ value # ErrNoKey /\ value = Value(map, e.op.Key)
      <3>1. CASE e.op.Key \in DOMAIN map
        <4>1. value = map[e.op.Key] /\ value = Value(map, e.op.Key) /\ value \in Strings
          BY Zenon, <1>5, <3>1, MapFacts DEF get, Value
        <4> QED
          BY Zenon, <4>1 DEF NoSentinel
      <3>2. CASE e.op.Key \notin DOMAIN map
        BY Zenon, <3>2 DEF get, Value
      <3> QED
        BY Zenon, <3>1, <3>2
    <2>4. <<>> \in Strings /\ Value(map, e.op.Key) \in Strings
      BY <1>5, ValueString DEF Strings
    <2> HIDE DEF value, e, map
    <2>5. r \in Replies
      BY <2>2, <2>3, <2>4 DEF Replies
    <2>6. ASSUME h.attempt = attempt[c]
          PROVE  Allowed(c, r)
      <3>1. call[c] # NoCall /\ h.Seq = seq[c] - 1
        BY Zenon, <1>1, <2>6 DEF AwaitedInv
      <3>2. e.op = call[c]
        BY Zenon, <1>4, <2>1, <3>1 DEF Made
      <3>3. Final.requestCache[c] = seq[c] - 1
        <4>1. e.Seq <= Final.requestCache[c]
          BY SMTT(30), <1>1, <1>2, <2>1 DEF OutcomeInv, Final, e
        <4>2. Final.requestCache[c] \in {seq[c] - 2, seq[c] - 1} /\ seq[c] \in Nat
          BY <1>1, <1>3, <3>1 DEF StoreInv, ClerkType
        <4> QED
          BY SMTT(30), <2>1, <3>1, <4>1, <4>2
      <3>4. CASE e.op.OpType = "Get"
        <4>1. Value(map, e.op.Key) \in answers[c]
          BY Zenon, <1>1, <1>3, <2>1, <3>1, <3>2, <3>4 DEF StoreInv, e, map
        <4>2. NoSentinel => (IF r.Err = "OK" THEN r.Value ELSE <<>>) \in answers[c]
          BY SMTT(30), <2>2, <2>3, <3>4, <4>1
        <4> QED
          BY Zenon, <3>3, <4>2 DEF Allowed
      <3>5. CASE e.op.OpType # "Get"
        <4>1. call[c].OpType \in {"Put", "Append"}
          BY Zenon, <2>1, <3>2, <3>5, OpFacts
        <4>2. answers[c] = {<<>>}
          BY Zenon, <1>1, <1>3, <3>3, <4>1 DEF StoreInv
        <4> QED
          BY <2>2, <3>3, <3>5, <4>2 DEF Allowed
      <3> QED
        BY Zenon, <3>4, <3>5
    <2> QED
      BY Zenon, <2>5, <2>6
  <1> QED
    BY Zenon, <1>6, <1>7

\* A handler that waits on the channel of index i started the command there.
LEMMA WaiterIndex ==
    ASSUME ChannelInv, NEW s \in Servers, NEW i \in Nat, i # 0, NEW h \in Waiters(s, i)
    PROVE  h \in handlers /\ h.server = s /\ h.index = i
  <1>1. h \in handlers /\ h.server = s /\ [index |-> i, ch |-> h.ch] \in notify[s]
    BY Zenon DEF Waiters
  <1>2. PICK g \in handlers : g.server = s /\ g.index = i /\ g.ch = h.ch
    BY <1>1 DEF ChannelInv, NoChannelLeaks
  <1>3. g.ch \in ChannelNames
    BY Zenon, <1>2 DEF ChannelInv
  <1>4. h.index # 0
    BY Zenon, <1>1, <1>2, <1>3, ChannelNamed DEF ChannelInv
  <1> QED
    BY Zenon, <1>1, <1>2, <1>4 DEF ChannelInv

\* update() executes a command, saves a snapshot when it is due, removes the
\* channel of the index and answers a handler that waits there.
LEMMA updateKvInv ==
    ASSUME KvInv, NEW s \in Servers, NEW saves \in BOOLEAN, update(s, saves)
    PROVE  KvInv'
  <1> DEFINE i == next[s]
             e == committed[i]
             new == [kv |-> kv'[s], requestCache |-> requestCache'[s], lastApplied |-> i]
             r(h) == Answer(h, e, get(kv'[s], e.op.Key))
             Kept == /\ RaftType' /\ ClerkType' /\ HistoryType' /\ MadeInv' /\ AwaitedInv'
                     /\ OutcomeInv' /\ StoreInv' /\ ReplyInv' /\ handlers' \subseteq handlers
                     /\ \A h \in handlers : h \in handlers' \/ (h.server = s /\ h.index = i)
  <1>1. /\ next[s] <= upTo[s]
        /\ lastApplied' = [lastApplied EXCEPT ![s] = i]
        /\ \/ snapshot' = [snapshot EXCEPT ![s] = new]
           \/ snapshot' = snapshot
        /\ notify' = [notify EXCEPT ![s] = {n \in notify[s] : n.index # i}]
        /\ next' = [next EXCEPT ![s] = i + 1]
        /\ UNCHANGED <<raftVars, upTo, installed, clerkVars, historyVars>>
    BY Zenon DEF update
  <1>2. \/ UNCHANGED <<handlers, reply>>
        \/ \E h \in Waiters(s, i) : Finish(h, r(h))
    BY Zenon DEF update
  <1>3. /\ RaftType /\ ClerkType /\ HandlerType /\ ServerType /\ HistoryType /\ MadeInv
        /\ AwaitedInv /\ ChannelInv /\ OutcomeInv /\ ReplicaInv /\ StoreInv /\ ReplyInv
    BY Zenon DEF KvInv, TypeInv
  <1>4. UNCHANGED <<log, committed, seq, leader, attempt, call, returned, store, answers, outcomes>>
    BY Zenon, <1>1 DEF raftVars, clerkVars, historyVars
  <1>5. /\ i \in 1 .. Len(committed)
        /\ kv' \in [Servers -> Maps] /\ requestCache' \in [Servers -> Caches]
        /\ \A t \in Servers : t # s => kv'[t] = kv[t] /\ requestCache'[t] = requestCache[t]
    BY Zenon, UpdateServer
  <1>6. PICK j \in i .. Len(committed) :
            outcomes[j] = [kv |-> kv'[s], requestCache |-> requestCache'[s]]
    BY Zenon, UpdateServer
  <1>7. Len(committed) \in Nat /\ i \in Nat /\ i # 0 /\ j \in 0 .. Len(committed) /\ i <= j
    BY <1>5, <1>6, ReplicaFacts
  <1>8. Kept
    <2>1. CASE UNCHANGED <<handlers, reply>>
      BY Zenon, <1>1, <1>3, <1>4, <2>1, SameRaft, SameClerk, SameHistory, SameMade, SameAwaited,
         SameOutcome, SameStore, SameReply
    <2>2. ASSUME NEW h \in Waiters(s, i), Finish(h, r(h))
          PROVE  Kept
      <3>1. h \in handlers /\ h.server = s /\ h.index = i
        BY ZenonT(40), <1>3, <1>7, <2>2, WaiterIndex
      <3>2. r(h) = Answer(h, e, get(outcomes[j].kv, e.op.Key))
        BY <1>6
      <3>3. r(h) \in Replies /\ (h.attempt = attempt[h.ClientId] => Allowed(h.ClientId, r(h)))
        BY Zenon, <1>5, <1>6, <3>1, <3>2, AnswerAllowed
      <3> HIDE DEF r
      <3>4. /\ handlers' = handlers \ {h}
            /\ RaftType' /\ ClerkType' /\ HistoryType' /\ MadeInv' /\ AwaitedInv' /\ OutcomeInv'
            /\ StoreInv' /\ ReplyInv'
        BY Zenon, <1>1, <2>2, <3>1, <3>3, FinishStep
      <3> QED
        BY Zenon, <3>1, <3>4
    <2> HIDE DEF Kept
    <2> QED
      BY Zenon, <1>2, <2>1, <2>2
  <1> HIDE DEF r, e
  <1>9. \A t \in Servers : notify'[t] = IF t = s THEN {n \in notify[t] : n.index # i}
                                        ELSE notify[t]
    BY Zenon, <1>1, <1>3 DEF HandlerType
  <1>10. NoChannelLeaks'
    <2> SUFFICES ASSUME NEW t \in Servers, NEW n \in notify'[t]
                 PROVE  \E g \in handlers' : g.server = t /\ g.index = n.index /\ g.ch = n.ch
      BY Zenon DEF NoChannelLeaks
    <2>1. n \in notify[t] /\ ~(t = s /\ n.index = i)
      BY Zenon, <1>9
    <2>2. PICK g \in handlers : g.server = t /\ g.index = n.index /\ g.ch = n.ch
      BY Zenon, <1>3, <2>1 DEF ChannelInv, NoChannelLeaks
    <2>3. g \in handlers'
      BY Zenon, <1>8, <2>1, <2>2
    <2> QED
      BY Zenon, <2>2, <2>3
  <1>11. HandlerType'
    <2>1. \A t \in Servers : notify'[t] \in SUBSET [index : 1 .. MaxLog, ch : ChannelNames]
      BY Zenon, <1>3, <1>9 DEF HandlerType
    <2>2. notify' = [t \in Servers |-> notify'[t]]
      BY Zenon, <1>1, <1>3 DEF HandlerType
    <2> QED
      BY Zenon, <1>3, <1>8, <2>1, <2>2 DEF HandlerType
  <1>12. ChannelInv'
    BY Zenon, <1>3, <1>4, <1>8, <1>10, FewerChannels
  <1>13. new \in [kv : Maps, requestCache : Caches, lastApplied : Nat]
    BY Zenon, <1>5, <1>7
  <1>14. /\ ServerType'
         /\ next'[s] = i + 1 /\ lastApplied'[s] = i /\ upTo' = upTo
         /\ \A t \in Servers : t # s => /\ lastApplied'[t] = lastApplied[t]
                                        /\ snapshot'[t] = snapshot[t]
                                        /\ next'[t] = next[t] /\ upTo'[t] = upTo[t]
    <2> HIDE DEF new
    <2>1. /\ snapshot' \in [Servers -> [kv : Maps, requestCache : Caches, lastApplied : Nat]]
          /\ \A t \in Servers : t # s => snapshot'[t] = snapshot[t]
      <3>1. CASE snapshot' = snapshot
        BY Zenon, <1>3, <3>1 DEF ServerType
      <3>2. CASE snapshot' = [snapshot EXCEPT ![s] = new]
        BY Zenon, <1>3, <1>13, <3>2 DEF ServerType
      <3> QED
        BY Zenon, <1>1, <3>1, <3>2
    <2>2. /\ next'[s] = i + 1 /\ lastApplied'[s] = i /\ upTo' = upTo
          /\ \A t \in Servers : t # s => /\ lastApplied'[t] = lastApplied[t]
                                         /\ next'[t] = next[t] /\ upTo'[t] = upTo[t]
          /\ lastApplied' \in [Servers -> Nat] /\ next' \in [Servers -> Nat]
      BY <1>1, <1>3, <1>7 DEF ServerType
    <2>3. ServerType'
      BY Zenon, <1>1, <1>3, <1>5, <2>1, <2>2 DEF ServerType
    <2> QED
      BY Zenon, <2>1, <2>2, <2>3
  <1>15. ServerHolds(s, j)'
    <2>1. lastApplied'[s] <= j /\ next'[s] - 1 <= j
      <3>1. lastApplied'[s] = i /\ next'[s] = i + 1
        BY Zenon, <1>14
      <3> QED
        BY <1>7, <3>1
    <2>2. outcomes'[j] = [kv |-> kv'[s], requestCache |-> requestCache'[s]]
      BY Zenon, <1>4, <1>6
    <2> QED
      BY Zenon, <2>1, <2>2 DEF ServerHolds
  <1>16. upTo'[s] <= Len(committed) /\ 1 <= next'[s] /\ next'[s] <= upTo'[s] + 1
    BY <1>1, <1>7, <1>14, ReplicaFacts
  <1>17. \E n \in 0 .. Len(committed) : SnapshotHolds(s, n)'
    <2>1. CASE snapshot' = snapshot
      <3>1. PICK n \in 0 .. Len(committed) : SnapshotHolds(s, n)
        BY Zenon, ReplicaFacts
      <3>2. SnapshotHolds(s, n)'
        BY Zenon, <1>4, <2>1, <3>1 DEF SnapshotHolds
      <3> QED
        BY Zenon, <3>2
    <2>2. CASE snapshot' = [snapshot EXCEPT ![s] = new]
      <3>1. snapshot'[s] = new
        BY ZenonT(40), <1>3, <2>2 DEF ServerType
      <3>2. SnapshotHolds(s, j)'
        <4>1. new.kv = kv'[s] /\ new.requestCache = requestCache'[s] /\ new.lastApplied = i
          BY Zenon
        <4> HIDE DEF new
        <4> QED
          BY Zenon, <1>4, <1>6, <1>7, <3>1, <4>1 DEF SnapshotHolds
      <3> QED
        BY Zenon, <1>7, <3>2
    <2> QED
      BY Zenon, <1>1, <2>1, <2>2
  <1>18. ReplicaInv'
    BY Zenon, <1>3, <1>4, <1>5, <1>7, <1>14, <1>15, <1>16, <1>17, OneReplica
  <1> QED
    BY Zenon, <1>8, <1>11, <1>12, <1>14, <1>18 DEF KvInv, TypeInv

-----------------------------------------------------------------------------
(***************************************************************************)
(* Raft commits a command.                                                 *)
(***************************************************************************)

\* The sequence of outcomes grows by what the command comes to: it is executed
\* unless the cache shows it to be a duplicate.
LEMMA CommitOutcome ==
    ASSUME KvInv, NEW l \in Servers, Commit(l), NEW e, e = log[l][Len(committed) + 1]
    PROVE  /\ e \in Commands /\ Made(e) /\ e.Seq \in 0 .. MaxSeq
           /\ committed' \in Seq(Commands) /\ Len(committed') = Len(committed) + 1
           /\ \A k \in 1 .. Len(committed) : committed'[k] = committed[k]
           /\ committed'[Len(committed) + 1] = e
           /\ \A n \in 0 .. Len(committed) : outcomes'[n] = outcomes[n]
           /\ Final \in [kv : Maps, requestCache : Caches]
           /\ Final' \in [kv : Maps, requestCache : Caches]
           /\ Final' = IF duplicate(Final.requestCache, e) THEN Final ELSE Executed(Final, e)
           /\ outcomes' \in [0 .. Len(committed) + 1 -> [kv : Maps, requestCache : Caches]]
  <1> DEFINE L == Len(committed)
             c == e.ClientId
             first == \A j \in 1 .. L : committed[j].ClientId = c => committed[j].Seq < e.Seq
  <1>1. /\ Len(log[l]) > L /\ committed' = Append(committed, e)
        /\ outcomes' = [n \in 0 .. L + 1 |-> IF n <= L THEN outcomes[n] ELSE OutcomeOf(e)]
    BY Zenon DEF Commit, Agree
  <1>2. RaftType /\ ClerkType /\ HistoryType /\ MadeInv /\ OutcomeInv
    BY Zenon DEF KvInv, TypeInv
  <1>3. L \in Nat /\ log[l] \in Seq(Commands) /\ committed \in Seq(Commands)
    BY Zenon, <1>2, SeqFacts DEF RaftType
  <1>4. e \in Commands /\ Made(e)
    <2>1. L + 1 \in 1 .. Len(log[l]) /\ L + 1 \in DOMAIN log[l]
      BY <1>1, <1>3, SeqFacts
    <2> QED
      BY Zenon, <1>2, <1>3, <2>1, SeqFacts DEF MadeInv
  <1>5. c \in Clients /\ e.op \in Ops /\ e.Seq \in 0 .. MaxSeq
    BY <1>2, <1>4, KvBounds DEF Commands, Made, ClerkType
  <1>6. /\ committed' \in Seq(Commands) /\ Len(committed') = L + 1
        /\ \A k \in 1 .. L : committed'[k] = committed[k]
        /\ committed'[L + 1] = e
    BY <1>1, <1>3, <1>4, AppendFacts
  <1>7. /\ \A n \in 0 .. L : outcomes'[n] = outcomes[n]
        /\ Final' = OutcomeOf(e)
    BY <1>1, <1>3, <1>6 DEF Final
  <1>8. Final \in [kv : Maps, requestCache : Caches]
    BY <1>2, <1>3 DEF HistoryType, Final
  <1>9. Final.requestCache[c] \in NoSeq .. MaxSeq /\ Final.requestCache \in Caches
        /\ Final.kv \in Maps
    BY Zenon, <1>5, <1>8 DEF Caches
  <1>10. first <=> ~duplicate(Final.requestCache, e)
    <2>1. ASSUME duplicate(Final.requestCache, e)
          PROVE  ~first
      <3>1. Final.requestCache[c] # NoSeq /\ e.Seq <= Final.requestCache[c]
        BY Zenon, <2>1 DEF duplicate
      <3>2. PICK j \in 1 .. L : /\ committed[j].ClientId = c
                                /\ committed[j].Seq = Final.requestCache[c]
        BY SMTT(30), <1>2, <1>3, <1>5, <3>1 DEF OutcomeInv, Final
      <3> QED
        BY <1>5, <1>9, <3>1, <3>2 DEF NoSeq
    <2>2. ASSUME ~first
          PROVE  duplicate(Final.requestCache, e)
      <3>1. PICK j \in 1 .. L : committed[j].ClientId = c /\ ~(committed[j].Seq < e.Seq)
        BY Zenon, <2>2
      <3>2. committed[j].Seq \in Nat
        <4>1. committed[j] \in Commands
          BY Zenon, <1>3, SeqFacts
        <4> QED
          BY Zenon, <4>1 DEF Commands
      <3>3. committed[j].Seq <= Final.requestCache[c]
        BY SMTT(30), <1>2, <1>3, <3>1 DEF OutcomeInv, Final
      <3> QED
        BY <1>5, <1>9, <3>1, <3>2, <3>3 DEF duplicate, NoSeq
    <2> QED
      BY Zenon, <2>1, <2>2
  <1>11. OutcomeOf(e) = IF ~first THEN Final ELSE Executed(Final, e)
    BY Zenon DEF OutcomeOf, Executed, Final
  <1> HIDE DEF first
  <1>12. Final' = IF duplicate(Final.requestCache, e) THEN Final ELSE Executed(Final, e)
    BY Zenon, <1>7, <1>10, <1>11
  <1>13. Executed(Final, e) \in [kv : Maps, requestCache : Caches]
    <2>1. ApplyOp(Final.kv, e.op) \in Maps
      BY Zenon, <1>5, <1>9, ApplyMap
    <2>2. [Final.requestCache EXCEPT ![c] = e.Seq] \in Caches
      BY <1>5, <1>9, KvBounds DEF Caches, NoSeq
    <2> QED
      BY Zenon, <2>1, <2>2 DEF Executed
  <1>14. Final' \in [kv : Maps, requestCache : Caches]
    BY Zenon, <1>8, <1>12, <1>13
  <1>15. outcomes' \in [0 .. L + 1 -> [kv : Maps, requestCache : Caches]]
    BY <1>1, <1>2, <1>3, <1>7, <1>14 DEF HistoryType
  <1> QED
    BY Zenon, <1>4, <1>5, <1>6, <1>7, <1>8, <1>12, <1>14, <1>15

\* The caches of two successive outcomes.
LEMMA CommitCache ==
    ASSUME KvInv, NEW l \in Servers, Commit(l), NEW e, e = log[l][Len(committed) + 1]
    PROVE  /\ e.Seq <= Final'.requestCache[e.ClientId]
           /\ \A d \in Clients :
                 /\ Final.requestCache[d] \in NoSeq .. MaxSeq
                 /\ Final'.requestCache[d] \in NoSeq .. MaxSeq
                 /\ Final.requestCache[d] <= Final'.requestCache[d]
                 /\ \/ Final'.requestCache[d] = Final.requestCache[d]
                    \/ d = e.ClientId /\ Final'.requestCache[d] = e.Seq
  <1>1. /\ e \in Commands /\ e.Seq \in 0 .. MaxSeq
        /\ Final \in [kv : Maps, requestCache : Caches]
        /\ Final' \in [kv : Maps, requestCache : Caches]
        /\ Final' = IF duplicate(Final.requestCache, e) THEN Final ELSE Executed(Final, e)
    BY Zenon, CommitOutcome
  <1>2. /\ e.ClientId \in Clients
        /\ \A d \in Clients : /\ Final.requestCache[d] \in NoSeq .. MaxSeq
                              /\ Final'.requestCache[d] \in NoSeq .. MaxSeq
    BY Zenon, <1>1 DEF Caches, Commands
  <1>3. CASE duplicate(Final.requestCache, e)
    <2>1. Final' = Final /\ e.Seq <= Final.requestCache[e.ClientId]
      BY ZenonT(40), <1>1, <1>3 DEF duplicate
    <2> QED
      BY <1>2, <2>1, KvBounds DEF NoSeq
  <1>4. CASE ~duplicate(Final.requestCache, e)
    <2>1. Final'.requestCache = [Final.requestCache EXCEPT ![e.ClientId] = e.Seq]
      BY Zenon, <1>1, <1>4 DEF Executed
    <2>2. \A d \in Clients : Final'.requestCache[d]
                             = IF d = e.ClientId THEN e.Seq ELSE Final.requestCache[d]
      BY Zenon, <1>1, <2>1 DEF Caches
    <2>3. Final.requestCache[e.ClientId] <= e.Seq
      BY <1>1, <1>2, <1>4 DEF duplicate, NoSeq
    <2>4. ASSUME NEW d \in Clients PROVE Final.requestCache[d] <= Final'.requestCache[d]
      <3>1. CASE d = e.ClientId
        BY Zenon, <2>2, <2>3, <3>1
      <3>2. CASE d # e.ClientId
        <4>1. PICK a \in Int : a = Final.requestCache[d]
          BY <1>2, KvBounds DEF NoSeq
        <4>2. a <= a
          OBVIOUS
        <4> QED
          BY Zenon, <2>2, <3>2, <4>1, <4>2
      <3> QED
        BY Zenon, <3>1, <3>2
    <2>5. e.Seq <= Final'.requestCache[e.ClientId]
      <3>1. e.Seq <= e.Seq
        BY <1>1
      <3> QED
        BY Zenon, <1>2, <2>2, <3>1
    <2> QED
      BY Zenon, <1>2, <2>2, <2>4, <2>5
  <1> QED
    BY Zenon, <1>3, <1>4

\* The sequence numbers of the clerks are numbers.
LEMMA ClerkNumbers ==
    ASSUME ClerkType, NEW d \in Clients
    PROVE  seq[d] \in Nat
  <1>1. seq[d] \in 0 .. MaxSeq
    BY Zenon DEF ClerkType
  <1> QED
    BY <1>1, KvBounds

\* Whatever is committed a second time has no effect.  A command that is
\* executed is the open call of its clerk: its map and the map of the history
\* change together, and its answer is allowed from now on.
LEMMA CommitStore ==
    ASSUME KvInv, NEW l \in Servers, Commit(l), NEW e, e = log[l][Len(committed) + 1]
    PROVE  /\ store' \in [Keys -> Strings] /\ answers' \in [Clients -> SUBSET Strings]
           /\ \A k \in Keys : store'[k] = Value(Final'.kv, k)
           /\ \A d \in Clients :
                 /\ call[d].OpType = "Get" => /\ answers[d] \subseteq answers'[d]
                                              /\ store'[call[d].Key] \in answers'[d]
                 /\ call[d].OpType \in {"Put", "Append"} =>
                       answers'[d] = IF Final'.requestCache[d] = seq[d] - 1 THEN {<<>>} ELSE {}
                 /\ Final.requestCache[d] = seq[d] - 1 \/ call[d] = NoCall
                       => /\ Final'.requestCache[d] = Final.requestCache[d]
                          /\ answers[d] \subseteq answers'[d]
                 /\ call[d] # NoCall => Final'.requestCache[d] \in {seq[d] - 2, seq[d] - 1}
  <1> DEFINE c == e.ClientId
             Guard == /\ e.op.OpType # "Get" /\ e.Seq = seq[c] - 1 /\ call[c] # NoCall
                      /\ answers[c] = {}
  <1>1. IF Guard
        THEN /\ store' = Step(store, e.op)
             /\ answers' = AnswersAfter(answers, call, c, store', <<>>)
        ELSE UNCHANGED <<store, answers>>
    BY Zenon DEF Commit
  <1>2. ClerkType /\ HistoryType /\ StoreInv
    BY Zenon DEF KvInv, TypeInv
  <1>3. /\ e \in Commands /\ Made(e) /\ e.Seq \in 0 .. MaxSeq
        /\ Final \in [kv : Maps, requestCache : Caches]
        /\ Final' = IF duplicate(Final.requestCache, e) THEN Final ELSE Executed(Final, e)
    BY Zenon, CommitOutcome
  <1>4. c \in Clients /\ e.op \in Ops /\ Final.kv \in Maps /\ Final.requestCache \in Caches
    BY Zenon, <1>3 DEF Commands
  <1>5. \A d \in Clients : Final.requestCache[d] \in NoSeq .. MaxSeq /\ seq[d] \in Nat
    BY Zenon, <1>2, <1>4, ClerkNumbers DEF Caches
  <1>6. e.op.OpType \in {"Get", "Put", "Append"} /\ <<>> \in Strings
    BY <1>4, OpFacts DEF Strings
  <1>7. \A d \in Clients : call[d].OpType = "Get" => call[d].Key \in Keys
    <2>1. NoCall.OpType = "none"
      BY Zenon DEF NoCall
    <2> QED
      BY Zenon, <1>2, <2>1, OpFacts DEF ClerkType
  <1>8. /\ \A k \in Keys : store[k] = Value(Final.kv, k)
        /\ \A d \in Clients :
              /\ call[d] = NoCall => Final.requestCache[d] = seq[d] - 1
              /\ call[d] # NoCall => Final.requestCache[d] \in {seq[d] - 2, seq[d] - 1}
              /\ call[d].OpType \in {"Put", "Append"} =>
                    answers[d] = IF Final.requestCache[d] = seq[d] - 1 THEN {<<>>} ELSE {}
              /\ call[d].OpType = "Get" => store[call[d].Key] \in answers[d]
    BY Zenon, <1>2 DEF StoreInv
  <1>9. e.Seq < seq[c] /\ (e.Seq = seq[c] - 1 /\ call[c] # NoCall => e.op = call[c])
    BY Zenon, <1>3 DEF Made
  <1>10. CASE duplicate(Final.requestCache, e)
    <2>1. Final' = Final /\ e.Seq <= Final.requestCache[c]
      BY Zenon, <1>3, <1>10 DEF duplicate
    <2>2. ~Guard
      <3> SUFFICES ASSUME Guard PROVE FALSE
        BY Zenon
      <3>1. call[c].OpType \in {"Put", "Append"}
        BY ZenonT(40), <1>6, <1>9
      <3>2. Final.requestCache[c] = seq[c] - 1
        <4>1. \/ Final.requestCache[c] = seq[c] - 2 /\ e.Seq = seq[c] - 1
              \/ Final.requestCache[c] = seq[c] - 1
          BY Zenon, <1>4, <1>8
        <4>2. PICK a \in Nat : a = seq[c]
          BY Zenon, <1>4, <1>5
        <4>3. ~(a - 1 <= a - 2)
          BY <4>2
        <4> QED
          BY Zenon, <2>1, <4>1, <4>2, <4>3
      <3> QED
        BY Zenon, <1>4, <1>8, <3>1, <3>2
    <2>3. store' = store /\ answers' = answers
      BY Zenon, <1>1, <2>2
    <2> QED
      BY Zenon, <1>2, <1>8, <2>1, <2>3 DEF HistoryType
  <1>11. CASE ~duplicate(Final.requestCache, e)
    <2>1. call[c] # NoCall /\ Final.requestCache[c] = seq[c] - 2 /\ e.Seq = seq[c] - 1
      <3>1. Final.requestCache[c] < e.Seq
        BY <1>3, <1>4, <1>5, <1>11 DEF duplicate, NoSeq
      <3>2. \/ call[c] = NoCall /\ Final.requestCache[c] = seq[c] - 1
            \/ call[c] # NoCall /\ Final.requestCache[c] = seq[c] - 2
            \/ call[c] # NoCall /\ Final.requestCache[c] = seq[c] - 1
        BY Zenon, <1>4, <1>8
      <3>3. /\ seq[c] \in Nat /\ e.Seq \in Nat /\ Final.requestCache[c] \in Int
            /\ e.Seq < seq[c]
        BY <1>3, <1>4, <1>5, <1>9 DEF NoSeq
      <3> QED
        <4>1. PICK a \in Nat, b \in Nat, r \in Int :
                 a = seq[c] /\ b = e.Seq /\ r = Final.requestCache[c]
          BY Zenon, <3>3
        <4>2. b < a /\ r < b /\ (r = a - 1 \/ r = a - 2)
          BY Zenon, <3>1, <3>2, <3>3, <4>1
        <4>3. r = a - 2 /\ r # a - 1 /\ b = a - 1
          BY <4>1, <4>2
        <4> QED
          BY Zenon, <3>2, <4>1, <4>3
    <2>2. e.op = call[c]
      BY Zenon, <1>9, <2>1
    <2>3. /\ Final'.kv = ApplyOp(Final.kv, e.op)
          /\ Final'.requestCache = [Final.requestCache EXCEPT ![c] = e.Seq]
      BY Zenon, <1>3, <1>11 DEF Executed
    <2>4. \A d \in Clients : Final'.requestCache[d] = IF d = c THEN seq[c] - 1
                                                      ELSE Final.requestCache[d]
      BY ZenonT(40), <1>4, <2>1, <2>3 DEF Caches
    <2>5. /\ Final.requestCache[c] # seq[c] - 1 /\ Final'.requestCache[c] = seq[c] - 1
          /\ Final'.requestCache[c] \in {seq[c] - 2, seq[c] - 1}
      <3>1. PICK a \in Nat : a = seq[c]
        BY Zenon, <1>4, <1>5
      <3>2. a - 2 # a - 1
        BY <3>1
      <3> QED
        BY Zenon, <1>4, <2>1, <2>4, <3>1, <3>2
    <2>6. CASE e.op.OpType = "Get"
      <3>1. store' = store /\ answers' = answers /\ call[c].OpType = "Get"
        BY Zenon, <1>1, <2>2, <2>6
      <3>2. Final'.kv = Final.kv
        BY Zenon, <1>4, <2>3, <2>6, ApplyMap
      <3> QED
        BY ZenonT(40), <1>2, <1>8, <2>1, <2>4, <2>5, <3>1, <3>2 DEF HistoryType
    <2>7. CASE e.op.OpType # "Get"
      <3>1. call[c].OpType \in {"Put", "Append"} /\ answers[c] = {}
        BY Zenon, <1>4, <1>6, <1>8, <2>2, <2>5, <2>7
      <3>2. /\ store' = Step(store, e.op)
            /\ answers' = AnswersAfter(answers, call, c, store', <<>>)
        BY Zenon, <1>1, <2>1, <2>7, <3>1
      <3>3. store \in [Keys -> Strings] /\ answers \in [Clients -> SUBSET Strings]
        BY Zenon, <1>2 DEF HistoryType
      <3>4. store' \in [Keys -> Strings] /\ \A k \in Keys : store'[k] = Value(Final'.kv, k)
        BY <1>4, <1>8, <2>3, <3>2, <3>3, ApplyStep
      <3>5. /\ answers' = [d \in Clients |-> answers'[d]]
            /\ \A d \in Clients :
                  answers'[d] = IF d = c THEN {<<>>}
                                ELSE IF call[d].OpType = "Get"
                                THEN answers[d] \cup {store'[call[d].Key]} ELSE answers[d]
        BY Zenon, <3>2, <3>3 DEF AnswersAfter
      <3>6. \A d \in Clients : answers'[d] \subseteq Strings
        BY <1>6, <1>7, <3>3, <3>4, <3>5
      <3>7. answers' \in [Clients -> SUBSET Strings]
        BY Zenon, <3>5, <3>6
      <3>8. ASSUME NEW d \in Clients
            PROVE  /\ call[d].OpType = "Get" => /\ answers[d] \subseteq answers'[d]
                                                /\ store'[call[d].Key] \in answers'[d]
                   /\ call[d].OpType \in {"Put", "Append"} =>
                        answers'[d] = IF Final'.requestCache[d] = seq[d] - 1 THEN {<<>>} ELSE {}
                   /\ Final.requestCache[d] = seq[d] - 1 \/ call[d] = NoCall
                        => /\ Final'.requestCache[d] = Final.requestCache[d]
                           /\ answers[d] \subseteq answers'[d]
                   /\ call[d] # NoCall => Final'.requestCache[d] \in {seq[d] - 2, seq[d] - 1}
        <4>1. CASE d = c
          BY Zenon, <2>1, <2>5, <3>1, <3>5, <4>1
        <4>2. CASE d # c
          BY <1>8, <2>4, <3>5, <4>2
        <4> QED
          BY Zenon, <4>1, <4>2
      <3> QED
        BY Zenon, <3>4, <3>7, <3>8
    <2> QED
      BY Zenon, <2>6, <2>7
  <1> QED
    BY Zenon, <1>10, <1>11

\* Agree() of Raft: the history moves on, the servers and clerks do not.
LEMMA CommitKvInv ==
    ASSUME KvInv, NEW l \in Servers, Commit(l)
    PROVE  KvInv'
  <1> DEFINE L == Len(committed)
  <1>1. UNCHANGED <<log, serverVars, applyVars, clerkVars, handlers, reply>>
    BY Zenon DEF Commit, Agree
  <1>2. /\ RaftType /\ ClerkType /\ HandlerType /\ ServerType /\ HistoryType /\ MadeInv
        /\ AwaitedInv /\ ChannelInv /\ OutcomeInv /\ ReplicaInv /\ StoreInv /\ ReplyInv
    BY Zenon DEF KvInv, TypeInv
  <1>3. UNCHANGED <<kv, requestCache, notify, lastApplied, snapshot, next, upTo, installed,
                    seq, leader, attempt, call, returned>>
    BY Zenon, <1>1 DEF serverVars, applyVars, clerkVars
  <1>4. PICK e : e = log[l][Len(committed) + 1]
    BY Zenon
  <1>5. /\ e \in Commands /\ Made(e) /\ e.Seq \in 0 .. MaxSeq
        /\ committed' \in Seq(Commands) /\ Len(committed') = L + 1
        /\ \A k \in 1 .. L : committed'[k] = committed[k]
        /\ committed'[L + 1] = e
        /\ \A n \in 0 .. L : outcomes'[n] = outcomes[n]
        /\ Final' = IF duplicate(Final.requestCache, e) THEN Final ELSE Executed(Final, e)
        /\ outcomes' \in [0 .. L + 1 -> [kv : Maps, requestCache : Caches]]
    BY Zenon, <1>4, CommitOutcome
  <1>6. /\ e.Seq <= Final'.requestCache[e.ClientId]
        /\ \A d \in Clients :
              /\ Final.requestCache[d] \in NoSeq .. MaxSeq
              /\ Final'.requestCache[d] \in NoSeq .. MaxSeq
              /\ Final.requestCache[d] <= Final'.requestCache[d]
              /\ \/ Final'.requestCache[d] = Final.requestCache[d]
                 \/ d = e.ClientId /\ Final'.requestCache[d] = e.Seq
    BY Zenon, <1>4, CommitCache
  <1>7. /\ store' \in [Keys -> Strings] /\ answers' \in [Clients -> SUBSET Strings]
        /\ \A k \in Keys : store'[k] = Value(Final'.kv, k)
        /\ \A d \in Clients :
              /\ call[d].OpType = "Get" => /\ answers[d] \subseteq answers'[d]
                                           /\ store'[call[d].Key] \in answers'[d]
              /\ call[d].OpType \in {"Put", "Append"} =>
                    answers'[d] = IF Final'.requestCache[d] = seq[d] - 1 THEN {<<>>} ELSE {}
              /\ Final.requestCache[d] = seq[d] - 1 \/ call[d] = NoCall
                    => /\ Final'.requestCache[d] = Final.requestCache[d]
                       /\ answers[d] \subseteq answers'[d]
              /\ call[d] # NoCall => Final'.requestCache[d] \in {seq[d] - 2, seq[d] - 1}
    BY Zenon, <1>4, CommitStore
  <1>8. L \in Nat /\ \A k \in 1 .. L : committed[k] \in Commands
    BY Zenon, <1>2, SeqFacts DEF RaftType
  <1>9. Final = outcomes[L] /\ Final' = outcomes'[L + 1]
    BY Zenon, <1>5 DEF Final
  <1>10. RaftType' /\ ClerkType' /\ HandlerType' /\ ServerType' /\ HistoryType'
    <2>1. RaftType' /\ HistoryType'
      BY Zenon, <1>1, <1>2, <1>5, <1>7 DEF RaftType, HistoryType
    <2> QED
      BY Zenon, <1>1, <1>2, <1>3, <2>1, SameClerk, SameHandler, SameServer
  <1>11. MadeInv'
    <2>1. \A k \in DOMAIN committed' : Made(committed'[k])
      <3>1. DOMAIN committed' = 1 .. L + 1 /\ DOMAIN committed = 1 .. L
        BY ZenonT(40), <1>2, <1>5, SeqFacts DEF RaftType
      <3>2. ASSUME NEW k \in 1 .. L + 1
            PROVE  \/ k \in DOMAIN committed /\ committed'[k] = committed[k]
                   \/ committed'[k] = e
        BY <1>5, <1>8, <3>1
      <3> QED
        BY Zenon, <1>2, <1>5, <3>1, <3>2 DEF MadeInv
    <2> QED
      BY Zenon, <1>1, <1>2, <1>3, <2>1 DEF MadeInv, Made
  <1>12. AwaitedInv' /\ ChannelInv'
    BY Zenon, <1>1, <1>2, <1>3, SameAwaited, SameChannel
  <1>13. OutcomeInv'
    <2>1. ASSUME NEW n \in 0 .. L + 1, NEW j \in 1 .. n
          PROVE  committed'[j].Seq <= outcomes'[n].requestCache[committed'[j].ClientId]
      <3>1. CASE n \in 0 .. L
        <4>1. j \in 1 .. L
          BY <1>8, <3>1
        <4>2. outcomes'[n] = outcomes[n] /\ committed'[j] = committed[j]
          BY Zenon, <1>5, <3>1, <4>1
        <4>3. committed[j].Seq <= outcomes[n].requestCache[committed[j].ClientId]
          BY Zenon, <1>2, <3>1 DEF OutcomeInv
        <4> QED
          BY Zenon, <4>2, <4>3
      <3>2. CASE n = L + 1 /\ j \in 1 .. L
        <4>1. committed[j].Seq <= Final.requestCache[committed[j].ClientId]
          BY <1>2, <1>8, <1>9, <3>2 DEF OutcomeInv
        <4>2. committed[j].Seq \in Nat /\ committed[j].ClientId \in Clients
          BY Zenon, <1>8, <3>2 DEF Commands
        <4>3. committed[j].Seq <= Final'.requestCache[committed[j].ClientId]
          BY SMTT(30), <1>6, <4>1, <4>2 DEF NoSeq
        <4> QED
          BY Zenon, <1>5, <1>9, <3>2, <4>3
      <3>3. CASE n = L + 1 /\ j = L + 1
        BY Zenon, <1>5, <1>6, <1>9, <3>3
      <3> QED
        BY SMTT(30), <1>8, <3>1, <3>2, <3>3
    <2>2. ASSUME NEW n \in 0 .. L + 1, NEW d \in Clients
          PROVE  \/ outcomes'[n].requestCache[d] = NoSeq
                 \/ \E j \in 1 .. n : /\ committed'[j].ClientId = d
                                      /\ committed'[j].Seq = outcomes'[n].requestCache[d]
      <3>1. CASE n \in 0 .. L
        <4>1. outcomes'[n] = outcomes[n] /\ \A j \in 1 .. n : committed'[j] = committed[j]
          BY <1>5, <1>8, <3>1
        <4>2. \/ outcomes[n].requestCache[d] = NoSeq
              \/ \E j \in 1 .. n : /\ committed[j].ClientId = d
                                   /\ committed[j].Seq = outcomes[n].requestCache[d]
          BY ZenonT(40), <1>2, <3>1 DEF OutcomeInv
        <4> QED
          BY Zenon, <4>1, <4>2
      <3>2. CASE n = L + 1 /\ Final'.requestCache[d] = Final.requestCache[d]
        <4>1. \/ Final.requestCache[d] = NoSeq
              \/ \E j \in 1 .. L : /\ committed[j].ClientId = d
                                   /\ committed[j].Seq = Final.requestCache[d]
          <5>1. L \in 0 .. L
            BY <1>8
          <5> QED
            BY Zenon, <1>2, <1>9, <5>1 DEF OutcomeInv
        <4> QED
          <5>1. \A j \in 1 .. L : j \in 1 .. n
            BY <1>8, <3>2
          <5> QED
            BY Zenon, <1>5, <1>9, <3>2, <4>1, <5>1
      <3>3. CASE n = L + 1 /\ d = e.ClientId /\ Final'.requestCache[d] = e.Seq
        <4>1. L + 1 \in 1 .. n
          BY <1>8, <3>3
        <4> QED
          BY Zenon, <1>5, <1>9, <3>3, <4>1
      <3> QED
        BY <1>6, <1>8, <3>1, <3>2, <3>3
    <2>3. ASSUME NEW n \in 1 .. L + 1
          PROVE  outcomes'[n] = IF duplicate(outcomes'[n - 1].requestCache, committed'[n])
                                THEN outcomes'[n - 1] ELSE Executed(outcomes'[n - 1], committed'[n])
      <3>1. CASE n \in 1 .. L
        <4>1. n - 1 \in 0 .. L /\ n \in 0 .. L
          BY <1>8, <3>1
        <4> QED
          BY Zenon, <1>2, <1>5, <3>1, <4>1 DEF OutcomeInv
      <3>2. CASE n = L + 1
        <4>1. n - 1 = L /\ L \in 0 .. L
          BY <1>8, <3>2
        <4> QED
          BY Zenon, <1>5, <1>9, <3>2, <4>1
      <3> QED
        BY <1>8, <3>1, <3>2
    <2> HIDE DEF L
    <2> QED
      BY Zenon, <1>5, <2>1, <2>2, <2>3 DEF OutcomeInv
  <1>14. ReplicaInv'
    <2> SUFFICES ASSUME NEW s \in Servers
                 PROVE  /\ upTo'[s] <= L + 1 /\ 1 <= next'[s] /\ next'[s] <= upTo'[s] + 1
                        /\ \E m \in 0 .. L + 1 : ServerHolds(s, m)'
                        /\ \E m \in 0 .. L + 1 : SnapshotHolds(s, m)'
      BY ZenonT(40), <1>5 DEF ReplicaInv
    <2>1. upTo'[s] <= L + 1 /\ 1 <= next'[s] /\ next'[s] <= upTo'[s] + 1
      BY <1>3, ReplicaFacts
    <2>2. PICK m \in 0 .. L : ServerHolds(s, m)
      BY Zenon, ReplicaFacts
    <2>3. PICK n \in 0 .. L : SnapshotHolds(s, n)
      BY Zenon, ReplicaFacts
    <2>4. ServerHolds(s, m)' /\ SnapshotHolds(s, n)'
      BY Zenon, <1>3, <1>5, <2>2, <2>3 DEF ServerHolds, SnapshotHolds
    <2>5. m \in 0 .. L + 1 /\ n \in 0 .. L + 1
      BY <1>8
    <2> QED
      BY Zenon, <2>1, <2>4, <2>5
  <1>15. StoreInv'
    <2>1. ASSUME NEW d \in Clients
          PROVE  /\ call[d] = NoCall => Final'.requestCache[d] = seq[d] - 1 /\ reply[d] = NoReply
                 /\ call[d] # NoCall => Final'.requestCache[d] \in {seq[d] - 2, seq[d] - 1}
      <3>1. call[d] = NoCall => Final.requestCache[d] = seq[d] - 1 /\ reply[d] = NoReply
        BY Zenon, <1>2 DEF StoreInv
      <3>2. /\ call[d] = NoCall => Final'.requestCache[d] = Final.requestCache[d]
            /\ call[d] # NoCall => Final'.requestCache[d] \in {seq[d] - 2, seq[d] - 1}
        BY Zenon, <1>7
      <3> QED
        BY Zenon, <3>1, <3>2
    <2>2. ASSUME NEW d \in Clients, call[d].OpType = "Get", NEW j \in 1 .. L + 1,
                 committed'[j].ClientId = d, committed'[j].Seq = seq[d] - 1, NEW n \in j .. L + 1
          PROVE  Value(outcomes'[n].kv, call[d].Key) \in answers'[d]
      <3>1. CASE n \in 0 .. L
        <4>1. j \in 1 .. L /\ n \in j .. L
          BY <1>8, <3>1
        <4>2. Value(outcomes[n].kv, call[d].Key) \in answers[d]
          BY ZenonT(40), <1>2, <1>5, <2>2, <4>1 DEF StoreInv
        <4> QED
          BY Zenon, <1>5, <1>7, <2>2, <3>1, <4>2
      <3>2. CASE n = L + 1
        <4>1. call[d].Key \in Keys
          <5>1. NoCall.OpType = "none"
            BY Zenon DEF NoCall
          <5> QED
            BY Zenon, <1>2, <2>2, <5>1, OpFacts DEF ClerkType
        <4> QED
          BY ZenonT(40), <1>7, <1>9, <2>2, <3>2, <4>1
      <3> QED
        BY <1>8, <3>1, <3>2
    <2> HIDE DEF L
    <2> QED
      BY ZenonT(40), <1>1, <1>3, <1>5, <1>7, <2>1, <2>2 DEF StoreInv
  <1>16. ReplyInv'
    BY Zenon, <1>1, <1>2, <1>3, <1>7 DEF ReplyInv
  <1> QED
    BY Zenon, <1>10, <1>11, <1>12, <1>13, <1>14, <1>15, <1>16 DEF KvInv, TypeInv

-----------------------------------------------------------------------------
(***************************************************************************)
(* The theorems.                                                           *)
(***************************************************************************)

\* Every step keeps the invariant.
LEMMA NextKvInv == KvInv /\ [Next]_vars => KvInv'
  <1> SUFFICES ASSUME KvInv, [Next]_vars
               PROVE  KvInv'
    BY Zenon
  <1>1. ASSUME NEW c \in Clients, Clerk(c)
        PROVE  KvInv'
    BY Zenon, <1>1, CallKvInv, RetryKvInv, ReturnKvInv DEF Clerk
  <1>2. ASSUME NEW h \in handlers, Handler(h)
        PROVE  KvInv'
    BY Zenon, <1>2, NotLeaderKvInv, StartOpKvInv, TimeoutKvInv DEF Handler
  <1>3. ASSUME NEW s \in Servers, Server(s)
        PROVE  KvInv'
    BY Zenon, <1>3, updateKvInv, sendCommandsKvInv, sendSnapshotKvInv, InstallSnapshotKvInv,
       RestartKvInv DEF Server
  <1>4. CASE UNCHANGED vars
    <2>1. UNCHANGED <<raftVars, serverVars, applyVars, clerkVars, historyVars, handlers, reply>>
      BY Zenon, <1>4 DEF vars
    <2>2. UNCHANGED <<log, committed, seq, call, notify, next, upTo, outcomes>>
      BY Zenon, <2>1 DEF raftVars, serverVars, applyVars, clerkVars, historyVars
    <2>3. RaftType /\ ServerType /\ MadeInv /\ ReplicaInv
      BY Zenon DEF KvInv, TypeInv
    <2>4. RaftType' /\ ServerType' /\ MadeInv' /\ ReplicaInv'
      BY Zenon, <2>1, <2>2, <2>3, SameRaft, SameServer, SameMade, SameReplica
    <2>5. /\ ClerkType' /\ HandlerType' /\ HistoryType' /\ AwaitedInv' /\ ChannelInv'
          /\ OutcomeInv' /\ StoreInv' /\ ReplyInv'
      BY Zenon, <2>1, <2>2, QuietService
    <2> QED
      BY Zenon, <2>4, <2>5 DEF KvInv, TypeInv
  <1> QED
    BY Zenon, <1>1, <1>2, <1>3, <1>4, CommitKvInv, RaftStepKvInv DEF Next

\* No reachable state has a server ahead of what is committed, a clerk that
\* addresses a server that does not exist, or a channel at an index outside
\* of the log: the invariant TypeOK.
THEOREM TypeCorrect == Spec => []TypeOK
  <1>1. KvInv => TypeOK
    <2> SUFFICES ASSUME KvInv PROVE TypeOK
      BY Zenon
    <2>1. RaftType /\ ClerkType /\ HandlerType /\ ServerType
      BY Zenon DEF KvInv, TypeInv
    <2>2. leader \in [Clients -> Servers] /\ \A h \in handlers : h.server \in Servers
      BY Zenon, <2>1 DEF ClerkType, HandlerType, HandlerRecords
    <2>3. \A c \in Clients : reply[c].Err \in {"none", "OK", "ErrNoKey", "ErrWrongLeader"}
      <3> SUFFICES ASSUME NEW c \in Clients
                   PROVE  reply[c].Err \in {"none", "OK", "ErrNoKey", "ErrWrongLeader"}
        BY Zenon
      <3>1. reply[c] \in Replies
        BY Zenon, <2>1 DEF ClerkType
      <3> QED
        BY <3>1 DEF Replies, NoReply, ErrWrongLeader
    <2>4. ASSUME NEW s \in Servers
          PROVE  /\ DOMAIN kv[s] \subseteq Keys
                 /\ lastApplied[s] \in 0 .. Len(committed) /\ upTo[s] \in 0 .. Len(committed)
                 /\ next[s] \in 1 .. upTo[s] + 1
                 /\ snapshot[s].lastApplied \in 0 .. Len(committed)
                 /\ \A n \in notify[s] : n.index \in 1 .. MaxLog
      <3>1. PICK m \in 0 .. Len(committed) : ServerHolds(s, m)
        BY Zenon, ReplicaFacts
      <3>2. PICK n \in 0 .. Len(committed) : SnapshotHolds(s, n)
        BY Zenon, ReplicaFacts
      <3>3. lastApplied[s] <= m /\ snapshot[s].lastApplied <= n
        BY Zenon, <3>1, <3>2 DEF ServerHolds, SnapshotHolds
      <3>4. DOMAIN kv[s] \subseteq Keys
        BY Zenon, <2>1, MapFacts DEF ServerType
      <3>5. \A e \in notify[s] : e.index \in 1 .. MaxLog
        BY <2>1 DEF HandlerType
      <3> QED
        <4>1. PICK L \in Nat, a \in Nat, b \in Nat, u \in Nat, x \in Nat :
                 /\ L = Len(committed) /\ a = lastApplied[s] /\ b = snapshot[s].lastApplied
                 /\ u = upTo[s] /\ x = next[s]
          BY Zenon, ReplicaFacts
        <4>2. u <= L /\ 1 <= x /\ x <= u + 1
          BY Zenon, <4>1, ReplicaFacts
        <4>3. a \in 0 .. L /\ b \in 0 .. L /\ u \in 0 .. L /\ x \in 1 .. u + 1
          <5>1. m \in 0 .. L /\ n \in 0 .. L /\ a <= m /\ b <= n
            BY Zenon, <3>3, <4>1
          <5> QED
            BY <4>1, <4>2, <5>1
        <4> QED
          BY Zenon, <3>4, <3>5, <4>1, <4>3
    <2>5. /\ seq \in [Clients -> 0 .. MaxSeq] /\ attempt \in [Clients -> 0 .. MaxAttempts]
          /\ requestCache \in [Servers -> [Clients -> NoSeq .. MaxSeq]]
      BY Zenon, <2>1 DEF ClerkType, ServerType, Caches
    <2> QED
      BY Zenon, <2>2, <2>3, <2>4, <2>5 DEF TypeOK
  <1> QED
    BY <1>1, InitKvInv, NextKvInv, PTL DEF Spec

\* A notification channel stays registered only while a handler waits on it,
\* across lost leaders, time-outs, snapshots and restarts: the calls of
\* getNotifyCh() and the deletes in Get(), handlePutAppend() and update().
THEOREM NoChannelLeaksCorrect == Spec => []NoChannelLeaks
  <1>1. KvInv => NoChannelLeaks
    BY Zenon DEF KvInv, ChannelInv
  <1> QED
    BY <1>1, InitKvInv, NextKvInv, PTL DEF Spec

\* Every server and every snapshot holds the outcome of some number of the
\* committed commands: update() skips no command and executes none twice,
\* though Raft may send commands again.
THEOREM ReplicasReplayCorrect == Spec => []ReplicasReplay
  <1>1. KvInv => ReplicasReplay
    <2> SUFFICES ASSUME KvInv, NEW s \in Servers
                 PROVE  /\ \E n \in lastApplied[s] .. Len(committed) :
                             outcomes[n] = [kv |-> kv[s], requestCache |-> requestCache[s]]
                        /\ \E n \in snapshot[s].lastApplied .. Len(committed) :
                             outcomes[n] = [kv |-> snapshot[s].kv,
                                            requestCache |-> snapshot[s].requestCache]
      BY Zenon DEF ReplicasReplay
    <2>1. PICK m \in 0 .. Len(committed) : ServerHolds(s, m)
      BY Zenon, ReplicaFacts
    <2>2. PICK n \in 0 .. Len(committed) : SnapshotHolds(s, n)
      BY Zenon, ReplicaFacts
    <2>3. /\ Len(committed) \in Nat /\ lastApplied[s] \in Nat /\ snapshot[s].lastApplied \in Nat
      BY Zenon, ReplicaFacts
    <2>4. /\ m \in lastApplied[s] .. Len(committed)
          /\ outcomes[m] = [kv |-> kv[s], requestCache |-> requestCache[s]]
      <3>1. PICK L \in Nat, a \in Nat : L = Len(committed) /\ a = lastApplied[s]
        BY Zenon, <2>3
      <3>2. m \in 0 .. L /\ a <= m
        BY Zenon, <2>1, <3>1 DEF ServerHolds
      <3>3. m \in a .. L
        BY <3>1, <3>2
      <3> QED
        BY Zenon, <2>1, <3>1, <3>3 DEF ServerHolds
    <2>5. /\ n \in snapshot[s].lastApplied .. Len(committed)
          /\ outcomes[n] = [kv |-> snapshot[s].kv, requestCache |-> snapshot[s].requestCache]
      <3>1. PICK L \in Nat, a \in Nat : L = Len(committed) /\ a = snapshot[s].lastApplied
        BY Zenon, <2>3
      <3>2. n \in 0 .. L /\ a <= n
        BY Zenon, <2>2, <3>1 DEF SnapshotHolds
      <3>3. n \in a .. L
        BY <3>1, <3>2
      <3> QED
        BY Zenon, <2>2, <3>1, <3>3 DEF SnapshotHolds
    <2> QED
      BY Zenon, <2>4, <2>5
  <1> QED
    BY <1>1, InitKvInv, NextKvInv, PTL DEF Spec

\* A command that takes effect when it is committed does so in the store.
LEMMA CommitImplements ==
    ASSUME KvInv, NEW l \in Servers, Commit(l)
    PROVE  [Store!Next]_(Store!storeVars)
  <1>1. UNCHANGED <<call, returned>>
    BY Zenon DEF Commit, clerkVars
  <1>2. PICK e : e = log[l][Len(committed) + 1]
    BY Zenon
  <1> DEFINE c == e.ClientId
  <1>3. e \in Commands /\ Made(e)
    BY Zenon, <1>2, CommitOutcome
  <1>4. c \in Clients /\ e.op.OpType \in {"Get", "Put", "Append"}
    BY Zenon, <1>3, OpFacts DEF Commands
  <1>5. CASE UNCHANGED <<store, answers>>
    BY Zenon, <1>1, <1>5 DEF Store!storeVars
  <1>6. CASE /\ e.op.OpType # "Get" /\ e.Seq = seq[c] - 1 /\ call[c] # NoCall /\ answers[c] = {}
             /\ store' = Step(store, e.op)
             /\ answers' = AnswersAfter(answers, call, c, store', <<>>)
    <2>1. e.op = call[c] /\ call[c].OpType \in {"Put", "Append"}
      BY Zenon, <1>3, <1>4, <1>6 DEF Made
    <2>2. Store!Step(store, call[c]) = store' /\ Store!Output(store, call[c], FALSE) = <<>>
      BY Zenon, <1>6, <2>1 DEF Store!Step, Step, Store!Output
    <2>3. Store!AnswersAfter(answers, call, c, store', <<>>) = answers'
      BY Zenon, <1>6 DEF Store!AnswersAfter, AnswersAfter
    <2>4. Store!TakeEffect(c)
      BY Zenon, <1>1, <1>6, <2>1, <2>2, <2>3 DEF Store!TakeEffect
    <2> QED
      BY Zenon, <1>4, <2>4 DEF Store!Next
  <1> QED
    BY Zenon, <1>2, <1>5, <1>6 DEF Commit

\* Every step is a step of the store, or leaves it alone.
LEMMA NextImplementsStore ==
    ASSUME NoSentinel, KvInv, [Next]_vars
    PROVE  [Store!Next]_(Store!storeVars)
  <1>1. ASSUME NEW c \in Clients, NEW op \in OpsOf(c), Call(c, op)
        PROVE  Store!Next
    <2>1. /\ call[c] = NoCall /\ call' = [call EXCEPT ![c] = op]
          /\ answers' = [answers EXCEPT ![c] = FirstAnswers(store, op)]
          /\ UNCHANGED <<store, returned>>
      BY Zenon, <1>1 DEF Call
    <2>2. Store!Invoke(c, op)
      BY Zenon, <2>1 DEF Store!Invoke, Store!NoCall, NoCall, Store!FirstAnswers, FirstAnswers
    <2> QED
      BY Zenon, <2>2 DEF Store!Next
  <1>2. ASSUME NEW c \in Clients, Return(c)
        PROVE  Store!Next
    <2> DEFINE v == IF reply[c].Err = "OK" THEN reply[c].Value ELSE <<>>
    <2>1. /\ reply[c].Err \in {"OK", "ErrNoKey"} /\ returned' = [returned EXCEPT ![c] = v]
          /\ call' = [call EXCEPT ![c] = NoCall] /\ answers' = [answers EXCEPT ![c] = {}]
          /\ UNCHANGED store
      BY Zenon, <1>2 DEF Return
    <2>2. call[c] # NoCall /\ v \in answers[c]
      BY Zenon, <2>1 DEF KvInv, ReplyInv
    <2> HIDE DEF v
    <2>3. Store!Return(c)
      BY Zenon, <2>1, <2>2 DEF Store!Return, Store!NoCall, NoCall
    <2> QED
      BY Zenon, <2>3 DEF Store!Next
  <1>3. ASSUME NEW c \in Clients, Retry(c)
        PROVE  UNCHANGED Store!storeVars
    BY Zenon, <1>3 DEF Retry, historyVars, Store!storeVars
  <1>4. ASSUME NEW h \in handlers, Handler(h)
        PROVE  UNCHANGED Store!storeVars
    <2>1. UNCHANGED <<clerkVars, historyVars>>
      BY Zenon, <1>4 DEF Handler, NotLeader, StartOp, Timeout
    <2> QED
      BY Zenon, <2>1 DEF clerkVars, historyVars, Store!storeVars
  <1>5. ASSUME NEW s \in Servers, Server(s)
        PROVE  UNCHANGED Store!storeVars
    <2>1. UNCHANGED <<clerkVars, historyVars>>
      BY Zenon, <1>5 DEF Server, update, sendCommands, sendSnapshot, InstallSnapshot, Restart
    <2> QED
      BY Zenon, <2>1 DEF clerkVars, historyVars, Store!storeVars
  <1>6. CASE RaftStep
    BY Zenon, <1>6 DEF RaftStep, clerkVars, historyVars, Store!storeVars
  <1>7. CASE UNCHANGED vars
    BY Zenon, <1>7 DEF vars, clerkVars, historyVars, Store!storeVars
  <1> QED
    BY Zenon, <1>1, <1>2, <1>3, <1>4, <1>5, <1>6, <1>7, CommitImplements DEF Next, Clerk

\* The replicated service is a linearizable map, whatever the clerks, the
\* network, the elections, the snapshots and the restarts do: a Put or an
\* Append takes effect once, and a Get returns what its key held while it was
\* open.  The string "ErrNoKey", which kv.get() returns for an absent key,
\* must not be stored.
THEOREM ServiceLinearizable ==
    ASSUME NoSentinel
    PROVE  Spec => Linearizable
  <1>1. Init => Store!Init
    BY Zenon DEF Init, Store!Init, Store!EmptyStore, EmptyStore, Store!NoCall, NoCall
  <1>2. KvInv /\ [Next]_vars => [Store!Next]_(Store!storeVars)
    BY Zenon, NextImplementsStore
  <1> QED
    BY <1>1, <1>2, InitKvInv, NextKvInv, PTL DEF Spec, Linearizable, Store!Spec
=============================================================================
