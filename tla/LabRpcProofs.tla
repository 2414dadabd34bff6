---------------------------- MODULE LabRpcProofs ----------------------------
(***************************************************************************)
(* Proofs about LabRpc, for any number of servers, calls and restarts:     *)
(* the types, that a reply is durable, and that no end of a former         *)
(* incarnation is enabled.                                                 *)
(***************************************************************************)
EXTENDS LabRpc, TLAPS

Doings ==
    [op : {"delete", "supersede", "resave", "names", "add"}, i : Servers,
     then : {"idle", "start"}]

\* The tester's place in crash1() and start1(), and what it has done on the
\* way: the server is off the net, then deleted, then started at most
\* MaxStarts times.
TesterInv ==
    /\ doing \in Doings \cup {Idle}
    /\ doing \in Doings =>
         /\ ~connected[doing.i]
         /\ doing.op = "names" => doing.then = "start"
         /\ doing.op # "add" /\ doing.then = "start" => ends[doing.i] < MaxStarts
         /\ doing.op # "delete" => servers[doing.i] = 0
         /\ doing.op = "add" => persister[doing.i][Len(persister[doing.i])] = saved[doing.i]
    /\ \A i \in Servers : ends[i] = Len(persister[i])

\* Each incarnation has a Persister of its own, which holds its memory.  The
\* one of the server on the network is the one that the next will start from.
DiskInv ==
    \A i \in Servers :
        /\ \A k \in DOMAIN persister[i] : disk[i][persister[i][k]] = state[i][k]
        /\ \A k, l \in DOMAIN persister[i] : persister[i][k] = persister[i][l] => k = l
        /\ servers[i] # 0 => persister[i][servers[i]] = saved[i]

\* How far a call is, and what its handler has done.
CallInv ==
    \A c \in Calls :
        /\ pc[c] \in {"idle", "sending", "received", "reached"} => handler[c] = "none"
        /\ pc[c] # "idle" => end[c] \in Ends
        /\ pc[c] = "reached" => server[c] \in DOMAIN persister[To(c)]
        /\ pc[c] = "replied" => handler[c] = "ended"
        /\ handler[c] \in {"returning", "blocked", "ended"} => c \in state[To(c)][server[c]]
        /\ pc[c] \in {"answering", "true"} => c \in disk[To(c)][saved[To(c)]]

\* OnlyConnected, also while the tester is at work.
EndsInv ==
    /\ enabled \subseteq Ends
    /\ \A i, j \in Servers, k \in Incarnations :
         <<i, k, j>> \in enabled <=> connected[i] /\ connected[j] /\ k = ends[i]

NetInv == TypeOK /\ TesterInv /\ DiskInv /\ CallInv /\ EndsInv

-----------------------------------------------------------------------------
(***************************************************************************)
(* Sequences.                                                              *)
(***************************************************************************)

\* The indices of a sequence are positive.
LEMMA SeqDomain ==
    ASSUME NEW S, NEW s \in Seq(S)
    PROVE  DOMAIN s = 1 .. Len(s) /\ Len(s) \in Nat /\ 0 \notin DOMAIN s
           /\ \A k \in DOMAIN s : s[k] \in S
  OBVIOUS

\* A new last element leaves the others where they are.
LEMMA SeqAppend ==
    ASSUME NEW S, NEW s \in Seq(S), NEW x \in S
    PROVE  /\ Append(s, x) \in Seq(S) /\ Len(Append(s, x)) = Len(s) + 1
           /\ Append(s, x)[Len(s) + 1] = x
           /\ \A k \in DOMAIN s : k \in DOMAIN Append(s, x) /\ Append(s, x)[k] = s[k]
           /\ DOMAIN Append(s, x) = DOMAIN s \cup {Len(s) + 1}
           /\ Len(s) + 1 \notin DOMAIN s
  BY SeqDomain

\* An element that is replaced leaves the others as they are.
LEMMA SeqReplace ==
    ASSUME NEW S, NEW s \in Seq(S), NEW k \in DOMAIN s, NEW x \in S
    PROVE  /\ [s EXCEPT ![k] = x] \in Seq(S) /\ Len([s EXCEPT ![k] = x]) = Len(s)
           /\ DOMAIN [s EXCEPT ![k] = x] = DOMAIN s
           /\ [s EXCEPT ![k] = x][k] = x
           /\ \A l \in DOMAIN s : l # k => [s EXCEPT ![k] = x][l] = s[l]
  BY SeqDomain

-----------------------------------------------------------------------------
\* The initial state.
LEMMA InitNetInv == Init => NetInv
  <1> SUFFICES ASSUME Init PROVE NetInv
    BY Zenon
  <1> USE MaxStartsAssumption
  <1>1. \A i \in Servers : /\ disk[i] = <<{}>> /\ persister[i] = <<1>> /\ state[i] = <<{}>>
                           /\ saved[i] = 1 /\ servers[i] = 1 /\ ends[i] = 1 /\ connected[i]
    BY Zenon DEF Init
  <1>2. \A c \in Calls : pc[c] = "idle" /\ end[c] = <<>> /\ server[c] = 0 /\ handler[c] = "none"
    BY Zenon DEF Init
  <1>3. TypeOK
    <2>1. /\ enabled \subseteq Ends /\ servers \in [Servers -> 0 .. MaxStarts]
          /\ server \in [Calls -> 0 .. MaxStarts] /\ ends \in [Servers -> Incarnations]
          /\ saved \in [Servers -> Nat]
      BY DEF Init, Ends, Incarnations
    <2>2. /\ disk \in [Servers -> Seq(SUBSET Calls)] /\ state \in [Servers -> Seq(SUBSET Calls)]
          /\ persister \in [Servers -> Seq(Nat)]
      BY DEF Init
    <2>3. \A i \in Servers : /\ saved[i] \in DOMAIN disk[i]
                             /\ Len(persister[i]) = Len(state[i])
                             /\ servers[i] \in {0} \cup DOMAIN persister[i]
                             /\ \A k \in DOMAIN persister[i] : persister[i][k] \in DOMAIN disk[i]
      BY <1>1
    <2>4. /\ pc \in [Calls -> {"idle", "sending", "received", "reached", "waiting", "replied",
                               "abandoned", "answering", "failing", "true", "false"}]
          /\ end \in [Calls -> Ends \cup {<<>>}] /\ lossy \in [Calls -> BOOLEAN]
          /\ handler \in [Calls -> {"none", "running", "blocked", "returning", "ended"}]
          /\ connected \in [Servers -> BOOLEAN] /\ alive \in [Servers -> BOOLEAN]
          /\ reliable \in BOOLEAN /\ done \in BOOLEAN /\ stopped \in BOOLEAN
      BY Zenon DEF Init
    <2> QED
      BY <1>2, <2>1, <2>2, <2>3, <2>4, Zenon DEF TypeOK
  <1>4. TesterInv
    <2>1. Idle \notin Doings
      BY Zenon DEF Idle, Doings
    <2> QED
      BY Zenon, <1>1, <2>1 DEF Init, TesterInv
  <1>5. DiskInv
    BY <1>1 DEF DiskInv
  <1>6. CallInv
    BY Zenon, <1>2 DEF CallInv
  <1>7. EndsInv
    BY Zenon, <1>1 DEF Init, EndsInv, Ends, Incarnations
  <1> QED
    BY Zenon, <1>3, <1>4, <1>5, <1>6, <1>7 DEF NetInv

-----------------------------------------------------------------------------
(***************************************************************************)
(* The parts of TypeOK that different steps change.                        *)
(***************************************************************************)
CallType ==
    /\ pc \in [Calls -> {"idle", "sending", "received", "reached", "waiting", "replied",
                         "abandoned", "answering", "failing", "true", "false"}]
    /\ end \in [Calls -> Ends \cup {<<>>}]
    /\ server \in [Calls -> 0 .. MaxStarts] /\ lossy \in [Calls -> BOOLEAN]
    /\ handler \in [Calls -> {"none", "running", "blocked", "returning", "ended"}]
    /\ \A c \in Calls : handler[c] # "none" => server[c] \in DOMAIN persister[To(c)]

DiskType ==
    /\ servers \in [Servers -> 0 .. MaxStarts]
    /\ disk \in [Servers -> Seq(SUBSET Calls)] /\ state \in [Servers -> Seq(SUBSET Calls)]
    /\ saved \in [Servers -> Nat] /\ persister \in [Servers -> Seq(Nat)]
    /\ \A i \in Servers : /\ saved[i] \in DOMAIN disk[i]
                          /\ Len(persister[i]) = Len(state[i])
                          /\ servers[i] \in {0} \cup DOMAIN persister[i]
                          /\ \A k \in DOMAIN persister[i] : persister[i][k] \in DOMAIN disk[i]

FlagType ==
    /\ reliable \in BOOLEAN /\ done \in BOOLEAN /\ stopped \in BOOLEAN
    /\ enabled \subseteq Ends
    /\ connected \in [Servers -> BOOLEAN] /\ alive \in [Servers -> BOOLEAN]
    /\ ends \in [Servers -> Incarnations]

\* The three parts of the types.
LEMMA TypeParts == TypeOK <=> CallType /\ DiskType /\ FlagType
  BY Zenon DEF TypeOK, CallType, DiskType, FlagType

\* The server of a call that was made.
LEMMA ToType ==
    ASSUME NEW e \in Ends
    PROVE  e[3] \in Servers
  BY Zenon DEF Ends

\* A step of a call alone.
LEMMA CallStep ==
    ASSUME NetInv, UNCHANGED <<netVars, diskVars, testerVars>>, CallType', CallInv'
    PROVE  NetInv'
  <1>1. DiskType' /\ FlagType'
    BY Zenon, TypeParts DEF NetInv, DiskType, FlagType, netVars, diskVars, testerVars
  <1>2. TypeOK'
    BY Zenon, <1>1 DEF TypeOK, CallType, DiskType, FlagType
  <1>3. TesterInv'
    BY Zenon DEF NetInv, TesterInv, netVars, diskVars, testerVars
  <1>4. DiskInv' /\ EndsInv'
    BY DEF NetInv, DiskInv, EndsInv, netVars, diskVars, testerVars
  <1> QED
    BY Zenon, <1>2, <1>3, <1>4 DEF NetInv

\* A client sends a request.
LEMMA CallNetInv ==
    ASSUME NetInv, NEW c \in Calls, NEW i \in Servers, NEW j \in Servers,
           NEW k \in Incarnations, Call(c, i, k, j)
    PROVE  NetInv'
  <1>1. CallType /\ CallInv
    BY Zenon, TypeParts DEF NetInv
  <1>2. <<i, k, j>> \in Ends
    BY Zenon DEF Ends
  <1>3. /\ pc[c] = "idle" /\ handler[c] = "none"
        /\ pc' = [pc EXCEPT ![c] = "sending"] /\ end' = [end EXCEPT ![c] = <<i, k, j>>]
        /\ UNCHANGED <<netVars, server, lossy, handler, diskVars, testerVars>>
    BY Zenon, <1>1 DEF Call, Goto, CallInv
  <1>4. CallType'
    BY Zenon, <1>1, <1>2, <1>3 DEF CallType, To, diskVars
  <1>5. CallInv'
    BY Zenon, <1>1, <1>2, <1>3 DEF CallType, CallInv, To, diskVars
  <1> QED
    BY Zenon, <1>3, <1>4, <1>5, CallStep

\* processReq() reads what the end is connected to.
LEMMA readEndnameInfoNetInv ==
    ASSUME NetInv, NEW c \in Calls, readEndnameInfo(c)
    PROVE  NetInv'
  <1>1. CallType /\ DiskType /\ FlagType /\ CallInv
    BY Zenon, TypeParts DEF NetInv
  <1>2. PICK l \in {"reached", "failing"}, n \in 0 .. MaxStarts :
          /\ pc' = [pc EXCEPT ![c] = l] /\ server' = [server EXCEPT ![c] = n]
          /\ l = "reached" => n \in DOMAIN persister[To(c)]
    <2>1. pc[c] = "received" /\ To(c) \in Servers
      BY Zenon, <1>1, ToType DEF readEndnameInfo, CallInv, To
    <2>2. servers[To(c)] \in 0 .. MaxStarts
          /\ (servers[To(c)] # 0 => servers[To(c)] \in DOMAIN persister[To(c)])
      BY Zenon, <1>1, <2>1 DEF DiskType
    <2>3. CASE end[c] \in enabled /\ servers[To(c)] # 0
      <3>1. pc' = [pc EXCEPT ![c] = "reached"]
            /\ server' = [server EXCEPT ![c] = servers[To(c)]]
        BY Zenon, <2>3 DEF readEndnameInfo, Goto
      <3> QED
        BY <2>2, <2>3, <3>1, Zenon
    <2>4. CASE ~(end[c] \in enabled /\ servers[To(c)] # 0)
      <3>1. pc' = [pc EXCEPT ![c] = "failing"] /\ server' = [server EXCEPT ![c] = 0]
        BY <2>4, Zenon DEF readEndnameInfo, Goto
      <3>2. 0 \in 0 .. MaxStarts
        BY MaxStartsAssumption
      <3> QED
        BY <3>1, <3>2, Zenon
    <2> QED
      BY Zenon, <2>3, <2>4
  <1>3. /\ pc[c] = "received" /\ handler[c] = "none"
        /\ lossy' = [lossy EXCEPT ![c] = ~reliable]
        /\ UNCHANGED <<netVars, end, handler, diskVars, testerVars>>
    BY Zenon, <1>1 DEF readEndnameInfo, CallInv
  <1>4. CallType'
    BY Zenon, <1>1, <1>2, <1>3 DEF CallType, FlagType, To, diskVars
  <1>5. CallInv'
    BY Zenon, <1>1, <1>2, <1>3 DEF CallType, CallInv, To, diskVars
  <1> QED
    BY Zenon, <1>3, <1>4, <1>5, CallStep

\* The steps of a call that change nothing but pc.
Moves(c, l) ==
    /\ pc' = [pc EXCEPT ![c] = l]
    /\ UNCHANGED <<netVars, end, server, lossy, handler, diskVars, testerVars>>

\* A call moves on in processReq() without touching a server.
LEMMA MovesNetInv ==
    ASSUME NetInv, NEW c \in Calls,
           NEW l \in {"received", "failing", "false", "abandoned", "answering", "true"},
           Moves(c, l), pc[c] # "idle", l = "received" => pc[c] = "sending",
           l \in {"answering", "true"} => c \in disk[To(c)][saved[To(c)]]
    PROVE  NetInv'
  <1>1. CallType /\ CallInv
    BY Zenon, TypeParts DEF NetInv
  <1>2. /\ pc' = [pc EXCEPT ![c] = l]
        /\ UNCHANGED <<netVars, end, server, lossy, handler, diskVars, testerVars>>
    BY Zenon DEF Moves
  <1>3. CallType'
    BY Zenon, <1>1, <1>2 DEF CallType, To, diskVars
  <1>4. CallInv'
    BY Zenon, <1>1, <1>2 DEF CallType, CallInv, To, diskVars
  <1> QED
    BY Zenon, <1>2, <1>3, <1>4, CallStep

\* A reply that processReq() lets through is that of the server on the
\* network, whose Persister is the one that the next incarnation gets.
LEMMA DecideNetInv ==
    ASSUME NetInv, NEW c \in Calls, Decide(c)
    PROVE  NetInv'
  <1>1. CallType /\ DiskType /\ CallInv /\ DiskInv
    BY Zenon, TypeParts DEF NetInv
  <1>2. CASE MayAnswer(c)
    <2>1. /\ pc[c] = "replied" /\ handler[c] = "ended" /\ end[c] \in Ends
          /\ servers[To(c)] = server[c]
      BY Zenon, <1>1, <1>2 DEF MayAnswer, isServerDead, CallInv
    <2>2. /\ To(c) \in Servers /\ server[c] \in DOMAIN persister[To(c)]
          /\ c \in state[To(c)][server[c]]
      BY Zenon, <1>1, <2>1, ToType DEF CallType, CallInv, To
    <2>3. server[c] # 0
      BY <1>1, <2>2, SeqDomain DEF DiskType
    <2>4. disk[To(c)][saved[To(c)]] = state[To(c)][server[c]]
      BY <1>1, <2>1, <2>2, <2>3 DEF DiskInv
    <2>5. Moves(c, "answering")
      BY Zenon, <1>2 DEF Decide, Moves, Goto
    <2> QED
      BY Zenon, <2>1, <2>2, <2>4, <2>5, MovesNetInv
  <1>3. CASE ~MayAnswer(c)
    <2>1. Moves(c, "failing") /\ pc[c] # "idle"
      BY Zenon, <1>3 DEF Decide, Moves, Goto
    <2> QED
      BY Zenon, <2>1, MovesNetInv
  <1> QED
    BY Zenon, <1>2, <1>3

\* A reply, or a failure, gets back to the client.
LEMMA ReturnNetInv ==
    ASSUME NetInv, NEW c \in Calls, Return(c)
    PROVE  NetInv'
  <1>1. CASE pc[c] = "answering"
    <2>1. Moves(c, "true")
      BY Zenon, <1>1 DEF Return, Moves, Goto
    <2>2. c \in disk[To(c)][saved[To(c)]]
      BY Zenon, <1>1 DEF NetInv, CallInv
    <2> QED
      BY Zenon, <1>1, <2>1, <2>2, MovesNetInv
  <1>2. CASE pc[c] = "failing"
    <2>1. Moves(c, "false")
      BY Zenon, <1>2 DEF Return, Moves, Goto
    <2> QED
      BY Zenon, <1>2, <2>1, MovesNetInv
  <1> QED
    BY Zenon, <1>1, <1>2 DEF Return

\* The steps that a handler's goroutine and processReq() take together.
LEMMA HandlerNetInv ==
    ASSUME NetInv, NEW c \in Calls, StartHandler(c) \/ TakeReply(c) \/ Drain(c)
    PROVE  NetInv'
  <1>1. CallType /\ CallInv
    BY Zenon, TypeParts DEF NetInv
  <1>2. CASE StartHandler(c)
    <2>1. /\ pc[c] = "reached" /\ pc' = [pc EXCEPT ![c] = "waiting"]
          /\ handler' = [handler EXCEPT ![c] = "running"]
          /\ UNCHANGED <<netVars, end, server, lossy, diskVars, testerVars>>
      BY Zenon, <1>2 DEF StartHandler, Goto
    <2>2. CallType'
      BY Zenon, <1>1, <2>1 DEF CallType, CallInv, To, diskVars
    <2>3. CallInv'
      BY Zenon, <1>1, <2>1 DEF CallType, CallInv, To, diskVars
    <2> QED
      BY Zenon, <2>1, <2>2, <2>3, CallStep
  <1>3. CASE TakeReply(c)
    <2>1. /\ pc[c] = "waiting" /\ handler[c] = "returning"
          /\ pc' = [pc EXCEPT ![c] = "replied"] /\ handler' = [handler EXCEPT ![c] = "ended"]
          /\ UNCHANGED <<netVars, end, server, lossy, diskVars, testerVars>>
      BY Zenon, <1>3 DEF TakeReply, Goto
    <2>2. CallType'
      BY Zenon, <1>1, <2>1 DEF CallType, To, diskVars
    <2>3. CallInv'
      BY Zenon, <1>1, <2>1 DEF CallType, CallInv, To, diskVars
    <2> QED
      BY Zenon, <2>1, <2>2, <2>3, CallStep
  <1>4. CASE Drain(c)
    <2>1. /\ handler[c] = "returning" /\ handler' = [handler EXCEPT ![c] = "ended"]
          /\ UNCHANGED <<netVars, pc, end, server, lossy, diskVars, testerVars>>
      BY Zenon, <1>4 DEF Drain
    <2>2. CallType'
      BY Zenon, <1>1, <2>1 DEF CallType, To, diskVars
    <2>3. CallInv'
      BY Zenon, <1>1, <2>1 DEF CallType, CallInv, To, diskVars
    <2> QED
      BY Zenon, <2>1, <2>2, <2>3, CallStep
  <1> QED
    BY Zenon, <1>2, <1>3, <1>4

\* All steps of the network and of the calls in it.
LEMMA NetworkNetInv ==
    ASSUME NetInv, NEW c \in Calls, Network(c)
    PROVE  NetInv'
  <1>1. CASE CallFails(c)
    BY <1>1, MovesNetInv, Zenon DEF CallFails, Moves, Goto
  <1>2. CASE Receive(c)
    BY <1>2, MovesNetInv, Zenon DEF Receive, Moves, Goto
  <1>3. CASE Drop(c)
    BY <1>3, MovesNetInv, Zenon DEF Drop, Moves, Goto
  <1>4. CASE Abandon(c)
    BY <1>4, MovesNetInv, Zenon DEF Abandon, Moves, Goto
  <1> QED
    BY Zenon, <1>1, <1>2, <1>3, <1>4, readEndnameInfoNetInv, DecideNetInv, ReturnNetInv, HandlerNetInv
       DEF Network

-----------------------------------------------------------------------------
(***************************************************************************)
(* The handler.                                                            *)
(***************************************************************************)

\* The handler of call c writes the Persister of its own incarnation, and no
\* other; whatever was in it stays.
LEMMA HandleNetInv ==
    ASSUME NetInv, NEW c \in Calls, Handle(c)
    PROVE  NetInv'
  <1> DEFINE j == To(c)
             k == server[c]
             p == persister[j][k]
             new == state[j][k] \cup {c}
  <1>1. CallType /\ DiskType /\ FlagType /\ TesterInv /\ DiskInv /\ CallInv /\ EndsInv
    BY Zenon, TypeParts DEF NetInv
  <1>2. handler[c] = "running" /\ pc[c] # "idle" /\ end[c] \in Ends
    BY Zenon, <1>1 DEF Handle, CallInv
  <1>3. j \in Servers /\ k \in DOMAIN persister[j] /\ p \in DOMAIN disk[j]
    BY Zenon, <1>1, <1>2, ToType DEF To, CallType, DiskType
  <1>4. k \in DOMAIN state[j] /\ new \in SUBSET Calls
    <2>1. /\ DOMAIN persister[j] = 1 .. Len(persister[j])
          /\ DOMAIN state[j] = 1 .. Len(state[j])
      BY Zenon, <1>1, <1>3, SeqDomain DEF DiskType
    <2>2. k \in DOMAIN state[j]
      BY Zenon, <1>1, <1>3, <2>1 DEF DiskType
    <2>3. state[j][k] \in SUBSET Calls
      BY Zenon, <1>1, <1>3, <2>1, <2>2, SeqDomain DEF DiskType
    <2> QED
      BY Zenon, <2>2, <2>3
  <1>5. /\ state' = [state EXCEPT ![j] = [state[j] EXCEPT ![k] = new]]
        /\ disk' = [disk EXCEPT ![j] = [disk[j] EXCEPT ![p] = new]]
        /\ \E l \in {"returning", "blocked"} : handler' = [handler EXCEPT ![c] = l]
        /\ UNCHANGED <<netVars, pc, end, server, lossy, saved, persister, testerVars>>
    BY <1>1, Zenon DEF Handle, DiskType
  <1>6. /\ state' \in [Servers -> Seq(SUBSET Calls)]
        /\ Len(state'[j]) = Len(state[j]) /\ DOMAIN state'[j] = DOMAIN state[j]
        /\ state'[j][k] = new
        /\ \A l \in DOMAIN state[j] : l # k => state'[j][l] = state[j][l]
        /\ \A i \in Servers : i # j => state'[i] = state[i]
    <2>1. state \in [Servers -> Seq(SUBSET Calls)]
      BY Zenon, <1>1 DEF DiskType
    <2> HIDE DEF j, k, new
    <2> QED
      BY <1>3, <1>4, <1>5, <2>1, SeqReplace
  <1>7. /\ disk' \in [Servers -> Seq(SUBSET Calls)] /\ DOMAIN disk'[j] = DOMAIN disk[j]
        /\ disk'[j][p] = new
        /\ \A q \in DOMAIN disk[j] : q # p => disk'[j][q] = disk[j][q]
        /\ \A i \in Servers : i # j => disk'[i] = disk[i]
    <2>1. disk \in [Servers -> Seq(SUBSET Calls)]
      BY Zenon, <1>1 DEF DiskType
    <2> HIDE DEF j, k, p, new
    <2> QED
      BY Zenon, <1>3, <1>4, <1>5, <2>1, SeqReplace
  <1>8. disk[j][p] = state[j][k]
    BY Zenon, <1>1, <1>3 DEF DiskInv
  <1>9. \A i \in Servers : \A q \in DOMAIN disk[i] : disk[i][q] \subseteq disk'[i][q]
    BY Zenon, <1>3, <1>7, <1>8
  <1>10. \A i \in Servers : \A l \in DOMAIN state[i] : state[i][l] \subseteq state'[i][l]
    BY <1>3, <1>6, Zenon
  <1>11. DiskType'
    <2>1. \A i \in Servers : DOMAIN disk'[i] = DOMAIN disk[i] /\ Len(state'[i]) = Len(state[i])
      BY <1>6, <1>7, Zenon
    <2> QED
      BY <1>1, <1>5, <1>6, <1>7, <2>1, Zenon DEF DiskType, netVars
  <1>12. CallType' /\ FlagType'
    <2>1. CallType'
      BY Zenon, <1>1, <1>2, <1>5 DEF CallType, To
    <2>2. FlagType'
      BY Zenon, <1>1, <1>5 DEF FlagType, netVars, testerVars
    <2> QED
      BY Zenon, <2>1, <2>2
  <1>13. DiskInv'
    <2>1. ASSUME NEW i \in Servers, NEW l \in DOMAIN persister[i]
          PROVE  disk'[i][persister[i][l]] = state'[i][l]
      <3>1. l \in DOMAIN state[i]
        BY Zenon, <1>1, SeqDomain DEF DiskType
      <3>2. persister[i][l] \in DOMAIN disk[i] /\ disk[i][persister[i][l]] = state[i][l]
        BY Zenon, <1>1 DEF DiskType, DiskInv
      <3>3. i = j /\ l # k => persister[i][l] # p
        BY <1>1, <1>3 DEF DiskInv
      <3> QED
        BY <1>6, <1>7, <3>1, <3>2, <3>3, Zenon
    <2>2. persister' = persister /\ saved' = saved /\ servers' = servers
      BY Zenon, <1>5 DEF netVars
    <2>3. \A i \in Servers :
            /\ \A l, m \in DOMAIN persister[i] : persister[i][l] = persister[i][m] => l = m
            /\ servers[i] # 0 => persister[i][servers[i]] = saved[i]
      BY <1>1, Zenon DEF DiskInv
    <2> QED
      BY <2>1, <2>2, <2>3, Zenon DEF DiskInv
  <1>14. CallInv'
    <2> SUFFICES ASSUME NEW d \in Calls
                 PROVE  /\ pc[d] \in {"idle", "sending", "received", "reached"}
                              => handler'[d] = "none"
                        /\ pc[d] # "idle" => end[d] \in Ends
                        /\ pc[d] = "reached" => server[d] \in DOMAIN persister[To(d)]
                        /\ pc[d] = "replied" => handler'[d] = "ended"
                        /\ handler'[d] \in {"returning", "blocked", "ended"}
                              => d \in state'[To(d)][server[d]]
                        /\ pc[d] \in {"answering", "true"}
                              => d \in disk'[To(d)][saved[To(d)]]
      BY Zenon, <1>5 DEF CallInv, To, netVars
    <2>1. d # c => handler'[d] = handler[d]
      BY Zenon, <1>1, <1>5 DEF CallType
    <2>2. handler'[c] \in {"returning", "blocked"}
      BY Zenon, <1>1, <1>5 DEF CallType
    <2>3. pc[c] \notin {"idle", "sending", "received", "reached", "replied"}
      BY Zenon, <1>1, <1>2 DEF CallInv
    <2>4. pc[d] # "idle" => To(d) \in Servers
      BY Zenon, <1>1, ToType DEF CallInv, To
    <2>5. handler'[d] \in {"returning", "blocked", "ended"} => d \in state'[To(d)][server[d]]
      <3>1. CASE d = c
        BY Zenon, <1>6, <3>1
      <3>2. CASE d # c
        <4> SUFFICES ASSUME handler[d] \in {"returning", "blocked", "ended"}
                     PROVE  d \in state'[To(d)][server[d]]
          BY Zenon, <2>1, <3>2
        <4>1. pc[d] # "idle" /\ To(d) \in Servers
          BY Zenon, <1>1, <2>4 DEF CallInv
        <4>2. server[d] \in DOMAIN persister[To(d)] /\ d \in state[To(d)][server[d]]
          BY Zenon, <1>1 DEF CallType, CallInv
        <4>3. server[d] \in DOMAIN state[To(d)]
          BY <1>1, <4>1, <4>2, SeqDomain DEF DiskType
        <4> QED
          BY Zenon, <1>10, <4>1, <4>2, <4>3
      <3> QED
        BY Zenon, <3>1, <3>2
    <2>6. pc[d] \in {"answering", "true"} => d \in disk'[To(d)][saved[To(d)]]
      BY Zenon, <1>1, <1>9, <2>4 DEF CallInv, DiskType
    <2> QED
      BY <1>1, <2>1, <2>2, <2>3, <2>5, <2>6, ZenonT(40) DEF CallInv
  <1>15. TesterInv' /\ EndsInv'
    BY <1>1, <1>5 DEF TesterInv, EndsInv, netVars, testerVars
  <1> QED
    BY <1>11, <1>12, <1>13, <1>14, <1>15, Zenon DEF NetInv, TypeOK, CallType, DiskType, FlagType

-----------------------------------------------------------------------------
(***************************************************************************)
(* The tester connects, disconnects and deletes servers.                   *)
(***************************************************************************)

\* A step that changes neither the calls nor the Persisters.
LEMMA FlagStep ==
    ASSUME NetInv, UNCHANGED <<callVars, diskVars>>, DiskType', FlagType', TesterInv', DiskInv',
           EndsInv'
    PROVE  NetInv'
  <1>1. CallType'
    BY Zenon, TypeParts DEF NetInv, CallType, To, callVars, diskVars
  <1>2. CallInv'
    BY Zenon DEF NetInv, CallInv, To, callVars, diskVars
  <1>3. TypeOK'
    BY Zenon, <1>1 DEF TypeOK, CallType, DiskType, FlagType
  <1> QED
    BY Zenon, <1>2, <1>3 DEF NetInv

\* The servers of the network stay as they are, too.
LEMMA SwitchStep ==
    ASSUME NetInv, UNCHANGED <<servers, callVars, diskVars>>, FlagType', TesterInv', EndsInv'
    PROVE  NetInv'
  <1>1. DiskType'
    BY Zenon, TypeParts DEF NetInv, DiskType, diskVars
  <1>2. DiskInv'
    BY Zenon DEF NetInv, DiskInv, diskVars
  <1> QED
    BY Zenon, <1>1, <1>2, FlagStep

\* A record of the tester's place is not Idle.
LEMMA IdleDoings == Idle \notin Doings
  BY Zenon DEF Idle, Doings

\* A step that leaves the calls and the disks alone.
LEMMA QuietNetInv ==
    ASSUME NetInv, setunreliable \/ cleanup \/ Stop
    PROVE  NetInv'
  <1>1. FlagType /\ TesterInv /\ EndsInv
    BY Zenon, TypeParts DEF NetInv
  <1>2. /\ reliable' \in BOOLEAN /\ done' \in BOOLEAN /\ stopped' \in BOOLEAN
        /\ UNCHANGED <<enabled, servers, callVars, diskVars, testerVars>>
    BY <1>1, Zenon DEF setunreliable, cleanup, Stop, FlagType
  <1>3. FlagType'
    BY Zenon, <1>1, <1>2 DEF FlagType, testerVars
  <1>4. TesterInv' /\ EndsInv'
    BY <1>1, <1>2 DEF TesterInv, EndsInv, testerVars, diskVars
  <1> QED
    BY Zenon, <1>2, <1>3, <1>4, SwitchStep

\* connect(i) enables the ends between i and the connected servers.
LEMMA ConnectNetInv ==
    ASSUME NetInv, NEW i \in Servers, connect(i)
    PROVE  NetInv'
  <1>1. FlagType /\ TesterInv /\ EndsInv
    BY Zenon, TypeParts DEF NetInv
  <1>2. /\ doing = Idle /\ connected' = [connected EXCEPT ![i] = TRUE]
        /\ enabled' = enabled \cup On(i)
        /\ UNCHANGED <<reliable, done, stopped, servers, callVars, diskVars, ends, alive, doing>>
    BY Zenon DEF connect
  <1>3. On(i) \subseteq Ends
    BY <1>1 DEF On, Ends, FlagType
  <1>4. FlagType'
    BY Zenon, <1>1, <1>2, <1>3 DEF FlagType
  <1>5. TesterInv'
    BY Zenon, <1>1, <1>2, IdleDoings DEF TesterInv, diskVars
  <1>6. ASSUME NEW a \in Servers, NEW b \in Servers, NEW k \in Incarnations
        PROVE  <<a, k, b>> \in enabled' <=> connected'[a] /\ connected'[b] /\ k = ends[a]
    <2>1. <<a, k, b>> \in enabled <=> connected[a] /\ connected[b] /\ k = ends[a]
      BY Zenon, <1>1 DEF EndsInv
    <2>2. <<a, k, b>> \in On(i) <=> /\ k = ends[a]
                                    /\ \/ a = i /\ (connected[b] \/ b = i)
                                       \/ b = i /\ (connected[a] \/ a = i)
      BY Zenon DEF On
    <2>3. /\ connected'[a] <=> connected[a] \/ a = i
          /\ connected'[b] <=> connected[b] \/ b = i
      BY Zenon, <1>1, <1>2 DEF FlagType
    <2> QED
      BY Zenon, <1>2, <2>1, <2>2, <2>3
  <1>7. EndsInv'
    BY Zenon, <1>1, <1>2, <1>3, <1>6 DEF EndsInv
  <1> QED
    BY Zenon, <1>2, <1>4, <1>5, <1>7, SwitchStep

\* disconnect(i) and crash1(i) disable the ends from and to i.
LEMMA OffEnds ==
    ASSUME NetInv, NEW i \in Servers, connected' = [connected EXCEPT ![i] = FALSE],
           enabled' = Off(i), ends' = ends
    PROVE  EndsInv' /\ enabled' \subseteq Ends /\ connected' \in [Servers -> BOOLEAN]
  <1>1. FlagType /\ EndsInv
    BY Zenon, TypeParts DEF NetInv
  <1>2. enabled' \subseteq Ends
    BY Zenon, <1>1 DEF Off, FlagType
  <1>3. ASSUME NEW a \in Servers, NEW b \in Servers, NEW k \in Incarnations
        PROVE  <<a, k, b>> \in enabled' <=> connected'[a] /\ connected'[b] /\ k = ends[a]
    <2>1. <<a, k, b>> \in enabled <=> connected[a] /\ connected[b] /\ k = ends[a]
      BY Zenon, <1>1 DEF EndsInv
    <2>2. <<a, k, b>> \in enabled' <=> /\ <<a, k, b>> \in enabled
                                       /\ ~(a = i /\ k = ends[a]) /\ ~(b = i /\ k = ends[a])
      BY Zenon DEF Off
    <2>3. /\ connected'[a] <=> connected[a] /\ a # i
          /\ connected'[b] <=> connected[b] /\ b # i
      BY Zenon, <1>1 DEF FlagType
    <2> QED
      BY Zenon, <2>1, <2>2, <2>3
  <1> QED
    BY Zenon, <1>1, <1>2, <1>3 DEF EndsInv, FlagType

\* The tester takes a server off the network.
LEMMA DisconnectNetInv ==
    ASSUME NetInv, NEW i \in Servers, disconnect(i)
    PROVE  NetInv'
  <1>1. FlagType /\ TesterInv
    BY Zenon, TypeParts DEF NetInv
  <1>2. /\ doing = Idle /\ connected' = [connected EXCEPT ![i] = FALSE] /\ enabled' = Off(i)
        /\ UNCHANGED <<reliable, done, stopped, servers, callVars, diskVars, ends, alive, doing>>
    BY Zenon DEF disconnect
  <1>3. EndsInv' /\ enabled' \subseteq Ends /\ connected' \in [Servers -> BOOLEAN]
    BY <1>2, OffEnds, Zenon
  <1>4. FlagType'
    BY Zenon, <1>1, <1>2, <1>3 DEF FlagType
  <1>5. TesterInv'
    BY Zenon, <1>1, <1>2, IdleDoings DEF TesterInv, diskVars
  <1> QED
    BY Zenon, <1>2, <1>3, <1>4, <1>5, SwitchStep

\* When crash1(i) is called by start1(i), there may be one more incarnation.
LEMMA CrashNetInv ==
    ASSUME NetInv, NEW i \in Servers, NEW then \in {"idle", "start"}, crash1(i, then)
    PROVE  NetInv'
  <1>1. FlagType /\ TesterInv
    BY Zenon, TypeParts DEF NetInv
  <1>2. /\ connected' = [connected EXCEPT ![i] = FALSE] /\ enabled' = Off(i)
        /\ then = "start" => ends[i] < MaxStarts
        /\ doing' = [op |-> "delete", i |-> i, then |-> then]
        /\ UNCHANGED <<reliable, done, stopped, servers, callVars, diskVars, ends, alive>>
    BY Zenon DEF crash1
  <1>3. EndsInv' /\ enabled' \subseteq Ends /\ connected' \in [Servers -> BOOLEAN]
    BY <1>2, OffEnds, Zenon
  <1>4. FlagType'
    BY Zenon, <1>1, <1>2, <1>3 DEF FlagType
  <1>5. TesterInv'
    <2>1. doing' \in Doings /\ doing'.op = "delete" /\ doing'.i = i /\ doing'.then = then
      BY Zenon, <1>2 DEF Doings
    <2>2. ~connected'[i]
      BY Zenon, <1>1, <1>2 DEF FlagType
    <2> QED
      BY Zenon, <1>1, <1>2, <2>1, <2>2 DEF TesterInv, diskVars
  <1> QED
    BY Zenon, <1>2, <1>3, <1>4, <1>5, SwitchStep

\* The tester is at one of its places.
LEMMA DoingPlace ==
    ASSUME NetInv, NEW op, op # "idle", At(op)
    PROVE  /\ doing \in Doings /\ doing.i \in Servers /\ doing.then \in {"idle", "start"}
           /\ \A new \in {"delete", "supersede", "resave", "names", "add"} :
                /\ [doing EXCEPT !.op = new] \in Doings
                /\ [doing EXCEPT !.op = new].op = new
                /\ [doing EXCEPT !.op = new].i = doing.i
                /\ [doing EXCEPT !.op = new].then = doing.then
  <1>1. doing \in Doings
    BY DEF NetInv, TesterInv, At, Idle
  <1> QED
    BY Zenon, <1>1 DEF Doings

\* The tester deletes a server: its calls can no longer reply.
LEMMA DeleteNetInv ==
    ASSUME NetInv, DeleteServer
    PROVE  NetInv'
  <1> DEFINE i == doing.i
  <1>1. DiskType /\ FlagType /\ TesterInv /\ DiskInv /\ EndsInv
    BY Zenon, TypeParts DEF NetInv
  <1>2. doing \in Doings /\ i \in Servers /\ doing.op = "delete"
    BY Zenon, DoingPlace DEF DeleteServer, At
  <1>3. doing' \in Doings /\ doing'.op = "supersede" /\ doing'.i = i /\ doing'.then = doing.then
    BY Zenon, DoingPlace DEF DeleteServer, At, Become
  <1>4. /\ servers' = [servers EXCEPT ![i] = 0]
        /\ UNCHANGED <<reliable, done, stopped, enabled, callVars, diskVars, connected, ends, alive>>
    BY Zenon DEF DeleteServer
  <1>5. servers'[i] = 0 /\ \A j \in Servers : j # i => servers'[j] = servers[j]
    BY Zenon, <1>1, <1>2, <1>4 DEF DiskType
  <1>6. DiskType'
    <2>1. servers' \in [Servers -> 0 .. MaxStarts]
      <3>1. 0 \in 0 .. MaxStarts
        BY MaxStartsAssumption
      <3> QED
        BY <1>1, <1>4, <3>1, Zenon DEF DiskType
    <2>2. UNCHANGED <<disk, saved, persister, state>>
      BY Zenon, <1>4 DEF diskVars
    <2>3. \A j \in Servers : servers'[j] \in {0} \cup DOMAIN persister[j]
      BY Zenon, <1>1, <1>5 DEF DiskType
    <2> QED
      BY <1>1, <2>1, <2>2, <2>3, Zenon DEF DiskType
  <1>7. DiskInv'
    BY <1>1, <1>4, <1>5 DEF DiskInv, diskVars
  <1>8. TesterInv'
    BY Zenon, <1>1, <1>2, <1>3, <1>4, <1>5 DEF TesterInv, diskVars
  <1>9. FlagType' /\ EndsInv'
    BY Zenon, <1>1, <1>4 DEF FlagType, EndsInv
  <1> QED
    BY Zenon, <1>4, <1>6, <1>7, <1>8, <1>9, FlagStep

\* The server that start1() adds is the one that Make() has just made.
LEMMA AddNetInv ==
    ASSUME NetInv, AddServer
    PROVE  NetInv'
  <1> DEFINE i == doing.i
             n == Len(persister[i])
  <1>1. DiskType /\ FlagType /\ TesterInv /\ DiskInv /\ EndsInv
    BY Zenon, TypeParts DEF NetInv
  <1>2. doing \in Doings /\ i \in Servers /\ doing.op = "add"
    BY Zenon, DoingPlace DEF AddServer, At
  <1>3. /\ servers' = [servers EXCEPT ![i] = n] /\ alive' = [alive EXCEPT ![i] = TRUE]
        /\ doing' = Idle
        /\ UNCHANGED <<reliable, done, stopped, enabled, callVars, diskVars, connected, ends>>
    BY Zenon DEF AddServer
  <1>4. n \in 1 .. MaxStarts /\ n \in DOMAIN persister[i]
    <2>1. n = ends[i] /\ ends[i] \in 1 .. MaxStarts
      BY Zenon, <1>1, <1>2 DEF TesterInv, FlagType, Incarnations
    <2>2. DOMAIN persister[i] = 1 .. n
      BY Zenon, <1>1, <1>2, SeqDomain DEF DiskType
    <2> QED
      BY <2>1, <2>2, MaxStartsAssumption
  <1>5. servers'[i] = n /\ \A j \in Servers : j # i => servers'[j] = servers[j]
    BY Zenon, <1>1, <1>2, <1>3 DEF DiskType
  <1>6. DiskType'
    <2>1. servers' \in [Servers -> 0 .. MaxStarts]
      <3>1. n \in 0 .. MaxStarts
        BY <1>4, MaxStartsAssumption
      <3> HIDE DEF n
      <3> QED
        BY <1>1, <1>3, <3>1, Zenon DEF DiskType
    <2>2. UNCHANGED <<disk, saved, persister, state>>
      BY Zenon, <1>3 DEF diskVars
    <2>3. \A j \in Servers : servers'[j] \in {0} \cup DOMAIN persister[j]
      BY Zenon, <1>1, <1>4, <1>5 DEF DiskType
    <2> QED
      BY <1>1, <2>1, <2>2, <2>3, Zenon DEF DiskType
  <1>7. DiskInv'
    <2>1. persister[i][n] = saved[i]
      BY Zenon, <1>1, <1>2 DEF TesterInv
    <2>2. UNCHANGED <<disk, persister, state, saved>>
      BY Zenon, <1>3 DEF diskVars
    <2> QED
      BY <1>1, <1>5, <2>1, <2>2 DEF DiskInv
  <1>8. TesterInv'
    BY Zenon, <1>1, <1>3, IdleDoings DEF TesterInv, diskVars
  <1>9. FlagType' /\ EndsInv'
    BY <1>1, <1>3, Zenon DEF FlagType, EndsInv
  <1> QED
    BY Zenon, <1>3, <1>6, <1>7, <1>8, <1>9, FlagStep

-----------------------------------------------------------------------------
(***************************************************************************)
(* The tester copies a Persister.                                          *)
(***************************************************************************)

\* Copy() leaves every Persister as it is, and the new one has the contents
\* of the one that it replaces.
LEMMA CopyFacts ==
    ASSUME NetInv, NEW i \in Servers, Copy(i)
    PROVE  /\ disk' \in [Servers -> Seq(SUBSET Calls)] /\ saved' \in [Servers -> Nat]
           /\ \A j \in Servers : /\ saved'[j] \in DOMAIN disk'[j]
                                 /\ disk'[j][saved'[j]] = disk[j][saved[j]]
                                 /\ j # i => saved'[j] = saved[j]
           /\ \A j \in Servers : \A p \in DOMAIN disk[j] :
                p \in DOMAIN disk'[j] /\ disk'[j][p] = disk[j][p]
           /\ saved'[i] \notin DOMAIN disk[i]
  <1> DEFINE x == disk[i][saved[i]]
  <1>1. DiskType
    BY Zenon, TypeParts DEF NetInv
  <1>2. disk[i] \in Seq(SUBSET Calls) /\ saved[i] \in DOMAIN disk[i]
    BY Zenon, <1>1 DEF DiskType
  <1>3. x \in SUBSET Calls
    BY Zenon, <1>2, SeqDomain
  <1>4. /\ disk' = [disk EXCEPT ![i] = Append(disk[i], x)]
        /\ saved' = [saved EXCEPT ![i] = Len(disk[i]) + 1]
    BY Zenon, <1>1 DEF Copy, DiskType
  <1>5. /\ disk'[i] = Append(disk[i], x) /\ saved'[i] = Len(disk[i]) + 1
        /\ \A j \in Servers : j # i => disk'[j] = disk[j] /\ saved'[j] = saved[j]
    BY Zenon, <1>1, <1>4 DEF DiskType
  <1>6. /\ Append(disk[i], x) \in Seq(SUBSET Calls)
        /\ Append(disk[i], x)[Len(disk[i]) + 1] = x
        /\ \A p \in DOMAIN disk[i] : /\ p \in DOMAIN Append(disk[i], x)
                                     /\ Append(disk[i], x)[p] = disk[i][p]
        /\ DOMAIN Append(disk[i], x) = DOMAIN disk[i] \cup {Len(disk[i]) + 1}
        /\ Len(disk[i]) + 1 \notin DOMAIN disk[i]
    BY <1>2, <1>3, SeqAppend
  <1>7. disk' \in [Servers -> Seq(SUBSET Calls)]
    BY Zenon, <1>1, <1>4, <1>6 DEF DiskType
  <1>8. saved' \in [Servers -> Nat]
    BY <1>1, <1>2, <1>4, SeqDomain DEF DiskType
  <1>9. \A j \in Servers : /\ saved'[j] \in DOMAIN disk'[j]
                           /\ disk'[j][saved'[j]] = disk[j][saved[j]]
    BY <1>1, <1>5, <1>6, Zenon DEF DiskType
  <1>10. \A j \in Servers : \A p \in DOMAIN disk[j] :
           p \in DOMAIN disk'[j] /\ disk'[j][p] = disk[j][p]
    BY <1>5, <1>6
  <1> QED
    BY Zenon, <1>5, <1>6, <1>7, <1>8, <1>9, <1>10

\* The calls do not notice a copy, nor that there is a new incarnation.
LEMMA CopyCalls ==
    ASSUME NetInv, NEW i \in Servers, Copy(i), UNCHANGED callVars,
           \A j \in Servers : \A k \in DOMAIN persister[j] :
             k \in DOMAIN persister'[j] /\ state'[j][k] = state[j][k]
    PROVE  CallType' /\ CallInv'
  <1>1. CallType /\ CallInv
    BY Zenon, TypeParts DEF NetInv
  <1>2. pc' = pc /\ end' = end /\ server' = server /\ lossy' = lossy /\ handler' = handler
    BY Zenon DEF callVars
  <1>3. \A c \in Calls : pc[c] # "idle" => To(c) \in Servers
    BY Zenon, <1>1, ToType DEF CallInv, To
  <1>4. \A c \in Calls : handler[c] # "none" => pc[c] # "idle"
    BY Zenon, <1>1 DEF CallInv
  <1>5. CallType'
    BY Zenon, <1>1, <1>2, <1>3, <1>4 DEF CallType, To
  <1>6. \A c \in Calls : pc[c] \in {"answering", "true"} => c \in disk'[To(c)][saved'[To(c)]]
    BY Zenon, <1>1, <1>3, CopyFacts DEF CallInv
  <1>7. \A c \in Calls : handler[c] \in {"returning", "blocked", "ended"}
                           => c \in state'[To(c)][server[c]]
    BY SMTT(30), <1>1, <1>3, <1>4 DEF CallInv, CallType
  <1>8. \A c \in Calls : pc[c] = "reached" => server[c] \in DOMAIN persister'[To(c)]
    BY Zenon, <1>1, <1>3 DEF CallInv
  <1>9. CallInv'
    BY Zenon, <1>1, <1>2, <1>6, <1>7, <1>8 DEF CallInv, To
  <1> QED
    BY Zenon, <1>5, <1>9

\* crash1() copies the Persister of a server that it has deleted.
LEMMA CopyStep ==
    ASSUME NetInv, NEW i \in Servers, servers[i] = 0, Copy(i), TesterInv',
           alive' \in [Servers -> BOOLEAN],
           UNCHANGED <<netVars, callVars, persister, state, connected, ends>>
    PROVE  NetInv'
  <1>1. DiskType /\ FlagType /\ DiskInv /\ EndsInv
    BY Zenon, TypeParts DEF NetInv
  <1>2. UNCHANGED <<servers, persister, state>>
    BY Zenon DEF netVars
  <1>3. CallType' /\ CallInv'
    BY Zenon, CopyCalls
  <1>4. /\ disk' \in [Servers -> Seq(SUBSET Calls)] /\ saved' \in [Servers -> Nat]
        /\ \A j \in Servers : /\ saved'[j] \in DOMAIN disk'[j]
                              /\ disk'[j][saved'[j]] = disk[j][saved[j]]
                              /\ j # i => saved'[j] = saved[j]
        /\ \A j \in Servers : \A p \in DOMAIN disk[j] :
             p \in DOMAIN disk'[j] /\ disk'[j][p] = disk[j][p]
    <2> HIDE DEF NetInv
    <2> QED
      BY Zenon, CopyFacts
  <1>5. DiskType'
    <2>1. \A j \in Servers : \A k \in DOMAIN persister[j] :
            persister[j][k] \in DOMAIN disk'[j]
      BY Zenon, <1>1, <1>4 DEF DiskType
    <2> QED
      BY ZenonT(40), <1>1, <1>2, <1>4, <2>1 DEF DiskType
  <1>7. DiskInv'
    <2>1. ASSUME NEW j \in Servers
          PROVE  /\ \A k \in DOMAIN persister[j] : disk'[j][persister[j][k]] = state[j][k]
                 /\ servers[j] # 0 => persister[j][servers[j]] = saved'[j]
      <3>1. \A p \in DOMAIN disk[j] : disk'[j][p] = disk[j][p]
        BY Zenon, <1>4
      <3>2. j # i => saved'[j] = saved[j]
        BY Zenon, <1>4
      <3>3. \A k \in DOMAIN persister[j] : /\ persister[j][k] \in DOMAIN disk[j]
                                           /\ disk[j][persister[j][k]] = state[j][k]
        BY <1>1, Zenon DEF DiskInv, DiskType
      <3>4. \A k \in DOMAIN persister[j] : disk'[j][persister[j][k]] = state[j][k]
        BY Zenon, <3>1, <3>3
      <3>5. servers[j] # 0 => persister[j][servers[j]] = saved'[j]
        BY <1>1, <3>2, Zenon DEF DiskInv
      <3> QED
        BY Zenon, <3>4, <3>5
    <2> QED
      BY SMTT(30), <1>1, <1>2, <2>1 DEF DiskInv
  <1>6. FlagType' /\ EndsInv'
    BY <1>1, Zenon DEF FlagType, EndsInv, netVars
  <1> QED
    BY <1>3, <1>5, <1>6, <1>7, Zenon DEF NetInv, TypeOK, CallType, DiskType, FlagType

\* crash1() gives the next incarnation a Persister of its own.
LEMMA SupersedeNetInv ==
    ASSUME NetInv, Supersede
    PROVE  NetInv'
  <1> DEFINE i == doing.i
  <1>1. FlagType /\ TesterInv
    BY Zenon, TypeParts DEF NetInv
  <1>2. doing \in Doings /\ i \in Servers /\ doing.op = "supersede"
    BY Zenon, DoingPlace DEF Supersede, At
  <1>3. doing' \in Doings /\ doing'.op = "resave" /\ doing'.i = i /\ doing'.then = doing.then
    BY Zenon, DoingPlace DEF Supersede, At, Become
  <1>4. Copy(i) /\ UNCHANGED <<netVars, callVars, persister, state, connected, ends, alive>>
    BY Zenon DEF Supersede
  <1>5. servers[i] = 0 /\ servers' = servers
    BY Zenon, <1>1, <1>2, <1>4 DEF TesterInv, netVars
  <1>6. TesterInv'
    BY Zenon, <1>1, <1>2, <1>3, <1>4, <1>5 DEF TesterInv
  <1> QED
    BY Zenon, <1>1, <1>2, <1>4, <1>5, <1>6, CopyStep DEF FlagType

\* crash1() saves into it what the old one held.
LEMMA ResaveNetInv ==
    ASSUME NetInv, Resave
    PROVE  NetInv'
  <1> DEFINE i == doing.i
  <1>1. FlagType /\ TesterInv
    BY Zenon, TypeParts DEF NetInv
  <1>2. /\ doing \in Doings /\ i \in Servers /\ doing.op = "resave"
        /\ doing.then \in {"idle", "start"}
    BY Zenon, DoingPlace DEF Resave, At
  <1>3. /\ Copy(i) /\ alive' = [alive EXCEPT ![i] = FALSE]
        /\ doing' = IF doing.then = "idle" THEN Idle ELSE [doing EXCEPT !.op = "names"]
        /\ UNCHANGED <<netVars, callVars, persister, state, connected, ends>>
    BY Zenon DEF Resave
  <1>4. servers[i] = 0 /\ servers' = servers
    BY Zenon, <1>1, <1>2, <1>3 DEF TesterInv, netVars
  <1>5. TesterInv'
    <2>1. CASE doing.then = "idle"
      BY Zenon, <1>1, <1>3, <2>1, IdleDoings DEF TesterInv
    <2>2. CASE doing.then = "start"
      <3>1. /\ doing' \in Doings /\ doing'.op = "names" /\ doing'.i = i
            /\ doing'.then = doing.then
        BY Zenon, <1>3, <2>2, DoingPlace DEF Resave, At
      <3> QED
        BY Zenon, <1>1, <1>2, <1>3, <1>4, <2>2, <3>1 DEF TesterInv
    <2> QED
      BY Zenon, <1>2, <2>1, <2>2
  <1> QED
    BY Zenon, <1>1, <1>2, <1>3, <1>4, <1>5, CopyStep DEF FlagType

\* start1() makes the next incarnation, with new names, and a Persister that
\* none of the former ones writes.
LEMMA MakeNetInv ==
    ASSUME NetInv, Make
    PROVE  NetInv'
  <1> DEFINE i == doing.i
             x == disk'[i][saved'[i]]
             n == Len(persister[i])
  <1>1. CallType /\ DiskType /\ FlagType /\ TesterInv /\ DiskInv /\ CallInv /\ EndsInv
    BY Zenon, TypeParts DEF NetInv
  <1>2. doing \in Doings /\ i \in Servers /\ doing.op = "names"
    BY Zenon, DoingPlace DEF Make, At
  <1>3. doing' \in Doings /\ doing'.op = "add" /\ doing'.i = i /\ doing'.then = doing.then
    BY Zenon, DoingPlace DEF Make, At, Become
  <1>4. /\ Copy(i) /\ ends' = [ends EXCEPT ![i] = ends[i] + 1]
        /\ persister' = [persister EXCEPT ![i] = Append(persister[i], saved'[i])]
        /\ state' = [state EXCEPT ![i] = Append(state[i], x)]
        /\ UNCHANGED <<netVars, callVars, connected, alive>>
    BY Zenon, <1>1, <1>2 DEF Make, NewNames, FlagType, DiskType
  <1>5. /\ ~connected[i] /\ servers[i] = 0 /\ ends[i] < MaxStarts /\ ends[i] = n
        /\ servers' = servers
    BY Zenon, <1>1, <1>2, <1>4 DEF TesterInv, netVars
  <1>6. saved'[i] \in Nat /\ x \in SUBSET Calls
    <2>1. disk'[i] \in Seq(SUBSET Calls) /\ saved'[i] \in DOMAIN disk'[i] /\ saved'[i] \in Nat
      BY Zenon, <1>2, <1>4, CopyFacts
    <2> QED
      BY Zenon, <2>1, SeqDomain
  <1>7. /\ persister'[i] = Append(persister[i], saved'[i]) /\ state'[i] = Append(state[i], x)
        /\ ends'[i] = n + 1
        /\ \A j \in Servers : j # i => /\ persister'[j] = persister[j] /\ state'[j] = state[j]
                                       /\ ends'[j] = ends[j]
    BY Zenon, <1>1, <1>2, <1>4, <1>5 DEF DiskType, FlagType
  <1> HIDE DEF i, n, x
  <1>8. /\ persister'[i] \in Seq(Nat) /\ Len(persister'[i]) = n + 1
        /\ persister'[i][n + 1] = saved'[i]
        /\ \A k \in DOMAIN persister[i] : /\ k \in DOMAIN persister'[i]
                                          /\ persister'[i][k] = persister[i][k]
        /\ DOMAIN persister'[i] = DOMAIN persister[i] \cup {n + 1}
        /\ n + 1 \notin DOMAIN persister[i]
    <2>1. persister[i] \in Seq(Nat)
      BY Zenon, <1>1, <1>2 DEF DiskType
    <2> QED
      BY <1>6, <1>7, <2>1, SeqAppend DEF n
  <1>9. /\ state'[i] \in Seq(SUBSET Calls) /\ Len(state'[i]) = n + 1
        /\ state'[i][n + 1] = x
        /\ \A k \in DOMAIN persister[i] : state'[i][k] = state[i][k]
    <2>1. Len(state[i]) = n /\ DOMAIN state[i] = DOMAIN persister[i]
      BY Zenon, <1>1, <1>2, SeqDomain DEF DiskType, n
    <2>2. state[i] \in Seq(SUBSET Calls)
      BY Zenon, <1>1, <1>2 DEF DiskType
    <2> QED
      BY <1>6, <1>7, <2>1, <2>2, SeqAppend
  <1>10. ASSUME NEW j \in Servers, NEW k \in DOMAIN persister'[j], k \notin DOMAIN persister[j]
         PROVE  j = i /\ k = n + 1
    <2>1. j = i
      BY <1>7, <1>10, Zenon
    <2>2. DOMAIN persister'[i] = DOMAIN persister[i] \cup {n + 1}
      BY Zenon, <1>8
    <2> QED
      BY <1>10, <2>1, <2>2, Zenon
  <1>11. CallType' /\ CallInv'
    <2>1. \A j \in Servers : \A k \in DOMAIN persister[j] :
            k \in DOMAIN persister'[j] /\ state'[j][k] = state[j][k]
      BY <1>7, <1>8, <1>9, Zenon
    <2> QED
      BY <1>2, <1>4, <2>1, CopyCalls, Zenon
  <1>12. DiskType'
    <2>1. disk' \in [Servers -> Seq(SUBSET Calls)] /\ saved' \in [Servers -> Nat]
          /\ \A j \in Servers : saved'[j] \in DOMAIN disk'[j]
      BY Zenon, <1>2, <1>4, CopyFacts
    <2>2. persister' \in [Servers -> Seq(Nat)] /\ state' \in [Servers -> Seq(SUBSET Calls)]
      BY <1>1, <1>4, <1>7, <1>8, <1>9, Zenon DEF DiskType
    <2>3. ASSUME NEW j \in Servers
          PROVE  /\ Len(persister'[j]) = Len(state'[j])
                 /\ servers[j] \in {0} \cup DOMAIN persister'[j]
      BY <1>1, <1>5, <1>7, <1>8, <1>9, Zenon DEF DiskType
    <2>4. ASSUME NEW j \in Servers, NEW k \in DOMAIN persister'[j]
          PROVE  persister'[j][k] \in DOMAIN disk'[j]
      <3>1. \A p \in DOMAIN disk[j] : p \in DOMAIN disk'[j]
        BY <1>2, <1>4, CopyFacts, Zenon
      <3>2. CASE k \in DOMAIN persister[j]
        <4>1. persister[j][k] \in DOMAIN disk[j] /\ persister'[j][k] = persister[j][k]
          BY <1>1, <1>7, <1>8, <3>2, Zenon DEF DiskType
        <4> QED
          BY <3>1, <4>1, Zenon
      <3>3. CASE k \notin DOMAIN persister[j]
        <4>1. j = i /\ k = n + 1
          BY <1>10, <3>3, Zenon
        <4> QED
          BY <1>8, <2>1, <4>1, Zenon
      <3> QED
        BY <3>2, <3>3, Zenon
    <2> QED
      BY <1>1, <1>5, <2>1, <2>2, <2>3, <2>4, Zenon DEF DiskType
  <1>13. DiskInv'
    <2>1. saved'[i] \notin DOMAIN disk[i]
      BY Zenon, <1>2, <1>4, CopyFacts
    <2>2. \A k \in DOMAIN persister[i] : persister'[i][k] # saved'[i]
      BY Zenon, <1>1, <1>2, <1>8, <2>1 DEF DiskType
    <2>3. \A j \in Servers : /\ j # i => saved'[j] = saved[j]
                             /\ \A p \in DOMAIN disk[j] : disk'[j][p] = disk[j][p]
      BY SMTT(30), <1>2, <1>4, CopyFacts
    <2>4. ASSUME NEW j \in Servers, NEW k \in DOMAIN persister'[j]
          PROVE  disk'[j][persister'[j][k]] = state'[j][k]
      <3>1. CASE k \in DOMAIN persister[j]
        <4>1. persister[j][k] \in DOMAIN disk[j] /\ disk[j][persister[j][k]] = state[j][k]
          BY <1>1, <3>1, Zenon DEF DiskInv, DiskType
        <4>2. persister'[j][k] = persister[j][k] /\ state'[j][k] = state[j][k]
          BY <1>7, <1>8, <1>9, <3>1, Zenon
        <4> QED
          BY <2>3, <4>1, <4>2, Zenon
      <3>2. CASE k \notin DOMAIN persister[j]
        <4>1. j = i /\ k = n + 1
          BY <1>10, <3>2, Zenon
        <4> QED
          BY <1>8, <1>9, <4>1, Zenon DEF x
      <3> QED
        BY Zenon, <3>1, <3>2
    <2>5. ASSUME NEW j \in Servers, NEW k \in DOMAIN persister'[j],
                 NEW l \in DOMAIN persister'[j], persister'[j][k] = persister'[j][l]
          PROVE  k = l
      <3>1. CASE j # i
        <4>1. persister'[j] = persister[j]
          BY <1>7, <3>1, Zenon
        <4> QED
          BY <1>1, <2>5, <4>1, ZenonT(40) DEF DiskInv
      <3>2. CASE j = i
        BY SMTT(30), <1>1, <1>2, <1>8, <2>2, <2>5, <3>2 DEF DiskInv
      <3> QED
        BY Zenon, <3>1, <3>2
    <2>6. ASSUME NEW j \in Servers, servers[j] # 0
          PROVE  persister'[j][servers[j]] = saved'[j]
      BY Zenon, <1>1, <1>5, <1>7, <2>3, <2>6 DEF DiskInv
    <2> QED
      BY <1>5, <2>4, <2>5, <2>6, Zenon DEF DiskInv
  <1>14. FlagType'
    <2>1. ends[i] + 1 \in Incarnations
      BY <1>1, <1>2, <1>5, MaxStartsAssumption DEF FlagType, Incarnations
    <2> QED
      BY <1>1, <1>4, <2>1, Zenon DEF FlagType, netVars
  <1>15. EndsInv'
    <2>1. enabled' = enabled /\ connected' = connected
      BY <1>4, Zenon DEF netVars
    <2> QED
      BY Zenon, <1>1, <1>5, <1>7, <2>1 DEF EndsInv
  <1>16. TesterInv'
    <2>1. \A j \in Servers : ends'[j] = Len(persister'[j])
      BY <1>1, <1>7, <1>8, Zenon DEF TesterInv
    <2>2. persister'[i][Len(persister'[i])] = saved'[i]
      BY Zenon, <1>8
    <2> QED
      BY <1>3, <1>4, <1>5, <2>1, <2>2, Zenon DEF TesterInv
  <1> QED
    BY <1>11, <1>12, <1>13, <1>14, <1>15, <1>16, Zenon
    DEF NetInv, TypeOK, CallType, DiskType, FlagType

-----------------------------------------------------------------------------
\* Every step keeps the invariant.
LEMMA NextNetInv ==
    ASSUME NetInv, [Next]_vars
    PROVE  NetInv'
  <1>1. CASE UNCHANGED vars
    <2>1. UNCHANGED <<netVars, callVars, diskVars, testerVars>>
      BY <1>1, Zenon DEF vars
    <2>2. CallType' /\ CallInv'
      BY Zenon, <2>1, TypeParts DEF NetInv, CallType, CallInv, To, callVars, diskVars
    <2> QED
      BY Zenon, <2>1, <2>2, CallStep
  <1>2. ASSUME NEW c \in Calls, NEW i \in Servers, NEW j \in Servers, NEW k \in Incarnations,
               Call(c, i, k, j)
        PROVE  NetInv'
    BY Zenon, <1>2, CallNetInv
  <1>3. ASSUME NEW c \in Calls, Network(c) \/ Dispatch(c)
        PROVE  NetInv'
    BY Zenon, <1>3, NetworkNetInv, HandleNetInv, HandlerNetInv DEF Dispatch
  <1>4. CASE Stop
    BY Zenon, <1>4, QuietNetInv
  <1>5. CASE Tester
    BY Zenon, <1>5, ConnectNetInv, DisconnectNetInv, CrashNetInv, DeleteNetInv, SupersedeNetInv,
       ResaveNetInv, MakeNetInv, AddNetInv, QuietNetInv DEF Tester
  <1> QED
    BY Zenon, <1>1, <1>2, <1>3, <1>4, <1>5 DEF Next

\* The invariant holds.
LEMMA NetInvariant == Spec => []NetInv
  BY InitNetInv, NextNetInv, PTL DEF Spec

\* The incarnation that a call has reached exists, and so do the Persisters
\* of all incarnations, however often servers are crashed and restarted.
THEOREM TypeCorrect == Spec => []TypeOK
  <1>1. NetInv => TypeOK
    BY Zenon DEF NetInv
  <1> QED
    BY <1>1, NetInvariant, PTL

\* What a call that returned true has done is in the Persister that the next
\* incarnation starts from: crash1() deletes the server before it copies the
\* Persister, and processReq() looks at the server after the handler.
THEOREM ReplyIsDurableCorrect == Spec => []ReplyIsDurable
  <1>1. NetInv => ReplyIsDurable
    BY Zenon DEF NetInv, CallInv, ReplyIsDurable
  <1> QED
    BY <1>1, NetInvariant, PTL

\* Between two actions of the tester, connect(), disconnect() and crash1()
\* have left enabled exactly the ends between connected servers, and of those
\* the ones that start1() made for the last incarnation of each.
THEOREM OnlyConnectedCorrect == Spec => []OnlyConnected
  <1>1. ASSUME NetInv
        PROVE  OnlyConnected
    <2>1. /\ enabled \subseteq Ends /\ ends \in [Servers -> Incarnations]
          /\ \A i, j \in Servers, k \in Incarnations :
               <<i, k, j>> \in enabled <=> connected[i] /\ connected[j] /\ k = ends[i]
      BY Zenon, <1>1 DEF NetInv, TypeOK, EndsInv
    <2>2. \A i \in Servers : Len(persister[i]) = ends[i]
      BY Zenon, <1>1 DEF NetInv, TesterInv
    <2> QED
      BY <2>1, <2>2 DEF OnlyConnected, Ends
  <1> QED
    BY <1>1, NetInvariant, PTL
=============================================================================
