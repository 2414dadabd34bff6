------------------------------- MODULE LabRpc -------------------------------
(***************************************************************************)
(* The network of src/src/labrpc/labrpc.go, and the part of the tester     *)
(* src/src/raft/config.go that crashes, restarts, connects and disconnects *)
(* servers on it.                                                          *)
(*                                                                         *)
(* A server i has incarnations 1, 2, ..., one for each start1(i).  A       *)
(* crashed incarnation cannot really be stopped: its goroutines go on, and *)
(* the tester must keep it from being heard and from writing over what its *)
(* successor saves.  The ClientEnd of incarnation k of server i for calls  *)
(* to server j is <<i, k, j>>.  A Persister is a position in disk[i], and  *)
(* Copy() adds one at the end.                                             *)
(*                                                                         *)
(* Of a handler this is kept: it saves its call with the incarnation's     *)
(* whole state, and then returns, or blocks for ever.  Each Lock() section *)
(* of the network is one step.  Enable() is called for one end at a time   *)
(* but a call looks at one end only, so connect() and disconnect() are one *)
(* step each.  Delays are time, which the model has not: a reply that is   *)
(* held back by LongReordering or LongDelays is one that is taken late.    *)
(***************************************************************************)
EXTENDS Naturals, Sequences, FiniteSets

CONSTANTS
    Servers,     \* the names of the servers
    Calls,       \* the calls of ClientEnd.Call, each made once
    MaxStarts    \* bound: the incarnations of a server

ASSUME MaxStartsAssumption == MaxStarts \in Nat \ {0}

VARIABLES
    reliable, done,      \* Network.reliable; Network.done has been closed
    stopped,             \* the goroutine that reads endCh has returned
    enabled,             \* the ends that are enabled
    servers,             \* the incarnation in rn.servers, 0 for nil
    pc,                  \* how far a call is
    end,                 \* the end it was made on, <<>> before that
    server, lossy,       \* what readEndnameInfo() returned for it
    handler,             \* the goroutine that dispatches it
    disk,                \* the Persisters of each server
    saved,               \* cfg.saved: the one that the next incarnation gets
    persister, state,    \* of each incarnation: its Persister, its memory
    connected,           \* cfg.connected
    ends,                \* the incarnation whose names are in cfg.endnames
    alive,               \* cfg.rafts[i] is not nil
    doing                \* the tester's place in crash1() and start1()

callVars == <<pc, end, server, lossy, handler>>
diskVars == <<disk, saved, persister, state>>
testerVars == <<connected, ends, alive, doing>>
netVars == <<reliable, done, stopped, enabled, servers>>
vars == <<netVars, callVars, diskVars, testerVars>>

Incarnations == 1 .. MaxStarts

Ends == Servers \X Incarnations \X Servers

Idle == [op |-> "idle"]

\* make_config(): every server has been started once and connected.
Init ==
    /\ reliable = TRUE /\ done = FALSE /\ stopped = FALSE
    /\ enabled = {e \in Ends : e[2] = 1}
    /\ servers = [i \in Servers |-> 1]
    /\ pc = [c \in Calls |-> "idle"]
    /\ end = [c \in Calls |-> <<>>]
    /\ server = [c \in Calls |-> 0] /\ lossy = [c \in Calls |-> FALSE]
    /\ handler = [c \in Calls |-> "none"]
    /\ disk = [i \in Servers |-> <<{}>>]
    /\ saved = [i \in Servers |-> 1]
    /\ persister = [i \in Servers |-> <<1>>]
    /\ state = [i \in Servers |-> <<{}>>]
    /\ connected = [i \in Servers |-> TRUE]
    /\ ends = [i \in Servers |-> 1]
    /\ alive = [i \in Servers |-> TRUE]
    /\ doing = Idle

-----------------------------------------------------------------------------
(***************************************************************************)
(* A call: ClientEnd.Call, and the goroutine processReq() that serves it.  *)
(***************************************************************************)
To(c) == end[c][3]

Goto(c, l) == pc' = [pc EXCEPT ![c] = l]

\* Incarnation k of server i calls server j.  It may be a crashed one.
Call(c, i, k, j) ==
    /\ pc[c] = "idle"
    /\ k \in DOMAIN persister[i]
    /\ end' = [end EXCEPT ![c] = <<i, k, j>>]
    /\ Goto(c, "sending")
    /\ UNCHANGED <<netVars, server, lossy, handler, diskVars, testerVars>>

\* Mutant of CallFails: Call waits for the network only.
CallFailsNever(c) == FALSE /\ UNCHANGED vars

\* Call finds that the network was cleaned up.
CallFails(c) ==
    /\ pc[c] = "sending" /\ done
    /\ Goto(c, "false")
    /\ UNCHANGED <<netVars, end, server, lossy, handler, diskVars, testerVars>>

\* The network takes the request from endCh and starts processReq().
Receive(c) ==
    /\ pc[c] = "sending" /\ ~stopped
    /\ Goto(c, "received")
    /\ UNCHANGED <<netVars, end, server, lossy, handler, diskVars, testerVars>>

\* readEndnameInfo().  A call on an end that is not enabled, or to a server
\* that is not there, fails after a while.
readEndnameInfo(c) ==
    LET reached == end[c] \in enabled /\ servers[To(c)] # 0
    IN  /\ pc[c] = "received"
        /\ server' = [server EXCEPT ![c] = IF reached THEN servers[To(c)] ELSE 0]
        /\ lossy' = [lossy EXCEPT ![c] = ~reliable]
        /\ Goto(c, IF reached THEN "reached" ELSE "failing")
        /\ UNCHANGED <<netVars, end, handler, diskVars, testerVars>>

\* An unreliable network drops the request, or the reply.
Drop(c) ==
    /\ pc[c] \in {"reached", "answering"} /\ lossy[c]
    /\ Goto(c, "failing")
    /\ UNCHANGED <<netVars, end, server, lossy, handler, diskVars, testerVars>>

\* processReq() starts a goroutine that calls the handler.
StartHandler(c) ==
    /\ pc[c] = "reached"
    /\ Goto(c, "waiting")
    /\ handler' = [handler EXCEPT ![c] = "running"]
    /\ UNCHANGED <<netVars, end, server, lossy, diskVars, testerVars>>

\* isServerDead()
isServerDead(c) == end[c] \notin enabled \/ servers[To(c)] # server[c]

\* The handler has returned and processReq() takes its reply.
TakeReply(c) ==
    /\ pc[c] = "waiting" /\ handler[c] = "returning"
    /\ Goto(c, "replied")
    /\ handler' = [handler EXCEPT ![c] = "ended"]
    /\ UNCHANGED <<netVars, end, server, lossy, diskVars, testerVars>>

\* While it waits, processReq() finds that the server is gone.
Abandon(c) ==
    /\ pc[c] = "waiting"
    /\ isServerDead(c)
    /\ Goto(c, "abandoned")
    /\ UNCHANGED <<netVars, end, server, lossy, handler, diskVars, testerVars>>

\* Mutant of MayAnswer: the server is not looked at again.
MayAnswerUnchecked(c) == pc[c] = "replied"

\* There is a reply, and the server that made it has not been deleted since.
MayAnswer(c) == pc[c] = "replied" /\ ~isServerDead(c)

\* processReq() decides between the reply and an error.
Decide(c) ==
    /\ pc[c] \in {"replied", "abandoned"}
    /\ Goto(c, IF MayAnswer(c) THEN "answering" ELSE "failing")
    /\ UNCHANGED <<netVars, end, server, lossy, handler, diskVars, testerVars>>

\* The caller gets what was decided, and Call returns true or false.
Return(c) ==
    /\ pc[c] \in {"answering", "failing"}
    /\ Goto(c, IF pc[c] = "answering" THEN "true" ELSE "false")
    /\ UNCHANGED <<netVars, end, server, lossy, handler, diskVars, testerVars>>

\* The goroutine that reads endCh returns.
Stop ==
    /\ done /\ ~stopped
    /\ stopped' = TRUE
    /\ UNCHANGED <<reliable, done, enabled, servers, callVars, diskVars, testerVars>>

-----------------------------------------------------------------------------
(***************************************************************************)
(* The goroutine that runs Server.dispatch() and the handler.              *)
(***************************************************************************)

\* The handler changes the state of its incarnation and saves it.  Then it
\* returns or blocks for ever.
Handle(c) ==
    LET j == To(c)
        k == server[c]
    IN  /\ handler[c] = "running"
        /\ state' = [state EXCEPT ![j][k] = @ \cup {c}]
        /\ disk' = [disk EXCEPT ![j][persister[j][k]] = state[j][k] \cup {c}]
        /\ \E l \in {"returning", "blocked"} : handler' = [handler EXCEPT ![c] = l]
        /\ UNCHANGED <<netVars, pc, end, server, lossy, saved, persister, testerVars>>

\* Mutant of Drain: nobody reads the channel of an abandoned handler.
DrainNever(c) == FALSE /\ UNCHANGED vars

\* The reply of a handler that is not waited for any more is read and thrown
\* away, so that its goroutine ends.
Drain(c) ==
    /\ handler[c] = "returning" /\ pc[c] \in {"abandoned", "failing", "false"}
    /\ handler' = [handler EXCEPT ![c] = "ended"]
    /\ UNCHANGED <<netVars, pc, end, server, lossy, diskVars, testerVars>>

-----------------------------------------------------------------------------
(***************************************************************************)
(* The tester.  It is one goroutine; then is where it goes on after        *)
(* crash1(): to the rest of start1(), or back to the test.                 *)
(***************************************************************************)
At(op) == doing.op = op

Become(op) == doing' = [doing EXCEPT !.op = op]

\* What is left when i is off the net: every end from or to it is disabled.
\* The ends that have no name any more were disabled before.
Off(i) == {e \in enabled : ~(e[1] = i /\ e[2] = ends[i]) /\ ~(e[3] = i /\ e[2] = ends[e[1]])}

\* The ends that connect(i) enables.
On(i) ==
    LET peers == {j \in Servers : connected[j] \/ j = i}
    IN  {<<i, ends[i], j>> : j \in peers} \cup {<<j, ends[j], i>> : j \in peers}

connect(i) ==
    /\ doing = Idle /\ ~done
    /\ alive[i] /\ ~connected[i]
    /\ connected' = [connected EXCEPT ![i] = TRUE]
    /\ enabled' = enabled \cup On(i)
    /\ UNCHANGED <<reliable, done, stopped, servers, callVars, diskVars, ends, alive, doing>>

disconnect(i) ==
    /\ doing = Idle /\ ~done
    /\ connected[i]
    /\ connected' = [connected EXCEPT ![i] = FALSE]
    /\ enabled' = Off(i)
    /\ UNCHANGED <<reliable, done, stopped, servers, callVars, diskVars, ends, alive, doing>>

setunreliable ==
    /\ doing = Idle /\ ~done
    /\ reliable' = ~reliable
    /\ UNCHANGED <<done, stopped, enabled, servers, callVars, diskVars, testerVars>>

\* crash1(i), called by the test or as the first thing in start1(i).
crash1(i, then) ==
    /\ doing = Idle /\ ~done
    /\ IF then = "idle" THEN alive[i] ELSE ends[i] < MaxStarts
    /\ connected' = [connected EXCEPT ![i] = FALSE]
    /\ enabled' = Off(i)
    /\ doing' = [op |-> "delete", i |-> i, then |-> then]
    /\ UNCHANGED <<reliable, done, stopped, servers, callVars, diskVars, ends, alive>>

DeleteServer ==
    /\ At("delete")
    /\ servers' = [servers EXCEPT ![doing.i] = 0]
    /\ Become("supersede")
    /\ UNCHANGED <<reliable, done, stopped, enabled, callVars, diskVars, connected, ends, alive>>

\* Mutant of Copy: there is no Persister behind the new pointer.
CopyNil(i) == saved' = [saved EXCEPT ![i] = Len(disk[i]) + 1] /\ UNCHANGED disk

\* cfg.saved[i] = cfg.saved[i].Copy()
Copy(i) ==
    /\ disk' = [disk EXCEPT ![i] = Append(@, @[saved[i]])]
    /\ saved' = [saved EXCEPT ![i] = Len(disk[i]) + 1]

\* crash1() copies the Persister, and kills the old incarnation.
Supersede ==
    /\ At("supersede")
    /\ Copy(doing.i)
    /\ Become("resave")
    /\ UNCHANGED <<netVars, callVars, persister, state, connected, ends, alive>>

\* crash1() saves the contents once more in a Persister of their own.
Resave ==
    /\ At("resave")
    /\ Copy(doing.i)
    /\ alive' = [alive EXCEPT ![doing.i] = FALSE]
    /\ doing' = IF doing.then = "idle" THEN Idle ELSE [doing EXCEPT !.op = "names"]
    /\ UNCHANGED <<netVars, callVars, persister, state, connected, ends>>

\* Mutant of NewNames: the names of the crashed incarnation are used again.
NewNamesReused(i) == UNCHANGED ends

\* randstring() makes new names, and MakeEnd() ends that are not enabled.
NewNames(i) == ends' = [ends EXCEPT ![i] = @ + 1]

\* start1() makes new ends and another copy of the Persister, from which
\* Make() reads the state.
Make ==
    LET i == doing.i
    IN  /\ At("names")
        /\ NewNames(i)
        /\ Copy(i)
        /\ persister' = [persister EXCEPT ![i] = Append(@, saved'[i])]
        /\ state' = [state EXCEPT ![i] = Append(@, disk'[i][saved'[i]])]
        /\ Become("add")
        /\ UNCHANGED <<netVars, callVars, connected, alive>>

\* start1() adds the server to the network.
AddServer ==
    LET i == doing.i
    IN  /\ At("add")
        /\ servers' = [servers EXCEPT ![i] = Len(persister[i])]
        /\ alive' = [alive EXCEPT ![i] = TRUE]
        /\ doing' = Idle
        /\ UNCHANGED <<reliable, done, stopped, enabled, callVars, diskVars, connected, ends>>

\* cleanup(), at the end of the test.
cleanup ==
    /\ doing = Idle /\ ~done
    /\ done' = TRUE
    /\ UNCHANGED <<reliable, stopped, enabled, servers, callVars, diskVars, testerVars>>

-----------------------------------------------------------------------------
Network(c) ==
    \/ CallFails(c) \/ Receive(c) \/ readEndnameInfo(c) \/ Drop(c) \/ StartHandler(c)
    \/ TakeReply(c) \/ Abandon(c) \/ Decide(c) \/ Return(c)

Dispatch(c) == Handle(c) \/ Drain(c)

Tester ==
    \/ \E i \in Servers : connect(i) \/ disconnect(i)
    \/ \E i \in Servers, then \in {"idle", "start"} : crash1(i, then)
    \/ DeleteServer \/ Supersede \/ Resave \/ Make \/ AddServer
    \/ setunreliable \/ cleanup

Next ==
    \/ \E c \in Calls : \E i, j \in Servers, k \in Incarnations : Call(c, i, k, j)
    \/ \E c \in Calls : Network(c) \/ Dispatch(c)
    \/ Stop
    \/ Tester

Spec == Init /\ [][Next]_vars

\* A goroutine that can go on does so at last.  Nothing is asked of the
\* tester or of the callers.
Fairness == WF_vars(Stop) /\ \A c \in Calls : WF_vars(Network(c)) /\ WF_vars(Dispatch(c))

FairSpec == Spec /\ Fairness

-----------------------------------------------------------------------------
\* Every variable has its type.  The incarnation that a call has reached
\* exists, and so does the Persister that each incarnation writes.
TypeOK ==
    /\ reliable \in BOOLEAN /\ done \in BOOLEAN /\ stopped \in BOOLEAN
    /\ enabled \subseteq Ends
    /\ servers \in [Servers -> 0 .. MaxStarts]
    /\ pc \in [Calls -> {"idle", "sending", "received", "reached", "waiting", "replied",
                         "abandoned", "answering", "failing", "true", "false"}]
    /\ end \in [Calls -> Ends \cup {<<>>}]
    /\ server \in [Calls -> 0 .. MaxStarts] /\ lossy \in [Calls -> BOOLEAN]
    /\ handler \in [Calls -> {"none", "running", "blocked", "returning", "ended"}]
    /\ disk \in [Servers -> Seq(SUBSET Calls)] /\ state \in [Servers -> Seq(SUBSET Calls)]
    /\ saved \in [Servers -> Nat] /\ persister \in [Servers -> Seq(Nat)]
    /\ connected \in [Servers -> BOOLEAN] /\ alive \in [Servers -> BOOLEAN]
    /\ ends \in [Servers -> Incarnations]
    /\ \A i \in Servers : /\ saved[i] \in DOMAIN disk[i]
                          /\ Len(persister[i]) = Len(state[i])
                          /\ servers[i] \in {0} \cup DOMAIN persister[i]
                          /\ \A k \in DOMAIN persister[i] : persister[i][k] \in DOMAIN disk[i]
    /\ \A c \in Calls : handler[c] # "none" => server[c] \in DOMAIN persister[To(c)]

\* What a call that returned true has done is in the Persister that the next
\* incarnation starts from, whenever the server was crashed: processReq()
\* looks at the server again after the handler, and crash1() deletes the
\* server before it copies the Persister ("to avoid situation in which a
\* client gets a positive reply to an Append, but the server persisted the
\* update into the old Persister").
ReplyIsDurable ==
    \A c \in Calls : pc[c] = "true" => c \in disk[To(c)][saved[To(c)]]

\* Whenever the tester is not at work, exactly the ends between connected
\* servers are enabled, and of those the ones that the last incarnation of
\* each server holds: start1() makes fresh names for it ("so that old crashed
\* instance's ClientEnds can't send"), and connect() and disconnect() go by
\* the names that it left in cfg.endnames.
OnlyConnected ==
    doing = Idle =>
        enabled = {<<i, Len(persister[i]), j>> : i, j \in {s \in Servers : connected[s]}}

\* A call returns unless its handler does not ("Call() is guaranteed to
\* return (perhaps after a delay) *except* if the handler function on the
\* server side does not return"): when the server is deleted it fails even
\* then, and when the network is cleaned up it does not wait for it.
CallsReturn ==
    \A c \in Calls :
        pc[c] # "idle" ~> \/ pc[c] \in {"true", "false"}
                          \/ handler[c] = "blocked" /\ servers[To(c)] = server[c]

\* The goroutine of every handler that returns ends, although nobody waits
\* for the handler after the server was deleted.
HandlersEnd == \A c \in Calls : handler[c] = "returning" ~> handler[c] = "ended"
=============================================================================
