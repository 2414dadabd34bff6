------------------------------- MODULE KvSrv -------------------------------
(***************************************************************************)
(* The single key/value server of src/src/kvsrv and its clerks, over a     *)
(* network that drops requests and replies (src/src/labrpc).               *)
(*                                                                         *)
(* A clerk has one call open at a time, and repeats the RPC until a reply  *)
(* arrives.  Call() returns false for a dropped request at once, and the   *)
(* clerk sends it again: that changes nothing and is not an action.        *)
(***************************************************************************)
EXTENDS Integers, KvModel

CONSTANTS
    Clients,
    Keys,
    OpsOf(_),    \* the operations that a clerk may be asked for
    MaxSeq       \* bound: the number of calls that a clerk makes

ASSUME MaxSeqAssumption == MaxSeq \in Nat

ASSUME OpsAssumption ==
    \A c \in Clients : \A op \in OpsOf(c) :
        op.OpType \in {"Get", "Put", "Append"} /\ op.Key \in Keys

VARIABLES
    kv, pending, requestCache,    \* the fields of KVServer
    seq,         \* ck.seq
    call,        \* the call a clerk has open, or NoCall
    rpc,         \* where its RPC is: "none", "request" or "reply"
    reply,       \* reply.Value
    answers,     \* history: what the open call may return (see KvModel)
    returned     \* the result of the clerk's last call

serverVars == <<kv, pending, requestCache>>
vars == <<serverVars, seq, call, rpc, reply, answers, returned>>

\* The entry of requestCache of a client that has none.
NoSeq == -1

\* StartKVServer() and MakeClerk()
Init ==
    /\ kv = EmptyStore(Keys)
    /\ pending = {}
    /\ requestCache = [c \in Clients |-> NoSeq]
    /\ seq = [c \in Clients |-> 0]
    /\ call = [c \in Clients |-> NoCall]
    /\ rpc = [c \in Clients |-> "none"]
    /\ reply = [c \in Clients |-> <<>>]
    /\ answers = [c \in Clients |-> {}]
    /\ returned = [c \in Clients |-> <<>>]

-----------------------------------------------------------------------------
(***************************************************************************)
(* The clerk and the network.                                              *)
(***************************************************************************)

\* Clerk.Get, Put or Append is called.
Call(c, op) ==
    /\ call[c] = NoCall /\ seq[c] < MaxSeq
    /\ call' = [call EXCEPT ![c] = op]
    /\ rpc' = [rpc EXCEPT ![c] = "request"]
    /\ answers' = [answers EXCEPT ![c] = FirstAnswers(kv, op)]
    /\ UNCHANGED <<serverVars, seq, reply, returned>>

\* The network drops the reply; the clerk sends the same arguments again.
DropReply(c) ==
    /\ rpc[c] = "reply"
    /\ rpc' = [rpc EXCEPT ![c] = "request"]
    /\ UNCHANGED <<serverVars, seq, call, reply, answers, returned>>

\* Mutants of NextSeq: the call is counted twice, or not at all.
NextSeqTwice(n) == n + 2
NextSeqSame(n) == n

NextSeq(n) == n + 1

\* The reply arrives and the clerk's method returns.
Return(c) ==
    /\ rpc[c] = "reply"
    /\ seq' = [seq EXCEPT ![c] = NextSeq(@)]
    /\ returned' = [returned EXCEPT ![c] = reply[c]]
    /\ call' = [call EXCEPT ![c] = NoCall]
    /\ rpc' = [rpc EXCEPT ![c] = "none"]
    /\ answers' = [answers EXCEPT ![c] = {}]
    /\ UNCHANGED <<serverVars, reply>>

-----------------------------------------------------------------------------
(***************************************************************************)
(* The server.  A handler holds mu from beginning to end, save that it     *)
(* waits on cond while its RPC is in pending.                              *)
(***************************************************************************)

\* The last offset at which sub occurs in s, or -1 (strings.LastIndex).
LastIndex(s, sub) ==
    LET at == {i \in 0 .. Len(s) - Len(sub) : SubSeq(s, i + 1, i + Len(sub)) = sub}
    IN  IF at = {} THEN -1 ELSE CHOOSE i \in at : \A j \in at : j <= i

\* The server has served this request before.
Duplicate(c) == requestCache[c] # NoSeq /\ seq[c] <= requestCache[c]

\* The handler is given the RPC of c ...
Receive(c, opType) ==
    /\ rpc[c] = "request" /\ call[c].OpType = opType
    /\ rpc' = [rpc EXCEPT ![c] = "reply"]
    /\ UNCHANGED <<seq, call, returned>>

\* ... and goes past the wait on cond.
NotPending(c) == <<c, seq[c]>> \notin pending

HandleGet(c) ==
    /\ Receive(c, "Get")
    /\ reply' = [reply EXCEPT ![c] = kv[call[c].Key]]
    /\ UNCHANGED <<serverVars, answers>>

\* Mutant of PendingAfter: the RPC stays in pending.
PendingAfterKept(rpcKey) == pending \cup {rpcKey}

\* A handler that executes its request adds the RPC to pending and takes it
\* out again before it unlocks.
PendingAfter(rpcKey) == (pending \cup {rpcKey}) \ {rpcKey}

\* A Put or an Append that the server has not seen stores value and answers
\* with answer.
Execute(c, value, answer) ==
    /\ kv' = [kv EXCEPT ![call[c].Key] = value]
    /\ requestCache' = [requestCache EXCEPT ![c] = seq[c]]
    /\ pending' = PendingAfter(<<c, seq[c]>>)
    /\ reply' = [reply EXCEPT ![c] = answer]
    /\ answers' = AnswersAfter(answers, call, c, kv', answer)

HandlePut(c) ==
    /\ Receive(c, "Put") /\ NotPending(c)
    /\ \/ /\ Duplicate(c)
          /\ reply' = [reply EXCEPT ![c] = <<>>]
          /\ UNCHANGED <<serverVars, answers>>
       \/ /\ ~Duplicate(c)
          /\ Execute(c, call[c].Value, <<>>)

\* Mutant of DuplicateAnswer: the answer is the whole current value.
DuplicateAnswerAll(value, appended) == value

\* What a repeated Append answers: the value up to the last occurrence of
\* what it appended, or all of it.
DuplicateAnswer(value, appended) ==
    LET last == LastIndex(value, appended)
    IN  IF last # -1 THEN SubSeq(value, 1, last) ELSE value

HandleAppend(c) ==
    LET old == kv[call[c].Key]
    IN  /\ Receive(c, "Append") /\ NotPending(c)
        /\ \/ /\ Duplicate(c)
              /\ reply' = [reply EXCEPT ![c] = DuplicateAnswer(old, call[c].Value)]
              /\ UNCHANGED <<serverVars, answers>>
           \/ /\ ~Duplicate(c)
              /\ Execute(c, old \o call[c].Value, old)

-----------------------------------------------------------------------------
Serve(c) == HandleGet(c) \/ HandlePut(c) \/ HandleAppend(c)

Next == \E c \in Clients : \/ \E op \in OpsOf(c) : Call(c, op)
                           \/ Serve(c) \/ DropReply(c) \/ Return(c)

Spec == Init /\ [][Next]_vars

\* A request is sent until it is served (the clerk repeats it, and the
\* network does not drop it forever), and of the replies to its repetitions
\* the network delivers one in the end.
Fairness == \A c \in Clients : WF_vars(Serve(c)) /\ SF_vars(Return(c))

FairSpec == Spec /\ Fairness

-----------------------------------------------------------------------------
\* Every variable has its declared type.
TypeOK ==
    /\ pending \subseteq Clients \X (0 .. MaxSeq)
    /\ requestCache \in [Clients -> NoSeq .. MaxSeq]
    /\ seq \in [Clients -> 0 .. MaxSeq]
    /\ \A c \in Clients : call[c] \in OpsOf(c) \cup {NoCall}
    /\ rpc \in [Clients -> {"none", "request", "reply"}]
    /\ DOMAIN kv = Keys /\ DOMAIN reply = Clients

\* The server's memory of a client says whether the Put or Append that it has
\* open has taken effect: neither a repetition nor the next call is mistaken
\* for the other, and nothing is left in pending to wait for.
CacheTracksCalls ==
    /\ pending = {}
    /\ \A c \in Clients :
          /\ requestCache[c] <= seq[c]
          /\ call[c] = NoCall => requestCache[c] < seq[c]
          /\ call[c].OpType \in {"Put", "Append"} =>
                (requestCache[c] = seq[c] <=> answers[c] # {})
          /\ call[c].OpType = "Get" => requestCache[c] < seq[c]

Store == INSTANCE KvStore WITH AppendReturns <- TRUE

\* The service is the linearizable map of KvStore: each Put and Append takes
\* effect once however often it is sent, and every call returns what the map
\* held when it took effect (models/kv.go accepts no other output).  Append
\* makes up the answer to a repetition from the key's current value.  So this
\* can hold only where nobody Puts a key that another clerk appends to, and
\* what a clerk appends occurs nowhere else in the value; it fails when a Put
\* comes between an Append and its repetition.
Linearizable == Store!Spec

\* Every call returns in the end.
CallsReturn == \A c \in Clients : call[c] # NoCall ~> call[c] = NoCall
=============================================================================
