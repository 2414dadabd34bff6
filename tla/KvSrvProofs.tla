---------------------------- MODULE KvSrvProofs ----------------------------
(***************************************************************************)
(* Proofs about KvSrv: that the server's memory of its clients is right,   *)
(* and that without Append the server is a linearizable map.               *)
(***************************************************************************)
EXTENDS KvSrv, TLAPS

\* What TypeOK says, and the states that the clerk and its RPC can be in
\* together.
ClerkInv ==
    /\ TypeOK
    /\ DOMAIN call = Clients /\ DOMAIN answers = Clients /\ DOMAIN returned = Clients
    /\ \A c \in Clients : /\ rpc[c] = "none" <=> call[c] = NoCall
                          /\ call[c] # NoCall => seq[c] < MaxSeq
                          /\ (rpc[c] = "reply" /\ call[c].OpType # "Get") => answers[c] # {}

CacheInv == ClerkInv /\ CacheTracksCalls

-----------------------------------------------------------------------------
\* NoCall is not an operation.
LEMMA NoCallType == NoCall.OpType = "none"
  BY DEF NoCall

\* The operation a clerk has open has one of the three types.
LEMMA CallType ==
    ASSUME TypeOK, NEW c \in Clients, call[c] # NoCall
    PROVE  call[c].OpType \in {"Get", "Put", "Append"} /\ call[c].Key \in Keys
  BY OpsAssumption DEF TypeOK

\* The initial state.
LEMMA InitCacheInv == Init => CacheInv
  <1> SUFFICES ASSUME Init PROVE CacheInv
    OBVIOUS
  <1>1. TypeOK
    BY MaxSeqAssumption DEF Init, TypeOK, NoSeq, EmptyStore
  <1>2. ClerkInv
    BY <1>1, NoCallType DEF Init, ClerkInv
  <1>3. CacheTracksCalls
    BY NoCallType DEF Init, CacheTracksCalls, NoSeq
  <1> QED
    BY <1>2, <1>3 DEF CacheInv

\* A clerk's method is called.
LEMMA CallCacheInv ==
    ASSUME CacheInv, NEW c \in Clients, NEW op \in OpsOf(c), Call(c, op)
    PROVE  CacheInv'
  <1> USE DEF CacheInv, ClerkInv
  <1>1. op # NoCall /\ op.OpType \in {"Get", "Put", "Append"}
    BY OpsAssumption, NoCallType
  <1>2. /\ call' = [call EXCEPT ![c] = op] /\ rpc' = [rpc EXCEPT ![c] = "request"]
        /\ answers' = [answers EXCEPT ![c] = FirstAnswers(kv, op)]
        /\ call[c] = NoCall /\ seq[c] < MaxSeq
        /\ UNCHANGED <<kv, pending, requestCache, seq, reply, returned>>
    BY DEF Call, serverVars
  <1>3. TypeOK'
    BY <1>1, <1>2 DEF TypeOK
  <1>4. ClerkInv'
    BY <1>1, <1>2, <1>3 DEF TypeOK
  <1>5. op.OpType # "Get" => FirstAnswers(kv, op) = {}
    BY DEF FirstAnswers
  <1>6. CacheTracksCalls'
    <2> SUFFICES ASSUME NEW d \in Clients
                 PROVE  /\ requestCache'[d] <= seq'[d]
                        /\ call'[d] = NoCall => requestCache'[d] < seq'[d]
                        /\ call'[d].OpType \in {"Put", "Append"} =>
                              (requestCache'[d] = seq'[d] <=> answers'[d] # {})
                        /\ call'[d].OpType = "Get" => requestCache'[d] < seq'[d]
      BY <1>2 DEF CacheTracksCalls
    <2>0. seq[d] \in Int /\ requestCache[d] \in Int
      BY MaxSeqAssumption DEF TypeOK, NoSeq
    <2>1. CASE d = c
      BY <1>1, <1>2, <1>5, <2>0, <2>1 DEF CacheTracksCalls
    <2>2. CASE d # c
      BY <1>2, <2>2 DEF CacheTracksCalls
    <2> QED
      BY <2>1, <2>2
  <1> QED
    BY <1>4, <1>6

\* A reply arrives, or is lost.
LEMMA ReplyCacheInv ==
    ASSUME CacheInv, NEW c \in Clients, Return(c) \/ DropReply(c)
    PROVE  CacheInv'
  <1> USE DEF CacheInv, ClerkInv
  <1>0. seq \in [Clients -> Int] /\ requestCache \in [Clients -> Int]
    BY MaxSeqAssumption DEF TypeOK, NoSeq
  <1>1. CASE Return(c)
    <2>1. /\ seq' = [seq EXCEPT ![c] = seq[c] + 1] /\ rpc' = [rpc EXCEPT ![c] = "none"]
          /\ call' = [call EXCEPT ![c] = NoCall] /\ answers' = [answers EXCEPT ![c] = {}]
          /\ returned' = [returned EXCEPT ![c] = reply[c]]
          /\ rpc[c] = "reply" /\ UNCHANGED <<kv, pending, requestCache, reply>>
      BY <1>1 DEF Return, NextSeq, serverVars
    <2>2. call[c] # NoCall /\ seq[c] < MaxSeq
      BY <2>1
    <2>3. TypeOK'
      BY <2>1, <2>2, MaxSeqAssumption DEF TypeOK
    <2>4. ClerkInv'
      BY <2>1, <2>2, <2>3, NoCallType DEF TypeOK
    <2>5. CacheTracksCalls'
      BY <1>0, <2>1, NoCallType DEF CacheTracksCalls, TypeOK
    <2> QED
      BY <2>4, <2>5
  <1>2. CASE DropReply(c)
    <2>1. /\ rpc' = [rpc EXCEPT ![c] = "request"] /\ rpc[c] = "reply"
          /\ UNCHANGED <<kv, pending, requestCache, seq, call, reply, answers, returned>>
      BY <1>2 DEF DropReply, serverVars
    <2>2. ClerkInv'
      BY <2>1 DEF TypeOK
    <2>3. CacheTracksCalls'
      BY <2>1 DEF CacheTracksCalls
    <2> QED
      BY <2>2, <2>3
  <1> QED
    BY <1>1, <1>2

\* A handler that changes nothing but the reply: a Get, or a repetition.
LEMMA QuietCacheInv ==
    ASSUME CacheInv, NEW c \in Clients, NEW type, Receive(c, type), call[c] # NoCall,
           NEW v, reply' = [reply EXCEPT ![c] = v],
           type # "Get" => answers[c] # {}, UNCHANGED <<serverVars, answers>>
    PROVE  CacheInv'
  <1> USE DEF CacheInv, ClerkInv
  <1>1. /\ rpc' = [rpc EXCEPT ![c] = "reply"] /\ call[c].OpType = type
        /\ UNCHANGED <<kv, pending, requestCache, seq, call, answers, returned>>
    BY DEF Receive, serverVars
  <1>2. ClerkInv'
    BY <1>1 DEF TypeOK
  <1>3. CacheTracksCalls'
    BY <1>1 DEF CacheTracksCalls
  <1> QED
    BY <1>2, <1>3

\* A handler that executes its request.
LEMMA ExecuteCacheInv ==
    ASSUME CacheInv, NEW c \in Clients, NEW type \in {"Put", "Append"}, Receive(c, type),
           NEW v, NEW out, Execute(c, v, out)
    PROVE  CacheInv'
  <1> USE DEF CacheInv, ClerkInv
  <1>1. /\ rpc' = [rpc EXCEPT ![c] = "reply"] /\ call[c].OpType = type
        /\ kv' = [kv EXCEPT ![call[c].Key] = v]
        /\ requestCache' = [requestCache EXCEPT ![c] = seq[c]]
        /\ reply' = [reply EXCEPT ![c] = out]
        /\ UNCHANGED <<seq, call, returned>>
    BY DEF Receive, Execute
  <1>2. pending' = {}
    BY DEF Execute, PendingAfter, CacheTracksCalls
  <1>3. /\ DOMAIN answers' = Clients /\ answers'[c] = {out}
        /\ \A d \in Clients \ {c} : call[d].OpType # "Get" => answers'[d] = answers[d]
    BY DEF Execute, AnswersAfter
  <1>4. TypeOK'
    BY <1>1, <1>2, MaxSeqAssumption DEF TypeOK, NoSeq
  <1>5. call[c] # NoCall
    BY <1>1, NoCallType
  <1>6. ClerkInv'
    <2> SUFFICES ASSUME NEW d \in Clients
                 PROVE  /\ rpc'[d] = "none" <=> call'[d] = NoCall
                        /\ call'[d] # NoCall => seq'[d] < MaxSeq
                        /\ (rpc'[d] = "reply" /\ call'[d].OpType # "Get") => answers'[d] # {}
      BY <1>1, <1>3, <1>4
    <2>1. CASE d = c
      BY Zenon, <1>1, <1>3, <1>5, <2>1 DEF TypeOK
    <2>2. CASE d # c
      BY <1>1, <1>3, <2>2 DEF TypeOK
    <2> QED
      BY <2>1, <2>2
  <1>7. CacheTracksCalls'
    <2> SUFFICES ASSUME NEW d \in Clients
                 PROVE  /\ requestCache'[d] <= seq'[d]
                        /\ call'[d] = NoCall => requestCache'[d] < seq'[d]
                        /\ call'[d].OpType \in {"Put", "Append"} =>
                              (requestCache'[d] = seq'[d] <=> answers'[d] # {})
                        /\ call'[d].OpType = "Get" => requestCache'[d] < seq'[d]
      BY <1>2 DEF CacheTracksCalls
    <2>0. seq[d] \in Int /\ requestCache[d] \in Int
      BY MaxSeqAssumption DEF TypeOK, NoSeq
    <2>1. CASE d = c
      <3>1. requestCache'[c] = seq[c] /\ seq'[c] = seq[c] /\ call'[c] = call[c]
        BY <1>1 DEF TypeOK
      <3>2. call[c].OpType \in {"Put", "Append"} /\ answers'[c] # {}
        BY <1>1, <1>3
      <3> QED
        BY <1>5, <2>0, <2>1, <3>1, <3>2
    <2>2. CASE d # c
      BY <1>1, <1>3, <2>2 DEF TypeOK, CacheTracksCalls
    <2> QED
      BY <2>1, <2>2
  <1> QED
    BY <1>6, <1>7

\* A repetition of a Put or an Append has taken effect, and the first
\* execution has not.
LEMMA DuplicateTookEffect ==
    ASSUME CacheInv, NEW c \in Clients, call[c].OpType \in {"Put", "Append"}
    PROVE  Duplicate(c) <=> answers[c] # {}
  <1>1. seq[c] \in Nat /\ requestCache[c] \in Int
    BY MaxSeqAssumption DEF CacheInv, ClerkInv, TypeOK, NoSeq
  <1> QED
    BY <1>1 DEF CacheInv, CacheTracksCalls, Duplicate, NoSeq

\* Every step.
LEMMA NextCacheInv == CacheInv /\ [Next]_vars => CacheInv'
  <1> SUFFICES ASSUME CacheInv, [Next]_vars PROVE CacheInv'
    OBVIOUS
  <1>1. ASSUME NEW c \in Clients, HandleGet(c) PROVE CacheInv'
    <2>1. Receive(c, "Get") /\ call[c] # NoCall
      BY <1>1, NoCallType DEF HandleGet, Receive
    <2> QED
      BY Zenon, <1>1, <2>1, QuietCacheInv DEF HandleGet
  <1>2. ASSUME NEW c \in Clients, HandlePut(c) PROVE CacheInv'
    <2>1. Receive(c, "Put") /\ call[c].OpType = "Put" /\ call[c] # NoCall
      BY <1>2, NoCallType DEF HandlePut, Receive
    <2>2. CASE Duplicate(c) /\ reply' = [reply EXCEPT ![c] = <<>>] /\ UNCHANGED <<serverVars, answers>>
      BY Zenon, <2>1, <2>2, DuplicateTookEffect, QuietCacheInv
    <2>3. CASE Execute(c, call[c].Value, <<>>)
      BY <2>1, <2>3, ExecuteCacheInv
    <2> QED
      BY <1>2, <2>2, <2>3 DEF HandlePut
  <1>3. ASSUME NEW c \in Clients, HandleAppend(c) PROVE CacheInv'
    <2> DEFINE old == kv[call[c].Key]
    <2>1. Receive(c, "Append") /\ call[c].OpType = "Append" /\ call[c] # NoCall
      BY <1>3, NoCallType DEF HandleAppend, Receive
    <2>2. CASE /\ Duplicate(c) /\ UNCHANGED <<serverVars, answers>>
               /\ reply' = [reply EXCEPT ![c] = DuplicateAnswer(old, call[c].Value)]
      BY Zenon, <2>1, <2>2, DuplicateTookEffect, QuietCacheInv
    <2>3. CASE Execute(c, old \o call[c].Value, old)
      BY <2>1, <2>3, ExecuteCacheInv
    <2> QED
      BY <1>3, <2>2, <2>3 DEF HandleAppend
  <1>4. CASE UNCHANGED vars
    BY <1>4 DEF vars, serverVars, CacheInv, ClerkInv, CacheTracksCalls, TypeOK
  <1> QED
    BY <1>1, <1>2, <1>3, <1>4, CallCacheInv, ReplyCacheInv DEF Next, Serve

\* The server's cache says at all times which calls have taken effect, and no
\* RPC stays in pending: the bookkeeping of Put() and Append().
THEOREM CacheCorrect == Spec => []CacheTracksCalls
  <1>1. CacheInv => CacheTracksCalls
    BY DEF CacheInv
  <1> QED
    BY <1>1, InitCacheInv, NextCacheInv, PTL DEF Spec

\* Every variable keeps its type.
THEOREM TypeCorrect == Spec => []TypeOK
  <1>1. CacheInv => TypeOK
    BY DEF CacheInv, ClerkInv
  <1> QED
    BY <1>1, InitCacheInv, NextCacheInv, PTL DEF Spec

-----------------------------------------------------------------------------
(***************************************************************************)
(* Linearizability without Append.  (With it the answer to a repetition is *)
(* computed from the current value, and may be wrong.)                     *)
(***************************************************************************)

NoAppends == \A c \in Clients : \A op \in OpsOf(c) : op.OpType # "Append"

\* What the open calls may be answered with, and are.
AnswerInv ==
    \A c \in Clients :
        /\ call[c].OpType \in {"none", "Get", "Put"}
        /\ call[c].OpType = "Get" => kv[call[c].Key] \in answers[c]
        /\ call[c].OpType = "Put" => answers[c] \subseteq {<<>>}
        /\ rpc[c] = "reply" => reply[c] \in answers[c]

\* The initial state.
LEMMA InitAnswerInv == Init => AnswerInv
  BY NoCallType DEF Init, AnswerInv

\* A Put that is executed takes effect in the store, and leaves AnswerInv.
LEMMA PutTakesEffect ==
    ASSUME CacheInv, AnswerInv, NEW c \in Clients, Receive(c, "Put"), ~Duplicate(c),
           Execute(c, call[c].Value, <<>>)
    PROVE  AnswerInv' /\ Store!TakeEffect(c)
  <1>1. /\ call[c].OpType = "Put" /\ rpc' = [rpc EXCEPT ![c] = "reply"]
        /\ kv' = [kv EXCEPT ![call[c].Key] = call[c].Value]
        /\ reply' = [reply EXCEPT ![c] = <<>>]
        /\ answers' = AnswersAfter(answers, call, c, kv', <<>>)
        /\ UNCHANGED <<call, returned>>
    BY DEF Receive, Execute
  <1>2. answers[c] = {}
    BY <1>1, DuplicateTookEffect
  <1>3. Store!Step(kv, call[c]) = kv' /\ Store!Output(kv, call[c], TRUE) = <<>>
    BY <1>1 DEF Store!Step, Store!Output
  <1>4. Store!AnswersAfter(answers, call, c, kv', <<>>) = answers'
    BY <1>1 DEF Store!AnswersAfter, AnswersAfter
  <1>5. Store!TakeEffect(c)
    BY Zenon, <1>1, <1>2, <1>3, <1>4 DEF Store!TakeEffect
  <1>6. DOMAIN answers = Clients /\ DOMAIN rpc = Clients /\ DOMAIN reply = Clients
    BY DEF CacheInv, ClerkInv, TypeOK
  <1>7. ASSUME NEW d \in Clients
        PROVE  /\ call'[d].OpType \in {"none", "Get", "Put"}
               /\ call'[d].OpType = "Get" => kv'[call'[d].Key] \in answers'[d]
               /\ call'[d].OpType = "Put" => answers'[d] \subseteq {<<>>}
               /\ rpc'[d] = "reply" => reply'[d] \in answers'[d]
    <2>1. CASE d = c
      <3>1. answers'[c] = {<<>>} /\ reply'[c] = <<>> /\ call'[c] = call[c]
        BY <1>1, <1>6 DEF AnswersAfter
      <3> QED
        BY Zenon, <1>1, <2>1, <3>1
    <2>2. CASE d # c
      <3>1. rpc'[d] = rpc[d] /\ reply'[d] = reply[d] /\ call'[d] = call[d]
        BY <1>1, <2>2, <1>6
      <3>2. answers'[d] = IF call[d].OpType = "Get" THEN answers[d] \cup {kv'[call[d].Key]}
                          ELSE answers[d]
        BY <1>1, <2>2, <1>6 DEF AnswersAfter
      <3> QED
        BY <3>1, <3>2 DEF AnswerInv
    <2> QED
      BY <2>1, <2>2
  <1> QED
    BY <1>5, <1>7 DEF AnswerInv

\* A handler that changes nothing but the reply.
LEMMA QuietAnswers ==
    ASSUME CacheInv, AnswerInv, NEW c \in Clients, NEW type, Receive(c, type),
           NEW v \in answers[c], reply' = [reply EXCEPT ![c] = v],
           UNCHANGED <<serverVars, answers>>
    PROVE  AnswerInv' /\ UNCHANGED Store!storeVars
  <1>1. /\ rpc' = [rpc EXCEPT ![c] = "reply"]
        /\ UNCHANGED <<kv, call, answers, returned>>
    BY DEF Receive, serverVars
  <1>2. DOMAIN rpc = Clients /\ DOMAIN reply = Clients
    BY DEF CacheInv, ClerkInv, TypeOK
  <1>3. AnswerInv'
    BY <1>1, <1>2 DEF AnswerInv
  <1> QED
    BY <1>1, <1>3 DEF Store!storeVars

\* Every step keeps AnswerInv and is a step of the store.
LEMMA NextImplementsStore ==
    ASSUME NoAppends, CacheInv, AnswerInv, [Next]_vars
    PROVE  AnswerInv' /\ [Store!Next]_(Store!storeVars)
  <1>0. /\ DOMAIN rpc = Clients /\ DOMAIN reply = Clients
        /\ DOMAIN call = Clients /\ DOMAIN answers = Clients
    BY DEF CacheInv, ClerkInv, TypeOK
  <1>1. ASSUME NEW c \in Clients, NEW op \in OpsOf(c), Call(c, op)
        PROVE  AnswerInv' /\ Store!Next
    <2>1. /\ call[c] = NoCall /\ call' = [call EXCEPT ![c] = op]
          /\ rpc' = [rpc EXCEPT ![c] = "request"]
          /\ answers' = [answers EXCEPT ![c] = FirstAnswers(kv, op)]
          /\ UNCHANGED <<kv, reply, returned>>
      BY <1>1 DEF Call, serverVars
    <2>2. op.OpType \in {"Get", "Put"}
      BY OpsAssumption DEF NoAppends
    <2>3. AnswerInv'
      BY <1>0, <2>1, <2>2 DEF AnswerInv, FirstAnswers
    <2>4. Store!Invoke(c, op)
      BY <2>1 DEF Store!Invoke, Store!NoCall, NoCall, Store!FirstAnswers, FirstAnswers
    <2> QED
      BY <2>3, <2>4 DEF Store!Next
  <1>2. ASSUME NEW c \in Clients, Return(c)
        PROVE  AnswerInv' /\ Store!Next
    <2>1. /\ rpc[c] = "reply" /\ returned' = [returned EXCEPT ![c] = reply[c]]
          /\ call' = [call EXCEPT ![c] = NoCall] /\ rpc' = [rpc EXCEPT ![c] = "none"]
          /\ answers' = [answers EXCEPT ![c] = {}] /\ UNCHANGED <<kv, reply>>
      BY <1>2 DEF Return, serverVars
    <2>2. call[c] # NoCall /\ reply[c] \in answers[c]
      BY <2>1 DEF CacheInv, ClerkInv, AnswerInv
    <2>3. AnswerInv'
      BY <1>0, <2>1, NoCallType DEF AnswerInv
    <2>4. Store!Return(c)
      BY Zenon, <2>1, <2>2 DEF Store!Return, Store!NoCall, NoCall
    <2> QED
      BY <2>3, <2>4 DEF Store!Next
  <1>3. ASSUME NEW c \in Clients, DropReply(c)
        PROVE  AnswerInv' /\ UNCHANGED Store!storeVars
    <2>1. /\ rpc' = [rpc EXCEPT ![c] = "request"]
          /\ UNCHANGED <<kv, call, reply, answers, returned>>
      BY <1>3 DEF DropReply, serverVars
    <2> QED
      BY <1>0, <2>1 DEF AnswerInv, Store!storeVars
  <1>4. ASSUME NEW c \in Clients, HandleGet(c)
        PROVE  AnswerInv' /\ UNCHANGED Store!storeVars
    <2>1. Receive(c, "Get") /\ call[c].OpType = "Get"
      BY <1>4 DEF HandleGet, Receive
    <2>2. kv[call[c].Key] \in answers[c]
      BY <2>1 DEF AnswerInv
    <2> QED
      BY Zenon, <1>4, <2>1, <2>2, QuietAnswers DEF HandleGet
  <1>5. ASSUME NEW c \in Clients, HandlePut(c)
        PROVE  AnswerInv' /\ [Store!Next]_(Store!storeVars)
    <2>1. Receive(c, "Put") /\ call[c].OpType = "Put"
      BY <1>5 DEF HandlePut, Receive
    <2>2. CASE Duplicate(c) /\ reply' = [reply EXCEPT ![c] = <<>>] /\ UNCHANGED <<serverVars, answers>>
      <3>1. <<>> \in answers[c]
        BY <2>1, <2>2, DuplicateTookEffect DEF AnswerInv
      <3> QED
        BY Zenon, <2>1, <2>2, <3>1, QuietAnswers
    <2>3. CASE ~Duplicate(c) /\ Execute(c, call[c].Value, <<>>)
      BY <2>1, <2>3, PutTakesEffect DEF Store!Next
    <2> QED
      BY <1>5, <2>2, <2>3 DEF HandlePut
  <1>6. ASSUME NEW c \in Clients, HandleAppend(c)
        PROVE  FALSE
    BY <1>6 DEF HandleAppend, Receive, AnswerInv
  <1>7. CASE UNCHANGED vars
    BY <1>7 DEF vars, serverVars, AnswerInv, Store!storeVars
  <1> QED
    BY <1>1, <1>2, <1>3, <1>4, <1>5, <1>6, <1>7 DEF Next, Serve

\* A server that is only sent Get and Put is a linearizable map, however
\* often the clerks repeat their requests: the duplicate check of Put().
THEOREM PutGetLinearizable ==
    ASSUME NoAppends
    PROVE  Spec => Linearizable
  <1>1. Init => Store!Init
    BY DEF Init, Store!Init, Store!EmptyStore, EmptyStore, Store!NoCall, NoCall
  <1>2. CacheInv /\ AnswerInv /\ [Next]_vars => AnswerInv' /\ [Store!Next]_(Store!storeVars)
    BY NextImplementsStore
  <1> QED
    BY <1>1, <1>2, InitCacheInv, NextCacheInv, InitAnswerInv, PTL DEF Spec, Linearizable, Store!Spec
=============================================================================
