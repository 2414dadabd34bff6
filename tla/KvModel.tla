------------------------------ MODULE KvModel ------------------------------
(***************************************************************************)
(* The sequential key/value map of src/src/models/kv.go, against which the *)
(* tests of kvsrv and kvraft check their histories with porcupine.  A      *)
(* string is a sequence of letters, and "" is the empty one.               *)
(***************************************************************************)
EXTENDS Sequences

\* What a clerk is doing when it has no call open.
NoCall == [OpType |-> "none"]

\* KvModel.Init for every key.
EmptyStore(keys) == [k \in keys |-> <<>>]

\* The state that KvModel.Step returns.
Step(store, op) ==
    CASE op.OpType = "Put" -> [store EXCEPT ![op.Key] = op.Value]
      [] op.OpType = "Append" -> [store EXCEPT ![op.Key] = @ \o op.Value]
      [] OTHER -> store

\* The output that KvModel.Step accepts.  Append returns the old value in
\* kvsrv, and nothing in kvraft.
Output(store, op, appendReturns) ==
    IF op.OpType = "Get" \/ (op.OpType = "Append" /\ appendReturns)
    THEN store[op.Key] ELSE <<>>

-----------------------------------------------------------------------------
(***************************************************************************)
(* The answers that linearizability allows each open call.  A Get changes  *)
(* nothing, so it may return any value that its key held while it was      *)
(* open; a Put or an Append is allowed an answer once it took effect.      *)
(***************************************************************************)

\* The answers allowed to op when it is called.
FirstAnswers(store, op) == IF op.OpType = "Get" THEN {store[op.Key]} ELSE {}

\* The answers allowed once the call of c has taken effect and left store,
\* with the answer out.
AnswersAfter(answers, call, c, store, out) ==
    [d \in DOMAIN answers |->
        IF d = c THEN {out}
        ELSE IF call[d].OpType = "Get" THEN answers[d] \cup {store[call[d].Key]}
        ELSE answers[d]]
=============================================================================
