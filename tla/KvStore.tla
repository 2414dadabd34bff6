------------------------------ MODULE KvStore ------------------------------
(***************************************************************************)
(* What a key/value service promises its clerks: a linearizable KvModel.   *)
(* Each call takes effect at one instant between its invocation and its    *)
(* return, a Put or an Append exactly once, and returns what the map held  *)
(* at that instant.                                                        *)
(***************************************************************************)
EXTENDS KvModel

CONSTANTS
    Clients,
    Keys,
    OpsOf(_),        \* the operations that a clerk may be asked for
    AppendReturns    \* TRUE when Append returns the old value

VARIABLES
    kv,          \* the value of each key
    call,        \* the open call of each clerk, or NoCall
    answers,     \* the results that its open call may return
    returned     \* the result of its last finished call

storeVars == <<kv, call, answers, returned>>

Init ==
    /\ kv = EmptyStore(Keys)
    /\ call = [c \in Clients |-> NoCall]
    /\ answers = [c \in Clients |-> {}]
    /\ returned = [c \in Clients |-> <<>>]

Invoke(c, op) ==
    /\ call[c] = NoCall
    /\ call' = [call EXCEPT ![c] = op]
    /\ answers' = [answers EXCEPT ![c] = FirstAnswers(kv, op)]
    /\ UNCHANGED <<kv, returned>>

TakeEffect(c) ==
    /\ call[c].OpType \in {"Put", "Append"} /\ answers[c] = {}
    /\ kv' = Step(kv, call[c])
    /\ answers' = AnswersAfter(answers, call, c, kv', Output(kv, call[c], AppendReturns))
    /\ UNCHANGED <<call, returned>>

Return(c) ==
    /\ call[c] # NoCall
    /\ \E v \in answers[c] : returned' = [returned EXCEPT ![c] = v]
    /\ call' = [call EXCEPT ![c] = NoCall]
    /\ answers' = [answers EXCEPT ![c] = {}]
    /\ UNCHANGED kv

Next == \E c \in Clients : \/ \E op \in OpsOf(c) : Invoke(c, op)
                           \/ TakeEffect(c)
                           \/ Return(c)

Spec == Init /\ [][Next]_storeVars
=============================================================================
