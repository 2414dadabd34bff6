---------------------------- MODULE MCPorcupine -----------------------------
(***************************************************************************)
(* Porcupine on all histories of MaxOps operations with times up to        *)
(* MaxTime, of which the last may be on a key of its own.  An operation is *)
(* a Put or an Append of one letter, an Append that returned the empty     *)
(* string as the old value, or a Get that returned the letter.             *)
(* The order in which a history lists its operations does not matter to    *)
(* the checker beyond ties, which Porcupine breaks in every way; here it   *)
(* is that of the calls.  Partial linearizations are asked for with a      *)
(* timeout, as the tests do.                                               *)
(***************************************************************************)
EXTENDS Porcupine

CONSTANTS MaxOps, MaxTime, k1, k2

Times == {t \in [Call : 1 .. MaxTime, Return : 1 .. MaxTime] : t.Call <= t.Return}

Kinds ==
    [OpType : {"Put"}, Value : {<<1>>}, Out : {<<>>}, AnswersOld : {FALSE}]
      \cup [OpType : {"Append"}, Value : {<<1>>}, Out : {<<>>}, AnswersOld : BOOLEAN]
      \cup [OpType : {"Get"}, Value : {<<>>}, Out : {<<1>>}, AnswersOld : {FALSE}]

Ops == {[Key |-> k, OpType |-> o.OpType, Value |-> o.Value, Out |-> o.Out,
         AnswersOld |-> o.AnswersOld, Call |-> t.Call, Return |-> t.Return] :
        k \in Keys, o \in Kinds, t \in Times}

AllHistories ==
    {h \in [1 .. MaxOps -> Ops] :
        \A i \in 1 .. MaxOps - 1 : h[i].Key = k1 /\ h[i].Call <= h[i + 1].Call}

MCInit == Init /\ (computeInfo => mayTimeOut)

MCSpec == MCInit /\ [][Next]_vars /\ Fairness
=============================================================================
