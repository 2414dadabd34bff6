------------------------------ MODULE MCKvSrv ------------------------------
(***************************************************************************)
(* KvSrv with two clerks.  Each has a letter of its own, so that what it   *)
(* appends occurs nowhere else, as in the tests of kvsrv.                  *)
(***************************************************************************)
EXTENDS KvSrv, TLC

CONSTANTS c1, c2, k1, k2

GetsOf(keys) == {[OpType |-> "Get", Key |-> k] : k \in keys}
PutsOf(keys, c) == {[OpType |-> "Put", Key |-> k, Value |-> <<c>>] : k \in keys}
AppendsOf(keys, c) == {[OpType |-> "Append", Key |-> k, Value |-> <<c>>] : k \in keys}

\* A value for OpsOf: Appends go to k1 and Puts to k2.
PutOrAppend(c) == GetsOf(Keys) \cup AppendsOf({k1}, c) \cup PutsOf({k2}, c)

\* A value for OpsOf: every operation on every key.
PutAndAppend(c) == GetsOf(Keys) \cup AppendsOf(Keys, c) \cup PutsOf(Keys, c)
=============================================================================
