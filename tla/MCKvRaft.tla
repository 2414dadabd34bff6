----------------------------- MODULE MCKvRaft ------------------------------
(***************************************************************************)
(* KvRaft with two servers and two clerks, one that appends and one that   *)
(* reads, which send MaxRpcs requests between them.                        *)
(***************************************************************************)
EXTENDS KvRaft

CONSTANTS c1, c2, k1, MaxRpcs

Op(opType, value) == [OpType |-> opType, Key |-> k1, Value |-> value]

\* A value for OpsOf.
AppendAndGet(c) == IF c = c1 THEN {Op("Append", <<c>>)} ELSE {Op("Get", <<>>)}

MCNext == Next /\ (attempt[c1] + attempt[c2] <= MaxRpcs)'

MCSpec == Init /\ [][MCNext]_vars
=============================================================================
