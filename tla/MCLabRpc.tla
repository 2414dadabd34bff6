------------------------------ MODULE MCLabRpc -------------------------------
(***************************************************************************)
(* LabRpc with two servers and two calls.  The tester crashes and          *)
(* disconnects the servers in MayLeave, and turns the network unreliable   *)
(* before the first call or not at all.  A lossy network need not lose     *)
(* anything, so this leaves out no fate of a call.  MayCall(c) are the     *)
(* pairs of servers between which c may be made: c1 goes to the server     *)
(* that crashes, c2 to it or from it, live or crashed.  c1 is made first,  *)
(* and the test ends after both are made.                                  *)
(***************************************************************************)
EXTENDS LabRpc

CONSTANTS MayLeave, s1, s2, c1, c2

MayCall(c) == {<<s1, s2>>} \cup (IF c = c2 THEN {<<s2, s1>>} ELSE {})

MCNext ==
    /\ Next
    /\ \A c \in Calls : end'[c] = <<>> \/ <<end'[c][1], end'[c][3]>> \in MayCall(c)
    /\ \A i \in Servers \ MayLeave : connected'[i]
    /\ reliable' # reliable => reliable /\ pc[c1] = "idle"
    /\ pc'[c2] # "idle" => pc'[c1] # "idle"
    /\ done' => pc'[c2] # "idle"

MCSpec == Init /\ [][MCNext]_vars /\ Fairness
=============================================================================
