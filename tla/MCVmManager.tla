----------------------------- MODULE MCVmManager -----------------------------
(* Instances of VmManager for TLC: who asks for which id, and what may fail.  *)
EXTENDS VmManager, TLC

CONSTANTS j1, j2, j3, idA, idB, d1, d2

TwoJobs   == {j1, j2}
ThreeJobs == {j1, j2, j3}
OneId  == {idA}
TwoIds == {idA, idB}
TwoDeleters == {d1, d2}

\* Two requests for different environments.
OwnIds == [j \in TwoJobs |-> IF j = j1 THEN idA ELSE idB]

\* Two requests for one id, as from a client that tries again.
SameId == [j \in TwoJobs |-> idA]

\* Two requests for one id and one for another.
TwiceAndOther == [j \in ThreeJobs |-> IF j = j3 THEN idB ELSE idA]
Twins == Permutations({j1, j2})

\* What can fail without leaving the handler in the dark.
CleanFaults == {"register", "tap", "dnat", "launch"}

\* Those, and restarts of the proxy.
CleanAndRestart == CleanFaults \union {"proxy_restart"}

\* What leaves VMs behind: two requests of one id, and a third that is given the
\* addresses they give back, are enough for three jobs to meet.
LeavesVms == {"manager_end", "stray", "stop"}

\* Whatever does not leave a process that the manager has lost hold of.
NoStrays == FaultKinds \ {"stray", "stop"}
=============================================================================
