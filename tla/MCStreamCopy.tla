----------------------------- MODULE MCStreamCopy -----------------------------
(* An instance of StreamCopy for TLC: requests and answers larger than the     *)
(* buffers on their way, so that every place can be full, and a connection     *)
(* that takes less at a time than the loop reads from the other.               *)
EXTENDS StreamCopy

Narrow  == [s \in Sides |-> IF s = "client" THEN 2 ELSE 1]
Lengths == [s \in Sides |-> IF s = "client" THEN 6 ELSE 4]
=============================================================================
