-------------------------- MODULE MCResponseEngine --------------------------
(* Instances of ResponseEngine for TLC.                                    *)
EXTENDS ResponseEngine

(* The last PID no command may touch, the last one the engine may not, and *)
(* the first ordinary one.                                                 *)
BoundaryPids == {10, 100, 101}

(* A whitelisted name and one that nobody knows.                           *)
Whitelist == {"sshd"}
TwoNames  == Whitelist \cup {"app"}

(* What a sidecar with a loaded model may come back with.                  *)
LoadedReplies == {"scored", "unreachable"}

=============================================================================
