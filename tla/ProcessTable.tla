---------------------------- MODULE ProcessTable ----------------------------
(***************************************************************************)
(* The operating system's side of the monitor: what a signal does to the   *)
(* process that holds a PID.  None of this is code of the repository; it   *)
(* is what engine.go, loader.go and criu.go rely on when they call kill(2) *)
(* or run criu.  A process table entry is a record                         *)
(*   st    free, running, stopped (SIGSTOP) or zombie (dead, not reaped)   *)
(*   gen   which incarnation of the PID this is: PIDs are reused           *)
(*   comm  the process name the kernel reports in every event              *)
(***************************************************************************)
EXTENDS Naturals

States == {"free", "running", "stopped", "zombie"}

(* kill(2) answers ESRCH only for a PID nobody holds: a zombie still counts. *)
Signalable(q) == q.st # "free"

Alive(q) == q.st \in {"running", "stopped"}

(* SIGSTOP, SIGCONT and SIGKILL succeed on a zombie and change nothing there. *)
Stopped(q)   == IF q.st = "running" THEN [q EXCEPT !.st = "stopped"] ELSE q
Continued(q) == IF q.st = "stopped" THEN [q EXCEPT !.st = "running"] ELSE q
Killed(q)    == IF Alive(q) THEN [q EXCEPT !.st = "zombie"] ELSE q

(* wait(2) by the parent frees the PID; fork(2) gives it to a new process. *)
Reaped(q)        == [q EXCEPT !.st = "free"]
Spawned(q, name) == [st |-> "running", gen |-> q.gen + 1, comm |-> name]

=============================================================================
