----------------------------- MODULE CriuVerify -----------------------------
(***************************************************************************)
(* internal/checkpoint: criu.go's Manager.Verify, which dumps a process    *)
(* and replays it inside a network namespace, and netns.go's Sinkhole,     *)
(* whose goroutines collect the connections that reach it: the listener is *)
(* on the host's side and never looks at the remote address.  Goroutines   *)
(* of an earlier verification may still run during the next one; the       *)
(* network devices, rules and the port belong to the machine and outlive   *)
(* every verification that does not remove them.                           *)
(*                                                                         *)
(* Time matters in one place only: replay sleeps for WaitSecs after the    *)
(* restore, a connection is read for at most ReadSecs.  A command that     *)
(* removes what is there succeeds.                                         *)
(***************************************************************************)
EXTENDS Naturals, FiniteSets

CONSTANTS Pids,      \* processes to verify
          Conns,     \* connections that reach the sinkhole
          Prompt,    \* the listener is set up before the wait is over
          MaxRounds  \* bound: verifications

ASSUME VerifyAssumption == Prompt \in BOOLEAN /\ MaxRounds \in Nat

VARIABLES vpc, pid,   \* Verify: its place and its process
          round,      \* which verification this is
          restored,   \* replay returned no error
          verdict,    \* what Verify is about to return, or has returned
          clock,      \* seconds replay has yet to sleep
          done,       \* rounds whose replay context is done
          lpc,        \* the goroutine of Listen, for each round
          field,      \* rounds whose Sinkhole.listener is set
          conn,       \* connections, and the goroutines that handle them
          dir,        \* the checkpoint directory exists
          ns,         \* named network namespaces, by PID
          veth,       \* veth-ksm-h: absent, without address, or ready
          rules,      \* REDIRECT rules in the nat table
          port        \* the round whose listener holds the port, or 0

machineVars  == <<dir, ns, veth, rules, port>>
listenerVars == <<lpc, field, conn>>
verifyVars   == <<vpc, pid, round, restored, verdict, clock, done>>
vars == <<verifyVars, listenerVars, machineVars>>

WaitSecs == 3
ReadSecs == 2
Rounds == 1 .. MaxRounds
NoConn == [st |-> "none", round |-> 0, left |-> 0, early |-> FALSE, copy |-> FALSE]

Init ==
  /\ vpc = "idle" /\ pid \in Pids /\ round = 0
  /\ restored = FALSE /\ verdict = "none" /\ clock = 0 /\ done = {}
  /\ lpc = [r \in Rounds |-> "none"] /\ field = {}
  /\ conn = [c \in Conns |-> NoConn]
  /\ dir = FALSE /\ ns = {} /\ veth = "absent" /\ rules = 0 /\ port = 0

-----------------------------------------------------------------------------
(* Verify.  Without criu, or without a directory, it returns at once.      *)

VerifyStart(p) ==
  /\ vpc = "idle" /\ round < MaxRounds
  /\ round' = round + 1 /\ pid' = p /\ restored' = FALSE
  /\ \/ vpc' = "dump" /\ dir' = TRUE /\ verdict' = "none"
     \/ verdict' = "error" /\ UNCHANGED <<vpc, dir>>
  /\ UNCHANGED <<clock, done, listenerVars, ns, veth, rules, port>>

(* criu dump ends within its timeout, well or badly.                       *)
Dump ==
  /\ vpc = "dump"
  /\ \/ vpc' = "netns" /\ UNCHANGED verdict
     \/ vpc' = "remove" /\ verdict' = "error"
  /\ UNCHANGED <<pid, round, restored, clock, done, listenerVars, machineVars>>

(* NewSinkhole: only "ip netns add" is fatal; the commands that make the   *)
(* veth pair and give it its address may fail and are passed over.         *)
MakeSinkhole ==
  /\ vpc = "netns"
  /\ \/ /\ pid \notin ns /\ ns' = ns \cup {pid}
        /\ veth' \in {veth, "ready"} \cup (IF veth = "absent" THEN {"bare"} ELSE {})
        /\ vpc' = "restore" /\ lpc' = [lpc EXCEPT ![round] = "start"]
        /\ UNCHANGED verdict
     \/ vpc' = "remove" /\ verdict' = "error" /\ UNCHANGED <<ns, veth, lpc>>
  /\ UNCHANGED <<pid, round, restored, clock, done, field, conn, dir, rules, port>>

(* 15 seconds after the start of the replay its context is done.           *)
Timeout ==
  /\ vpc \in {"restore", "wait"}
  /\ done' = done \cup {round}
  /\ UNCHANGED <<vpc, pid, round, restored, verdict, clock, listenerVars, machineVars>>

(* Mutant: the restore does not run under the context. *)
RestoreUntimed ==
  /\ vpc = "restore"
  /\ round \notin done /\ restored' \in BOOLEAN
  /\ vpc' = "wait" /\ clock' = WaitSecs
  /\ UNCHANGED <<pid, round, verdict, done, listenerVars, machineVars>>

(* Mutant: replay gives the connections no more time than a read takes. *)
RestoreShortWait ==
  /\ vpc = "restore"
  /\ restored' \in IF round \in done THEN {FALSE} ELSE BOOLEAN
  /\ vpc' = "wait" /\ clock' = ReadSecs
  /\ UNCHANGED <<pid, round, verdict, done, listenerVars, machineVars>>

(* criu restore ends, well or badly, or the context kills it; in either    *)
(* case replay then sleeps.                                                *)
Restore ==
  /\ vpc = "restore"
  /\ restored' \in IF round \in done THEN {FALSE} ELSE BOOLEAN
  /\ vpc' = "wait" /\ clock' = WaitSecs
  /\ UNCHANGED <<pid, round, verdict, done, listenerVars, machineVars>>

(* A second passes; a read that has used up its time is not left waiting.  *)
Tick ==
  /\ vpc = "wait" /\ clock > 0
  /\ \A c \in Conns : conn[c].st = "reading" => conn[c].left > 0
  /\ Prompt /\ clock = 1 => lpc[round] \in {"loop", "accept", "done"}
  /\ clock' = clock - 1
  /\ conn' = [c \in Conns |-> IF conn[c].st = "reading"
                              THEN [conn[c] EXCEPT !.left = @ - 1] ELSE conn[c]]
  /\ UNCHANGED <<vpc, pid, round, restored, verdict, done, lpc, field, machineVars>>

(* replay returns, and its deferred cancel ends the context.               *)
WaitEnds ==
  /\ vpc = "wait" /\ clock = 0
  /\ done' = done \cup {round} /\ vpc' = "judge"
  /\ UNCHANGED <<pid, round, restored, verdict, clock, listenerVars, machineVars>>

(* GetConnectionAttempts.                                                  *)
Attempts == {c \in Conns : conn[c].st = "recorded" /\ conn[c].round = round}

(* analyzeEvidence.  Its file names come from the output of a restore that *)
(* failed, and then it is not called: connections alone decide.            *)
Judge ==
  /\ vpc = "judge"
  /\ verdict' = IF restored /\ Attempts # {} THEN "malicious" ELSE "benign"
  /\ vpc' = "close"
  /\ UNCHANGED <<pid, round, restored, clock, done, listenerVars, machineVars>>

(* The deferred Cleanup, then the deferred RemoveAll.                      *)
(* Mutant: the listener is left for its context to end. *)
CloseNothing ==
  /\ vpc = "close"
  /\ vpc' = "rule"
  /\ UNCHANGED <<pid, round, restored, verdict, clock, done, listenerVars, machineVars>>

CloseListener ==
  /\ vpc = "close"
  /\ port' = IF round \in field /\ port = round THEN 0 ELSE port
  /\ vpc' = "rule"
  /\ UNCHANGED <<pid, round, restored, verdict, clock, done, listenerVars,
                 dir, ns, veth, rules>>

DeleteRule ==
  /\ vpc = "rule"
  /\ rules' = IF rules > 0 THEN rules - 1 ELSE 0
  /\ vpc' = "network"
  /\ UNCHANGED <<pid, round, restored, verdict, clock, done, listenerVars,
                 dir, ns, veth, port>>

DeleteNetwork ==
  /\ vpc = "network"
  /\ veth' = "absent" /\ ns' = ns \ {pid} /\ vpc' = "remove"
  /\ UNCHANGED <<pid, round, restored, verdict, clock, done, listenerVars,
                 dir, rules, port>>

RemoveDir ==
  /\ vpc = "remove"
  /\ dir' = FALSE /\ vpc' = "idle"
  /\ UNCHANGED <<pid, round, restored, verdict, clock, done, listenerVars,
                 ns, veth, rules, port>>

-----------------------------------------------------------------------------
(* Listen, the goroutine of round r.                                       *)

Bind(r) ==
  /\ lpc[r] = "start"
  /\ IF port = 0 /\ veth = "ready"
     THEN port' = r /\ field' = field \cup {r} /\ lpc' = [lpc EXCEPT ![r] = "rule"]
     ELSE lpc' = [lpc EXCEPT ![r] = "done"] /\ UNCHANGED <<port, field>>
  /\ UNCHANGED <<verifyVars, conn, dir, ns, veth, rules>>

AddRule(r) ==
  /\ lpc[r] = "rule"
  /\ rules' = rules + 1 /\ lpc' = [lpc EXCEPT ![r] = "loop"]
  /\ UNCHANGED <<verifyVars, field, conn, dir, ns, veth, port>>

(* The deferred Close is part of the return. *)
Loop(r) ==
  /\ lpc[r] = "loop"
  /\ IF r \in done
     THEN lpc' = [lpc EXCEPT ![r] = "done"] /\ port' = IF port = r THEN 0 ELSE port
     ELSE lpc' = [lpc EXCEPT ![r] = "accept"] /\ UNCHANGED port
  /\ UNCHANGED <<verifyVars, field, conn, dir, ns, veth, rules>>

(* The copy in the namespace connects, or any other process of the host.   *)
Accept(r, c, copy) ==
  /\ lpc[r] = "accept" /\ port = r /\ veth = "ready"
  /\ conn[c].st = "none"
  /\ conn' = [conn EXCEPT ![c] = [st |-> "reading", round |-> r, left |-> ReadSecs,
                                  early |-> vpc = "restore", copy |-> copy]]
  /\ lpc' = [lpc EXCEPT ![r] = "loop"]
  /\ UNCHANGED <<verifyVars, field, machineVars>>

(* The listener is closed under the blocked Accept. *)
AcceptFails(r) ==
  /\ lpc[r] = "accept" /\ port # r
  /\ lpc' = [lpc EXCEPT ![r] = IF r \in done THEN "done" ELSE "loop"]
  /\ UNCHANGED <<verifyVars, field, conn, machineVars>>

(* handleConnection: data, the end of the stream or the deadline.          *)
HandleConnection(c) ==
  /\ conn[c].st = "reading"
  /\ conn' = [conn EXCEPT ![c] = [@ EXCEPT !.st = "recorded", !.left = 0]]
  /\ UNCHANGED <<verifyVars, lpc, field, machineVars>>

-----------------------------------------------------------------------------
Verify == Dump \/ MakeSinkhole \/ Restore \/ Tick \/ WaitEnds \/ Judge
          \/ CloseListener \/ DeleteRule \/ DeleteNetwork \/ RemoveDir
Listen(r) == Bind(r) \/ AddRule(r) \/ Loop(r) \/ AcceptFails(r)

Next == \/ \E p \in Pids : VerifyStart(p)
        \/ Timeout \/ Verify
        \/ \E r \in Rounds : Listen(r) \/ \E c \in Conns, copy \in BOOLEAN : Accept(r, c, copy)
        \/ \E c \in Conns : HandleConnection(c)

(* Commands end, time passes, goroutines are scheduled and reads have a    *)
(* deadline; nobody has to connect.  A restored process may keep criu busy *)
(* until the context kills it.                                             *)
Fairness == /\ WF_vars(Verify /\ (vpc = "restore" => round \in done))
            /\ WF_vars(Timeout)
            /\ \A r \in Rounds : WF_vars(Listen(r))
            /\ \A c \in Conns : WF_vars(HandleConnection(c))

Spec == Init /\ [][Next]_vars /\ Fairness

-----------------------------------------------------------------------------
(* Types: Verify's places, the listener's places and the machine's state.  *)
TypeOK ==
  /\ vpc \in {"idle", "dump", "netns", "restore", "wait", "judge",
              "close", "rule", "network", "remove"}
  /\ pid \in Pids /\ round \in 0 .. MaxRounds /\ restored \in BOOLEAN
  /\ verdict \in {"none", "error", "benign", "malicious"}
  /\ clock \in 0 .. WaitSecs /\ done \subseteq Rounds /\ field \subseteq Rounds
  /\ lpc \in [Rounds -> {"none", "start", "rule", "loop", "accept", "done"}]
  /\ conn \in [Conns -> [st : {"none", "reading", "recorded"}, round : 0 .. MaxRounds,
                         left : 0 .. ReadSecs, early : BOOLEAN, copy : BOOLEAN]]
  /\ dir \in BOOLEAN /\ ns \subseteq Pids /\ veth \in {"absent", "bare", "ready"}
  /\ rules \in Nat /\ port \in 0 .. MaxRounds

(* When Verify has returned, on whatever path, nothing of it is left on    *)
(* the machine: no directory, namespace, device, redirection or port.      *)
CleanedUp ==
  vpc = "idle" => ~dir /\ ns = {} /\ veth = "absent" /\ rules = 0 /\ port = 0

(* A connection is counted for the verification during which it is made:   *)
(* no listener an earlier one left behind takes it from, or adds it to,    *)
(* the evidence the verdict is made of.                                    *)
CountedForItsVerification ==
  [][\A c \in Conns : conn[c].st = "none" /\ conn'[c].st # "none" => conn'[c].round = round]_vars

(* A process whose copy is restored without error is never found benign    *)
(* once the sinkhole has accepted a connection during the restore: the     *)
(* sleep is long enough for the slowest read.                              *)
EarlyCallbackConfirms ==
  restored /\ verdict = "benign" =>
    ~\E c \in Conns : conn[c].early /\ conn[c].round = round

(* The following do not hold of the code.  "Any outbound connection in the *)
(* sandbox = C2 callback attempt": nobody is found benign whose copy's     *)
(* connection was recorded by then.                                        *)
CallbackConfirms ==
  vpc = "close" /\ verdict = "benign" => ~\E c \in Attempts : conn[c].copy

(* Nor is anybody found malicious, and killed, but for a connection that   *)
(* came from the sandbox.                                                  *)
ConfirmedByItsCopy ==
  verdict = "malicious" => \E c \in Conns : conn[c].copy /\ conn[c].round = round

(* Verify returns: while it runs no event is handled.                      *)
VerifyReturns == vpc # "idle" ~> vpc = "idle"

(* No listener outlives its verification for good.                         *)
ListenerEnds == \A r \in Rounds : lpc[r] = "start" ~> lpc[r] = "done"

=============================================================================
