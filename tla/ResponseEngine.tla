--------------------------- MODULE ResponseEngine ---------------------------
(***************************************************************************)
(* internal/response/engine.go with the two kinds of goroutine that call   *)
(* it (cmd/sensor/main.go): the event processor, which handles one event   *)
(* at a time, and any number of HTTP/chat handlers.  Engine.mu is held for *)
(* single map operations only, never across a system call, and Engine.mode *)
(* is not locked at all, so every lock region, every system call and every *)
(* read or half-write of the mode is a step of its own.                    *)
(*                                                                         *)
(* Around them run the processes themselves: they exec (through the        *)
(* BPF-LSM hook of bpf/lsm.c), exit, are reaped and give their PID away.   *)
(***************************************************************************)
EXTENDS Naturals, FiniteSets, ProcessTable

CONSTANTS
  Pids,            \* the PIDs of the instance: their numbers matter (10, 100)
  Comms,           \* process names
  KnownComms,      \* names on the built-in whitelist
  Handlers,        \* HTTP request goroutines
  Ops,             \* which operator commands are issued
  ModeRequests,    \* which modes the operators and the command line select
  SidecarReplies,  \* what calling the scorer may come back with
  Criu,            \* --enable-criu and criu is installed
  Lsm,             \* the LSM program is loaded and --fallback-kill is off
  DenyMapMax,      \* capacity of deny_exec_map (256 in the code)
  MaxGen           \* bound: incarnations of one PID

AllOps   == {"pause", "resume", "kill", "chatkill", "trust", "mode", "bulk"}
Modes    == {"observe", "pause", "enforce"}
Tiers    == {"low", "medium", "high"}
NoPid    == 0
NoComm   == ""

ASSUME PidsAssumption     == Pids \subseteq Nat \ {0}
ASSUME CommsAssumption    == NoComm \notin Comms /\ KnownComms \subseteq Comms
ASSUME OpsAssumption      == Ops \subseteq AllOps
ASSUME ModesAssumption    == ModeRequests \subseteq Modes
ASSUME RepliesAssumption  == SidecarReplies \subseteq {"scored", "unreachable", "unloaded"}
ASSUME SwitchesAssumption == Criu \in BOOLEAN /\ Lsm \in BOOLEAN
ASSUME BoundsAssumption   == DenyMapMax \in Nat /\ MaxGen \in Nat

VARIABLES
  proc,          \* the process table
  denyMap,       \* deny_exec_map: PIDs whose next exec is refused
  hook,          \* PIDs inside ksm_bprm_check, between lookup and delete
  mode,          \* Engine.mode, a Go string: the two words of its header
  paused,        \* Engine.pausedPIDs (its comm values are display only)
  trustedComms,  \* Engine.customTrustedComms
  trustedPids,   \* Engine.customTrustedPIDs
  log,           \* what GetSuspiciousBelow can still see of Engine.decisions
  ppc, ev,       \* the processor: its place in the code and its event
  seen,          \* history: mode readings possible since ev was taken
  hpc, req       \* the handlers: their place and their request

engineVars    == <<mode, paused, trustedComms, trustedPids, log>>
processorVars == <<ppc, ev, seen>>
handlerVars   == <<hpc, req>>
kernelVars    == <<proc, denyMap, hook>>
vars == <<kernelVars, engineVars, processorVars, handlerVars>>

-----------------------------------------------------------------------------
(* Mode.  A Go string is a pointer and a length, written one after the     *)
(* other; "observe" and "enforce" are equally long, "pause" is not.  A     *)
(* reader that meets a half-written header compares unequal to every mode. *)

WordLen(m) == IF m = "pause" THEN 5 ELSE 7
StringHeader == [ptr : Modes, len : {5, 7}]
Reading(s) == IF s.len = WordLen(s.ptr) THEN s.ptr ELSE "torn"
Mode == Reading(mode)

(* isKnownProcess: exact names and prefixes.                               *)
IsKnownProcess(comm) == comm \in KnownComms

(* Trust (IsTrusted) and the built-in protection of low PIDs.              *)
(* Mutant: the PID bound is off by one. *)
TrustedBelow100(comm, pid) ==
  pid \in trustedPids \/ comm \in trustedComms \/ IsKnownProcess(comm) \/ pid < 100

Trusted(comm, pid) == \/ pid \in trustedPids
                      \/ comm \in trustedComms
                      \/ IsKnownProcess(comm)
                      \/ pid <= 100

PauseRefused(pid) == pid <= 10
KillRefused(pid)  == pid <= 10

ProcessorPlaces == {"idle", "gate", "score", "classify", "ifObserve", "ifPause",
                    "ifPaused", "stop", "mark", "verify", "replay", "deny", "append"}
Actions == {"none", "trusted_allow", "observe", "pause_log", "already_paused",
            "paused_sigstop", "pause_failed_log", "log", "criu_verify_failed_log",
            "verified_benign", "verified_kill", "kill", "kill_failed"}
Event == [pid : Pids \cup {NoPid}, comm : Comms \cup {NoComm}, gen : Nat,
          tier : Tiers, scored : BOOLEAN, action : Actions, exempt : BOOLEAN]
NoEvent == [pid |-> NoPid, comm |-> NoComm, gen |-> 0, tier |-> "low",
            scored |-> FALSE, action |-> "none", exempt |-> FALSE]

Process == [st : States, gen : Nat, comm : Comms]
Verdict == [suspect : Comms \cup {NoComm}, low : BOOLEAN]

HandlerPlaces == {"idle", "mark", "cont", "unmark", "reply", "mode",
                  "bulk", "bulkStop", "bulkMark"}
Target  == [pid : Pids, comm : Comms]
Request == [pid : Pids \cup {NoPid}, mode : Modes, half : {"ptr", "len"},
            todo : SUBSET Target, spared : SUBSET Target]
NoRequest == [pid |-> NoPid, mode |-> "observe", half |-> "ptr",
              todo |-> {}, spared |-> {}]

Init ==
  /\ proc \in [Pids -> [st : {"running"}, gen : {1}, comm : Comms]]
  /\ denyMap = {} /\ hook = {}
  /\ \E m \in ModeRequests : mode = [ptr |-> m, len |-> WordLen(m)]
  /\ paused = {}
  /\ trustedComms = {} /\ trustedPids = {}
  /\ log = [p \in Pids |-> [suspect |-> NoComm, low |-> FALSE]]
  /\ ppc = "idle" /\ ev = NoEvent /\ seen = {}
  /\ hpc = [h \in Handlers |-> "idle"]
  /\ req = [h \in Handlers |-> NoRequest]

-----------------------------------------------------------------------------
(* The event processor: processEvents and Engine.Respond.                  *)

(* An event names its process by PID and comm as they were when the        *)
(* tracepoint ran; everything later may find another process there.        *)
TakeEvent(p) ==
  /\ ppc = "idle" /\ proc[p].st = "running"
  /\ ev' = [NoEvent EXCEPT !.pid = p, !.comm = proc[p].comm, !.gen = proc[p].gen,
                           !.exempt = Trusted(proc[p].comm, p)]
  /\ ppc' = "gate" /\ seen' = {Mode}
  /\ UNCHANGED <<kernelVars, engineVars, handlerVars>>

EndEvent == ppc' = "idle" /\ ev' = NoEvent /\ seen' = {}

(* Trusted processes are recorded as known_safe and never scored.          *)
Gate ==
  /\ ppc = "gate"
  /\ IF Trusted(ev.comm, ev.pid)
     THEN EndEvent
     ELSE ppc' = "score" /\ UNCHANGED <<ev, seen>>
  /\ UNCHANGED <<kernelVars, engineVars, handlerVars>>

(* Mutant: the zero value of the result is used when the sidecar is down. *)
TierOfZeroValue(reply) == IF reply = "scored" THEN Tiers ELSE {"high"}

(* callScorer and TierFromPValue.  A scored answer may fall in any tier;   *)
(* no answer counts as p = 0.8; the 503 of a sidecar without a model       *)
(* decodes to p = 0.                                                       *)
TierOf(reply) == IF reply = "scored" THEN Tiers
                 ELSE IF reply = "unreachable" THEN {"low"} ELSE {"high"}

Score ==
  /\ ppc = "score"
  /\ \E reply \in SidecarReplies : \E t \in TierOf(reply) :
       ev' = [ev EXCEPT !.tier = t, !.scored = (reply = "scored")]
  /\ ppc' = "classify"
  /\ UNCHANGED <<kernelVars, engineVars, handlerVars, seen>>

Decide(action, place) == ev' = [ev EXCEPT !.action = action] /\ ppc' = place

(* Respond asks IsTrusted again: the user may have trusted the process     *)
(* while the sidecar was being called.                                     *)
Classify ==
  /\ ppc = "classify"
  /\ IF Trusted(ev.comm, ev.pid)
     THEN Decide("trusted_allow", "append")
     ELSE ppc' = "ifObserve" /\ UNCHANGED ev
  /\ UNCHANGED <<kernelVars, engineVars, handlerVars, seen>>

(* Mutant: critical anomalies are not held back in observe mode. *)
IfObserveExceptHigh ==
  /\ ppc = "ifObserve"
  /\ IF Mode = "observe" /\ ev.tier # "high"
     THEN Decide("observe", "append")
     ELSE ppc' = "ifPause" /\ UNCHANGED ev
  /\ UNCHANGED <<kernelVars, engineVars, handlerVars, seen>>

(* e.mode == ModeObserve                                                   *)
IfObserve ==
  /\ ppc = "ifObserve"
  /\ IF Mode = "observe"
     THEN Decide("observe", "append")
     ELSE ppc' = "ifPause" /\ UNCHANGED ev
  /\ UNCHANGED <<kernelVars, engineVars, handlerVars, seen>>

(* The enforce branch is whatever is left once both comparisons failed.    *)
Enforce ==
  CASE ev.tier = "low"    -> Decide("log", "append")
    [] ev.tier = "medium" -> IF Criu THEN ppc' = "verify" /\ UNCHANGED ev
                                     ELSE Decide("log", "append")
    [] ev.tier = "high"   -> IF IsKnownProcess(ev.comm) \/ ev.pid <= 100
                             THEN Decide("log", "append")
                             ELSE Decide("kill", "deny")

(* Mutant: pause mode only pauses the high tier. *)
IfPauseOnlyHigh ==
  /\ ppc = "ifPause"
  /\ IF Mode = "pause"
     THEN IF ev.tier # "high" THEN Decide("pause_log", "append")
                              ELSE ppc' = "ifPaused" /\ UNCHANGED ev
     ELSE Enforce
  /\ UNCHANGED <<kernelVars, engineVars, handlerVars, seen>>

(* e.mode == ModePause, read again                                         *)
IfPause ==
  /\ ppc = "ifPause"
  /\ IF Mode = "pause"
     THEN IF ev.tier = "low" THEN Decide("pause_log", "append")
                             ELSE ppc' = "ifPaused" /\ UNCHANGED ev
     ELSE Enforce
  /\ UNCHANGED <<kernelVars, engineVars, handlerVars, seen>>

(* IsProcessPaused                                                         *)
IfPaused ==
  /\ ppc = "ifPaused"
  /\ IF ev.pid \in paused
     THEN Decide("already_paused", "append")
     ELSE ppc' = "stop" /\ UNCHANGED ev
  /\ UNCHANGED <<kernelVars, engineVars, handlerVars, seen>>

(* PauseProcess: the signal, then (below) the entry in pausedPIDs.         *)
Stop ==
  /\ ppc = "stop"
  /\ IF ~PauseRefused(ev.pid) /\ Signalable(proc[ev.pid])
     THEN /\ proc' = [proc EXCEPT ![ev.pid] = Stopped(@)]
          /\ ppc' = "mark" /\ UNCHANGED ev
     ELSE Decide("pause_failed_log", "append") /\ UNCHANGED proc
  /\ UNCHANGED <<denyMap, hook, engineVars, handlerVars, seen>>

(* Mutant: a failed lookup of the name loses the entry. *)
MarkForgets ==
  /\ ppc = "mark"
  /\ Decide("paused_sigstop", "append")
  /\ UNCHANGED <<kernelVars, engineVars, handlerVars, seen>>

Mark ==
  /\ ppc = "mark"
  /\ paused' = paused \cup {ev.pid}
  /\ Decide("paused_sigstop", "append")
  /\ UNCHANGED <<kernelVars, mode, trustedComms, trustedPids, log, handlerVars, seen>>

(* VerifyFunc: criu dump --leave-stopped freezes the process it dumps ...  *)
Verify ==
  /\ ppc = "verify"
  /\ \/ /\ Alive(proc[ev.pid])
        /\ proc' = [proc EXCEPT ![ev.pid] = Stopped(@)]
        /\ ppc' = "replay" /\ UNCHANGED ev
     \/ Decide("criu_verify_failed_log", "append") /\ UNCHANGED proc
  /\ UNCHANGED <<denyMap, hook, engineVars, handlerVars, seen>>

(* ... and the sinkhole and the replay decide; no outcome continues it.    *)
Replay ==
  /\ ppc = "replay"
  /\ \/ Decide("criu_verify_failed_log", "append")
     \/ Decide("verified_benign", "append")
     \/ Decide("verified_kill", "deny")
  /\ UNCHANGED <<kernelVars, engineVars, handlerVars, seen>>

(* DenyExec: the deny map when the LSM is there and has room, else SIGKILL.*)
(* Mutant: --fallback-kill and a missing LSM are ignored. *)
PutSucceedsAlways(pid) == pid \in denyMap \/ Cardinality(denyMap) < DenyMapMax

PutSucceeds(pid) == Lsm /\ (pid \in denyMap \/ Cardinality(denyMap) < DenyMapMax)

Deny ==
  /\ ppc = "deny"
  /\ \/ /\ PutSucceeds(ev.pid)
        /\ denyMap' = denyMap \cup {ev.pid}
        /\ ppc' = "append" /\ UNCHANGED <<proc, ev>>
     \/ /\ ~PutSucceeds(ev.pid) /\ Signalable(proc[ev.pid])
        /\ proc' = [proc EXCEPT ![ev.pid] = Killed(@)]
        /\ ppc' = "append" /\ UNCHANGED <<denyMap, ev>>
     \/ /\ ~PutSucceeds(ev.pid) /\ ~Signalable(proc[ev.pid])
        /\ Decide(IF ev.action = "kill" THEN "kill_failed" ELSE ev.action, "append")
        /\ UNCHANGED <<proc, denyMap>>
  /\ UNCHANGED <<hook, engineVars, handlerVars, seen>>

(* e.decisions = append(...).  The trust score computed from the p-value,  *)
(* the parent and the matched technique may be on either side of a bulk    *)
(* command's threshold.  GetSuspiciousBelow filters before it keeps the    *)
(* latest per PID, so a later decision hides an earlier suspicious one     *)
(* only when it is suspicious itself.                                      *)
Append ==
  /\ ppc = "append"
  /\ \E suspicious \in IF ev.action = "trusted_allow" THEN {FALSE} ELSE BOOLEAN :
     log' = [log EXCEPT ![ev.pid] =
               [suspect |-> IF suspicious THEN ev.comm ELSE @.suspect,
                low     |-> suspicious]]
  /\ EndEvent
  /\ UNCHANGED <<kernelVars, mode, paused, trustedComms, trustedPids, handlerVars>>

ProcessorStep == \/ Gate \/ Score \/ Classify \/ IfObserve \/ IfPause \/ IfPaused
                 \/ Stop \/ Mark \/ Verify \/ Replay \/ Deny \/ Append

-----------------------------------------------------------------------------
(* HTTP and chat handlers.  A command that is refused (PID <= 10) or that  *)
(* finds nobody at the PID changes nothing and is not a step.              *)

Goto(h, place)  == hpc' = [hpc EXCEPT ![h] = place]
Finish(h)       == Goto(h, "idle") /\ req' = [req EXCEPT ![h] = NoRequest]
For(h, p, place) == Goto(h, place) /\ req' = [req EXCEPT ![h].pid = p]
IdleFor(h, op)  == hpc[h] = "idle" /\ op \in Ops

Pause(h, p) ==
  /\ IdleFor(h, "pause") /\ ~PauseRefused(p) /\ Signalable(proc[p])
  /\ proc' = [proc EXCEPT ![p] = Stopped(@)]
  /\ For(h, p, "mark")
  /\ UNCHANGED <<denyMap, hook, engineVars, processorVars>>

HandlerMark(h) ==
  /\ hpc[h] = "mark"
  /\ paused' = paused \cup {req[h].pid}
  /\ Finish(h)
  /\ UNCHANGED <<kernelVars, mode, trustedComms, trustedPids, log, processorVars>>

(* ResumeProcess has no guard on the PID.                                  *)
Resume(h, p) ==
  /\ IdleFor(h, "resume") /\ Signalable(proc[p])
  /\ proc' = [proc EXCEPT ![p] = Continued(@)]
  /\ For(h, p, "unmark")
  /\ UNCHANGED <<denyMap, hook, engineVars, processorVars>>

Unmark(h) ==
  /\ hpc[h] = "unmark"
  /\ paused' = paused \ {req[h].pid}
  /\ Finish(h)
  /\ UNCHANGED <<kernelVars, mode, trustedComms, trustedPids, log, processorVars>>

(* /api/process/kill resumes after the kill to clean pausedPIDs; the chat  *)
(* command does not.                                                       *)
Kill(h, p) ==
  /\ hpc[h] = "idle" /\ ~KillRefused(p) /\ Signalable(proc[p])
  /\ proc' = [proc EXCEPT ![p] = Killed(@)]
  /\ \/ "kill" \in Ops /\ For(h, p, "cont")
     \/ "chatkill" \in Ops /\ For(h, p, "reply")
  /\ UNCHANGED <<denyMap, hook, engineVars, processorVars>>

(* The clean-up is skipped when the parent reaped the process in between.  *)
CleanUp(h) ==
  /\ hpc[h] = "cont"
  /\ IF Signalable(proc[req[h].pid])
     THEN /\ proc' = [proc EXCEPT ![req[h].pid] = Continued(@)]
          /\ Goto(h, "unmark") /\ UNCHANGED req
     ELSE Finish(h) /\ UNCHANGED proc
  /\ UNCHANGED <<denyMap, hook, engineVars, processorVars>>

Reply(h) ==
  /\ hpc[h] = "reply"
  /\ Finish(h)
  /\ UNCHANGED <<kernelVars, engineVars, processorVars>>

(* Mutant: the test pid > 0 is missing. *)
TrustAnyPid(h, names, pids) ==
  /\ IdleFor(h, "trust")
  /\ trustedComms' = trustedComms \cup names
  /\ trustedPids' = trustedPids \cup (IF pids = {} THEN {NoPid} ELSE pids)
  /\ UNCHANGED <<kernelVars, mode, paused, log, processorVars, handlerVars>>

(* TrustProcess: a name, a PID or both, under one lock.                    *)
Trust(h, names, pids) ==
  /\ IdleFor(h, "trust")
  /\ trustedComms' = trustedComms \cup names
  /\ trustedPids' = trustedPids \cup pids
  /\ UNCHANGED <<kernelVars, mode, paused, log, processorVars, handlerVars>>

(* /api/mode: the two words of the string, in an order the compiler picks. *)
WriteMode(m, half) ==
  /\ mode' = IF half = "ptr" THEN [mode EXCEPT !.ptr = m]
                             ELSE [mode EXCEPT !.len = WordLen(m)]
  /\ seen' = IF ppc = "idle" THEN seen ELSE seen \cup {Reading(mode')}

SetMode(h, m, half) ==
  /\ IdleFor(h, "mode")
  /\ WriteMode(m, half)
  /\ Goto(h, "mode")
  /\ req' = [req EXCEPT ![h].mode = m, ![h].half = IF half = "ptr" THEN "len" ELSE "ptr"]
  /\ UNCHANGED <<kernelVars, paused, trustedComms, trustedPids, log, ppc, ev>>

SetModeRest(h) ==
  /\ hpc[h] = "mode"
  /\ WriteMode(req[h].mode, req[h].half)
  /\ Finish(h)
  /\ UNCHANGED <<kernelVars, paused, trustedComms, trustedPids, log, ppc, ev>>

(* "block all below N": a snapshot of the suspicious decisions, then one   *)
(* target at a time, each checked for trust and then paused.               *)
Suspects == {t \in Target : log[t.pid].suspect = t.comm}

Bulk(h) ==
  /\ IdleFor(h, "bulk")
  /\ Suspects # {}
  /\ Goto(h, "bulk")
  /\ req' = [req EXCEPT ![h].todo = Suspects,
                        ![h].spared = {t \in Suspects : Trusted(t.comm, t.pid)}]
  /\ UNCHANGED <<kernelVars, engineVars, processorVars>>

(* Mutant: targets are not checked for trust. *)
BulkCheckNothing(h, t) ==
  /\ hpc[h] = "bulk" /\ t \in req[h].todo
  /\ req' = [req EXCEPT ![h].todo = @ \ {t}, ![h].pid = t.pid]
  /\ Goto(h, "bulkStop")
  /\ UNCHANGED <<kernelVars, engineVars, processorVars>>

BulkCheck(h, t) ==
  /\ hpc[h] = "bulk" /\ t \in req[h].todo
  /\ req' = [req EXCEPT ![h].todo = @ \ {t}, ![h].pid = t.pid]
  /\ Goto(h, IF Trusted(t.comm, t.pid) THEN "bulk" ELSE "bulkStop")
  /\ UNCHANGED <<kernelVars, engineVars, processorVars>>

BulkStop(h) ==
  /\ hpc[h] = "bulkStop"
  /\ LET p == req[h].pid IN
     IF ~PauseRefused(p) /\ Signalable(proc[p])
     THEN /\ proc' = [proc EXCEPT ![p] = Stopped(@)]
          /\ Goto(h, "bulkMark")
     ELSE Goto(h, "bulk") /\ UNCHANGED proc
  /\ UNCHANGED <<denyMap, hook, engineVars, processorVars, req>>

BulkMark(h) ==
  /\ hpc[h] = "bulkMark"
  /\ paused' = paused \cup {req[h].pid}
  /\ Goto(h, "bulk")
  /\ UNCHANGED <<kernelVars, mode, trustedComms, trustedPids, log, processorVars, req>>

BulkDone(h) ==
  /\ hpc[h] = "bulk" /\ req[h].todo = {}
  /\ Finish(h)
  /\ UNCHANGED <<kernelVars, engineVars, processorVars>>

(* A request arrives.  Trusting a whitelisted name would change nothing.    *)
Command(h) ==
  \/ \E p \in Pids : Pause(h, p) \/ Resume(h, p) \/ Kill(h, p)
  \/ \E names \in {{}} \cup {{c} : c \in Comms \ KnownComms}, pids \in {{}} \cup {{p} : p \in Pids} :
       Trust(h, names, pids)
  \/ \E m \in ModeRequests, half \in {"ptr", "len"} : SetMode(h, m, half)
  \/ Bulk(h)

(* A request goes on. *)
HandlerStep(h) ==
  \/ HandlerMark(h) \/ CleanUp(h) \/ Unmark(h) \/ Reply(h) \/ SetModeRest(h)
  \/ \E t \in Target : BulkCheck(h, t)
  \/ BulkStop(h) \/ BulkMark(h) \/ BulkDone(h)

-----------------------------------------------------------------------------
(* The processes.                                                          *)

(* exec: ksm_bprm_check looks the PID up.  Absent: the exec goes on and    *)
(* the process has a new name.  Present: the hook goes on to the deletion. *)
Exec(p, name) ==
  /\ proc[p].st = "running" /\ p \notin hook
  /\ IF Lsm /\ p \in denyMap
     THEN hook' = hook \cup {p} /\ UNCHANGED proc
     ELSE proc' = [proc EXCEPT ![p].comm = name] /\ UNCHANGED hook
  /\ UNCHANGED <<denyMap, engineVars, processorVars, handlerVars>>

(* bpf_map_delete_elem and -EPERM: the process keeps running as it was.    *)
ExecDenied(p) ==
  /\ p \in hook
  /\ hook' = hook \ {p} /\ denyMap' = denyMap \ {p}
  /\ UNCHANGED <<proc, engineVars, processorVars, handlerVars>>

Exit(p) ==
  /\ Alive(proc[p]) /\ p \notin hook
  /\ proc' = [proc EXCEPT ![p] = Killed(@)]
  /\ UNCHANGED <<denyMap, hook, engineVars, processorVars, handlerVars>>

Reap(p) ==
  /\ proc[p].st = "zombie" /\ p \notin hook
  /\ proc' = [proc EXCEPT ![p] = Reaped(@)]
  /\ UNCHANGED <<denyMap, hook, engineVars, processorVars, handlerVars>>

Spawn(p, name) ==
  /\ proc[p].st = "free" /\ proc[p].gen < MaxGen
  /\ proc' = [proc EXCEPT ![p] = Spawned(@, name)]
  /\ UNCHANGED <<denyMap, hook, engineVars, processorVars, handlerVars>>

Environment(p) == \/ ExecDenied(p) \/ Exit(p) \/ Reap(p)
                  \/ \E name \in Comms : Exec(p, name) \/ Spawn(p, name)

-----------------------------------------------------------------------------
Next == \/ \E p \in Pids : TakeEvent(p)
        \/ ProcessorStep
        \/ \E h \in Handlers : Command(h) \/ HandlerStep(h)
        \/ \E p \in Pids : Environment(p)

Spec == Init /\ [][Next]_vars

(* Go schedules a goroutine that can run, and every wait in these paths is *)
(* bounded (the scorer's and CRIU's timeouts).  Nobody owes an event, a    *)
(* request, an exec or an exit.                                            *)
FairSpec == /\ Spec
            /\ WF_vars(ProcessorStep)
            /\ \A h \in Handlers : WF_vars(HandlerStep(h))

-----------------------------------------------------------------------------
(* Properties.                                                             *)

(* Types: signals, the deny map, the paused list and the trust lists only  *)
(* ever concern real PIDs and names, and the mode is two halves of modes.  *)
TypeOK ==
  /\ proc \in [Pids -> Process]
  /\ denyMap \subseteq Pids /\ hook \subseteq Pids
  /\ mode \in StringHeader
  /\ paused \subseteq Pids
  /\ trustedComms \subseteq Comms /\ trustedPids \subseteq Pids
  /\ log \in [Pids -> Verdict]
  /\ ppc \in ProcessorPlaces /\ ev \in Event
  /\ seen \subseteq Modes \cup {"torn"}
  /\ hpc \in [Handlers -> HandlerPlaces]
  /\ req \in [Handlers -> Request]

EnforcePlaces == {"verify", "replay", "deny"}
PausePlaces   == {"ifPaused", "stop", "mark"}
ActingPlaces  == EnforcePlaces \cup PausePlaces
Quiet == ppc = "idle" /\ \A h \in Handlers : hpc[h] = "idle"

(* Who acts on a process in a step, and whether the step hurts it.         *)
ByEngine   == ppc' # ppc
ByOperator == hpc' # hpc
ByBulk     == \E h \in Handlers : hpc[h] = "bulkStop" /\ hpc'[h] # "bulkStop"
Struck(p) == \/ proc[p].st = "running" /\ proc'[p].st = "stopped"
             \/ Alive(proc[p]) /\ ~Alive(proc'[p])
             \/ p \notin denyMap /\ p \in denyMap'

(* What one step may strike: see ProtectedUntouched.                       *)
ProtectedStep == \A p \in Pids : Struck(p) => /\ ByEngine \/ ByOperator => p > 10
                                              /\ ByEngine \/ ByBulk => p > 100

(* No command and no verdict ever stops, kills or denies a PID up to 10,   *)
(* and neither the engine nor a bulk command one up to 100, whatever the   *)
(* modes, trust decisions and reused PIDs on the way there (the guards of  *)
(* PauseProcess and KillProcess, and IsTrusted for the paths without one). *)
ProtectedUntouched == [][ProtectedStep]_vars

(* A process that was trusted when its event was taken is never acted on,  *)
(* nor is one that was trusted when the bulk command took its snapshot.    *)
TrustedAreSpared ==
  /\ ppc \in ActingPlaces => ~ev.exempt
  /\ \A h \in Handlers : hpc[h] \in {"bulkStop", "bulkMark"} =>
       \A t \in req[h].spared : t.pid # req[h].pid

(* The mode is read twice without a lock: the enforce branch needs an      *)
(* enforce reading, or a torn one, or both other modes while the event was *)
(* handled; the pause branch needs a pause reading.                        *)
ModeDiscipline ==
  /\ ppc \in EnforcePlaces =>
       \/ "enforce" \in seen \/ "torn" \in seen
       \/ {"observe", "pause"} \subseteq seen
  /\ ppc \in PausePlaces => "pause" \in seen

(* Nothing is verified, killed or denied unless enforce mode was in force  *)
(* at some moment of handling this very event.                             *)
KillNeedsEnforce == ppc \in EnforcePlaces => "enforce" \in seen

(* A decision that says kill is true: the incarnation the event came from  *)
(* is dead when the decision is recorded.                                  *)
KilledIsDead ==
  ppc = "append" /\ ev.action \in {"kill", "verified_kill"} =>
    ~(Alive(proc[ev.pid]) /\ proc[ev.pid].gen = ev.gen)

(* So it is at least where the LSM is not used.                            *)
KillIsFinal == ~Lsm => KilledIsDead

(* A sidecar that gave no score never gets a process stopped or killed.    *)
UnscoredIsHarmless == ppc \in ActingPlaces => ev.scored

(* At rest, the list of paused processes, from which alone an operator can *)
(* find and resume one, names every process that is stopped and none that  *)
(* runs; it may name dead ones.                                            *)
PausedListed == Quiet => \A p \in Pids :
                  Alive(proc[p]) => (p \in paused <=> proc[p].st = "stopped")

(* At rest, every PID on that list is suspended.                           *)
ListedPaused == Quiet => \A p \in paused : proc[p].st = "stopped"

(* Whitelist protection: a process that only inherited the PID of the one  *)
(* the engine judged is not struck when its own name is whitelisted.       *)
WhitelistProtected ==
  [][\A p \in Pids : ByEngine /\ Struck(p) /\ proc[p].gen # ev.gen =>
       ~IsKnownProcess(proc[p].comm)]_vars

(* Whitelist protection: the LSM hook refuses no exec of a whitelisted     *)
(* process, whoever the entry in its map was meant for.                    *)
WhitelistedMayExec ==
  [][\A p \in Pids : p \in hook /\ p \notin hook' => ~IsKnownProcess(proc[p].comm)]_vars

(* Once trusted, a process is not acted on.                                *)
TrustedNotStruck ==
  [][\A p \in Pids : ByEngine /\ Struck(p) => ~Trusted(ev.comm, p)]_vars

(* A bulk command never pauses a process that is trusted.                  *)
BulkNeverPausesTrusted ==
  [][\A p \in Pids : ByBulk /\ Struck(p) => ~Trusted(proc[p].comm, p)]_vars

(* A bulk command pauses processes whose trust score is below N.           *)
BulkOnlyBelow ==
  [][\A h \in Handlers : hpc[h] = "idle" /\ hpc'[h] = "bulk" =>
       \A t \in req'[h].todo : log[t.pid].low]_vars

(* In pause mode a process judged suspicious does not go on running, as    *)
(* long as nobody changes the mode or resumes it.                          *)
SuspiciousFrozen ==
  \A p \in Pids, g \in 1 .. MaxGen :
    (ppc = "ifObserve" /\ Mode = "pause" /\ ev.pid = p /\ ev.gen = g /\ ev.tier # "low")
      ~> ~(proc[p].st = "running" /\ proc[p].gen = g)

=============================================================================
