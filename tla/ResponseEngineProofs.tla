------------------------ MODULE ResponseEngineProofs ------------------------
(***************************************************************************)
(* Type correctness of ResponseEngine, the sparing of trusted processes    *)
(* and the protection of low PIDs, for any number of PIDs, names, handlers *)
(* and commands. The facts every proof rests on come first: the types of   *)
(* all variables, and that whoever is in the middle of something -- the    *)
(* processor with its event, a handler with its request -- names a real    *)
(* PID.  Then what branches and decisions are worth: the mode is read      *)
(* twice and written in two halves without a lock, so the branches of      *)
(* Respond say less about it than one would think; without a pause mode    *)
(* among the modes ever selected they say enough; with a model in the      *)
(* sidecar every action rests on a score; and without the LSM a recorded   *)
(* kill is final.  Last, the list of paused processes: a signal and the    *)
(* entry it leads to are two steps, so the invariant counts who is still   *)
(* on the way between them.                                                *)
(***************************************************************************)
EXTENDS ResponseEngine, TLAPS

EventNamed == ppc # "idle" => ev.pid \in Pids /\ ev.comm \in Comms
PidPlaces == {"mark", "cont", "unmark", "reply", "bulkStop", "bulkMark"}
RequestNamed == \A h \in Handlers : hpc[h] \in PidPlaces => req[h].pid \in Pids

Named == TypeOK /\ EventNamed /\ RequestNamed

-----------------------------------------------------------------------------
(* Initially everything has its type and nothing is in progress.           *)
LEMMA NamedInit == Init => Named
<1> SUFFICES ASSUME Init PROVE Named
  OBVIOUS
<1>1. proc \in [Pids -> Process]
  <2>1. proc \in [Pids -> [st : {"running"}, gen : {1}, comm : Comms]]
    BY DEF Init
  <2>2. [st : {"running"}, gen : {1}, comm : Comms] \subseteq Process
    BY DEF Process, States
  <2> QED
    BY <2>1, <2>2
<1>2. mode \in StringHeader
  <2>1. PICK m \in ModeRequests : mode = [ptr |-> m, len |-> WordLen(m)]
    BY DEF Init
  <2> QED
    BY <2>1, ModesAssumption DEF StringHeader, WordLen
<1>3. log \in [Pids -> Verdict]
  BY DEF Init, Verdict
<1>4. ev \in Event
  BY DEF Init, Event, NoEvent, Tiers, Actions
<1>5. req \in [Handlers -> Request]
  BY DEF Init, Request, NoRequest, Modes
<1> QED
  BY <1>1, <1>2, <1>3, <1>4, <1>5
  DEF Init, Named, TypeOK, EventNamed, RequestNamed, ProcessorPlaces, HandlerPlaces, PidPlaces

(* Every action keeps the types and names a real PID for what it starts.   *)
LEMMA NamedNext == Named /\ [Next]_vars => Named'
<1> SUFFICES ASSUME Named, [Next]_vars PROVE Named'
  OBVIOUS
<1> USE DEF Named, TypeOK, EventNamed, RequestNamed
<1> USE DEF kernelVars, engineVars, processorVars, handlerVars
\* What the record types allow.
<1>p. \A p \in Pids : /\ Stopped(proc[p]) \in Process /\ Continued(proc[p]) \in Process
                     /\ Killed(proc[p]) \in Process /\ Reaped(proc[p]) \in Process
  BY DEF Process, States, Stopped, Continued, Killed, Reaped, Alive
<1>e. /\ NoEvent \in Event
      /\ \A a \in Actions : /\ [ev EXCEPT !.action = a] \in Event
                            /\ [ev EXCEPT !.action = a].pid = ev.pid
                            /\ [ev EXCEPT !.action = a].comm = ev.comm
  BY DEF Event, NoEvent, Tiers, Actions
<1>r. /\ NoRequest \in Request
      /\ \A h \in Handlers, p \in Pids : /\ [req[h] EXCEPT !.pid = p] \in Request
                                        /\ [req[h] EXCEPT !.pid = p].pid = p
  BY DEF Request, NoRequest, Modes
<1>m. Mode \in Modes \cup {"torn"}
  BY DEF Mode, Reading, StringHeader
<1>0. CASE UNCHANGED vars
  BY <1>0 DEF vars
<1>1. ASSUME NEW p \in Pids, TakeEvent(p) PROVE Named'
  <2>1. ev' \in Event /\ ev'.pid = p /\ ev'.comm \in Comms
    BY <1>1 DEF TakeEvent, Event, NoEvent, Trusted, Process, Actions, Tiers
  <2> QED
    BY <1>1, <1>m, <2>1 DEF TakeEvent, ProcessorPlaces
<1>2. CASE Gate
  BY <1>2, <1>e DEF Gate, EndEvent, ProcessorPlaces, Actions
<1>3. CASE Score
  <2>1. PICK reply \in SidecarReplies, t \in Tiers :
          ev' = [ev EXCEPT !.tier = t, !.scored = (reply = "scored")]
    BY <1>3, RepliesAssumption DEF Score, TierOf, Tiers
  <2>2. ev' \in Event /\ ev'.pid = ev.pid /\ ev'.comm = ev.comm
    BY <2>1 DEF Event
  <2> QED
    BY <1>3, <2>2 DEF Score, ProcessorPlaces
<1>4. CASE Classify
  BY <1>4, <1>e DEF Classify, Decide, ProcessorPlaces, Actions
<1>5. CASE IfObserve
  BY <1>5, <1>e DEF IfObserve, Decide, ProcessorPlaces, Actions
<1>6. CASE IfPause
  <2>1. /\ ev' = ev \/ \E a \in Actions : ev' = [ev EXCEPT !.action = a]
        /\ ppc' \in ProcessorPlaces
    <3>1. CASE Mode = "pause"
      BY <1>6, <3>1 DEF IfPause, Decide, ProcessorPlaces, Actions
    <3>2. CASE Mode # "pause"
      <4>1. ev.tier \in Tiers
        BY DEF Event
      <4> QED
        BY <1>6, <3>2, <4>1 DEF IfPause, Enforce, Decide, Tiers, ProcessorPlaces, Actions
    <3> QED
      BY <3>1, <3>2
  <2> QED
    BY <1>6, <1>e, <2>1 DEF IfPause
<1>7. CASE IfPaused
  BY <1>7, <1>e DEF IfPaused, Decide, ProcessorPlaces, Actions
<1>8. CASE Stop
  <2>1. proc' \in [Pids -> Process]
    BY <1>8, <1>p DEF Stop
  <2> QED
    BY <1>8, <1>e, <2>1 DEF Stop, Decide, ProcessorPlaces, Actions
<1>9. CASE Mark
  BY <1>9, <1>e DEF Mark, Decide, ProcessorPlaces, Actions
<1>10. CASE Verify
  <2>1. proc' \in [Pids -> Process]
    BY <1>10, <1>p DEF Verify
  <2> QED
    BY <1>10, <1>e, <2>1 DEF Verify, Decide, ProcessorPlaces, Actions
<1>11. CASE Replay
  BY <1>11, <1>e DEF Replay, Decide, ProcessorPlaces, Actions
<1>12. CASE Deny
  <2>1. proc' \in [Pids -> Process]
    BY <1>12, <1>p DEF Deny
  <2>2. ev' = ev \/ \E a \in Actions : ev' = [ev EXCEPT !.action = a]
    <3>1. ev.action \in Actions
      BY DEF Event
    <3> QED
      BY <1>12, <3>1 DEF Deny, Decide, Actions
  <2>3. denyMap' \subseteq Pids /\ ppc' = "append"
    BY <1>12 DEF Deny, Decide
  <2> QED
    BY <1>12, <1>e, <2>1, <2>2, <2>3 DEF Deny, ProcessorPlaces
<1>13. CASE Append
  <2>1. PICK b \in BOOLEAN :
          log' = [log EXCEPT ![ev.pid] = [suspect |-> IF b THEN ev.comm ELSE @.suspect, low |-> b]]
    BY <1>13 DEF Append
  <2>2. log[ev.pid].suspect \in Comms \cup {NoComm}
    BY <1>13 DEF Append, Verdict
  <2>3. [suspect |-> IF b THEN ev.comm ELSE log[ev.pid].suspect, low |-> b] \in Verdict
    BY <1>13, <2>2 DEF Append, Verdict
  <2>4. log' \in [Pids -> Verdict]
    BY <2>1, <2>3
  <2> QED
    BY <1>13, <1>e, <2>4 DEF Append, EndEvent, ProcessorPlaces
<1>14. ASSUME NEW h \in Handlers, NEW p \in Pids, Pause(h, p) PROVE Named'
  <2>1. proc' \in [Pids -> Process]
    BY <1>14, <1>p DEF Pause, PidPlaces
  <2>2. req' \in [Handlers -> Request] /\ hpc' \in [Handlers -> HandlerPlaces]
    BY <1>14, <1>r DEF Pause, For, Goto, HandlerPlaces
  <2>3. RequestNamed'
    BY <1>14, <1>r DEF Pause, For, Goto, HandlerPlaces, PidPlaces
  <2> QED
    BY <1>14, <2>1, <2>2, <2>3 DEF Pause, PidPlaces
<1>15. ASSUME NEW h \in Handlers, NEW p \in Pids, Resume(h, p) PROVE Named'
  <2>1. proc' \in [Pids -> Process]
    BY <1>15, <1>p DEF Resume, PidPlaces
  <2>2. req' \in [Handlers -> Request] /\ hpc' \in [Handlers -> HandlerPlaces]
    BY <1>15, <1>r DEF Resume, For, Goto, HandlerPlaces
  <2>3. RequestNamed'
    BY <1>15, <1>r DEF Resume, For, Goto, HandlerPlaces, PidPlaces
  <2> QED
    BY <1>15, <2>1, <2>2, <2>3 DEF Resume, PidPlaces
<1>16. ASSUME NEW h \in Handlers, NEW p \in Pids, Kill(h, p) PROVE Named'
  <2>1. proc' \in [Pids -> Process]
    BY <1>16, <1>p DEF Kill
  <2>2. PICK place \in {"cont", "reply"} : For(h, p, place)
    BY <1>16 DEF Kill
  <2>3. req' \in [Handlers -> Request] /\ hpc' \in [Handlers -> HandlerPlaces]
    BY <1>r, <2>2 DEF For, Goto, HandlerPlaces
  <2>4. RequestNamed'
    BY <1>r, <2>2 DEF For, Goto, HandlerPlaces, PidPlaces
  <2> QED
    BY <1>16, <2>1, <2>3, <2>4 DEF Kill
<1>17. ASSUME NEW h \in Handlers, HandlerMark(h) PROVE Named'
  <2>2. req' \in [Handlers -> Request] /\ hpc' \in [Handlers -> HandlerPlaces]
    BY <1>17, <1>r DEF HandlerMark, Finish, Goto, HandlerPlaces
  <2>3. RequestNamed'
    BY <1>17, <1>r DEF HandlerMark, Finish, Goto, HandlerPlaces, PidPlaces
  <2> QED
    BY <1>17, <2>2, <2>3 DEF HandlerMark, PidPlaces
<1>18. ASSUME NEW h \in Handlers, CleanUp(h) PROVE Named'
  <2>1. proc' \in [Pids -> Process]
    BY <1>18, <1>p DEF CleanUp, PidPlaces
  <2>2. req' \in [Handlers -> Request] /\ hpc' \in [Handlers -> HandlerPlaces]
    BY <1>18, <1>r DEF CleanUp, Finish, Goto, PidPlaces, HandlerPlaces
  <2>3. RequestNamed'
    BY <1>18, <1>r DEF CleanUp, Finish, Goto, PidPlaces, HandlerPlaces, PidPlaces
  <2> QED
    BY <1>18, <2>1, <2>2, <2>3 DEF CleanUp, PidPlaces
<1>19. ASSUME NEW h \in Handlers, Unmark(h) PROVE Named'
  <2>2. req' \in [Handlers -> Request] /\ hpc' \in [Handlers -> HandlerPlaces]
    BY <1>19, <1>r DEF Unmark, Finish, Goto, HandlerPlaces
  <2>3. RequestNamed'
    BY <1>19, <1>r DEF Unmark, Finish, Goto, HandlerPlaces, PidPlaces
  <2> QED
    BY <1>19, <2>2, <2>3 DEF Unmark, PidPlaces
<1>20. ASSUME NEW h \in Handlers, Reply(h) PROVE Named'
  <2>2. req' \in [Handlers -> Request] /\ hpc' \in [Handlers -> HandlerPlaces]
    BY <1>20, <1>r DEF Reply, Finish, Goto, HandlerPlaces
  <2>3. RequestNamed'
    BY <1>20, <1>r DEF Reply, Finish, Goto, HandlerPlaces, PidPlaces
  <2> QED
    BY <1>20, <2>2, <2>3 DEF Reply, PidPlaces
<1>21. ASSUME NEW h \in Handlers, NEW names \in SUBSET Comms, NEW pids \in SUBSET Pids,
            Trust(h, names, pids)
      PROVE Named'
  BY <1>21 DEF Trust
<1>22. ASSUME NEW h \in Handlers, NEW m \in Modes, NEW half \in {"ptr", "len"},
            SetMode(h, m, half)
      PROVE Named'
  <2>w. mode' \in StringHeader /\ seen' \subseteq Modes \cup {"torn"}
    <3>1. mode' \in StringHeader
      BY <1>22 DEF SetMode, WriteMode, WordLen, StringHeader, Request
    <3> QED
      BY <1>22, <3>1 DEF SetMode, WriteMode, Reading, StringHeader
  <2>1. \A half2 \in {"ptr", "len"} :
          [req[h] EXCEPT !.mode = m, !.half = half2] \in Request
    BY DEF Request
  <2>2. req' \in [Handlers -> Request] /\ hpc' \in [Handlers -> HandlerPlaces]
    BY <1>22, <2>1 DEF SetMode, Goto, HandlerPlaces
  <2>3. RequestNamed'
    BY <1>22, <2>1 DEF SetMode, Goto, HandlerPlaces, PidPlaces
  <2> QED
    BY <1>22, <2>w, <2>2, <2>3 DEF SetMode
<1>23. ASSUME NEW h \in Handlers, SetModeRest(h) PROVE Named'
  <2>w. mode' \in StringHeader /\ seen' \subseteq Modes \cup {"torn"}
    <3>1. mode' \in StringHeader
      BY <1>23 DEF SetModeRest, WriteMode, WordLen, StringHeader, Request
    <3> QED
      BY <1>23, <3>1 DEF SetModeRest, WriteMode, Reading, StringHeader
  <2>2. req' \in [Handlers -> Request] /\ hpc' \in [Handlers -> HandlerPlaces]
    BY <1>23, <1>r DEF SetModeRest, Finish, Goto, HandlerPlaces
  <2>3. RequestNamed'
    BY <1>23, <1>r DEF SetModeRest, Finish, Goto, HandlerPlaces, PidPlaces
  <2> QED
    BY <1>23, <2>2, <2>3, <2>w DEF SetModeRest, PidPlaces
<1>24. ASSUME NEW h \in Handlers, Bulk(h) PROVE Named'
  <2>1. \A T, S \in SUBSET Target : [req[h] EXCEPT !.todo = T, !.spared = S] \in Request
    BY DEF Request
  <2>2. req' \in [Handlers -> Request] /\ hpc' \in [Handlers -> HandlerPlaces]
    BY <1>24, <2>1 DEF Bulk, Goto, Suspects, HandlerPlaces
  <2>3. RequestNamed'
    BY <1>24, <2>1 DEF Bulk, Goto, Suspects, HandlerPlaces, PidPlaces
  <2> QED
    BY <1>24, <2>2, <2>3 DEF Bulk
<1>25. ASSUME NEW h \in Handlers, NEW t \in Target, BulkCheck(h, t) PROVE Named'
  <2>1. /\ t.pid \in Pids
        /\ [req[h] EXCEPT !.todo = @ \ {t}, !.pid = t.pid] \in Request
        /\ [req[h] EXCEPT !.todo = @ \ {t}, !.pid = t.pid].pid = t.pid
    BY DEF Request, Target
  <2>2. req' \in [Handlers -> Request] /\ hpc' \in [Handlers -> HandlerPlaces]
    BY <1>25, <2>1 DEF BulkCheck, Goto, HandlerPlaces
  <2>3. RequestNamed'
    BY <1>25, <2>1 DEF BulkCheck, Goto, HandlerPlaces, PidPlaces
  <2> QED
    BY <1>25, <2>2, <2>3 DEF BulkCheck
<1>26. ASSUME NEW h \in Handlers, BulkStop(h) PROVE Named'
  <2>1. proc' \in [Pids -> Process]
    BY <1>26, <1>p DEF BulkStop, PidPlaces
  <2>2. req' \in [Handlers -> Request] /\ hpc' \in [Handlers -> HandlerPlaces]
    BY <1>26, <1>r DEF BulkStop, Goto, HandlerPlaces
  <2>3. RequestNamed'
    BY <1>26, <1>r DEF BulkStop, Goto, HandlerPlaces, PidPlaces
  <2> QED
    BY <1>26, <2>1, <2>2, <2>3 DEF BulkStop, PidPlaces
<1>27. ASSUME NEW h \in Handlers, BulkMark(h) PROVE Named'
  <2>2. req' \in [Handlers -> Request] /\ hpc' \in [Handlers -> HandlerPlaces]
    BY <1>27, <1>r DEF BulkMark, Goto, HandlerPlaces
  <2>3. RequestNamed'
    BY <1>27, <1>r DEF BulkMark, Goto, HandlerPlaces, PidPlaces
  <2> QED
    BY <1>27, <2>2, <2>3 DEF BulkMark, PidPlaces
<1>28. ASSUME NEW h \in Handlers, BulkDone(h) PROVE Named'
  <2>2. req' \in [Handlers -> Request] /\ hpc' \in [Handlers -> HandlerPlaces]
    BY <1>28, <1>r DEF BulkDone, Finish, Goto, HandlerPlaces
  <2>3. RequestNamed'
    BY <1>28, <1>r DEF BulkDone, Finish, Goto, HandlerPlaces, PidPlaces
  <2> QED
    BY <1>28, <2>2, <2>3 DEF BulkDone, PidPlaces
<1>29. ASSUME NEW p \in Pids, NEW name \in Comms, Exec(p, name) PROVE Named'
  <2>1. [proc[p] EXCEPT !.comm = name] \in Process
    BY DEF Process, States
  <2> QED
    BY <1>29, <2>1 DEF Exec
<1>30. ASSUME NEW p \in Pids, NEW name \in Comms, Spawn(p, name) PROVE Named'
  <2>1. Spawned(proc[p], name) \in Process
    BY DEF Process, States, Spawned
  <2> QED
    BY <1>30, <2>1 DEF Spawn
<1>31. ASSUME NEW p \in Pids, ExecDenied(p) PROVE Named'
  BY <1>31 DEF ExecDenied
<1>32. ASSUME NEW p \in Pids, Exit(p) PROVE Named'
  <2>1. proc' \in [Pids -> Process]
    BY <1>32, <1>p DEF Exit
  <2> QED
    BY <1>32, <2>1 DEF Exit
<1>33. ASSUME NEW p \in Pids, Reap(p) PROVE Named'
  <2>1. proc' \in [Pids -> Process]
    BY <1>33, <1>p DEF Reap
  <2> QED
    BY <1>33, <2>1 DEF Reap
<1> HIDE DEF Named
<1>34. CASE ProcessorStep
  BY <1>34, <1>2, <1>3, <1>4, <1>5, <1>6, <1>7, <1>8, <1>9, <1>10, <1>11, <1>12, <1>13 DEF ProcessorStep
<1>35. ASSUME NEW h \in Handlers, Command(h) PROVE Named'
  BY <1>35, <1>14, <1>15, <1>16, <1>21, <1>22, <1>24, ModesAssumption DEF Command
<1>36. ASSUME NEW h \in Handlers, HandlerStep(h) PROVE Named'
  BY <1>36, <1>17, <1>18, <1>19, <1>20, <1>23, <1>25, <1>26, <1>27, <1>28 DEF HandlerStep
<1>37. ASSUME NEW p \in Pids, Environment(p) PROVE Named'
  BY <1>37, <1>31, <1>32, <1>33, <1>29, <1>30 DEF Environment
<1> QED
  BY <1>0, <1>1, <1>34, <1>35, <1>36, <1>37 DEF Next

-----------------------------------------------------------------------------
(* Every step belongs to the processor, or leaves its place and event.     *)
LEMMA ProcessorMoves ==
  ASSUME [Next]_vars
  PROVE  \/ \E p \in Pids : TakeEvent(p)
         \/ ProcessorStep
         \/ UNCHANGED <<ppc, ev>> /\ (ppc = "idle" \/ seen \subseteq seen')
<1> USE DEF vars, kernelVars, engineVars, processorVars, handlerVars
<1>1. ASSUME NEW h \in Handlers, Command(h)
      PROVE UNCHANGED <<ppc, ev>> /\ (ppc = "idle" \/ seen \subseteq seen')
  BY <1>1 DEF Command, Pause, Resume, Kill, Trust, SetMode, WriteMode, Bulk
<1>2. ASSUME NEW h \in Handlers, HandlerStep(h)
      PROVE UNCHANGED <<ppc, ev>> /\ (ppc = "idle" \/ seen \subseteq seen')
  BY <1>2 DEF HandlerStep, HandlerMark, CleanUp, Unmark, Reply, SetModeRest, WriteMode,
              BulkCheck, BulkStop, BulkMark, BulkDone
<1>3. ASSUME NEW p \in Pids, Environment(p) PROVE UNCHANGED <<ppc, ev, seen>>
  BY <1>3 DEF Environment, ExecDenied, Exit, Reap, Exec, Spawn
<1> QED
  BY <1>1, <1>2, <1>3 DEF Next

(* Every step belongs to one handler, or leaves all of them alone.         *)
LEMMA HandlersMove ==
  ASSUME [Next]_vars
  PROVE  \/ \E h \in Handlers : Command(h) \/ HandlerStep(h)
         \/ UNCHANGED <<hpc, req>>
<1> USE DEF vars, kernelVars, engineVars, processorVars, handlerVars
<1>1. ASSUME ProcessorStep PROVE UNCHANGED <<hpc, req>>
  BY <1>1 DEF ProcessorStep, Gate, Score, Classify, IfObserve, IfPause, IfPaused, Stop,
              Mark, Verify, Replay, Deny, Append
<1>2. ASSUME NEW p \in Pids, TakeEvent(p) PROVE UNCHANGED <<hpc, req>>
  BY <1>2 DEF TakeEvent
<1>3. ASSUME NEW p \in Pids, Environment(p) PROVE UNCHANGED <<hpc, req>>
  BY <1>3 DEF Environment, ExecDenied, Exit, Reap, Exec, Spawn
<1> QED
  BY <1>1, <1>2, <1>3 DEF Next

(* Trust is never withdrawn.                                               *)
LEMMA TrustGrows ==
  ASSUME [Next]_vars, NEW comm, NEW pid, Trusted(comm, pid)
  PROVE  Trusted(comm, pid)'
<1> USE DEF vars, kernelVars, engineVars, processorVars, handlerVars
<1>1. trustedComms \subseteq trustedComms' /\ trustedPids \subseteq trustedPids'
  <2>1. ASSUME NEW h \in Handlers, Command(h)
        PROVE trustedComms \subseteq trustedComms' /\ trustedPids \subseteq trustedPids'
    BY <2>1 DEF Command, Pause, Resume, Kill, Trust, SetMode, Bulk
  <2>2. ASSUME NEW h \in Handlers, HandlerStep(h) PROVE UNCHANGED <<trustedComms, trustedPids>>
    BY <2>2 DEF HandlerStep, HandlerMark, CleanUp, Unmark, Reply, SetModeRest,
                BulkCheck, BulkStop, BulkMark, BulkDone
  <2>3. ASSUME NEW p \in Pids, Environment(p) PROVE UNCHANGED <<trustedComms, trustedPids>>
    BY <2>3 DEF Environment, ExecDenied, Exit, Reap, Exec, Spawn
  <2>4. ASSUME ProcessorStep PROVE UNCHANGED <<trustedComms, trustedPids>>
    BY <2>4 DEF ProcessorStep, Gate, Score, Classify, IfObserve, IfPause, IfPaused, Stop,
                Mark, Verify, Replay, Deny, Append
  <2>5. ASSUME NEW p \in Pids, TakeEvent(p) PROVE UNCHANGED <<trustedComms, trustedPids>>
    BY <2>5 DEF TakeEvent
  <2> QED
    BY <2>1, <2>2, <2>3, <2>4, <2>5 DEF Next
<1> QED
  BY <1>1 DEF Trusted

-----------------------------------------------------------------------------
(* The processor acts only on an event it has judged: not protected by its *)
(* PID and not trusted when it was taken.                                  *)
JudgedPlaces == {"ifObserve", "ifPause"} \cup ActingPlaces
Judged == ppc \in JudgedPlaces => ev.pid > 100
Gated == ppc \notin {"idle", "gate"} => ~ev.exempt
ExemptTrusted == ppc # "idle" /\ ev.exempt => Trusted(ev.comm, ev.pid)
ProcessorSafe == Judged /\ Gated /\ ExemptTrusted

(* Initially the processor has no event.                                   *)
LEMMA ProcessorSafeInit == Init => ProcessorSafe
BY DEF Init, ProcessorSafe, Judged, Gated, ExemptTrusted, JudgedPlaces, ActingPlaces,
       EnforcePlaces, PausePlaces

(* The processor acts only on events that were not trusted, on PIDs over   *)
(* 100.                                                                    *)
LEMMA ProcessorSafeNext ==
  ASSUME Named, ProcessorSafe, [Next]_vars
  PROVE  ProcessorSafe'
<1> USE DEF ProcessorSafe, Judged, Gated, ExemptTrusted, JudgedPlaces, ActingPlaces,
            EnforcePlaces, PausePlaces
<1>0. ppc # "idle" => ev.pid \in Nat /\ ev \in Event
  BY PidsAssumption DEF Named, TypeOK, EventNamed
<1>1. CASE UNCHANGED <<ppc, ev>>
  BY <1>1, TrustGrows
<1>2. ASSUME NEW p \in Pids, TakeEvent(p) PROVE ProcessorSafe'
  <2>1. ppc' = "gate" /\ ev'.pid = p /\ ev'.comm = proc[p].comm
        /\ (ev'.exempt <=> Trusted(proc[p].comm, p))
    BY <1>2 DEF TakeEvent, NoEvent, Trusted
  <2>2. UNCHANGED <<trustedComms, trustedPids>>
    BY <1>2 DEF TakeEvent, engineVars
  <2> QED
    BY <2>1, <2>2 DEF Trusted
<1>3. CASE Gate
  BY <1>3 DEF Gate, EndEvent
<1>4. CASE Classify
  <2>1. CASE Trusted(ev.comm, ev.pid)
    BY <1>4, <2>1 DEF Classify, Decide, Event, Named, TypeOK
  <2>2. CASE ~Trusted(ev.comm, ev.pid)
    BY <1>0, <1>4, <2>2 DEF Classify, Trusted
  <2> QED
    BY <2>1, <2>2
<1>5. CASE Score
  <2>1. ppc = "score" /\ ppc' = "classify" /\ ~ev.exempt
    BY <1>5 DEF Score
  <2>2. ev'.exempt = ev.exempt
    BY <1>5 DEF Score, Event, Named, TypeOK
  <2> QED
    BY <2>1, <2>2
<1>6. ASSUME ppc \in JudgedPlaces,
             ev' = ev \/ \E a \in Actions : ev' = [ev EXCEPT !.action = a],
             ppc' \in JudgedPlaces \cup {"append"}
      PROVE  ProcessorSafe'
  BY <1>0, <1>6 DEF Event
<1>7. ASSUME IfObserve \/ IfPause \/ IfPaused \/ Stop \/ Mark \/ Verify \/ Replay \/ Deny
      PROVE  ProcessorSafe'
  <2>1. ppc \in JudgedPlaces /\ ppc' \in JudgedPlaces \cup {"append"}
    <3>1. CASE IfPause
      <4>1. ev.tier \in Tiers
        BY <1>0, <3>1 DEF IfPause, Event
      <4> QED
        BY <3>1, <4>1 DEF IfPause, Enforce, Decide, Tiers
    <3> QED
      BY <1>7, <3>1 DEF IfObserve, IfPaused, Stop, Mark, Verify, Replay, Deny, Decide
  <2>2. ev' = ev \/ \E a \in Actions : ev' = [ev EXCEPT !.action = a]
    <3>1. ppc # "idle" /\ ev.action \in Actions /\ ev.tier \in Tiers
      BY <1>0, <2>1 DEF Event
    <3>2. CASE IfPause
      BY <3>1, <3>2 DEF IfPause, Enforce, Decide, Actions, Tiers
    <3>3. CASE Deny
      BY <3>1, <3>3 DEF Deny, Decide, Actions
    <3> QED
      BY <1>7, <3>2, <3>3 DEF IfObserve, IfPaused, Stop, Mark, Verify, Replay, Decide, Actions
  <2> QED
    BY <1>6, <2>1, <2>2
<1>8. CASE Append
  BY <1>8 DEF Append, EndEvent
<1> QED
  BY <1>1, <1>2, <1>3, <1>4, <1>5, <1>7, <1>8, ProcessorMoves DEF ProcessorStep

(* A bulk command reaches its signal only for a target that was checked.   *)
BulkSafe ==
  \A h \in Handlers :
    /\ \A t \in req[h].spared : Trusted(t.comm, t.pid)
    /\ \A t, u \in req[h].todo \cup req[h].spared : t.pid = u.pid => t = u
    /\ hpc[h] = "bulkStop" => req[h].pid > 100
    /\ hpc[h] \in {"bulkStop", "bulkMark"} => \A t \in req[h].spared : t.pid # req[h].pid

(* Initially no bulk command is under way.                                 *)
LEMMA BulkSafeInit == Init => BulkSafe
BY DEF Init, BulkSafe, NoRequest

(* A bulk command goes on to stop only targets it was not to spare.        *)
LEMMA BulkSafeNext ==
  ASSUME Named, BulkSafe, [Next]_vars
  PROVE  BulkSafe'
<1> USE DEF BulkSafe
<1>0. req \in [Handlers -> Request] /\ hpc \in [Handlers -> HandlerPlaces]
  BY DEF Named, TypeOK
<1>1. CASE UNCHANGED <<hpc, req>>
  BY <1>1, TrustGrows
<1> DEFINE Others(h) == \A g \in Handlers \ {h} : req'[g] = req[g] /\ hpc'[g] = hpc[g]
           Kept(h) == req'[h].spared = req[h].spared /\ req'[h].todo = req[h].todo
           Reset(h) == req'[h].spared = {} /\ req'[h].todo = {}
           Same(h) == req'[h] = req[h] /\ hpc[h] = "bulkStop"
<1>2. ASSUME NEW h \in Handlers, Others(h), Kept(h) \/ Reset(h), hpc'[h] # "bulkStop",
             hpc'[h] = "bulkMark" => Same(h)
      PROVE  BulkSafe'
  BY <1>0, <1>2, TrustGrows
<1>3. ASSUME NEW h \in Handlers, NEW p \in Pids, Pause(h, p) \/ Resume(h, p) \/ Kill(h, p)
      PROVE  BulkSafe'
  <2>1. PICK place \in {"mark", "unmark", "cont", "reply"} : For(h, p, place)
    BY <1>3 DEF Pause, Resume, Kill
  <2>2. Others(h) /\ Kept(h) /\ hpc'[h] \notin {"bulkStop", "bulkMark"}
    BY <1>0, <2>1 DEF For, Goto, Request
  <2> QED
    BY <1>2, <2>2
<1>4. ASSUME NEW h \in Handlers, NEW names, NEW pids, Trust(h, names, pids)
      PROVE  BulkSafe'
  BY <1>1, <1>4 DEF Trust, handlerVars
<1>5. ASSUME NEW h \in Handlers, NEW m, NEW half, SetMode(h, m, half)
      PROVE  BulkSafe'
  <2>1. Others(h) /\ Kept(h) /\ hpc'[h] \notin {"bulkStop", "bulkMark"}
    BY <1>0, <1>5 DEF SetMode, Goto, Request
  <2> QED
    BY <1>2, <2>1
<1>6. ASSUME NEW h \in Handlers,
             HandlerMark(h) \/ CleanUp(h) \/ Unmark(h) \/ Reply(h) \/ SetModeRest(h) \/ BulkDone(h)
      PROVE  BulkSafe'
  <2>1. CASE Finish(h)
    <3>1. Others(h) /\ Reset(h) /\ hpc'[h] \notin {"bulkStop", "bulkMark"}
      BY <1>0, <2>1 DEF Finish, Goto, NoRequest
    <3> QED
      BY <1>2, <3>1
  <2>2. CASE Goto(h, "unmark") /\ UNCHANGED req
    <3>1. Others(h) /\ Kept(h) /\ hpc'[h] \notin {"bulkStop", "bulkMark"}
      BY <1>0, <2>2 DEF Goto
    <3> QED
      BY <1>2, <3>1
  <2> QED
    BY <1>6, <2>1, <2>2 DEF HandlerMark, CleanUp, Unmark, Reply, SetModeRest, BulkDone
<1>7. ASSUME NEW h \in Handlers, BulkStop(h) \/ BulkMark(h)
      PROVE  BulkSafe'
  <2>1. Others(h) /\ Kept(h) /\ hpc'[h] # "bulkStop" /\ (hpc'[h] = "bulkMark" => Same(h))
    BY <1>0, <1>7 DEF BulkStop, BulkMark, Goto
  <2> QED
    BY <1>2, <2>1
<1>8. ASSUME NEW h \in Handlers, Bulk(h)
      PROVE  BulkSafe'
  <2>1. /\ req'[h].todo = Suspects
        /\ req'[h].spared = {t \in Suspects : Trusted(t.comm, t.pid)}
        /\ hpc'[h] = "bulk"
        /\ Others(h)
    BY <1>0, <1>8 DEF Bulk, Goto, Request
  <2>2. UNCHANGED <<trustedComms, trustedPids>>
    BY <1>8 DEF Bulk, engineVars
  <2>3. \A t, u \in Suspects : t.pid = u.pid => t = u
    BY DEF Suspects, Target
  <2> QED
    BY <2>1, <2>2, <2>3 DEF Trusted
<1>9. ASSUME NEW h \in Handlers, NEW t \in Target, BulkCheck(h, t)
      PROVE  BulkSafe'
  <2>1. /\ t \in req[h].todo
        /\ req'[h].todo = req[h].todo \ {t}
        /\ req'[h].spared = req[h].spared
        /\ req'[h].pid = t.pid
        /\ hpc'[h] = (IF Trusted(t.comm, t.pid) THEN "bulk" ELSE "bulkStop")
        /\ Others(h)
    BY <1>0, <1>9 DEF BulkCheck, Goto, Request
  <2>2. UNCHANGED <<trustedComms, trustedPids>>
    BY <1>9 DEF BulkCheck, engineVars
  <2>3. ~Trusted(t.comm, t.pid) => t.pid > 100
    <3>1. t.pid \in Nat
      BY PidsAssumption DEF Target
    <3> QED
      BY <3>1 DEF Trusted
  <2>4. ASSUME ~Trusted(t.comm, t.pid), NEW u \in req[h].spared PROVE u.pid # t.pid
    <3>1. Trusted(u.comm, u.pid)
      OBVIOUS
    <3>2. u.pid = t.pid => u = t
      BY <2>1
    <3> QED
      BY <2>4, <3>1, <3>2
  <2> QED
    BY <2>1, <2>2, <2>3, <2>4 DEF Trusted
<1> QED
  BY <1>1, <1>3, <1>4, <1>5, <1>6, <1>7, <1>8, <1>9, HandlersMove DEF Command, HandlerStep

-----------------------------------------------------------------------------
Guarded == Named /\ ProcessorSafe /\ BulkSafe

(* The strengthened invariant holds in every reachable state.              *)
THEOREM GuardedInvariant == Spec => []Guarded
<1>1. Init => Guarded
  BY NamedInit, ProcessorSafeInit, BulkSafeInit DEF Guarded
<1>2. Guarded /\ [Next]_vars => Guarded'
  BY NamedNext, ProcessorSafeNext, BulkSafeNext DEF Guarded
<1> QED
  BY <1>1, <1>2, PTL DEF Spec

(* TypeOK holds in every reachable state. *)
THEOREM TypeCorrect == Spec => []TypeOK
<1>1. Guarded => TypeOK
  BY DEF Guarded, Named
<1> QED
  BY <1>1, GuardedInvariant, PTL

(* Whoever was trusted when its event or the bulk snapshot was taken is    *)
(* spared.                                                                 *)
THEOREM TrustSafety == Spec => []TrustedAreSpared
<1>1. Guarded => TrustedAreSpared
  BY DEF Guarded, ProcessorSafe, Gated, BulkSafe, TrustedAreSpared, ActingPlaces,
         EnforcePlaces, PausePlaces
<1> QED
  BY <1>1, GuardedInvariant, PTL

(* Who can strike a PID, and which.                                        *)
LEMMA EngineStrikes ==
  ASSUME Guarded, [Next]_vars, NEW p \in Pids, Struck(p), ByEngine
  PROVE  p = ev.pid /\ ppc \in ActingPlaces
<1> USE DEF kernelVars, Struck, ByEngine
<1>1. CASE \E q \in Pids : TakeEvent(q)
  BY <1>1 DEF TakeEvent
<1>2. CASE Stop \/ Verify \/ Deny
  <2>1. proc \in [Pids -> Process]
    BY DEF Guarded, Named, TypeOK
  <2> QED
    BY <1>2, <2>1 DEF Stop, Verify, Deny, ActingPlaces, EnforcePlaces, PausePlaces
<1>3. CASE Gate \/ Score \/ Classify \/ IfObserve \/ IfPause \/ IfPaused \/ Mark \/ Replay \/ Append
  BY <1>3 DEF Gate, Score, Classify, IfObserve, IfPause, IfPaused, Mark, Replay, Append
<1> QED
  BY <1>1, <1>2, <1>3, ProcessorMoves DEF ProcessorStep

(* An operator's command strikes no PID up to 10, a bulk command none up   *)
(* to 100.                                                                 *)
LEMMA OperatorStrikes ==
  ASSUME Guarded, [Next]_vars, NEW p \in Pids, Struck(p), ByOperator \/ ByBulk
  PROVE  p > 10 /\ (ByBulk => p > 100)
<1> USE DEF kernelVars, Struck
<1>0. hpc \in [Handlers -> HandlerPlaces] /\ proc \in [Pids -> Process] /\ Pids \subseteq Nat
  BY PidsAssumption DEF Guarded, Named, TypeOK
<1>1. PICK h \in Handlers : Command(h) \/ HandlerStep(h)
  BY HandlersMove DEF ByOperator, ByBulk
<1>2. CASE \E q \in Pids : Pause(h, q) \/ Kill(h, q)
  BY <1>0, <1>2 DEF Pause, Kill, PauseRefused, KillRefused, For, Goto, IdleFor, ByBulk
<1>3. CASE \E q \in Pids : Resume(h, q)
  BY <1>0, <1>3 DEF Resume, Continued, Alive
<1>4. CASE BulkStop(h)
  <2>1. req[h].pid > 100 /\ p = req[h].pid
    BY <1>0, <1>4 DEF BulkStop, Guarded, BulkSafe
  <2> QED
    BY <2>1, PidsAssumption
<1>5. CASE CleanUp(h)
  <2>1. proc'[p] = proc[p] \/ proc'[p] = Continued(proc[p])
    BY <1>0, <1>5 DEF CleanUp
  <2> QED
    BY <1>0, <1>5, <2>1 DEF CleanUp, Continued, Alive, Process
<1>6. CASE \/ HandlerMark(h) \/ Unmark(h) \/ Reply(h) \/ SetModeRest(h) \/ BulkMark(h) \/ BulkDone(h)
           \/ Bulk(h) \/ \E t \in Target : BulkCheck(h, t)
  BY <1>6 DEF HandlerMark, Unmark, Reply, SetModeRest, BulkMark, BulkDone, Bulk, BulkCheck
<1>7. CASE \E m \in ModeRequests, half \in {"ptr", "len"} : SetMode(h, m, half)
  BY <1>7 DEF SetMode
<1>8. CASE \E names \in {{}} \cup {{c} : c \in Comms \ KnownComms}, pids \in {{}} \cup {{q} : q \in Pids} :
              Trust(h, names, pids)
  BY <1>8 DEF Trust
<1> QED
  BY <1>1, <1>2, <1>3, <1>4, <1>5, <1>6, <1>7, <1>8 DEF Command, HandlerStep

(* No step of the engine or of an operator strikes a protected PID.        *)
THEOREM ProtectionSafety == Spec => ProtectedUntouched
<1>1. Guarded /\ [Next]_vars => [ProtectedStep]_vars
  <2> SUFFICES ASSUME Guarded, [Next]_vars, NEW p \in Pids, Struck(p)
               PROVE  /\ ByEngine \/ ByOperator => p > 10
                      /\ ByEngine \/ ByBulk => p > 100
    BY DEF ProtectedStep
  <2>1. ASSUME ByEngine PROVE p > 100
    BY <2>1, EngineStrikes DEF Guarded, ProcessorSafe, Judged, JudgedPlaces
  <2> QED
    BY <2>1, OperatorStrikes, PidsAssumption
<1> QED
  BY <1>1, GuardedInvariant, PTL DEF Spec, ProtectedUntouched

-----------------------------------------------------------------------------
(* Branches and decisions.                                                 *)

(* The processor only reads the mode.                                      *)
LEMMA ProcessorKeepsMode ==
  ASSUME ProcessorStep
  PROVE  mode' = mode /\ (ppc' = "idle" \/ seen' = seen)
BY DEF ProcessorStep, Gate, Score, Classify, IfObserve, IfPause, IfPaused, Stop, Mark, Verify,
       Replay, Deny, Append, engineVars, EndEvent

(* Whoever writes a word of the mode adds what a reader now sees to the    *)
(* readings of the event in progress.                                      *)
LEMMA ModeIsSeen ==
  ASSUME [Next]_vars, mode' # mode
  PROVE  ppc = "idle" \/ Mode' \in seen'
<1> USE DEF vars, kernelVars, engineVars, processorVars, handlerVars
<1>1. ASSUME NEW h \in Handlers, Command(h) PROVE ppc = "idle" \/ Mode' \in seen'
  BY <1>1 DEF Command, Pause, Resume, Kill, Trust, SetMode, WriteMode, Bulk, Mode, Reading
<1>2. ASSUME NEW h \in Handlers, HandlerStep(h) PROVE ppc = "idle" \/ Mode' \in seen'
  BY <1>2 DEF HandlerStep, HandlerMark, CleanUp, Unmark, Reply, SetModeRest, WriteMode,
              BulkCheck, BulkStop, BulkMark, BulkDone, Mode, Reading
<1>3. ASSUME NEW p \in Pids, Environment(p) PROVE mode' = mode
  BY <1>3 DEF Environment, ExecDenied, Exit, Reap, Exec, Spawn
<1>4. ASSUME NEW p \in Pids, TakeEvent(p) PROVE mode' = mode
  BY <1>4 DEF TakeEvent
<1> QED
  BY <1>1, <1>2, <1>3, <1>4, ProcessorKeepsMode DEF Next

ModeRead ==
  /\ ppc # "idle" => Mode \in seen
  /\ ppc = "ifPause" => \E m \in seen : m # "observe"
ModeSafe == ModeRead /\ ModeDiscipline

(* Initially no event is being handled.                                    *)
LEMMA ModeSafeInit == Init => ModeSafe
BY DEF Init, ModeSafe, ModeRead, ModeDiscipline, EnforcePlaces, PausePlaces

(* Every step keeps the readings of the mode complete and the branches     *)
(* true to them.                                                           *)
LEMMA ModeSafeNext ==
  ASSUME Named, ModeSafe, [Next]_vars
  PROVE  ModeSafe'
<1> USE DEF ModeSafe, ModeRead, ModeDiscipline, EnforcePlaces, PausePlaces
<1>0. /\ seen \subseteq Modes \cup {"torn"}
      /\ mode' = mode => Mode' = Mode
  BY DEF Named, TypeOK, Mode
<1>1. ASSUME UNCHANGED <<ppc, ev>>, ppc = "idle" \/ seen \subseteq seen'
      PROVE  ModeSafe'
  BY <1>0, <1>1, ModeIsSeen
<1>2. ASSUME NEW p \in Pids, TakeEvent(p) PROVE ModeSafe'
  BY <1>0, <1>2 DEF TakeEvent, engineVars
<1>3. CASE ProcessorStep
  <2> USE ProcessorKeepsMode
  <2>1. CASE Gate \/ Score \/ Classify \/ Append
    BY <1>0, <1>3, <2>1 DEF Gate, Score, Classify, Append, EndEvent, Decide
  <2>2. CASE IfObserve
    BY <1>0, <1>3, <2>2 DEF IfObserve, Decide
  <2>3. CASE IfPause
    <3>1. CASE Mode = "pause"
      BY <1>0, <1>3, <2>3, <3>1 DEF IfPause, Decide
    <3>2. CASE Mode # "pause"
      <4>1. \/ "enforce" \in seen \/ "torn" \in seen
            \/ {"observe", "pause"} \subseteq seen
        <5>1. PICK m \in seen : m # "observe"
          BY <2>3 DEF IfPause
        <5> QED
          BY <1>0, <2>3, <3>2, <5>1 DEF IfPause, Modes
      <4>2. ppc' \notin PausePlaces \cup {"ifPause"} /\ (ppc' # "idle" => seen' = seen)
        <5>1. ev.tier \in Tiers
          BY DEF Named, TypeOK, Event
        <5> QED
          BY <1>3, <2>3, <3>2, <5>1 DEF IfPause, Enforce, Decide, Tiers
      <4> QED
        BY <1>0, <1>3, <2>3, <4>1, <4>2 DEF IfPause
    <3> QED
      BY <3>1, <3>2
  <2>4. CASE IfPaused \/ Stop \/ Mark \/ Verify \/ Replay \/ Deny
    BY <1>0, <1>3, <2>4 DEF IfPaused, Stop, Mark, Verify, Replay, Deny, Decide
  <2> QED
    BY <1>3, <2>1, <2>2, <2>3, <2>4 DEF ProcessorStep
<1> QED
  BY <1>1, <1>2, <1>3, ProcessorMoves

(* The enforce and pause branches are entered only with the mode readings  *)
(* they need.                                                              *)
THEOREM ModeSafety == Spec => []ModeDiscipline
<1>1. Init => Named /\ ModeSafe
  BY NamedInit, ModeSafeInit
<1>2. Named /\ ModeSafe /\ [Next]_vars => (Named /\ ModeSafe)'
  BY NamedNext, ModeSafeNext
<1>3. ModeSafe => ModeDiscipline
  BY DEF ModeSafe
<1> QED
  BY <1>1, <1>2, <1>3, PTL DEF Spec

-----------------------------------------------------------------------------
(* The answers of the sidecar.                                             *)
Earned == /\ ppc \in {"classify", "ifObserve", "ifPause"} => ev.tier = "low" \/ ev.scored
          /\ UnscoredIsHarmless

(* With a model loaded, a tier above low comes from a score.               *)
LEMMA EarnedNext ==
  ASSUME "unloaded" \notin SidecarReplies, Named, Earned, [Next]_vars
  PROVE  Earned'
<1> USE DEF Earned, UnscoredIsHarmless, ActingPlaces, EnforcePlaces, PausePlaces
<1>0. ev \in Event /\ ev.tier \in Tiers
  BY DEF Named, TypeOK, Event
<1>1. ASSUME UNCHANGED <<ppc, ev>> PROVE Earned'
  BY <1>1
<1>2. ASSUME NEW p \in Pids, TakeEvent(p) PROVE Earned'
  BY <1>2 DEF TakeEvent
<1>3. CASE ProcessorStep
  <2>1. CASE Score
    <3>1. PICK reply \in SidecarReplies : \E t \in TierOf(reply) :
            ev' = [ev EXCEPT !.tier = t, !.scored = (reply = "scored")]
      BY <2>1 DEF Score
    <3>2. PICK t \in TierOf(reply) :
            ev' = [ev EXCEPT !.tier = t, !.scored = (reply = "scored")]
      BY <3>1
    <3>3. reply \in {"scored", "unreachable"}
      BY RepliesAssumption
    <3>4. reply = "scored" \/ t = "low"
      BY <3>3 DEF TierOf
    <3>5. ev'.tier = t /\ ev'.scored = (reply = "scored")
      BY <1>0, <3>2 DEF Event
    <3> QED
      BY <2>1, <3>4, <3>5 DEF Score
  <2>2. CASE Gate \/ Classify \/ Append
    BY <1>0, <2>2 DEF Gate, Classify, Append, EndEvent, Decide, Event
  <2>3. CASE IfObserve
    BY <1>0, <2>3 DEF IfObserve, Decide, Event
  <2>4. CASE IfPause
    BY <1>0, <2>4 DEF IfPause, Enforce, Decide, Tiers, Event
  <2>5. CASE IfPaused \/ Stop \/ Mark \/ Verify \/ Replay \/ Deny
    BY <1>0, <2>5 DEF IfPaused, Stop, Mark, Verify, Replay, Deny, Decide, Event
  <2> QED
    BY <1>3, <2>1, <2>2, <2>3, <2>4, <2>5 DEF ProcessorStep
<1> QED
  BY <1>1, <1>2, <1>3, ProcessorMoves

(* No process is stopped, verified, killed or denied on an answer that     *)
(* carries no score, as long as the sidecar has a model.                   *)
THEOREM ScoreSafety ==
  ASSUME "unloaded" \notin SidecarReplies
  PROVE  Spec => []UnscoredIsHarmless
<1>1. Init => Named /\ Earned
  BY NamedInit DEF Init, Earned, UnscoredIsHarmless, ActingPlaces, EnforcePlaces, PausePlaces
<1>2. Named /\ Earned /\ [Next]_vars => (Named /\ Earned)'
  BY NamedNext, EarnedNext
<1>3. Earned => UnscoredIsHarmless
  BY DEF Earned
<1> QED
  BY <1>1, <1>2, <1>3, PTL DEF Spec

-----------------------------------------------------------------------------
(* Enforcement when nobody can select pause mode.                          *)
NoPauseMode ==
  /\ mode.len = 7 /\ mode.ptr \in {"observe", "enforce"}
  /\ \A h \in Handlers : hpc[h] = "mode" => req[h].mode \in {"observe", "enforce"}
EnforceSeen == ppc \in EnforcePlaces \cup {"ifPause"} => "enforce" \in seen

(* If pause is never selected, the mode's header is whole at every moment. *)
LEMMA NoPauseModeNext ==
  ASSUME "pause" \notin ModeRequests, Named, NoPauseMode, [Next]_vars
  PROVE  NoPauseMode'
<1> USE DEF NoPauseMode, vars, kernelVars, engineVars, processorVars, handlerVars
<1>0. /\ req \in [Handlers -> Request] /\ hpc \in [Handlers -> HandlerPlaces]
      /\ mode \in StringHeader /\ ModeRequests \subseteq {"observe", "enforce"}
  BY ModesAssumption DEF Named, TypeOK, Modes
<1>1. CASE UNCHANGED <<hpc, req, mode>>
  BY <1>1
<1>2. ASSUME NEW h \in Handlers, NEW p \in Pids, Pause(h, p) \/ Resume(h, p) \/ Kill(h, p)
      PROVE  NoPauseMode'
  <2>1. PICK place \in {"mark", "unmark", "cont", "reply"} : For(h, p, place)
    BY <1>2 DEF Pause, Resume, Kill
  <2> QED
    BY <1>0, <1>2, <2>1 DEF Pause, Resume, Kill, For, Goto
<1>3. ASSUME NEW h \in Handlers, NEW m \in ModeRequests, NEW half, SetMode(h, m, half)
      PROVE  NoPauseMode'
  <2>1. mode'.len = 7 /\ mode'.ptr \in {"observe", "enforce"}
    BY <1>0, <1>3 DEF SetMode, WriteMode, WordLen, StringHeader
  <2>2. \A g \in Handlers : hpc'[g] = "mode" => req'[g].mode \in {"observe", "enforce"}
    BY <1>0, <1>3 DEF SetMode, Goto, Request
  <2> QED
    BY <2>1, <2>2
<1>4. ASSUME NEW h \in Handlers, SetModeRest(h)
      PROVE  NoPauseMode'
  <2>1. mode'.len = 7 /\ mode'.ptr \in {"observe", "enforce"}
    BY <1>0, <1>4 DEF SetModeRest, WriteMode, WordLen, StringHeader
  <2>2. \A g \in Handlers : hpc'[g] = "mode" => req'[g].mode \in {"observe", "enforce"}
    BY <1>0, <1>4 DEF SetModeRest, Finish, Goto
  <2> QED
    BY <2>1, <2>2
<1>5. ASSUME NEW h \in Handlers, Bulk(h) \/ (\E t \in Target : BulkCheck(h, t))
      PROVE  NoPauseMode'
  BY <1>0, <1>5 DEF Bulk, BulkCheck, Goto
<1>6. ASSUME NEW h \in Handlers,
             \/ HandlerMark(h) \/ CleanUp(h) \/ Unmark(h) \/ Reply(h)
             \/ BulkStop(h) \/ BulkMark(h) \/ BulkDone(h)
      PROVE  NoPauseMode'
  BY <1>0, <1>6 DEF HandlerMark, CleanUp, Unmark, Reply, BulkStop, BulkMark, BulkDone, Finish, Goto
<1>7. ASSUME NEW h \in Handlers, NEW names, NEW pids, Trust(h, names, pids)
      PROVE  NoPauseMode'
  BY <1>1, <1>7 DEF Trust
<1>8. ASSUME NEW p \in Pids, TakeEvent(p) PROVE NoPauseMode'
  BY <1>8 DEF TakeEvent
<1>9. CASE ProcessorStep
  BY <1>9 DEF ProcessorStep, Gate, Score, Classify, IfObserve, IfPause, IfPaused, Stop,
              Mark, Verify, Replay, Deny, Append
<1>10. ASSUME NEW p \in Pids, Environment(p) PROVE NoPauseMode'
  BY <1>10 DEF Environment, ExecDenied, Exit, Reap, Exec, Spawn
<1> QED
  BY <1>1, <1>2, <1>3, <1>4, <1>5, <1>6, <1>7, <1>8, <1>9, <1>10
  DEF Next, Command, HandlerStep

(* So whoever gets past the test for observe has read enforce.             *)
LEMMA EnforceSeenNext ==
  ASSUME Named, ModeSafe, NoPauseMode, EnforceSeen, [Next]_vars
  PROVE  EnforceSeen'
<1> USE DEF EnforceSeen, EnforcePlaces
<1>1. ASSUME UNCHANGED <<ppc, ev>>, ppc = "idle" \/ seen \subseteq seen'
      PROVE  EnforceSeen'
  BY <1>1
<1>2. ASSUME NEW p \in Pids, TakeEvent(p) PROVE EnforceSeen'
  BY <1>2 DEF TakeEvent
<1>3. CASE IfObserve
  <2>1. Mode \in {"observe", "enforce"} /\ Mode \in seen
    BY <1>3 DEF NoPauseMode, Mode, Reading, WordLen, ModeSafe, ModeRead, IfObserve
  <2> QED
    BY <1>3, <2>1 DEF IfObserve, Decide
<1>4. CASE IfPause
  BY <1>4 DEF IfPause
<1>5. CASE Gate \/ Score \/ Classify \/ IfPaused \/ Stop \/ Mark \/ Verify \/ Replay \/ Deny \/ Append
  BY <1>5 DEF Gate, Score, Classify, IfPaused, Stop, Mark, Verify, Replay, Deny, Append, EndEvent,
              Decide
<1> QED
  BY <1>1, <1>2, <1>3, <1>4, <1>5, ProcessorMoves DEF ProcessorStep

(* If pause mode is never selected, no event is enforced without enforce   *)
(* mode.                                                                   *)
THEOREM EnforceSafety ==
  ASSUME "pause" \notin ModeRequests
  PROVE  Spec => []KillNeedsEnforce
<1> DEFINE Inv == Named /\ ModeSafe /\ NoPauseMode /\ EnforceSeen
<1>1. Init => Inv
  <2> SUFFICES ASSUME Init PROVE NoPauseMode /\ EnforceSeen
    BY NamedInit, ModeSafeInit
  <2>1. PICK m \in ModeRequests : mode = [ptr |-> m, len |-> WordLen(m)]
    BY DEF Init
  <2> QED
    BY <2>1, ModesAssumption DEF Init, NoPauseMode, EnforceSeen, EnforcePlaces, Modes, WordLen
<1>2. Inv /\ [Next]_vars => Inv'
  BY NamedNext, ModeSafeNext, NoPauseModeNext, EnforceSeenNext
<1>3. Inv => KillNeedsEnforce
  BY DEF EnforceSeen, KillNeedsEnforce
<1> QED
  BY <1>1, <1>2, <1>3, PTL DEF Spec

-----------------------------------------------------------------------------
(* What happens to a process is never undone under the same PID.           *)
Follows(old, new) == /\ old.gen <= new.gen
                     /\ Alive(new) /\ new.gen = old.gen => Alive(old)

(* In any step every PID's incarnation is followed by itself or a later    *)
(* one.                                                                    *)
LEMMA ProcessHistory ==
  ASSUME Named, [Next]_vars, NEW p \in Pids
  PROVE  Follows(proc[p], proc'[p])
<1> USE DEF kernelVars, vars
<1>0. proc \in [Pids -> Process] /\ \A q \in Pids : proc[q] \in Process
  BY DEF Named, TypeOK
<1>1. /\ proc[p].gen \in Nat
      /\ Follows(proc[p], proc[p])
      /\ Follows(proc[p], Stopped(proc[p]))
      /\ Follows(proc[p], Continued(proc[p]))
      /\ Follows(proc[p], Killed(proc[p]))
      /\ Follows(proc[p], Reaped(proc[p]))
      /\ \A name \in Comms : /\ Follows(proc[p], Spawned(proc[p], name))
                             /\ Follows(proc[p], [proc[p] EXCEPT !.comm = name])
  BY <1>0 DEF Follows, Process, Stopped, Continued, Killed, Reaped, Spawned, Alive
<1>2. \/ proc'[p] \in {proc[p], Stopped(proc[p]), Continued(proc[p]), Killed(proc[p]), Reaped(proc[p])}
      \/ \E name \in Comms : proc'[p] \in {Spawned(proc[p], name), [proc[p] EXCEPT !.comm = name]}
  <2>1. ASSUME NEW h \in Handlers, Command(h) \/ HandlerStep(h)
        PROVE  proc'[p] \in {proc[p], Stopped(proc[p]), Continued(proc[p]), Killed(proc[p])}
    BY <1>0, <2>1 DEF Command, HandlerStep, Pause, Resume, Kill, Trust, SetMode, Bulk, HandlerMark,
       CleanUp, Unmark, Reply, SetModeRest, BulkCheck, BulkStop, BulkMark, BulkDone
  <2>2. ASSUME NEW q \in Pids, Environment(q)
        PROVE  <1>2!1 \/ <1>2!2
    BY <1>0, <2>2 DEF Environment, ExecDenied, Exit, Reap, Exec, Spawn
  <2>3. CASE ProcessorStep
    BY <1>0, <2>3 DEF ProcessorStep, Gate, Score, Classify, IfObserve, IfPause, IfPaused, Stop, Mark,
       Verify, Replay, Deny, Append
  <2>4. ASSUME NEW q \in Pids, TakeEvent(q) PROVE proc' = proc
    BY <2>4 DEF TakeEvent
  <2> QED
    BY <2>1, <2>2, <2>3, <2>4 DEF Next
<1> QED
  BY <1>1, <1>2

GenerationBound == ppc # "idle" => ev.gen \in Nat /\ ev.gen <= proc[ev.pid].gen
KillSafe == GenerationBound /\ KillIsFinal

(* Every step keeps the event's incarnation in bounds and a recorded kill  *)
(* true.                                                                   *)
LEMMA KillSafeNext ==
  ASSUME Named, KillSafe, [Next]_vars
  PROVE  KillSafe'
<1> USE DEF KillSafe, GenerationBound, KillIsFinal, KilledIsDead
<1>0. /\ ppc # "idle" => /\ ev.pid \in Pids
                         /\ Follows(proc[ev.pid], proc'[ev.pid])
                         /\ proc[ev.pid].gen \in Nat /\ proc'[ev.pid].gen \in Nat
  BY ProcessHistory, NamedNext DEF Named, TypeOK, EventNamed, Process
<1>1. CASE UNCHANGED <<ppc, ev>>
  BY <1>0, <1>1 DEF Follows
<1>2. ASSUME NEW p \in Pids, TakeEvent(p) PROVE KillSafe'
  <2>1. ppc' = "gate" /\ ev'.pid = p /\ ev'.gen = proc[p].gen /\ proc'[p] = proc[p]
    BY <1>2 DEF TakeEvent, NoEvent, kernelVars
  <2>2. proc[p].gen \in Nat
    BY DEF Named, TypeOK, Process
  <2> QED
    BY <2>1, <2>2
<1>3. CASE Gate \/ Append
  BY <1>0, <1>3 DEF Gate, Append, EndEvent, Follows, kernelVars
<1>4. CASE Score
  BY <1>0, <1>4 DEF Score, Follows, kernelVars, Named, TypeOK, Event
<1>5. CASE Classify \/ IfObserve \/ IfPaused \/ Stop \/ Mark \/ Verify \/ Replay \/ IfPause
  <2>1. /\ ppc # "idle"
        /\ \/ ev' = ev /\ ppc' # "append"
           \/ /\ \E a \in Actions : ev' = [ev EXCEPT !.action = a]
              /\ ppc' = "append" => ev'.action \notin {"kill", "verified_kill"}
    <3>1. ev \in Event /\ ev.tier \in Tiers
      BY DEF Named, TypeOK, Event
    <3>2. CASE IfPause
      BY <3>1, <3>2 DEF IfPause, Enforce, Decide, Actions, Event, Tiers
    <3> QED
      BY <1>5, <3>1, <3>2 DEF Classify, IfObserve, IfPaused, Stop, Mark, Verify, Replay, Decide,
                              Actions, Event
  <2>2. ev'.pid = ev.pid /\ ev'.gen = ev.gen
    BY <2>1 DEF Named, TypeOK, Event
  <2> QED
    BY <1>0, <2>1, <2>2 DEF Follows
<1>6. CASE Deny
  <2>1. ppc # "idle" /\ ev \in Event /\ ev.pid \in Pids /\ proc \in [Pids -> Process]
    BY <1>6 DEF Deny, Named, TypeOK, EventNamed
  <2>2. ev'.pid = ev.pid /\ ev'.gen = ev.gen
    BY <1>6, <2>1 DEF Deny, Decide, Event
  <2>3. ~Lsm => ~Alive(proc'[ev.pid])
    BY <1>6, <2>1 DEF Deny, PutSucceeds, Killed, Alive, Signalable, Process, States
  <2> QED
    BY <1>0, <2>1, <2>2, <2>3 DEF Follows
<1> QED
  BY <1>1, <1>2, <1>3, <1>4, <1>5, <1>6, ProcessorMoves DEF ProcessorStep

(* Without the LSM, a decision that says kill is true.                     *)
THEOREM KillSafety == Spec => []KillIsFinal
<1>1. Init => Named /\ KillSafe
  BY NamedInit DEF Init, KillSafe, GenerationBound, KillIsFinal, KilledIsDead
<1>2. Named /\ KillSafe /\ [Next]_vars => (Named /\ KillSafe)'
  BY NamedNext, KillSafeNext
<1>3. KillSafe => KillIsFinal
  BY DEF KillSafe
<1> QED
  BY <1>1, <1>2, <1>3, PTL DEF Spec

-----------------------------------------------------------------------------
(* The list of paused processes.  Where nobody resumes processes, CRIU     *)
(* stops none and no PID is given away again, a living process is stopped  *)
(* just when it is on the list, or somebody who has stopped it is about to *)
(* put it there; and whom a kill cleans up after is dead.                  *)
Marking(p) == \/ ppc = "mark" /\ ev.pid = p
              \/ \E h \in Handlers : hpc[h] \in {"mark", "bulkMark"} /\ req[h].pid = p
Listed(p)  == p \in paused \/ Marking(p)

FrozenListed == \A p \in Pids : /\ proc[p].gen > 0
                                /\ Alive(proc[p]) => (proc[p].st = "stopped" <=> Listed(p))
CleanedAreDead == \A h \in Handlers : hpc[h] \in {"cont", "unmark"} => ~Alive(proc[req[h].pid])
NotVerifying == ppc \notin {"verify", "replay"}

PausedInv == FrozenListed /\ CleanedAreDead /\ NotVerifying

(* Initially all processes run and none is listed.                         *)
LEMMA PausedInit == Init => PausedInv
BY DEF Init, PausedInv, FrozenListed, CleanedAreDead, NotVerifying, Listed, Marking, Alive

(* What a signal, a death or an exec does to the state of a process.       *)
LEMMA Signals ==
  ASSUME NEW q \in Process
  PROVE  /\ Stopped(q).gen = q.gen /\ Killed(q).gen = q.gen /\ Continued(q).gen = q.gen
         /\ Alive(Stopped(q)) <=> Alive(q)
         /\ Alive(q) => Stopped(q).st = "stopped"
         /\ ~Alive(Killed(q)) /\ ~Alive(Reaped(q)) /\ Reaped(q).gen = q.gen
         /\ ~Alive(q) => Continued(q) = q
         /\ \A name \in Comms : /\ [q EXCEPT !.comm = name].gen = q.gen
                                /\ [q EXCEPT !.comm = name].st = q.st
BY DEF Process, States, Stopped, Killed, Continued, Reaped, Alive

(* A step that stops some processes and lists just those that are not yet  *)
(* listed keeps the list right.                                            *)
LEMMA ListKept ==
  ASSUME FrozenListed, NEW S \in SUBSET Pids,
         \A p \in Pids : /\ proc'[p].gen = proc[p].gen
                         /\ Alive(proc'[p]) =>
                              /\ Alive(proc[p])
                              /\ proc'[p].st = IF p \in S THEN "stopped" ELSE proc[p].st
                              /\ Listed(p)' <=> (Listed(p) \/ p \in S)
  PROVE  FrozenListed'
BY DEF FrozenListed

(* So does stopping a process and listing it, or having it listed.         *)
LEMMA StopListed ==
  ASSUME FrozenListed, proc \in [Pids -> Process], NEW p \in Pids,
         \A q \in Pids : proc'[q] = IF q = p THEN Stopped(proc[q]) ELSE proc[q],
         \A q \in Pids : Listed(q)' <=> (Listed(q) \/ q \in {p})
  PROVE  FrozenListed'
<1>1. ASSUME NEW q \in Pids
      PROVE  /\ proc'[q].gen = proc[q].gen
             /\ Alive(proc'[q]) => /\ Alive(proc[q])
                                  /\ proc'[q].st = IF q \in {p} THEN "stopped" ELSE proc[q].st
  <2>1. proc[q] \in Process
    OBVIOUS
  <2>2. CASE q = p
    BY <2>1, <2>2, Signals
  <2>3. CASE q # p
    BY <2>3
  <2>4. QED
    BY <2>2, <2>3
<1>2. QED
  BY <1>1, ListKept

(* So does a death.                                                        *)
LEMMA DeathListed ==
  ASSUME FrozenListed,
         \A q \in Pids : \/ proc'[q] = proc[q]
                         \/ proc'[q].gen = proc[q].gen /\ ~Alive(proc'[q]),
         \A q \in Pids : Alive(proc'[q]) => (Listed(q)' <=> Listed(q))
  PROVE  FrozenListed'
BY DEF FrozenListed

(* Every step keeps the list right.                                        *)
LEMMA PausedNext ==
  ASSUME ~Criu, "resume" \notin Ops, MaxGen <= 1
  PROVE  Named /\ PausedInv /\ [Next]_vars => PausedInv'
<1> SUFFICES ASSUME Named, PausedInv, [Next]_vars PROVE PausedInv'
  OBVIOUS
<1> USE DEF PausedInv, vars, kernelVars, engineVars, processorVars, handlerVars
<1>t. /\ proc \in [Pids -> Process] /\ paused \subseteq Pids
      /\ hpc \in [Handlers -> HandlerPlaces] /\ req \in [Handlers -> Request]
      /\ ppc # "idle" => ev.pid \in Pids /\ ev \in Event
  BY DEF Named, TypeOK, EventNamed
<1>n. \A h \in Handlers : hpc[h] \in PidPlaces => req[h].pid \in Pids
  BY DEF Named, RequestNamed
<1>g. \A p \in Pids : proc[p].gen \in Nat /\ proc[p].gen > 0
  BY <1>t DEF FrozenListed, Process
\* Steps that stop nobody and leave the list and those who write it alone.
<1>1. ASSUME UNCHANGED <<proc, paused>>, NotVerifying',
             \A p \in Pids : Marking(p)' <=> Marking(p),
             \A h \in Handlers : hpc'[h] \in {"cont", "unmark"} => hpc'[h] = hpc[h] /\ req'[h] = req[h]
      PROVE  PausedInv'
  <2>1. FrozenListed'
    BY <1>1, ListKept DEF Listed, FrozenListed
  <2>2. QED
    BY <1>1, <2>1 DEF CleanedAreDead
\* The processor.
<1>2. ASSUME ppc # "mark", ppc' \notin {"mark", "verify", "replay"},
             UNCHANGED <<proc, paused, hpc, req>>
      PROVE  PausedInv'
  BY <1>1, <1>2 DEF Marking, NotVerifying
<1>3. ASSUME (\E p \in Pids : TakeEvent(p)) \/ Gate \/ Score \/ Classify \/ IfObserve \/ IfPaused
             \/ Append
      PROVE  PausedInv'
  <2>1. CASE (\E p \in Pids : TakeEvent(p)) \/ Gate \/ Append
    <3>1. /\ ppc # "mark" /\ ppc' \notin {"mark", "verify", "replay"}
          /\ UNCHANGED <<proc, paused, hpc, req>>
      <4>1. CASE Gate
        BY <4>1 DEF Gate, EndEvent
      <4>2. CASE Append
        BY <4>2 DEF Append, EndEvent
      <4>3. CASE \E p \in Pids : TakeEvent(p)
        BY <4>3 DEF TakeEvent
      <4>4. QED
        BY <2>1, <4>1, <4>2, <4>3
    <3>2. QED
      BY <1>2, <3>1
  <2>2. CASE Score
    BY <1>2, <2>2 DEF Score
  <2>3. CASE Classify \/ IfObserve \/ IfPaused
    BY <1>2, <2>3 DEF Classify, IfObserve, IfPaused, Decide
  <2>4. QED
    BY <1>3, <2>1, <2>2, <2>3
<1>4. CASE IfPause
  <2>1. ev.tier \in Tiers
    BY <1>4, <1>t DEF IfPause, Event
  <2>2. QED
    BY <1>2, <1>4, <2>1 DEF IfPause, Enforce, Decide, Tiers
<1>5. CASE Stop
  <2>1. ppc = "stop" /\ ev.pid \in Pids /\ UNCHANGED <<paused, hpc, req>>
    BY <1>5, <1>t DEF Stop
  <2>2. CASE proc' = [proc EXCEPT ![ev.pid] = Stopped(@)] /\ ppc' = "mark" /\ ev' = ev
    <3>1. \A p \in Pids : Listed(p)' <=> (Listed(p) \/ p \in {ev.pid})
      BY <2>1, <2>2 DEF Listed, Marking
    <3>2. \A p \in Pids : proc'[p] = IF p = ev.pid THEN Stopped(proc[p]) ELSE proc[p]
      BY <1>t, <2>1, <2>2
    <3>3. FrozenListed'
      BY <1>t, <2>1, <3>1, <3>2, StopListed
    <3>4. CleanedAreDead'
      BY <1>t, <1>n, <2>1, <3>2, Signals DEF CleanedAreDead, PidPlaces
    <3>5. QED
      BY <2>2, <3>3, <3>4 DEF NotVerifying
  <2>3. CASE proc' = proc /\ ppc' = "append"
    BY <1>2, <2>1, <2>3
  <2>4. QED
    BY <1>5, <2>2, <2>3 DEF Stop, Decide
<1>6. CASE Mark
  <2>1. /\ ppc = "mark" /\ ppc' = "append" /\ ev'.pid = ev.pid /\ UNCHANGED <<proc, hpc, req>>
        /\ paused' = paused \cup {ev.pid}
    BY <1>6, <1>t DEF Mark, Decide, Event
  <2>2. \A p \in Pids : Listed(p)' <=> Listed(p)
    BY <2>1 DEF Listed, Marking
  <2>3. FrozenListed'
    BY <2>1, <2>2, ListKept DEF FrozenListed
  <2>4. QED
    BY <2>1, <2>3 DEF CleanedAreDead, NotVerifying
<1>7. CASE Verify \/ Replay
  BY <1>7 DEF Verify, Replay, NotVerifying
\* A death takes the process off nobody's list but matters to no list.
<1>8. ASSUME NEW p \in Pids,
             \A q \in Pids : proc'[q] = IF q = p THEN Killed(proc[p]) ELSE proc[q],
             UNCHANGED paused, NotVerifying',
             \A q \in Pids : Marking(q)' <=> Marking(q),
             \A h \in Handlers : hpc'[h] \in {"cont", "unmark"} =>
               \/ hpc'[h] = hpc[h] /\ req'[h] = req[h]
               \/ req'[h].pid = p
      PROVE  PausedInv'
  <2>1. FrozenListed'
    <3>1. \A q \in Pids : \/ proc'[q] = proc[q]
                          \/ proc'[q].gen = proc[q].gen /\ ~Alive(proc'[q])
      BY <1>t, <1>8, Signals
    <3>2. \A q \in Pids : Listed(q)' <=> Listed(q)
      BY <1>8 DEF Listed
    <3>3. QED
      BY <3>1, <3>2, DeathListed
  <2>2. CleanedAreDead'
    BY <1>t, <1>n, <1>8, Signals DEF CleanedAreDead, PidPlaces
  <2>3. QED
    BY <1>8, <2>1, <2>2
<1>9. CASE Deny
  <2>1. ppc = "deny" /\ ppc' = "append" /\ ev.pid \in Pids /\ UNCHANGED <<paused, hpc, req>>
    BY <1>9, <1>t DEF Deny, Decide
  <2>2. proc' = proc \/ proc' = [proc EXCEPT ![ev.pid] = Killed(@)]
    BY <1>9 DEF Deny
  <2>3. \A p \in Pids : Marking(p)' <=> Marking(p)
    BY <2>1 DEF Marking
  <2>4. QED
    BY <1>1, <1>8, <1>t, <2>1, <2>2, <2>3 DEF NotVerifying
\* The handlers: h alone moves.
<1> DEFINE Moves(h, place, pid) ==
      /\ UNCHANGED <<ppc, ev>>
      /\ \A g \in Handlers \ {h} : hpc'[g] = hpc[g] /\ req'[g] = req[g]
      /\ hpc'[h] = place /\ (place \in PidPlaces => req'[h].pid = pid)
<1>10. ASSUME NEW h \in Handlers, NEW p \in Pids, Pause(h, p) PROVE PausedInv'
  <2>1. Moves(h, "mark", p) /\ hpc[h] = "idle" /\ paused' = paused
    BY <1>10, <1>t DEF Pause, IdleFor, For, Goto, Request
  <2>2. \A q \in Pids : Listed(q)' <=> (Listed(q) \/ q \in {p})
    BY <2>1 DEF Listed, Marking, PidPlaces
  <2>3. \A q \in Pids : proc'[q] = IF q = p THEN Stopped(proc[q]) ELSE proc[q]
    BY <1>t, <1>10 DEF Pause
  <2>4. FrozenListed'
    BY <1>t, <2>2, <2>3, StopListed
  <2>5. CleanedAreDead'
    BY <1>t, <1>n, <2>1, <2>3, Signals DEF CleanedAreDead, PidPlaces
  <2>6. QED
    BY <2>1, <2>4, <2>5 DEF NotVerifying
<1>11. ASSUME NEW h \in Handlers, HandlerMark(h) \/ BulkMark(h) PROVE PausedInv'
  <2>1. /\ \E place \in {"idle", "bulk"} : Moves(h, place, 0)
        /\ hpc[h] \in {"mark", "bulkMark"} /\ proc' = proc /\ paused' = paused \cup {req[h].pid}
    BY <1>11, <1>t DEF HandlerMark, BulkMark, Finish, Goto, PidPlaces
  <2>2. \A q \in Pids : Listed(q)' <=> Listed(q)
    BY <2>1 DEF Listed, Marking
  <2>3. FrozenListed'
    BY <2>1, <2>2, ListKept DEF FrozenListed
  <2>4. QED
    BY <2>1, <2>3 DEF CleanedAreDead, NotVerifying
<1>12. ASSUME NEW h \in Handlers, NEW p \in Pids, Kill(h, p) PROVE PausedInv'
  <2>1. /\ \E place \in {"cont", "reply"} : Moves(h, place, p)
        /\ hpc[h] = "idle" /\ paused' = paused
    BY <1>12, <1>t DEF Kill, For, Goto, Request
  <2>2. \A q \in Pids : Marking(q)' <=> Marking(q)
    BY <2>1 DEF Marking
  <2>3. \A q \in Pids : proc'[q] = IF q = p THEN Killed(proc[p]) ELSE proc[q]
    BY <1>t, <1>12 DEF Kill
  <2>4. QED
    BY <1>8, <2>1, <2>2, <2>3 DEF NotVerifying, PidPlaces
\* Nobody resumes: whom CleanUp and Unmark find is dead.
<1>13. ASSUME NEW h \in Handlers, CleanUp(h) PROVE PausedInv'
  <2>1. hpc[h] = "cont" /\ req[h].pid \in Pids /\ ~Alive(proc[req[h].pid])
    BY <1>13, <1>n DEF CleanUp, CleanedAreDead, PidPlaces
  <2>2. proc' = proc
    BY <1>13, <1>t, <2>1, Signals DEF CleanUp
  <2>3. /\ UNCHANGED <<paused, ppc, ev>> /\ hpc'[h] \in {"unmark", "idle"}
        /\ \A g \in Handlers \ {h} : hpc'[g] = hpc[g] /\ req'[g] = req[g]
        /\ hpc'[h] = "unmark" => req'[h] = req[h]
    BY <1>13, <1>t DEF CleanUp, Finish, Goto
  <2>4. \A q \in Pids : Marking(q)' <=> Marking(q)
    BY <2>1, <2>3 DEF Marking
  <2>5. FrozenListed'
    BY <2>2, <2>3, <2>4, ListKept DEF Listed, FrozenListed
  <2>6. \A g \in Handlers : hpc'[g] \in {"cont", "unmark"} =>
          req'[g] = req[g] /\ hpc[g] \in {"cont", "unmark"}
    BY <2>1, <2>3
  <2>7. CleanedAreDead'
    BY <2>2, <2>6 DEF CleanedAreDead
  <2>8. QED
    BY <2>3, <2>5, <2>7 DEF NotVerifying
<1>14. ASSUME NEW h \in Handlers, Unmark(h) PROVE PausedInv'
  <2>1. hpc[h] = "unmark" /\ req[h].pid \in Pids /\ ~Alive(proc[req[h].pid])
    BY <1>14, <1>n DEF Unmark, CleanedAreDead, PidPlaces
  <2>2. Moves(h, "idle", 0) /\ proc' = proc /\ paused' = paused \ {req[h].pid}
    BY <1>14, <1>t DEF Unmark, Finish, Goto, PidPlaces
  <2>3. \A q \in Pids : Alive(proc[q]) => (Listed(q)' <=> Listed(q))
    BY <2>1, <2>2 DEF Listed, Marking
  <2>4. FrozenListed'
    BY <2>2, <2>3, ListKept DEF FrozenListed
  <2>5. QED
    BY <2>1, <2>2, <2>4 DEF CleanedAreDead, NotVerifying
<1>15. ASSUME NEW h \in Handlers, BulkStop(h) PROVE PausedInv'
  <2> DEFINE p == req[h].pid
  <2>1. hpc[h] = "bulkStop" /\ p \in Pids /\ UNCHANGED <<paused, ppc, ev, req>>
    BY <1>15, <1>n DEF BulkStop, PidPlaces
  <2>2. CASE proc' = proc /\ hpc' = [hpc EXCEPT ![h] = "bulk"]
    BY <1>1, <1>t, <2>1, <2>2 DEF Marking, NotVerifying
  <2>3. CASE proc' = [proc EXCEPT ![p] = Stopped(@)] /\ hpc' = [hpc EXCEPT ![h] = "bulkMark"]
    <3>1. \A q \in Pids : Listed(q)' <=> (Listed(q) \/ q \in {p})
      BY <1>t, <2>1, <2>3 DEF Listed, Marking
    <3>2. \A q \in Pids : proc'[q] = IF q = p THEN Stopped(proc[q]) ELSE proc[q]
      BY <1>t, <2>1, <2>3
    <3>3. FrozenListed'
      BY <1>t, <2>1, <3>1, <3>2, StopListed
    <3>4. CleanedAreDead'
      BY <1>t, <1>n, <2>1, <2>3, <3>2, Signals DEF CleanedAreDead, PidPlaces
    <3>5. QED
      BY <2>1, <3>3, <3>4 DEF NotVerifying
  <2>4. QED
    BY <1>15, <2>2, <2>3 DEF BulkStop, Goto
\* Commands that concern no process.
<1>16. ASSUME NEW h \in Handlers, NEW place \in {"idle", "reply", "mode", "bulk", "bulkStop"},
             Moves(h, place, req'[h].pid), hpc[h] \notin {"mark", "bulkMark"},
             UNCHANGED <<proc, paused>>
       PROVE  PausedInv'
  <2>1. \A q \in Pids : Marking(q)' <=> Marking(q)
    BY <1>16 DEF Marking
  <2>2. QED
    BY <1>1, <1>16, <2>1 DEF NotVerifying
<1>17. ASSUME NEW h \in Handlers,
             Reply(h) \/ SetModeRest(h) \/ BulkDone(h) \/ Bulk(h)
             \/ (\E t \in Target : BulkCheck(h, t))
             \/ (\E m \in ModeRequests, half \in {"ptr", "len"} : SetMode(h, m, half))
       PROVE  PausedInv'
  <2>1. /\ hpc[h] \notin {"mark", "bulkMark"} /\ UNCHANGED <<proc, paused, ppc, ev>>
        /\ \E place \in {"idle", "reply", "mode", "bulk", "bulkStop"} :
             hpc' = [hpc EXCEPT ![h] = place]
    BY <1>17 DEF Reply, SetModeRest, BulkDone, Bulk, BulkCheck, SetMode, WriteMode, Finish, Goto,
                 IdleFor
  <2>2. \A g \in Handlers \ {h} : req'[g] = req[g]
    BY <1>17, <1>t DEF Reply, SetModeRest, BulkDone, Bulk, BulkCheck, SetMode, WriteMode, Finish,
                 Goto, IdleFor
  <2>3. QED
    BY <1>16, <1>t, <2>1, <2>2
<1>18. ASSUME NEW h \in Handlers, Command(h) \/ HandlerStep(h) PROVE PausedInv'
  <2>1. CASE \E names \in {{}} \cup {{c} : c \in Comms \ KnownComms},
               pids \in {{}} \cup {{p} : p \in Pids} : Trust(h, names, pids)
    BY <1>1, <2>1 DEF Trust, Marking, NotVerifying
  <2>2. ~\E p \in Pids : Resume(h, p)
    BY DEF Resume, IdleFor
  <2>3. QED
    BY <1>10, <1>11, <1>12, <1>13, <1>14, <1>15, <1>17, <1>18, <2>1, <2>2 DEF Command, HandlerStep
\* The processes: no PID is given away again.
<1>19. ASSUME NEW p \in Pids, Environment(p) PROVE PausedInv'
  <2>1. UNCHANGED <<paused, ppc, ev, hpc, req>>
    BY <1>19 DEF Environment, ExecDenied, Exit, Reap, Exec, Spawn
  <2>2. \A q \in Pids : Marking(q)' <=> Marking(q)
    BY <2>1 DEF Marking
  <2>3. CASE ExecDenied(p)
    BY <1>1, <2>1, <2>2, <2>3 DEF ExecDenied, NotVerifying
  <2>4. CASE Exit(p)
    BY <1>8, <1>t, <2>1, <2>2, <2>4 DEF Exit, NotVerifying
  <2>5. CASE Reap(p)
    <3>1. \A q \in Pids : proc'[q] = IF q = p THEN Reaped(proc[q]) ELSE proc[q]
      BY <1>t, <2>5 DEF Reap
    <3>2. FrozenListed'
      <4>1. \A q \in Pids : \/ proc'[q] = proc[q]
                            \/ proc'[q].gen = proc[q].gen /\ ~Alive(proc'[q])
        BY <1>t, <3>1, Signals
      <4>2. \A q \in Pids : Listed(q)' <=> Listed(q)
        BY <2>1, <2>2 DEF Listed
      <4>3. QED
        BY <4>1, <4>2, DeathListed
    <3>3. CleanedAreDead'
      BY <1>t, <1>n, <2>1, <3>1, Signals DEF CleanedAreDead, PidPlaces
    <3>4. QED
      BY <2>1, <3>2, <3>3 DEF NotVerifying
  <2>6. ASSUME NEW name \in Comms, Exec(p, name) PROVE PausedInv'
    <3>1. \A q \in Pids : proc'[q] = proc[q] \/ proc'[q] = [proc[q] EXCEPT !.comm = name]
      BY <1>t, <2>6 DEF Exec
    <3>2. ASSUME NEW q \in Pids
          PROVE  proc'[q].gen = proc[q].gen /\ proc'[q].st = proc[q].st
      <4>1. proc[q] \in Process
        BY <1>t
      <4>2. QED
        BY <3>1, <4>1 DEF Process
    <3>3. FrozenListed'
      <4>1. \A q \in Pids : Listed(q)' <=> Listed(q)
        BY <2>1, <2>2 DEF Listed
      <4>2. QED
        BY <3>2, <4>1 DEF FrozenListed, Alive
    <3>4. CleanedAreDead'
      BY <1>n, <2>1, <3>2 DEF CleanedAreDead, PidPlaces, Alive
    <3>5. QED
      BY <2>1, <3>3, <3>4 DEF NotVerifying
  <2>7. ~\E name \in Comms : Spawn(p, name)
    BY <1>g, BoundsAssumption DEF Spawn
  <2>8. QED
    BY <1>19, <2>3, <2>4, <2>5, <2>6, <2>7 DEF Environment
<1>20. CASE UNCHANGED vars
  BY <1>1, <1>20 DEF Marking, NotVerifying
<1> HIDE DEF PausedInv, vars
<1>21. QED
  BY <1>3, <1>4, <1>5, <1>6, <1>7, <1>9, <1>18, <1>19, <1>20 DEF Next, ProcessorStep

(* Where nobody resumes processes, CRIU is off and no PID is given away    *)
(* again, the list from which an operator can resume processes is right at *)
(* rest, however pauses, kills, bulk commands and events overlap.          *)
THEOREM PausedAreListed ==
  ASSUME ~Criu, "resume" \notin Ops, MaxGen <= 1
  PROVE  Spec => []PausedListed
<1>1. Named /\ PausedInv /\ [Next]_vars => PausedInv'
  BY PausedNext
<1>2. PausedInv => PausedListed
  <2>1. ASSUME Quiet, NEW p \in Pids PROVE ~Marking(p)
    BY <2>1 DEF Quiet, Marking
  <2>2. QED
    BY <2>1 DEF PausedInv, FrozenListed, PausedListed, Listed
<1>3. QED
  BY NamedInit, NamedNext, PausedInit, <1>1, <1>2, PTL DEF Spec

=============================================================================
