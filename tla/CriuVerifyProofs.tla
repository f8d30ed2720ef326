-------------------------- MODULE CriuVerifyProofs --------------------------
(***************************************************************************)
(* Proofs about CriuVerify, for any processes, connections and number of   *)
(* verifications: a connection counts for the verification during which it *)
(* is made, one during the restore is in the verdict, and Verify leaves    *)
(* nothing on the machine if its listener is set up before the sleep is    *)
(* over.                                                                   *)
(***************************************************************************)
EXTENDS CriuVerify, TLAPS

(* While Verify runs it has a round.                                       *)
Rounded == vpc # "idle" => round \in Rounds
Typed   == TypeOK /\ Rounded

Connection == [st : {"none", "reading", "recorded"}, round : 0 .. MaxRounds,
               left : 0 .. ReadSecs, early : BOOLEAN, copy : BOOLEAN]
Answers    == restored \in BOOLEAN /\ dir \in BOOLEAN
Places     == /\ vpc \in {"idle"} \cup {"dump", "netns", "restore", "wait", "judge",
                                        "close", "rule", "network", "remove"}
              /\ verdict \in {"none", "error", "benign", "malicious"}
              /\ lpc \in [Rounds -> {"none", "start", "rule", "loop", "accept", "done"}]
Counters   == /\ pid \in Pids /\ round \in 0 .. MaxRounds /\ clock \in 0 .. WaitSecs
              /\ rules \in Nat /\ port \in 0 .. MaxRounds
              /\ done \subseteq Rounds /\ field \subseteq Rounds
              /\ ns \subseteq Pids /\ veth \in {"absent", "bare", "ready"}

(* The types, one kind at a time.                                          *)
LEMMA Types == TypeOK <=> Answers /\ Places /\ Counters /\ conn \in [Conns -> Connection]
  BY DEF TypeOK, Answers, Places, Counters, Connection

(* Initially nothing has been verified and everything has its type.        *)
LEMMA TypedInit == Init => Typed
<1> SUFFICES ASSUME Init PROVE Typed
  OBVIOUS
<1>1. MaxRounds \in Nat /\ 0 \in 0 .. MaxRounds
  BY VerifyAssumption
<1>2. NoConn \in Connection
  BY <1>1 DEF NoConn, Connection, ReadSecs
<1>3. Answers
  BY DEF Init, Answers
<1>4. Places
  BY DEF Init, Places
<1>5. Counters
  BY <1>1 DEF Init, Counters, WaitSecs
<1> QED
  BY <1>2, <1>3, <1>4, <1>5, Types DEF Init, Typed, Rounded

(* Every step of Verify and of the sinkhole keeps booleans booleans.       *)
LEMMA AnswersNext == Answers /\ [Next]_vars => Answers'
<1> USE DEF Answers, machineVars, listenerVars, verifyVars
<1> SUFFICES ASSUME Answers, [Next]_vars PROVE Answers'
  OBVIOUS
<1>1. ASSUME NEW p \in Pids, VerifyStart(p) PROVE Answers'
  <2>1. restored' = FALSE /\ (dir' = TRUE \/ dir' = dir)
    BY <1>1 DEF VerifyStart
  <2> QED
    BY <2>1
<1>2. CASE Restore
  <2>1. restored' \in BOOLEAN
    <3>1. CASE round \in done
      BY <1>2, <3>1 DEF Restore
    <3>2. CASE round \notin done
      BY <1>2, <3>2 DEF Restore
    <3> QED
      BY <3>1, <3>2
  <2>2. dir' = dir
    BY <1>2 DEF Restore
  <2> QED
    BY <2>1, <2>2
<1>3. CASE RemoveDir
  <2>1. restored' = restored /\ dir' = FALSE
    BY <1>3 DEF RemoveDir
  <2> QED
    BY <2>1
<1>4. CASE UNCHANGED <<restored, dir>>
  BY <1>4
<1>5. ASSUME ~Restore, ~RemoveDir, \A p \in Pids : ~VerifyStart(p)
      PROVE  UNCHANGED <<restored, dir>>
  BY <1>5 DEF Next, vars, Verify, Timeout, Dump, MakeSinkhole, Tick, WaitEnds, Judge,
      CloseListener, DeleteRule, DeleteNetwork, Listen, Bind, AddRule, Loop, AcceptFails,
      Accept, HandleConnection
<1> QED
  BY <1>1, <1>2, <1>3, <1>4, <1>5

(* Connections: only the clock, Accept and the handlers touch them.        *)
LEMMA ConnNext ==
  ASSUME conn \in [Conns -> Connection], [Next]_vars, MaxRounds \in Nat
  PROVE  conn' \in [Conns -> Connection]
<1> USE DEF machineVars, listenerVars, verifyVars
<1>1. CASE Tick
  <2>1. ASSUME NEW c \in Conns, conn[c].st = "reading", conn[c].left > 0
        PROVE  [conn[c] EXCEPT !.left = @ - 1] \in Connection
    BY <2>1 DEF Connection, ReadSecs
  <2>2. \A c \in Conns : conn[c].st = "reading" => conn[c].left > 0
    BY <1>1 DEF Tick
  <2>3. conn' = [c \in Conns |-> IF conn[c].st = "reading"
                                 THEN [conn[c] EXCEPT !.left = @ - 1] ELSE conn[c]]
    BY <1>1 DEF Tick
  <2> QED
    BY <2>1, <2>2, <2>3
<1>2. ASSUME NEW r \in Rounds, NEW c \in Conns, NEW copy \in BOOLEAN, Accept(r, c, copy)
      PROVE  conn' \in [Conns -> Connection]
  <2>1. [st |-> "reading", round |-> r, left |-> ReadSecs, early |-> vpc = "restore",
        copy |-> copy] \in Connection
    BY <1>2 DEF Connection, ReadSecs, Rounds
  <2> QED
    BY <1>2, <2>1 DEF Accept
<1>3. ASSUME NEW c \in Conns, HandleConnection(c) PROVE conn' \in [Conns -> Connection]
  <2>1. ASSUME NEW k \in Connection
        PROVE  [k EXCEPT !.st = "recorded", !.left = 0] \in Connection
    <3>1. 0 \in 0 .. ReadSecs
      BY DEF ReadSecs
    <3>2. [k EXCEPT !.st = "recorded"] \in Connection
      BY DEF Connection
    <3> DEFINE q == [k EXCEPT !.st = "recorded"]
    <3>3. [q EXCEPT !.left = 0] \in Connection
      BY <3>1, <3>2 DEF Connection
    <3>4. [q EXCEPT !.left = 0] = [k EXCEPT !.st = "recorded", !.left = 0]
      OBVIOUS
    <3> QED
      BY <3>3, <3>4
  <2> QED
    BY <1>3, <2>1 DEF HandleConnection
<1>4. ASSUME ~Tick, \A r \in Rounds, c \in Conns, copy \in BOOLEAN : ~Accept(r, c, copy),
             \A c \in Conns : ~HandleConnection(c)
      PROVE  conn' = conn
  BY <1>4 DEF Next, vars, Verify, Timeout, Dump, MakeSinkhole, WaitEnds, Judge, VerifyStart,
      Restore, CloseListener, DeleteRule, DeleteNetwork, RemoveDir, Listen, Bind, AddRule,
      Loop, AcceptFails
<1> QED
  BY <1>1, <1>2, <1>3, <1>4

(* Every step keeps the types.                                             *)
LEMMA TypedNext == Typed /\ [Next]_vars => Typed'
<1> SUFFICES ASSUME Typed, [Next]_vars PROVE Typed'
  OBVIOUS
<1>0. Answers /\ Places /\ Counters /\ Rounded /\ conn \in [Conns -> Connection]
  BY Types DEF Typed
<1>a. Answers' /\ conn' \in [Conns -> Connection]
  BY <1>0, AnswersNext, ConnNext, VerifyAssumption
<1> SUFFICES Places' /\ Counters' /\ Rounded'
  BY <1>a DEF Typed, TypeOK, Answers, Places, Counters, Connection
<1> HIDE DEF Typed
<1> USE <1>0, VerifyAssumption DEF Places, Counters, Rounded, Rounds, WaitSecs,
                                   machineVars, listenerVars, verifyVars
<1>1. CASE UNCHANGED vars
  BY <1>1 DEF vars
<1>2. ASSUME NEW p \in Pids, VerifyStart(p) PROVE Places' /\ Counters' /\ Rounded'
  BY <1>2 DEF VerifyStart
<1>3. CASE Timeout
  BY <1>3 DEF Timeout
<1>4. CASE Dump
  BY <1>4 DEF Dump
<1>5. CASE MakeSinkhole
  BY <1>5 DEF MakeSinkhole
<1>6. CASE Restore
  BY <1>6 DEF Restore
<1>7. CASE Tick
  BY <1>7 DEF Tick
<1>8. CASE WaitEnds \/ Judge
  BY <1>8 DEF WaitEnds, Judge
<1>9. CASE CloseListener
  BY <1>9 DEF CloseListener
<1>10. CASE DeleteRule
  BY <1>10 DEF DeleteRule
<1>11. CASE DeleteNetwork \/ RemoveDir
  BY <1>11 DEF DeleteNetwork, RemoveDir
<1>12. ASSUME NEW r \in Rounds, Bind(r) PROVE Places' /\ Counters' /\ Rounded'
  <2>1. /\ port' \in {port, r} /\ field' \in {field, field \cup {r}}
        /\ lpc' \in {[lpc EXCEPT ![r] = "rule"], [lpc EXCEPT ![r] = "done"]}
        /\ UNCHANGED <<verifyVars, ns, veth, rules>>
    BY <1>12 DEF Bind
  <2>2. r \in 0 .. MaxRounds
    OBVIOUS
  <2>3. lpc' \in [Rounds -> {"none", "start", "rule", "loop", "accept", "done"}]
    BY <2>1
  <2> QED
    BY <2>1, <2>2, <2>3
<1>13. ASSUME NEW r \in Rounds, AddRule(r) PROVE Places' /\ Counters' /\ Rounded'
  BY <1>13 DEF AddRule
<1>14. ASSUME NEW r \in Rounds, Loop(r) PROVE Places' /\ Counters' /\ Rounded'
  BY <1>14 DEF Loop
<1>15. ASSUME NEW r \in Rounds, AcceptFails(r) PROVE Places' /\ Counters' /\ Rounded'
  BY <1>15 DEF AcceptFails
<1>16. ASSUME NEW r \in Rounds, NEW c \in Conns, NEW copy \in BOOLEAN, Accept(r, c, copy)
       PROVE  Places' /\ Counters' /\ Rounded'
  BY <1>16 DEF Accept
<1>17. ASSUME NEW c \in Conns, HandleConnection(c) PROVE Places' /\ Counters' /\ Rounded'
  BY <1>17 DEF HandleConnection
<1> QED
  BY <1>1, <1>2, <1>3, <1>4, <1>5, <1>6, <1>7, <1>8, <1>9, <1>10, <1>11, <1>12, <1>13, <1>14,
     <1>15, <1>16, <1>17 DEF Next, Verify, Listen

(* Every reachable state is well typed.                                    *)
THEOREM VerifyTyped == Spec => []TypeOK
<1>1. Typed => TypeOK
  BY DEF Typed
<1> QED
  BY <1>1, TypedInit, TypedNext, PTL DEF Spec

-----------------------------------------------------------------------------
(* The verdict.                                                            *)

Undecided == {"dump", "netns", "restore", "wait", "judge"}
Early(c)  == conn[c].early /\ conn[c].round = round

(* Early connections are recorded when the sleep is over, since a read     *)
(* that began during the restore has less time left than the sleep.        *)
Verdict ==
  /\ vpc \in Undecided => verdict = "none"
  /\ \A c \in Conns : conn[c].st = "none" => conn[c] = NoConn
  /\ vpc = "wait" => \A c \in Conns : Early(c) /\ conn[c].st = "reading" => conn[c].left < clock
  /\ vpc = "judge" => \A c \in Conns : Early(c) => conn[c].st = "recorded"
  /\ EarlyCallbackConfirms

(* Every step keeps what the verdict rests on.                             *)
LEMMA VerdictNext == Typed /\ Verdict /\ [Next]_vars => Verdict'
<1> SUFFICES ASSUME Typed, Verdict, [Next]_vars PROVE Verdict'
  OBVIOUS
<1> USE VerifyAssumption DEF Typed, TypeOK, Rounded, Rounds, Verdict, Undecided, Early, NoConn,
        Attempts, EarlyCallbackConfirms, machineVars, listenerVars, verifyVars
<1>1. CASE UNCHANGED vars
  BY <1>1 DEF vars
<1>2. ASSUME NEW p \in Pids, VerifyStart(p) PROVE Verdict'
  BY <1>2 DEF VerifyStart
<1>3. CASE Timeout
  BY <1>3 DEF Timeout
<1>4. CASE Dump
  BY <1>4 DEF Dump
<1>5. CASE MakeSinkhole
  BY <1>5 DEF MakeSinkhole
<1>6. CASE Restore
  BY <1>6 DEF Restore, WaitSecs, ReadSecs
<1>7. CASE Tick
  <2>1. /\ vpc = "wait" /\ vpc' = "wait" /\ verdict' = verdict /\ restored' = restored
        /\ round' = round /\ clock' = clock - 1 /\ clock \in Nat
    BY <1>7 DEF Tick, WaitSecs
  <2>2. \A c \in Conns : /\ conn'[c].st = conn[c].st /\ conn'[c].early = conn[c].early
                         /\ conn'[c].round = conn[c].round
                         /\ conn[c].st = "reading" => conn'[c].left = conn[c].left - 1
                         /\ conn[c].st # "reading" => conn'[c] = conn[c]
                         /\ conn[c].left \in Nat
    BY <1>7 DEF Tick, ReadSecs
  <2>3. vpc' # "judge" /\ verdict' = "none"
    BY <2>1
  <2>4. ASSUME NEW c \in Conns
        PROVE  /\ conn'[c].st = "none" => conn'[c] = NoConn
               /\ Early(c)' /\ conn'[c].st = "reading" => conn'[c].left < clock'
    <3>1. conn'[c].st = "none" => conn'[c] = NoConn
      BY <2>2
    <3>2. Early(c)' => Early(c)
      BY <2>1, <2>2
    <3>3. CASE Early(c) /\ conn[c].st = "reading"
      <4>1. conn[c].left < clock
        BY <2>1, <3>3
      <4> HIDE DEF Early, Typed, TypeOK, Verdict
      <4>2. conn'[c].left = conn[c].left - 1 /\ conn[c].left \in Nat
        BY <2>2, <3>3
      <4> QED
        BY <3>1, <4>1, <4>2, <2>1
    <3> QED
      BY <2>2, <3>1, <3>2, <3>3
  <2>5. EarlyCallbackConfirms'
    BY <2>3
  <2> QED
    BY <2>1, <2>3, <2>4, <2>5
<1>8. CASE WaitEnds
  <2>1. \A c \in Conns : Early(c) => conn[c].st = "recorded"
    BY <1>8 DEF WaitEnds, ReadSecs
  <2> QED
    BY <1>8, <2>1 DEF WaitEnds
<1>9. CASE Judge
  BY <1>9 DEF Judge
<1>10. CASE UNCHANGED <<round, restored, verdict, clock, conn>> /\ vpc' \notin Undecided
  BY <1>10
<1>11. CASE UNCHANGED <<vpc, round, restored, verdict, clock, conn>>
  BY <1>11
<1>14. ASSUME CloseListener \/ DeleteRule \/ DeleteNetwork \/ RemoveDir
       PROVE  UNCHANGED <<round, restored, verdict, clock, conn>> /\ vpc' \notin Undecided
  BY <1>14 DEF CloseListener, DeleteRule, DeleteNetwork, RemoveDir
<1>15. ASSUME NEW r \in Rounds, Listen(r)
       PROVE  UNCHANGED <<vpc, round, restored, verdict, clock, conn>>
  BY <1>15 DEF Listen, Bind, AddRule, Loop, AcceptFails
<1>12. ASSUME NEW r \in Rounds, NEW c \in Conns, NEW copy \in BOOLEAN, Accept(r, c, copy) PROVE Verdict'
  <2>1. /\ conn[c] = NoConn /\ conn'[c].st = "reading"
        /\ conn'[c].early = (vpc = "restore") /\ conn'[c].round = r
        /\ \A d \in Conns \ {c} : conn'[d] = conn[d]
        /\ UNCHANGED <<vpc, round, restored, verdict, clock>>
    BY <1>12 DEF Accept
  <2>4. ASSUME NEW d \in Conns, Early(d)'
        PROVE  (Early(d) /\ d # c) \/ (vpc = "restore" /\ d = c)
    <3>1. CASE d = c
      BY <2>1, <2>4, <3>1
    <3>2. CASE d # c
      BY <2>1, <2>4, <3>2
    <3> QED
      BY <3>1, <3>2
  <2>5. \A d \in Conns : conn'[d].st = "none" => conn'[d] = NoConn
    BY <2>1
  <2>6. EarlyCallbackConfirms'
    BY <2>1, <2>4
  <2> QED
    BY <2>1, <2>4, <2>5, <2>6
<1>13. ASSUME NEW c \in Conns, HandleConnection(c) PROVE Verdict'
  BY <1>13 DEF HandleConnection
<1> QED
  BY <1>1, <1>2, <1>3, <1>4, <1>5, <1>6, <1>7, <1>8, <1>9, <1>10, <1>11, <1>12, <1>13,
     <1>14, <1>15 DEF Next, Verify

(* What the verdict rests on holds throughout.                             *)
THEOREM VerdictAlways == Spec => []Verdict
<1>1. Init => Verdict
  BY DEF Init, Verdict, Undecided, Early, NoConn, EarlyCallbackConfirms
<1> QED
  BY <1>1, TypedInit, TypedNext, VerdictNext, PTL DEF Spec

(* A connection accepted during a restore that succeeds always confirms.   *)
THEOREM EarlyCallbacksConfirm == Spec => []EarlyCallbackConfirms
<1>1. Verdict => EarlyCallbackConfirms
  BY DEF Verdict
<1> QED
  BY <1>1, VerdictAlways, PTL

-----------------------------------------------------------------------------
(* Whose connections are counted.                                          *)

Sunk == {"restore", "wait", "judge", "close"}

(* Only the present verification's listener can wait for a connection at   *)
(* the port: the context of every earlier one is done, which a listener    *)
(* that comes late sees before it waits, and one that waited has been      *)
(* closed, as what holds the port is known to its Sinkhole.                *)
Current ==
  /\ \A r \in Rounds : r > round \/ (r = round /\ vpc \in {"dump", "netns"}) => lpc[r] = "none"
  /\ \A r \in Rounds : lpc[r] # "none" /\ r \notin done => r = round /\ vpc \in {"restore", "wait"}
  /\ \A r \in Rounds : lpc[r] = "accept" /\ port = r => r = round /\ vpc \in Sunk
  /\ port # 0 => port \in field

(* Every step keeps it so, however late a listener is set up.              *)
LEMMA CurrentNext == Typed /\ Current /\ [Next]_vars => Current'
<1> SUFFICES ASSUME Typed, Current, [Next]_vars PROVE Current'
  OBVIOUS
<1> USE VerifyAssumption DEF Typed, TypeOK, Rounded, Rounds, Current, Sunk,
                             machineVars, listenerVars, verifyVars
<1>1. ASSUME NEW p \in Pids, VerifyStart(p) PROVE Current'
  BY <1>1 DEF VerifyStart
<1>2. CASE Dump
  BY <1>2 DEF Dump
<1>3. CASE MakeSinkhole
  <2>1. /\ vpc = "netns" /\ UNCHANGED <<round, done, field, port>> /\ round \in Rounds
        /\ \/ vpc' = "restore" /\ lpc' = [lpc EXCEPT ![round] = "start"]
           \/ vpc' = "remove" /\ lpc' = lpc
    BY <1>3 DEF MakeSinkhole
  <2> QED
    BY <2>1
<1>4. CASE Timeout
  BY <1>4 DEF Timeout
<1>5. CASE Restore \/ Tick \/ WaitEnds \/ Judge
  BY <1>5 DEF Restore, Tick, WaitEnds, Judge
<1>6. CASE CloseListener
  BY <1>6 DEF CloseListener
<1>7. CASE DeleteRule \/ DeleteNetwork \/ RemoveDir
  BY <1>7 DEF DeleteRule, DeleteNetwork, RemoveDir
<1>8. ASSUME NEW r \in Rounds, Bind(r) PROVE Current'
  <2>1. \/ port = 0 /\ port' = r /\ field' = field \cup {r} /\ lpc' = [lpc EXCEPT ![r] = "rule"]
        \/ lpc' = [lpc EXCEPT ![r] = "done"] /\ UNCHANGED <<port, field>>
    BY <1>8 DEF Bind
  <2>2. lpc[r] = "start" /\ UNCHANGED <<vpc, round, done>>
    BY <1>8 DEF Bind
  <2> QED
    BY <2>1, <2>2
<1>9. ASSUME NEW r \in Rounds, AddRule(r) \/ Loop(r) \/ AcceptFails(r) PROVE Current'
  BY <1>9 DEF AddRule, Loop, AcceptFails
<1>10. ASSUME NEW r \in Rounds, NEW c \in Conns, NEW copy \in BOOLEAN, Accept(r, c, copy)
       PROVE  Current'
  BY <1>10 DEF Accept
<1>11. CASE UNCHANGED vars \/ \E c \in Conns : HandleConnection(c)
  <2>1. UNCHANGED <<vpc, round, done, lpc, field, port>>
    BY <1>11 DEF vars, HandleConnection
  <2> QED
    BY <2>1
<1> QED
  BY <1>1, <1>2, <1>3, <1>4, <1>5, <1>6, <1>7, <1>8, <1>9, <1>10, <1>11 DEF Next, Verify, Listen

(* Whatever goroutines earlier verifications left running, it is the       *)
(* present one's listener that accepts a connection.                       *)
THEOREM CountedForTheRightOne == Spec => CountedForItsVerification
<1> DEFINE Counted == \A c \in Conns :
                        conn[c].st = "none" /\ conn'[c].st # "none" => conn'[c].round = round
<1>1. ASSUME Typed, Current, [Next]_vars PROVE Counted \/ UNCHANGED vars
  <2> USE <1>1 DEF machineVars, listenerVars, verifyVars
  <2>1. ASSUME NEW r \in Rounds, NEW c \in Conns, NEW copy \in BOOLEAN, Accept(r, c, copy)
        PROVE  Counted
    <3>1. r = round
      BY <2>1, VerifyAssumption DEF Accept, Current, Rounds
    <3>2. conn'[c].round = r /\ \A d \in Conns \ {c} : conn'[d] = conn[d]
      BY <2>1 DEF Accept, Typed, TypeOK
    <3> QED
      BY <3>1, <3>2
  <2>2. CASE Tick
    <3>1. \A c \in Conns : conn[c].st = "none" => conn'[c] = conn[c]
      BY <2>2 DEF Tick
    <3> QED
      BY <3>1
  <2>3. ASSUME NEW c \in Conns, HandleConnection(c) PROVE Counted
    <3>1. conn[c].st = "reading" /\ \A d \in Conns \ {c} : conn'[d] = conn[d]
      BY <2>3 DEF HandleConnection, Typed, TypeOK
    <3> QED
      BY <3>1
  <2>4. CASE conn' = conn
    BY <2>4
  <2>5. ASSUME ~Tick, \A r \in Rounds, c \in Conns, copy \in BOOLEAN : ~Accept(r, c, copy),
               \A c \in Conns : ~HandleConnection(c)
        PROVE  conn' = conn
    BY <2>5 DEF Next, vars, Verify, Timeout, Dump, MakeSinkhole, WaitEnds, Judge, VerifyStart,
        Restore, CloseListener, DeleteRule, DeleteNetwork, RemoveDir, Listen, Bind, AddRule,
        Loop, AcceptFails
  <2> QED
    BY <2>1, <2>2, <2>3, <2>4, <2>5
<1>2. Typed /\ Current /\ [Next]_vars => [Counted]_vars
  BY <1>1
<1>3. Init => Current
  BY VerifyAssumption DEF Init, Current, Rounds
<1>4. Spec => [][Counted]_vars
  BY <1>2, <1>3, TypedInit, TypedNext, CurrentNext, PTL DEF Spec
<1> QED
  BY <1>4 DEF CountedForItsVerification

-----------------------------------------------------------------------------
(* What Verify leaves behind.                                              *)

(* The goroutines: the listener of a verification yet to make its sinkhole *)
(* is not started, and only this verification's is still being set up.     *)
Listeners ==
  /\ \A r \in Rounds : r > round \/ (r = round /\ vpc \in {"dump", "netns"}) => lpc[r] = "none"
  /\ \A r \in Rounds : lpc[r] \in {"start", "rule"} =>
       r = round /\ (vpc = "restore" \/ (vpc = "wait" /\ clock > 0))

(* The machine: what is on it is this verification's, and Cleanup is still *)
(* to come.                                                                *)
Machine ==
  /\ port # 0 => port = round /\ round \in field /\ vpc \in Sunk
  /\ rules # 0 => /\ rules = 1 /\ vpc \in Sunk \cup {"rule"}
                  /\ lpc[round] \in {"loop", "accept", "done"}
  /\ vpc \in {"idle", "dump", "netns", "remove"} => ns = {} /\ veth = "absent"
  /\ ns \subseteq {pid}
  /\ vpc = "idle" => ~dir

(* No listener is still being set up when the sleep is over: every step    *)
(* keeps the goroutines in their places.                                   *)
LEMMA ListenersNext ==
  ASSUME Prompt, Typed, Listeners, [Next]_vars
  PROVE  Listeners'
<1> USE VerifyAssumption DEF Typed, TypeOK, Rounded, Rounds, Listeners,
                             machineVars, listenerVars, verifyVars
<1>1. ASSUME NEW p \in Pids, VerifyStart(p) PROVE Listeners'
  BY <1>1 DEF VerifyStart
<1>2. CASE Dump
  BY <1>2 DEF Dump
<1>3. CASE MakeSinkhole
  <2>1. /\ vpc = "netns" /\ UNCHANGED <<round, clock>> /\ round \in Rounds
        /\ \/ vpc' = "restore" /\ lpc' = [lpc EXCEPT ![round] = "start"]
           \/ vpc' = "remove" /\ lpc' = lpc
    BY <1>3 DEF MakeSinkhole
  <2> QED
    BY <2>1
<1>4. CASE Restore
  BY <1>4 DEF Restore, WaitSecs
<1>5. CASE Tick
  BY <1>5 DEF Tick, WaitSecs
<1>6. CASE WaitEnds
  BY <1>6 DEF WaitEnds
<1>7. CASE Judge \/ CloseListener \/ DeleteRule \/ DeleteNetwork \/ RemoveDir
  BY <1>7 DEF Judge, CloseListener, DeleteRule, DeleteNetwork, RemoveDir
<1>8. ASSUME NEW r \in Rounds, NEW l \in {"rule", "loop", "accept", "done"},
             lpc[r] \in {"start", "rule", "loop", "accept"}, l = "rule" => lpc[r] = "start",
             lpc' = [lpc EXCEPT ![r] = l], UNCHANGED <<round, vpc, clock>>
      PROVE  Listeners'
  BY <1>8
<1>9. ASSUME NEW r \in Rounds, Listen(r) PROVE Listeners'
  <2>1. lpc[r] \in {"start", "rule", "loop", "accept"} /\ UNCHANGED <<round, vpc, clock>>
    BY <1>9 DEF Listen, Bind, AddRule, Loop, AcceptFails
  <2>2. \E l \in {"rule", "loop", "accept", "done"} :
          lpc' = [lpc EXCEPT ![r] = l] /\ (l = "rule" => lpc[r] = "start")
    BY <1>9 DEF Listen, Bind, AddRule, Loop, AcceptFails
  <2> QED
    BY <2>1, <2>2, <1>8
<1>10. ASSUME NEW r \in Rounds, NEW c \in Conns, NEW copy \in BOOLEAN, Accept(r, c, copy) PROVE Listeners'
  BY <1>10, <1>8 DEF Accept
<1>11. CASE Timeout \/ UNCHANGED vars \/ \E c \in Conns : HandleConnection(c)
  BY <1>11 DEF Timeout, vars, HandleConnection
<1> QED
  BY <1>1, <1>2, <1>3, <1>4, <1>5, <1>6, <1>7, <1>9, <1>10, <1>11 DEF Next, Verify

(* Every step keeps the machine's state this verification's own.           *)
LEMMA MachineNext ==
  ASSUME Typed, Listeners, Machine, [Next]_vars
  PROVE  Machine'
<1> USE VerifyAssumption DEF Typed, TypeOK, Rounded, Rounds, Machine, Sunk,
                             machineVars, listenerVars, verifyVars
<1>1. ASSUME NEW p \in Pids, VerifyStart(p) PROVE Machine'
  BY <1>1 DEF VerifyStart
<1>2. CASE Dump
  BY <1>2 DEF Dump
<1>3. CASE MakeSinkhole
  BY <1>3 DEF MakeSinkhole
<1>4. CASE Restore \/ Tick \/ WaitEnds \/ Judge
  BY <1>4 DEF Restore, Tick, WaitEnds, Judge
<1>5. CASE CloseListener
  BY <1>5 DEF CloseListener
<1>6. CASE DeleteRule
  BY <1>6 DEF DeleteRule
<1>7. CASE DeleteNetwork \/ RemoveDir
  BY <1>7 DEF DeleteNetwork, RemoveDir
<1>8. ASSUME NEW r \in Rounds, Bind(r) PROVE Machine'
  <2>1. r = round /\ vpc \in {"restore", "wait"} /\ rules = 0
    BY <1>8 DEF Bind, Listeners
  <2> QED
    BY <1>8, <2>1 DEF Bind
<1>9. ASSUME NEW r \in Rounds, AddRule(r) PROVE Machine'
  <2>1. r = round /\ vpc \in {"restore", "wait"} /\ rules = 0
    BY <1>9 DEF AddRule, Listeners
  <2> QED
    BY <1>9, <2>1 DEF AddRule
<1>10. ASSUME NEW r \in Rounds, Loop(r) \/ AcceptFails(r) PROVE Machine'
  BY <1>10 DEF Loop, AcceptFails
<1>11. ASSUME NEW r \in Rounds, NEW c \in Conns, NEW copy \in BOOLEAN, Accept(r, c, copy) PROVE Machine'
  BY <1>11 DEF Accept
<1>12. CASE Timeout \/ UNCHANGED vars \/ \E c \in Conns : HandleConnection(c)
  <2>1. UNCHANGED <<vpc, pid, round, lpc, field, machineVars>>
    BY <1>12 DEF Timeout, vars, HandleConnection
  <2> QED
    BY <2>1
<1> QED
  BY <1>1, <1>2, <1>3, <1>4, <1>5, <1>6, <1>7, <1>8, <1>9, <1>10, <1>11, <1>12
     DEF Next, Verify, Listen

(* If the listener is set up before the sleep is over, a Verify that has   *)
(* returned, on any path and after any number of others, has left neither  *)
(* directory, namespace, device, redirection nor port on the machine.      *)
THEOREM VerifyLeavesNothing ==
  ASSUME Prompt
  PROVE  Spec => []CleanedUp
<1>1. Init => Listeners /\ Machine
  BY VerifyAssumption DEF Init, Listeners, Machine, Rounds
<1>2. Typed /\ Listeners /\ Machine /\ [Next]_vars => (Listeners /\ Machine)'
  BY ListenersNext, MachineNext
<1>3. Machine => CleanedUp
  BY DEF Machine, Sunk, CleanedUp
<1> QED
  BY <1>1, <1>2, <1>3, TypedInit, TypedNext, PTL DEF Spec

=============================================================================
