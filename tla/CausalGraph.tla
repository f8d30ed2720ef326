---------------------------- MODULE CausalGraph ----------------------------
(***************************************************************************)
(* internal/graph/graph.go as the event processor and the handlers of      *)
(* cmd/sensor/main.go use it.  Every method holds the graph's mutex, so    *)
(* each call is a step; between the calls for one event the process tree   *)
(* moves on, and an operator may trust a process.                          *)
(*                                                                         *)
(* Trust is a percentage, rounded down where the code keeps a float; a     *)
(* score may be any of Scores.                                             *)
(***************************************************************************)
EXTENDS Naturals, FiniteSets

CONSTANTS Pids,      \* processes
          NoPid,     \* PPID 0: no parent
          Root,      \* init: adopts orphans, never exits
          Objects,   \* files and sockets
          Scores,    \* trust scores that TrustScorer may compute
          Trustable, \* PIDs an operator may trust
          Reuse,     \* a dead process's PID may be given away again
          MaxBirths  \* bound: processes born

ASSUME PidsAssumption    == NoPid \notin Pids /\ Root \in Pids /\ IsFiniteSet(Pids)
ASSUME ObjectsAssumption == Objects # {} /\ Objects \cap Pids = {}
ASSUME ScoresAssumption  == Scores \subseteq 0 .. 100 /\ Trustable \subseteq Pids
ASSUME ReuseAssumption   == Reuse \in BOOLEAN /\ MaxBirths \in Nat

VARIABLES live,    \* the process tree of the machine
          births,  \* history: births so far
          node,    \* pidNode, and nodes of type process
          trust,   \* their Trust
          objs,    \* nodes of type file and socket
          kids,    \* children: ppid -> pids
          forks,   \* edges between processes
          uses,    \* edges from a process to a file or socket
          ppc, ev, \* the processor: its place and its event
          trusted, \* customTrustedPIDs
          setting  \* PIDs whose trust an operator's request is about to set

treeVars  == <<live, births>>
graphVars == <<node, trust, objs, kids, forks, uses>>
vars == <<treeVars, graphVars, ppc, ev, trusted, setting>>

Parents == Pids \cup {NoPid}
Nodes   == Pids \cup Objects
Live    == [st : {"unborn", "alive", "dead"}, ppid : Parents, born : Nat]
Node    == [in : BOOLEAN, ppid : Parents]
Event   == [pid : Pids, ppid : Parents, exec : BOOLEAN, obj : Objects]
NoEvent == [pid |-> Root, ppid |-> NoPid, exec |-> FALSE, obj |-> CHOOSE o \in Objects : TRUE]
Places  == {"idle", "self", "object", "use", "parent", "fork", "gate", "score", "overflow"}

Init == /\ live = [p \in Pids |-> [st |-> IF p = Root THEN "alive" ELSE "unborn",
                                   ppid |-> NoPid, born |-> 0]]
        /\ births = 0
        /\ node = [p \in Pids |-> [in |-> FALSE, ppid |-> NoPid]]
        /\ trust = [p \in Pids |-> 100]
        /\ objs = {} /\ forks = {} /\ uses = {}
        /\ kids = [p \in Pids |-> {}]
        /\ ppc = "idle" /\ ev = NoEvent
        /\ trusted = {} /\ setting = {}

-----------------------------------------------------------------------------
(* The machine.  An orphan goes to a subreaper among its ancestors or to   *)
(* init.                                                                   *)

Fork(p, parent) ==
  /\ live[parent].st = "alive" /\ births < MaxBirths
  /\ live[p].st \in IF Reuse THEN {"unborn", "dead"} ELSE {"unborn"}
  /\ births' = births + 1
  /\ live' = [live EXCEPT ![p] = [st |-> "alive", ppid |-> parent, born |-> births']]
  /\ UNCHANGED <<graphVars, ppc, ev, trusted, setting>>

Exit(p) ==
  /\ p # Root /\ live[p].st = "alive"
  /\ \E heir \in {Root, live[p].ppid} :
       live' = [q \in Pids |->
                  IF q = p THEN [live[p] EXCEPT !.st = "dead"]
                  ELSE IF live[q].ppid = p /\ live[q].st = "alive"
                       THEN [live[q] EXCEPT !.ppid = heir] ELSE live[q]]
  /\ UNCHANGED <<births, graphVars, ppc, ev, trusted, setting>>

-----------------------------------------------------------------------------
(* The processor.  A tracepoint reports the parent of the moment; by the   *)
(* time the event is handled, the process tree may look different.         *)

TakeEvent(p, exec, obj) ==
  /\ ppc = "idle" /\ live[p].st = "alive"
  /\ ev' = [pid |-> p, ppid |-> live[p].ppid, exec |-> exec, obj |-> obj]
  /\ ppc' = "self"
  /\ UNCHANGED <<treeVars, graphVars, trusted, setting>>

(* A new node starts with its parent's trust, reduced when that is low.    *)
Inherited(ppid) ==
  IF ppid = NoPid \/ ~node[ppid].in THEN 100
  ELSE IF trust[ppid] >= 70 THEN trust[ppid] ELSE (90 * trust[ppid]) \div 100

(* Mutant: an existing node is attached to its new parent as well. *)
AddProcessNodeAgain(pid, ppid) ==
  /\ node' = [node EXCEPT ![pid] = [in |-> TRUE, ppid |-> ppid]]
  /\ trust' = [trust EXCEPT ![pid] = Inherited(ppid)]
  /\ kids' = IF ppid = NoPid THEN kids ELSE [kids EXCEPT ![ppid] = @ \cup {pid}]

(* AddProcessNode: an existing node is returned as it is.                  *)
AddProcessNode(pid, ppid) ==
  IF node[pid].in
  THEN UNCHANGED <<node, trust, kids>>
  ELSE /\ node' = [node EXCEPT ![pid] = [in |-> TRUE, ppid |-> ppid]]
       /\ trust' = [trust EXCEPT ![pid] = Inherited(ppid)]
       /\ kids' = IF ppid = NoPid THEN kids ELSE [kids EXCEPT ![ppid] = @ \cup {pid}]

AddSelf ==
  /\ ppc = "self"
  /\ AddProcessNode(ev.pid, ev.ppid)
  /\ ppc' = "object"
  /\ UNCHANGED <<treeVars, objs, forks, uses, ev, trusted, setting>>

(* AddFileNode and AddSocketNode; noise and empty paths leave no node.     *)
AddObject ==
  /\ ppc = "object"
  /\ \/ objs' = objs \cup {ev.obj} /\ ppc' = "use"
     \/ ppc' = "parent" /\ UNCHANGED objs
  /\ UNCHANGED <<treeVars, node, trust, kids, forks, uses, ev, trusted, setting>>

AddUse ==
  /\ ppc = "use"
  /\ uses' = uses \cup {<<ev.pid, ev.obj>>}
  /\ ppc' = "parent"
  /\ UNCHANGED <<treeVars, node, trust, objs, kids, forks, ev, trusted, setting>>

(* Mutant: the parent is registered as a child of its own child. *)
AddParentSwapped ==
  /\ ppc = "parent"
  /\ IF ev.exec /\ ev.ppid # NoPid
     THEN AddProcessNode(ev.ppid, ev.pid) /\ ppc' = "fork"
     ELSE UNCHANGED <<node, trust, kids>> /\ ppc' = "gate"
  /\ UNCHANGED <<treeVars, objs, forks, uses, ev, trusted, setting>>

(* execve: the parent gets a node too, without name or parent of its own.  *)
AddParent ==
  /\ ppc = "parent"
  /\ IF ev.exec /\ ev.ppid # NoPid
     THEN AddProcessNode(ev.ppid, NoPid) /\ ppc' = "fork"
     ELSE UNCHANGED <<node, trust, kids>> /\ ppc' = "gate"
  /\ UNCHANGED <<treeVars, objs, forks, uses, ev, trusted, setting>>

(* Mutant: the edge points from the child to its parent on the retry. *)
AddForkBothWays ==
  /\ ppc = "fork"
  /\ forks' = forks \cup {IF <<ev.ppid, ev.pid>> \in forks THEN <<ev.pid, ev.ppid>>
                          ELSE <<ev.ppid, ev.pid>>}
  /\ ppc' = "gate"
  /\ UNCHANGED <<treeVars, node, trust, objs, kids, uses, ev, trusted, setting>>

AddFork ==
  /\ ppc = "fork"
  /\ forks' = forks \cup {<<ev.ppid, ev.pid>>}
  /\ ppc' = "gate"
  /\ UNCHANGED <<treeVars, node, trust, objs, kids, uses, ev, trusted, setting>>

EndEvent == ppc' = "idle" /\ ev' = NoEvent

(* A process that is trusted, by its PID or by its name, is not scored.    *)
(* The scorer's answer takes its time.                                     *)
Gate ==
  /\ ppc = "gate"
  /\ \/ EndEvent
     \/ ev.pid \notin trusted /\ ppc' = "score" /\ UNCHANGED ev
  /\ UNCHANGED <<treeVars, graphVars, trusted, setting>>

(* propagateTrust follows the children of the children; it comes back      *)
(* unless some generation repeats, which the |Pids|-th then still has.     *)
Generations(p) ==
  LET g[n \in 0 .. Cardinality(Pids)] ==
        IF n = 0 THEN {p} ELSE UNION {kids[q] : q \in g[n - 1]}
  IN  g

Returns(p) == Generations(p)[Cardinality(Pids)] = {}

Decayed(score) ==
  LET d[n \in 0 .. Cardinality(Pids)] == IF n = 0 THEN score ELSE (85 * d[n - 1]) \div 100
  IN  d

(* Mutant: only the children are told. *)
PropagateOnce(p, score) ==
  [q \in Pids |-> IF q = p THEN score
                  ELSE IF q \in kids[p] THEN Decayed(score)[1] ELSE trust[q]]

Propagate(p, score) ==
  [q \in Pids |->
     IF \E n \in 0 .. Cardinality(Pids) : q \in Generations(p)[n]
     THEN Decayed(score)[CHOOSE n \in 0 .. Cardinality(Pids) : q \in Generations(p)[n]]
     ELSE trust[q]]

(* Respond: a process that is trusted by now, by PID or by name, is set to *)
(* 100, any other is scored.  Endless recursion ends the monitor.          *)
Score ==
  /\ ppc = "score"
  /\ \/ trust' = [trust EXCEPT ![ev.pid] = 100] /\ EndEvent
     \/ /\ ev.pid \notin trusted /\ Returns(ev.pid)
        /\ \E score \in Scores : trust' = Propagate(ev.pid, score)
        /\ EndEvent
     \/ /\ ev.pid \notin trusted /\ ~Returns(ev.pid)
        /\ ppc' = "overflow" /\ UNCHANGED <<trust, ev>>
  /\ UNCHANGED <<treeVars, node, objs, kids, forks, uses, trusted, setting>>

-----------------------------------------------------------------------------
(* An operator trusts a PID: TrustProcess, then SetProcessTrust, which the *)
(* handler repeats after TrustProcess has called it; so may the operator.  *)

TrustProcess(p) ==
  /\ ppc # "overflow" /\ p \in Trustable
  /\ trusted' = trusted \cup {p} /\ setting' = setting \cup {p}
  /\ UNCHANGED <<treeVars, graphVars, ppc, ev>>

SetProcessTrust(p) ==
  /\ ppc # "overflow" /\ p \in setting
  /\ trust' = IF node[p].in THEN [trust EXCEPT ![p] = 100] ELSE trust
  /\ setting' = setting \ {p}
  /\ UNCHANGED <<treeVars, node, objs, kids, forks, uses, ppc, ev, trusted>>

-----------------------------------------------------------------------------
Processor == AddSelf \/ AddObject \/ AddUse \/ AddParent \/ AddFork \/ Gate \/ Score

Next == \/ \E p, q \in Pids : Fork(p, q)
        \/ \E p \in Pids : Exit(p)
        \/ \E p \in Pids, exec \in BOOLEAN, obj \in Objects : TakeEvent(p, exec, obj)
        \/ Processor
        \/ \E p \in Pids : TrustProcess(p) \/ SetProcessTrust(p)

Spec == Init /\ [][Next]_vars

-----------------------------------------------------------------------------
(* Types: edges lead from processes, never from "no parent", and every     *)
(* trust stays a percentage.                                               *)
GraphOK == /\ live \in [Pids -> Live] /\ births \in Nat
           /\ node \in [Pids -> Node] /\ objs \subseteq Objects
           /\ kids \in [Pids -> SUBSET Pids]
           /\ forks \subseteq Pids \X Pids /\ uses \subseteq Pids \X Objects
           /\ ppc \in Places /\ ev \in Event
           /\ trusted \subseteq Pids /\ setting \subseteq Pids

(* The graph has its type, and every process a trust from 0 to 100.        *)
TypeOK == GraphOK /\ trust \in [Pids -> 0 .. 100]

(* A relation is acyclic when every set of nodes has one that no node of   *)
(* the set points to.                                                      *)
AcyclicOn(S, R) == \A T \in SUBSET S : T # {} => \E x \in T : \A y \in T : <<y, x>> \notin R

(* The provenance graph is a directed acyclic graph.                       *)
Acyclic == AcyclicOn(Nodes, forks \cup uses)

(* So is the tree along which trust is propagated: the recursion returns.  *)
TreeAcyclic == AcyclicOn(Pids, {r \in Pids \X Pids : r[2] \in kids[r[1]]})

(* The ends of every edge are nodes of the graph, at every moment at which *)
(* a reader may take the lock and follow it.                               *)
EdgesJoinNodes == /\ \A r \in forks : node[r[1]].in /\ node[r[2]].in
                  /\ \A r \in uses : node[r[1]].in /\ r[2] \in objs

(* A process hangs under one parent only, the one its node names, so a     *)
(* propagation reaches it at most once.                                    *)
OneParent == \A p, q \in Pids : q \in kids[p] => node[q].in /\ node[q].ppid = p

(* A score below 100% reaches all descendants: none keeps more than 85% of *)
(* it.                                                                     *)
DescendantsDecay ==
  [][ppc = "score" /\ ppc' = "idle" /\ trust'[ev.pid] < 100 =>
       \A n \in 1 .. Cardinality(Pids) : \A q \in Generations(ev.pid)[n] :
         100 * trust'[q] <= 85 * trust'[ev.pid]]_vars

(* After an event the node says who the process's parent was.              *)
NodeIsCurrent ==
  [][ppc = "self" /\ ppc' # "self" => node'[ev.pid].ppid = ev.ppid]_vars

(* At rest a process an operator trusts has 100% trust in the graph.       *)
FullyTrusted ==
  ppc = "idle" /\ setting = {} => \A p \in trusted : node[p].in => trust[p] = 100

=============================================================================
