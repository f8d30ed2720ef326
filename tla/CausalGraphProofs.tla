------------------------- MODULE CausalGraphProofs -------------------------
(***************************************************************************)
(* Proofs about CausalGraph.  As long as no PID is used twice, every edge  *)
(* of the provenance graph, and every step of the tree along which trust   *)
(* is propagated, leads from an older process to a younger one; so both    *)
(* are acyclic, for any number of processes, and the propagation returns.  *)
(* That edges join nodes, that a process hangs under one parent and that   *)
(* trust decays on its way down the tree holds with reused PIDs as well.   *)
(***************************************************************************)
EXTENDS CausalGraph, FiniteSetTheorems, WellFoundedInduction, TLAPS

(* A nonempty set of numbers has a least one.                              *)
LEMMA NatHasLeast ==
  ASSUME NEW T \in SUBSET Nat, T # {}
  PROVE  \E x \in T : \A y \in T : x <= y
<1>1. PICK x \in T : \A y \in T : <<y, x>> \notin OpToRel(<, Nat)
  BY NatLessThanWellFounded, WFMin
<1>2. SUFFICES ASSUME NEW y \in T PROVE x <= y
  OBVIOUS
<1>3. <<y, x>> \in Nat \X Nat /\ <<y, x>> \notin {ss \in Nat \X Nat : ss[1] < ss[2]}
  BY <1>1 DEF OpToRel
<1>4. ~(<<y, x>>[1] < <<y, x>>[2])
  BY <1>3
<1>5. QED
  BY <1>4

-----------------------------------------------------------------------------
(* Types, apart from the amounts of trust.                                 *)

(* A fork edge is only added when the event named a parent.                *)
ForkHasParent == ppc = "fork" => ev.ppid \in Pids
Typed == GraphOK /\ ForkHasParent

(* NoEvent is an event.                                                    *)
LEMMA NoEventTyped == NoEvent \in Event
BY ObjectsAssumption, PidsAssumption DEF NoEvent, Event, Parents

(* Initially everything has its type.                                      *)
LEMMA TypedInit == Init => Typed
BY NoEventTyped, PidsAssumption DEF Init, Typed, ForkHasParent, GraphOK, Live, Node, Parents, Places

(* Adding a node keeps the node table and the children table typed.        *)
LEMMA AddTyped ==
  ASSUME GraphOK, NEW pid \in Pids, NEW ppid \in Parents, AddProcessNode(pid, ppid)
  PROVE  node' \in [Pids -> Node] /\ kids' \in [Pids -> SUBSET Pids]
<1>1. [in |-> TRUE, ppid |-> ppid] \in Node
  BY DEF Node
<1>2. CASE ppid = NoPid
  BY <1>1, <1>2 DEF AddProcessNode, GraphOK
<1>3. CASE ppid \in Pids
  <2>1. kids[ppid] \cup {pid} \in SUBSET Pids
    BY <1>3 DEF GraphOK
  <2>2. CASE node[pid].in
    BY <2>2 DEF AddProcessNode, GraphOK
  <2>3. CASE ~node[pid].in
    <3>1. node' = [node EXCEPT ![pid] = [in |-> TRUE, ppid |-> ppid]]
      BY <2>3 DEF AddProcessNode
    <3>2. kids' = [kids EXCEPT ![ppid] = kids[ppid] \cup {pid}]
      BY <1>3, <2>3, PidsAssumption DEF AddProcessNode
    <3>3. QED
      BY <1>1, <2>1, <3>1, <3>2 DEF GraphOK
  <2>4. QED
    BY <2>2, <2>3
<1>4. QED
  BY <1>2, <1>3 DEF Parents

(* An event names a process and, unless there is none, a parent.           *)
LEMMA EventTyped ==
  ASSUME GraphOK
  PROVE  ev.pid \in Pids /\ ev.ppid \in Parents /\ ev.obj \in Objects /\ ev.exec \in BOOLEAN
BY DEF GraphOK, Event

(* Every step keeps the types.                                             *)
LEMMA TypedNext == Typed /\ [Next]_vars => Typed'
<1> SUFFICES ASSUME Typed, [Next]_vars PROVE Typed'
  OBVIOUS
<1> USE DEF Typed, ForkHasParent
<1>e. ev.pid \in Pids /\ ev.ppid \in Parents /\ ev.obj \in Objects
  BY EventTyped
<1>1. ASSUME NEW p \in Pids, NEW q \in Pids, Fork(p, q) PROVE Typed'
  <2>1. births' \in Nat /\ [st |-> "alive", ppid |-> q, born |-> births'] \in Live
    BY <1>1 DEF Fork, GraphOK, Live, Parents
  <2>2. QED
    BY <1>1, <2>1 DEF Fork, GraphOK, graphVars
<1>2. ASSUME NEW p \in Pids, Exit(p) PROVE Typed'
  <2>1. PICK heir \in {Root, live[p].ppid} :
          live' = [q \in Pids |->
                     IF q = p THEN [live[p] EXCEPT !.st = "dead"]
                     ELSE IF live[q].ppid = p /\ live[q].st = "alive"
                          THEN [live[q] EXCEPT !.ppid = heir] ELSE live[q]]
    BY <1>2 DEF Exit
  <2>2. heir \in Parents
    BY PidsAssumption DEF GraphOK, Live, Parents
  <2>3. \A q \in Pids : /\ live[q] \in Live
                        /\ [live[q] EXCEPT !.st = "dead"] \in Live
                        /\ [live[q] EXCEPT !.ppid = heir] \in Live
    BY <2>2 DEF GraphOK, Live
  <2>4. live' \in [Pids -> Live]
    BY <2>1, <2>3
  <2>5. QED
    BY <1>2, <2>4 DEF Exit, GraphOK, graphVars
<1>3. ASSUME NEW p \in Pids, NEW exec \in BOOLEAN, NEW obj \in Objects,
             TakeEvent(p, exec, obj)
      PROVE  Typed'
  <2>1. [pid |-> p, ppid |-> live[p].ppid, exec |-> exec, obj |-> obj] \in Event
    BY DEF GraphOK, Live, Event
  <2>2. QED
    BY <1>3, <2>1 DEF TakeEvent, GraphOK, graphVars, treeVars, Places
<1>4. CASE AddSelf
  BY <1>4, <1>e, AddTyped DEF AddSelf, GraphOK, treeVars, Places
<1>5. CASE AddObject
  BY <1>5, <1>e DEF AddObject, GraphOK, treeVars, Places
<1>6. CASE AddUse
  BY <1>6, <1>e DEF AddUse, GraphOK, treeVars, Places
<1>7. CASE AddParent
  BY <1>7, <1>e, AddTyped DEF AddParent, GraphOK, treeVars, Places, Parents
<1>8. CASE AddFork
  BY <1>8, <1>e DEF AddFork, GraphOK, treeVars, Places
<1>9. CASE Gate
  BY <1>9, NoEventTyped DEF Gate, EndEvent, GraphOK, treeVars, graphVars, Places
<1>10. CASE Score
  BY <1>10, NoEventTyped DEF Score, EndEvent, GraphOK, treeVars, Places
<1>11. ASSUME NEW p \in Pids, TrustProcess(p) PROVE Typed'
  BY <1>11 DEF TrustProcess, GraphOK, treeVars, graphVars
<1>12. ASSUME NEW p \in Pids, SetProcessTrust(p) PROVE Typed'
  BY <1>12 DEF SetProcessTrust, GraphOK, treeVars
<1>13. CASE UNCHANGED vars
  BY <1>13 DEF vars, treeVars, graphVars, GraphOK
<1>14. QED
  BY <1>1, <1>2, <1>3, <1>4, <1>5, <1>6, <1>7, <1>8, <1>9, <1>10, <1>11, <1>12, <1>13
  DEF Next, Processor

(* Everything but the amounts of trust keeps its type.                     *)
THEOREM GraphTyped == Spec => []GraphOK
BY TypedInit, TypedNext, PTL DEF Spec, Typed

-----------------------------------------------------------------------------
(* Edges join nodes, and a process hangs under one parent.                 *)

InFlight ==
  /\ ppc \in {"object", "use", "parent", "fork"} => node[ev.pid].in
  /\ ppc = "use" => ev.obj \in objs
  /\ ppc = "fork" => node[ev.ppid].in
Joined == Typed /\ InFlight /\ EdgesJoinNodes /\ OneParent

(* No step changes a node that is there, or removes one.                   *)
LEMMA NodesStay ==
  ASSUME Typed, [Next]_vars
  PROVE  /\ \A p \in Pids : node[p].in => node'[p] = node[p]
         /\ objs \subseteq objs'
<1>1. ASSUME NEW pid \in Pids, NEW ppid \in Parents, AddProcessNode(pid, ppid)
      PROVE  \A p \in Pids : node[p].in => node'[p] = node[p]
  BY <1>1 DEF AddProcessNode, Typed, GraphOK
<1>2. CASE AddSelf
  BY <1>1, <1>2, EventTyped DEF AddSelf, Typed
<1>3. CASE AddParent
  BY <1>1, <1>3, EventTyped DEF AddParent, Typed, Parents
<1>4. CASE AddObject
  BY <1>4 DEF AddObject
<1>5. CASE UNCHANGED <<node, objs>>
  BY <1>5
<1>6. QED
  BY <1>2, <1>3, <1>4, <1>5
  DEF Next, Processor, Fork, Exit, TakeEvent, AddUse, AddFork, Gate, Score, TrustProcess,
      SetProcessTrust, vars, graphVars

(* A node that is added is there, under the parent it names and no other.  *)
LEMMA AddJoins ==
  ASSUME Typed, OneParent, NEW pid \in Pids, NEW ppid \in Parents,
         AddProcessNode(pid, ppid)
  PROVE  node'[pid].in /\ OneParent'
<1>1. CASE node[pid].in
  BY <1>1 DEF AddProcessNode, OneParent
<1>2. CASE ~node[pid].in
  <2>1. /\ node'[pid].in /\ node'[pid].ppid = ppid
        /\ \A q \in Pids : q # pid => node'[q] = node[q]
    BY <1>2 DEF AddProcessNode, Typed, GraphOK
  <2>2. \A p \in Pids : \A q \in kids'[p] : (q = pid /\ p = ppid) \/ q \in kids[p]
    BY <1>2 DEF AddProcessNode, Typed, GraphOK
  <2>3. \A p \in Pids : pid \notin kids[p]
    BY <1>2 DEF OneParent
  <2>4. QED
    BY <2>1, <2>2, <2>3 DEF OneParent
<1>3. QED
  BY <1>1, <1>2

(* Initially the graph is empty.                                           *)
LEMMA JoinedInit == Init => Joined
BY TypedInit DEF Init, Joined, InFlight, EdgesJoinNodes, OneParent

(* Every step keeps edges between nodes and one parent per process.        *)
LEMMA JoinedNext == Joined /\ [Next]_vars => Joined'
<1> SUFFICES ASSUME Joined, [Next]_vars PROVE Joined'
  OBVIOUS
<1>t. Typed'
  BY TypedNext DEF Joined
<1>e. ev.pid \in Pids /\ ev.ppid \in Parents
  BY EventTyped DEF Joined, Typed
<1>s. /\ \A p \in Pids : node[p].in => node'[p] = node[p]
      /\ objs \subseteq objs'
  BY NodesStay DEF Joined
<1>f. \A r \in forks : r[1] \in Pids /\ r[2] \in Pids
  BY DEF Joined, Typed, GraphOK
<1>u. \A r \in uses : r[1] \in Pids
  BY DEF Joined, Typed, GraphOK
<1>j. (forks' = forks /\ uses' = uses) => EdgesJoinNodes'
  BY <1>s, <1>f, <1>u DEF Joined, EdgesJoinNodes
<1>1. CASE AddSelf
  <2>1. AddProcessNode(ev.pid, ev.ppid)
    BY <1>1 DEF AddSelf
  <2>2. node'[ev.pid].in /\ OneParent'
    BY <1>e, <2>1, AddJoins DEF Joined
  <2>3. QED
    BY <1>1, <1>t, <1>j, <2>2 DEF AddSelf, Joined, InFlight
<1>2. CASE AddObject
  BY <1>2, <1>t, <1>j DEF AddObject, Joined, InFlight, OneParent
<1>3. CASE AddUse
  BY <1>3, <1>t, <1>e, <1>s DEF AddUse, Joined, InFlight, OneParent, EdgesJoinNodes
<1>4. CASE AddParent
  <2>1. CASE ev.exec /\ ev.ppid # NoPid
    <3>1. ev.ppid \in Pids /\ AddProcessNode(ev.ppid, NoPid)
      BY <1>4, <1>e, <2>1 DEF AddParent, Parents
    <3>2. node'[ev.ppid].in /\ OneParent'
      BY <3>1, AddJoins DEF Joined, Parents
    <3>3. node'[ev.pid].in
      BY <1>4, <1>e, <1>s DEF AddParent, Joined, InFlight
    <3>4. QED
      BY <1>4, <1>t, <1>j, <2>1, <3>2, <3>3 DEF AddParent, Joined, InFlight
  <2>2. CASE ~(ev.exec /\ ev.ppid # NoPid)
    BY <1>4, <1>t, <1>j, <2>2 DEF AddParent, Joined, InFlight, OneParent
  <2>3. QED
    BY <2>1, <2>2
<1>5. CASE AddFork
  BY <1>5, <1>t, <1>e DEF AddFork, Joined, InFlight, OneParent, EdgesJoinNodes
<1>6. CASE ppc' \notin {"object", "use", "parent", "fork"} /\ UNCHANGED <<node, kids, forks, uses>>
  BY <1>6, <1>t, <1>j DEF Joined, InFlight, OneParent
<1>7. CASE UNCHANGED <<ppc, ev, node, objs, kids, forks, uses>>
  BY <1>7, <1>t, <1>j DEF Joined, InFlight, OneParent
<1>8. QED
  BY <1>1, <1>2, <1>3, <1>4, <1>5, <1>6, <1>7
  DEF Next, Processor, Fork, Exit, TakeEvent, Gate, Score, EndEvent, TrustProcess,
      SetProcessTrust, vars, graphVars

(* Edges join nodes at every moment, whatever PIDs are reused.             *)
THEOREM EdgesAlwaysJoinNodes == Spec => []EdgesJoinNodes
BY JoinedInit, JoinedNext, PTL DEF Spec, Joined

(* A process hangs under one parent, whatever PIDs are reused.             *)
THEOREM AlwaysOneParent == Spec => []OneParent
BY JoinedInit, JoinedNext, PTL DEF Spec, Joined

-----------------------------------------------------------------------------
(* Without reused PIDs, parents are older.                                 *)

Older(a, b) == /\ live[a].st # "unborn" /\ live[b].st # "unborn"
               /\ live[a].born < live[b].born

BornInOrder ==
  /\ live[Root].st # "unborn" /\ live[Root].born = 0
  /\ \A p \in Pids : /\ live[p].born <= births
                     /\ p # Root /\ live[p].st # "unborn" => live[p].born > 0
  /\ \A p \in Pids : live[p].st # "unborn" /\ live[p].ppid # NoPid => Older(live[p].ppid, p)
GraphInOrder ==
  /\ ev.ppid # NoPid => Older(ev.ppid, ev.pid)
  /\ \A r \in forks : Older(r[1], r[2])
  /\ \A p \in Pids : \A q \in kids[p] : Older(p, q)
InOrder == Typed /\ BornInOrder /\ GraphInOrder

(* Initially only init lives.                                              *)
LEMMA InOrderInit == Init => InOrder
<1> SUFFICES ASSUME Init PROVE InOrder
  OBVIOUS
<1>1. BornInOrder
  BY PidsAssumption DEF Init, BornInOrder
<1>2. GraphInOrder
  BY DEF Init, GraphInOrder, NoEvent
<1>3. QED
  BY <1>1, <1>2, TypedInit DEF InOrder

(* A birth takes an unborn PID: who was older stays older.                 *)
LEMMA ForkInOrder ==
  ASSUME ~Reuse, InOrder, NEW p \in Pids, NEW parent \in Pids, Fork(p, parent)
  PROVE  /\ BornInOrder'
         /\ \A a, b \in Pids : Older(a, b) => Older(a, b)'
<1>1. /\ live[p].st = "unborn" /\ live[parent].st = "alive" /\ births' = births + 1
      /\ live' = [live EXCEPT ![p] = [st |-> "alive", ppid |-> parent, born |-> births + 1]]
  BY DEF Fork
<1>2. /\ births \in Nat /\ live \in [Pids -> Live]
      /\ \A q \in Pids : live[q].born \in Nat /\ live[q].ppid \in Parents
  BY DEF InOrder, Typed, GraphOK, Live
<1>3. /\ live'[p].st = "alive" /\ live'[p].ppid = parent /\ live'[p].born = births + 1
      /\ \A q \in Pids : q # p => live'[q] = live[q]
  BY <1>1, <1>2
<1>4. ASSUME NEW a \in Pids, NEW b \in Pids, Older(a, b) PROVE Older(a, b)'
  BY <1>1, <1>3, <1>4 DEF Older
<1>5. parent # p /\ p # Root /\ live[parent].born <= births
  BY <1>1 DEF InOrder, BornInOrder
<1>6. Older(parent, p)'
  BY <1>1, <1>2, <1>3, <1>5 DEF Older
<1>7. ASSUME NEW q \in Pids, live'[q].st # "unborn", live'[q].ppid # NoPid
      PROVE  Older(live[q].ppid, q)' \/ q = p
  BY <1>2, <1>3, <1>4, <1>7 DEF InOrder, BornInOrder, Parents
<1>8. ASSUME NEW q \in Pids, live'[q].st # "unborn", live'[q].ppid # NoPid
      PROVE  Older(live[q].ppid, q)'
  BY <1>3, <1>6, <1>7, <1>8
<1>9. \A q \in Pids : /\ live'[q].born <= births'
                      /\ q # Root /\ live'[q].st # "unborn" => live'[q].born > 0
  BY <1>1, <1>2, <1>3 DEF InOrder, BornInOrder
<1>10. live'[Root].st # "unborn" /\ live'[Root].born = 0
  BY <1>3, <1>5, PidsAssumption DEF InOrder, BornInOrder
<1>11. QED
  BY <1>4, <1>8, <1>9, <1>10 DEF BornInOrder

(* An exit gives orphans to somebody older still.                          *)
LEMMA ExitInOrder ==
  ASSUME InOrder, NEW p \in Pids, Exit(p)
  PROVE  /\ BornInOrder'
         /\ \A a, b \in Pids : Older(a, b) => Older(a, b)'
<1>1. PICK heir \in {Root, live[p].ppid} :
        live' = [q \in Pids |->
                   IF q = p THEN [live[p] EXCEPT !.st = "dead"]
                   ELSE IF live[q].ppid = p /\ live[q].st = "alive"
                        THEN [live[q] EXCEPT !.ppid = heir] ELSE live[q]]
  BY DEF Exit
<1>2. /\ live \in [Pids -> Live] /\ births' = births
      /\ \A q \in Pids : live[q].born \in Nat /\ live[q].ppid \in Parents
  BY DEF InOrder, Typed, GraphOK, Live, Exit
<1>3. \A q \in Pids : /\ live'[q].born = live[q].born
                      /\ live'[q].st = "unborn" <=> live[q].st = "unborn"
  BY <1>1, <1>2 DEF Live, Exit
<1>4. \A a, b \in Pids : Older(a, b) <=> Older(a, b)'
  BY <1>3 DEF Older
<1>5. ASSUME NEW q \in Pids, live'[q].st # "unborn", live'[q].ppid # NoPid
      PROVE  Older(live'[q].ppid, q)
  <2>1. CASE live'[q].ppid = live[q].ppid
    BY <1>3, <1>5, <2>1 DEF InOrder, BornInOrder
  <2>2. CASE live'[q].ppid # live[q].ppid
    <3>1. q # p /\ live[q].ppid = p /\ live[q].st = "alive" /\ live'[q].ppid = heir
      BY <1>1, <1>2, <2>2 DEF Live
    <3>2. Older(p, q)
      BY <3>1, PidsAssumption DEF InOrder, BornInOrder
    <3>3. CASE heir = Root
      BY <1>2, <3>1, <3>2, <3>3, PidsAssumption DEF InOrder, BornInOrder, Older
    <3>4. CASE heir = live[p].ppid
      <4>1. Older(heir, p)
        BY <1>5, <3>1, <3>2, <3>4 DEF InOrder, BornInOrder, Older
      <4>2. heir \in Pids
        BY <1>2, <1>5, <3>1, <3>4 DEF Parents
      <4>3. QED
        BY <1>2, <3>1, <3>2, <4>1, <4>2 DEF Older
    <3>5. QED
      BY <3>3, <3>4
  <2>3. QED
    BY <2>1, <2>2
<1>6. \A q \in Pids : live'[q].ppid \in Parents
  BY TypedNext DEF InOrder, Typed, GraphOK, Live, Next
<1>7. \A q \in Pids : live'[q].st # "unborn" /\ live'[q].ppid # NoPid
                        => Older(live[q].ppid, q)'
  BY <1>4, <1>5, <1>6 DEF Parents
<1>8. QED
  BY <1>2, <1>3, <1>4, <1>7, PidsAssumption DEF InOrder, BornInOrder

(* Steps of the processor and of operators leave the machine alone.        *)
LEMMA TreeStays ==
  ASSUME UNCHANGED treeVars, BornInOrder
  PROVE  BornInOrder' /\ \A a, b \in Pids : Older(a, b) => Older(a, b)'
BY DEF treeVars, BornInOrder, Older

(* Every step keeps the order, if no PID is used twice.                    *)
LEMMA InOrderNext == ASSUME ~Reuse PROVE InOrder /\ [Next]_vars => InOrder'
<1> SUFFICES ASSUME InOrder, [Next]_vars PROVE InOrder'
  OBVIOUS
<1>t. Typed'
  BY TypedNext DEF InOrder
<1>e. ev.pid \in Pids /\ ev.ppid \in Parents
  BY EventTyped DEF InOrder, Typed
<1>f. \A r \in forks : r[1] \in Pids /\ r[2] \in Pids
  BY DEF InOrder, Typed, GraphOK
<1>k. \A p \in Pids : kids[p] \subseteq Pids
  BY DEF InOrder, Typed, GraphOK
<1>g. ASSUME UNCHANGED <<forks, kids, ev>>, \A a, b \in Pids : Older(a, b) => Older(a, b)'
      PROVE  GraphInOrder'
  BY <1>g, <1>e, <1>f, <1>k DEF InOrder, GraphInOrder, Parents
<1>1. ASSUME NEW p \in Pids, NEW q \in Pids, Fork(p, q) PROVE InOrder'
  BY <1>1, <1>t, <1>g, ForkInOrder DEF InOrder, Fork, graphVars
<1>2. ASSUME NEW p \in Pids, Exit(p) PROVE InOrder'
  BY <1>2, <1>t, <1>g, ExitInOrder DEF InOrder, Exit, graphVars
<1>3. ASSUME NEW p \in Pids, NEW exec \in BOOLEAN, NEW obj \in Objects,
             TakeEvent(p, exec, obj)
      PROVE  InOrder'
  <2>1. ev'.pid = p /\ ev'.ppid = live[p].ppid
    BY <1>3 DEF TakeEvent
  <2>2. live[p].ppid # NoPid => Older(live[p].ppid, p)
    BY <1>3 DEF TakeEvent, InOrder, BornInOrder
  <2>3. live' = live /\ forks' = forks /\ kids' = kids
    BY <1>3 DEF TakeEvent, treeVars, graphVars
  <2>4. GraphInOrder'
    BY <2>1, <2>2, <2>3 DEF InOrder, GraphInOrder, Older
  <2>5. QED
    BY <1>3, <1>t, <2>4, TreeStays DEF TakeEvent, InOrder
<1>4. CASE AddSelf
  <2>1. \A p \in Pids : \A q \in kids'[p] : q \in kids[p] \/ (p = ev.ppid /\ q = ev.pid)
    BY <1>4, <1>e DEF AddSelf, AddProcessNode, InOrder, Typed, GraphOK
  <2>2. live' = live /\ forks' = forks /\ ev' = ev
    BY <1>4 DEF AddSelf, treeVars
  <2>3. GraphInOrder'
    BY <2>1, <2>2, PidsAssumption DEF InOrder, GraphInOrder, Older
  <2>4. QED
    BY <1>4, <1>t, <2>3, TreeStays DEF AddSelf, InOrder
<1>5. CASE AddParent
  BY <1>5, <1>t, <1>g, TreeStays DEF AddParent, AddProcessNode, InOrder
<1>6. CASE AddFork
  <2>1. ev.ppid # NoPid
    BY <1>6, PidsAssumption DEF AddFork, InOrder, Typed, ForkHasParent
  <2>2. live' = live /\ kids' = kids /\ ev' = ev
    BY <1>6 DEF AddFork, treeVars
  <2>3. GraphInOrder'
    BY <1>6, <2>1, <2>2 DEF AddFork, InOrder, GraphInOrder, Older
  <2>4. QED
    BY <1>6, <1>t, <2>3, TreeStays DEF AddFork, InOrder
<1>7. CASE UNCHANGED treeVars /\ UNCHANGED <<forks, kids>> /\ ev' = NoEvent
  <2>1. GraphInOrder'
    BY <1>7 DEF InOrder, GraphInOrder, Older, NoEvent, treeVars
  <2>2. QED
    BY <1>7, <1>t, <2>1, TreeStays DEF InOrder
<1>8. CASE UNCHANGED treeVars /\ UNCHANGED <<forks, kids, ev>>
  BY <1>8, <1>t, <1>g, TreeStays DEF InOrder
<1>9. QED
  BY <1>1, <1>2, <1>3, <1>4, <1>5, <1>6, <1>7, <1>8
  DEF Next, Processor, AddObject, AddUse, Gate, Score, EndEvent, TrustProcess,
      SetProcessTrust, vars, graphVars

(* A relation whose pairs lead from older to younger is acyclic: of any    *)
(* set of nodes, nothing in the set leads to the oldest process, or, if    *)
(* there is none, to any of the files and sockets.                         *)
LEMMA OrderIsAcyclic ==
  ASSUME Typed, NEW S \in SUBSET Nodes, NEW R,
         \A a, b : <<a, b>> \in R =>
                     a \in Pids /\ (b \in Pids => live[a].born < live[b].born)
  PROVE  AcyclicOn(S, R)
<1> SUFFICES ASSUME NEW T \in SUBSET S, T # {}
             PROVE  \E x \in T : \A y \in T : <<y, x>> \notin R
  BY DEF AcyclicOn
<1>1. CASE T \cap Pids = {}
  BY <1>1
<1>2. CASE T \cap Pids # {}
  <2>1. \A p \in Pids : live[p].born \in Nat
    BY DEF Typed, GraphOK, Live
  <2> DEFINE B == {live[p].born : p \in T \cap Pids}
  <2>2. PICK b \in B : \A c \in B : b <= c
    <3>1. B \in SUBSET Nat /\ B # {}
      BY <1>2, <2>1
    <3> HIDE DEF B
    <3>2. QED
      BY <3>1, NatHasLeast
  <2>3. PICK x \in T \cap Pids : live[x].born = b
    OBVIOUS
  <2>4. ASSUME NEW y \in T, <<y, x>> \in R PROVE FALSE
    <3>1. y \in Pids /\ live[y].born < live[x].born
      BY <2>4
    <3>2. live[x].born <= live[y].born
      BY <2>2, <2>3, <3>1
    <3>3. QED
      BY <2>1, <3>1, <3>2
  <2>5. QED
    BY <2>4
<1>3. QED
  BY <1>1, <1>2

(* Without reused PIDs the provenance graph is a directed acyclic graph.   *)
THEOREM GraphIsAcyclic == ASSUME ~Reuse PROVE Spec => []Acyclic
<1>1. InOrder => Acyclic
  <2> SUFFICES ASSUME InOrder PROVE Acyclic
    OBVIOUS
  <2>1. ASSUME NEW a, NEW b, <<a, b>> \in forks
        PROVE  a \in Pids /\ live[a].born < live[b].born
    BY <2>1 DEF InOrder, Typed, GraphOK, GraphInOrder, Older
  <2>2. ASSUME NEW a, NEW b, <<a, b>> \in uses
        PROVE  a \in Pids /\ b \notin Pids
    BY <2>2, ObjectsAssumption DEF InOrder, Typed, GraphOK
  <2>3. QED
    BY <2>1, <2>2, OrderIsAcyclic DEF InOrder, Acyclic
<1>2. QED
  BY InOrderInit, InOrderNext, <1>1, PTL DEF Spec

(* Without reused PIDs so is the tree along which trust is propagated.     *)
THEOREM TreeIsAcyclic == ASSUME ~Reuse PROVE Spec => []TreeAcyclic
<1>1. InOrder => TreeAcyclic
  <2> SUFFICES ASSUME InOrder PROVE TreeAcyclic
    OBVIOUS
  <2> DEFINE R == {r \in Pids \X Pids : r[2] \in kids[r[1]]}
  <2>1. \A a, b : <<a, b>> \in R => a \in Pids /\ live[a].born < live[b].born
    BY DEF InOrder, GraphInOrder, Older
  <2>2. Pids \in SUBSET Nodes
    BY DEF Nodes
  <2>3. AcyclicOn(Pids, R)
    <3> HIDE DEF R
    <3> QED
      BY <2>1, <2>2, OrderIsAcyclic DEF InOrder
  <2>4. QED
    BY <2>3 DEF TreeAcyclic
<1>2. QED
  BY InOrderInit, InOrderNext, <1>1, PTL DEF Spec


-----------------------------------------------------------------------------
(* What propagateTrust computes, whatever the children table looks like.   *)
(* A recursive function is defined by the equation it satisfies: that one  *)
(* does, and what it yields, follows from the least number for which it    *)
(* would not.                                                              *)

C == Cardinality(Pids)

LEMMA NumberOfPids == C \in Nat /\ IsFiniteSet(Pids)
BY PidsAssumption, FS_CardinalityType DEF C

(* A function may be iterated, as often as there are numbers up to N.      *)
Iterates(g, X, F, a, N) ==
  g \in [0 .. N -> X] /\ g[0] = a /\ \A n \in 1 .. N : g[n] = F[g[n - 1]]
LEMMA Iterated ==
  ASSUME NEW X, NEW F \in [X -> X], NEW a \in X, NEW N \in Nat
  PROVE  \E g : Iterates(g, X, F, a, N)
<1> USE DEF Iterates
<1> DEFINE Fits(g, n) == Iterates(g, X, F, a, n)
           Bad == {n \in Nat : ~\E g : Fits(g, n)}
<1>1. SUFFICES Bad = {}
  OBVIOUS
<1>2. SUFFICES ASSUME Bad # {} PROVE FALSE
  OBVIOUS
<1>3. PICK n \in Bad : \A m \in Bad : n <= m
  <2>1. Bad \in SUBSET Nat
    OBVIOUS
  <2> HIDE DEF Bad
  <2>2. QED
    BY <1>2, <2>1, NatHasLeast
<1>4. n \in Nat /\ ~\E g : Fits(g, n)
  OBVIOUS
<1>5. CASE n = 0
  <2>1. Fits([k \in 0 .. 0 |-> a], 0)
    OBVIOUS
  <2> HIDE DEF Iterates
  <2>2. QED
    BY <1>4, <1>5, <2>1
<1>6. CASE n # 0
  <2>1. n - 1 \in Nat /\ n - 1 \notin Bad
    <3>1. n - 1 \in Nat /\ ~(n <= n - 1)
      BY <1>4, <1>6
    <3> HIDE DEF Bad
    <3>2. QED
      BY <1>3, <3>1
  <2>2. PICK g : Fits(g, n - 1)
    BY <2>1
  <2> DEFINE h == [k \in 0 .. n |-> IF k = n THEN F[g[n - 1]] ELSE g[k]]
  <2>3. /\ \A k \in 0 .. n : k = n \/ k \in 0 .. (n - 1)
        /\ \A k \in 0 .. (n - 1) : k \in 0 .. n /\ k # n /\ h[k] = g[k]
        /\ h[n] = F[g[n - 1]] /\ n - 1 \in 0 .. (n - 1)
    BY <1>4, <1>6
  <2>4. h \in [0 .. n -> X]
    BY <2>2, <2>3
  <2>5. h[0] = a
    BY <1>4, <1>6, <2>2
  <2>6. ASSUME NEW k \in 1 .. n PROVE h[k] = F[h[k - 1]]
    <3>1. k - 1 \in 0 .. (n - 1) /\ (k = n \/ k \in 1 .. (n - 1))
      BY <1>4, <2>6
    <3>2. h[k - 1] = g[k - 1]
      BY <2>3, <3>1
    <3>3. CASE k = n
      BY <2>3, <3>2, <3>3
    <3>4. CASE k \in 1 .. (n - 1)
      <4>1. g[k] = F[g[k - 1]] /\ k \in 0 .. (n - 1)
        BY <2>2, <3>4
      <4>2. QED
        BY <2>3, <3>2, <4>1
    <3>5. QED
      BY <3>1, <3>3, <3>4
  <2>7. Fits(h, n)
    BY <2>4, <2>5, <2>6
  <2> HIDE DEF h, Iterates
  <2>8. QED
    BY <1>4, <2>7
<1>7. QED
  BY <1>5, <1>6

(* The generations: the process, its children, their children.             *)
LEMMA GenerationsAre ==
  ASSUME kids \in [Pids -> SUBSET Pids], NEW p \in Pids
  PROVE  /\ Generations(p)[0] = {p}
         /\ \A n \in 0 .. C : Generations(p)[n] \in SUBSET Pids
         /\ \A n \in 1 .. C : Generations(p)[n] = UNION {kids[q] : q \in Generations(p)[n - 1]}
<1> DEFINE F == [S \in SUBSET Pids |-> UNION {kids[q] : q \in S}]
<1>1. F \in [SUBSET Pids -> SUBSET Pids]
  OBVIOUS
<1>2. PICK g \in [0 .. C -> SUBSET Pids] : g[0] = {p} /\ \A n \in 1 .. C : g[n] = F[g[n - 1]]
  <2> DEFINE X == SUBSET Pids
  <2>1. {p} \in X /\ F \in [X -> X] /\ C \in Nat
    BY <1>1, NumberOfPids
  <2> HIDE DEF F, X
  <2>2. \E g : Iterates(g, X, F, {p}, C)
    BY <2>1, Iterated
  <2>3. QED
    BY <2>2 DEF X, Iterates
<1>3. \A n \in 0 .. C : n # 0 => n \in 1 .. C /\ n - 1 \in 0 .. C
  BY NumberOfPids
<1>4. \A n \in 1 .. C : g[n] = UNION {kids[q] : q \in g[n - 1]}
  <2>1. SUFFICES ASSUME NEW n \in 1 .. C PROVE g[n] = UNION {kids[q] : q \in g[n - 1]}
    OBVIOUS
  <2>2. g[n - 1] \in SUBSET Pids
    BY <1>2, <1>3, NumberOfPids
  <2>3. F[g[n - 1]] = UNION {kids[q] : q \in g[n - 1]}
    BY <2>2
  <2> HIDE DEF F
  <2>4. QED
    BY <1>2, <2>3
<1> DEFINE Eq(f) == f = [n \in 0 .. C |-> IF n = 0 THEN {p} ELSE UNION {kids[q] : q \in f[n - 1]}]
<1>5. Eq(g)
  BY <1>2, <1>3, <1>4
<1>6. Generations(p) = CHOOSE f : Eq(f)
  BY DEF Generations, C
<1>7. Eq(Generations(p))
  <2> HIDE DEF Eq
  <2>1. QED
    BY <1>5, <1>6
<1>8. /\ Generations(p)[0] = {p}
      /\ \A n \in 1 .. C : Generations(p)[n] = UNION {kids[q] : q \in Generations(p)[n - 1]}
  <2> DEFINE f == Generations(p)
  <2>1. f = [n \in 0 .. C |-> IF n = 0 THEN {p} ELSE UNION {kids[q] : q \in f[n - 1]}]
    BY <1>7
  <2>2. 0 \in 0 .. C /\ \A n \in 1 .. C : n \in 0 .. C /\ n # 0
    BY NumberOfPids
  <2> HIDE DEF f, Eq
  <2>3. f[0] = {p} /\ \A n \in 1 .. C : f[n] = UNION {kids[q] : q \in f[n - 1]}
    BY <2>1, <2>2
  <2>4. QED
    BY <2>3 DEF f
<1> HIDE DEF Eq
<1>9. \A n \in 0 .. C : Generations(p)[n] \in SUBSET Pids
  <2> DEFINE Bad == {n \in 0 .. C : Generations(p)[n] \notin SUBSET Pids}
  <2>1. SUFFICES ASSUME Bad # {} PROVE FALSE
    OBVIOUS
  <2>2. PICK n \in Bad : \A m \in Bad : n <= m
    <3>1. Bad \in SUBSET Nat
      BY NumberOfPids
    <3> HIDE DEF Bad
    <3>2. QED
      BY <2>1, <3>1, NatHasLeast
  <2>3. n # 0
    BY <1>8
  <2>4. n \in 1 .. C /\ n - 1 \in 0 .. C /\ ~(n <= n - 1)
    BY <1>3, <2>3, NumberOfPids
  <2>5. Generations(p)[n - 1] \in SUBSET Pids
    BY <2>2, <2>4
  <2>6. Generations(p)[n] \in SUBSET Pids
    BY <1>8, <2>4, <2>5
  <2>7. QED
    BY <2>6
<1>10. QED
  BY <1>8, <1>9

(* A score loses at least 15% in the first generation, and never grows.    *)
LEMMA DecayedAre ==
  ASSUME NEW score \in 0 .. 100
  PROVE  /\ Decayed(score)[0] = score
         /\ \A n \in 0 .. C : Decayed(score)[n] \in 0 .. 100
         /\ \A n \in 1 .. C : 100 * Decayed(score)[n] <= 85 * score
<1> DEFINE F == [x \in 0 .. 100 |-> (85 * x) \div 100]
<1>1. ASSUME NEW x \in 0 .. 100
      PROVE  (85 * x) \div 100 \in 0 .. 100 /\ 100 * ((85 * x) \div 100) <= 85 * x
  OBVIOUS
<1>2. F \in [0 .. 100 -> 0 .. 100]
  BY <1>1
<1>3. PICK g \in [0 .. C -> 0 .. 100] : g[0] = score /\ \A n \in 1 .. C : g[n] = F[g[n - 1]]
  <2> DEFINE X == 0 .. 100
  <2>1. score \in X /\ F \in [X -> X] /\ C \in Nat
    BY <1>2, NumberOfPids
  <2> HIDE DEF F, X
  <2>2. \E g : Iterates(g, X, F, score, C)
    BY <2>1, Iterated
  <2>3. QED
    BY <2>2 DEF X, Iterates
<1>4. \A n \in 0 .. C : n # 0 => n \in 1 .. C /\ n - 1 \in 0 .. C /\ g[n - 1] \in 0 .. 100
  BY NumberOfPids
<1>5. \A n \in 1 .. C : g[n] = (85 * g[n - 1]) \div 100
  <2>1. SUFFICES ASSUME NEW n \in 1 .. C PROVE g[n] = (85 * g[n - 1]) \div 100
    OBVIOUS
  <2>2. g[n - 1] \in 0 .. 100
    BY <1>4, NumberOfPids
  <2>3. F[g[n - 1]] = (85 * g[n - 1]) \div 100
    BY <2>2
  <2> HIDE DEF F
  <2>4. QED
    BY <1>3, <2>3
<1> DEFINE Eq(f) == f = [n \in 0 .. C |-> IF n = 0 THEN score ELSE (85 * f[n - 1]) \div 100]
<1>6. Eq(g)
  BY <1>3, <1>4, <1>5
<1>7. Decayed(score) = CHOOSE f : Eq(f)
  BY DEF Decayed, C
<1> DEFINE d == Decayed(score)
<1>8. Eq(d)
  <2> HIDE DEF Eq
  <2>1. QED
    BY <1>6, <1>7
<1>9. d[0] = score /\ \A n \in 1 .. C : d[n] = (85 * d[n - 1]) \div 100
  BY <1>8, NumberOfPids
<1> HIDE DEF Eq, d
<1>10. \A n \in 0 .. C : d[n] \in 0 .. 100 /\ (n # 0 => 100 * d[n] <= 85 * score)
  <2> DEFINE Bad == {n \in 0 .. C : ~(d[n] \in 0 .. 100 /\ (n # 0 => 100 * d[n] <= 85 * score))}
  <2>1. SUFFICES ASSUME Bad # {} PROVE FALSE
    OBVIOUS
  <2>2. PICK n \in Bad : \A m \in Bad : n <= m
    <3>1. Bad \in SUBSET Nat
      BY NumberOfPids
    <3> HIDE DEF Bad
    <3>2. QED
      BY <2>1, <3>1, NatHasLeast
  <2>3. n # 0
    BY <1>9
  <2>4. n \in 1 .. C /\ n - 1 \in 0 .. C /\ ~(n <= n - 1)
    BY <2>3, NumberOfPids
  <2>5. d[n - 1] \in 0 .. 100 /\ (n - 1 # 0 => 100 * d[n - 1] <= 85 * score)
    BY <2>2, <2>4
  <2>6. d[n] \in 0 .. 100 /\ 100 * d[n] <= 85 * d[n - 1]
    <3>1. d[n] = (85 * d[n - 1]) \div 100
      BY <1>9, <2>4
    <3>2. \A x \in 0 .. 100 : (85 * x) \div 100 \in 0 .. 100 /\ 100 * ((85 * x) \div 100) <= 85 * x
      OBVIOUS
    <3>3. d[n - 1] \in 0 .. 100
      BY <2>5
    <3> HIDE DEF Bad
    <3>4. QED
      BY <3>1, <3>2, <3>3
  <2>7. 100 * d[n] <= 85 * score
    <3>1. CASE n - 1 = 0
      BY <1>9, <2>6, <3>1
    <3>2. CASE n - 1 # 0
      <4>1. 100 * d[n - 1] <= 85 * score /\ d[n - 1] \in 0 .. 100 /\ d[n] \in 0 .. 100
        BY <2>5, <2>6, <3>2
      <4>2. \A x, y \in 0 .. 100 : 100 * y <= 85 * x /\ 100 * x <= 85 * score => 100 * y <= 85 * score
        OBVIOUS
      <4>3. QED
        BY <2>6, <4>1, <4>2
    <3>3. QED
      BY <3>1, <3>2
  <2>8. QED
    BY <2>2, <2>6, <2>7
<1>11. QED
  BY <1>9, <1>10 DEF d

(* If the recursion returns, no process is its own descendant: the         *)
(* generations would begin anew with it, and none would be empty.          *)
LEMMA NotItsDescendant ==
  ASSUME kids \in [Pids -> SUBSET Pids], NEW p \in Pids, Returns(p), NEW n \in 1 .. C
  PROVE  p \notin Generations(p)[n]
<1> DEFINE G == Generations(p)
<1>1. /\ G[0] = {p} /\ G[C] = {}
      /\ \A k \in 1 .. C : G[k] = UNION {kids[q] : q \in G[k - 1]}
  BY GenerationsAre DEF Returns, C
<1>2. C \in Nat /\ n \in Nat /\ n >= 1 /\ n <= C
  BY NumberOfPids
<1> HIDE DEF G
<1>3. SUFFICES ASSUME p \in G[n] PROVE FALSE
  BY DEF G
<1>4. \A k \in 0 .. (C - n) : G[k] \subseteq G[k + n]
  <2> DEFINE Bad == {k \in 0 .. (C - n) : ~(G[k] \subseteq G[k + n])}
  <2>1. SUFFICES ASSUME Bad # {} PROVE FALSE
    OBVIOUS
  <2>2. PICK k \in Bad : \A m \in Bad : k <= m
    <3>1. Bad \in SUBSET Nat
      BY <1>2
    <3> HIDE DEF Bad
    <3>2. QED
      BY <2>1, <3>1, NatHasLeast
  <2>3. k # 0
    <3>1. G[0] \subseteq G[0 + n]
      BY <1>1, <1>2, <1>3
    <3>2. QED
      BY <2>2, <3>1
  <2>4. /\ k - 1 \in 0 .. (C - n) /\ ~(k <= k - 1) /\ k \in 1 .. C /\ k + n \in 1 .. C
        /\ k - 1 + n = k + n - 1
    BY <1>2, <2>2, <2>3
  <2>5. G[k - 1] \subseteq G[k + n - 1]
    BY <2>2, <2>4
  <2>6. G[k] = UNION {kids[q] : q \in G[k - 1]} /\ G[k + n] = UNION {kids[q] : q \in G[k + n - 1]}
    BY <1>1, <2>4
  <2>7. G[k] \subseteq G[k + n]
    BY <2>5, <2>6
  <2>8. QED
    BY <2>2, <2>7
<1>5. ASSUME NEW k \in 0 .. C, G[k] = {}, NEW j \in k .. C PROVE G[j] = {}
  <2> DEFINE Bad == {m \in k .. C : G[m] # {}}
  <2>1. SUFFICES ASSUME Bad # {} PROVE FALSE
    OBVIOUS
  <2>2. PICK m \in Bad : \A i \in Bad : m <= i
    <3>1. Bad \in SUBSET Nat
      BY <1>2, <1>5
    <3> HIDE DEF Bad
    <3>2. QED
      BY <2>1, <3>1, NatHasLeast
  <2>3. m # k
    BY <1>5, <2>2
  <2>4. m - 1 \in k .. C /\ ~(m <= m - 1) /\ m \in 1 .. C
    BY <1>2, <1>5, <2>2, <2>3
  <2>5. G[m - 1] = {}
    BY <2>2, <2>4
  <2>6. G[m] = {}
    BY <1>1, <2>4, <2>5
  <2>7. QED
    BY <2>2, <2>6
<1>6. \A k \in 0 .. C : G[k] # {}
  <2> DEFINE Bad == {k \in 0 .. C : G[k] = {}}
  <2>1. SUFFICES ASSUME Bad # {} PROVE FALSE
    OBVIOUS
  <2>2. PICK k \in Bad : \A m \in Bad : k <= m
    <3>1. Bad \in SUBSET Nat
      BY <1>2
    <3> HIDE DEF Bad
    <3>2. QED
      BY <2>1, <3>1, NatHasLeast
  <2>3. CASE k < n
    <3>1. n \in k .. C
      BY <1>2, <2>2, <2>3
    <3>2. G[n] = {}
      BY <1>5, <2>2, <3>1
    <3>3. QED
      BY <1>3, <3>2
  <2>4. CASE n <= k
    <3>1. k - n \in 0 .. (C - n) /\ k - n \in 0 .. C /\ ~(k <= k - n) /\ (k - n) + n = k
      BY <1>2, <2>2, <2>4
    <3>2. G[k - n] \subseteq G[k]
      BY <1>4, <3>1
    <3>3. k - n \in Bad
      BY <2>2, <3>1, <3>2
    <3> HIDE DEF Bad
    <3>4. QED
      BY <2>2, <3>1, <3>3
  <2>5. QED
    BY <1>2, <2>2, <2>3, <2>4
<1>7. QED
  BY <1>1, <1>2, <1>6

(* What is propagated: the score to the process, at most 85% of it to its  *)
(* descendants, a percentage to each.                                      *)
LEMMA Propagated ==
  ASSUME kids \in [Pids -> SUBSET Pids], trust \in [Pids -> 0 .. 100], NEW p \in Pids,
         NEW score \in 0 .. 100, Returns(p)
  PROVE  /\ Propagate(p, score) \in [Pids -> 0 .. 100]
         /\ Propagate(p, score)[p] = score
         /\ \A n \in 1 .. C : \A q \in Generations(p)[n] :
              100 * Propagate(p, score)[q] <= 85 * score
<1> DEFINE G == Generations(p)
           d == Decayed(score)
           Place(q) == CHOOSE n \in 0 .. C : q \in G[n]
<1>1. /\ G[0] = {p} /\ 0 \in 0 .. C
      /\ \A n \in 1 .. C : p \notin G[n] /\ G[n] \in SUBSET Pids /\ n \in 0 .. C
  BY GenerationsAre, NotItsDescendant, NumberOfPids
<1>2. /\ d[0] = score
      /\ \A n \in 0 .. C : d[n] \in 0 .. 100
      /\ \A n \in 1 .. C : 100 * d[n] <= 85 * score
  BY DecayedAre
<1>3. Propagate(p, score) = [q \in Pids |-> IF \E n \in 0 .. C : q \in G[n] THEN d[Place(q)] ELSE trust[q]]
  BY DEF Propagate, C
<1> HIDE DEF G, d
<1>4. \A q \in Pids : (\E n \in 0 .. C : q \in G[n]) => Place(q) \in 0 .. C /\ q \in G[Place(q)]
  OBVIOUS
<1> HIDE DEF Place
<1>5. Propagate(p, score) \in [Pids -> 0 .. 100]
  BY <1>2, <1>3, <1>4
<1>6. \A m \in 0 .. C : m = 0 \/ m \in 1 .. C
  BY NumberOfPids
<1>7. Place(p) = 0
  BY <1>1, <1>4, <1>6
<1>8. Propagate(p, score)[p] = score
  BY <1>1, <1>2, <1>3, <1>7
<1>9. ASSUME NEW n \in 1 .. C, NEW q \in G[n] PROVE 100 * Propagate(p, score)[q] <= 85 * score
  <2>1. q \in Pids /\ n \in 0 .. C /\ q # p
    BY <1>1
  <2>2. Place(q) \in 0 .. C /\ q \in G[Place(q)]
    BY <1>4, <2>1
  <2>3. Place(q) # 0
    BY <1>1, <2>1, <2>2
  <2>4. Place(q) \in 1 .. C
    BY <1>6, <2>2, <2>3
  <2>5. Propagate(p, score)[q] = d[Place(q)]
    BY <1>3, <2>1
  <2>6. QED
    BY <1>2, <2>4, <2>5
<1>10. QED
  BY <1>5, <1>8, <1>9 DEF G

-----------------------------------------------------------------------------
(* The amounts of trust.                                                   *)

(* What a new node inherits is a percentage.                               *)
LEMMA InheritedTyped ==
  ASSUME TypeOK, NEW ppid \in Parents
  PROVE  Inherited(ppid) \in 0 .. 100
<1>1. CASE ppid = NoPid
  BY <1>1 DEF Inherited
<1>2. CASE ppid \in Pids
  <2>1. trust[ppid] \in 0 .. 100
    BY <1>2 DEF TypeOK
  <2>2. (90 * trust[ppid]) \div 100 \in 0 .. 100
    <3>1. \A x \in 0 .. 100 : (90 * x) \div 100 \in 0 .. 100
      OBVIOUS
    <3>2. QED
      BY <2>1, <3>1
  <2>3. QED
    BY <2>1, <2>2 DEF Inherited
<1>3. QED
  BY <1>1, <1>2 DEF Parents

(* Every step keeps trust a percentage.                                    *)
LEMMA TrustTypedNext ==
  ASSUME TypeOK, [Next]_vars
  PROVE  trust' \in [Pids -> 0 .. 100]
<1>1. GraphOK /\ trust \in [Pids -> 0 .. 100]
  BY DEF TypeOK
<1>2. ev.pid \in Pids /\ ev.ppid \in Parents
  BY <1>1, EventTyped
<1>3. ASSUME NEW pid \in Pids, NEW ppid \in Parents, AddProcessNode(pid, ppid)
      PROVE  trust' \in [Pids -> 0 .. 100]
  BY <1>1, <1>3, InheritedTyped DEF AddProcessNode
<1>4. CASE AddSelf \/ AddParent
  <2>1. AddParent => trust' = trust \/ (ev.ppid # NoPid /\ AddProcessNode(ev.ppid, NoPid))
    BY DEF AddParent
  <2>2. NoPid \in Parents /\ (ev.ppid # NoPid => ev.ppid \in Pids)
    BY <1>2 DEF Parents
  <2>3. QED
    BY <1>1, <1>2, <1>3, <1>4, <2>1, <2>2 DEF AddSelf
<1>5. CASE Score
  <2>1. ASSUME NEW score \in Scores, Returns(ev.pid), trust' = Propagate(ev.pid, score)
        PROVE  trust' \in [Pids -> 0 .. 100]
    BY <1>1, <1>2, <2>1, Propagated, ScoresAssumption DEF GraphOK
  <2>2. QED
    BY <1>1, <1>5, <2>1 DEF Score
<1>6. CASE \E p \in Pids : SetProcessTrust(p)
  BY <1>1, <1>6 DEF SetProcessTrust
<1>7. CASE UNCHANGED trust
  BY <1>1, <1>7
<1>8. QED
  BY <1>4, <1>5, <1>6, <1>7
  DEF Next, Processor, vars, graphVars, Fork, Exit, TakeEvent, AddObject, AddUse, AddFork, Gate,
      TrustProcess

(* Every process has a trust from 0 to 100%, and everything else its type. *)
THEOREM TrustTyped == Spec => []TypeOK
<1>1. Init => TypeOK
  BY TypedInit DEF Init, Typed, TypeOK
<1>2. Typed /\ TypeOK /\ [Next]_vars => TypeOK'
  BY TypedNext, TrustTypedNext DEF Typed, TypeOK
<1>3. QED
  BY <1>1, <1>2, TypedInit, TypedNext, PTL DEF Spec

(* A score below 100% reaches every descendant, reduced: propagateTrust    *)
(* leaves none out, with more or fewer children, and with reused PIDs.     *)
THEOREM DescendantsAllDecay == Spec => DescendantsDecay
<1>1. ASSUME TypeOK, [Next]_vars, ppc = "score", ppc' = "idle", trust'[ev.pid] < 100,
             NEW n \in 1 .. Cardinality(Pids), NEW q \in Generations(ev.pid)[n]
      PROVE  100 * trust'[q] <= 85 * trust'[ev.pid]
  <2>1. Score
    BY <1>1 DEF Next, Processor, vars, Fork, Exit, TakeEvent, AddSelf, AddObject, AddUse,
                AddParent, AddFork, Gate, TrustProcess, SetProcessTrust
  <2>2. ev.pid \in Pids /\ kids \in [Pids -> SUBSET Pids] /\ trust \in [Pids -> 0 .. 100]
    BY <1>1, EventTyped DEF TypeOK, GraphOK
  <2>3. trust' # [trust EXCEPT ![ev.pid] = 100]
    BY <1>1, <2>2
  <2>4. PICK score \in Scores : Returns(ev.pid) /\ trust' = Propagate(ev.pid, score)
    BY <1>1, <2>1, <2>3 DEF Score
  <2>5. score \in 0 .. 100
    BY ScoresAssumption
  <2>6. QED
    BY <1>1, <2>2, <2>4, <2>5, Propagated DEF C
<1>2. TypeOK /\ [Next]_vars =>
        [ppc = "score" /\ ppc' = "idle" /\ trust'[ev.pid] < 100 =>
           \A n \in 1 .. Cardinality(Pids) : \A q \in Generations(ev.pid)[n] :
             100 * trust'[q] <= 85 * trust'[ev.pid]]_vars
  BY <1>1
<1>3. QED
  BY TrustTyped, <1>2, PTL DEF Spec, DescendantsDecay

-----------------------------------------------------------------------------
(* The recursion returns.                                                  *)

(* A member of the n-th generation has n ancestors, all older: there are   *)
(* not enough processes for a member of the |Pids|-th.                     *)
LEMMA AncestorsAreMany ==
  ASSUME InOrder, NEW p \in Pids
  PROVE  Returns(p)
<1> DEFINE G == Generations(p)
           Line(A, q, n) == /\ A \subseteq Pids /\ IsFiniteSet(A) /\ Cardinality(A) = n + 1
                            /\ \A a \in A : live[a].born <= live[q].born
<1>1. /\ G[0] = {p}
      /\ \A n \in 0 .. C : G[n] \in SUBSET Pids
      /\ \A n \in 1 .. C : G[n] = UNION {kids[q] : q \in G[n - 1]}
  BY GenerationsAre DEF InOrder, Typed, GraphOK
<1>2. C \in Nat
  BY NumberOfPids
<1>3. \A q \in Pids : live[q].born \in Nat
  BY DEF InOrder, Typed, GraphOK, Live
<1> HIDE DEF G
<1>4. \A n \in 0 .. C : \A q \in G[n] : \E A : Line(A, q, n)
  <2> DEFINE Bad == {n \in 0 .. C : ~\A q \in G[n] : \E A : Line(A, q, n)}
  <2>1. SUFFICES ASSUME Bad # {} PROVE FALSE
    OBVIOUS
  <2>2. PICK n \in Bad : \A m \in Bad : n <= m
    <3>1. Bad \in SUBSET Nat
      BY <1>2
    <3> HIDE DEF Bad
    <3>2. QED
      BY <2>1, <3>1, NatHasLeast
  <2>3. PICK q \in G[n] : ~\E A : Line(A, q, n)
    BY <2>2
  <2>4. n # 0
    <3>1. CASE n = 0
      <4>1. q = p
        BY <1>1, <2>3, <3>1
      <4>2. IsFiniteSet({p}) /\ Cardinality({p}) = 1
        BY FS_Singleton
      <4>3. Line({p}, q, n)
        BY <1>3, <3>1, <4>1, <4>2
      <4>4. QED
        BY <2>3, <4>3
    <3>2. QED
      BY <3>1
  <2>5. n \in 1 .. C /\ n - 1 \in 0 .. C /\ ~(n <= n - 1) /\ n \in Nat
    BY <1>2, <2>2, <2>4
  <2>6. PICK r \in G[n - 1] : q \in kids[r]
    BY <1>1, <2>3, <2>5
  <2>7. n - 1 \notin Bad
    <3> HIDE DEF Bad
    <3>1. QED
      BY <2>2, <2>5
  <2>8. PICK A : Line(A, r, n - 1)
    BY <2>5, <2>6, <2>7
  <2>9. r \in Pids /\ q \in Pids /\ live[r].born < live[q].born
    BY <1>1, <2>3, <2>5, <2>6 DEF InOrder, GraphInOrder, Older
  <2>10. q \notin A
    BY <1>3, <2>8, <2>9
  <2>11. IsFiniteSet(A \cup {q}) /\ Cardinality(A \cup {q}) = Cardinality(A) + 1
    BY <2>8, <2>10, FS_AddElement
  <2>12. Line(A \cup {q}, q, n)
    <3>1. Cardinality(A) = n - 1 + 1
      BY <2>8
    <3>2. Cardinality(A \cup {q}) = n + 1
      BY <2>5, <2>11, <3>1
    <3>3. \A a \in A \cup {q} : live[a].born <= live[q].born
      BY <1>3, <2>8, <2>9
    <3>4. QED
      BY <2>8, <2>9, <2>11, <3>2, <3>3
  <2>13. QED
    BY <2>3, <2>12
<1>5. ASSUME NEW q \in G[C] PROVE FALSE
  <2>1. PICK A : Line(A, q, C)
    BY <1>2, <1>4
  <2>2. Cardinality(A) <= C
    BY <2>1, NumberOfPids, FS_Subset DEF C
  <2>3. QED
    BY <1>2, <2>1, <2>2
<1>6. G[C] = {}
  BY <1>5
<1>7. QED
  BY <1>6 DEF Returns, C, G

(* propagateTrust always returns, for any number of processes: without PID *)
(* reuse the monitor never runs out of stack.                              *)
THEOREM PropagationReturns == ASSUME ~Reuse PROVE Spec => [](ppc # "overflow")
<1>1. Init => ppc # "overflow"
  BY DEF Init
<1>2. ASSUME InOrder, ppc # "overflow", [Next]_vars PROVE ppc' # "overflow"
  <2>1. ev.pid \in Pids
    BY <1>2, EventTyped DEF InOrder, Typed
  <2>2. Returns(ev.pid)
    BY <1>2, <2>1, AncestorsAreMany
  <2>3. QED
    BY <1>2, <2>2 DEF Next, Processor, vars, Fork, Exit, TakeEvent, AddSelf, AddObject, AddUse,
       AddParent, AddFork, Gate, Score, EndEvent, TrustProcess, SetProcessTrust
<1>3. InOrder /\ ppc # "overflow" /\ [Next]_vars => (ppc # "overflow")'
  BY <1>2
<1>4. QED
  BY <1>1, <1>3, InOrderInit, InOrderNext, PTL DEF Spec

=============================================================================
