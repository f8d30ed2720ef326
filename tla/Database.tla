------------------------------ MODULE Database ------------------------------
(***************************************************************************)
(* internal/db/store.go: the process records that the event processor      *)
(* writes and the dashboard's views read.  Every method holds the store's  *)
(* lock, but a view asks /proc about one process after the other while the *)
(* machine moves on.                                                       *)
(*                                                                         *)
(* Left out: counters, times, evidence strings and the event and           *)
(* conversation lists, which no view of processes reads.                   *)
(***************************************************************************)
EXTENDS Naturals, FiniteSets, SequencesExt

CONSTANTS Pids,      \* processes
          NoPid,     \* PPID 0
          Root,      \* init: adopts orphans, never exits
          Patterns,  \* kinds of attack pattern
          Lsm,       \* a kill denies the next exec only
          Reuse,     \* a dead process's PID may be given away again
          MaxBirths  \* bound: processes born

ASSUME DatabaseAssumption == /\ NoPid \notin Pids /\ Root \in Pids
                             /\ Lsm \in BOOLEAN /\ Reuse \in BOOLEAN /\ MaxBirths \in Nat

VARIABLES live,     \* the process tree of the machine
          births,   \* history: births so far
          rec,      \* processes, one record for each PID
          alerts,   \* attackPatterns: <<pid, kind>>, in order
          ppc, ev,  \* the processor: its place and its event
          act       \* the decision it has yet to record

machineVars   == <<live, births>>
storeVars     == <<rec, alerts>>
processorVars == <<ppc, ev, act>>
vars == <<machineVars, storeVars, processorVars>>

Parents == Pids \cup {NoPid}
Record  == [in : BOOLEAN, ppid : Parents, found : SUBSET Patterns,
            susp : BOOLEAN, paused : BOOLEAN, killed : BOOLEAN]
Acts    == {"none", "log", "suspect", "paused", "kill"}
NoRecord == [in |-> FALSE, ppid |-> NoPid, found |-> {},
             susp |-> FALSE, paused |-> FALSE, killed |-> FALSE]
NoEvent  == [pid |-> Root, ppid |-> NoPid, found |-> {}]

Init == /\ live = [p \in Pids |-> [st |-> IF p = Root THEN "alive" ELSE "unborn",
                                   ppid |-> NoPid]]
        /\ births = 0
        /\ rec = [p \in Pids |-> NoRecord] /\ alerts = <<>>
        /\ ppc = "idle" /\ ev = NoEvent /\ act = "none"

-----------------------------------------------------------------------------
(* The machine.  An orphan goes to a subreaper among its ancestors or to   *)
(* init.                                                                   *)

Fork(p, parent) ==
  /\ live[parent].st = "alive" /\ births < MaxBirths
  /\ live[p].st \in IF Reuse THEN {"unborn", "dead"} ELSE {"unborn"}
  /\ births' = births + 1
  /\ live' = [live EXCEPT ![p] = [st |-> "alive", ppid |-> parent]]
  /\ UNCHANGED <<storeVars, processorVars>>

Exit(p) ==
  /\ p # Root /\ live[p].st = "alive"
  /\ \E heir \in {Root, live[p].ppid} :
       live' = [q \in Pids |->
                  IF q = p THEN [live[p] EXCEPT !.st = "dead"]
                  ELSE IF live[q].ppid = p /\ live[q].st = "alive"
                       THEN [live[q] EXCEPT !.ppid = heir] ELSE live[q]]
  /\ UNCHANGED <<births, storeVars, processorVars>>

-----------------------------------------------------------------------------
(* The processor.  An event may complete one of the attack patterns.       *)

TakeEvent(p, found) ==
  /\ ppc = "idle" /\ live[p].st = "alive"
  /\ ev' = [pid |-> p, ppid |-> live[p].ppid, found |-> found]
  /\ ppc' = "record"
  /\ UNCHANGED <<machineVars, storeVars, act>>

(* Mutant: the kinds found before are not looked up. *)
NewPatternsAll(r) == ev.found

(* addPatternIfNotExists.                                                  *)
NewPatterns(r) == ev.found \ r.found

(* The latest event says who the parent is, unless it knows none.          *)
LatestParent(r) == IF ev.ppid = NoPid THEN r.ppid ELSE ev.ppid

RecordEvent ==
  /\ ppc = "record"
  /\ LET r == rec[ev.pid] IN
       /\ rec' = [rec EXCEPT ![ev.pid] = [r EXCEPT !.in = TRUE, !.ppid = LatestParent(r),
                                                   !.found = @ \cup NewPatterns(r)]]
       /\ alerts' = alerts \o SetToSeq({<<ev.pid, k>> : k \in NewPatterns(r)})
  /\ ppc' = "decide"
  /\ UNCHANGED <<machineVars, ev, act>>

(* IsTrusted, the scorer and Respond; "log" stands for every action that   *)
(* leaves trust high and the process alone.  SIGKILL takes effect at once; *)
(* an exec that is to be denied leaves the process alive.                  *)
Decide ==
  /\ ppc = "decide"
  /\ \/ act' \in {"log", "suspect", "paused"} /\ UNCHANGED live
     \/ /\ act' = "kill"
        /\ live' = IF Lsm \/ live[ev.pid].st # "alive" THEN live
                   ELSE [live EXCEPT ![ev.pid].st = "dead"]
  /\ ppc' = "log"
  /\ UNCHANGED <<births, storeVars, ev>>

(* Mutant: whatever stops a process is recorded as its end. *)
DecidedStopped(r) ==
  [in |-> TRUE, ppid |-> r.ppid, found |-> r.found,
   susp   |-> act \in {"suspect", "paused", "kill"},
   paused |-> r.paused \/ act = "paused",
   killed |-> r.killed \/ act \in {"paused", "kill"}]

(* Trust and status are overwritten; the two flags are never taken back.   *)
Decided(r) ==
  [in |-> TRUE, ppid |-> r.ppid, found |-> r.found,
   susp   |-> act \in {"suspect", "paused", "kill"},
   paused |-> r.paused \/ act = "paused",
   killed |-> r.killed \/ act = "kill"]

RecordDecision ==
  /\ ppc = "log"
  /\ rec' = [rec EXCEPT ![ev.pid] = Decided(@)]
  /\ ppc' = "idle" /\ ev' = NoEvent /\ act' = "none"
  /\ UNCHANGED <<machineVars, alerts>>

-----------------------------------------------------------------------------
(* The views.  S is the set of processes /proc was found to have.          *)

Shown(S) == {p \in S : rec[p].in /\ ~rec[p].killed}
Snapshots == SUBSET {p \in Pids : rec[p].in /\ ~rec[p].killed}

(* GetProcessTree.                                                         *)
(* Mutant: a process whose parent is gone is nobody's child and no root. *)
TreeRootsOnlyInit(S) == {p \in Shown(S) : rec[p].ppid = NoPid}

Linked(S, p) == rec[p].ppid \in Shown(S) \ {p}
TreeRoots(S) == {p \in Shown(S) : ~Linked(S, p)}

(* A set of processes that has all roots and, with a process, its children *)
(* is as large as the tree; the tree is what all such sets have.           *)
HoldsTree(S, T) == /\ TreeRoots(S) \subseteq T
                   /\ \A p \in Shown(S) : Linked(S, p) /\ rec[p].ppid \in T => p \in T

InTree(S) == {p \in Shown(S) : \A T \in SUBSET Shown(S) : HoldsTree(S, T) => p \in T}

(* GetProductionGraph: threats, and two generations of their ancestors.    *)
Threats(S) == {p \in Shown(S) : rec[p].found # {} \/ rec[p].susp \/ rec[p].paused}
ParentsOf(S, T) == {p \in Shown(S) : \E q \in T : rec[q].ppid = p}
(* Mutant: only the parents that are threats themselves are shown. *)
VisibleThreats(S) == Threats(S)

Visible(S) == LET T == Threats(S) IN
  T \cup ParentsOf(S, T) \cup ParentsOf(S, ParentsOf(S, T))
Spawns(S) == {<<rec[p].ppid, p>> : p \in {q \in Visible(S) : rec[q].ppid \in Visible(S) \ {q}}}

-----------------------------------------------------------------------------
Next == \/ \E p, q \in Pids : Fork(p, q)
        \/ \E p \in Pids : Exit(p)
        \/ \E p \in Pids, found \in {{}} \cup {{k} : k \in Patterns} : TakeEvent(p, found)
        \/ RecordEvent \/ Decide \/ RecordDecision

Spec == Init /\ [][Next]_vars

-----------------------------------------------------------------------------
(* Types: records and the processor's places.                              *)
TypeOK == /\ live \in [Pids -> [st : {"unborn", "alive", "dead"}, ppid : Parents]]
          /\ births \in 0 .. MaxBirths
          /\ rec \in [Pids -> Record]
          /\ \A i \in DOMAIN alerts : alerts[i] \in Pids \X Patterns
          /\ ppc \in {"idle", "record", "decide", "log"} /\ act \in Acts
          /\ ev \in [pid : Pids, ppid : Parents, found : SUBSET Patterns]

(* The list of attack patterns and the records agree: every kind found of  *)
(* a process is listed, and once, however often it is found.               *)
PatternsListed == /\ IsInjective(alerts)
                  /\ Range(alerts) = UNION {{p} \X rec[p].found : p \in Pids}

(* The process tree of the dashboard loses nobody: whichever processes     *)
(* /proc is found to have, each that is not marked as killed hangs, over   *)
(* any number of levels, under a root of the view.                         *)
TreeComplete == \A S \in Snapshots : InTree(S) = Shown(S)

(* "The interactive tree is a live process view": a process that is left   *)
(* out as killed is dead.                                                  *)
HiddenIsDead == \A p \in Pids : rec[p].killed => live[p].st # "alive"

(* "Show enough ancestry to explain where the interesting process came     *)
(* from": a threat whose recorded parent and grandparent still run is      *)
(* connected to both.                                                      *)
AncestryShown == \A S \in Snapshots : \A p \in Threats(S) :
  Linked(S, p) => /\ <<rec[p].ppid, p>> \in Spawns(S)
                  /\ Linked(S, rec[p].ppid) =>
                       <<rec[rec[p].ppid].ppid, rec[p].ppid>> \in Spawns(S)

=============================================================================
