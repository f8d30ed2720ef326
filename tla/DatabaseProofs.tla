--------------------------- MODULE DatabaseProofs ---------------------------
(***************************************************************************)
(* The records of processes, for any number of processes and kinds of      *)
(* attack pattern: every kind found is listed once; where PIDs are not     *)
(* given away again, the process tree loses nobody, since a recorded       *)
(* parent is always older than its child; where a kill is a kill, only     *)
(* dead processes are hidden; and a threat is drawn with its ancestors.    *)
(***************************************************************************)
EXTENDS Database, FiniteSetTheorems, SequenceTheorems, WellFoundedInduction, TLAPS

-----------------------------------------------------------------------------
(* Types.  An event completes one kind of pattern at most.                 *)

OneFound == ev.found = {} \/ \E k \in Patterns : ev.found = {k}

Typed == TypeOK /\ OneFound /\ alerts \in Seq(Pids \X Patterns)

(* An empty set is listed as nothing.                                      *)
LEMMA ListOfNone == SetToSeq({}) = <<>>
<1>1. Cardinality({}) = 0 /\ 1 .. 0 = {}
  BY FS_EmptySet
<1>2. <<>> \in [1 .. 0 -> {}] /\ IsInjective(<<>>)
  BY <1>1 DEF IsInjective
<1>3. SetToSeq({}) \in [1 .. 0 -> {}]
  BY <1>1, <1>2 DEF SetToSeq
<1>4. QED
  BY <1>1, <1>3

(* A single element is listed as such.                                     *)
LEMMA ListOfOne == ASSUME NEW x PROVE SetToSeq({x}) = <<x>>
<1>1. Cardinality({x}) = 1
  BY FS_Singleton
<1>2. <<x>> \in [1 .. 1 -> {x}] /\ IsInjective(<<x>>)
  BY DEF IsInjective
<1>3. SetToSeq({x}) \in [1 .. 1 -> {x}]
  BY <1>1, <1>2 DEF SetToSeq
<1>4. QED
  BY <1>3

(* What an event adds to the list: nothing, or the one kind that was not   *)
(* found of its process before.                                            *)
LEMMA Listed ==
  ASSUME Typed, NEW r \in Record,
         NEW new, new = SetToSeq({<<ev.pid, k>> : k \in NewPatterns(r)})
  PROVE  \/ NewPatterns(r) = {} /\ new = <<>>
         \/ \E k \in Patterns \ r.found :
              NewPatterns(r) = {k} /\ new = << <<ev.pid, k>> >>
<1>1. CASE NewPatterns(r) = {}
  <2>1. {<<ev.pid, k>> : k \in NewPatterns(r)} = {}
    BY <1>1
  <2>2. QED
    BY <1>1, <2>1, ListOfNone
<1>2. CASE NewPatterns(r) # {}
  <2>1. PICK k \in Patterns : ev.found = {k}
    BY <1>2 DEF Typed, OneFound, NewPatterns
  <2>2. NewPatterns(r) = {k} /\ k \notin r.found
    BY <1>2, <2>1 DEF NewPatterns
  <2>3. {<<ev.pid, j>> : j \in NewPatterns(r)} = {<<ev.pid, k>>}
    BY <2>2
  <2>4. QED
    BY <2>2, <2>3, ListOfOne
<1>3. QED
  BY <1>1, <1>2

(* Recording a decision keeps a record a record, its parent and findings.  *)
LEMMA DecidedTyped ==
  ASSUME NEW r \in Record
  PROVE  /\ Decided(r) \in Record
         /\ Decided(r).ppid = r.ppid /\ Decided(r).found = r.found
         /\ Decided(r).killed = (r.killed \/ act = "kill")
BY DEF Decided, Record

(* Initially everything is well typed.                                     *)
LEMMA TypedInit == Init => Typed
<1>1. ASSUME Init PROVE alerts \in Seq(Pids \X Patterns) /\ DOMAIN alerts = {}
  BY <1>1 DEF Init
<1>2. QED
  BY <1>1, DatabaseAssumption
  DEF Init, Typed, TypeOK, OneFound, NoRecord, Record, Parents, NoEvent, Acts

(* Every step keeps types.                                                 *)
LEMMA TypedNext == Typed /\ [Next]_vars => Typed'
<1> SUFFICES ASSUME Typed, [Next]_vars PROVE Typed'
  OBVIOUS
<1> USE DatabaseAssumption DEF Typed, TypeOK, OneFound, machineVars, storeVars, processorVars
<1>1. ASSUME NEW p \in Pids, NEW q \in Pids, Fork(p, q) PROVE Typed'
  BY <1>1 DEF Fork, Parents
<1>2. ASSUME NEW p \in Pids, Exit(p) PROVE Typed'
  BY <1>2 DEF Exit, Parents
<1>3. ASSUME NEW p \in Pids, NEW found \in {{}} \cup {{k} : k \in Patterns}, TakeEvent(p, found)
      PROVE  Typed'
  BY <1>3 DEF TakeEvent, Parents
<1>4. CASE RecordEvent
  <2> DEFINE r   == rec[ev.pid]
             new == SetToSeq({<<ev.pid, k>> : k \in NewPatterns(r)})
  <2>1. r \in Record
    OBVIOUS
  <2>2. rec' \in [Pids -> Record]
    <3> DEFINE n == [r EXCEPT !.in = TRUE, !.ppid = LatestParent(r), !.found = @ \cup NewPatterns(r)]
    <3>1. LatestParent(r) \in Parents /\ NewPatterns(r) \in SUBSET Patterns
      BY <2>1 DEF LatestParent, NewPatterns, Record
    <3>2. n \in Record
      BY <2>1, <3>1 DEF Record
    <3>3. rec' = [rec EXCEPT ![ev.pid] = n]
      BY <1>4 DEF RecordEvent
    <3> HIDE DEF n, r
    <3>4. QED
      BY <3>2, <3>3
  <2>3. alerts' = alerts \o new
    BY <1>4 DEF RecordEvent
  <2> HIDE DEF new, r
  <2>4. new \in Seq(Pids \X Patterns)
    <3>1. CASE new = <<>>
      BY <3>1
    <3>2. ASSUME NEW k \in Patterns, new = << <<ev.pid, k>> >> PROVE new \in Seq(Pids \X Patterns)
      BY <3>2
    <3>3. QED
      BY <2>1, <3>1, <3>2, Listed DEF new
  <2>5. alerts' \in Seq(Pids \X Patterns)
    BY <2>3, <2>4, ConcatProperties
  <2>6. \A i \in DOMAIN alerts' : alerts'[i] \in Pids \X Patterns
    BY <2>5, ElementOfSeq, LenProperties
  <2>7. QED
    BY <1>4, <2>2, <2>5, <2>6 DEF RecordEvent
<1>5. CASE Decide
  BY <1>5 DEF Decide, Acts
<1>6. CASE RecordDecision
  <2> DEFINE r == rec[ev.pid]
  <2>1. r \in Record
    OBVIOUS
  <2>2. Decided(r) \in Record
    BY <2>1, DecidedTyped
  <2>3. rec' = [rec EXCEPT ![ev.pid] = Decided(r)]
    BY <1>6 DEF RecordDecision
  <2> HIDE DEF r
  <2>4. rec' \in [Pids -> Record]
    BY <2>2, <2>3
  <2>5. QED
    BY <1>6, <2>4 DEF RecordDecision, NoEvent, Acts, Parents
<1>7. CASE UNCHANGED vars
  BY <1>7 DEF vars
<1>8. QED
  BY <1>1, <1>2, <1>3, <1>4, <1>5, <1>6, <1>7 DEF Next

(* Records, events and the list of patterns keep their types.              *)
THEOREM DatabaseTyped == Spec => []TypeOK
BY TypedInit, TypedNext, PTL DEF Spec, Typed

-----------------------------------------------------------------------------
(* The list of attack patterns.                                            *)

(* A list goes on with an element it does not have.                        *)
LEMMA ListGrows ==
  ASSUME NEW X, NEW list \in Seq(X), NEW x \in X, IsInjective(list), x \notin Range(list)
  PROVE  IsInjective(list \o <<x>>) /\ Range(list \o <<x>>) = Range(list) \cup {x}
<1> DEFINE longer == list \o <<x>>
<1>1. /\ Len(list) \in Nat /\ DOMAIN list = 1 .. Len(list)
      /\ DOMAIN longer = 1 .. Len(list) + 1 /\ longer[Len(list) + 1] = x
      /\ \A i \in 1 .. Len(list) : longer[i] = list[i]
  BY ConcatProperties, LenProperties
<1> HIDE DEF longer
<1>2. \A i \in 1 .. Len(list) : list[i] # x
  BY <1>1 DEF Range
<1>3. \A i \in 1 .. Len(list) + 1 : i \in 1 .. Len(list) \/ i = Len(list) + 1
  BY <1>1
<1>4. IsInjective(longer)
  BY <1>1, <1>2, <1>3 DEF IsInjective
<1>5. Range(longer) = Range(list) \cup {x}
  <2>1. Range(longer) \subseteq Range(list) \cup {x}
    BY <1>1, <1>3 DEF Range
  <2>2. Range(list) \cup {x} \subseteq Range(longer)
    BY <1>1 DEF Range
  <2>3. QED
    BY <2>1, <2>2
<1>6. QED
  BY <1>4, <1>5 DEF longer

Found == UNION {{p} \X rec[p].found : p \in Pids}

(* Every step keeps list and records in agreement.                         *)
LEMMA ListedNext == Typed /\ PatternsListed /\ [Next]_vars => PatternsListed'
<1> SUFFICES ASSUME Typed, PatternsListed, [Next]_vars PROVE PatternsListed'
  OBVIOUS
<1>1. CASE alerts' = alerts /\ \A p \in Pids : rec'[p].found = rec[p].found
  BY <1>1 DEF PatternsListed, IsInjective, Range
<1>2. CASE RecordEvent
  <2> DEFINE r   == rec[ev.pid]
             new == SetToSeq({<<ev.pid, k>> : k \in NewPatterns(r)})
  <2>1. ev.pid \in Pids /\ r \in Record
    BY DEF Typed, TypeOK
  <2>2. /\ alerts' = alerts \o new
        /\ \A p \in Pids : rec'[p].found = IF p = ev.pid THEN r.found \cup NewPatterns(r)
                                           ELSE rec[p].found
    BY <1>2, <2>1 DEF RecordEvent, Typed, TypeOK, Record
  <2>3. alerts \in Seq(Pids \X Patterns)
    BY DEF Typed
  <2> HIDE DEF r, new
  <2>4. CASE NewPatterns(r) = {} /\ new = <<>>
    <3>1. alerts' = alerts
      BY <2>2, <2>3, <2>4, ConcatEmptySeq
    <3>2. \A p \in Pids : rec'[p].found = rec[p].found
      BY <2>2, <2>4 DEF r
    <3>3. QED
      BY <1>1, <3>1, <3>2
  <2>5. ASSUME NEW k \in Patterns \ r.found, NewPatterns(r) = {k}, new = << <<ev.pid, k>> >>
        PROVE  PatternsListed'
    <3>1. Range(alerts) = Found /\ IsInjective(alerts)
      BY DEF PatternsListed, Found
    <3>2. <<ev.pid, k>> \in Pids \X Patterns /\ <<ev.pid, k>> \notin Range(alerts)
      BY <2>1, <3>1 DEF Found, r
    <3>3. IsInjective(alerts') /\ Range(alerts') = Range(alerts) \cup {<<ev.pid, k>>}
      <4> DEFINE X == Pids \X Patterns
                 x == <<ev.pid, k>>
      <4>1. alerts \in Seq(X) /\ x \in X /\ x \notin Range(alerts)
        BY <2>3, <3>2
      <4>2. alerts' = alerts \o <<x>>
        BY <2>2, <2>5
      <4> HIDE DEF X, x
      <4>3. IsInjective(alerts \o <<x>>) /\ Range(alerts \o <<x>>) = Range(alerts) \cup {x}
        BY <3>1, <4>1, ListGrows
      <4>4. QED
        BY <4>2, <4>3 DEF x
    <3>4. Found' = Found \cup {<<ev.pid, k>>}
      <4>1. \A p \in Pids : \A j : <<p, j>> \in Found' <=> <<p, j>> \in Found \/ (p = ev.pid /\ j = k)
        BY <2>1, <2>2, <2>5 DEF Found, r
      <4>2. \A x \in Found \cup Found' : \E p \in Pids : \E j : x = <<p, j>>
        BY DEF Found
      <4>3. QED
        BY <2>1, <4>1, <4>2
    <3>5. QED
      BY <3>1, <3>3, <3>4 DEF PatternsListed, Found
  <2>6. QED
    BY <2>1, <2>4, <2>5, Listed DEF new
<1>3. CASE RecordDecision
  <2>1. \A p \in Pids : rec'[p].found = rec[p].found
    BY <1>3, DecidedTyped DEF RecordDecision, Typed, TypeOK
  <2>2. QED
    BY <1>1, <1>3, <2>1 DEF RecordDecision
<1>4. CASE UNCHANGED storeVars
  BY <1>1, <1>4 DEF storeVars
<1>5. QED
  BY <1>2, <1>3, <1>4 DEF Next, Fork, Exit, TakeEvent, Decide, vars

(* Every kind of attack pattern found of a process is listed, and once,    *)
(* however often it is found.                                              *)
THEOREM PatternsAreListed == Spec => []PatternsListed
<1>1. Init => PatternsListed
  <2>1. ASSUME Init PROVE Found = {} /\ DOMAIN alerts = {}
    BY <2>1 DEF Init, Found, NoRecord
  <2>2. QED
    BY <2>1 DEF PatternsListed, Found, IsInjective, Range
<1>2. QED
  BY TypedInit, TypedNext, ListedNext, <1>1, PTL DEF Spec

-----------------------------------------------------------------------------
(* The views.                                                              *)

(* A threat is drawn with its parent, and its parent with its own.         *)
THEOREM AncestorsAreShown == Spec => []AncestryShown
<1>1. AncestryShown
  <2>1. SUFFICES ASSUME NEW S \in Snapshots, NEW p \in Threats(S), Linked(S, p)
                 PROVE  /\ <<rec[p].ppid, p>> \in Spawns(S)
                        /\ Linked(S, rec[p].ppid) =>
                             <<rec[rec[p].ppid].ppid, rec[p].ppid>> \in Spawns(S)
    BY DEF AncestryShown
  <2> DEFINE q == rec[p].ppid
  <2>2. p \in Visible(S)
    BY DEF Visible
  <2>3. q \in ParentsOf(S, Threats(S)) /\ q # p
    BY <2>1 DEF Linked, ParentsOf
  <2>4. q \in Visible(S)
    BY <2>3 DEF Visible
  <2>5. Linked(S, q) => rec[q].ppid \in ParentsOf(S, ParentsOf(S, Threats(S))) /\ rec[q].ppid # q
    BY <2>3 DEF Linked, ParentsOf
  <2>6. Linked(S, q) => rec[q].ppid \in Visible(S)
    BY <2>5 DEF Visible
  <2>7. QED
    BY <2>2, <2>3, <2>4, <2>5, <2>6 DEF Spawns
<1>2. QED
  BY <1>1, PTL

(* Who has a record, a parent or an event under way has been born.         *)
Born == /\ live[Root].st # "unborn"
        /\ live[ev.pid].st # "unborn"
        /\ \A p \in Pids : live[p].st = "unborn" => rec[p] = NoRecord /\ live[p].ppid = NoPid

(* Initially nobody but init is born.                                      *)
LEMMA BornInit == Init => Born
BY DatabaseAssumption DEF Init, Born, NoEvent

(* Nobody becomes unborn.                                                  *)
LEMMA BornNext == Typed /\ Born /\ [Next]_vars => Born'
<1> SUFFICES ASSUME Typed, Born, [Next]_vars PROVE Born'
  OBVIOUS
<1> USE DatabaseAssumption DEF Typed, TypeOK, Born, machineVars, storeVars, processorVars
<1>1. ASSUME NEW p \in Pids, NEW q \in Pids, Fork(p, q) PROVE Born'
  BY <1>1 DEF Fork
<1>2. ASSUME NEW p \in Pids, Exit(p) PROVE Born'
  <2>1. \A q \in Pids : /\ live'[q].st = "unborn" <=> live[q].st = "unborn"
                        /\ live[q].st = "unborn" => live'[q].ppid = live[q].ppid
    BY <1>2 DEF Exit
  <2>2. QED
    BY <1>2, <2>1 DEF Exit
<1>3. ASSUME NEW p \in Pids, NEW found \in {{}} \cup {{k} : k \in Patterns}, TakeEvent(p, found)
      PROVE  Born'
  BY <1>3 DEF TakeEvent
<1>4. CASE RecordEvent
  <2>1. \A p \in Pids \ {ev.pid} : rec'[p] = rec[p]
    BY <1>4 DEF RecordEvent
  <2>2. QED
    BY <1>4, <2>1 DEF RecordEvent
<1>5. CASE Decide
  <2>1. \A p \in Pids : /\ live'[p].ppid = live[p].ppid
                        /\ live'[p].st = "unborn" <=> live[p].st = "unborn"
    BY <1>5 DEF Decide
  <2>2. QED
    BY <1>5, <2>1 DEF Decide
<1>6. CASE RecordDecision
  <2>1. \A p \in Pids \ {ev.pid} : rec'[p] = rec[p]
    BY <1>6 DEF RecordDecision
  <2>2. QED
    BY <1>6, <2>1 DEF RecordDecision, NoEvent
<1>7. CASE UNCHANGED vars
  BY <1>7 DEF vars
<1>8. QED
  BY <1>1, <1>2, <1>3, <1>4, <1>5, <1>6, <1>7 DEF Next

(* Where a kill takes effect at once and for good, a process recorded or   *)
(* about to be recorded as killed is dead.                                 *)
KilledIsDead == /\ \A p \in Pids : rec[p].killed => live[p].st = "dead"
                /\ ppc = "log" /\ act = "kill" => live[ev.pid].st = "dead"

(* The dead stay dead.                                                     *)
LEMMA DeadForGood ==
  ASSUME ~Reuse, Typed, [Next]_vars, NEW p \in Pids, live[p].st = "dead"
  PROVE  live'[p].st = "dead"
BY DEF Next, Fork, Exit, TakeEvent, RecordEvent, Decide, RecordDecision, vars, machineVars, Typed,
       TypeOK

(* Every step keeps it so.                                                 *)
LEMMA KilledNext ==
  ASSUME ~Lsm, ~Reuse
  PROVE  Typed /\ Born /\ KilledIsDead /\ [Next]_vars => KilledIsDead'
<1> SUFFICES ASSUME Typed, Born, KilledIsDead, [Next]_vars PROVE KilledIsDead'
  OBVIOUS
<1>1. ev.pid \in Pids /\ \A p \in Pids : rec[p] \in Record
  BY DEF Typed, TypeOK
<1>2. CASE RecordDecision
  <2>1. ASSUME NEW p \in Pids, rec'[p].killed PROVE live[p].st = "dead"
    <3>1. CASE p # ev.pid
      BY <1>2, <2>1, <3>1 DEF RecordDecision, KilledIsDead, Typed, TypeOK
    <3>2. CASE p = ev.pid
      <4>1. rec'[p] = Decided(rec[p])
        BY <1>1, <1>2, <3>2 DEF RecordDecision, Typed, TypeOK
      <4>2. rec[p].killed \/ act = "kill"
        BY <1>1, <2>1, <4>1, DecidedTyped
      <4>3. QED
        BY <1>2, <3>2, <4>2 DEF RecordDecision, KilledIsDead
    <3>3. QED
      BY <3>1, <3>2
  <2>2. ppc' = "idle"
    BY <1>2 DEF RecordDecision
  <2>3. QED
    BY <2>1, <2>2, DeadForGood DEF KilledIsDead
<1>3. CASE Decide
  <2>1. act' = "kill" => live'[ev.pid].st = "dead"
    BY <1>1, <1>3 DEF Decide, Born, Typed, TypeOK
  <2>2. rec' = rec /\ ev' = ev
    BY <1>3 DEF Decide, storeVars
  <2>3. QED
    BY <2>1, <2>2, DeadForGood DEF KilledIsDead
<1>4. CASE RecordEvent
  <2>1. \A p \in Pids : rec'[p].killed = rec[p].killed
    BY <1>1, <1>4 DEF RecordEvent, Typed, TypeOK, Record
  <2>2. ppc' = "decide"
    BY <1>4 DEF RecordEvent
  <2>3. QED
    BY <2>1, <2>2, DeadForGood DEF KilledIsDead
<1>5. CASE rec' = rec /\ (ppc' = "record" \/ UNCHANGED <<ppc, act, ev>>)
  BY <1>1, <1>5, DeadForGood DEF KilledIsDead
<1>6. QED
  BY <1>2, <1>3, <1>4, <1>5 DEF Next, Fork, Exit, TakeEvent, vars, storeVars, processorVars

(* Where kills are kills and no PID is given away again, no living process *)
(* is hidden from the dashboard.                                           *)
THEOREM OnlyDeadAreHidden ==
  ASSUME ~Lsm, ~Reuse
  PROVE  Spec => []HiddenIsDead
<1>1. Init => KilledIsDead
  BY DEF Init, KilledIsDead, NoRecord
<1>2. Typed /\ Born /\ KilledIsDead /\ [Next]_vars => KilledIsDead'
  BY KilledNext
<1>3. KilledIsDead => HiddenIsDead
  BY DEF KilledIsDead, HiddenIsDead
<1>4. QED
  BY TypedInit, TypedNext, BornInit, BornNext, <1>1, <1>2, <1>3, PTL DEF Spec

-----------------------------------------------------------------------------
(* The process tree.  A process is younger than the parents it has had,    *)
(* and the latest of them an event names or a record keeps.                *)

Before(b, parent, p) ==
  parent \in Pids => live[parent].st # "unborn" /\ b[parent] < b[p]

InOrderOfBirth(b) ==
  /\ b[Root] = 0
  /\ Before(b, ev.ppid, ev.pid)
  /\ \A p \in Pids : Before(b, live[p].ppid, p) /\ Before(b, rec[p].ppid, p)
  /\ \A p \in Pids : b[p] <= births

Ordered == \E b \in [Pids -> Nat] : InOrderOfBirth(b)

(* Initially nobody has a parent.                                          *)
LEMMA OrderedInit == Init => Ordered
<1> SUFFICES ASSUME Init PROVE Ordered
  OBVIOUS
<1> DEFINE b == [p \in Pids |-> 0]
<1>1. b \in [Pids -> Nat]
  OBVIOUS
<1>2. InOrderOfBirth(b)
  BY DatabaseAssumption DEF Init, NoEvent, NoRecord, InOrderOfBirth, Before
<1>3. QED
  BY <1>1, <1>2 DEF Ordered

(* A newborn is the youngest, an orphan goes to somebody older, and what   *)
(* the processor copies is a parent someone has or had.                    *)
LEMMA OrderedNext ==
  ASSUME ~Reuse
  PROVE  Typed /\ Born /\ Ordered /\ [Next]_vars => Ordered'
<1> SUFFICES ASSUME Typed, Born, Ordered, [Next]_vars PROVE Ordered'
  OBVIOUS
<1>1. PICK b \in [Pids -> Nat] : InOrderOfBirth(b)
  BY DEF Ordered
<1>2. /\ ev.pid \in Pids /\ births \in Nat /\ Root \in Pids /\ NoPid \notin Pids
      /\ \A p \in Pids : rec[p] \in Record
  BY DatabaseAssumption DEF Typed, TypeOK
\* As long as nobody is born the order stays the same.
<1>3. ASSUME births' = births, \A p \in Pids : live[p].st # "unborn" => live'[p].st # "unborn",
             Before(b, ev'.ppid, ev'.pid),
             \A p \in Pids : Before(b, live'[p].ppid, p) /\ Before(b, rec'[p].ppid, p)
      PROVE  Ordered'
  <2>1. InOrderOfBirth(b)'
    BY <1>1, <1>3 DEF InOrderOfBirth, Before
  <2>2. QED
    BY <2>1 DEF Ordered
<1>4. ASSUME NEW p \in Pids, NEW parent \in Pids, Fork(p, parent) PROVE Ordered'
  <2>1. /\ live[p].st = "unborn" /\ births' = births + 1 /\ rec' = rec /\ ev' = ev
        /\ live' = [live EXCEPT ![p] = [st |-> "alive", ppid |-> parent]]
        /\ live[parent].st = "alive"
    BY <1>4 DEF Fork, storeVars, processorVars
  <2>2. PICK c \in [Pids -> Nat] : c = [b EXCEPT ![p] = births + 1]
    <3>1. [b EXCEPT ![p] = births + 1] \in [Pids -> Nat]
      BY <1>2
    <3>2. QED
      BY <3>1
  <2>3. p # Root /\ p # ev.pid /\ rec[p].ppid = NoPid
    BY <2>1 DEF Born, NoRecord
  <2>4. \A q \in Pids : c[q] = IF q = p THEN births + 1 ELSE b[q]
    BY <2>2
  <2>5. \A q \in Pids : live'[q].st # "unborn" /\ q # p => live[q].st # "unborn"
    BY <2>1
  <2>6. ASSUME NEW r, NEW q \in Pids \ {p}, Before(b, r, q)
        PROVE  (r \in Pids => live'[r].st # "unborn" /\ c[r] < c[q])
    BY <2>1, <2>4, <2>6 DEF Before, Typed, TypeOK
  <2>7. live'[parent].st # "unborn" /\ c[parent] < c[p]
    BY <1>1, <1>2, <2>1, <2>4 DEF InOrderOfBirth, Typed, TypeOK
  <2>8. Before(c, ev.ppid, ev.pid)'
    BY <1>1, <1>2, <2>1, <2>3, <2>6 DEF InOrderOfBirth, Before
  <2>9. ASSUME NEW q \in Pids PROVE (Before(c, live[q].ppid, q) /\ Before(c, rec[q].ppid, q))'
    <3>1. CASE q = p
      BY <1>2, <2>1, <2>3, <2>7, <3>1 DEF Before, Typed, TypeOK
    <3>2. CASE q # p
      BY <1>1, <2>1, <2>6, <3>2 DEF InOrderOfBirth, Before, Typed, TypeOK
    <3>3. QED
      BY <3>1, <3>2
  <2>10. c[Root] = 0 /\ \A q \in Pids : c[q] <= births'
    BY <1>1, <1>2, <2>1, <2>3, <2>4 DEF InOrderOfBirth
  <2>11. InOrderOfBirth(c)'
    BY <2>8, <2>9, <2>10 DEF InOrderOfBirth
  <2>12. QED
    BY <2>2, <2>11 DEF Ordered
<1>5. ASSUME NEW p \in Pids, Exit(p) PROVE Ordered'
  <2>1. PICK heir \in {Root, live[p].ppid} :
          live' = [q \in Pids |->
                     IF q = p THEN [live[p] EXCEPT !.st = "dead"]
                     ELSE IF live[q].ppid = p /\ live[q].st = "alive"
                          THEN [live[q] EXCEPT !.ppid = heir] ELSE live[q]]
    BY <1>5 DEF Exit
  <2>2. births' = births /\ rec' = rec /\ ev' = ev
    BY <1>5 DEF Exit, storeVars, processorVars
  <2>3. ASSUME NEW q \in Pids PROVE Before(b, live'[q].ppid, q)
    <3>1. CASE q # p /\ live[q].ppid = p /\ live[q].st = "alive"
      <4>1. live'[q].ppid = heir /\ b[p] < b[q]
        BY <1>1, <2>1, <3>1 DEF InOrderOfBirth, Before, Typed, TypeOK
      <4>2. CASE heir = Root
        BY <1>1, <1>2, <4>1, <4>2 DEF InOrderOfBirth, Before, Born
      <4>3. CASE heir = live[p].ppid
        BY <1>1, <4>1, <4>3 DEF InOrderOfBirth, Before
      <4>4. QED
        BY <2>1, <4>2, <4>3
    <3>2. CASE ~(q # p /\ live[q].ppid = p /\ live[q].st = "alive")
      <4>1. live'[q].ppid = live[q].ppid
        BY <2>1, <3>2 DEF Typed, TypeOK
      <4>2. QED
        BY <1>1, <4>1 DEF InOrderOfBirth
    <3>3. QED
      BY <3>1, <3>2
  <2>4. \A q \in Pids : live[q].st # "unborn" => live'[q].st # "unborn"
    BY <2>1 DEF Typed, TypeOK
  <2>5. QED
    BY <1>1, <1>3, <2>2, <2>3, <2>4 DEF InOrderOfBirth
<1>6. ASSUME NEW p \in Pids, NEW found \in {{}} \cup {{k} : k \in Patterns}, TakeEvent(p, found)
      PROVE  Ordered'
  <2>1. /\ births' = births /\ live' = live /\ rec' = rec
        /\ ev'.pid = p /\ ev'.ppid = live[p].ppid
    BY <1>6 DEF TakeEvent, machineVars, storeVars
  <2>2. QED
    BY <1>1, <1>3, <2>1 DEF InOrderOfBirth
<1>7. CASE RecordEvent
  <2>1. /\ births' = births /\ live' = live /\ ev' = ev
        /\ \A p \in Pids : rec'[p].ppid = IF p = ev.pid THEN LatestParent(rec[p]) ELSE rec[p].ppid
    BY <1>2, <1>7 DEF RecordEvent, machineVars, Record, Typed, TypeOK
  <2>2. \A p \in Pids : Before(b, rec'[p].ppid, p)
    BY <1>1, <2>1 DEF InOrderOfBirth, LatestParent
  <2>3. QED
    BY <1>1, <1>3, <2>1, <2>2 DEF InOrderOfBirth
<1>8. CASE Decide
  <2>1. births' = births /\ rec' = rec /\ ev' = ev
    BY <1>8 DEF Decide, storeVars
  <2>2. live' = live \/ live' = [live EXCEPT ![ev.pid].st = "dead"]
    BY <1>8 DEF Decide
  <2>3. \A p \in Pids : /\ live'[p].ppid = live[p].ppid
                        /\ live[p].st # "unborn" => live'[p].st # "unborn"
    <3>1. live \in [Pids -> [st : {"unborn", "alive", "dead"}, ppid : Parents]]
      BY DEF Typed, TypeOK
    <3>2. CASE live' = live
      BY <3>2
    <3>3. CASE live' = [live EXCEPT ![ev.pid].st = "dead"]
      BY <1>2, <3>1, <3>3
    <3>4. QED
      BY <2>2, <3>2, <3>3
  <2>4. QED
    BY <1>1, <1>3, <2>1, <2>3 DEF InOrderOfBirth
<1>9. CASE RecordDecision
  <2>1. /\ births' = births /\ live' = live /\ ev' = NoEvent
        /\ \A p \in Pids : rec'[p].ppid = rec[p].ppid
    BY <1>2, <1>9, DecidedTyped DEF RecordDecision, machineVars, Typed, TypeOK
  <2>2. Before(b, ev'.ppid, ev'.pid)
    BY <1>2, <2>1 DEF NoEvent, Before
  <2>3. QED
    BY <1>1, <1>3, <2>1, <2>2 DEF InOrderOfBirth
<1>10. CASE UNCHANGED vars
  BY <1>1, <1>3, <1>10 DEF vars, machineVars, storeVars, processorVars, InOrderOfBirth
<1>11. QED
  BY <1>4, <1>5, <1>6, <1>7, <1>8, <1>9, <1>10 DEF Next

(* Among processes, one is the oldest.                                     *)
LEMMA Oldest ==
  ASSUME NEW b \in [Pids -> Nat], NEW T \in SUBSET Pids, T # {}
  PROVE  \E m \in T : \A p \in T : ~(b[p] < b[m])
<1> DEFINE A == {b[p] : p \in T}
<1>1. A \subseteq Nat /\ A # {}
  OBVIOUS
<1>2. PICK x \in A : \A y \in A : <<y, x>> \notin OpToRel(<, Nat)
  BY <1>1, NatLessThanWellFounded, WFMin
<1>3. PICK m \in T : x = b[m]
  BY <1>2
<1>4. QED
  BY <1>2, <1>3 DEF OpToRel

(* Where no PID is given away again, the process tree loses nobody: the    *)
(* oldest process it lost would be linked to an older one.                 *)
THEOREM TreeLosesNobody == ASSUME ~Reuse PROVE Spec => []TreeComplete
<1>1. Typed /\ Born /\ Ordered /\ [Next]_vars => Ordered'
  BY OrderedNext
<1>2. ASSUME Ordered PROVE TreeComplete
  <2>1. PICK b \in [Pids -> Nat] : InOrderOfBirth(b)
    BY <1>2 DEF Ordered
  <2>2. SUFFICES ASSUME NEW S \in Snapshots, NEW T \in SUBSET Shown(S), HoldsTree(S, T),
                        Shown(S) \ T # {}
                 PROVE  FALSE
    BY DEF TreeComplete, InTree
  <2>3. Shown(S) \subseteq Pids
    BY DEF Snapshots, Shown
  <2>4. PICK m \in Shown(S) \ T : \A p \in Shown(S) \ T : ~(b[p] < b[m])
    <3>1. Shown(S) \ T \in SUBSET Pids
      BY <2>3
    <3>2. QED
      BY <2>2, <3>1, Oldest
  <2>5. Linked(S, m)
    BY <2>2, <2>4 DEF HoldsTree, TreeRoots
  <2>6. rec[m].ppid \in Shown(S) \ T
    BY <2>2, <2>4, <2>5 DEF HoldsTree, Linked
  <2>7. b[rec[m].ppid] < b[m]
    BY <2>1, <2>3, <2>4, <2>6 DEF InOrderOfBirth, Before
  <2>8. QED
    BY <2>4, <2>6, <2>7
<1>3. QED
  BY TypedInit, TypedNext, BornInit, BornNext, OrderedInit, <1>1, <1>2, PTL DEF Spec

=============================================================================
