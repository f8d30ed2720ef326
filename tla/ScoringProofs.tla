--------------------------- MODULE ScoringProofs ---------------------------
(***************************************************************************)
(* Proofs about Scoring: the bound on false alarms that calibration        *)
(* promises, for every corpus small enough that rounded p-values tell its  *)
(* ranks, and what thresholds and formula guarantee together.              *)
(***************************************************************************)
EXTENDS Scoring, FiniteSetTheorems, WellFoundedInduction, TLAPS

(* Every nonempty set of natural numbers has a smallest element.           *)
LEMMA Smallest ==
  ASSUME NEW T \in SUBSET Nat, T # {}
  PROVE  \E x \in T : \A y \in T : x <= y
<1>1. PICK x \in T : \A y \in T : <<y, x>> \notin OpToRel(<, Nat)
  BY NatLessThanWellFounded, WFMin
<1>2. \A y \in T : ~(y < x)
  BY <1>1 DEF OpToRel
<1>3. QED
  BY <1>2

-----------------------------------------------------------------------------
(* Calibration.                                                            *)

(* The rank of a sample: how many of the corpus are at least as extreme,   *)
(* itself included.                                                        *)
Rank(c, i) == Cardinality(AtLeastAsExtreme(c, c[i]))

(* Ranks are numbers, and at most the size of the corpus.                  *)
LEMMA RankType ==
  ASSUME NEW c, IsFiniteSet(DOMAIN c), NEW i \in DOMAIN c
  PROVE  /\ IsFiniteSet(AtLeastAsExtreme(c, c[i]))
         /\ Cardinality(DOMAIN c) \in Nat
         /\ Rank(c, i) \in Nat /\ Rank(c, i) <= Cardinality(DOMAIN c)
<1>1. AtLeastAsExtreme(c, c[i]) \in SUBSET DOMAIN c
  BY DEF AtLeastAsExtreme
<1>2. QED
  BY <1>1, FS_Subset, FS_CardinalityType DEF Rank

(* A sample with a greater score has a greater rank.                       *)
LEMMA RankMonotone ==
  ASSUME NEW c, IsFiniteSet(DOMAIN c), \A k \in DOMAIN c : c[k] \in Int,
         NEW i \in DOMAIN c, NEW j \in DOMAIN c, c[i] < c[j]
  PROVE  Rank(c, i) < Rank(c, j)
<1> DEFINE S == AtLeastAsExtreme(c, c[i])
<1>1. j \notin S /\ S \cup {j} \in SUBSET AtLeastAsExtreme(c, c[j])
  BY DEF AtLeastAsExtreme
<1>2. Cardinality(S \cup {j}) = Cardinality(S) + 1
  BY <1>1, RankType, FS_AddElement
<1>3. Cardinality(S \cup {j}) <= Cardinality(AtLeastAsExtreme(c, c[j]))
  BY <1>1, RankType, FS_Subset
<1>4. QED
  BY <1>2, <1>3, RankType DEF Rank

(* Scored against the others, a sample's p-value is its rank over the size *)
(* of the corpus.                                                          *)
LEMMA PValueIsRank ==
  ASSUME NEW c, IsFiniteSet(DOMAIN c), \A k \in DOMAIN c : c[k] \in Int,
         NEW i \in DOMAIN c, DOMAIN Others(c, i) # {}
  PROVE  PValue(Others(c, i), c[i]) = [num |-> Rank(c, i), den |-> Cardinality(DOMAIN c)]
<1> DEFINE o == Others(c, i)
<1>1. DOMAIN o = DOMAIN c \ {i} /\ \A j \in DOMAIN o : o[j] = c[j]
  BY DEF Others
<1>2. AtLeastAsExtreme(o, c[i]) = AtLeastAsExtreme(c, c[i]) \ {i}
  BY <1>1 DEF AtLeastAsExtreme
<1>3. i \in AtLeastAsExtreme(c, c[i])
  BY DEF AtLeastAsExtreme
<1>4. Cardinality(AtLeastAsExtreme(o, c[i])) + 1 = Rank(c, i)
  <2> DEFINE S == AtLeastAsExtreme(c, c[i])
  <2>1. IsFiniteSet(S) /\ Cardinality(S) \in Nat /\ Rank(c, i) = Cardinality(S)
    BY RankType DEF Rank
  <2> HIDE DEF S
  <2>2. Cardinality(S \ {i}) = IF i \in S THEN Cardinality(S) - 1 ELSE Cardinality(S)
    BY <2>1, FS_RemoveElement
  <2>3. i \in S /\ AtLeastAsExtreme(o, c[i]) = S \ {i}
    BY <1>2, <1>3 DEF S
  <2>4. QED
    BY <2>1, <2>2, <2>3
<1>5. Cardinality(DOMAIN o) + 1 = Cardinality(DOMAIN c)
  BY <1>1, RankType, FS_RemoveElement
<1>6. QED
  BY <1>4, <1>5 DEF PValue

(* Below 100,000 samples rounding to millionths takes no rank to one of    *)
(* the thresholds that is not below it.                                    *)
LEMMA RoundedRank ==
  ASSUME NEW k \in Nat, NEW n \in Nat, n > 0, n < 100000, NEW percent \in {5, 15},
         AtMost(Rounded([num |-> k, den |-> n]), percent)
  PROVE  100 * k <= percent * n
<1> DEFINE q == (2000000 * k + n) \div (2 * n)
<1>1. q <= 10000 * percent
  BY SMT DEF AtMost, Rounded
<1>2. q \in Int /\ 2000000 * k + n < (2 * n) * (q + 1)
  BY SMT
<1> HIDE DEF q
<1>3. (2 * n) * (q + 1) <= (2 * n) * (10000 * percent + 1)
  BY SMT, <1>1, <1>2
<1>4. CASE percent = 5
  <2>1. 2000000 * k + n < 100002 * n
    BY SMT, <1>2, <1>3, <1>4
  <2>2. QED
    BY SMT, <1>4, <2>1
<1>5. CASE percent = 15
  <2>1. 2000000 * k + n < 300002 * n
    BY SMT, <1>2, <1>3, <1>5
  <2>2. QED
    BY SMT, <1>5, <2>1
<1>6. QED
  BY <1>4, <1>5

(* At most so many in a hundred samples of a corpus are alarms at one of   *)
(* the two levels.  The alarm with the largest score is no better than all *)
(* the alarms together, and its rank is within the bound.                  *)
LEMMA FewAlarms ==
  ASSUME NEW c, IsFiniteSet(DOMAIN c), \A k \in DOMAIN c : c[k] \in Int,
         NEW percent \in {5, 15}, TellsRanks(c)
  PROVE  100 * Cardinality(Alarms(c, percent)) <= percent * Cardinality(DOMAIN c)
<1> DEFINE A == Alarms(c, percent)
           n == Cardinality(DOMAIN c)
<1>1. A \in SUBSET DOMAIN c /\ IsFiniteSet(A) /\ Cardinality(A) \in Nat /\ n \in Nat
  <2>1. A \in SUBSET DOMAIN c
    BY DEF Alarms
  <2>2. QED
    BY <2>1, FS_Subset, FS_CardinalityType
<1>2. ASSUME NEW i \in A PROVE Rank(c, i) \in Nat /\ 100 * Rank(c, i) <= percent * n
  <2>1. i \in DOMAIN c /\ AtMost(Rounded(PValue(Others(c, i), c[i])), percent)
    BY <1>2 DEF Alarms
  <2>2. DOMAIN Others(c, i) # {}
    <3>1. SUFFICES ASSUME DOMAIN Others(c, i) = {} PROVE FALSE
      OBVIOUS
    <3>2. PValue(Others(c, i), c[i]) = [num |-> 1, den |-> 2]
      BY <3>1 DEF PValue
    <3>3. QED
      BY SMT, <2>1, <3>2 DEF AtMost, Rounded
  <2>3. PValue(Others(c, i), c[i]) = [num |-> Rank(c, i), den |-> n]
    BY <2>1, <2>2, PValueIsRank
  <2>4. n > 0
    BY <1>1, <2>1, FS_EmptySet
  <2>5. Rank(c, i) \in Nat
    BY <2>1, RankType
  <2>6. n < 100000
    BY SMT DEF TellsRanks
  <2> HIDE DEF n
  <2>7. QED
    BY SMT, <1>1, <2>1, <2>3, <2>4, <2>5, <2>6, RoundedRank
<1>3. CASE A = {}
  BY <1>1, <1>3, FS_EmptySet
<1>4. CASE A # {}
  <2> DEFINE T == {n - Rank(c, i) : i \in A}
  <2>1. T \in SUBSET Nat /\ T # {}
    BY <1>1, <1>4, RankType
  <2>2. PICK x \in T : \A y \in T : x <= y
    BY <2>1, Smallest
  <2>3. PICK i \in A : x = n - Rank(c, i)
    BY <2>2
  <2>4. \A j \in A : Rank(c, j) <= Rank(c, i)
    <3>1. SUFFICES ASSUME NEW j \in A PROVE Rank(c, j) <= Rank(c, i)
      OBVIOUS
    <3>2. n - Rank(c, i) <= n - Rank(c, j)
      BY <2>2, <2>3
    <3>3. n \in Nat /\ Rank(c, i) \in Nat /\ Rank(c, j) \in Nat
      BY <1>1, <1>2
    <3> HIDE DEF n
    <3>4. QED
      BY <3>2, <3>3
  <2>5. A \in SUBSET AtLeastAsExtreme(c, c[i])
    <3>1. ASSUME NEW j \in A, ~(c[j] <= c[i]) PROVE FALSE
      <4>1. i \in DOMAIN c /\ j \in DOMAIN c /\ c[i] < c[j]
        <5>1. i \in DOMAIN c /\ j \in DOMAIN c
          BY <1>1
        <5>2. c[i] \in Int /\ c[j] \in Int
          BY <5>1
        <5>3. QED
          BY <3>1, <5>1, <5>2
      <4>2. Rank(c, i) < Rank(c, j)
        BY <4>1, RankMonotone
      <4>3. QED
        BY <1>2, <2>4, <4>2
    <3>2. QED
      BY <1>1, <3>1 DEF AtLeastAsExtreme
  <2>6. Cardinality(A) <= Rank(c, i)
    BY <1>1, <2>5, RankType, FS_Subset DEF Rank
  <2>7. QED
    <3>1. ASSUME NEW a \in Nat, NEW r \in Nat, NEW q \in Int, a <= r, 100 * r <= q
          PROVE  100 * a <= q
      BY <3>1
    <3>2. percent * n \in Int
      BY <1>1
    <3>3. QED
      BY <1>1, <1>2, <2>6, <3>1, <3>2
<1>5. QED
  BY <1>3, <1>4

-----------------------------------------------------------------------------
(* The formula.                                                            *)

(* Rounding to the nearest hundredth does not pass a whole number of them. *)
LEMMA RoundedBelow ==
  ASSUME NEW x \in Int, NEW u \in Nat, u > 0, NEW k \in Int, x <= k * u
  PROVE  (2 * x + u) \div (2 * u) <= k
<1> DEFINE q == (2 * x + u) \div (2 * u)
<1>1. q \in Int /\ (2 * u) * q <= 2 * x + u
  OBVIOUS
<1>2. SUFFICES ASSUME q >= k + 1 PROVE FALSE
  BY <1>1
<1> HIDE DEF q
<1>3. (2 * u) * q >= (2 * u) * (k + 1)
  BY <1>1, <1>2
<1>4. (2 * u) * (k + 1) = 2 * (k * u) + 2 * u /\ k * u \in Int
  OBVIOUS
<1>5. QED
  BY <1>1, <1>3, <1>4

(* Rounding keeps the order.                                               *)
LEMMA RoundedMonotone ==
  ASSUME NEW x \in Int, NEW y \in Int, NEW u \in Nat, u > 0, x <= y
  PROVE  (2 * x + u) \div (2 * u) <= (2 * y + u) \div (2 * u)
<1> DEFINE p == (2 * x + u) \div (2 * u)
           q == (2 * y + u) \div (2 * u)
<1>1. /\ p \in Int /\ (2 * u) * p <= 2 * x + u
      /\ q \in Int /\ 2 * y + u < (2 * u) * (q + 1)
  OBVIOUS
<1>2. SUFFICES ASSUME p >= q + 1 PROVE FALSE
  BY <1>1
<1> HIDE DEF p, q
<1>3. (2 * u) * p >= (2 * u) * (q + 1)
  BY <1>1, <1>2
<1>4. QED
  BY <1>1, <1>3

(* Of two fractions of one denominator, too.                               *)
LEMMA RoundedKeepsOrder ==
  ASSUME NEW x, NEW y, y.den = x.den, x.den \in Nat, x.den > 0,
         x.num \in Nat, y.num \in Nat, y.num <= x.num
  PROVE  Rounded(y) <= Rounded(x)
<1>1. PICK a \in Nat, b \in Nat, u \in Nat : /\ a = y.num /\ b = x.num /\ u = x.den
                                          /\ u > 0 /\ a <= b
  OBVIOUS
<1> DEFINE v == 1000000 * a
           w == 1000000 * b
<1>2. /\ v \in Int /\ w \in Int /\ v <= w
      /\ Rounded(x) = (2 * w + u) \div (2 * u)
      /\ Rounded(y) = (2 * v + u) \div (2 * u)
  BY SMT, <1>1 DEF Rounded
<1> HIDE DEF v, w
<1>3. QED
  BY <1>1, <1>2, RoundedMonotone

(* Every nonempty set of numbers with a bound has a maximum.               *)
LEMMA Greatest ==
  ASSUME NEW S \in SUBSET (0 .. 100), S # {}
  PROVE  Max(S) \in S /\ \A y \in S : y <= Max(S)
<1> DEFINE T == {100 - y : y \in S}
<1>1. PICK x \in T : \A y \in T : x <= y
  <2>1. \A y \in S : y \in 0 .. 100 /\ 100 - y \in Nat
    OBVIOUS
  <2>2. T \in SUBSET Nat /\ T # {}
    BY <2>1
  <2>3. QED
    BY <2>2, Smallest
<1>2. PICK m \in S : x = 100 - m
  BY <1>1
<1>3. \A y \in S : m >= y
  <2>1. SUFFICES ASSUME NEW y \in S PROVE m >= y
    OBVIOUS
  <2>2. 100 - m <= 100 - y
    BY <1>1, <1>2
  <2>3. QED
    BY <2>2
<1>4. QED
  BY <1>3 DEF Max

(* Each entry lists finitely many indicators.                              *)
LEMMA FiniteFive ==
  ASSUME NEW a, NEW b, NEW c, NEW d, NEW e
  PROVE  /\ IsFiniteSet({a}) /\ IsFiniteSet({a, b}) /\ IsFiniteSet({a, b, c})
         /\ IsFiniteSet({a, b, c, d}) /\ IsFiniteSet({a, b, c, d, e})
<1>1. IsFiniteSet({a})
  BY FS_Singleton
<1>2. IsFiniteSet({a, b})
  <2>1. {a, b} = {a} \cup {b}
    OBVIOUS
  <2>2. QED
    BY <1>1, <2>1, FS_AddElement
<1>3. IsFiniteSet({a, b, c})
  <2>1. {a, b, c} = {a, b} \cup {c}
    OBVIOUS
  <2>2. QED
    BY <1>2, <2>1, FS_AddElement
<1>4. IsFiniteSet({a, b, c, d})
  <2>1. {a, b, c, d} = {a, b, c} \cup {d}
    OBVIOUS
  <2>2. QED
    BY <1>3, <2>1, FS_AddElement
<1>5. IsFiniteSet({a, b, c, d, e})
  <2>1. {a, b, c, d, e} = {a, b, c, d} \cup {e}
    OBVIOUS
  <2>2. QED
    BY <1>4, <2>1, FS_AddElement
<1>6. QED
  BY <1>1, <1>2, <1>3, <1>4, <1>5

(* The severities of the table, and its sets of indicators.                *)
LEMMA TableEntries ==
  ASSUME NEW e \in AttackTable
  PROVE  e.severity \in 0 .. 100 /\ IsFiniteSet(e.indicators)
<1>2. /\ IsFiniteSet({"curl", "wget", "write", "chmod", "+x"})
      /\ IsFiniteSet({"bash", "sh", "curl", "wget"})
      /\ IsFiniteSet({"connect", "nonstandard_port"})
      /\ IsFiniteSet({"/etc/crontab", "/var/spool/cron", "crontab"})
      /\ IsFiniteSet({"/etc/passwd", "useradd", "adduser"})
      /\ IsFiniteSet({"/etc/shadow"})
      /\ IsFiniteSet({"write", "chmod", "exec"})
      /\ IsFiniteSet({"connect", "exec", "443", "80", "8080"})
      /\ IsFiniteSet({"fork", "rapid_exec"})
      /\ IsFiniteSet({".ssh/authorized_keys", "ssh"})
      /\ IsFiniteSet({"nc", "ncat", "socat"})
      /\ IsFiniteSet({"bash", "/dev/tcp", "nc -e", "mkfifo"})
  BY FiniteFive
<1>3. \/ e = Entry(70, {"curl", "wget", "write", "chmod", "+x"})
      \/ e = Entry(50, {"bash", "sh", "curl", "wget"})
      \/ e = Entry(60, {"connect", "nonstandard_port"})
      \/ e = Entry(80, {"/etc/crontab", "/var/spool/cron", "crontab"})
      \/ e = Entry(90, {"/etc/passwd", "useradd", "adduser"})
      \/ e = Entry(85, {"/etc/shadow"})
      \/ e = Entry(75, {"write", "chmod", "exec"})
      \/ e = Entry(80, {"connect", "exec", "443", "80", "8080"})
      \/ e = Entry(90, {"fork", "rapid_exec"})
      \/ e = Entry(85, {".ssh/authorized_keys", "ssh"})
      \/ e = Entry(70, {"nc", "ncat", "socat"})
      \/ e = Entry(95, {"bash", "/dev/tcp", "nc -e", "mkfifo"})
  BY Zenon DEF AttackTable
<1>4. /\ 50 \in 0 .. 100 /\ 60 \in 0 .. 100 /\ 70 \in 0 .. 100 /\ 75 \in 0 .. 100
      /\ 80 \in 0 .. 100 /\ 85 \in 0 .. 100 /\ 90 \in 0 .. 100 /\ 95 \in 0 .. 100
  BY SMT
<1>5. PICK severity, indicators : /\ e = Entry(severity, indicators)
                                  /\ severity \in 0 .. 100 /\ IsFiniteSet(indicators)
  BY <1>2, <1>3, <1>4
<1>6. QED
  BY <1>5 DEF Entry

(* The severities of the techniques an event matches.                      *)
Found(words, oddPort) == {e.severity : e \in {e \in AttackTable : Matches(e, words, oddPort)}}

(* They are tenths between 0 and 100, and so is the worst of them.         *)
LEMMA SeverityType ==
  ASSUME NEW words, NEW oddPort
  PROVE  /\ Found(words, oddPort) \in SUBSET (0 .. 100)
         /\ Severity(words, oddPort) \in 0 .. 100
<1>1. \A e \in AttackTable : e.severity \in 0 .. 100
  BY TableEntries
<1>2. Found(words, oddPort) \in SUBSET (0 .. 100)
  BY <1>1 DEF Found
<1>3. Severity(words, oddPort) = IF Found(words, oddPort) = {} THEN 0 ELSE Max(Found(words, oddPort))
  BY DEF Severity, Found
<1>4. QED
  BY <1>2, <1>3, Greatest

(* Further indicators only add matches, so the worst does not get milder.  *)
LEMMA SeverityMonotone ==
  ASSUME NEW words, NEW more, NEW oddPort, words \subseteq more
  PROVE  Severity(words, oddPort) <= Severity(more, oddPort)
<1>1. Contained(words) \subseteq Contained(more)
  BY DEF Contained
<1>2. ASSUME NEW e \in AttackTable, Matches(e, words, oddPort) PROVE Matches(e, more, oddPort)
  <2> DEFINE few  == e.indicators \cap Contained(words)
             many == e.indicators \cap Contained(more)
  <2>1. IsFiniteSet(e.indicators)
    BY TableEntries
  <2>2. IsFiniteSet(many) /\ few \in SUBSET many
    BY <1>1, <2>1, FS_Intersection
  <2>3. Cardinality(few) \in Nat /\ Cardinality(many) \in Nat /\ Cardinality(few) <= Cardinality(many)
    BY <2>2, FS_Subset, FS_CardinalityType
  <2>4. QED
    BY <1>2, <2>3 DEF Matches
<1>3. Found(words, oddPort) \subseteq Found(more, oddPort)
  BY <1>2 DEF Found
<1>4. /\ Severity(words, oddPort) = IF Found(words, oddPort) = {} THEN 0 ELSE Max(Found(words, oddPort))
      /\ Severity(more, oddPort) = IF Found(more, oddPort) = {} THEN 0 ELSE Max(Found(more, oddPort))
  BY DEF Severity, Found
<1>5. CASE Found(words, oddPort) = {}
  BY <1>4, <1>5, SeverityType
<1>6. CASE Found(words, oddPort) # {}
  <2>1. /\ Max(Found(words, oddPort)) \in Found(words, oddPort)
        /\ \A y \in Found(more, oddPort) : y <= Max(Found(more, oddPort))
    BY <1>3, <1>6, SeverityType, Greatest
  <2>2. QED
    BY <1>3, <1>4, <1>6, <2>1
<1>7. QED
  BY <1>5, <1>6

(* The answers are whole numbers of millionths.                            *)
LEMMA PValueType ==
  ASSUME NEW c \in Corpora, NEW reply \in Replies
  PROVE  CallScorer(c, reply) \in Int
<1>1. CASE reply.kind = "unreachable" \/ reply.kind = "unloaded"
  BY SMT, <1>1 DEF CallScorer
<1>2. CASE reply.kind = "scored"
  <2> DEFINE S == AtLeastAsExtreme(c, reply.score)
             p == PValue(c, reply.score)
  <2>1. IsFiniteSet(DOMAIN c) /\ S \in SUBSET DOMAIN c
    BY ScoringAssumption DEF AtLeastAsExtreme
  <2>2. Cardinality(S) \in Nat /\ Cardinality(DOMAIN c) \in Nat
    BY <2>1, FS_Subset, FS_CardinalityType
  <2>3. p.num \in Nat /\ p.den \in Nat /\ p.den > 0
    BY <2>2 DEF PValue
  <2> HIDE DEF p
  <2>4. Rounded(p) \in Int
    BY SMT, <2>3 DEF Rounded
  <2>5. QED
    BY SMT, <1>2, <2>4 DEF CallScorer, p
<1>3. QED
  BY <1>1, <1>2 DEF Replies

(* A trust score does not pass a bound the exact sum keeps.                *)
LEMMA HundredthsBelow ==
  ASSUME NEW sum \in Int, NEW bound \in Nat, sum <= 200 * bound
  PROVE  Hundredths(sum) <= bound
<1> DEFINE c == Clamped(sum, 2000000)
<1>1. c \in Int /\ c <= bound * 200
  BY SMT DEF Clamped
<1> HIDE DEF c
<1>2. (2 * c + 200) \div (2 * 200) <= bound
  BY SMT, <1>1, RoundedBelow
<1>3. QED
  BY SMT, <1>2 DEF Hundredths, c

(* It keeps the order of the sums.                                         *)
LEMMA HundredthsMonotone ==
  ASSUME NEW sum \in Int, NEW lower \in Int, lower <= sum
  PROVE  Hundredths(lower) <= Hundredths(sum)
<1> DEFINE c == Clamped(sum, 2000000)
           d == Clamped(lower, 2000000)
<1>1. c \in Int /\ d \in Int /\ d <= c
  BY SMT DEF Clamped
<1> HIDE DEF c, d
<1>2. (2 * d + 200) \div (2 * 200) <= (2 * c + 200) \div (2 * 200)
  BY SMT, <1>1, RoundedMonotone
<1>3. QED
  BY SMT, <1>2 DEF Hundredths, c, d

(* The trust of a parent is a score.                                       *)
IsTrust(t)  == t \in Nat /\ t <= 10000
LEMMA TrustsAre == \A t \in ParentTrusts : IsTrust(t)
BY SMT, ScoringAssumption DEF IsTrust

(* A p-value of at most 5% leaves a score of at most 28: 2.5 points and    *)
(* the 25.5 of a fully trusted parent; one of at most 15% leaves 33.       *)
LEMMA TrustBelow ==
  ASSUME NEW p \in Int, NEW severity \in Nat, NEW parent, IsTrust(parent)
  PROVE  /\ AtMost(p, 5)  => ComputeTrust(p, severity, parent) <= 2800
         /\ AtMost(p, 15) => ComputeTrust(p, severity, parent) <= 3300
<1> DEFINE sum == p + 51 * parent - 4000 * severity
<1>1. /\ sum \in Int
      /\ AtMost(p, 5)  => sum <= 200 * 2800
      /\ AtMost(p, 15) => sum <= 200 * 3300
  BY SMT DEF AtMost, IsTrust
<1>2. ComputeTrust(p, severity, parent) = Hundredths(sum)
  BY SMT DEF ComputeTrust
<1> HIDE DEF sum
<1>3. QED
  BY SMT, <1>1, <1>2, HundredthsBelow

(* The score falls with the p-value, with the parent's trust and with the  *)
(* severity of what is matched.                                            *)
LEMMA TrustMonotone ==
  ASSUME NEW p \in Int, NEW q \in Int, q <= p,
         NEW severity \in Nat, NEW worse \in Nat, severity <= worse,
         NEW parent, IsTrust(parent), NEW other, IsTrust(other), other <= parent
  PROVE  ComputeTrust(q, worse, other) <= ComputeTrust(p, severity, parent)
<1> DEFINE sum   == p + 51 * parent - 4000 * severity
           lower == q + 51 * other - 4000 * worse
<1>1. sum \in Int /\ lower \in Int /\ lower <= sum
  BY SMT DEF IsTrust
<1>2. /\ ComputeTrust(p, severity, parent) = Hundredths(sum)
      /\ ComputeTrust(q, worse, other) = Hundredths(lower)
  BY SMT DEF ComputeTrust
<1> HIDE DEF sum, lower
<1>3. QED
  BY SMT, <1>1, <1>2, HundredthsMonotone

-----------------------------------------------------------------------------
(* The state.                                                              *)

(* A decision is what Respond made of some inputs, and the window holds    *)
(* the latest calls.                                                       *)
Answered == decision # NoDecision =>
              \E reply \in Replies, parent \in ParentTrusts :
                LET d == decision
                IN  d.reply = reply /\ d.parent = parent
                      /\ d = Respond(corpus, reply, d.words, d.oddPort, parent)
ScoringInv == corpus \in Corpora /\ Answered

(* The invariant holds in every reachable state: only Handle decides.      *)
THEOREM ScoringInvAlways == Spec => []ScoringInv
<1>1. Init => ScoringInv
  BY DEF Init, ScoringInv, Answered
<1>2. ASSUME ScoringInv, [Next]_vars PROVE ScoringInv'
  <2>1. ASSUME NEW call \in Syscalls, Ignore(call) PROVE ScoringInv'
    BY <1>2, <2>1 DEF Ignore, ScoringInv, Answered
  <2>2. ASSUME NEW call \in Syscalls, NEW reply \in Replies, NEW words \in Texts,
               NEW oddPort \in BOOLEAN, NEW parent \in ParentTrusts,
               Handle(call, reply, words, oddPort, parent)
        PROVE  ScoringInv'
    BY <1>2, <2>2 DEF Handle, ScoringInv, Answered, Respond
  <2>3. CASE UNCHANGED vars
    BY <1>2, <2>3 DEF vars, ScoringInv, Answered
  <2>4. QED
    BY <1>2, <2>1, <2>2, <2>3 DEF Next
<1>3. QED
  BY <1>1, <1>2, PTL DEF Spec

(* The guarantee README.md claims: at most five in a hundred benign        *)
(* samples are alarms to be killed, fifteen to be touched, for every       *)
(* corpus of fewer than 100,000 samples, rounded as its p-values are.      *)
THEOREM FalseAlarmsAreBounded == Spec => []FalseAlarmsBounded
<1>1. ScoringInv => FalseAlarmsBounded
  <2>1. SUFFICES ASSUME ScoringInv, NEW percent \in {5, 15},
                        TellsRanks(corpus)
                 PROVE  100 * Cardinality(Alarms(corpus, percent)) <= percent * Cardinality(DOMAIN corpus)
    BY DEF FalseAlarmsBounded
  <2>2. IsFiniteSet(DOMAIN corpus) /\ \A k \in DOMAIN corpus : corpus[k] \in Int
    BY <2>1, ScoringAssumption DEF ScoringInv
  <2>3. QED
    BY <2>1, <2>2, FewAlarms
<1>2. QED
  BY ScoringInvAlways, <1>1, PTL

(* Whatever is to be killed or verified scores below the bounds of the     *)
(* operator's commands, whatever the parent and the techniques.            *)
THEOREM AlarmsAreAlwaysBlockable == Spec => []AlarmsAreBlockable
<1>1. ScoringInv => AlarmsAreBlockable
  <2>1. SUFFICES ASSUME ScoringInv, Decided
                 PROVE  /\ decision.tier = "high" => decision.trust < 3000
                        /\ decision.tier \in {"medium", "high"} => decision.trust < 4000
                        /\ decision.status = "suspicious" <=> decision.tier # "low"
    BY DEF AlarmsAreBlockable
  <2>2. PICK reply \in Replies, parent \in ParentTrusts :
                /\ decision = Respond(corpus, reply, decision.words, decision.oddPort, parent)
    BY <2>1 DEF Decided, ScoringInv, Answered
  <2> DEFINE p   == CallScorer(corpus, reply)
             sev == Severity(decision.words, decision.oddPort)
  <2>3. /\ decision.tier = TierFromPValue(p) /\ decision.status = ClassifyProcess(p)
        /\ decision.trust = ComputeTrust(p, sev, parent)
    BY <2>2 DEF Respond
  <2>4. p \in Int /\ sev \in Nat /\ IsTrust(parent)
    <3>1. sev \in Nat
      BY SeverityType
    <3>2. p \in Int
      BY <2>1, PValueType DEF ScoringInv
    <3>3. QED
      BY <3>1, <3>2, TrustsAre
  <2> HIDE DEF p, sev
  <2>5. /\ decision.tier = "low" <=> ~AtMost(p, 15)
        /\ decision.tier = "high" => AtMost(p, 5)
        /\ decision.status = "suspicious" <=> AtMost(p, 15)
    BY SMT, <2>3, <2>4 DEF TierFromPValue, ClassifyProcess, AtMost
  <2>6. /\ AtMost(p, 5)  => ComputeTrust(p, sev, parent) <= 2800
        /\ AtMost(p, 15) => ComputeTrust(p, sev, parent) <= 3300
    BY <2>4, TrustBelow
  <2>7. /\ AtMost(p, 5)  => decision.trust <= 2800
        /\ AtMost(p, 15) => decision.trust <= 3300
    BY SMT, <2>3, <2>6
  <2>8. decision.trust \in Int
    BY SMT, <2>3, <2>4 DEF ComputeTrust, Hundredths, Clamped, IsTrust
  <2>9. QED
    BY <2>5, <2>7, <2>8
<1>2. QED
  BY ScoringInvAlways, <1>1, PTL

(* A more anomalous score, a less trusted parent or further indicators     *)
(* never make a verdict milder.                                            *)
THEOREM NeverMilder == Spec => []MoreSuspiciousNeverMilder
<1>1. ScoringInv => MoreSuspiciousNeverMilder
  <2>1. SUFFICES ASSUME ScoringInv, Scored,
                        NEW s \in Scores, NEW words \in Texts, NEW parent \in ParentTrusts,
                        s <= decision.reply.score, parent <= decision.parent
                 PROVE  LET other == Respond(corpus, [kind |-> "scored", score |-> s],
                                             decision.words \cup words, decision.oddPort, parent)
                        IN  /\ Danger[other.tier] >= Danger[decision.tier]
                            /\ other.trust <= decision.trust
    BY DEF MoreSuspiciousNeverMilder
  <2> DEFINE reply == [kind |-> "scored", score |-> s]
             more  == decision.words \cup words
             other == Respond(corpus, reply, more, decision.oddPort, parent)
             p     == CallScorer(corpus, decision.reply)
             q     == CallScorer(corpus, reply)
             sev   == Severity(decision.words, decision.oddPort)
             worse == Severity(more, decision.oddPort)
  <2>2. /\ decision = Respond(corpus, decision.reply, decision.words, decision.oddPort, decision.parent)
        /\ decision.reply \in Replies /\ decision.parent \in ParentTrusts
        /\ decision.reply.kind = "scored"
    BY <2>1 DEF Scored, Decided, ScoringInv, Answered
  <2>3. /\ decision.tier = TierFromPValue(p) /\ decision.trust = ComputeTrust(p, sev, decision.parent)
        /\ other.tier = TierFromPValue(q)    /\ other.trust = ComputeTrust(q, worse, parent)
    BY <2>2 DEF Respond
  <2>4. reply \in Replies /\ decision.reply.score \in Scores
    BY <2>2 DEF Replies
  <2>5. p \in Int /\ q \in Int
    BY <2>1, <2>2, <2>4, PValueType DEF ScoringInv
  <2>6. q <= p
    <3> DEFINE few == AtLeastAsExtreme(corpus, s)
               all == AtLeastAsExtreme(corpus, decision.reply.score)
    <3>1. /\ IsFiniteSet(DOMAIN corpus) /\ all \in SUBSET DOMAIN corpus
          /\ \A i \in DOMAIN corpus : corpus[i] \in Int
      BY <2>1, ScoringAssumption DEF ScoringInv, AtLeastAsExtreme
    <3>2. s \in Int /\ decision.reply.score \in Int
      BY <2>4, ScoringAssumption
    <3>3. few \in SUBSET all
      BY <2>1, <3>1, <3>2 DEF AtLeastAsExtreme
    <3>4. IsFiniteSet(all)
      BY <3>1, FS_Subset
    <3>5. /\ Cardinality(few) <= Cardinality(all)
          /\ Cardinality(few) \in Nat /\ Cardinality(all) \in Nat
      BY <3>3, <3>4, FS_Subset, FS_CardinalityType
    <3> DEFINE x == PValue(corpus, decision.reply.score)
               y == PValue(corpus, s)
    <3>6. y.den = x.den /\ x.den \in Nat /\ x.den > 0 /\ x.num \in Nat /\ y.num \in Nat /\ y.num <= x.num
      BY <3>1, <3>5, FS_CardinalityType DEF PValue
    <3>7. p = Rounded(x) /\ q = Rounded(y)
      BY SMT, <2>2 DEF CallScorer
    <3> HIDE DEF x, y, p, q
    <3>8. Rounded(y) <= Rounded(x)
      BY <3>6, RoundedKeepsOrder
    <3>9. QED
      BY <3>7, <3>8
  <2>7. sev \in Nat /\ worse \in Nat /\ sev <= worse
    BY SeverityType, SeverityMonotone
  <2>8. IsTrust(parent) /\ IsTrust(decision.parent)
    <3>1. parent \in ParentTrusts /\ decision.parent \in ParentTrusts
      BY <2>2
    <3>2. QED
      BY <3>1, TrustsAre
  <2> HIDE DEF p, q, sev, worse, more, reply, other
  <2>9. other.trust <= decision.trust
    <3>1. parent <= decision.parent
      BY <2>1
    <3>2. ComputeTrust(q, worse, parent) <= ComputeTrust(p, sev, decision.parent)
      BY <2>5, <2>6, <2>7, <2>8, <3>1, TrustMonotone
    <3>3. QED
      BY <2>3, <3>2
  <2>10. Danger[other.tier] >= Danger[decision.tier]
    <3>1. \A percent \in {5, 15} : AtMost(p, percent) => AtMost(q, percent)
      BY SMT, <2>5, <2>6 DEF AtMost
    <3>2. QED
      BY <2>3, <3>1 DEF TierFromPValue, Danger
  <2>11. QED
    BY <2>9, <2>10 DEF reply, more, other
<1>2. QED
  BY ScoringInvAlways, <1>1, PTL

-----------------------------------------------------------------------------
(* The sliding window.                                                     *)

(* The window holds the latest calls, as many as fit, in their order.      *)
Slides ==
  /\ window \in Seq(Syscalls) /\ calls \in Seq(Syscalls)
  /\ Len(window) = IF Len(calls) < NgramWindowSize THEN Len(calls) ELSE NgramWindowSize
  /\ \A i \in 1 .. Len(window) : window[i] = calls[Len(calls) - Len(window) + i]
WindowInv == Slides /\ (Decided => rarity = NgramRarity(window))

(* A further call slides it.                                               *)
LEMMA SlidesNext ==
  ASSUME Slides, NEW call \in Syscalls, RecordSyscall(call)
  PROVE  Slides'
<1> DEFINE all == Append(window, call)
<1>1. /\ all \in Seq(Syscalls) /\ Len(all) = Len(window) + 1
      /\ \A i \in 1 .. Len(all) : all[i] = IF i = Len(all) THEN call ELSE window[i]
  BY DEF Slides
<1>2. /\ calls' \in Seq(Syscalls) /\ Len(calls') = Len(calls) + 1
      /\ \A i \in 1 .. Len(calls') : calls'[i] = IF i = Len(calls') THEN call ELSE calls[i]
  BY DEF Slides, RecordSyscall
<1>3. /\ NgramWindowSize \in Nat /\ NgramWindowSize >= 3
      /\ Len(calls) \in Nat /\ Len(window) \in Nat /\ Len(window) <= Len(calls)
  BY ScoringAssumption DEF Slides
<1>4. \A i \in 1 .. Len(all) : all[i] = calls'[Len(calls') - Len(all) + i]
  <2>1. SUFFICES ASSUME NEW i \in 1 .. Len(all)
                 PROVE  all[i] = calls'[Len(calls') - Len(all) + i]
    OBVIOUS
  <2>2. CASE i = Len(all)
    BY <1>1, <1>2, <1>3, <2>2
  <2>3. CASE i # Len(all)
    <3> HIDE DEF all
    <3>0. i \in 1 .. Len(window)
      BY <1>1, <1>3, <2>1, <2>3
    <3>1. window[i] = calls[Len(calls) - Len(window) + i]
      BY <3>0 DEF Slides
    <3>2. /\ Len(calls') - Len(all) + i = Len(calls) - Len(window) + i
          /\ Len(calls) - Len(window) + i \in 1 .. Len(calls)
      BY <1>1, <1>2, <1>3, <3>0
    <3>3. calls'[Len(calls) - Len(window) + i] = calls[Len(calls) - Len(window) + i]
      BY <1>2, <1>3, <3>2
    <3> QED
      BY <1>1, <2>1, <2>3, <3>1, <3>2, <3>3
  <2> QED
    BY <2>2, <2>3
<1> HIDE DEF all
<1>5. CASE Len(all) > NgramWindowSize
  <2>1. window' = Tail(all)
    BY <1>5 DEF RecordSyscall, Recorded, all
  <2>2. /\ window' \in Seq(Syscalls) /\ Len(window') = Len(all) - 1
        /\ \A i \in 1 .. Len(window') : window'[i] = all[i + 1]
    <3>1. all # <<>>
      BY <1>1, <1>3
    <3> QED
      BY <1>1, <2>1, <3>1
  <2>3. Len(window) = NgramWindowSize /\ Len(window') = NgramWindowSize
    BY <1>1, <1>3, <1>5, <2>2 DEF Slides
  <2>4. \A i \in 1 .. Len(window') : window'[i] = calls'[Len(calls') - Len(window') + i]
    <3>1. SUFFICES ASSUME NEW i \in 1 .. Len(window')
                   PROVE  window'[i] = calls'[Len(calls') - Len(window') + i]
      OBVIOUS
    <3>2. i + 1 \in 1 .. Len(all) /\ Len(all) = Len(window') + 1
      BY <1>1, <1>3, <2>2
    <3>3. Len(calls') - Len(all) + (i + 1) = Len(calls') - Len(window') + i
      BY <1>2, <1>3, <2>3, <3>2
    <3>4. all[i + 1] = calls'[Len(calls') - Len(all) + (i + 1)]
      BY <1>4, <3>2
    <3> QED
      BY <2>2, <3>3, <3>4
  <2> QED
    BY <1>2, <1>3, <2>2, <2>3, <2>4 DEF Slides
<1>6. CASE ~(Len(all) > NgramWindowSize)
  <2>1. window' = all
    BY <1>6 DEF RecordSyscall, Recorded, all
  <2>2. Len(window) = Len(calls) /\ Len(window') = Len(calls')
    BY <1>1, <1>2, <1>3, <1>6, <2>1 DEF Slides
  <2>3. Len(calls') = IF Len(calls') < NgramWindowSize THEN Len(calls') ELSE NgramWindowSize
    BY <1>1, <1>2, <1>3, <1>6, <2>1, <2>2
  <2> QED
    BY <1>1, <1>2, <1>3, <1>4, <2>1, <2>2, <2>3 DEF Slides
<1> QED
  BY <1>5, <1>6

(* The trigrams of the window are the last ones of the calls.              *)
LEMMA WindowTrigrams ==
  ASSUME Slides
  PROVE  Rarities(window, 1, Len(window))
           = Rarities(calls, Max({1, Len(calls) - NgramWindowSize + 1}), Len(calls))
<1> DEFINE n == Len(calls)
           k == IF n < NgramWindowSize THEN 1 ELSE n - NgramWindowSize + 1
<1>1. /\ NgramWindowSize \in Nat /\ NgramWindowSize >= 3 /\ n \in Nat
      /\ Len(window) = n - k + 1 /\ k \in Nat /\ k >= 1 /\ k <= n + 1
  BY ScoringAssumption DEF Slides
<1>2. Max({1, n - NgramWindowSize + 1}) = k
  <2>1. /\ k \in {1, n - NgramWindowSize + 1}
        /\ \A x \in {1, n - NgramWindowSize + 1} : k >= x
        /\ \A x \in {1, n - NgramWindowSize + 1} : x \in Int
    BY <1>1
  <2>2. \A x, y \in {1, n - NgramWindowSize + 1} : x >= y /\ y >= x => x = y
    BY <2>1
  <2> HIDE DEF n, k
  <2> QED
    BY <2>1, <2>2 DEF Max
<1>3. ASSUME NEW i \in 1 .. (n - k - 1)
      PROVE  SubSeq(window, 1 + i - 1, 1 + i + 1) = SubSeq(calls, k + i - 1, k + i + 1)
  <2>1. \A j \in 0 .. 2 : window[i + j] = calls[k + i - 1 + j]
    <3>1. SUFFICES ASSUME NEW j \in 0 .. 2 PROVE window[i + j] = calls[k + i - 1 + j]
      OBVIOUS
    <3> HIDE DEF k
    <3>2. i + j \in 1 .. Len(window) /\ n - Len(window) + (i + j) = k + i - 1 + j
      BY <1>1, <1>3
    <3>3. window[i + j] = calls[n - Len(window) + (i + j)]
      BY <3>2 DEF Slides
    <3> QED
      BY <3>2, <3>3
  <2> HIDE DEF n, k
  <2>2. 1 + i - 1 = i /\ 1 + i + 1 = i + 2 /\ k + i - 1 \in Nat /\ k + i + 1 = k + i - 1 + 2
    BY <1>1, <1>3
  <2>3. SubSeq(window, i, i + 2) = [j \in 1 .. 3 |-> window[i + j - 1]]
    BY <1>1, <1>3
  <2>4. SubSeq(calls, k + i - 1, k + i - 1 + 2) = [j \in 1 .. 3 |-> calls[k + i - 1 + j - 1]]
    BY <1>1, <1>3
  <2>5. \A j \in 1 .. 3 : window[i + j - 1] = calls[k + i - 1 + j - 1]
    BY <1>1, <1>3, <2>1
  <2> QED
    BY <2>2, <2>3, <2>4, <2>5
<1>4. Len(window) - 1 - 1 = n - k - 1
  BY <1>1
<1> HIDE DEF n, k
<1> QED
  BY <1>2, <1>3, <1>4 DEF Rarities, n

(* The rarity that is scored is that of the process's last calls, over any *)
(* number of them, trusted or scored, and for any size of the window.      *)
THEOREM RarityIsOfLatest == Spec => []RarityOfLatest
<1>1. Init => WindowInv
  BY ScoringAssumption DEF Init, WindowInv, Slides, Decided
<1>2. ASSUME WindowInv, [Next]_vars PROVE WindowInv'
  <2>1. ASSUME NEW call \in Syscalls, Ignore(call) PROVE WindowInv'
    BY <1>2, <2>1, SlidesNext DEF Ignore, WindowInv, Decided
  <2>2. ASSUME NEW call \in Syscalls, NEW reply \in Replies, NEW words \in Texts,
               NEW oddPort \in BOOLEAN, NEW parent \in ParentTrusts,
               Handle(call, reply, words, oddPort, parent)
        PROVE  WindowInv'
    BY <1>2, <2>2, SlidesNext DEF Handle, WindowInv
  <2>3. CASE UNCHANGED vars
    BY <1>2, <2>3 DEF vars, WindowInv, Slides, Decided
  <2> QED
    BY <1>2, <2>1, <2>2, <2>3 DEF Next
<1>3. WindowInv => RarityOfLatest
  BY WindowTrigrams DEF WindowInv, RarityOfLatest, NgramRarity
<1> QED
  BY <1>1, <1>2, <1>3, PTL DEF Spec

=============================================================================
