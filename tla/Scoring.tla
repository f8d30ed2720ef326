------------------------------ MODULE Scoring ------------------------------
(***************************************************************************)
(* From an event to a verdict: the numbers of processEvents.  The sliding  *)
(* window of system calls and its trigram rarity (internal/graph/features. *)
(* go), the conformal p-value of the sidecar (sidecar/conformal.py) and    *)
(* what callScorer makes of its answers, the ATT&CK table (internal/       *)
(* narration/attack_table.go), tier and status (internal/response/engine.  *)
(* go), and the trust formula (internal/graph/trust.go).                   *)
(*                                                                         *)
(* One process is followed: windows are kept per PID and share nothing,    *)
(* but nothing removes them either, and a PID's next holder is scored by   *)
(* its predecessor's calls.  The Isolation Forest is external: it answers  *)
(* any score.  Numbers are exact: a p-value is a fraction until the answer *)
(* rounds it to millionths; rarities are per cent, severities tenths,      *)
(* trust scores hundredths of a point.                                     *)
(***************************************************************************)
EXTENDS Integers, Sequences, FiniteSets, FiniteSetsExt

CONSTANTS Syscalls,       \* event types, Event.TypeStr
          Baseline,       \* NgramBaseline.trigrams: some trigrams' frequencies
          NgramWindowSize,
          Scores,         \* what score_samples may answer: low is anomalous
          Corpora,        \* calibration_scores: functions from samples to scores
          Texts,          \* what comms and payloads contain: sets of indicators
          ParentTrusts,   \* trust of the parent's node
          MaxCalls        \* bound on the calls of a process

ASSUME ScoringAssumption ==
  /\ NgramWindowSize \in Nat /\ NgramWindowSize >= 3
  /\ MaxCalls \in Nat
  /\ Scores \subseteq Int
  /\ \A corpus \in Corpora : /\ IsFiniteSet(DOMAIN corpus)
                             /\ corpus \in [DOMAIN corpus -> Scores]
  /\ \A trust \in ParentTrusts : trust \in Nat /\ trust <= 10000

VARIABLES corpus,    \* the calibrator's scores, loaded once
          window,    \* FeatureExtractor.windows of the PID
          rarity,    \* FeatureVector.NgramRarity, the sum and the number of its terms
          decision,  \* the last event's Decision, with what it was made of
          calls      \* history: every call of the process

vars == <<corpus, window, rarity, decision, calls>>

-----------------------------------------------------------------------------
(* Trigrams.                                                               *)

(* Mutant: a window one call too long. *)
RecordedOneMore(w, call) == LET all == Append(w, call)
                            IN  IF Len(all) > NgramWindowSize + 1 THEN Tail(all) ELSE all

Recorded(w, call) == LET all == Append(w, call)
                     IN  IF Len(all) > NgramWindowSize THEN Tail(all) ELSE all

Rarity(trigram) == 100 - (IF trigram \in DOMAIN Baseline THEN Baseline[trigram] ELSE 0)

(* The rarities of the trigrams between two positions, one by one.         *)
Rarities(s, first, last) ==
  [i \in 1 .. (last - first - 1) |-> Rarity(SubSeq(s, first + i - 1, first + i + 1))]

(* Their sum, and how many there are.                                      *)
Total(rarities) == <<SumFunction(rarities), Cardinality(DOMAIN rarities)>>

NgramRarity(w) == Total(Rarities(w, 1, Len(w)))

-----------------------------------------------------------------------------
(* The sidecar.                                                            *)

AtLeastAsExtreme(c, s) == {i \in DOMAIN c : c[i] <= s}

(* Mutant: ties are not counted. *)
PValueStrict(c, s) ==
  IF DOMAIN c = {} THEN [num |-> 1, den |-> 2]
  ELSE [num |-> Cardinality({i \in DOMAIN c : c[i] < s}) + 1, den |-> Cardinality(DOMAIN c) + 1]

(* compute_p_value: without calibration data the answer is 0.5.            *)
PValue(c, s) ==
  IF DOMAIN c = {} THEN [num |-> 1, den |-> 2]
  ELSE [num |-> Cardinality(AtLeastAsExtreme(c, s)) + 1, den |-> Cardinality(DOMAIN c) + 1]

(* The answer of score: the nearest millionth.  A half goes up here, where *)
(* Python's round follows the binary error; no half is near a threshold in *)
(* a corpus below a million samples.                                       *)
Rounded(p) == (2000000 * p.num + p.den) \div (2 * p.den)

(* p <= percent / 100.                                                     *)
AtMost(p, percent) == p <= 10000 * percent

TierFromPValue(p) == IF ~AtMost(p, 15) THEN "low"
                     ELSE IF ~AtMost(p, 5) THEN "medium" ELSE "high"

ClassifyProcess(p) == IF AtMost(p, 15) THEN "suspicious" ELSE "unknown"

(* callScorer: a score, no connection, or a sidecar without a model, whose *)
(* 503 decodes to the zero value.  The engine takes tier, status and trust *)
(* from the number it gets, the rounded one.                               *)
Replies == {[kind |-> "scored", score |-> s] : s \in Scores}
             \cup {[kind |-> "unreachable"], [kind |-> "unloaded"]}

CallScorer(c, reply) == CASE reply.kind = "scored"      -> Rounded(PValue(c, reply.score))
                          [] reply.kind = "unreachable" -> 800000
                          [] reply.kind = "unloaded"    -> 0

-----------------------------------------------------------------------------
(* The ATT&CK table.                                                       *)

Entry(severity, indicators) == [severity |-> severity, indicators |-> indicators]

AttackTable ==
  { Entry(70, {"curl", "wget", "write", "chmod", "+x"}),
    Entry(50, {"bash", "sh", "curl", "wget"}),
    Entry(60, {"connect", "nonstandard_port"}),
    Entry(80, {"/etc/crontab", "/var/spool/cron", "crontab"}),
    Entry(90, {"/etc/passwd", "useradd", "adduser"}),
    Entry(85, {"/etc/shadow"}),
    Entry(75, {"write", "chmod", "exec"}),
    Entry(80, {"connect", "exec", "443", "80", "8080"}),
    Entry(90, {"fork", "rapid_exec"}),
    Entry(85, {".ssh/authorized_keys", "ssh"}),
    Entry(70, {"nc", "ncat", "socat"}),
    Entry(95, {"bash", "/dev/tcp", "nc -e", "mkfifo"}) }

(* containsStr finds an indicator inside a longer one, too.                *)
Inside == [w \in UNION {e.indicators : e \in AttackTable} \cup Syscalls |->
  CASE w = "bash" -> {"sh"}            [] w = "/etc/shadow" -> {"sh"}
    [] w = "/etc/crontab" -> {"crontab"} [] w = "8080" -> {"80"}
    [] w = ".ssh/authorized_keys" -> {"ssh", "sh"} [] w = "ssh" -> {"sh"}
    [] w \in {"ncat", "nc -e"} -> {"nc"}  [] w \in {"execve", "rapid_exec"} -> {"exec"}
    [] OTHER -> {}]

Contained(words) == words \cup UNION {Inside[w] : w \in words}

(* matchEntry: indicators in comm, payload or type, and an odd port.       *)
Matches(entry, words, oddPort) ==
  Cardinality(entry.indicators \cap Contained(words))
    + (IF oddPort /\ "nonstandard_port" \in entry.indicators THEN 1 ELSE 0) >= 2

(* MatchPatterns, and the best of the matches.                             *)
Severity(words, oddPort) ==
  LET found == {e.severity : e \in {e \in AttackTable : Matches(e, words, oddPort)}}
  IN  IF found = {} THEN 0 ELSE Max(found)

-----------------------------------------------------------------------------
(* Trust.                                                                  *)

Clamped(x, top) == IF x < 0 THEN 0 ELSE IF x > top THEN top ELSE x

(* A sum in units of 1/200 of a hundredth, kept between 0 and 100 points   *)
(* and rounded to the nearest hundredth.                                   *)
Hundredths(sum) == (2 * Clamped(sum, 2000000) + 200) \div 400

(* Mutant: the parent's trust is not decayed. *)
ComputeTrustUndecayed(p, severity, parent) == Hundredths(p + 60 * parent - 4000 * severity)

(* Mutant: severity adds to trust. *)
ComputeTrustRewarding(p, severity, parent) == Hundredths(p + 51 * parent + 4000 * severity)

(* ComputeTrust: 50 p + 0.3 * 0.85 parent - 2 severity.                    *)
ComputeTrust(p, severity, parent) == Hundredths(p + 51 * parent - 4000 * severity)

Respond(c, reply, words, oddPort, parent) ==
  LET p == CallScorer(c, reply)
  IN  [reply |-> reply, words |-> words, oddPort |-> oddPort, parent |-> parent,
       p |-> p, tier |-> TierFromPValue(p), status |-> ClassifyProcess(p),
       trust |-> ComputeTrust(p, Severity(words, oddPort), parent)]

NoDecision == [tier |-> "none"]

-----------------------------------------------------------------------------
Init == /\ corpus \in Corpora
        /\ window = <<>> /\ calls = <<>>
        /\ rarity = <<0, 0>>
        /\ decision = NoDecision

RecordSyscall(call) == /\ Len(calls) < MaxCalls
                       /\ window' = Recorded(window, call)
                       /\ calls' = Append(calls, call)

(* An event of a trusted process is recorded, no more.                     *)
Ignore(call) == /\ RecordSyscall(call)
                /\ rarity' = <<0, 0>> /\ decision' = NoDecision
                /\ UNCHANGED corpus

(* Any other is recorded, scored and answered; UpdateProcessTrust takes    *)
(* the parent's trust from the graph, or full trust if it is not there.    *)
Handle(call, reply, words, oddPort, parent) ==
  /\ oddPort => call = "connect"
  /\ RecordSyscall(call)
  /\ rarity' = NgramRarity(window')
  /\ decision' = Respond(corpus, reply, words \cup {call}, oddPort, parent)
  /\ UNCHANGED corpus

Next == \/ \E call \in Syscalls : Ignore(call)
        \/ \E call \in Syscalls, reply \in Replies, words \in Texts, oddPort \in BOOLEAN,
              parent \in ParentTrusts : Handle(call, reply, words, oddPort, parent)

Spec == Init /\ [][Next]_vars

-----------------------------------------------------------------------------
Decided == decision # NoDecision
Scored  == Decided /\ decision.reply.kind = "scored"

(* README.md promises that calibration bounds the rate of false alarms: of *)
(* the benign samples, scored one by one against the others, at most five  *)
(* in a hundred are killed and fifteen in a hundred touched, ties and      *)
(* small corpora included.  From 100,000 samples on (the shipped corpus    *)
(* has 2000) a further sample may be rounded down to the threshold.        *)
Others(c, i) == [j \in DOMAIN c \ {i} |-> c[j]]
Alarms(c, percent) == {i \in DOMAIN c : AtMost(Rounded(PValue(Others(c, i), c[i])), percent)}
TellsRanks(c) == Cardinality(DOMAIN c) < 100000
FalseAlarmsBounded ==
  TellsRanks(corpus) => \A percent \in {5, 15} :
    100 * Cardinality(Alarms(corpus, percent)) <= percent * Cardinality(DOMAIN corpus)

(* The tier of a decision and the scores of the bulk commands are numbers  *)
(* of three files; they agree.  Whatever is to be killed scores below 30,  *)
(* the bound of "block all processes below 30" and of a hostile process,   *)
(* whatever is to be verified below 40, the default bound, and nothing     *)
(* that is called suspicious is left at tier low.                          *)
AlarmsAreBlockable ==
  Decided => /\ decision.tier = "high" => decision.trust < 3000
             /\ decision.tier \in {"medium", "high"} => decision.trust < 4000
             /\ decision.status = "suspicious" <=> decision.tier # "low"

(* The three signals work in the same direction: a more anomalous score, a *)
(* less trusted parent or further indicators never make the verdict milder *)
(* or the process more trusted.                                            *)
Danger == [low |-> 0, medium |-> 1, high |-> 2]
MoreSuspiciousNeverMilder ==
  Scored =>
    \A s \in Scores, words \in Texts, parent \in ParentTrusts :
      LET other == Respond(corpus, [kind |-> "scored", score |-> s],
                           decision.words \cup words, decision.oddPort, parent)
      IN  s <= decision.reply.score /\ parent <= decision.parent =>
            /\ Danger[other.tier] >= Danger[decision.tier]
            /\ other.trust <= decision.trust

(* The rarity that is scored is that of the process's last calls: all its  *)
(* trigrams within the window, those of trusted events too, and no other.  *)
RarityOfLatest ==
  Decided => LET n == Len(calls)
             IN  rarity = Total(Rarities(calls, Max({1, n - NgramWindowSize + 1}), n))

=============================================================================
