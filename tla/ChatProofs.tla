----------------------------- MODULE ChatProofs -----------------------------
(***************************************************************************)
(* Proofs about Chat, for any number of requests at once, restarts and     *)
(* failures of the disk: what becomes of the conversations; what the log   *)
(* shows of what was done, though an effect and its entry are two steps;   *)
(* and that the commands the help tells the operator to type are taken as  *)
(* they are meant, all but "trust PID n".                                  *)
(***************************************************************************)
EXTENDS Chat, FiniteSetTheorems, TLAPS

(* The shape of the state, and what the numbers rest on.                   *)
Numbered ==
  /\ said \in Nat
  /\ conversations \in Seq([id : Nat, what : Nat]) /\ file \in Seq(Nat)
  /\ chatCounter = Len(conversations)
  /\ Range(Heard) \subseteq 1 .. said
  /\ ~up => conversations = <<>> /\ pending = {}
ChatInv == Numbered /\ ConversationsKept

(* One more element at the end of a sequence without it: no repetition,    *)
(* and one more in its range.                                              *)
LEMMA OneMore ==
  ASSUME NEW S, NEW s \in Seq(S), NEW x \in S, x \notin Range(s), IsInjective(s)
  PROVE  IsInjective(Append(s, x)) /\ Range(Append(s, x)) = Range(s) \cup {x}
<1>1. /\ DOMAIN Append(s, x) = 1 .. (Len(s) + 1) /\ DOMAIN s = 1 .. Len(s) /\ Len(s) \in Nat
      /\ \A k \in 1 .. Len(s) : Append(s, x)[k] = s[k]
      /\ Append(s, x)[Len(s) + 1] = x
  OBVIOUS
<1>2. \A k \in 1 .. Len(s) : s[k] # x
  BY <1>1 DEF Range
<1>3. IsInjective(Append(s, x))
  BY <1>1, <1>2 DEF IsInjective
<1>4. Range(Append(s, x)) = Range(s) \cup {x}
  BY <1>1 DEF Range
<1>5. QED
  BY <1>3, <1>4

(* What is recorded is heard, under the next number, and pending.          *)
LEMMA RecordKeeps ==
  ASSUME ChatInv, RecordConversation(said + 1), up, up' = up
  PROVE  ChatInv'
<1> DEFINE c == Conversation(chatCounter + 1, said + 1)
<1>1. /\ said' = said + 1 /\ conversations' = Append(conversations, c)
      /\ chatCounter' = chatCounter + 1 /\ pending' = pending \cup {said + 1}
      /\ file' = file /\ lost' = lost
  BY DEF RecordConversation
<1>2. /\ said \in Nat /\ chatCounter = Len(conversations) /\ c \in [id : Nat, what : Nat]
      /\ c.id = Len(conversations) + 1 /\ c.what = said + 1
      /\ conversations \in Seq([id : Nat, what : Nat])
  BY DEF ChatInv, Numbered, Conversation
<1> HIDE DEF c
<1>3. /\ DOMAIN conversations = 1 .. Len(conversations) /\ Len(conversations) \in Nat
      /\ DOMAIN conversations' = 1 .. (Len(conversations) + 1)
      /\ Len(conversations') = Len(conversations) + 1
      /\ conversations' \in Seq([id : Nat, what : Nat])
      /\ \A k \in 1 .. Len(conversations) : conversations'[k] = conversations[k]
      /\ conversations'[Len(conversations) + 1] = c
  BY <1>1, <1>2
<1>4. /\ DOMAIN Heard = 1 .. Len(conversations) /\ DOMAIN Heard' = 1 .. (Len(conversations) + 1)
      /\ \A k \in 1 .. Len(conversations) : Heard'[k] = Heard[k]
      /\ Heard'[Len(conversations) + 1] = said + 1
  BY <1>2, <1>3 DEF Heard
<1>5. /\ said + 1 \notin 1 .. said /\ 1 .. (said + 1) = (1 .. said) \cup {said + 1}
      /\ 1 .. (Len(conversations) + 1) = (1 .. Len(conversations)) \cup {Len(conversations) + 1}
  BY <1>2, <1>3
<1>6. \A k \in DOMAIN Heard : Heard[k] \in 1 .. said
  BY DEF ChatInv, Numbered, Range
<1>7. IsInjective(Heard') /\ Range(Heard') = Range(Heard) \cup {said + 1}
  <2>1. \A k \in 1 .. Len(conversations) : Heard[k] # said + 1
    BY <1>5, <1>4, <1>6
  <2>2. IsInjective(Heard')
    BY <1>3, <1>4, <2>1 DEF ChatInv, ConversationsKept, IsInjective
  <2>3. Range(Heard') = Range(Heard) \cup {said + 1}
    <3> DEFINE n == Len(conversations)
    <3>1. /\ DOMAIN Heard = 1 .. n /\ DOMAIN Heard' = (1 .. n) \cup {n + 1}
          /\ \A k \in 1 .. n : Heard'[k] = Heard[k]
          /\ Heard'[n + 1] = said + 1
      BY <1>5, <1>4
    <3> HIDE DEF n
    <3>2. QED
      BY <3>1, Zenon DEF Range
  <2>4. QED
    BY <2>2, <2>3
<1>8. Numbered'
  BY <1>1, <1>2, <1>3, <1>7, <1>5 DEF ChatInv, Numbered
<1>9. ConversationsKept'
  <2>1. Range(file)' = Range(file) /\ IsInjective(file)'
    BY <1>1 DEF ChatInv, ConversationsKept
  <2>2. \A k \in DOMAIN conversations' : conversations'[k].id = k
    <3>1. \A k \in 1 .. Len(conversations) : conversations[k].id = k
      BY <1>3 DEF ChatInv, ConversationsKept
    <3>2. QED
      BY <1>5, <1>2, <1>3, <3>1
  <2>3. /\ Range(file) \cup pending \cup lost = 1 .. said
        /\ Range(file) \cap pending = {} /\ Range(file) \cap lost = {} /\ pending \cap lost = {}
        /\ Range(file) \cup pending \subseteq Range(Heard)
    BY DEF ChatInv, ConversationsKept
  <2>4. said + 1 \notin Range(file) \cup lost
    BY <1>5, <2>3
  <2>5. QED
    BY <1>1, <1>7, <1>5, <2>1, <2>2, <2>3, <2>4 DEF ConversationsKept
<1>10. QED
  BY <1>8, <1>9 DEF ChatInv

(* The invariant holds initially and every step keeps it.                  *)
THEOREM ChatInvAlways == Spec => []ChatInv
<1>1. Init => ChatInv
  <2>1. SUFFICES ASSUME Init PROVE ChatInv
    OBVIOUS
  <2>2. conversations = <<>> /\ file = <<>>
    BY <2>1 DEF Init
  <2>3. Heard = <<>> /\ Range(Heard) = {} /\ Range(file) = {} /\ IsInjective(file) /\ IsInjective(Heard)
    <3>1. DOMAIN conversations = {} /\ DOMAIN file = {}
      BY <2>2
    <3>2. Heard = [k \in {} |-> conversations[k].what] /\ <<>> = [k \in {} |-> conversations[k].what]
      BY <2>2, <3>1 DEF Heard
    <3>3. QED
      BY <3>1, <3>2 DEF Heard, Range, IsInjective
  <2>4. 1 .. 0 = {}
    OBVIOUS
  <2>5. QED
    BY <2>1, <2>2, <2>3, <2>4 DEF Init, ChatInv, Numbered, ConversationsKept
<1>2. ASSUME ChatInv, [Next]_vars PROVE ChatInv'
  <2>1. ASSUME UNCHANGED <<talk, up>> PROVE ChatInv'
    <3>1. /\ conversations' = conversations /\ chatCounter' = chatCounter /\ pending' = pending
          /\ file' = file /\ said' = said /\ lost' = lost /\ up' = up
      BY <2>1 DEF talk
    <3>2. Heard' = Heard
      BY <3>1 DEF Heard
    <3>3. QED
      BY <1>2, <3>1, <3>2 DEF ChatInv, Numbered, ConversationsKept
  <2>2. ASSUME NEW h \in Handlers, Serve(h) PROVE ChatInv'
    <3>1. CASE UNCHANGED <<talk, up>>
      BY <2>1, <3>1
    <3>2. CASE RecordConversation(said + 1) /\ up /\ up' = up
      BY <1>2, <3>2, RecordKeeps
    <3>3. LookUp(h) \/ Ask(h) => UNCHANGED <<talk, up>> \/ (RecordConversation(said + 1) /\ up /\ up' = up)
      BY DEF LookUp, Ask, At
    <3>4. Serve(h) => LookUp(h) \/ Ask(h) \/ UNCHANGED <<talk, up>>
      BY DEF Serve, Receive, PostKill, Taken, Reply, Act, Block, BlockNext, Record
    <3>5. QED
      BY <2>2, <3>1, <3>2, <3>3, <3>4
  <2>3. ASSUME NEW what \in pending, AppendLine(what) PROVE ChatInv'
    <3>1. /\ pending' = pending \ {what} /\ up /\ up' = up
          /\ conversations' = conversations /\ chatCounter' = chatCounter /\ said' = said
      BY <2>3 DEF AppendLine
    <3>2. Heard' = Heard
      BY <3>1 DEF Heard
    <3>3. /\ what \in Nat /\ what \notin Range(file) /\ what \notin lost
          /\ file \in Seq(Nat) /\ IsInjective(file)
      BY <1>2 DEF ChatInv, Numbered, ConversationsKept
    <3>4. CASE file' = Append(file, what) /\ lost' = lost
      <4>1. IsInjective(file') /\ Range(file') = Range(file) \cup {what} /\ file' \in Seq(Nat)
        BY <3>3, <3>4, OneMore
      <4>2. QED
        BY <1>2, <2>3, <3>1, <3>2, <3>3, <3>4, <4>1 DEF ChatInv, Numbered, ConversationsKept
    <3>5. CASE lost' = lost \cup {what} /\ file' = file
      BY <1>2, <2>3, <3>1, <3>2, <3>3, <3>5 DEF ChatInv, Numbered, ConversationsKept
    <3>6. QED
      BY <2>3, <3>4, <3>5 DEF AppendLine
  <2>4. ASSUME Stop PROVE ChatInv'
    <3>1. /\ conversations' = <<>> /\ chatCounter' = 0 /\ pending' = {} /\ lost' = lost \cup pending
          /\ file' = file /\ said' = said /\ up' = FALSE
      BY <2>4 DEF Stop
    <3>2. Heard' = <<>> /\ Range(Heard') = {} /\ IsInjective(Heard') /\ DOMAIN conversations' = {}
      BY <3>1 DEF Heard, Range, IsInjective
    <3>3. QED
      BY <1>2, <3>1, <3>2 DEF ChatInv, Numbered, ConversationsKept
  <2>5. ASSUME Start PROVE ChatInv'
    <3>1. /\ conversations' = [i \in DOMAIN file |-> Conversation(i, file[i])]
          /\ chatCounter' = Len(file) /\ ~up /\ up'
          /\ pending' = pending /\ lost' = lost /\ file' = file /\ said' = said
      BY <2>5 DEF Start, Loaded
    <3>2. file \in Seq(Nat) /\ DOMAIN file = 1 .. Len(file) /\ Len(file) \in Nat /\ pending = {}
      BY <1>2, <3>1 DEF ChatInv, Numbered
    <3>3. /\ conversations' \in Seq([id : Nat, what : Nat]) /\ Len(conversations') = Len(file)
          /\ \A k \in DOMAIN conversations' : conversations'[k].id = k
      BY <3>1, <3>2 DEF Conversation
    <3>4. Heard' = file
      BY <3>1, <3>2 DEF Heard, Conversation
    <3>5. QED
      BY <1>2, <3>1, <3>2, <3>3, <3>4 DEF ChatInv, Numbered, ConversationsKept
  <2>6. CASE UNCHANGED vars
    BY <2>1, <2>6 DEF vars, talk
  <2>7. QED
    BY <1>2, <2>2, <2>3, <2>4, <2>5, <2>6 DEF Next
<1>3. QED
  BY <1>1, <1>2, PTL DEF Spec

(* Every conversation is pending, in the file once, or was lost to the     *)
(* disk or a stop, and the numbers are those of the memory, however often  *)
(* the program restarts and however requests overlap.                      *)
THEOREM ConversationsAreKept == Spec => []ConversationsKept
<1>1. ChatInv => ConversationsKept
  BY DEF ChatInv
<1>2. QED
  BY ChatInvAlways, <1>1, PTL

-----------------------------------------------------------------------------
(* The action log.  A request that is to record its action has been        *)
(* overtaken by those in front of it in the log, and may be by those still *)
(* to be recorded: by fewer later ones than there are handlers.            *)
Recording == {h \in Handlers : request[h].at = "record"}
Unrecorded == {request[h].act : h \in Recording}
After(i) == {log[k] : k \in {k \in DOMAIN log : \A m \in 1 .. k : log[m] # i}}
Overtakers(i) == {j \in Unrecorded \cup After(i) : j < i}

Logging ==
  /\ request = [h \in Handlers |-> request[h]]
  /\ \E S : done \in Seq(S)
  /\ log \in Seq(Nat) /\ Len(log) <= LogBound
Distinct ==
  /\ IsInjective(log) /\ Range(log) \subseteq 1 .. Len(done)
  /\ \A h \in Recording : request[h].act \in 1 .. Len(done) /\ request[h].act \notin Range(log)
  /\ \A g, h \in Recording : request[g].act = request[h].act => g = h
Complete == Len(log) < LogBound => (1 .. Len(done)) \ Unrecorded \subseteq Range(log)
FewOvertake ==
  \A i \in (1 .. Len(done)) \ Unrecorded : Cardinality(Overtakers(i)) < Cardinality(Handlers)
LogInv == Logging /\ Distinct /\ Complete /\ FewOvertake

(* The smaller of two numbers is one of them.                              *)
LEMMA MinOfTwo ==
  ASSUME NEW m \in Int, NEW n \in Int
  PROVE  Min({m, n}) = IF m <= n THEN m ELSE n
<1> DEFINE low == IF m <= n THEN m ELSE n
<1>1. low \in {m, n} /\ \A y \in {m, n} : low <= y
  OBVIOUS
<1>2. \A x \in {m, n} : (\A y \in {m, n} : x <= y) => x = low
  OBVIOUS
<1> HIDE DEF low
<1>3. Min({m, n}) = low
  BY <1>1, <1>2 DEF Min
<1>4. QED
  BY <1>3 DEF low

(* The entry is put in front, and what was logged moves back one place;    *)
(* the last of a full log is gone.                                         *)
LEMMA LoggedInFront ==
  ASSUME NEW entries \in Seq(Nat), NEW entry \in Nat, Len(entries) <= LogBound
  PROVE  LET l == Logged(entries, entry)
         IN  /\ l \in Seq(Nat) /\ l[1] = entry
             /\ Len(l) = IF Len(entries) < LogBound THEN Len(entries) + 1 ELSE LogBound
             /\ \A k \in 2 .. Len(l) : l[k] = entries[k - 1] /\ k - 1 \in 1 .. Len(entries)
<1> DEFINE all == <<entry>> \o entries
           n   == IF Len(entries) < LogBound THEN Len(entries) + 1 ELSE LogBound
<1>1. /\ LogBound \in Nat \ {0} /\ Len(entries) \in Nat
  BY ChatAssumption
<1>2. /\ all \in Seq(Nat) /\ Len(all) = Len(entries) + 1 /\ all[1] = entry
      /\ \A k \in 2 .. Len(all) : all[k] = entries[k - 1]
  OBVIOUS
<1>3. n \in 1 .. Len(all) /\ n \in Nat
  BY <1>1, <1>2
<1>4. Min({Len(all), LogBound}) = n
  BY <1>1, <1>2, MinOfTwo
<1>5. Logged(entries, entry) = SubSeq(all, 1, n)
  BY <1>4 DEF Logged
<1> HIDE DEF all
<1>6. /\ SubSeq(all, 1, n) \in Seq(Nat) /\ Len(SubSeq(all, 1, n)) = n
      /\ \A k \in 1 .. n : SubSeq(all, 1, n)[k] = all[k]
  <2>1. SubSeq(all, 1, n) = [k \in 1 .. n |-> all[k]]
    <3>1. n - 1 + 1 = n /\ n \in Int
      BY <1>3
    <3> HIDE DEF n
    <3>2. QED
      BY <3>1, <1>2, <1>3
  <2>2. \A k \in 1 .. n : all[k] \in Nat
    BY <1>2, <1>3
  <2> HIDE DEF n
  <2>3. QED
    BY <2>1, <2>2, <1>3
<1>7. QED
  BY <1>1, <1>2, <1>3, <1>5, <1>6

(* A set of acts of requests is no larger than the handlers are many.      *)
LEMMA FewUnrecorded ==
  ASSUME NEW a \in Unrecorded
  PROVE  /\ IsFiniteSet(Unrecorded \ {a})
         /\ Cardinality(Unrecorded \ {a}) < Cardinality(Handlers)
<1> DEFINE f == [h \in Recording |-> request[h].act]
<1>1. f \in Surjection(Recording, Unrecorded)
  <2>1. f \in [Recording -> Unrecorded]
    BY DEF Unrecorded
  <2>2. \A t \in Unrecorded : \E s \in Recording : f[s] = t
    BY DEF Unrecorded
  <2>3. QED
    BY <2>1, <2>2 DEF Surjection
<1>2. /\ IsFiniteSet(Recording) /\ Cardinality(Recording) <= Cardinality(Handlers)
  BY ChatAssumption, FS_Subset DEF Recording
<1>3. IsFiniteSet(Unrecorded) /\ Cardinality(Unrecorded) <= Cardinality(Recording)
  BY <1>1, <1>2, FS_Surjection
<1>4. /\ Cardinality(Unrecorded) \in Nat /\ Cardinality(Recording) \in Nat
      /\ Cardinality(Handlers) \in Nat
  BY <1>2, <1>3, ChatAssumption, FS_CardinalityType
<1>5. /\ IsFiniteSet(Unrecorded \ {a})
      /\ Cardinality(Unrecorded \ {a}) = Cardinality(Unrecorded) - 1
  BY <1>3, FS_RemoveElement
<1>6. QED
  BY <1>2, <1>3, <1>4, <1>5

(* What overtook an act still does in a smaller set.                       *)
LEMMA FewerOvertake ==
  ASSUME NEW S, NEW T, T \subseteq S, IsFiniteSet(S), Cardinality(S) < Cardinality(Handlers)
  PROVE  IsFiniteSet(T) /\ Cardinality(T) < Cardinality(Handlers)
<1>1. IsFiniteSet(T) /\ Cardinality(T) <= Cardinality(S)
  BY FS_Subset
<1>2. Cardinality(T) \in Nat /\ Cardinality(S) \in Nat /\ Cardinality(Handlers) \in Nat
  BY <1>1, ChatAssumption, FS_CardinalityType
<1>3. QED
  BY <1>1, <1>2

(* The sets of acts are finite.                                            *)
LEMMA OvertakersFinite ==
  ASSUME LogInv, NEW i \in Nat
  PROVE  IsFiniteSet(Overtakers(i))
<1>1. Overtakers(i) \subseteq 1 .. Len(done)
  <2>1. After(i) \subseteq Range(log)
    BY DEF After, Range
  <2>2. Unrecorded \subseteq 1 .. Len(done)
    BY DEF LogInv, Distinct, Unrecorded
  <2>3. QED
    BY <2>1, <2>2 DEF LogInv, Distinct, Overtakers
<1>2. Len(done) \in Nat
  BY DEF LogInv, Logging
<1>3. IsFiniteSet(1 .. Len(done))
  BY <1>2, FS_Interval
<1>4. QED
  BY <1>1, <1>3, FS_Subset

(* A request moves, and neither before nor after has it to record an act.  *)
LEMMA RequestMoves ==
  ASSUME LogInv, NEW h \in Handlers, NEW r, request[h].at # "record", r.at # "record",
         request' = [request EXCEPT ![h] = r], done' = done, log' = log
  PROVE  LogInv'
<1>1. /\ request' = [g \in Handlers |-> request'[g]]
      /\ \A g \in Handlers : request'[g] = IF g = h THEN r ELSE request[g]
  BY DEF LogInv, Logging
<1>2. Recording' = Recording /\ \A g \in Recording : request'[g] = request[g]
  BY <1>1 DEF Recording
<1>3. Unrecorded' = Unrecorded
  BY <1>2 DEF Unrecorded
<1>4. \A i : After(i)' = After(i) /\ Overtakers(i)' = Overtakers(i)
  BY <1>3 DEF After, Overtakers
<1>5. Logging' /\ Distinct' /\ Complete'
  <2>1. Logging'
    BY <1>1 DEF LogInv, Logging
  <2>2. Distinct'
    BY <1>2 DEF LogInv, Distinct
  <2>3. Complete'
    BY <1>3 DEF LogInv, Complete
  <2>4. QED
    BY <2>1, <2>2, <2>3
<1>6. FewOvertake'
  BY <1>3, <1>4 DEF LogInv, FewOvertake
<1>7. QED
  BY <1>5, <1>6 DEF LogInv

(* An action is done and is to be recorded: it overtakes no earlier one.   *)
LEMMA ActionDone ==
  ASSUME LogInv, NEW h \in Handlers, NEW act, NEW rest, request[h].at # "record",
         Acted(h, act, rest), log' = log
  PROVE  LogInv'
<1> DEFINE n == Len(done)
<1>1. PICK S : done \in Seq(S)
  BY DEF LogInv, Logging
<1>2. n \in Nat /\ done' = Append(done, act) /\ Len(done') = n + 1 /\ done' \in Seq(S \cup {act})
  BY <1>1 DEF Acted
<1>3. PICK r : r.at = "record" /\ r.act = n + 1 /\ request' = [request EXCEPT ![h] = r]
  BY <1>2 DEF Acted, Doing
<1>4. /\ request' = [g \in Handlers |-> request'[g]]
      /\ \A g \in Handlers : request'[g] = IF g = h THEN r ELSE request[g]
  BY <1>3 DEF LogInv, Logging
<1>5. /\ Recording' = Recording \cup {h} /\ h \notin Recording
      /\ \A g \in Recording : request'[g] = request[g]
      /\ request'[h].act = n + 1
  BY <1>3, <1>4 DEF Recording
<1>6. Unrecorded' = Unrecorded \cup {n + 1}
  BY <1>5 DEF Unrecorded
<1>7. 1 .. (n + 1) = (1 .. n) \cup {n + 1} /\ n + 1 \notin 1 .. n
  BY <1>2
<1>8. Logging'
  BY <1>2, <1>4 DEF LogInv, Logging
<1>9. Distinct'
  <2>1. \A g \in Recording : request[g].act \in 1 .. n /\ request[g].act \notin Range(log)
    BY DEF LogInv, Distinct
  <2>2. n + 1 \notin Range(log) /\ Range(log) \subseteq 1 .. n /\ IsInjective(log)
    BY <1>7 DEF LogInv, Distinct
  <2>3. \A g \in Recording' : request'[g].act \in 1 .. (n + 1) /\ request'[g].act \notin Range(log)
    BY <1>5, <1>7, <2>1, <2>2
  <2>4. \A f, g \in Recording' : request'[f].act = request'[g].act => f = g
    <3>1. \A f, g \in Recording : request'[f].act = request'[g].act => f = g
      BY <1>5 DEF LogInv, Distinct
    <3>2. \A f \in Recording : request'[f].act # n + 1
      BY <1>5, <1>7, <2>1
    <3>3. QED
      BY <1>5, <3>1, <3>2
  <2>5. QED
    BY <1>2, <1>7, <2>2, <2>3, <2>4 DEF Distinct
<1>10. Complete'
  BY <1>2, <1>6, <1>7 DEF LogInv, Complete
<1>11. FewOvertake'
  <2>1. SUFFICES ASSUME NEW i \in (1 .. (n + 1)) \ Unrecorded'
                 PROVE  Cardinality(Overtakers(i)') < Cardinality(Handlers)
    BY <1>2 DEF FewOvertake
  <2>2. i \in (1 .. n) \ Unrecorded
    BY <1>6, <1>7, <2>1
  <2>3. ~(n + 1 < i) /\ i \in Nat
    BY <1>2, <2>2
  <2>4. After(i)' = After(i)
    BY DEF After
  <2>5. Overtakers(i)' = Overtakers(i)
    BY <1>6, <2>3, <2>4 DEF Overtakers
  <2>6. QED
    BY <2>2, <2>5 DEF LogInv, FewOvertake
<1>12. QED
  BY <1>8, <1>9, <1>10, <1>11 DEF LogInv

(* An action is recorded.  It is overtaken by those that are still to be   *)
(* recorded, of which there are fewer than handlers; the others are        *)
(* overtaken by none that did not do so before.                            *)
LEMMA ActionRecorded ==
  ASSUME LogInv, NEW h \in Handlers, Record(h)
  PROVE  LogInv'
<1> DEFINE a == request[h].act
<1>1. /\ h \in Recording /\ log' = Logged(log, a) /\ done' = done
  BY DEF Record, Recording
<1>2. PICK r : r.at # "record" /\ request' = [request EXCEPT ![h] = r]
  <2>1. PICK r : /\ request' = [request EXCEPT ![h] = r]
                 /\ r = IF request[h].command.do # "block" THEN Idle
                        ELSE Doing("bulk", request[h].query, request[h].command, request[h].targets, 0)
    BY DEF Record
  <2>2. r.at # "record"
    BY <2>1 DEF Idle, Doing
  <2>3. QED
    BY <2>1, <2>2
<1>3. /\ request' = [g \in Handlers |-> request'[g]]
      /\ \A g \in Handlers : request'[g] = IF g = h THEN r ELSE request[g]
  BY <1>2 DEF LogInv, Logging
<1>4. Recording' = Recording \ {h} /\ \A g \in Recording' : request'[g] = request[g]
  BY <1>2, <1>3 DEF Recording
<1>5. a \in 1 .. Len(done) /\ a \notin Range(log) /\ a \in Unrecorded
  BY <1>1 DEF LogInv, Distinct, Unrecorded
<1>6. Unrecorded' = Unrecorded \ {a}
  <2>1. \A g \in Recording \ {h} : request[g].act # a
    BY <1>1 DEF LogInv, Distinct
  <2>2. QED
    BY <1>1, <1>4, <2>1 DEF Unrecorded
<1>7. Len(done) \in Nat /\ a \in Nat /\ log \in Seq(Nat) /\ LogBound \in Nat /\ Len(log) <= LogBound
      /\ Len(log) \in Nat /\ DOMAIN log = 1 .. Len(log)
  BY <1>5, ChatAssumption DEF LogInv, Logging
<1> HIDE DEF a
<1>8. /\ log' \in Seq(Nat) /\ log'[1] = a /\ Len(log') \in Nat /\ DOMAIN log' = 1 .. Len(log')
      /\ Len(log') = IF Len(log) < LogBound THEN Len(log) + 1 ELSE LogBound
      /\ \A k \in 2 .. Len(log') : log'[k] = log[k - 1] /\ k - 1 \in 1 .. Len(log)
  BY <1>1, <1>7, LoggedInFront
<1>9. Len(log') >= 1
  BY <1>7, <1>8, ChatAssumption
<1>10. Range(log') \subseteq Range(log) \cup {a}
  <2>1. \A k \in DOMAIN log' : k = 1 \/ k \in 2 .. Len(log')
    BY <1>8
  <2>2. \A k \in DOMAIN log' : log'[k] = a \/ log'[k] \in Range(log)
    BY <1>7, <1>8, <2>1 DEF Range
  <2>3. QED
    BY <2>2 DEF Range
<1>11. Logging'
  BY <1>1, <1>3, <1>7, <1>8 DEF LogInv, Logging
<1>12. Distinct'
  <2>1. IsInjective(log')
    <3>1. SUFFICES ASSUME NEW j \in DOMAIN log', NEW k \in DOMAIN log', log'[j] = log'[k]
                   PROVE  j = k
      BY DEF IsInjective
    <3>2. \A k2 \in 2 .. Len(log') : log'[k2] # a
      BY <1>5, <1>7, <1>8 DEF Range
    <3>3. (j = 1 \/ j \in 2 .. Len(log')) /\ (k = 1 \/ k \in 2 .. Len(log')) /\ j \in Nat /\ k \in Nat
      BY <1>8
    <3>4. CASE j \in 2 .. Len(log') /\ k \in 2 .. Len(log')
      <4>1. log[j - 1] = log[k - 1] /\ j - 1 \in DOMAIN log /\ k - 1 \in DOMAIN log
        BY <1>7, <1>8, <3>1, <3>4
      <4>2. j - 1 = k - 1
        BY <4>1 DEF LogInv, Distinct, IsInjective
      <4>3. QED
        BY <4>2, <3>3
    <3>5. QED
      BY <1>8, <3>1, <3>2, <3>3, <3>4
  <2>2. Range(log') \subseteq 1 .. Len(done)
    BY <1>5, <1>10 DEF LogInv, Distinct
  <2>3. \A g \in Recording' : request'[g].act \in 1 .. Len(done) /\ request'[g].act \notin Range(log')
    <3>1. \A g \in Recording' : request[g].act # a
      BY <1>1, <1>4 DEF LogInv, Distinct, a
    <3>2. QED
      BY <1>4, <1>10, <3>1 DEF LogInv, Distinct
  <2>4. \A f, g \in Recording' : request'[f].act = request'[g].act => f = g
    BY <1>4 DEF LogInv, Distinct
  <2>5. QED
    BY <1>1, <2>1, <2>2, <2>3, <2>4 DEF Distinct
<1>13. Complete'
  <2>1. SUFFICES ASSUME Len(log') < LogBound PROVE (1 .. Len(done)) \ Unrecorded' \subseteq Range(log')
    BY <1>1 DEF Complete
  <2>2. Len(log) < LogBound /\ Len(log') = Len(log) + 1
    BY <1>7, <1>8, <2>1
  <2>3. a \in Range(log')
    BY <1>8, <1>9 DEF Range
  <2>4. Range(log) \subseteq Range(log')
    <3>1. SUFFICES ASSUME NEW k \in 1 .. Len(log) PROVE log[k] \in Range(log')
      BY <1>7 DEF Range
    <3>2. k + 1 \in 2 .. Len(log') /\ k + 1 \in DOMAIN log' /\ (k + 1) - 1 = k
      BY <1>7, <1>8, <2>2, <3>1
    <3>3. QED
      BY <1>8, <3>2 DEF Range
  <2>5. QED
    BY <1>6, <2>2, <2>3, <2>4 DEF LogInv, Complete
<1>14. FewOvertake'
  <2>1. SUFFICES ASSUME NEW i \in (1 .. Len(done)) \ Unrecorded'
                 PROVE  Cardinality(Overtakers(i)') < Cardinality(Handlers)
    BY <1>1 DEF FewOvertake
  <2>2. CASE i = a
    <3>1. After(i)' = {}
      <4>1. \A k \in DOMAIN log' : 1 \in 1 .. k
        BY <1>8
      <4>2. QED
        BY <1>8, <2>2, <4>1 DEF After
    <3>2. Overtakers(i)' \subseteq Unrecorded \ {a}
      BY <1>6, <3>1 DEF Overtakers
    <3>3. QED
      BY <3>2, <1>5, FewUnrecorded, FewerOvertake
  <2>3. CASE i # a
    <3>1. i \in (1 .. Len(done)) \ Unrecorded /\ i \in Nat
      BY <1>6, <1>7, <2>1, <2>3
    <3>2. After(i)' \subseteq {a} \cup After(i)
      <4>1. SUFFICES ASSUME NEW k \in DOMAIN log', \A m \in 1 .. k : log'[m] # i
                     PROVE  log'[k] \in {a} \cup After(i)
        BY DEF After
      <4>2. CASE k = 1
        BY <1>8, <4>2
      <4>3. CASE k \in 2 .. Len(log')
        <5>1. k - 1 \in DOMAIN log /\ log'[k] = log[k - 1]
          BY <1>7, <1>8, <4>3
        <5>2. \A m \in 1 .. (k - 1) : log[m] # i
          <6>1. SUFFICES ASSUME NEW m \in 1 .. (k - 1) PROVE log[m] # i
            OBVIOUS
          <6>2. m + 1 \in 1 .. k /\ m + 1 \in 2 .. Len(log') /\ (m + 1) - 1 = m
            BY <1>8, <4>3, <6>1
          <6>3. log'[m + 1] = log[m]
            BY <1>8, <6>2
          <6>4. QED
            BY <4>1, <6>2, <6>3
        <5>3. QED
          BY <5>1, <5>2 DEF After
      <4>4. QED
        BY <1>8, <4>2, <4>3
    <3>3. Overtakers(i)' \subseteq Overtakers(i)
      BY <1>5, <1>6, <3>2 DEF Overtakers
    <3>4. IsFiniteSet(Overtakers(i)) /\ Cardinality(Overtakers(i)) < Cardinality(Handlers)
      BY <3>1, OvertakersFinite DEF LogInv, FewOvertake
    <3>5. QED
      BY <3>3, <3>4, FewerOvertake
  <2>4. QED
    BY <2>2, <2>3
<1>15. QED
  BY <1>11, <1>12, <1>13, <1>14 DEF LogInv

(* Nothing is done yet, and nothing logged.                                *)
LEMMA NothingDone ==
  ASSUME request = [h \in Handlers |-> Idle], log = <<>>, done = <<>>
  PROVE  LogInv
<1>1. \A h \in Handlers : request[h].at = "idle"
  BY DEF Idle
<1>2. Recording = {} /\ Unrecorded = {}
  BY <1>1 DEF Recording, Unrecorded
<1>3. Len(log) = 0 /\ Len(done) = 0 /\ DOMAIN log = {} /\ 1 .. Len(done) = {} /\ log \in Seq(Nat)
      /\ done \in Seq({})
  OBVIOUS
<1>4. Logging
  BY <1>3, ChatAssumption DEF Logging
<1>5. Distinct /\ Complete /\ FewOvertake
  BY <1>2, <1>3 DEF Distinct, Complete, FewOvertake, IsInjective, Range
<1>6. QED
  BY <1>4, <1>5 DEF LogInv

(* The invariant of the log holds initially and every step keeps it.       *)
THEOREM LogInvAlways == Spec => []LogInv
<1> DEFINE E == request = [h \in Handlers |-> Idle] /\ log = <<>> /\ done = <<>>
<1>1. E => LogInv
  BY NothingDone
<1>2. Init => LogInv
  BY <1>1 DEF Init
<1>3. E' => LogInv'
  BY <1>1, PTL
<1>4. ASSUME LogInv, [Next]_vars PROVE LogInv'
  <2>1. ASSUME UNCHANGED <<request, log, done>> PROVE LogInv'
    <3>1. request' = request /\ log' = log /\ done' = done
      BY <2>1
    <3>2. Recording' = Recording /\ Unrecorded' = Unrecorded
      BY <3>1 DEF Recording, Unrecorded
    <3>3. \A i : After(i)' = After(i) /\ Overtakers(i)' = Overtakers(i)
      BY <3>1, <3>2 DEF After, Overtakers
    <3>4. Logging' /\ Distinct'
      BY <1>4, <3>1, <3>2 DEF LogInv, Logging, Distinct
    <3>5. Complete' /\ FewOvertake'
      BY <1>4, <3>1, <3>2, <3>3 DEF LogInv, Complete, FewOvertake
    <3>6. QED
      BY <3>4, <3>5 DEF LogInv
  <2>2. ASSUME NEW h \in Handlers, Serve(h) PROVE LogInv'
    <3>1. ASSUME NEW r, request[h].at # "record", r.at # "record",
                 request' = [request EXCEPT ![h] = r], done' = done, log' = log
          PROVE  LogInv'
      BY <1>4, <3>1, RequestMoves
    <3>2. Idle.at # "record"
      BY DEF Idle
    <3>3. \A at, q, c, t, act : at # "record" => Doing(at, q, c, t, act).at # "record"
      BY DEF Doing
    <3>4. CASE Record(h)
      BY <1>4, <3>4, ActionRecorded
    <3>5. CASE Act(h)
      <4>1. request[h].at # "record" /\ log' = log
        BY <3>5 DEF Act, At
      <4>2. CASE Acted(h, request[h].command, {})
        BY <1>4, <4>1, <4>2, ActionDone
      <4>3. CASE Answered(h) /\ done' = done
        BY <4>1, <4>3, <3>1, <3>2 DEF Answered
      <4>4. QED
        BY <3>5, <4>2, <4>3 DEF Act
    <3>6. CASE BlockNext(h)
      <4>1. request[h].at # "record" /\ log' = log
        BY <3>6 DEF BlockNext, At
      <4>2. CASE \E t \in request[h].targets : Acted(h, Command("pause", t), request[h].targets \ {t})
        BY <1>4, <4>1, <4>2, ActionDone
      <4>3. CASE \E t \in request[h].targets :
                   /\ request' = [request EXCEPT ![h] =
                        Doing("bulk", @.query, @.command, request[h].targets \ {t}, 0)]
                   /\ done' = done
        <5>1. PICK t : /\ request' = [request EXCEPT ![h] =
                            Doing("bulk", @.query, @.command, request[h].targets \ {t}, 0)]
                       /\ done' = done
          BY <4>3
        <5>2. QED
          BY <4>1, <5>1, <3>1, <3>3
      <4>4. CASE Answered(h) /\ done' = done
        BY <4>1, <4>4, <3>1, <3>2 DEF Answered
      <4>5. QED
        BY <3>6, <4>2, <4>3, <4>4 DEF BlockNext
    <3>7. CASE Block(h)
      <4>1. request[h].at # "record" /\ log' = log /\ done' = done
        BY <3>7 DEF Block, At
      <4>2. PICK targets : request' = [request EXCEPT ![h] =
                             Doing("bulk", @.query, @.command, targets, 0)]
        BY <3>7 DEF Block
      <4>3. QED
        BY <4>1, <4>2, <3>1, <3>3
    <3>8. CASE Reply(h)
      BY <3>8, <3>1, <3>2 DEF Reply, Answered, At
    <3>9. CASE LookUp(h) \/ Ask(h)
      <4>1. request[h].at # "record" /\ log' = log /\ done' = done
        BY <3>9 DEF LookUp, Ask, At
      <4>2. CASE Answered(h)
        BY <4>1, <4>2, <3>1, <3>2 DEF Answered
      <4>3. CASE request' = [request EXCEPT ![h] =
                   Doing("act", @.query, Command("ask", Nobody), {}, 0)]
        BY <4>1, <4>3, <3>1, <3>3
      <4>4. QED
        BY <3>9, <4>2, <4>3 DEF LookUp, Ask
    <3>10. ASSUME NEW q, NEW c, Taken(h, q, c) PROVE LogInv'
      <4>1. request[h].at # "record"
        BY <3>10 DEF Taken, Idle
      <4>2. QED
        BY <4>1, <3>10, <3>1, <3>3 DEF Taken
    <3>11. QED
      BY <2>2, <3>4, <3>5, <3>6, <3>7, <3>8, <3>9, <3>10 DEF Serve, Receive, PostKill
  <2>3. CASE Stop
    BY <2>3, <1>3 DEF Stop
  <2>4. CASE Start \/ \E what \in pending : AppendLine(what)
    BY <2>1, <2>4 DEF Start, AppendLine
  <2>5. CASE UNCHANGED vars
    BY <2>1, <2>5 DEF vars
  <2>6. QED
    BY <1>4, <2>2, <2>3, <2>4, <2>5 DEF Next
<1>5. QED
  BY <1>2, <1>4, PTL DEF Spec

(* A sequence without repetition has as many elements as places.           *)
LEMMA AsManyAsPlaces ==
  ASSUME NEW s \in Seq(Nat), IsInjective(s)
  PROVE  IsFiniteSet(Range(s)) /\ Cardinality(Range(s)) = Len(s)
<1>1. DOMAIN s = 1 .. Len(s) /\ Len(s) \in Nat
  OBVIOUS
<1>2. s \in Bijection(1 .. Len(s), Range(s))
  <2>1. s \in [1 .. Len(s) -> Range(s)] /\ \A t \in Range(s) : \E k \in 1 .. Len(s) : s[k] = t
    BY <1>1 DEF Range
  <2>2. QED
    BY <1>1, <2>1 DEF Bijection, Injection, Surjection, IsInjective
<1>3. IsFiniteSet(1 .. Len(s)) /\ Cardinality(1 .. Len(s)) = Len(s)
  <2>1. /\ IsFiniteSet(1 .. Len(s))
        /\ Cardinality(1 .. Len(s)) = IF 1 > Len(s) THEN 0 ELSE Len(s) - 1 + 1
    BY <1>1, FS_Interval
  <2>2. QED
    BY <1>1, <2>1
<1>4. ExistsBijection(1 .. Len(s), Range(s))
  BY <1>2 DEF ExistsBijection
<1>5. QED
  BY <1>3, <1>4, FS_Bijection

(* Once every action is recorded the log holds as many as fit, none twice, *)
(* and one that is missing has as many later ones before it as fit, but    *)
(* for those of the requests that overlapped, however many there are.      *)
THEOREM ActionsAreLogged == Spec => []ActionsLogged
<1>1. LogInv => ActionsLogged
  <2> SUFFICES ASSUME LogInv, Recorded PROVE
        /\ Len(log) = Min({Len(done), LogBound})
        /\ IsInjective(log) /\ Range(log) \subseteq DOMAIN done
        /\ \A i \in DOMAIN done \ Range(log) : i < Len(done) - LogBound + Cardinality(Handlers)
    BY DEF ActionsLogged
  <2> DEFINE n == Len(done)
  <2>1. Unrecorded = {}
    BY DEF Recorded, Unrecorded, Recording
  <2>2. /\ n \in Nat /\ DOMAIN done = 1 .. n /\ LogBound \in Nat \ {0}
        /\ log \in Seq(Nat) /\ Len(log) \in Nat /\ Len(log) <= LogBound
        /\ IsInjective(log) /\ Range(log) \subseteq 1 .. n
    BY ChatAssumption DEF LogInv, Logging, Distinct
  <2> HIDE DEF n
  <2>3. IsFiniteSet(Range(log)) /\ Cardinality(Range(log)) = Len(log)
    BY <2>2, AsManyAsPlaces
  <2>4. IsFiniteSet(1 .. n) /\ Cardinality(1 .. n) = n
    BY <2>2, FS_Interval
  <2>5. Len(log) <= n
    BY <2>2, <2>3, <2>4, FS_Subset
  <2>6. Len(log) < LogBound => Range(log) = 1 .. n /\ Len(log) = n
    <3>1. Len(log) < LogBound => Range(log) = 1 .. n
      BY <2>1, <2>2 DEF LogInv, Complete, n
    <3>2. QED
      BY <3>1, <2>3, <2>4
  <2>7. Len(log) = Min({n, LogBound})
    BY <2>2, <2>5, <2>6, MinOfTwo
  <2>8. ASSUME NEW i \in (1 .. n) \ Range(log)
        PROVE  i < n - LogBound + Cardinality(Handlers)
    <3> DEFINE A == {j \in Range(log) : j > i}
               B == {j \in Range(log) : j < i}
    <3>1. Len(log) = LogBound /\ i \in Nat
      BY <2>2, <2>6, <2>8
    <3>2. After(i) = Range(log)
      <4>1. \A k \in DOMAIN log : log[k] # i
        BY <2>8 DEF Range
      <4>2. \A k \in DOMAIN log : \A m \in 1 .. k : m \in DOMAIN log
        BY <2>2
      <4>3. QED
        BY <4>1, <4>2 DEF After, Range
    <3>3. Overtakers(i) = B
      BY <2>1, <3>2 DEF Overtakers
    <3>4. IsFiniteSet(B) /\ Cardinality(B) < Cardinality(Handlers)
      BY <2>1, <2>3, <2>8, <3>3, FS_Subset DEF LogInv, FewOvertake, n
    <3>5. A \subseteq (i + 1) .. n
      BY <2>2, <3>1
    <3>6. /\ IsFiniteSet((i + 1) .. n)
          /\ Cardinality((i + 1) .. n) = n - i
      <4>1. i + 1 \in Int /\ n \in Int /\ i <= n
        BY <2>2, <2>8
      <4>2. /\ IsFiniteSet((i + 1) .. n)
            /\ Cardinality((i + 1) .. n) = IF i + 1 > n THEN 0 ELSE n - (i + 1) + 1
        BY <4>1, FS_Interval
      <4>3. QED
        BY <4>1, <4>2
    <3>7. IsFiniteSet(A) /\ Cardinality(A) <= n - i
      BY <3>5, <3>6, FS_Subset
    <3>8. Range(log) = A \cup B /\ A \cap B = {}
      BY <2>2, <2>8, <3>1
    <3> HIDE DEF A, B
    <3>9. LogBound = Cardinality(A) + Cardinality(B)
      <4>1. Cardinality(A \cup B) = Cardinality(A) + Cardinality(B) - Cardinality(A \cap B)
        BY <3>4, <3>7, FS_Union
      <4>2. Cardinality(A) \in Nat /\ Cardinality(B) \in Nat
        BY <3>4, <3>7, FS_CardinalityType
      <4>3. QED
        <5>1. Cardinality(A \cap B) = 0
          BY <3>8, FS_EmptySet
        <5>2. Cardinality(A \cup B) = LogBound
          BY <2>3, <3>1, <3>8
        <5>3. QED
          BY <4>1, <4>2, <5>1, <5>2
    <3>10. Cardinality(A) \in Nat /\ Cardinality(B) \in Nat /\ Cardinality(Handlers) \in Nat
      BY <3>4, <3>7, ChatAssumption, FS_CardinalityType
    <3>11. QED
      BY <2>2, <3>1, <3>4, <3>7, <3>9, <3>10
  <2>9. QED
    BY <2>2, <2>7, <2>8 DEF n
<1>2. QED
  BY LogInvAlways, <1>1, PTL

-----------------------------------------------------------------------------
(* What is typed and what is done.                                         *)

(* The first rule that takes a query decides.                              *)
LEMMA FirstRule ==
  ASSUME NEW q, NEW pid, NEW i \in 1 .. 10, Rules(q, pid)[i] # Nothing,
         \A j \in 1 .. 10 : j < i => Rules(q, pid)[j] = Nothing
  PROVE  Asked(q, pid) = Rules(q, pid)[i]
<1> DEFINE taken == {j \in DOMAIN Rules(q, pid) : Rules(q, pid)[j] # Nothing}
<1>1. DOMAIN Rules(q, pid) = 1 .. 10
  BY DEF Rules
<1>2. i \in taken /\ \A j \in taken : i <= j /\ j \in Int
  BY <1>1
<1>3. \A x \in taken : (\A y \in taken : x <= y) => x = i
  BY <1>2
<1> HIDE DEF taken
<1>4. Min(taken) = i /\ taken # {}
  BY <1>2, <1>3 DEF Min
<1>5. QED
  BY <1>4 DEF Asked, taken

(* A query is not said to trust without one of the words for it.           *)
LEMMA NotTrust ==
  ASSUME NEW q, NEW pid, q[1] \notin {"trust", "mark"},
         \A i \in 2 .. Len(q) : q[i] \notin {"trusted", "known"}
  PROVE  TrustRule(q, pid) = Nothing
BY DEF TrustRule, Opens

(* A form that opens otherwise is not scanned.                             *)
LEMMA NotScanned ==
  ASSUME NEW q, NEW forms, NEW numbers, \A f \in forms : 1 \in DOMAIN f /\ f[1] # q[1]
  PROVE  Scanned(q, forms, numbers) = {}
<1>1. \A f \in forms : ~SaysAt(q, 0, f)
  BY DEF SaysAt
<1>2. QED
  BY <1>1 DEF Scanned

(* A phrase with a word that is not in the query is not said.              *)
LEMMA NotSaid ==
  ASSUME NEW q, NEW phrase, Len(q) \in Nat, Len(phrase) \in Nat, DOMAIN phrase = 1 .. Len(phrase),
         NEW k \in DOMAIN phrase, \A i \in 1 .. Len(q) : q[i] # phrase[k]
  PROVE  ~Says(q, phrase)
<1>1. SUFFICES ASSUME NEW i \in 0 .. Len(q), SaysAt(q, i, phrase) PROVE FALSE
  BY DEF Says
<1>2. q[i + k] = phrase[k] /\ i + k \in 1 .. Len(q)
  BY <1>1 DEF SaysAt
<1>3. QED
  BY <1>2

(* A number is scanned if a form leads to it, and none to another.         *)
LEMMA ScannedOne ==
  ASSUME NEW q, NEW forms, NEW numbers, NEW n \in numbers, NEW form \in forms,
         Len(q) > Len(form), SaysAt(q, 0, form), q[Len(form) + 1] = n,
         \A f \in forms : Len(q) > Len(f) /\ SaysAt(q, 0, f) /\ q[Len(f) + 1] \in numbers
                          => q[Len(f) + 1] = n
  PROVE  Scanned(q, forms, numbers) = {n}
<1> DEFINE fit == {f \in forms : Len(q) > Len(f) /\ SaysAt(q, 0, f) /\ q[Len(f) + 1] \in numbers}
<1>1. form \in fit /\ \A f \in fit : q[Len(f) + 1] = n
  OBVIOUS
<1>2. Scanned(q, forms, numbers) = {q[Len(f) + 1] : f \in fit}
  BY DEF Scanned
<1> HIDE DEF fit
<1>3. QED
  BY <1>1, <1>2

(* resume, pause and kill with a PID: by the rule for each, in their order.*)
LEMMA AsksFor ==
  ASSUME NEW do \in {"resume", "pause", "kill"}, NEW n \in PIDs, NEW pid, NEW q,
         q = <<do, n>> \/ (do = "resume" /\ q = <<do, "pid", n>>)
  PROVE  Asked(q, pid) = Command(do, n)
<1>1. /\ Len(q) \in {2, 3} /\ q[1] = do
      /\ Len(q) = 2 => q[2] = n
      /\ Len(q) = 3 => q[2] = "pid" /\ q[3] = n /\ do = "resume"
      /\ Len(q) = 2 => q = <<do, n>>
  <2>1. CASE q = <<do, n>>
    BY <2>1
  <2>2. CASE do = "resume" /\ q = <<do, "pid", n>>
    BY <2>2
  <2>3. QED
    BY <2>1, <2>2
<1>2. n \notin {"trusted", "known", "mode", "pid"} /\ "pid" \notin PIDs
  BY WordsAssumption
<1>3. TrustRule(q, pid) = Nothing
  <2>1. \A i \in 2 .. Len(q) : q[i] = n \/ q[i] = "pid"
    BY <1>1
  <2>2. QED
    BY <1>1, <1>2, <2>1, NotTrust
<1>4. /\ \A w : SaysAt(q, 0, <<w>>) <=> w = do
      /\ \A w : SaysAt(q, 0, <<w, "pid">>) <=> w = do /\ Len(q) = 3
      /\ \A w : Len(<<w>>) = 1 /\ Len(<<w, "pid">>) = 2
  <2>1. \A w : SaysAt(q, 0, <<w>>) <=> w = do
    BY <1>1 DEF SaysAt
  <2>2. \A w : SaysAt(q, 0, <<w, "pid">>) <=> w = do /\ Len(q) = 3
    <3>1. \A w : SaysAt(q, 0, <<w, "pid">>) <=> 2 <= Len(q) /\ q[1] = w /\ q[2] = "pid"
      BY <1>1 DEF SaysAt
    <3>2. CASE Len(q) = 2
      <4>1. q[2] # "pid"
        BY <1>1, <1>2, <3>2
      <4>2. QED
        BY <1>1, <3>1, <3>2, <4>1
    <3>3. CASE Len(q) = 3
      <4>1. q[1] = do /\ q[2] = "pid" /\ 2 <= Len(q)
        BY <1>1, <3>3
      <4>2. QED
        BY <3>1, <3>3, <4>1
    <3>4. QED
      BY <1>1, <3>2, <3>3
  <2>3. QED
    BY <2>1, <2>2
<1>5. ASSUME NEW other, other # do
      PROVE  Scan(do, q, {<<do, "pid">>, <<do>>, <<other>>}) = Command(do, n)
  <2> DEFINE forms == {<<do, "pid">>, <<do>>, <<other>>}
  <2>1. \A f \in forms : Len(q) > Len(f) /\ SaysAt(q, 0, f) /\ q[Len(f) + 1] \in PIDs
                         => q[Len(f) + 1] = n
    <3>1. SUFFICES ASSUME NEW f \in forms, Len(q) > Len(f), SaysAt(q, 0, f), q[Len(f) + 1] \in PIDs
                   PROVE  q[Len(f) + 1] = n
      OBVIOUS
    <3>2. CASE f = <<do, "pid">>
      BY <1>1, <1>4, <3>1, <3>2
    <3>3. CASE f = <<do>>
      BY <1>1, <1>2, <1>4, <3>1, <3>3
    <3>4. CASE f = <<other>>
      BY <1>4, <1>5, <3>1, <3>4
    <3>5. QED
      BY <3>1, <3>2, <3>3, <3>4
  <2>2. \E f \in forms : Len(q) > Len(f) /\ SaysAt(q, 0, f) /\ q[Len(f) + 1] = n
    <3>1. CASE Len(q) = 2
      BY <1>1, <1>4, <3>1
    <3>2. CASE Len(q) = 3
      BY <1>1, <1>4, <3>2
    <3>3. QED
      BY <1>1, <3>1, <3>2
  <2> HIDE DEF forms
  <2>3. Scanned(q, forms, PIDs) = {n}
    BY <2>1, <2>2, ScannedOne
  <2>4. (CHOOSE x \in {n} : TRUE) = n
    OBVIOUS
  <2>5. QED
    BY <2>3, <2>4 DEF Scan, forms
<1>6. \A what, w, other : w # do /\ other # do => Scan(what, q, {<<w, "pid">>, <<w>>, <<other>>}) = Nothing
  <2>1. SUFFICES ASSUME NEW w, NEW other, w # do, other # do
                 PROVE  Scanned(q, {<<w, "pid">>, <<w>>, <<other>>}, PIDs) = {}
    BY DEF Scan
  <2>2. \A f \in {<<w, "pid">>, <<w>>, <<other>>} : 1 \in DOMAIN f /\ f[1] # q[1]
    BY <1>1, <2>1
  <2>3. QED
    BY <2>2, NotScanned
<1>0. do # "resume" => ResumeRule(q) = Nothing
  BY <1>6 DEF ResumeRule
<1>7. \A w : Command(do, w) # Nothing
  BY DEF Command, Nothing
<1>8. CASE do = "resume"
  <2>1. Rules(q, pid)[1] = Nothing /\ Rules(q, pid)[2] = Command(do, n)
    BY <1>3, <1>5, <1>8 DEF Rules, ResumeRule
  <2>2. \A j \in 1 .. 10 : j < 2 => j = 1
    OBVIOUS
  <2>3. QED
    BY <1>7, <2>1, <2>2, FirstRule
<1>9. CASE do = "pause"
  <2>1. ~(\E i \in DOMAIN q : q[i] = "mode")
    BY <1>1, <1>2, <1>9
  <2>2. PauseRule(q) = Command(do, n) /\ ResumeRule(q) = Nothing
    <3>1. Scan("pause", q, {<<"pause", "pid">>, <<"pause">>, <<"suspend">>}) = Command(do, n)
      BY <1>5, <1>9
    <3>2. QED
      BY <1>0, <1>9, <2>1, <3>1 DEF PauseRule
  <2>3. /\ Rules(q, pid)[1] = Nothing /\ Rules(q, pid)[2] = Nothing
        /\ Rules(q, pid)[3] = Command(do, n)
    BY <1>3, <2>2 DEF Rules
  <2>4. \A j \in 1 .. 10 : j < 3 => j \in {1, 2}
    OBVIOUS
  <2>5. QED
    BY <1>7, <2>3, <2>4, FirstRule
<1>10. CASE do = "kill"
  <2>1. KillRule(q) = Command(do, n) /\ ResumeRule(q) = Nothing
    <3>1. Scan("kill", q, {<<"kill", "pid">>, <<"kill">>, <<"terminate">>}) = Command(do, n)
      BY <1>5, <1>10
    <3>2. QED
      BY <1>0, <1>10, <3>1 DEF KillRule
  <2>2. PauseRule(q) = Nothing
    BY <1>1, <1>6, <1>10 DEF PauseRule
  <2>3. /\ Rules(q, pid)[1] = Nothing /\ Rules(q, pid)[2] = Nothing /\ Rules(q, pid)[3] = Nothing
        /\ Rules(q, pid)[4] = Command(do, n)
    BY <1>3, <2>1, <2>2 DEF Rules
  <2>4. \A j \in 1 .. 10 : j < 4 => j \in {1, 2, 3}
    OBVIOUS
  <2>5. QED
    BY <1>7, <2>3, <2>4, FirstRule
<1>11. QED
  BY <1>8, <1>9, <1>10

(* A query that names no PID and opens otherwise asks for no signal.       *)
LEMMA NoSignalAsked ==
  ASSUME NEW q, NEW pid, q[1] \notin {"trust", "mark", "resume", "unpause", "pause", "suspend",
                                     "kill", "terminate"},
         \A i \in 2 .. Len(q) : q[i] \notin {"trusted", "known"}
  PROVE  /\ TrustRule(q, pid) = Nothing /\ ResumeRule(q) = Nothing
         /\ PauseRule(q) = Nothing /\ KillRule(q) = Nothing
<1>1. ASSUME NEW do, NEW w, NEW other, w # q[1], other # q[1]
      PROVE  Scan(do, q, {<<w, "pid">>, <<w>>, <<other>>}) = Nothing
  <2>1. \A f \in {<<w, "pid">>, <<w>>, <<other>>} : 1 \in DOMAIN f /\ f[1] # q[1]
    BY <1>1
  <2>2. QED
    BY <2>1, NotScanned DEF Scan
<1>2. TrustRule(q, pid) = Nothing
  BY NotTrust
<1>3. ResumeRule(q) = Nothing
  BY <1>1 DEF ResumeRule
<1>4. PauseRule(q) = Nothing
  BY <1>1 DEF PauseRule
<1>5. KillRule(q) = Nothing
  BY <1>1 DEF KillRule
<1>6. QED
  BY <1>2, <1>3, <1>4, <1>5

(* block all below a bound.                                                *)
LEMMA AsksToBlock ==
  ASSUME NEW n \in Bounds, NEW pid
  PROVE  Asked(<<"block", "all", "below", n>>, pid) = Command("block", n)
<1> DEFINE q == <<"block", "all", "below", n>>
<1>1. Len(q) = 4 /\ q[1] = "block" /\ q[2] = "all" /\ q[3] = "below" /\ q[4] = n
  OBVIOUS
<1> HIDE DEF q
<1>2. \A i \in 2 .. Len(q) : q[i] \notin {"trusted", "known"}
  <2>1. n \notin {"trusted", "known"}
    BY WordsAssumption
  <2>2. QED
    BY <1>1, <2>1
<1>3. /\ TrustRule(q, pid) = Nothing /\ ResumeRule(q) = Nothing
      /\ PauseRule(q) = Nothing /\ KillRule(q) = Nothing
  BY <1>1, <1>2, NoSignalAsked
<1>4. SaysOneOf(q, {<<"block", "all">>, <<"pause", "all">>})
  <2>1. SaysAt(q, 0, <<"block", "all">>)
    BY <1>1 DEF SaysAt
  <2>2. QED
    BY <1>1, <2>1 DEF SaysOneOf, Says
<1>5. Scanned(q, BlockForms, Bounds) = {n}
  <2> DEFINE form == <<"block", "all", "below">>
  <2>1. SaysAt(q, 0, form)
    BY <1>1 DEF SaysAt
  <2>2. form \in BlockForms /\ Len(form) = 3 /\ 3 + 1 = 4
    BY DEF BlockForms
  <2>3. \A f \in BlockForms : f = form \/ f = <<"pause", "all", "below">> \/ Len(f) = 4
    <3>1. /\ Len(<<"block", "all", "process", "below">>) = 4
          /\ Len(<<"block", "all", "processes", "below">>) = 4
      OBVIOUS
    <3>2. QED
      BY <3>1 DEF BlockForms
  <2> HIDE DEF form
  <2>4. ~SaysAt(q, 0, <<"pause", "all", "below">>)
    BY <1>1 DEF SaysAt
  <2>5. \A f \in BlockForms : Len(q) > Len(f) /\ SaysAt(q, 0, f) => f = form
    BY <1>1, <2>3, <2>4
  <2>6. q[Len(form) + 1] = n /\ Len(q) > Len(form)
    BY <1>1, <2>2
  <2>7. \A f \in BlockForms : Len(q) > Len(f) /\ SaysAt(q, 0, f) /\ q[Len(f) + 1] \in Bounds
                               => q[Len(f) + 1] = n
    BY <2>5, <2>6
  <2>8. QED
    <3>1. \E f \in BlockForms : Len(q) > Len(f) /\ SaysAt(q, 0, f) /\ q[Len(f) + 1] = n
      BY <2>1, <2>2, <2>6
    <3>2. QED
      BY <2>7, <3>1, ScannedOne
<1>6. BlockRule(q) = Command("block", n)
  <2>1. (CHOOSE x \in {n} : TRUE) = n
    OBVIOUS
  <2>2. QED
    BY <1>4, <1>5, <2>1 DEF BlockRule
<1>7. /\ \A j \in {1, 2, 3, 4} : Rules(q, pid)[j] = Nothing
      /\ Rules(q, pid)[5] = Command("block", n)
  BY <1>3, <1>6 DEF Rules
<1>8. Command("block", n) # Nothing /\ \A j \in 1 .. 10 : j < 5 => j \in {1, 2, 3, 4}
  BY DEF Command, Nothing
<1>9. Asked(q, pid) = Command("block", n)
  BY <1>7, <1>8, FirstRule
<1>10. QED
  BY <1>9 DEF q

(* show paused and show action log.                                        *)
LEMMA AsksToShow ==
  ASSUME NEW pid
  PROVE  /\ Asked(<<"show", "paused">>, pid) = Command("show", "paused")
         /\ Asked(<<"show", "action", "log">>, pid) = Command("show", "log")
<1>1. ASSUME NEW q, Len(q) \in {2, 3}, q[1] = "show",
             \A i \in 2 .. Len(q) : q[i] \in {"paused", "action", "log"}
      PROVE  /\ TrustRule(q, pid) = Nothing /\ ResumeRule(q) = Nothing
             /\ PauseRule(q) = Nothing /\ KillRule(q) = Nothing /\ BlockRule(q) = Nothing
  <2>1. /\ TrustRule(q, pid) = Nothing /\ ResumeRule(q) = Nothing
        /\ PauseRule(q) = Nothing /\ KillRule(q) = Nothing
    BY <1>1, NoSignalAsked
  <2>2. \A i \in 1 .. Len(q) : q[i] # "all"
    BY <1>1
  <2>3. ASSUME NEW w PROVE ~Says(q, <<w, "all">>)
    <3>1. /\ Len(<<w, "all">>) \in Nat /\ DOMAIN <<w, "all">> = 1 .. Len(<<w, "all">>)
          /\ 2 \in DOMAIN <<w, "all">> /\ <<w, "all">>[2] = "all" /\ Len(q) \in Nat
      BY <1>1
    <3>2. QED
      BY <2>2, <3>1, NotSaid
  <2>4. BlockRule(q) = Nothing
    BY <2>3 DEF BlockRule, SaysOneOf
  <2>5. QED
    BY <2>1, <2>4
<1>2. Asked(<<"show", "paused">>, pid) = Command("show", "paused")
  <2> DEFINE q == <<"show", "paused">>
  <2>1. Len(q) = 2 /\ q[1] = "show" /\ q[2] = "paused"
    OBVIOUS
  <2> HIDE DEF q
  <2>2. SaysAt(q, 0, <<"show", "paused">>)
    BY <2>1 DEF SaysAt
  <2>3. PausedRule(q) = Command("show", "paused")
    BY <2>1, <2>2 DEF PausedRule, Show, SaysOneOf, Says
  <2>4. \A i \in 2 .. Len(q) : q[i] \in {"paused", "action", "log"}
    BY <2>1
  <2>5. /\ \A j \in {1, 2, 3, 4, 5} : Rules(q, pid)[j] = Nothing
        /\ Rules(q, pid)[6] = Command("show", "paused")
    BY <1>1, <2>1, <2>3, <2>4 DEF Rules
  <2>6. /\ Command("show", "paused") # Nothing
        /\ \A j \in 1 .. 10 : j < 6 => j \in {1, 2, 3, 4, 5}
    BY DEF Command, Nothing
  <2>7. Asked(q, pid) = Command("show", "paused")
    BY <2>5, <2>6, FirstRule
  <2>8. QED
    BY <2>7 DEF q
<1>3. Asked(<<"show", "action", "log">>, pid) = Command("show", "log")
  <2> DEFINE q == <<"show", "action", "log">>
  <2>1. Len(q) = 3 /\ q[1] = "show" /\ q[2] = "action" /\ q[3] = "log"
    OBVIOUS
  <2> HIDE DEF q
  <2>2. SaysAt(q, 1, <<"action", "log">>)
    BY <2>1 DEF SaysAt
  <2>3. LogRule(q) = Command("show", "log")
    BY <2>1, <2>2 DEF LogRule, Show, SaysOneOf, Says
  <2>4. PausedRule(q) = Nothing
    <3>1. \A i \in 1 .. Len(q) : q[i] \notin {"paused", "processes", "blocked"}
      BY <2>1
    <3>2. ASSUME NEW w, NEW v \in {"paused", "processes", "blocked"} PROVE ~Says(q, <<w, v>>)
      <4>1. /\ Len(<<w, v>>) \in Nat /\ DOMAIN <<w, v>> = 1 .. Len(<<w, v>>)
            /\ 2 \in DOMAIN <<w, v>> /\ <<w, v>>[2] = v /\ Len(q) \in Nat
        BY <2>1
      <4>2. QED
        BY <3>1, <4>1, NotSaid
    <3>3. QED
      BY <3>2 DEF PausedRule, Show, SaysOneOf
  <2>5. \A i \in 2 .. Len(q) : q[i] \in {"paused", "action", "log"}
    BY <2>1
  <2>6. /\ \A j \in {1, 2, 3, 4, 5, 6} : Rules(q, pid)[j] = Nothing
        /\ Rules(q, pid)[7] = Command("show", "log")
    BY <1>1, <2>1, <2>3, <2>4, <2>5 DEF Rules
  <2>7. /\ Command("show", "log") # Nothing
        /\ \A j \in 1 .. 10 : j < 7 => j \in {1, 2, 3, 4, 5, 6}
    BY DEF Command, Nothing
  <2>8. Asked(q, pid) = Command("show", "log")
    BY <2>6, <2>7, FirstRule
  <2>9. QED
    BY <2>8 DEF q
<1>4. QED
  BY <1>2, <1>3

(* trust python3, whatever PID comes with it.                              *)
LEMMA AsksToTrust ==
  ASSUME NEW pid
  PROVE  Asked(<<"trust", "python3">>, pid) = Command("trust", "python3")
<1> DEFINE q     == <<"trust", "python3">>
           names == {i \in DOMAIN q : q[i] \notin SkipWords \cup Letters}
<1>1. Len(q) = 2 /\ q[1] = "trust" /\ q[2] = "python3" /\ DOMAIN q = {1, 2}
  OBVIOUS
<1>2. "trust" \in SkipWords /\ "python3" \notin SkipWords \cup Letters
  BY WordsAssumption DEF SkipWords
<1> HIDE DEF q
<1>3. names = {2}
  BY <1>1, <1>2
<1>4. Min({2}) = 2
  BY DEF Min
<1>5. Opens(q, {"trust", "mark"})
  BY <1>1 DEF Opens
<1>6. TrustRule(q, pid) = Command("trust", "python3")
  BY <1>1, <1>3, <1>4, <1>5 DEF TrustRule
<1>7. Command("trust", "python3") # Nothing /\ Rules(q, pid)[1] = Command("trust", "python3")
  BY <1>6 DEF Command, Nothing, Rules
<1>8. Asked(q, pid) = Command("trust", "python3")
  BY <1>7, FirstRule
<1>9. QED
  BY <1>8 DEF q

(* What the help offers, one form after the other.                         *)
LEMMA HelpedForms ==
  ASSUME NEW meant \in Helped \ TrustByPID
  PROVE  \/ \E do \in {"resume", "pause", "kill"}, n \in PIDs : meant = <<<<do, n>>, Command(do, n)>>
         \/ \E n \in PIDs : meant = <<<<"resume", "pid", n>>, Command("resume", n)>>
         \/ \E n \in Bounds : meant = <<<<"block", "all", "below", n>>, Command("block", n)>>
         \/ meant = <<<<"trust", "python3">>, Command("trust", "python3")>>
         \/ meant = <<<<"show", "paused">>, Command("show", "paused")>>
         \/ meant = <<<<"show", "action", "log">>, Command("show", "log")>>
BY DEF Helped

(* A request of the help is for what it is meant, and for no look-up.      *)
LEMMA AsksWhatIsMeant ==
  ASSUME NEW meant \in Helped \ TrustByPID, NEW pid
  PROVE  Asked(meant[1], pid) = meant[2]
<1>1. CASE \E do \in {"resume", "pause", "kill"}, n \in PIDs : meant = <<<<do, n>>, Command(do, n)>>
  BY <1>1, AsksFor
<1>2. CASE \E n \in PIDs : meant = <<<<"resume", "pid", n>>, Command("resume", n)>>
  BY <1>2, AsksFor
<1>3. CASE \E n \in Bounds : meant = <<<<"block", "all", "below", n>>, Command("block", n)>>
  BY <1>3, AsksToBlock
<1>4. CASE meant = <<<<"trust", "python3">>, Command("trust", "python3")>>
  BY <1>4, AsksToTrust
<1>5. CASE \/ meant = <<<<"show", "paused">>, Command("show", "paused")>>
           \/ meant = <<<<"show", "action", "log">>, Command("show", "log")>>
  BY <1>5, AsksToShow
<1>6. QED
  BY <1>1, <1>2, <1>3, <1>4, <1>5, HelpedForms

LEMMA MeantIsNoLookup ==
  ASSUME NEW meant \in Helped \ TrustByPID
  PROVE  meant[1] # <<>> /\ meant[2].do # "look up"
<1>1. \A do, on : Command(do, on).do = do
  BY DEF Command
<1>2. ASSUME NEW q, NEW do, NEW on, meant = <<q, Command(do, on)>>, q # <<>>, do # "look up"
      PROVE  meant[1] # <<>> /\ meant[2].do # "look up"
  <2>1. meant[1] = q /\ meant[2] = Command(do, on)
    BY <1>2
  <2>2. QED
    BY <1>1, <1>2, <2>1
<1>3. CASE \E do \in {"resume", "pause", "kill"}, n \in PIDs : meant = <<<<do, n>>, Command(do, n)>>
  <2>1. PICK do \in {"resume", "pause", "kill"}, n \in PIDs : meant = <<<<do, n>>, Command(do, n)>>
    BY <1>3
  <2>2. <<do, n>> # <<>>
    OBVIOUS
  <2>3. QED
    BY <1>2, <2>1, <2>2
<1>4. CASE \E n \in PIDs : meant = <<<<"resume", "pid", n>>, Command("resume", n)>>
  <2>1. PICK n \in PIDs : meant = <<<<"resume", "pid", n>>, Command("resume", n)>>
    BY <1>4
  <2>2. <<"resume", "pid", n>> # <<>>
    OBVIOUS
  <2>3. QED
    BY <1>2, <2>1, <2>2
<1>5. CASE \E n \in Bounds : meant = <<<<"block", "all", "below", n>>, Command("block", n)>>
  <2>1. PICK n \in Bounds : meant = <<<<"block", "all", "below", n>>, Command("block", n)>>
    BY <1>5
  <2>2. <<"block", "all", "below", n>> # <<>>
    OBVIOUS
  <2>3. QED
    BY <1>2, <2>1, <2>2
<1>6. CASE meant = <<<<"trust", "python3">>, Command("trust", "python3")>>
  <2>1. <<"trust", "python3">> # <<>>
    OBVIOUS
  <2>2. QED
    BY <1>2, <1>6, <2>1
<1>7. CASE \/ meant = <<<<"show", "paused">>, Command("show", "paused")>>
           \/ meant = <<<<"show", "action", "log">>, Command("show", "log")>>
  <2>1. <<"show", "paused">> # <<>> /\ <<"show", "action", "log">> # <<>>
    OBVIOUS
  <2>2. QED
    BY <1>2, <1>7, <2>1
<1>8. QED
  BY <1>3, <1>4, <1>5, <1>6, <1>7, HelpedForms

(* The commands the help tells the operator to type are taken as they are  *)
(* meant, for every PID and bound and whatever else is being done: all of  *)
(* them but "trust PID n", of which it is not true.                        *)
THEOREM AllButTrustByPIDAreMeant == Spec => []DoneAsMeant
<1> DEFINE Shaped == request = [h \in Handlers |-> request[h]]
           Inv    == Shaped /\ DoneAsMeant
<1>1. Init => Inv
  BY DEF Init, Idle, DoneAsMeant, Taking
<1>2. ASSUME Inv, [Next]_vars PROVE Inv'
  <2>1. ASSUME NEW h \in Handlers, NEW r, request' = [request EXCEPT ![h] = r],
               r.at = "act" => \A meant \in Helped \ TrustByPID : r.query = meant[1] => r.command = meant[2]
        PROVE  Inv'
    <3>1. /\ Shaped'
          /\ \A g \in Handlers : request'[g] = IF g = h THEN r ELSE request[g]
      BY <1>2, <2>1
    <3>2. QED
      BY <1>2, <2>1, <3>1 DEF DoneAsMeant, Taking
  <2>2. Idle.at # "act" /\ \A q, c, t, act : Doing("bulk", q, c, t, act).at # "act"
                                          /\ Doing("record", q, c, t, act).at # "act"
    BY DEF Idle, Doing
  <2>3. ASSUME NEW h \in Handlers, Serve(h) PROVE Inv'
    <3>1. CASE \E q \in Queries, pid \in {Nobody} \cup PIDs : Receive(h, q, pid)
      <4>1. PICK q \in Queries, pid \in {Nobody} \cup PIDs :
              request' = [request EXCEPT ![h] = Doing("act", q, Asked(q, pid), {}, 0)]
        BY <3>1 DEF Receive, Taken
      <4>2. QED
        BY <2>1, <4>1, AsksWhatIsMeant DEF Doing
    <3>2. CASE \E pid \in PIDs : PostKill(h, pid)
      <4>1. PICK pid \in PIDs :
              request' = [request EXCEPT ![h] = Doing("act", <<>>, Command("kill", pid), {}, 0)]
        BY <3>2 DEF PostKill, Taken
      <4>2. QED
        BY <2>1, <4>1, MeantIsNoLookup DEF Doing
    <3>3. CASE LookUp(h) /\ ~Answered(h)
      <4>1. /\ request' = [request EXCEPT ![h] =
                 Doing("act", request[h].query, Command("ask", Nobody), {}, 0)]
            /\ h \in Taking /\ request[h].command.do = "look up"
        BY <3>3 DEF LookUp, At, Taking
      <4>2. \A meant \in Helped \ TrustByPID : request[h].query # meant[1]
        BY <1>2, <4>1, MeantIsNoLookup DEF DoneAsMeant
      <4>3. QED
        BY <2>1, <4>1, <4>2 DEF Doing
    <3>4. ASSUME NEW r, request' = [request EXCEPT ![h] = r], r.at # "act" PROVE Inv'
      BY <2>1, <3>4
    <3>5. CASE Reply(h) \/ Act(h) \/ Block(h) \/ BlockNext(h) \/ Record(h) \/ (LookUp(h) /\ Answered(h)) \/ Ask(h)
      <4>1. \E r : request' = [request EXCEPT ![h] = r] /\ r.at # "act"
        <5>1. CASE Answered(h)
          BY <5>1, <2>2 DEF Answered
        <5>2. ASSUME NEW c, NEW rest, Acted(h, c, rest)
              PROVE  \E r : request' = [request EXCEPT ![h] = r] /\ r.at # "act"
          BY <5>2, <2>2 DEF Acted
        <5>3. CASE \E t : request' = [request EXCEPT ![h] =
                              Doing("bulk", request[h].query, request[h].command, t, 0)]
          <6>1. PICK t : request' = [request EXCEPT ![h] =
                           Doing("bulk", request[h].query, request[h].command, t, 0)]
            BY <5>3
          <6>2. QED
            BY <6>1, <2>2
        <5>4. CASE Block(h) \/ BlockNext(h)
          BY <5>1, <5>2, <5>3, <5>4 DEF Block, BlockNext
        <5>5. CASE Record(h)
          <6>1. CASE request[h].command.do # "block"
            BY <5>5, <6>1, <5>1 DEF Record, Answered
          <6>2. CASE request[h].command.do = "block"
            BY <5>5, <6>2, <5>3 DEF Record
          <6>3. QED
            BY <6>1, <6>2
        <5>6. CASE Act(h)
          BY <5>1, <5>2, <5>6 DEF Act
        <5>7. QED
          BY <3>5, <5>1, <5>4, <5>5, <5>6 DEF Reply, Ask
      <4>2. QED
        BY <3>4, <4>1
    <3>6. QED
      BY <2>3, <3>1, <3>2, <3>3, <3>5 DEF Serve
  <2>4. CASE Stop
    BY <2>4, <2>2 DEF Stop, DoneAsMeant, Taking
  <2>5. CASE Start \/ (\E what \in pending : AppendLine(what)) \/ UNCHANGED vars
    <3>1. request' = request
      BY <2>5 DEF Start, AppendLine, vars
    <3>2. QED
      BY <1>2, <3>1 DEF DoneAsMeant, Taking
  <2>6. QED
    BY <1>2, <2>3, <2>4, <2>5 DEF Next
<1>3. Inv => DoneAsMeant
  OBVIOUS
<1>4. QED
  BY <1>1, <1>2, <1>3, PTL DEF Spec

=============================================================================
