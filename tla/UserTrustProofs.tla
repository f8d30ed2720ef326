-------------------------- MODULE UserTrustProofs --------------------------
(***************************************************************************)
(* Proofs about UserTrust.  Whatever handlers, disk and kills do, the file *)
(* never runs ahead of the maps; one request at a time, with orderly       *)
(* shutdowns and a disk that works, it is the registry the operator was    *)
(* promised.                                                               *)
(***************************************************************************)
EXTENDS UserTrust, TLAPS

(* The file is behind because every copy is, and because nobody writes     *)
(* before a truncation removed the bytes of an earlier life.               *)
CopiesBehind == running => \A h \in Handlers : snap[h] \subseteq mem
DownIsQuiet  == ~running => mem = {} /\ \A h \in Handlers : hpc[h] = "idle" /\ snap[h] = {}
Behind == TypeOK /\ CopiesBehind /\ DownIsQuiet /\ FileBehind
                 /\ (Writing # {} => file.head \subseteq mem) /\ NoOldBytes

(* Every initial state satisfies the invariant: nothing is being written,  *)
(* and the maps hold what the file did.                                    *)
LEMMA BehindInit == Init => Behind
<1> SUFFICES ASSUME Init PROVE Behind
  OBVIOUS
<1>1. file \in File /\ Loaded(file) \subseteq Entries
  <2>1. CASE file = NoFile
    BY <2>1 DEF NoFile, File, Loaded
  <2>2. ASSUME NEW names \in SUBSET Entries, file = Written(Truncated, names)
        PROVE  file \in File /\ Loaded(file) \subseteq Entries
    BY <2>2 DEF Written, Truncated, File, Loaded
  <2>3. QED
    BY <2>1, <2>2 DEF Init
<1>2. TypeOK
  BY <1>1 DEF Init, TypeOK, Places
<1>3. Writing = {}
  BY DEF Init, Writing
<1>4. QED
  BY <1>2, <1>3 DEF Init, Behind, CopiesBehind, DownIsQuiet, FileBehind, NoOldBytes

(* What a file holds after a write, and what a start makes of it.          *)
LEMMA WrittenFile ==
  ASSUME NEW f \in File, NEW names \in SUBSET Entries
  PROVE  /\ Written(f, names) \in File
         /\ Written(f, names).head = names
         /\ Written(f, names).tail = f.tail \cup names
         /\ Loaded(Written(f, names)) \subseteq names
BY DEF File, Written, Loaded

(* What is loaded from a file consists of entries.                         *)
LEMMA LoadedFile == ASSUME NEW f \in File PROVE Loaded(f) \in SUBSET Entries
BY DEF File, Loaded

(* A truncated file holds nothing.                                         *)
LEMMA TruncatedFile == /\ Truncated \in File /\ Loaded(Truncated) = {}
                       /\ Truncated.head = {} /\ Truncated.tail = {}
BY DEF File, Truncated, Loaded

(* Every step keeps the invariant.                                         *)
LEMMA BehindNext == Behind /\ [Next]_vars => Behind'
<1> SUFFICES ASSUME Behind, [Next]_vars PROVE Behind'
  OBVIOUS
<1> USE DEF Behind, TypeOK, CopiesBehind, DownIsQuiet, FileBehind, NoOldBytes,
            Writing, Quiet, Places, Goto
<1>1. ASSUME NEW h \in Handlers, NEW names \in SUBSET Entries, Trust(h, names)
      PROVE  Behind'
  BY <1>1 DEF Trust
<1>2. ASSUME NEW h \in Handlers, Copy(h) PROVE Behind'
  BY <1>2 DEF Copy
<1>3. ASSUME NEW h \in Handlers, Open(h) PROVE Behind'
  BY <1>3, TruncatedFile DEF Open
<1>4. ASSUME NEW h \in Handlers, Write(h) PROVE Behind'
  <2>1. running /\ h \in Writing /\ snap[h] \in SUBSET Entries /\ snap[h] \subseteq mem
    BY <1>4 DEF Write
  <2>2. CASE file' = Written(file, snap[h])
    <3>1. /\ file' \in File /\ file'.head \subseteq mem /\ file'.tail \subseteq mem
          /\ Loaded(file') \subseteq mem
      BY <2>1, <2>2, WrittenFile
    <3>2. QED
      BY <1>4, <2>1, <3>1 DEF Write
  <2>3. CASE file' = file
    BY <1>4, <2>1, <2>3 DEF Write
  <2>4. QED
    BY <1>4, <2>2, <2>3 DEF Write
<1>5. ASSUME NEW h \in Handlers, Reply(h) PROVE Behind'
  BY <1>5 DEF Reply
<1>6. CASE Stop
  BY <1>6 DEF Stop
<1>7. CASE Start
  <2>1. Loaded(file) \in SUBSET Entries
    BY LoadedFile
  <2>2. mem' = Loaded(file) /\ file' = file /\ snap' = snap /\ hpc' = hpc
    BY <1>7 DEF Start
  <2>3. \A h \in Handlers : snap[h] = {} /\ hpc[h] = "idle"
    BY <1>7 DEF Start
  <2>4. QED
    BY <1>7, <2>1, <2>2, <2>3 DEF Start
<1>8. CASE UNCHANGED vars
  BY <1>8 DEF vars
<1>9. QED
  BY <1>1, <1>2, <1>3, <1>4, <1>5, <1>6, <1>7, <1>8 DEF Next, Step

(* The invariant holds in every reachable state.                           *)
THEOREM BehindAlways == Spec => []Behind
BY BehindInit, BehindNext, PTL DEF Spec

(* The variables keep their types.                                         *)
THEOREM TypeCorrect == Spec => []TypeOK
BY BehindAlways, PTL DEF Behind

(* A restart never brings back what the monitor does not trust already.    *)
THEOREM FileIsBehind == Spec => []FileBehind
BY BehindAlways, PTL DEF Behind

(* No bytes of an earlier life survive a truncation.                       *)
THEOREM OldBytesAreGone == Spec => []NoOldBytes
BY BehindAlways, PTL DEF Behind

-----------------------------------------------------------------------------
(* The orderly machine: one request at a time, orderly shutdowns, a disk   *)
(* that works.                                                             *)

OneAtATime == \A g, h \in Handlers : hpc[g] # "idle" /\ hpc[h] # "idle" => g = h

(* Where the one busy handler is decides what its copy and the file hold.  *)
Saving(h) ==
  /\ hpc[h] = "copy" => want[h] \subseteq mem
  /\ hpc[h] \in {"open", "write", "reply"} => want[h] \subseteq mem /\ snap[h] = mem
  /\ hpc[h] = "write" => file = Truncated
  /\ hpc[h] = "reply" => Loaded(file) = mem
Kept == Orderly => /\ told \subseteq Stored
                   /\ OneAtATime
                   /\ \A h \in Handlers : Saving(h)

OrderlyInv == Behind /\ Kept

(* Initially every handler is idle and nothing was promised.               *)
LEMMA OrderlyInit == Init => OrderlyInv
<1> SUFFICES ASSUME Init PROVE Kept
  BY BehindInit DEF OrderlyInv
<1> QED
  BY DEF Init, Kept, Saving, OneAtATime, Stored, Writing

(* What is stored while one handler writes, and while none does.           *)
LEMMA StoredIs ==
  ASSUME OneAtATime
  PROVE  /\ \A h \in Handlers : hpc[h] = "write" => Stored = snap[h]
         /\ (\A h \in Handlers : hpc[h] # "write") => Stored = Loaded(file)
<1>1. ASSUME NEW h \in Handlers, hpc[h] = "write" PROVE Stored = snap[h]
  <2>1. Writing = {h}
    BY <1>1 DEF OneAtATime, Writing
  <2>2. QED
    BY <2>1 DEF Stored
<1>2. QED
  BY <1>1 DEF Stored, Writing

(* The same of the next state.                                             *)
LEMMA StoredIsNext ==
  ASSUME OneAtATime'
  PROVE  /\ \A h \in Handlers : hpc'[h] = "write" => Stored' = snap'[h]
         /\ (\A h \in Handlers : hpc'[h] # "write") => Stored' = Loaded(file')
<1>1. ASSUME NEW h \in Handlers, hpc'[h] = "write" PROVE Stored' = snap'[h]
  <2>1. Writing' = {h}
    BY <1>1 DEF OneAtATime, Writing
  <2>2. QED
    BY <2>1 DEF Stored
<1>2. QED
  BY <1>1 DEF Stored, Writing

(* Rewriting a file that was just truncated stores exactly the copy.       *)
LEMMA FreshFile == ASSUME NEW names \in SUBSET Entries
                   PROVE  Loaded(Written(Truncated, names)) = names
BY DEF Loaded, Written, Truncated

(* What can go wrong on a machine never changes.                           *)
LEMMA FaultsForGood == [Next]_vars => faults' = faults
BY DEF Next, Step, Trust, Copy, Open, Write, Reply, Stop, Start, vars

(* On an orderly machine at most one handler is busy, after every step.    *)
LEMMA OneAtATimeNext ==
  ASSUME Orderly, TypeOK, OneAtATime, [Next]_vars
  PROVE  OneAtATime'
<1> USE DEF OneAtATime, Orderly, TypeOK, Goto, Quiet
<1>1. ASSUME NEW h \in Handlers, NEW names \in SUBSET Entries, Trust(h, names)
      PROVE  OneAtATime'
  BY <1>1 DEF Trust
<1>2. ASSUME NEW h \in Handlers, Step(h) PROVE OneAtATime'
  BY <1>2 DEF Step, Copy, Open, Write, Reply
<1>3. CASE Stop \/ Start \/ UNCHANGED vars
  BY <1>3 DEF Stop, Start, vars
<1>4. QED
  BY <1>1, <1>2, <1>3 DEF Next

(* On an orderly machine every step keeps the invariant and is a step of   *)
(* the registry.                                                           *)
LEMMA OrderlyStep ==
  ASSUME Orderly, OrderlyInv, [Next]_vars
  PROVE  Kept' /\ \/ Stored' = Stored  /\ Trusted' = Trusted
                  \/ Stored' = Stored  /\ \E names \in SUBSET Entries : Trusted' = Trusted \cup names
                  \/ Stored' = Trusted /\ Trusted' = Trusted
                  \/ Stored' = Stored  /\ Trusted' = Stored
<1>1. OneAtATime /\ OneAtATime'
  BY OneAtATimeNext DEF OrderlyInv, Behind, Kept
<1>2. /\ \A h \in Handlers : hpc[h] = "write" => Stored = snap[h]
      /\ (\A h \in Handlers : hpc[h] # "write") => Stored = Loaded(file)
      /\ \A h \in Handlers : hpc'[h] = "write" => Stored' = snap'[h]
      /\ (\A h \in Handlers : hpc'[h] # "write") => Stored' = Loaded(file')
  BY <1>1, StoredIs, StoredIsNext
<1>3. /\ told \subseteq Stored
      /\ \A h \in Handlers : Saving(h)
  BY DEF OrderlyInv, Kept
<1>4. SUFFICES /\ told' \subseteq Stored'
               /\ \A h \in Handlers : Saving(h)'
               /\ \/ Stored' = Stored  /\ Trusted' = Trusted
                  \/ Stored' = Stored  /\ \E names \in SUBSET Entries : Trusted' = Trusted \cup names
                  \/ Stored' = Trusted /\ Trusted' = Trusted
                  \/ Stored' = Stored  /\ Trusted' = Stored
  BY <1>1 DEF Kept
<1> USE DEF OrderlyInv, Behind, TypeOK, CopiesBehind, DownIsQuiet, FileBehind, Orderly,
            Saving, Quiet, Goto, OneAtATime
<1>5. ASSUME NEW h \in Handlers, NEW names \in SUBSET Entries, Trust(h, names)
      PROVE  /\ told' \subseteq Stored' /\ \A g \in Handlers : Saving(g)'
             /\ Trusted' = Trusted \cup names /\ Stored' = Stored
  <2>1. \A g \in Handlers : hpc[g] = "idle"
    BY <1>5 DEF Trust
  <2>2. QED
    BY <1>1, <1>2, <1>3, <1>5, <2>1 DEF Trust, Trusted
<1>6. ASSUME NEW h \in Handlers, Copy(h)
      PROVE  /\ told' \subseteq Stored' /\ \A g \in Handlers : Saving(g)'
             /\ Trusted' = Trusted /\ Stored' = Stored
  BY <1>1, <1>2, <1>3, <1>6 DEF Copy, Trusted
<1>7. ASSUME NEW h \in Handlers, Open(h)
      PROVE  /\ told' \subseteq Stored' /\ \A g \in Handlers : Saving(g)'
             /\ Trusted' = Trusted /\ Stored' = Trusted
  BY <1>1, <1>2, <1>3, <1>7 DEF Open, Trusted
<1>8. ASSUME NEW h \in Handlers, Write(h)
      PROVE  /\ told' \subseteq Stored' /\ \A g \in Handlers : Saving(g)'
             /\ Trusted' = Trusted /\ Stored' = Stored
  <2>1. file' = Written(Truncated, snap[h]) /\ Loaded(file') = snap[h]
    BY <1>3, <1>8, FreshFile DEF Write
  <2>2. QED
    BY <1>1, <1>2, <1>3, <1>8, <2>1 DEF Write, Trusted
<1>9. ASSUME NEW h \in Handlers, Reply(h)
      PROVE  /\ told' \subseteq Stored' /\ \A g \in Handlers : Saving(g)'
             /\ Trusted' = Trusted /\ Stored' = Stored
  BY <1>1, <1>2, <1>3, <1>9 DEF Reply, Trusted
<1>10. CASE Stop
  <2>1. Stored' = Stored /\ Trusted' = Stored
    BY <1>2, <1>10 DEF Stop, Trusted
  <2>2. QED
    BY <1>3, <1>10, <2>1 DEF Stop
<1>11. CASE Start
  <2>1. Stored' = Stored /\ Trusted' = Stored
    BY <1>2, <1>11 DEF Start, Trusted
  <2>2. QED
    BY <1>3, <1>11, <2>1 DEF Start
<1>12. CASE UNCHANGED vars
  <2>1. Stored' = Stored /\ Trusted' = Trusted
    BY <1>12 DEF vars, Stored, Trusted, Writing
  <2>2. QED
    BY <1>3, <1>12, <2>1 DEF vars
<1> HIDE DEF OrderlyInv, Behind, TypeOK, CopiesBehind, DownIsQuiet, FileBehind, Orderly,
             Saving, Quiet, Goto, OneAtATime
<1>13. QED
  <2>1. CASE \E h \in Handlers, names \in SUBSET Entries : Trust(h, names)
    BY <1>5, <2>1
  <2>2. CASE \E h \in Handlers : Step(h)
    BY <1>6, <1>7, <1>8, <1>9, <2>2 DEF Step
  <2>3. QED
    BY <1>10, <1>11, <1>12, <2>1, <2>2 DEF Next

(* Every step keeps the invariant, on any machine.                         *)
LEMMA OrderlyNext == OrderlyInv /\ [Next]_vars => OrderlyInv'
<1> SUFFICES ASSUME OrderlyInv, [Next]_vars PROVE OrderlyInv'
  OBVIOUS
<1>1. Behind'
  BY BehindNext DEF OrderlyInv
<1>2. CASE Orderly
  BY <1>1, <1>2, OrderlyStep DEF OrderlyInv
<1>3. CASE ~Orderly
  BY <1>1, <1>3, FaultsForGood DEF OrderlyInv, Kept, Orderly
<1>4. QED
  BY <1>2, <1>3

(* Where nothing can go wrong, every entry a user was told will persist    *)
(* comes back after a restart.                                             *)
THEOREM SavedEntriesSurvive == Spec => []SavedSurvive
<1>1. OrderlyInv => SavedSurvive
  BY DEF OrderlyInv, Kept, SavedSurvive, Quiet, Stored, Writing
<1>2. QED
  BY OrderlyInit, OrderlyNext, <1>1, PTL DEF Spec

(* Every step is a step of the registry, or nothing to it.                 *)
LEMMA RegistryNext ==
  OrderlyInv /\ [Next]_vars =>
    [Registry!Next]_<<IF Orderly THEN Trusted ELSE {}, IF Orderly THEN Stored ELSE {}>>
<1> SUFFICES ASSUME OrderlyInv, [Next]_vars
             PROVE  [Registry!Next]_<<IF Orderly THEN Trusted ELSE {},
                                      IF Orderly THEN Stored ELSE {}>>
  OBVIOUS
<1>1. Orderly' = Orderly
  BY FaultsForGood DEF Orderly
<1>2. CASE Orderly
  <2>1. \/ Stored' = Stored  /\ Trusted' = Trusted
        \/ Stored' = Stored  /\ \E names \in SUBSET Entries : Trusted' = Trusted \cup names
        \/ Stored' = Trusted /\ Trusted' = Trusted
        \/ Stored' = Stored  /\ Trusted' = Stored
    BY <1>2, OrderlyStep
  <2>2. QED
    BY <1>1, <1>2, <2>1 DEF Registry!Next, Registry!Grant, Registry!Store, Registry!Restart
<1>3. CASE ~Orderly
  BY <1>1, <1>3
<1>4. QED
  BY <1>2, <1>3

(* Where nothing can go wrong, engine.go and its file implement the        *)
(* registry.                                                               *)
THEOREM ImplementsRegistry == Spec => KeepsRegistry
<1>1. Init => Registry!Init
  BY BehindInit DEF Init, Registry!Init, Trusted, Stored, Writing, Behind, TypeOK
<1>2. QED
  BY OrderlyInit, OrderlyNext, RegistryNext, <1>1, PTL DEF Spec, KeepsRegistry, Registry!Spec

=============================================================================
