----------------------------- MODULE UserTrust -----------------------------
(***************************************************************************)
(* The user's trust decisions and data/user_trust.json: TrustProcess,      *)
(* SaveUserTrust and LoadUserTrust of internal/response/engine.go as the   *)
(* HTTP handlers and main of cmd/sensor/main.go call them.                 *)
(*                                                                         *)
(* SaveUserTrust copies the maps under Engine.mu and writes the file       *)
(* without it: os.WriteFile truncates, then writes.  Handlers run          *)
(* concurrently, the disk may fail, and the monitor may be killed at any   *)
(* step: faults says which of these happen.  Names and PIDs are both just  *)
(* entries here.                                                           *)
(***************************************************************************)
EXTENDS FiniteSets

CONSTANTS Entries,    \* process names and PIDs that can be trusted
          Handlers    \* HTTP request goroutines

VARIABLES faults,   \* what can go wrong on this machine, for good: requests
                    \* overlap, the monitor is killed, writing the file fails
          running,  \* the monitor is up
          mem,      \* customTrustedComms and customTrustedPIDs
          file,     \* user_trust.json
          hpc,      \* the handlers' places
          want,     \* their requests: what a user asked them to trust
          snap,     \* their copies of mem
          told      \* history: entries a user was told will persist

vars == <<faults, running, mem, file, hpc, want, snap, told>>

(* A file holds the bytes of the last write, head, and reaches as far as   *)
(* the longest write since it was truncated.  Within one life of the       *)
(* monitor the maps only grow, so of two snapshots one contains the other  *)
(* and is longer; a shorter one written over it leaves the longer one's    *)
(* tail, and the file is no JSON document any more.                        *)
File == [st : {"absent", "empty", "data"}, head : SUBSET Entries, tail : SUBSET Entries]
NoFile    == [st |-> "absent", head |-> {}, tail |-> {}]
Truncated == [st |-> "empty",  head |-> {}, tail |-> {}]

Written(f, names) == [st |-> "data", head |-> names, tail |-> f.tail \cup names]

(* LoadUserTrust: an unreadable file is reported and counts as empty.      *)
Loaded(f) == IF f.st = "data" /\ f.head = f.tail THEN f.head ELSE {}

Places == {"idle", "copy", "open", "write", "reply"}

Quiet == \A h \in Handlers : hpc[h] = "idle"

Init == /\ faults \in SUBSET {"overlap", "kill", "disk"}
        /\ running = TRUE
        /\ file \in {NoFile} \cup {Written(Truncated, names) : names \in SUBSET Entries}
        /\ mem = Loaded(file)
        /\ hpc = [h \in Handlers |-> "idle"]
        /\ want = [h \in Handlers |-> {}]
        /\ snap = [h \in Handlers |-> {}]
        /\ told = {}

Goto(h, place) == hpc' = [hpc EXCEPT ![h] = place]

(* TrustProcess.  /api/process/known and the chat go on to save; the       *)
(* dashboard's /api/trust/override does not.                               *)
Trust(h, names) ==
  /\ running /\ hpc[h] = "idle" /\ ("overlap" \in faults \/ Quiet)
  /\ mem' = mem \cup names
  /\ \/ Goto(h, "copy") /\ want' = [want EXCEPT ![h] = names]
     \/ UNCHANGED <<hpc, want>>
  /\ UNCHANGED <<faults, running, file, snap, told>>

(* Mutant: what is saved is what was loaded. *)
CopyStale(h) ==
  /\ hpc[h] = "copy"
  /\ snap' = [snap EXCEPT ![h] = Loaded(file)]
  /\ Goto(h, "open")
  /\ UNCHANGED <<faults, running, mem, file, want, told>>

Copy(h) ==
  /\ hpc[h] = "copy"
  /\ snap' = [snap EXCEPT ![h] = mem]
  /\ Goto(h, "open")
  /\ UNCHANGED <<faults, running, mem, file, want, told>>

(* O_CREATE and O_TRUNC.                                                   *)
Open(h) ==
  /\ hpc[h] = "open"
  /\ \/ file' = Truncated /\ Goto(h, "write")
     \/ "disk" \in faults /\ UNCHANGED file /\ Goto(h, "reply")
  /\ UNCHANGED <<faults, running, mem, want, snap, told>>

Write(h) ==
  /\ hpc[h] = "write"
  /\ \/ file' = Written(file, snap[h])
     \/ "disk" \in faults /\ UNCHANGED file
  /\ Goto(h, "reply")
  /\ UNCHANGED <<faults, running, mem, want, snap, told>>

(* The answer is the same whether the save succeeded or not.               *)
Reply(h) ==
  /\ hpc[h] = "reply"
  /\ told' = told \cup want[h]
  /\ want' = [want EXCEPT ![h] = {}]
  /\ snap' = [snap EXCEPT ![h] = {}]
  /\ Goto(h, "idle")
  /\ UNCHANGED <<faults, running, mem, file>>

(* server.Shutdown waits for the handlers; a kill does not.                *)
Stop ==
  /\ running
  /\ "kill" \in faults \/ Quiet
  /\ running' = FALSE
  /\ mem' = {}
  /\ hpc' = [h \in Handlers |-> "idle"]
  /\ want' = [h \in Handlers |-> {}]
  /\ snap' = [h \in Handlers |-> {}]
  /\ UNCHANGED <<faults, file, told>>

(* Mutant: the file is not loaded. *)
StartEmpty == ~running /\ running' = TRUE /\ UNCHANGED <<faults, mem, file, hpc, want, snap, told>>

Start ==
  /\ ~running
  /\ running' = TRUE
  /\ mem' = Loaded(file)
  /\ UNCHANGED <<faults, file, hpc, want, snap, told>>

Step(h) == Copy(h) \/ Open(h) \/ Write(h) \/ Reply(h)

Next == \/ \E h \in Handlers, names \in SUBSET Entries : Trust(h, names)
        \/ \E h \in Handlers : Step(h)
        \/ Stop \/ Start

Spec == Init /\ [][Next]_vars

-----------------------------------------------------------------------------
Writing == {h \in Handlers : hpc[h] = "write"}

(* Types: only entries that were named are ever trusted or written.        *)
TypeOK == /\ faults \subseteq {"overlap", "kill", "disk"}
          /\ running \in BOOLEAN
          /\ mem \subseteq Entries /\ told \subseteq Entries
          /\ file \in File
          /\ hpc \in [Handlers -> Places]
          /\ want \in [Handlers -> SUBSET Entries]
          /\ snap \in [Handlers -> SUBSET Entries]

(* A restart never brings back anything the monitor does not trust already *)
(* while it runs: whatever handlers, a failing disk and kills did to the   *)
(* file, it is unreadable or no newer than the maps.                       *)
FileBehind == running => Loaded(file) \subseteq mem

(* While one handler is between its truncation and its write, the other    *)
(* handlers' entries are at worst missing from the file, never those of    *)
(* an unfinished life: no bytes of an earlier life survive a truncation.   *)
NoOldBytes == Writing # {} => file.tail \subseteq mem

(* When nothing can go wrong a restart brings back, from any moment of     *)
(* rest, every entry a user was told will persist.                         *)
Orderly == faults = {}
SavedSurvive == Orderly /\ Quiet => told \subseteq Loaded(file)

(* The same with one of the three: each of them alone breaks the promise.  *)
Survive(fault) == faults = {fault} /\ Quiet => told \subseteq Loaded(file)
OverlapSurvived == Survive("overlap")
KillSurvived    == Survive("kill")
DiskSurvived    == Survive("disk")

(* What a restart brings back; between truncation and write, the copy that *)
(* is being written.                                                       *)
Stored  == IF Writing = {} THEN Loaded(file) ELSE UNION {snap[h] : h \in Writing}
Trusted == IF running THEN mem ELSE Stored

(* The registry is that of an orderly machine; the others' stays empty.     *)
Registry == INSTANCE TrustRegistry WITH
              stored  <- IF Orderly THEN Stored ELSE {},
              trusted <- IF Orderly THEN Trusted ELSE {}

(* One request at a time, orderly shutdowns and a disk that works keep the *)
(* promise of a registry: every step is a grant, a store, a restart or     *)
(* nothing to it.                                                          *)
KeepsRegistry == Registry!Spec

=============================================================================
