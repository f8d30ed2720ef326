# Kernel Security Monitor: TLA+ models and proofs

Verification project for the Kernel Security Monitor (KSM): an eBPF sensor and
BPF-LSM hook, a Go control plane, a Python scoring sidecar and a dashboard.
Every model is translated from the source under `src/`; `PROJECT.json` maps each
definition to the lines it stands for.

## 1. Inventory

| Component | Source | State it keeps | Operations | Concurrency |
|---|---|---|---|---|
| BPF sensor | `bpf/sensor.c` | 256 KiB ring buffer, pid filter map | one tracepoint per execve/openat/connect: reserve, fill, submit; drop when the ring is full | every CPU of the kernel |
| BPF-LSM hook | `bpf/lsm.c` | `deny_exec_map` (256 entries, keyed by PID), kill-event ring | `ksm_bprm_check`: lookup, notify, delete (one shot), -EPERM | execs of all processes; the control plane writes the same map |
| Loader | `internal/sensor/loader.go` | links, ring readers, deny map, `lsmAvailable` | Load, ReadEvents, DenyExec (map put or SIGKILL), Close | reader goroutine, processor goroutine, main |
| Event decoding | `internal/sensor/events.go` | none | ParseEvent | reader goroutine |
| Causal graph | `internal/graph/graph.go` | nodes, edges, children, pidNode, trust per node | AddProcessNode, AddFileNode, AddSocketNode, AddEdge, SetProcessTrust, UpdateTrust (recursive propagation), AncestryDepth, Subgraph | one RWMutex; processor writes structure, handlers write trust |
| Trust scorer | `internal/graph/trust.go` | none | ComputeTrust, UpdateProcessTrust (read parent, compute, write) | three separate lock acquisitions |
| Feature extractor | `internal/graph/features.go` | 50-entry syscall window per PID | RecordSyscall, Extract | processor goroutine |
| Response engine | `internal/response/engine.go` | mode, trusted comms/PIDs, pausedPIDs, decisions, action log | Respond, PauseProcess, ResumeProcess, KillProcess, TrustProcess, SetMode, GetSuspiciousBelow | processor goroutine and any number of HTTP handlers; `mu` is released around every system call; `mode` is not locked at all |
| User trust file | `engine.go` Load/SaveUserTrust | `data/user_trust.json` | snapshot under lock, write without lock; load at start | concurrent handlers, crash and restart |
| Event log | `internal/response/logger.go` | last 1000 entries, JSONL file | Log, RecentEntries | one mutex |
| CRIU verify | `internal/checkpoint/criu.go`, `netns.go` | checkpoint dir, netns, veth pair, iptables rule, captured connections | dump, sinkhole, restore, analyse, clean up | manager mutex; sinkhole goroutines; 15 s timeouts |
| Database | `internal/db/store.go` | process records, bounded event list, patterns, conversations | RecordEvent, RecordDecision, RecordConversation (asynchronous append), tree and graph views | one RWMutex, append goroutines |
| Event pipeline | `cmd/sensor/main.go` processEvents, main | channel of 1024, rate ticker, cooldowns | read, rate-limit, update graph, gate on trust, score, respond, record, narrate, broadcast; shutdown | reader, processor, HTTP server, main |
| HTTP/chat handlers | `cmd/sensor/main.go` setupHTTP | none of their own | pause, resume, kill, trust, mode, chat commands, bulk pause | one goroutine per request |
| SSE hub | `cmd/sensor/main.go` sseHub | subscriber channels of 64 | subscribe, unsubscribe, broadcast (drop when full) | RWMutex |
| Narration | `internal/narration/*` | ATT&CK table | MatchPatterns, Narrate, QueryCopilot | one goroutine per narration |
| Sidecar | `sidecar/*.py` | model, calibration scores | score, p-value, tier | external process |
| Dashboard, scripts, data | `dashboard/`, `scripts/`, `data/` | browser state, recorded data | polling, rendering, demos | none shared |

How they interact: tracepoints submit events to the ring; the reader goroutine
decodes them into a channel; the processor goroutine takes one event at a time,
drops it when the rate ticker has no tick, updates the database and the causal
graph, skips scoring when the process is trusted, otherwise asks the sidecar for
a p-value and calls `Engine.Respond`, which may signal the process, run the CRIU
verification or put its PID in the LSM deny map. Operators act on the same
engine from HTTP handlers, and the processes themselves run, exec, die and give
their PIDs to other processes at any time.

### What is hard here

* **Concurrency.** The processor and every HTTP handler work on one engine;
  `mu` is released around each system call, `mode` is not locked at all, the
  trust file is written outside the lock, and the deny map is shared with
  execs on every CPU.
* **Stale state.** Everything is keyed by PID: events, trust, the pause list,
  deny map, graph nodes and records outlive the process they were made for.
* **Failure.** The sidecar may be down or without a model, signals and map
  updates may be refused, CRIU and its network set-up may fail half-way, the
  disk may fail, the monitor may be killed while it writes.
* **Ordering and time.** Events wait in a ring, a channel and a slow processor
  while processes fork, exec, die and are reparented; timeouts, a rate ticker,
  a 3-second sleep and a 2-second read decide what is noticed.

### What makes each component correct

| Component | Must hold |
|---|---|
| Response engine | trusted and protected processes are never struck; the action fits a mode that was in force; a recorded kill is a death; no action without a score; what is stopped is listed; the suspicious end up frozen in pause mode |
| User trust file | what the user was told will persist does, where saves do not overlap and nothing fails; the file never contains trust that is not in force, nor bytes of an older file |
| Causal graph | acyclic, edges join nodes, one parent per process, a low score reaches all descendants once |
| Event pipeline | no loss, duplication or reordering between ring and processor; every event is read; shutdown completes |
| Event decoding | who did what (type, PIDs, user, name of the task) arrives; no port and no write is made up (file names and addresses do not arrive: `more_wire`) |
| SSE hub | no send on a closed channel; neither broadcasters nor leaving clients wait for a slow dashboard |
| CRIU verification | nothing is left on the machine; a connection counts only for the verification during which it is made, and one made during the restore does count; it returns |
| Database | the views lose nobody who is alive; patterns are listed once; threats appear with their ancestry |
| Scoring (features, sidecar, table, trust formula) | rarity is that of the latest calls; false alarms keep the rate the p-value promises; tier, status and score agree; worse evidence never helps |
| Chat | what the help offers is taken as it is meant, "trust PID n" excepted; the log holds the latest actions, each once; conversations are never doubled, and lost only to the disk or a stop, over restarts |
| Event log | the newest 1000 entries are kept (not modelled) |

## 2. Modules

| Module | Models | State ↔ code | Actions ↔ code |
|---|---|---|---|
| `ProcessTable` | the operating system's process table (external) | state, incarnation and name of a PID | what SIGSTOP, SIGCONT, SIGKILL, wait and fork do |
| `ResponseEngine` | `engine.go`, the gate and scorer call of `processEvents`, the command handlers, `DenyExec`, the LSM hook, CRIU's effect | `mode` (the two words of a Go string), `paused`, `trustedComms`, `trustedPids`, `log` (what `GetSuspiciousBelow` can see), `denyMap`; `ppc`, `ev`: the processor; `hpc`, `req`: the handlers | one per lock region, system call or access to `mode`: `TakeEvent`, `Gate`, `Score`, `Classify`, `IfObserve`, `IfPause`, `IfPaused`, `Stop`, `Mark`, `Verify`, `Replay`, `Deny`, `Append`; `Pause`/`HandlerMark`, `Resume`/`Unmark`, `Kill`/`CleanUp`, `Trust`, `SetMode`/`SetModeRest`, `Bulk*`; `Exec`/`ExecDenied` for the hook |
| `UserTrust` | `LoadUserTrust`, `TrustProcess`, `SaveUserTrust`, restart | the maps, each handler's copy, the file as bytes written or torn; `faults`, what may go wrong on this machine, chosen at the start | `Trust`, `Copy`, `Open` (truncate), `Write`, `Reply`, `Stop`, `Start` |
| `TrustRegistry` | abstract: what the user may rely on | the set of trusted entries, and those promised | one step to trust, one to promise, one to restart |
| `CausalGraph` | `graph.go` as the processor and the handlers use it | `node`, `trust`, `objs`, `kids`, `forks`, `uses` | one per method of `CausalGraph`; `TrustProcess` and `SetProcessTrust` for the operator |
| `EventPipeline` | ring, reader, channel, processor, ticker, signal, shutdown | `ring`, `hand`, `chan`, program counters | one per blocking point of each goroutine |
| `WireFormat` | `struct event` as the C compiler lays it out, the tracepoints, `binary.Read`, `ParseEvent` | one record of the ring: the bytes of its fields and what its memory held before, from which every byte follows; the call's arguments as 8-byte slots, read at the offsets the sensor declares, by reads that may fail (`ContextReads`) | a tracepoint submits, `ReadEvent` decodes, `HandOn` passes on |
| `SSEHub` | `sseHub`, `/api/stream` | the map, channel lengths, closed channels | lock, send, unlock; subscribe, unsubscribe, close |
| `CriuVerify` | `Manager.Verify` and `Sinkhole` | Verify's place, the goroutines of each round, connections and whether the copy made them or another process of the host, directory, namespaces, veth, rules, port | one per external command or blocking call, with its failures |
| `Database` | `store.go`'s process records and their views | `rec`, `alerts` | `RecordEvent`, `RecordDecision`; the views are operators over any answer `/proc` may give |
| `Scoring` | the numbers: `RecordSyscall` and `ngramRarity`, `compute_p_value`, `callScorer`, `MatchPatterns`, `TierFromPValue`, `ClassifyProcess`, `ComputeTrust` | `window`, `rarity`, `corpus` (the calibration scores), `decision`; `calls`, a history | an event of a trusted process is recorded (`Ignore`), any other recorded, scored and answered (`Handle`); the formulas are operators |
| `Chat` | `/api/chat`'s ten rules, the action log, the conversations of `store.go` | `log`, `conversations`, `chatCounter`, `pending` (the goroutines that append), `file`; `request`: the handlers | `Receive`, `PostKill`, `Act` and `Record` (effect, then entry), `Block`/`BlockNext`, `LookUp`, `Ask`, `AppendLine`, `Stop`, `Start` |

`MCResponseEngine`, `MCWireFormat`, `MCDatabase`, `MCScoring` and `MCChat` hold
the sets and symmetries TLC needs; the other modules are checked as they are.
Proofs are in `ResponseEngineProofs`, `UserTrustProofs`, `CausalGraphProofs`,
`DeliveryProofs` (of `EventPipeline`, `SSEHub` and `WireFormat`), `CriuVerifyProofs`,
`DatabaseProofs`, `ScoringProofs` and `ChatProofs`.

Composition: `ResponseEngine` joins the processor, the handlers, the LSM map and
the process table, because its hazards lie between them. The other components
touch it through narrow interfaces: the graph and the database receive events
and decisions and hand nothing back to the engine except the trust score, which
`ResponseEngine` leaves open; `CriuVerify` returns one of three outcomes, which
are the three disjuncts of `ResponseEngine!Replay`; `EventPipeline` delivers the
events in the order `TakeEvent` assumes. `Scoring` is what lies between
`ResponseEngine!Gate` and `Classify`: the engine takes any tier a score may have,
`Scoring` computes it, and both know the three kinds of answer of the sidecar.
`Chat` decides which command a query is; what the command does to processes, a
success or a failure there, is an action of `ResponseEngine` or `UserTrust`.
`CausalGraph` and `Database` share the shape of their environment: processes fork,
exit and are reparented while events that name an earlier parent are under way.

Definitions that begin with a comment `Mutant:` are deliberate bugs, one for
each property checked; `PROJECT.json` says which definition each one replaces.
They are not part of the models.

### Abstractions

* A PID is a number where a bound on it matters (10, 100) and a model value or a
  word elsewhere; a name is known, unknown or absent; in `ResponseEngine` a
  p-value is its tier; in `CausalGraph` a computed score is any member of a set.
* `Scoring` computes with whole numbers: a p-value is a fraction until the sidecar
  rounds it to millionths (scorer.py:119), and tier and score are made of the
  rounded number; a score is hundredths of a point. A half is rounded up, where
  Python follows the binary error; no half is near a threshold below a million
  samples. A millionth and a literal such as 0.15 are the same double when they
  are the same number; a score may differ by a hundredth, far from the bounds
  checked. Comm and payload are the set of indicators they contain: any set, as if
  payloads arrived (below).
* A query in `Chat` is its words in lower case; the code's
  substrings are looked for as whole words ("rapid", in which the code finds
  "pid", is left out), and some words are numbers.
* `ResponseEngine.log` keeps, for each PID, the latest suspicious decision and
  whether the latest decision of all was one: `GetSuspiciousBelow` tells no more
  apart.
* A Go string is two words written in either order; a reader that meets a mixed
  header compares unequal to every mode.
* `UserTrust` distinguishes a file that is missing, truncated, complete, or
  shorter than what it was written over.
* `WireFormat` keeps bytes and offsets because its properties are about them;
  strings and addresses are short sequences of numbers. An argument is a number or
  a pointer, and lies in an 8-byte slot of the tracepoint's context. The sensor reads
  it with `bpf_probe_read_user` and does not look at the result, though the context is
  kernel memory: where the kernel tells the two apart the read fails and leaves zeros.
  `wire_fields` takes both outcomes, `more_wire` only the failing one.
* As the sensor is written no file name and no address reaches the monitor. The models
  behind the ring take any payload and any address all the same (`Scoring`'s texts,
  `CausalGraph`'s objects): what they claim holds of the sensor as it is, and of one
  that reads its arguments right.
* Bounds in guards: `MaxGen` (incarnations of a PID), `MaxBirths`, `MaxRounds`,
  `Ids` (event numbers, used cyclically), `MaxCalls`, `MaxActs`, `MaxTalks`,
  capacities as constants.

## 3. Runs

Passing runs:

| Run | Instance | What it shows | Why the bounds are enough |
|---|---|---|---|
| `engine_safety` | one PID in two incarnations, a whitelisted and an unknown name, one handler with all commands but the single pause and the chat kill, all modes, CRIU, no LSM | `TrustedAreSpared`, `ModeDiscipline`, `KillIsFinal`, `UnscoredIsHarmless` | no action relates two PIDs except through the snapshot of a bulk command, which is a set worked off one by one; two incarnations give every stale reference a wrong target; one handler already interleaves with the processor at every step |
| `engine_paused` | PIDs 10, 100, 101, modes pause and enforce, LSM with a full map of one, pause, chat kill and bulk | `PausedListed`, `ProtectedUntouched`, `SuspiciousFrozen` | the PIDs are the two bounds and the first number above them; three PIDs overflow the map; the first two are proved for any number |
| `trust` | two entries, two handlers, every choice of `faults`: overlapping saves, a failing disk, kills | `FileBehind`; where `faults` is empty, `SavedSurvive` and the refinement `KeepsRegistry` | two saves at once are the race; each may fail or be cut off at each step; entries are alike |
| `graph` | init and two processes, one object, one score, one PID an operator may trust, no PID reuse | `Acyclic`, `TreeAcyclic`, `OneParent`, `DescendantsDecay` | two births give grandchildren, orphans and events that name a dead parent; all four are proved for any number |
| `pipeline` | ring and channel of two, seven numbers | `InOrder`, `EventsAreRead`, `SomeAreHandled`, `ShutdownCompletes` | the numbers exceed everything in flight, so a loss or duplicate shows |
| `hub` | two streams, two broadcasters, channels of two | `NeverSendOnClosed`, `BroadcastReturns`, `LeavingCompletes` | a writer waiting behind a reader with another reader behind it is the smallest deadlock of a RWMutex |
| `wire_fields` | all tracepoints over fresh and reused memory, with reads of the context that succeed and that fail | `HeaderKept`, `NothingInvented` | layouts do not depend on values; the numbers have distinct bytes, one name of each kind fills its array, and reused memory is full of bytes that are write flags; both are proved for all values |
| `verify` | two rounds over two PIDs, two connections, each of the copy or of another process of the host; the listener is set up within the sleep | `CleanedUp`, `EarlyCallbackConfirms`, `CountedForItsVerification`, `VerifyReturns`, `ListenerEnds` | a second round meets whatever the first leaves behind; the first three are proved for any number |
| `database` | init and two processes, one pattern, SIGKILL, no PID reuse | `PatternsListed`, `TreeComplete`, `HiddenIsDead`, `AncestryShown` | as in `graph`; each view is taken for every subset `/proc` may show; all four are proved for any number |
| `scoring` | two call types, a window of four, eight calibration sets of 0, 1 and 20 samples with ties, four texts, an untrusted and a fully trusted parent, every kind of answer | `FalseAlarmsBounded`, `AlarmsAreBlockable`, `MoreSuspiciousNeverMilder`, `RarityOfLatest` | with 20 samples 5% and 15% are one and three of them exactly; five calls slide a window of four; all four are proved for all values, the false alarms for fewer than 100,000 samples (the shipped set has 2000): from there on rounding may take a further sample to the threshold |
| `chat` | two requests, ten queries: every command of the help and what the answers suggest, two PIDs (one protected), a log of two, three actions, two conversations | `DoneAsMeant` (of all but "trust PID n", which `more_chat` shows), `ActionsLogged`, `ConversationsKept` | two requests swap effect and entry; three actions overflow the log; two conversations swap on their way to the file; all three are proved for any number |

Disagreements between the code and what the repository says of it, as a run that
must end in a violation:

* `finding_unloaded_model`: `callScorer` promises a "Conservative safe default"
  (main.go:692), but the 503 of a sidecar without a model decodes to p = 0, and
  in enforce mode the process is killed.

### Further disagreements

Each statement below is violated; reproduce it with
`tlc -continue -config <name>.cfg <module>` (a configuration may hold several).

| Configuration | Module | Statement | What the code does |
|---|---|---|---|
| `more_shutdown_hangs` | EventPipeline | loader.go:156 "Blocks until ctx is cancelled." | the reader waits in `ringReader.Read`, main waits for the reader before it closes the ring: without another event the shutdown never completes |
| `more_tree_cycle` | CausalGraph | README.md:13 "Directed Acyclic Graph (DAG)" | a reused PID closes a cycle in `children`; `propagateTrust` recurses on it without end |
| `more_stale_node` | CausalGraph | graph.go:129, nodes are created "or updated" | an existing node keeps its first parent and name |
| `more_trust_decays` | CausalGraph | engine.go:328, the user marks a process as trusted | a score computed before, or a parent's propagation, overwrites the 100 |
| `more_mode_race` | MCResponseEngine | engine.go:22 "Default: log only, never kill" | a half-written mode, or one read as pause and then as observe, leads to the enforce branch |
| `more_reused_pid` | MCResponseEngine | engine.go:24 "with whitelist protection" | the process judged is gone, its PID belongs to a whitelisted one when the signal is sent |
| `more_denial` (`KilledIsDead`) | MCResponseEngine | engine.go:24 "Kill confirmed threats" | with the LSM the next exec is refused; a process that does not exec lives on |
| `more_denial` (`WhitelistedMayExec`) | MCResponseEngine | engine.go:24 "with whitelist protection" | the deny entry of a dead process refuses the exec of a whitelisted one |
| `more_not_frozen` | MCResponseEngine | README.md:16, pause mode freezes suspicious processes | the pause list names a dead process; its PID's next holder counts as paused already |
| `more_listed_running` | MCResponseEngine | README.md:187, the list of paused processes | processes that died stay listed |
| `more_paused_unlisted` | MCResponseEngine | main.go:1072 "return all currently paused processes" | a resume and a pause that overlap leave a stopped process off the list |
| `more_criu_unlisted` | MCResponseEngine | main.go:1072 | `criu dump --leave-stopped` (criu.go:121) freezes, nothing lists or continues it |
| `more_bulk_trusted` | MCResponseEngine | main.go:1314 "never pause trusted" | trust given between the check and the signal |
| `more_bulk_above` | MCResponseEngine | README.md:182, block all below N | `GetSuspiciousBelow` filters before it keeps the latest, so a recovered process is still paused |
| `more_trusted_struck` | MCResponseEngine | main.go:1224, the answer to a trust command | trust that arrives after `Respond`'s check does not stop the signal |
| `more_trust_lost` (`OverlapSurvived`) | UserTrust | main.go:989, 1224: the decision persists | two saves at once: the older copy is written last |
| `more_trust_lost` (`KillSurvived`) | UserTrust | README.md:19, persistent whitelist | killed between truncation and write: the file is empty |
| `more_trust_lost` (`DiskSurvived`) | UserTrust | main.go:984, 989: the decision persists | a failed save is only logged, the answer is the same |
| `more_verify` (`CallbackConfirms`) | CriuVerify | criu.go:172 "Any outbound connection in the sandbox = C2 callback attempt" | a restore that reports an error, as it does when the copy outlives the 15 seconds, is "benign" whatever was captured |
| `more_verify` (`ConfirmedByItsCopy`) | CriuVerify | criu.go:172 "Any outbound connection in the sandbox = C2 callback attempt" | the listener is on the host's side (netns.go:83-85) and nobody looks at the remote address: a connection of any process of the host confirms the one being verified as malicious |
| `more_verify` (`CleanedUp`) | CriuVerify | (assumption of `verify`) | a listener set up after the clean-up leaves its redirection |
| `more_killed_alive` | MCDatabase | store.go:493 "The interactive tree is a live process view." | with the LSM a "killed" process lives on and is hidden |
| `more_reused_record` (`HiddenIsDead`) | MCDatabase | store.go:493 | the flag stays when the PID is reused |
| `more_reused_record` (`TreeComplete`) | MCDatabase | store.go:485, the hierarchical tree | records of reused PIDs name each other as parents and are under no root |
| `more_wire` (`NameArrives`) | MCWireFormat | sensor.c:29 "For execve: filename; for openat: pathname" | the pointer is read from the context (kernel memory) with `bpf_probe_read_user` (sensor.c:131, 175), which fails unnoticed; `openat_args` (143-153) has it in the slot of `dfd` besides |
| `more_wire` (`NoStalePayload`) | MCWireFormat | sensor.c:29, the payload of the event | ring memory is not cleared: a connect carries the payload of an earlier event |
| `more_wire` (`DestinationArrives`) | MCWireFormat | sensor.c:29 "for connect: addr string", and `dst_port`, `dst_ip4` (34-35) | the same read (sensor.c:209), from the slot of `fd` (182-191): no address is ever copied |
| `more_wire` (`DestinationReal`) | MCWireFormat | events.go:38 "must match struct event in sensor.c exactly" | C pads two bytes before `dst_ip4`, `binary.Read` inserts none: the destination reported is what the gap held before |
| `more_wire` (`WritesSeen`) | MCWireFormat | events.go:38 | it pads before `flags`, too: the family is taken for the flags, and an open for writing arrives as a read |
| `more_chat` (`QuestionsDoNothing`) | MCChat | main.go:1464 lists commands apart from "AI questions" | "is python3 a known process" trusts python3 for good; "did you block all attacks" pauses every process below 40 |
| `more_chat` (`TrustsPID`) | MCChat | main.go:1464 "trust PID 1234 — whitelist immediately" | a process named 1234 is trusted, no PID is |
| `more_chat` (`MostRecentFirst`) | MCChat | main.go:1366 "(most recent first)" | effect and entry are two steps: requests that overlap log in another order |

Read in the code, and not run:

* main.go:292: when `ngram_baseline.json` exists and does not parse, "using empty" parses
  `/dev/null`, which fails as well and leaves the baseline nil; `ngramRarity`
  dereferences it at the third event of the first process nobody trusts.
* graph.go:155: a child of a parent with trust 70 or more inherits it whole, "preserve
  full trust for benign trees"; trust.go:49 has children inherit "decayed parent trust".
* attack_table.go:65 `shadow_read` has one indicator and `matchEntry` wants two: it
  never matches. An indicator inside another of the same entry counts twice
  (`/etc/crontab` holds `crontab`).
* features.go:92 "the number of distinct outgoing edges": `OutEdges` repeats an edge
  for every call.
* Of the 59 trigrams of `data/ngram_baseline.json`, three consist of calls the sensor
  reports at all; every other trigram of a process is "unseen".
* Windows are keyed by PID and never removed: a PID's next holder is scored by its
  predecessor's calls.
* main.go:1129 "user-driven action log (kill/pause/trust/resume)": the handlers behind
  the dashboard's buttons for pause, resume and trust record nothing, only the chat
  and `KillProcess` do.
* "suspend pid N", "terminate pid N" and "unpause pid N" are not parsed, though
  "pause pid N" and the like are; "pause all processes below N" uses 40 whatever N is.

The PID-reuse cases need a PID to come round again between two events, a matter
of a wrapped PID space; the others need no rare circumstance.

### Fairness

* `ResponseEngine!FairSpec` (for `SuspiciousFrozen`): weak fairness of the
  processor and of each handler that has begun: the Go scheduler runs a
  goroutine that can go on, and every call they make returns (the sidecar call
  has a timeout). Nothing is assumed of operators, events or processes.
* `EventPipeline!FairSpec`: weak fairness of reader, processor, ticker, shutdown
  and close, and strong fairness of a successful read, since a read may fail but
  not for ever while records are there. `BusySpec` adds that events keep coming;
  `ShutdownCompletes` needs it, as `more_shutdown_hangs` shows, and the sensor
  itself makes it likely, not certain.
* `SSEHub!HubFairSpec`: weak fairness of each handler's and broadcaster's own steps.
  Clients need not read, which is what the drop in `broadcast` is for.
* `CriuVerify!Spec`: commands return, time passes, the context expires, goroutines
  run, reads have a deadline. A restore is only taken to end once the context has
  expired, since criu waits for the process it restored; nobody has to connect.

## 4. Proofs

All theorems hold for every value of the constants that satisfies the named
assumptions of their module.

* **ResponseEngineProofs.** `TypeCorrect`; `TrustSafety` (`TrustedAreSpared`);
  `ProtectionSafety` (`ProtectedUntouched`). None is inductive alone: an event's
  PID and name are only meaningful while the processor is busy (`EventNamed`), a
  request's PID only at certain places (`RequestNamed`). `Guarded` adds that past
  the gate the event was not exempt (`Gated`), that an exempt event's process is
  still trusted because trust only grows (`ExemptTrusted`), that whoever is about
  to be acted on has a PID above 100 (`Judged`), and the same for the targets of
  a bulk command (`BulkSafe`). The action property follows from `Guarded` step by
  step.
  What the engine's answers amount to comes second. `ModeSafety`: `seen` collects every reading of the
  mode possible since the event was taken, and `ModeRead` says the present one is
  among them. `EnforceSafety`: if pause mode is never selected, nothing is killed
  without an enforce reading, because observe and enforce have the same length
  and no torn reading exists; this locates the hazard of `more_mode_race`.
  `KillSafety`: incarnations only grow, and without the LSM a recorded kill is the
  death of the one judged. `ScoreSafety`: if the sidecar has a model, what stops,
  verifies, kills or denies rests on a score (`Earned`); `finding_unloaded_model` is
  what the assumption leaves out.
  Last, the pause list. `PausedAreListed`: a signal and the entry it leads to are two
  steps, so `PausedInv` says that a living process is stopped just when it is listed or
  whoever stopped it is about to list it (`FrozenListed`), and that a kill takes only
  the dead off the list (`CleanedAreDead`). It assumes what the run assumes, and each assumption is one of
  the disagreements above: nobody resumes (`more_paused_unlisted`), CRIU is off
  (`more_criu_unlisted`), no PID is given away again.
* **UserTrustProofs.** `TypeCorrect`, `FileIsBehind`, `OldBytesAreGone` for any
  number of handlers and any faults: each handler's copy is behind the maps
  (`CopiesBehind`). Where `faults` is empty (`Orderly`), `SavedEntriesSurvive`,
  and `ImplementsRegistry`: the store implements `TrustRegistry`, each step mapping
  to one of its steps or to a stutter; the registry of any other machine is mapped
  to the empty one, of which nothing is claimed.
* **CausalGraphProofs.** `EdgesAlwaysJoinNodes` and `AlwaysOneParent` from `Joined`,
  which says what the event in flight has already added. Under `~Reuse`,
  `GraphIsAcyclic` and `TreeIsAcyclic`: a process is born later than its parent of any
  moment (`BornInOrder`, with reparenting), the graph follows that order
  (`GraphInOrder`), and any set ordered by birth has a first member, hence no cycle.
  Then the amounts. `TrustTyped`: trust stays within 0 and 100%. `DescendantsAllDecay`,
  with reused PIDs as well: generation by generation what is propagated loses 15%, and
  where the recursion returns no process is its own descendant, since its generations
  would begin anew with it (`NotItsDescendant`). `PropagationReturns`, under `~Reuse`: a
  member of the n-th generation has n ancestors (`AncestorsAreMany`), all older, so
  there are no more generations than processes; `more_tree_cycle` is what reuse does.
  Generations are recursive functions: a function that satisfies the equation is shown
  to exist (`Iterated`), and what is claimed of all generations is refuted at the
  smallest counterexample, which needs no induction schema.
* **DeliveryProofs.** `PipelineTyped`, and `EventsInOrder` for any capacities: the
  sequence in flight keeps consecutive numbers through every hand-over. `HubTyped` and
  `HubNeverPanics`, from: mapped channels are live (`MapIsLive`), closed ones gone
  (`ClosedIsGone`), and a broadcaster inside the lock only serves mapped ones
  (`ServesMap`). `HeadersArrive` and `NothingIsInvented`, whichever reads fail: the
  places of the fields solve the equation of the layout rules (`StructPlaces`,
  `RawPlaces`), a byte of a field lies in no other (`LayoutHolds`), the two
  declarations agree as far as the port, and where the flags are looked for lies the
  family (`ReadAsWritten`). Every tracepoint keeps the header `fill_common` writes
  (`CommonCarries`); where the sensor looks for a socket address lies a descriptor, so
  none is copied, and port and family stay cleared (`NoAddressIsRead`). `WireInv`
  says of a record in the ring what its bytes carry.
* **DatabaseProofs.** `DatabaseTyped`. `PatternsAreListed`: the list of kinds grows with
  the patterns found and never repeats one. `TreeLosesNobody`, under `~Reuse`: an order
  of births exists in which every recorded parent comes before its child, whoever
  adopts it (`InOrderOfBirth`), and the oldest process a view lost would hang under
  one it did not lose. `OnlyDeadAreHidden` assumes `~Reuse` and `~Lsm`: the flag stays
  with the PID (`more_reused_record`), and with the LSM a recorded kill is only a
  refused exec (`more_killed_alive`). `AncestorsAreShown` holds by what the view adds to
  the threats, for every record and every answer of `/proc`.
* **ScoringProofs.** `FalseAlarmsAreBounded`, for calibration sets of fewer than
  100,000 samples, below which rounding to millionths takes no rank to a threshold it
  does not reach itself (`RoundedRank`): a sample's p-value against the others is its
  rank over the size of the set (`PValueIsRank`), and of the samples whose rank is at
  most r there are at most r (`FewAlarms`), because the one of them that scores highest
  counts all the others. `AlarmsAreAlwaysBlockable` bounds the formula at the p-values the tiers
  allow (`TrustBelow`); `NeverMilder` from the monotonicity of rank, of severity in
  the set of indicators and of the rounded formula. The decision is the one
  `Respond` makes of its inputs (`ScoringInv`). `RarityIsOfLatest`, for windows of any
  size and histories of any length: the window is the end of the history (`Slides`), a further
  call keeps it so, and the rarity was taken of it (`WindowInv`).
* **CriuVerifyProofs.** `CountedForTheRightOne`, however late listeners are set up: a
  listener of an earlier round is past its context's end and has lost the port, so
  whoever may accept belongs to the round under way (`Current`).
  `EarlyCallbacksConfirm` from `Verdict`: a read that began during the restore has
  less time left than the sleep, so it is recorded when the sleep is over.
  `VerifyLeavesNothing` assumes `Prompt`: then no listener is still being set up when the sleep ends (`Listeners`), and what is on the machine is
  this verification's, at a place from which Cleanup is still to come (`Machine`).
* **ChatProofs.** `ConversationsAreKept`: inductive with `Numbered`, which says that
  the counter is the length of the list and that nothing is recorded under a number
  not yet given. `ActionsAreLogged`: effect and entry are two steps, so entries may
  overtake each other; `LogInv` says that what is done is recorded or on its way
  (`Complete`), nothing twice (`Distinct`), and that an entry overtakes fewer earlier
  ones than there are handlers, as they were under way together (`FewOvertake`).
  `AllButTrustByPIDAreMeant` goes through the ten rules in the code's order and shows for
  every command of the help that no earlier rule takes it, "trust PID n" left out, of
  which it is false. It assumes of the words what their spelling gives (`WordsAssumption`): PIDs and bounds are numerals, hence no word of a
  rule, and python3, the help's example of a name, has more than one letter.

Only model-checked: everything under fairness (`SuspiciousFrozen`,
`EventsAreRead`, `SomeAreHandled`, `ShutdownCompletes`, `BroadcastReturns`,
`LeavingCompletes`, `VerifyReturns`, `ListenerEnds`), which is out of the proof
system's reach. Every invariant and every action property of the runs has a theorem.

## 5. Not modelled

The Isolation Forest and its training (scikit-learn, offline), fan-out, entropy and
ancestry depth, which only it interprets, the event log and the list of events,
which only views read, the read-only views of the causal graph, process metrics, narration's
and the copilot's texts, the dashboard, scripts, the kill-event ring, and the
attaching of the BPF programs. PID reuse is left out of the runs where the code
gives no guarantee with it; the configurations above show each of these cases.

`bpf/vmlinux.h`, 164 014 generated lines of kernel types, has no behaviour of its own;
of it, the models use the layout rules `WireFormat` states.

## 6. Plan

Done, in this order: `ResponseEngine` with its process table, `UserTrust` and
`TrustRegistry`, `CausalGraph`, `EventPipeline`, `SSEHub`, `WireFormat`,
`CriuVerify`, `Database`, `Scoring`, `Chat`, and the proofs of section 4.

Next, models:
1. A restart in `ResponseEngine`: the pause list is lost, processes stay stopped.
2. `AncestryDepth` and `Subgraph` as operators over the graph.
3. The bounded lists of `logger.go` and of `store.go`'s events.

Next, theorems: what the reused PIDs leave of `PausedListed` and `HiddenIsDead`; that
`Chat`'s commands and `Scoring`'s tiers are inputs `ResponseEngine` allows.
