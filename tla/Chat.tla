-------------------------------- MODULE Chat --------------------------------
(***************************************************************************)
(* The operator's conversation: /api/chat in cmd/sensor/main.go, which     *)
(* takes a query for a command or a question, the action log of            *)
(* internal/response/engine.go and the conversations of internal/db/       *)
(* store.go, which are appended to a file in the background and read back  *)
(* at the next start.                                                      *)
(*                                                                         *)
(* A query is a sequence of words in lower case; a substring is looked for *)
(* word by word.  What trust, pause, resume and kill do is in UserTrust    *)
(* and ResponseEngine; here they succeed or fail.  Requests overlap, and   *)
(* an effect and its entry in the log are two steps.                       *)
(***************************************************************************)
EXTENDS Integers, Sequences, FiniteSets, FiniteSetsExt

CONSTANTS Handlers,     \* requests served at once
          Queries,      \* what an operator types
          PIDs, LowPIDs,\* words that are PIDs; those up to 10
          Bounds,       \* words that are trust bounds
          Letters,      \* words of one character
          LogBound,     \* the 200 entries the log keeps
          MaxActs,      \* bound on the actions of a run
          MaxTalks      \* bound on the conversations ever recorded

ASSUME ChatAssumption ==
  /\ LogBound \in Nat \ {0} /\ MaxActs \in Nat /\ MaxTalks \in Nat
  /\ IsFiniteSet(Handlers) /\ Handlers # {}
  /\ LowPIDs \subseteq PIDs

(* PIDs and bounds are numerals, and python3 has more than one character.  *)
ASSUME WordsAssumption ==
  /\ (PIDs \cup Bounds) \cap {"trusted", "known", "mode", "pid"} = {}
  /\ "python3" \notin Letters

VARIABLES request,       \* what each handler is at
          log,           \* Engine.actionLog, entries as positions in done
          done,          \* history: the actions since the start
          conversations, \* Store.conversations, with what was said in each
          chatCounter,   \* Store.chatCounter
          pending,       \* conversations a goroutine has yet to append
          file,          \* session_analysis.jsonl
          said,          \* history: how many conversations there were
          lost,          \* history: those the disk refused or a stop cut off
          up             \* the program runs

vars == <<request, log, done, conversations, chatCounter, pending, file, said, lost, up>>

-----------------------------------------------------------------------------
(* What a query asks for.                                                  *)

Nobody == "nobody"
Command(do, on) == [do |-> do, on |-> on]
Nothing == Command("nothing", Nobody)

Opens(q, words) == Len(q) >= 2 /\ q[1] \in words
SaysAt(q, i, phrase) == /\ i + Len(phrase) <= Len(q)
                        /\ \A k \in DOMAIN phrase : q[i + k] = phrase[k]
Says(q, phrase) == \E i \in 0 .. Len(q) : SaysAt(q, i, phrase)
SaysOneOf(q, phrases) == \E phrase \in phrases : Says(q, phrase)

(* Sscanf with a literal and a number; what follows the number is ignored. *)
Scanned(q, forms, numbers) ==
  {q[Len(form) + 1] : form \in {f \in forms : /\ Len(q) > Len(f) /\ SaysAt(q, 0, f)
                                              /\ q[Len(f) + 1] \in numbers}}

Scan(do, q, forms) == LET found == Scanned(q, forms, PIDs)
                      IN  IF found = {} THEN Nothing ELSE Command(do, CHOOSE n \in found : TRUE)

SkipWords == {"trust", "mark", "as", "trusted", "known", "process", "this", "is", "the", "pid", "a", "an"}

(* The name that is trusted is the first word that may be one; the request *)
(* may carry a PID, too.                                                   *)
TrustRule(q, pid) ==
  LET names == {i \in DOMAIN q : q[i] \notin SkipWords \cup Letters}
  IN  IF /\ Opens(q, {"trust", "mark"}) \/ \E i \in 2 .. Len(q) : q[i] \in {"trusted", "known"}
         /\ names # {} \/ pid # Nobody
      THEN Command("trust", IF names = {} THEN pid ELSE q[Min(names)])
      ELSE Nothing

ResumeRule(q) == Scan("resume", q, {<<"resume", "pid">>, <<"resume">>, <<"unpause">>})

PauseRule(q) == IF q[1] = "pause" /\ \E i \in DOMAIN q : q[i] = "mode" THEN Nothing
                ELSE Scan("pause", q, {<<"pause", "pid">>, <<"pause">>, <<"suspend">>})

KillRule(q) == Scan("kill", q, {<<"kill", "pid">>, <<"kill">>, <<"terminate">>})

BlockForms == {<<"block", "all", "process", "below">>, <<"block", "all", "below">>,
               <<"pause", "all", "below">>, <<"block", "all", "processes", "below">>}

(* A bound that is not read is 40.                                         *)
BlockRule(q) ==
  LET found == Scanned(q, BlockForms, Bounds)
  IN  IF SaysOneOf(q, {<<"block", "all">>, <<"pause", "all">>})
      THEN Command("block", IF found = {} THEN "40" ELSE CHOOSE n \in found : TRUE)
      ELSE Nothing

Show(what, q, phrases) == IF SaysOneOf(q, phrases) THEN Command("show", what) ELSE Nothing

PausedRule(q)  == Show("paused", q, {<<"show", "paused">>, <<"paused", "processes">>,
                    <<"blocked", "processes">>, <<"currently", "paused">>, <<"currently", "blocked">>})
LogRule(q)     == Show("log", q, {<<"action", "log">>, <<"show", "log">>, <<"show", "killed">>,
                    <<"what", "did", "you", "do">>, <<"killed", "process">>})
HistoryRule(q) == Show("history", q, {<<"show", "history">>, <<"previous", "conversation">>,
                    <<"what", "did", "i", "ask">>, <<"last", "conversation">>,
                    <<"previous", "commands">>, <<"chat", "history">>})
GreetingRule(q) == IF q \in {<<"hi">>, <<"hello">>, <<"hey">>, <<"help">>}
                   THEN Command("show", "help") ELSE Nothing

(* A question about processes is looked up before the model is asked; what *)
(* is found is up to the live processes.                                   *)
LookupRule(q, pid) ==
  IF pid = Nobody /\ \E i \in DOMAIN q : q[i] \in {"pid", "detail", "process", "browser"}
  THEN Command("look up", Nobody) ELSE Nothing

(* Mutant: the lookup comes first. *)
RulesLookupFirst(q, pid) ==
  <<LookupRule(q, pid), TrustRule(q, pid), ResumeRule(q), PauseRule(q), KillRule(q), BlockRule(q),
    PausedRule(q), LogRule(q), HistoryRule(q), GreetingRule(q)>>

Rules(q, pid) ==
  <<TrustRule(q, pid), ResumeRule(q), PauseRule(q), KillRule(q), BlockRule(q), PausedRule(q),
    LogRule(q), HistoryRule(q), GreetingRule(q), LookupRule(q, pid)>>

(* The first rule that takes the query; the language model answers what is *)
(* left.                                                                   *)
Asked(q, pid) ==
  LET taken == {i \in DOMAIN Rules(q, pid) : Rules(q, pid)[i] # Nothing}
  IN  IF taken = {} THEN Command("ask", Nobody) ELSE Rules(q, pid)[Min(taken)]

-----------------------------------------------------------------------------
(* Requests.                                                               *)

Idle == [at |-> "idle"]
Doing(at, q, command, targets, act) ==
  [at |-> at, query |-> q, command |-> command, targets |-> targets, act |-> act]

Init == /\ request = [h \in Handlers |-> Idle]
        /\ log = <<>> /\ done = <<>>
        /\ conversations = <<>> /\ chatCounter = 0
        /\ pending = {} /\ file = <<>>
        /\ said = 0 /\ lost = {}
        /\ up = TRUE

talk == <<conversations, chatCounter, pending, file, said, lost>>

Taken(h, q, command) ==
  /\ up /\ request[h] = Idle
  /\ request' = [request EXCEPT ![h] = Doing("act", q, command, {}, 0)]
  /\ UNCHANGED <<log, done, talk, up>>

Receive(h, q, pid) == Taken(h, q, Asked(q, pid))

(* The dashboard's kill is KillProcess, too.                               *)
PostKill(h, pid) == Taken(h, <<>>, Command("kill", pid))

At(h, step, does) == /\ up /\ request[h].at = step
                     /\ request[h].command.do \in does

(* An action that is to be recorded.                                       *)
Acted(h, act, rest) ==
  /\ Len(done) < MaxActs
  /\ done' = Append(done, act)
  /\ request' = [request EXCEPT ![h] = Doing("record", @.query, @.command, rest, Len(done'))]

Answered(h) == request' = [request EXCEPT ![h] = Idle]

Reply(h) == /\ At(h, "act", {"show"})
            /\ Answered(h)
            /\ UNCHANGED <<log, done, talk, up>>

(* Trust is given and saved.  A signal may fail: KillProcess records that, *)
(* too, but nothing is recorded of a PID it refuses.                       *)
Act(h) ==
  /\ At(h, "act", {"trust", "resume", "pause", "kill"})
  /\ LET c       == request[h].command
         refused == c.do \in {"pause", "kill"} /\ c.on \in LowPIDs
     IN  \/ ~refused /\ Acted(h, c, {})
         \/ /\ refused \/ c.do \in {"resume", "pause"}
            /\ Answered(h) /\ UNCHANGED done
  /\ UNCHANGED <<log, talk, up>>

(* The bulk command takes its targets once and pauses them one by one; a   *)
(* target is left out when it is trusted by now or gone.                   *)
Block(h) == /\ At(h, "act", {"block"})
            /\ \E targets \in SUBSET (PIDs \ LowPIDs) :
                 request' = [request EXCEPT ![h] = Doing("bulk", @.query, @.command, targets, 0)]
            /\ UNCHANGED <<log, done, talk, up>>

BlockNext(h) ==
  /\ At(h, "bulk", {"block"})
  /\ LET rest == request[h].targets
     IN  \/ \E t \in rest : Acted(h, Command("pause", t), rest \ {t})
         \/ \E t \in rest :
              /\ request' = [request EXCEPT ![h] = Doing("bulk", @.query, @.command, rest \ {t}, 0)]
              /\ UNCHANGED done
         \/ rest = {} /\ Answered(h) /\ UNCHANGED done
  /\ UNCHANGED <<log, talk, up>>

(* Mutant: a full log keeps its oldest entries. *)
LoggedOldest(entries, entry) == IF Len(entries) = LogBound THEN entries ELSE <<entry>> \o entries

(* appendActionLog: the newest entry is in front.                          *)
Logged(entries, entry) == LET all == <<entry>> \o entries
                          IN  SubSeq(all, 1, Min({Len(all), LogBound}))

Record(h) ==
  /\ up /\ request[h].at = "record"
  /\ log' = Logged(log, request[h].act)
  /\ request' = [request EXCEPT ![h] = IF @.command.do # "block" THEN Idle
                                       ELSE Doing("bulk", @.query, @.command, @.targets, 0)]
  /\ UNCHANGED <<done, talk, up>>

-----------------------------------------------------------------------------
(* Conversations.                                                          *)

Conversation(id, what) == [id |-> id, what |-> what]

(* RecordConversation: in memory now, on disk by and by.                   *)
RecordConversation(what) ==
  /\ what <= MaxTalks
  /\ said' = what
  /\ chatCounter' = chatCounter + 1
  /\ conversations' = Append(conversations, Conversation(chatCounter', what))
  /\ pending' = pending \cup {what}
  /\ UNCHANGED <<file, lost>>

(* The lookup finds a process, or the model is asked.                      *)
LookUp(h) ==
  /\ At(h, "act", {"look up"})
  /\ \/ RecordConversation(said + 1) /\ Answered(h)
     \/ /\ request' = [request EXCEPT ![h] = Doing("act", @.query, Command("ask", Nobody), {}, 0)]
        /\ UNCHANGED talk
  /\ UNCHANGED <<log, done, up>>

(* The model answers, or it is off.                                        *)
Ask(h) == /\ At(h, "act", {"ask"})
          /\ Answered(h)
          /\ RecordConversation(said + 1) \/ UNCHANGED talk
          /\ UNCHANGED <<log, done, up>>

(* A goroutine's one write, if the file opens.                             *)
AppendLine(what) ==
  /\ up /\ what \in pending
  /\ pending' = pending \ {what}
  /\ \/ file' = Append(file, what) /\ UNCHANGED lost
     \/ lost' = lost \cup {what} /\ UNCHANGED file
  /\ UNCHANGED <<request, log, done, conversations, chatCounter, said, up>>

(* The end of the program, killed or not: nobody waits for a goroutine.    *)
Stop == /\ up /\ up' = FALSE
        /\ request' = [h \in Handlers |-> Idle]
        /\ log' = <<>> /\ done' = <<>>
        /\ conversations' = <<>> /\ chatCounter' = 0
        /\ pending' = {} /\ lost' = lost \cup pending
        /\ UNCHANGED <<file, said>>

(* Mutant: the counter does not count what is loaded. *)
LoadedUncounted == [chats |-> [i \in DOMAIN file |-> Conversation(i, file[i])], counter |-> 0]

Loaded == [chats |-> [i \in DOMAIN file |-> Conversation(i, file[i])], counter |-> Len(file)]

(* loadPersistedData *)
Start == /\ ~up /\ up' = TRUE
         /\ conversations' = Loaded.chats /\ chatCounter' = Loaded.counter
         /\ UNCHANGED <<request, log, done, pending, file, said, lost>>

-----------------------------------------------------------------------------
Serve(h) == \/ \E q \in Queries, pid \in {Nobody} \cup PIDs : Receive(h, q, pid)
            \/ \E pid \in PIDs : PostKill(h, pid)
            \/ Reply(h) \/ Act(h) \/ Block(h) \/ BlockNext(h) \/ Record(h)
            \/ LookUp(h) \/ Ask(h)

Next == \/ \E h \in Handlers : Serve(h)
        \/ \E what \in pending : AppendLine(what)
        \/ Stop \/ Start

Spec == Init /\ [][Next]_vars

-----------------------------------------------------------------------------
(* The commands that the copilot's own help and answers tell the operator  *)
(* to type (main.go:1464 and 1327), with what each is meant to do: trust   *)
(* of a process by its PID among them.                                     *)
TrustByPID == {<<<<"trust", "pid", n>>, Command("trust PID", n)>> : n \in PIDs}
Helped ==
       {<<<<do, n>>, Command(do, n)>> : do \in {"resume", "pause", "kill"}, n \in PIDs}
  \cup {<<<<"resume", "pid", n>>, Command("resume", n)>> : n \in PIDs}
  \cup {<<<<"block", "all", "below", n>>, Command("block", n)>> : n \in Bounds}
  \cup {<<<<"trust", "python3">>, Command("trust", "python3")>>,
        <<<<"show", "paused">>, Command("show", "paused")>>,
        <<<<"show", "action", "log">>, Command("show", "log")>>}
  \cup TrustByPID
Taking == {h \in Handlers : request[h].at = "act"}

(* Whatever rule might take it first, each is taken as it is meant, but    *)
(* for "trust PID n", which TrustsPID is about.                            *)
DoneAsMeant ==
  \A h \in Taking, meant \in Helped \ TrustByPID :
    request[h].query = meant[1] => request[h].command = meant[2]

(* The log shows what was done: once every action is recorded it holds as  *)
(* many as fit, none twice, and none is missing but for as many later ones *)
(* as fit, up to those of the requests that overlapped.                    *)
Recorded == \A h \in Handlers : request[h].at # "record"
ActionsLogged ==
  Recorded =>
    /\ Len(log) = Min({Len(done), LogBound})
    /\ IsInjective(log) /\ Range(log) \subseteq DOMAIN done
    /\ \A i \in DOMAIN done \ Range(log) : i < Len(done) - LogBound + Cardinality(Handlers)

(* Every conversation is on its way to the file, in it once, or lost to    *)
(* the disk or a stop; memory numbers those it has, across restarts, and   *)
(* has all that are or will be in the file.                                *)
Heard == [k \in DOMAIN conversations |-> conversations[k].what]
ConversationsKept ==
  /\ IsInjective(file)
  /\ Range(file) \cup pending \cup lost = 1 .. said
  /\ Range(file) \cap pending = {} /\ Range(file) \cap lost = {} /\ pending \cap lost = {}
  /\ \A k \in DOMAIN conversations : conversations[k].id = k
  /\ IsInjective(Heard)
  /\ up => Range(file) \cup pending \subseteq Range(Heard)

(* What a question does: nothing, the operator would think.  Not so.       *)
QuestionsDoNothing ==
  \A h \in Taking : request[h].query # <<>> /\ request[h].query[1] \in {"is", "did", "what"}
                    => request[h].command.do \in {"look up", "ask", "show"}

(* The exception: the code takes the number for the name of a process     *)
(* (main.go:1206-1217) and trusts that, so no PID is ever trusted.         *)
TrustsPID == \A h \in Taking, meant \in TrustByPID :
               request[h].query = meant[1] => request[h].command = meant[2]

(* The log is shown as "most recent first".                                *)
MostRecentFirst == Recorded => \A i, j \in DOMAIN log : i < j => log[i] > log[j]

=============================================================================
