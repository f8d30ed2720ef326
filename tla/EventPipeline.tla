--------------------------- MODULE EventPipeline ---------------------------
(***************************************************************************)
(* The way of an event from the tracepoints of bpf/sensor.c to the event   *)
(* processor, and the end of it: the ring buffer, the reader goroutine of  *)
(* internal/sensor/loader.go, the channel, the rate limit of processEvents *)
(* and the shutdown in main (cmd/sensor/main.go).                          *)
(*                                                                         *)
(* Events are numbered modulo Ids in the order in which the kernel submits *)
(* them.  What the processor does with an event is the subject of          *)
(* ResponseEngine and CausalGraph; here it just takes a while.             *)
(***************************************************************************)
EXTENDS Naturals, Sequences

CONSTANTS RingMax,  \* records the ring buffer holds (256 KiB in the code)
          ChanMax,  \* capacity of eventCh (1024)
          Ids       \* bound: events that can be told apart

ASSUME CapacityAssumption == RingMax \in Nat /\ ChanMax \in Nat \ {0}
ASSUME IdsAssumption      == Ids \in Nat /\ Ids > RingMax + ChanMax + 2

VARIABLES ring,       \* submitted records nobody has read yet
          next,       \* number of the next record to be submitted
          rpc, hand,  \* the reader: its place and the event it holds
          chan,       \* eventCh
          ppc, last,  \* the processor: its place and the event it took last
          tick,       \* ticker.C holds a tick
          server,     \* ListenAndServe is running
          main        \* the main goroutine

vars == <<ring, next, rpc, hand, chan, ppc, last, tick, server, main>>

Numbers == 0 .. Ids - 1
Succ(n) == (n + 1) % Ids

(* cancel() is the first thing main does after a signal.                   *)
Cancelled == main # "running"

Init == /\ ring = <<>> /\ next = 1
        /\ rpc = "check" /\ hand = <<>>
        /\ chan = <<>>
        /\ ppc = "select" /\ last = 0
        /\ tick = FALSE
        /\ server = TRUE
        /\ main = "running"

-----------------------------------------------------------------------------
(* A tracepoint reserves, fills and submits a record; when the ring is     *)
(* full the event is gone and nothing changes.  The programs stay attached *)
(* until the loader is closed.                                             *)
Submit ==
  /\ main # "closed" /\ Len(ring) < RingMax
  /\ ring' = Append(ring, next) /\ next' = Succ(next)
  /\ UNCHANGED <<rpc, hand, chan, ppc, last, tick, server, main>>

-----------------------------------------------------------------------------
(* ReadEvents.                                                             *)

Check ==
  /\ rpc = "check"
  /\ rpc' = IF Cancelled THEN "done" ELSE "read"
  /\ UNCHANGED <<ring, next, hand, chan, ppc, last, tick, server, main>>

(* ringReader.Read waits for a record.  Only Close would wake it up        *)
(* otherwise, and main closes the loader after the reader has returned.    *)
Read ==
  /\ rpc = "read" /\ ring # <<>>
  /\ hand' = <<Head(ring)>> /\ ring' = Tail(ring)
  /\ rpc' = "send"
  /\ UNCHANGED <<next, chan, ppc, last, tick, server, main>>

(* Mutant: an error ends the reader. *)
ReadGivesUp ==
  /\ rpc = "read"
  /\ rpc' = "done"
  /\ UNCHANGED <<ring, next, hand, chan, ppc, last, tick, server, main>>

(* Any other error is logged, and the loop goes on.                        *)
ReadFails ==
  /\ rpc = "read"
  /\ rpc' = "check"
  /\ UNCHANGED <<ring, next, hand, chan, ppc, last, tick, server, main>>

(* Mutant: an event is dropped when the channel is full. *)
SendOrDrop ==
  /\ rpc = "send"
  /\ chan' = IF Len(chan) < ChanMax THEN chan \o hand ELSE chan
  /\ hand' = <<>> /\ rpc' = "check"
  /\ UNCHANGED <<ring, next, ppc, last, tick, server, main>>

(* Mutant: the send does not watch the context. *)
SendBlocking ==
  /\ rpc = "send" /\ Len(chan) < ChanMax
  /\ chan' = chan \o hand
  /\ hand' = <<>> /\ rpc' = "check"
  /\ UNCHANGED <<ring, next, ppc, last, tick, server, main>>

(* select: into the channel as soon as there is room, or give up.          *)
Send ==
  /\ rpc = "send"
  /\ \/ Len(chan) < ChanMax /\ chan' = chan \o hand /\ rpc' = "check"
     \/ Cancelled /\ rpc' = "done" /\ UNCHANGED chan
  /\ hand' = <<>>
  /\ UNCHANGED <<ring, next, ppc, last, tick, server, main>>

Reader == Check \/ Read \/ Send

-----------------------------------------------------------------------------
(* processEvents.                                                          *)

(* select between the context and the channel: either, when both are ready.*)
Select ==
  /\ ppc = "select"
  /\ \/ Cancelled /\ ppc' = "done" /\ UNCHANGED <<chan, last>>
     \/ chan # <<>> /\ last' = Head(chan) /\ chan' = Tail(chan) /\ ppc' = "token"
  /\ UNCHANGED <<ring, next, rpc, hand, tick, server, main>>

(* Mutant: the branches of the select are swapped. *)
TokenInverted ==
  /\ ppc = "token"
  /\ tick' = FALSE
  /\ ppc' = IF tick THEN "select" ELSE "handle"
  /\ UNCHANGED <<ring, next, rpc, hand, chan, last, server, main>>

(* The event is handled if there is a tick, and dropped if there is none.  *)
Token ==
  /\ ppc = "token"
  /\ tick' = FALSE
  /\ ppc' = IF tick THEN "handle" ELSE "select"
  /\ UNCHANGED <<ring, next, rpc, hand, chan, last, server, main>>

Handle ==
  /\ ppc = "handle"
  /\ ppc' = "select"
  /\ UNCHANGED <<ring, next, rpc, hand, chan, last, tick, server, main>>

Processor == Select \/ Token \/ Handle

(* time.Ticker: a channel of one; ticks nobody waits for are lost.         *)
Tick ==
  /\ main # "closed" /\ ~tick
  /\ tick' = TRUE
  /\ UNCHANGED <<ring, next, rpc, hand, chan, ppc, last, server, main>>

-----------------------------------------------------------------------------
(* main.                                                                   *)

Signal ==
  /\ main = "running"
  /\ main' = "shutdown"
  /\ UNCHANGED <<ring, next, rpc, hand, chan, ppc, last, tick, server>>

(* server.Shutdown makes ListenAndServe return, waits for the handlers at  *)
(* most five seconds, and lets main go on to wg.Wait.                      *)
Shutdown ==
  /\ main = "shutdown"
  /\ main' = "wait" /\ server' = FALSE
  /\ UNCHANGED <<ring, next, rpc, hand, chan, ppc, last, tick>>

(* ListenAndServe fails (the address is taken): the monitor runs on.       *)
ServerFails ==
  /\ server
  /\ server' = FALSE
  /\ UNCHANGED <<ring, next, rpc, hand, chan, ppc, last, tick, main>>

(* wg.Wait, and the deferred ebpfLoader.Close.                             *)
Close ==
  /\ main = "wait" /\ rpc = "done" /\ ppc = "done" /\ ~server
  /\ main' = "closed"
  /\ UNCHANGED <<ring, next, rpc, hand, chan, ppc, last, tick, server>>

-----------------------------------------------------------------------------
Next == \/ Submit
        \/ Reader \/ ReadFails
        \/ Processor \/ Tick
        \/ Signal \/ Shutdown \/ ServerFails \/ Close

Spec == Init /\ [][Next]_vars

(* Goroutines that can go on do, the ticker ticks, and a read that could   *)
(* succeed again and again does so once.  Nobody owes a signal, a failing  *)
(* read or a failing server; nor does the machine owe an event.            *)
FairSpec == /\ Spec
            /\ WF_vars(Reader) /\ SF_vars(Read)
            /\ WF_vars(Processor) /\ WF_vars(Tick)
            /\ WF_vars(Shutdown) /\ WF_vars(Close)

(* A busy machine: somebody always execs, opens or connects again.         *)
BusySpec == FairSpec /\ WF_vars(Submit)

-----------------------------------------------------------------------------
(* Types: buffers within their capacities, the reader's hand full exactly  *)
(* while it is sending.                                                    *)
TypeOK == /\ ring \in Seq(Numbers) /\ Len(ring) <= RingMax
          /\ chan \in Seq(Numbers) /\ Len(chan) <= ChanMax
          /\ next \in Numbers /\ last \in Numbers
          /\ rpc \in {"check", "read", "send", "done"}
          /\ hand \in Seq(Numbers) /\ Len(hand) = IF rpc = "send" THEN 1 ELSE 0
          /\ ppc \in {"select", "token", "handle", "done"}
          /\ tick \in BOOLEAN /\ server \in BOOLEAN
          /\ main \in {"running", "shutdown", "wait", "closed"}

(* Everything under way, oldest first, from the event the processor took   *)
(* last to the one the kernel submits next.                                *)
Flight == <<last>> \o chan \o hand \o ring \o <<next>>

(* Between the kernel and the processor no event is lost, duplicated or    *)
(* overtaken, until a shutdown stops the reader.                           *)
InOrder == rpc # "done" =>
             \A i \in 1 .. Len(Flight) - 1 : Flight[i + 1] = Succ(Flight[i])

(* An event in the ring is read, whatever reads fail before, unless the    *)
(* monitor is told to stop.                                                *)
EventsAreRead ==
  \A n \in Numbers : (\E i \in 1 .. Len(ring) : ring[i] = n)
                       ~> (Cancelled \/ \A i \in 1 .. Len(ring) : ring[i] # n)

(* However many events the rate limit drops, some are always handled.      *)
SomeAreHandled == []<>(Cancelled \/ ppc = "handle")

(* A signal ends the monitor: reader, processor and server return, and the *)
(* eBPF programs are released.                                             *)
ShutdownCompletes == Cancelled ~> (main = "closed")

=============================================================================
