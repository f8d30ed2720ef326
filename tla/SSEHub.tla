------------------------------- MODULE SSEHub -------------------------------
(***************************************************************************)
(* sseHub and the /api/stream handler of cmd/sensor/main.go: every open    *)
(* dashboard has a buffered channel; the event processor and the narration *)
(* goroutines broadcast into all of them under the read lock; a handler    *)
(* whose client has gone removes its channel under the write lock and      *)
(* closes it after the unlock.                                             *)
(* Its names differ from those of EventPipeline, which feeds the hub, so   *)
(* that both can be extended together.                                     *)
(***************************************************************************)
EXTENDS Naturals

CONSTANTS Streams,       \* connections of dashboards; each has its channel
          Broadcasters,  \* goroutines that broadcast
          BufMax         \* capacity of a channel (64 in the code)

ASSUME BufAssumption == BufMax \in Nat \ {0}

VARIABLES subscribers,   \* the hub's map
          closed,        \* channels that have been closed
          buf,           \* how many messages each channel holds
          spc,           \* the stream handlers
          bpc, todo      \* the broadcasters: place, channels still to serve

hubVars == <<subscribers, closed, buf, spc, bpc, todo>>

HubInit == /\ subscribers = {} /\ closed = {}
           /\ buf = [s \in Streams |-> 0]
           /\ spc = [s \in Streams |-> "new"]
           /\ bpc = [b \in Broadcasters |-> "idle"]
           /\ todo = [b \in Broadcasters |-> {}]

(* sync.RWMutex: a waiting writer lets no new reader in.                   *)
Readers == {b \in Broadcasters : bpc[b] = "send"}
Writers == {s \in Streams : spc[s] \in {"subscribe", "unsubscribe"}}

StreamGoes(s, place)  == spc' = [spc EXCEPT ![s] = place]
BroadcasterGoes(b, place) == bpc' = [bpc EXCEPT ![b] = place]

-----------------------------------------------------------------------------
(* /api/stream.                                                            *)

Connect(s) ==
  /\ spc[s] = "new"
  /\ StreamGoes(s, "subscribe")
  /\ UNCHANGED <<subscribers, closed, buf, bpc, todo>>

Subscribe(s) ==
  /\ spc[s] = "subscribe" /\ Readers = {}
  /\ subscribers' = subscribers \cup {s}
  /\ StreamGoes(s, "live")
  /\ UNCHANGED <<closed, buf, bpc, todo>>

(* A message is written to the client, as fast as the client reads.        *)
Deliver(s) ==
  /\ spc[s] = "live" /\ buf[s] > 0
  /\ buf' = [buf EXCEPT ![s] = @ - 1]
  /\ UNCHANGED <<subscribers, closed, spc, bpc, todo>>

(* The client is gone: r.Context() is done.                                *)
Disconnect(s) ==
  /\ spc[s] = "live"
  /\ StreamGoes(s, "unsubscribe")
  /\ UNCHANGED <<subscribers, closed, buf, bpc, todo>>

(* Mutant: the lock is not taken. *)
UnsubscribeUnlocked(s) ==
  /\ spc[s] = "unsubscribe"
  /\ subscribers' = subscribers \ {s}
  /\ StreamGoes(s, "close")
  /\ UNCHANGED <<closed, buf, bpc, todo>>

Unsubscribe(s) ==
  /\ spc[s] = "unsubscribe" /\ Readers = {}
  /\ subscribers' = subscribers \ {s}
  /\ StreamGoes(s, "close")
  /\ UNCHANGED <<closed, buf, bpc, todo>>

CloseChannel(s) ==
  /\ spc[s] = "close"
  /\ closed' = closed \cup {s}
  /\ StreamGoes(s, "gone")
  /\ UNCHANGED <<subscribers, buf, bpc, todo>>

Stream(s) == Subscribe(s) \/ Unsubscribe(s) \/ CloseChannel(s)

-----------------------------------------------------------------------------
(* broadcast.                                                              *)

Broadcast(b) ==
  /\ bpc[b] = "idle"
  /\ BroadcasterGoes(b, "lock")
  /\ UNCHANGED <<subscribers, closed, buf, spc, todo>>

RLock(b) ==
  /\ bpc[b] = "lock" /\ Writers = {}
  /\ todo' = [todo EXCEPT ![b] = subscribers]
  /\ BroadcasterGoes(b, "send")
  /\ UNCHANGED <<subscribers, closed, buf, spc>>

(* Mutant: the send waits for a slow client. *)
SendToBlocking(b, s) ==
  /\ bpc[b] = "send" /\ s \in todo[b]
  /\ buf[s] < BufMax
  /\ buf' = [buf EXCEPT ![s] = @ + 1]
  /\ todo' = [todo EXCEPT ![b] = @ \ {s}]
  /\ UNCHANGED <<subscribers, closed, spc, bpc>>

(* Drop if slow.                                                           *)
SendTo(b, s) ==
  /\ bpc[b] = "send" /\ s \in todo[b]
  /\ buf' = [buf EXCEPT ![s] = IF @ < BufMax THEN @ + 1 ELSE @]
  /\ todo' = [todo EXCEPT ![b] = @ \ {s}]
  /\ UNCHANGED <<subscribers, closed, spc, bpc>>

RUnlock(b) ==
  /\ bpc[b] = "send" /\ todo[b] = {}
  /\ BroadcasterGoes(b, "idle")
  /\ UNCHANGED <<subscribers, closed, buf, spc, todo>>

Broadcaster(b) == RLock(b) \/ (\E s \in Streams : SendTo(b, s)) \/ RUnlock(b)

-----------------------------------------------------------------------------
HubNext == \/ \E s \in Streams : Connect(s) \/ Deliver(s) \/ Disconnect(s) \/ Stream(s)
           \/ \E b \in Broadcasters : Broadcast(b) \/ Broadcaster(b)

HubSpec == HubInit /\ [][HubNext]_hubVars

(* Goroutines that can go on do; clients owe nothing, neither reading nor  *)
(* leaving, and nobody owes a broadcast.                                   *)
HubFairSpec == /\ HubSpec
               /\ \A s \in Streams : WF_hubVars(Stream(s))
               /\ \A b \in Broadcasters : WF_hubVars(Broadcaster(b))

-----------------------------------------------------------------------------
(* Types: no channel ever holds more than its capacity.                    *)
HubTypeOK == /\ subscribers \subseteq Streams /\ closed \subseteq Streams
             /\ buf \in [Streams -> 0 .. BufMax]
             /\ spc \in [Streams -> {"new", "subscribe", "live", "unsubscribe", "close", "gone"}]
             /\ bpc \in [Broadcasters -> {"idle", "lock", "send"}]
             /\ todo \in [Broadcasters -> SUBSET Streams]

(* A send on a closed channel would panic: whatever a broadcaster is still *)
(* to serve is open, however clients come and go meanwhile.                *)
NeverSendOnClosed == \A b \in Broadcasters : todo[b] \cap closed = {}

(* A slow or dead client never holds up the event processor.               *)
BroadcastReturns == \A b \in Broadcasters : bpc[b] = "lock" ~> bpc[b] = "idle"

(* A client that leaves is forgotten, however busy the hub is.             *)
LeavingCompletes == \A s \in Streams : spc[s] = "unsubscribe" ~> s \in closed

=============================================================================
