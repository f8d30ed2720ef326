--------------------------- MODULE DeliveryProofs ---------------------------
(***************************************************************************)
(* An event's way from the kernel to the dashboards.                       *)
(*                                                                         *)
(* EventPipeline, for any capacities of the ring buffer and of the         *)
(* channel: buffers stay within them, and no event is lost, duplicated or  *)
(* overtaken between the kernel and the processor.  Every step leaves the  *)
(* sequence of what is under way as it is, extends it at the kernel's end  *)
(* or shortens it at the processor's.                                      *)
(*                                                                         *)
(* SSEHub, for any number of dashboards, broadcasters and buffer places:   *)
(* channels keep within their capacity, and no broadcaster ever sends on a *)
(* closed channel.                                                         *)
(*                                                                         *)
(* WireFormat, for any values, names, addresses and leftovers and whatever *)
(* reads fail: the header of a record arrives as the tracepoint saw it,    *)
(* and nothing that was left over is taken for a port or a write.          *)
(* The place of a field is a recursive function; the table that satisfies  *)
(* its equation is given, so that the equation can be used.                *)
(***************************************************************************)
EXTENDS EventPipeline, SSEHub, WireFormat, SequenceTheorems, TLAPS

(* The successor of a number is one.                                       *)
LEMMA SuccTyped == /\ \A n \in Numbers : Succ(n) \in Numbers
                   /\ 0 \in Numbers /\ 1 \in Numbers /\ Succ(0) = 1
<1>1. Ids \in Nat /\ Ids > 2
  BY IdsAssumption, CapacityAssumption
<1>2. ASSUME NEW n \in Nat, n < Ids PROVE (n + 1) % Ids \in 0 .. Ids - 1
  BY <1>1, <1>2
<1>3. (0 + 1) % Ids = 1
  BY <1>1
<1>4. QED
  BY <1>1, <1>2, <1>3 DEF Numbers, Succ

(* Initially everything is empty.                                          *)
LEMMA TypedInit == Init => TypeOK
<1>1. <<>> \in Seq(Numbers) /\ Len(<<>>) = 0
  BY EmptySeq
<1>2. 0 <= RingMax /\ 0 <= ChanMax
  BY CapacityAssumption
<1>3. ASSUME Init
      PROVE  /\ ring \in Seq(Numbers) /\ Len(ring) <= RingMax
             /\ chan \in Seq(Numbers) /\ Len(chan) <= ChanMax
             /\ hand \in Seq(Numbers) /\ Len(hand) = 0
  BY <1>1, <1>2, <1>3 DEF Init
<1>4. QED
  BY <1>3, SuccTyped DEF Init, TypeOK

(* Every step keeps buffers within their capacities.                       *)
LEMMA TypedNext == TypeOK /\ [Next]_vars => TypeOK'
<1> SUFFICES ASSUME TypeOK, [Next]_vars PROVE TypeOK'
  OBVIOUS
<1> USE CapacityAssumption DEF TypeOK
<1>e. <<>> \in Seq(Numbers) /\ Len(<<>>) = 0
  BY EmptySeq
<1>l. Len(ring) \in Nat /\ Len(chan) \in Nat
  BY LenProperties
<1>1. CASE Submit
  <2>1. ring' \in Seq(Numbers) /\ Len(ring') = Len(ring) + 1
    BY <1>1 DEF Submit
  <2>2. QED
    BY <1>1, <1>l, <2>1, SuccTyped DEF Submit
<1>2. CASE Check
  BY <1>2 DEF Check
<1>3. CASE Read
  <2>1. /\ Tail(ring) \in Seq(Numbers) /\ Len(Tail(ring)) = Len(ring) - 1
        /\ Head(ring) \in Numbers
    BY <1>3, HeadTailProperties DEF Read
  <2>2. QED
    BY <1>3, <1>l, <2>1 DEF Read
<1>4. CASE ReadFails
  BY <1>4 DEF ReadFails
<1>5. CASE Send
  <2>1. chan \in Seq(Numbers) /\ hand \in Seq(Numbers) /\ Len(hand) = 1
    BY <1>5 DEF Send
  <2>2. chan \o hand \in Seq(Numbers) /\ Len(chan \o hand) = Len(chan) + 1
    BY <2>1, ConcatProperties
  <2>3. /\ rpc' \in {"check", "done"} /\ hand' = <<>>
        /\ chan' = chan \/ (Len(chan) < ChanMax /\ chan' = chan \o hand)
    BY <1>5 DEF Send
  <2>4. chan' \in Seq(Numbers) /\ Len(chan') <= ChanMax
    <3>1. CASE chan' = chan
      BY <3>1
    <3>2. CASE Len(chan) < ChanMax /\ chan' = chan \o hand
      <4>1. ChanMax \in Nat /\ Len(chan) \in Nat
        BY <1>l
      <4>2. Len(chan) + 1 <= ChanMax
        BY <3>2, <4>1
      <4>3. QED
        BY <2>2, <3>2, <4>2
    <3>3. QED
      BY <2>3, <3>1, <3>2
  <2>5. QED
    BY <1>5, <1>e, <2>3, <2>4 DEF Send
<1>6. CASE Select
  <2>1. chan # <<>> => /\ Tail(chan) \in Seq(Numbers) /\ Len(Tail(chan)) = Len(chan) - 1
                       /\ Head(chan) \in Numbers
    BY HeadTailProperties
  <2>2. /\ chan' \in Seq(Numbers) /\ Len(chan') <= ChanMax /\ last' \in Numbers
        /\ ppc' \in {"done", "token"}
    <3>1. CASE UNCHANGED <<chan, last>> /\ ppc' = "done"
      BY <3>1
    <3>2. CASE chan # <<>> /\ last' = Head(chan) /\ chan' = Tail(chan) /\ ppc' = "token"
      <4>1. ChanMax \in Nat /\ Len(chan) \in Nat
        BY <1>l
      <4>2. Len(chan) - 1 <= ChanMax
        BY <4>1
      <4>3. QED
        BY <2>1, <3>2, <4>2
    <3>3. QED
      BY <1>6, <3>1, <3>2 DEF Select
  <2>3. QED
    BY <1>6, <2>2 DEF Select
<1>7. CASE Token
  BY <1>7 DEF Token
<1>8. CASE Handle \/ Tick
  BY <1>8 DEF Handle, Tick
<1>9. CASE Signal \/ Shutdown \/ ServerFails \/ Close
  BY <1>9 DEF Signal, Shutdown, ServerFails, Close
<1>10. CASE UNCHANGED vars
  BY <1>10 DEF vars
<1>11. QED
  BY <1>1, <1>2, <1>3, <1>4, <1>5, <1>6, <1>7, <1>8, <1>9, <1>10 DEF Next, Reader, Processor

(* Buffers stay within their capacities.                                   *)
THEOREM PipelineTyped == Spec => []TypeOK
BY TypedInit, TypedNext, PTL DEF Spec

-----------------------------------------------------------------------------
(* A sequence of consecutive events.                                       *)
Chain(s) == \A i \in 1 .. Len(s) - 1 : s[i + 1] = Succ(s[i])

Seqs == Seq(Numbers)

(* A chain goes on with the successor of its last event.                   *)
LEMMA ChainGrows ==
  ASSUME NEW s \in Seqs, NEW n \in Numbers, Chain(s \o <<n>>)
  PROVE  Chain((s \o <<n>>) \o <<Succ(n)>>)
<1>1. /\ Len(s) \in Nat
      /\ s \o <<n>> \in Seqs /\ Len(s \o <<n>>) = Len(s) + 1 /\ (s \o <<n>>)[Len(s) + 1] = n
  BY ConcatProperties, LenProperties DEF Seqs
<1> DEFINE t == s \o <<n>>
           u == t \o <<Succ(n)>>
<1>2. /\ Len(u) = Len(t) + 1 /\ u[Len(t) + 1] = Succ(n)
      /\ \A i \in 1 .. Len(t) : u[i] = t[i]
  BY <1>1, SuccTyped, ConcatProperties DEF Seqs
<1> HIDE DEF t, u
<1>3. ASSUME NEW i \in 1 .. Len(u) - 1 PROVE u[i + 1] = Succ(u[i])
  <2>1. CASE i = Len(t)
    BY <1>1, <1>2, <2>1 DEF t
  <2>2. CASE i # Len(t)
    BY <1>1, <1>2, <2>2 DEF Chain, t
  <2>3. QED
    BY <2>1, <2>2
<1>4. QED
  BY <1>3 DEF Chain, u, t

(* What follows the first event of a chain is a chain.                     *)
LEMMA ChainShrinks ==
  ASSUME NEW s \in Seqs, NEW n \in Numbers, Chain(<<n>> \o s)
  PROVE  Chain(s)
<1>1. /\ Len(s) \in Nat /\ Len(<<n>> \o s) = 1 + Len(s)
      /\ \A i \in 1 .. Len(s) : (<<n>> \o s)[i + 1] = s[i]
  BY ConcatProperties, LenProperties DEF Seqs
<1>2. QED
  BY <1>1 DEF Chain

(* Where the brackets are does not matter: stated of named equalities, so  *)
(* that a prover need not search for instances of associativity.           *)
Associates(s, t, u) == s \o t \o u = s \o (t \o u)

Rebrackets(v, w, x, y, z) == v \o w \o x \o y \o z = v \o (w \o (x \o (y \o z)))

(* Concatenation of sequences of events is associative.                    *)
LEMMA AllAssociate == \A s, t, u \in Seqs : s \o t \in Seqs /\ Associates(s, t, u)
BY ConcatAssociative, ConcatProperties DEF Seqs, Associates

(* Five sequences, bracketed from the left or from the right.              *)
LEMMA AllRebracket == \A v, w, x, y, z \in Seqs : Rebrackets(v, w, x, y, z)
<1> SUFFICES ASSUME NEW v \in Seqs, NEW w \in Seqs, NEW x \in Seqs, NEW y \in Seqs, NEW z \in Seqs
             PROVE  Rebrackets(v, w, x, y, z)
  OBVIOUS
<1>1. v \o w \in Seqs /\ v \o w \o x \in Seqs /\ y \o z \in Seqs /\ x \o (y \o z) \in Seqs
  BY ConcatProperties DEF Seqs
<1>2. /\ Associates(v \o w \o x, y, z)
      /\ Associates(v \o w, x, y \o z)
      /\ Associates(v, w, x \o (y \o z))
  BY <1>1, AllAssociate
<1>3. QED
  BY <1>2 DEF Associates, Rebrackets

(* A sequence is its head and its tail.                                    *)
LEMMA HeadThenTail == ASSUME NEW s \in Seqs, s # <<>> PROVE s = <<Head(s)>> \o Tail(s)
BY HeadTailProperties, SeqEqual, ConcatProperties, LenProperties, EmptySeq DEF Seqs

(* The reader never resumes.                                               *)
LEMMA ReaderEnds == [Next]_vars /\ rpc' # "done" => rpc # "done"
BY DEF Next, Reader, Processor, Submit, Check, Read, ReadFails, Send, Select, Token, Handle,
       Tick, Signal, Shutdown, ServerFails, Close, vars

(* The processor takes the oldest event under way, the kernel adds a       *)
(* younger one, and all other steps leave the order alone.                 *)
LEMMA InOrderNext == TypeOK /\ InOrder /\ [Next]_vars => InOrder'
<1> SUFFICES ASSUME TypeOK, InOrder, [Next]_vars, rpc' # "done"
             PROVE  Chain(Flight')
  BY DEF InOrder, Chain
<1>0. Chain(Flight)
  BY ReaderEnds DEF InOrder, Chain
<1>t. /\ ring \in Seqs /\ chan \in Seqs /\ hand \in Seqs
      /\ next \in Numbers /\ last \in Numbers
  BY DEF TypeOK, Seqs
<1>e. <<>> \in Seqs
  BY DEF Seqs
<1>1. CASE Submit
  <2>1. ring' = ring \o <<next>>
    BY <1>1, <1>t, AppendIsConcat DEF Submit, Seqs
  <2>2. Flight' = <<last>> \o chan \o hand \o (ring \o <<next>>) \o <<Succ(next)>>
    BY <1>1, <2>1 DEF Submit, Flight
  <2>3. <<last>> \o chan \o hand \in Seqs /\ <<next>> \in Seqs
    BY <1>t, ConcatProperties DEF Seqs
  <2>4. <<last>> \o chan \o hand \o (ring \o <<next>>) = Flight
    BY <1>t, <2>3, ConcatAssociative DEF Flight, Seqs
  <2>5. <<last>> \o chan \o hand \o ring \in Seqs
    BY <1>t, ConcatProperties DEF Seqs
  <2>6. Chain((<<last>> \o chan \o hand \o ring \o <<next>>) \o <<Succ(next)>>)
    BY <1>0, <1>t, <2>5, ChainGrows DEF Flight
  <2>7. QED
    BY <2>2, <2>4, <2>6 DEF Flight
<1>2. CASE Read
  <2>1. Head(ring) \in Numbers /\ Tail(ring) \in Seqs
    BY <1>2, <1>t, HeadTailProperties DEF Read, Seqs
  <2>2. hand = <<>>
    BY <1>2, EmptySeq DEF Read, TypeOK
  <2>3. ring = <<Head(ring)>> \o Tail(ring)
    BY <1>2, <1>t, HeadThenTail DEF Read
  <2>4. Flight' = Flight
    <3>1. Flight' = <<last>> \o chan \o <<Head(ring)>> \o Tail(ring) \o <<next>>
      BY <1>2 DEF Read, Flight
    <3>2. Flight = <<last>> \o chan \o <<>> \o (<<Head(ring)>> \o Tail(ring)) \o <<next>>
      BY <2>2, <2>3 DEF Flight
    <3>3. <<last>> \o chan \o <<>> = <<last>> \o chan
      BY <1>t, ConcatEmptySeq, ConcatProperties DEF Seqs
    <3>4. QED
      BY <1>t, <2>1, <3>1, <3>2, <3>3, ConcatAssociative, ConcatProperties DEF Seqs
  <2>5. QED
    BY <1>0, <2>4
<1>3. CASE Send
  <2>1. chan' = chan \o hand /\ hand' = <<>>
    BY <1>3 DEF Send
  <2>2. Flight' = <<last>> \o (chan \o hand) \o <<>> \o ring \o <<next>>
    BY <1>3, <2>1 DEF Send, Flight
  <2>3. <<last>> \o (chan \o hand) = <<last>> \o chan \o hand
    BY <1>t, ConcatAssociative DEF Seqs
  <2>4. (<<last>> \o chan \o hand) \o <<>> = <<last>> \o chan \o hand
    BY <1>t, ConcatEmptySeq, ConcatProperties DEF Seqs
  <2>5. QED
    BY <1>0, <2>2, <2>3, <2>4 DEF Flight
<1>4. CASE Select /\ UNCHANGED <<chan, last>>
  BY <1>0, <1>4 DEF Select, Flight
<1>5. CASE Select /\ chan # <<>> /\ last' = Head(chan) /\ chan' = Tail(chan)
  <2>1. Head(chan) \in Numbers /\ Tail(chan) \in Seqs /\ chan = <<Head(chan)>> \o Tail(chan)
    BY <1>5, <1>t, HeadTailProperties, HeadThenTail DEF Seqs
  <2>2. Flight' = <<Head(chan)>> \o Tail(chan) \o hand \o ring \o <<next>>
    BY <1>5 DEF Select, Flight
  <2>3. Flight' = <<Head(chan)>> \o (Tail(chan) \o (hand \o (ring \o <<next>>)))
    <3>1. <<Head(chan)>> \in Seqs /\ <<next>> \in Seqs
      BY <1>t, <2>1 DEF Seqs
    <3>2. QED
      <4>1. Rebrackets(<<Head(chan)>>, Tail(chan), hand, ring, <<next>>)
        BY <1>t, <2>1, <3>1, AllRebracket
      <4>2. QED
        BY <2>2, <4>1 DEF Rebrackets
  <2>4. hand \o (ring \o <<next>>) \in Seqs /\ <<Head(chan)>> \in Seqs
    BY <1>t, <2>1, ConcatProperties DEF Seqs
  <2>5. Flight' = chan \o (hand \o (ring \o <<next>>))
    BY <2>1, <2>3, <2>4, ConcatAssociative DEF Seqs
  <2>6. Flight = <<last>> \o (chan \o (hand \o (ring \o <<next>>)))
    <3>1. <<last>> \in Seqs /\ <<next>> \in Seqs
      BY <1>t DEF Seqs
    <3>2. QED
      <4>1. Rebrackets(<<last>>, chan, hand, ring, <<next>>)
        BY <1>t, <3>1, AllRebracket
      <4>2. QED
        BY <4>1 DEF Rebrackets, Flight
  <2>7. QED
    <3>1. chan \o (hand \o (ring \o <<next>>)) \in Seqs
      BY <1>t, ConcatProperties DEF Seqs
    <3>2. QED
      BY <1>0, <1>t, <2>5, <2>6, <3>1, ChainShrinks
<1>6. CASE UNCHANGED <<last, chan, hand, ring, next>>
  BY <1>0, <1>6 DEF Flight
<1>7. QED
  BY <1>1, <1>2, <1>3, <1>4, <1>5, <1>6
  DEF Next, Reader, Processor, Check, ReadFails, Select, Token, Handle, Tick, Signal, Shutdown,
      ServerFails, Close, vars

(* Between the kernel and the processor no event is lost, duplicated or    *)
(* overtaken.                                                              *)
THEOREM EventsInOrder == Spec => []InOrder
<1>1. Init => InOrder
  <2>1. <<0>> \in Seqs /\ <<1>> \in Seqs /\ Len(<<0>>) = 1 /\ Len(<<1>>) = 1
    BY SuccTyped DEF Seqs
  <2>2. <<0>> \o <<>> = <<0>>
    BY <2>1, ConcatEmptySeq DEF Seqs
  <2>3. /\ Len(<<0>> \o <<1>>) = 2
        /\ (<<0>> \o <<1>>)[1] = 0 /\ (<<0>> \o <<1>>)[2] = 1
    BY <2>1, ConcatProperties DEF Seqs
  <2>4. ASSUME Init PROVE Flight = <<0>> \o <<1>>
    <3>1. Flight = <<0>> \o <<>> \o <<>> \o <<>> \o <<1>>
      BY <2>4 DEF Init, Flight
    <3>2. QED
      BY <2>2, <3>1
  <2> DEFINE s == <<0>> \o <<1>>
  <2> HIDE DEF s
  <2>5. Chain(s)
    <3>1. Len(s) = 2 /\ s[1] = 0 /\ s[2] = 1
      BY <2>3 DEF s
    <3>2. ASSUME NEW i \in 1 .. Len(s) - 1 PROVE s[i + 1] = Succ(s[i])
      <4>1. i = 1
        BY <3>1, <3>2
      <4>2. QED
        BY <3>1, <4>1, SuccTyped
    <3>3. QED
      BY <3>2 DEF Chain
  <2>6. QED
    BY <2>4, <2>5 DEF s, Chain, InOrder
<1>2. QED
  BY TypedInit, TypedNext, InOrderNext, <1>1, PTL DEF Spec

-----------------------------------------------------------------------------
(* The hub.                                                                *)

(* The hub's map holds exactly the channels of the handlers that are       *)
(* between their two critical sections; closed channels are out of it; and *)
(* whoever holds the read lock is serving channels of the map.             *)
MapIsLive    == subscribers = {s \in Streams : spc[s] \in {"live", "unsubscribe"}}
ClosedIsGone == \A s \in closed : spc[s] = "gone"
ServesMap    == \A b \in Broadcasters : /\ todo[b] \subseteq subscribers
                                        /\ bpc[b] # "send" => todo[b] = {}
HubInv == HubTypeOK /\ MapIsLive /\ ClosedIsGone /\ ServesMap

(* Initially there is nobody.                                              *)
LEMMA HubInvInit == HubInit => HubInv
BY BufAssumption DEF HubInit, HubInv, HubTypeOK, MapIsLive, ClosedIsGone, ServesMap

(* Every step keeps the invariant.                                         *)
LEMMA HubInvNext == HubInv /\ [HubNext]_hubVars => HubInv'
<1> SUFFICES ASSUME HubInv, [HubNext]_hubVars PROVE HubInv'
  OBVIOUS
<1> USE BufAssumption DEF HubInv, HubTypeOK, MapIsLive, ClosedIsGone, ServesMap
<1>1. ASSUME NEW s \in Streams, Connect(s) PROVE HubInv'
  BY <1>1 DEF Connect, StreamGoes
\* A writer waits until nobody holds the read lock: nobody is serving then.
<1>2. ASSUME NEW s \in Streams, Subscribe(s) PROVE HubInv'
  <2>1. \A b \in Broadcasters : todo[b] = {}
    BY <1>2 DEF Subscribe, Readers
  <2>2. QED
    BY <1>2, <2>1 DEF Subscribe, StreamGoes
<1>3. ASSUME NEW s \in Streams, Deliver(s) PROVE HubInv'
  BY <1>3 DEF Deliver
<1>4. ASSUME NEW s \in Streams, Disconnect(s) PROVE HubInv'
  BY <1>4 DEF Disconnect, StreamGoes
<1>5. ASSUME NEW s \in Streams, Unsubscribe(s) PROVE HubInv'
  <2>1. \A b \in Broadcasters : todo[b] = {}
    BY <1>5 DEF Unsubscribe, Readers
  <2>2. QED
    BY <1>5, <2>1 DEF Unsubscribe, StreamGoes
<1>6. ASSUME NEW s \in Streams, CloseChannel(s) PROVE HubInv'
  BY <1>6 DEF CloseChannel, StreamGoes
<1>7. ASSUME NEW b \in Broadcasters, Broadcast(b) PROVE HubInv'
  BY <1>7 DEF Broadcast, BroadcasterGoes
<1>8. ASSUME NEW b \in Broadcasters, RLock(b) PROVE HubInv'
  BY <1>8 DEF RLock, BroadcasterGoes
<1>9. ASSUME NEW b \in Broadcasters, NEW s \in Streams, SendTo(b, s) PROVE HubInv'
  <2>1. buf' \in [Streams -> 0 .. BufMax]
    BY <1>9 DEF SendTo
  <2>2. QED
    BY <1>9, <2>1 DEF SendTo
<1>10. ASSUME NEW b \in Broadcasters, RUnlock(b) PROVE HubInv'
  BY <1>10 DEF RUnlock, BroadcasterGoes
<1>11. CASE UNCHANGED hubVars
  BY <1>11 DEF hubVars
<1>12. QED
  BY <1>1, <1>2, <1>3, <1>4, <1>5, <1>6, <1>7, <1>8, <1>9, <1>10, <1>11
  DEF HubNext, Stream, Broadcaster

(* No channel ever holds more than its capacity.                           *)
THEOREM HubTyped == HubSpec => []HubTypeOK
BY HubInvInit, HubInvNext, PTL DEF HubSpec, HubInv

(* No broadcaster ever sends on a closed channel.                          *)
THEOREM HubNeverPanics == HubSpec => []NeverSendOnClosed
<1>1. HubInv => NeverSendOnClosed
  BY DEF HubInv, HubTypeOK, MapIsLive, ClosedIsGone, ServesMap, NeverSendOnClosed
<1>2. QED
  BY HubInvInit, HubInvNext, <1>1, PTL DEF HubSpec

-----------------------------------------------------------------------------
(* WireFormat.                                                             *)

(* The gaps struct event needs before its fields and at its end.           *)
LEMMA Padding ==
  /\ \A a \in {1, 2, 4, 8} : Upto(0, a) = 0
  /\ Upto(4, 4) = 0 /\ Upto(8, 4) = 0 /\ Upto(12, 4) = 0 /\ Upto(16, 8) = 0
  /\ \A n \in Nat : Upto(n, 1) = 0
  /\ Upto(296, 4) = 0 /\ Upto(300, 4) = 0 /\ Upto(304, 2) = 0
  /\ Upto(306, 4) = 2 /\ Upto(312, 2) = 0 /\ Upto(314, 4) = 2 /\ Upto(320, 8) = 0
  BY DEF Upto

(* The places the compiler gives to the fields of struct event.            *)
LEMMA StructPlaces ==
  StructPlace = <<0, 4, 8, 12, 16, 24, 40, 296, 300, 304, 308, 312, 316>>
<1> DEFINE Of(f) == [i \in 1 .. 13 |->
                       IF i = 1 THEN 0
                       ELSE LET end == f[i - 1] + StructEvent[i - 1].width
                            IN  end + Upto(end, StructEvent[i].align)]
           W == <<0, 4, 8, 12, 16, 24, 40, 296, 300, 304, 308, 312, 316>>
<1>1. ASSUME NEW f, f[1] = 0,
             \A i \in 2 .. 13 : LET end == f[i - 1] + StructEvent[i - 1].width
                                IN  f[i] = end + Upto(end, StructEvent[i].align)
      PROVE  /\ f[1] = 0 /\ f[2] = 4 /\ f[3] = 8 /\ f[4] = 12 /\ f[5] = 16 /\ f[6] = 24
             /\ f[7] = 40 /\ f[8] = 296 /\ f[9] = 300 /\ f[10] = 304 /\ f[11] = 308
             /\ f[12] = 312 /\ f[13] = 316
  BY <1>1, Padding DEF StructEvent, Field, TaskCommLen, MaxPayload
<1>2. \A i \in 2 .. 13 : LET end == W[i - 1] + StructEvent[i - 1].width
                         IN  W[i] = end + Upto(end, StructEvent[i].align)
  BY Padding DEF StructEvent, Field, TaskCommLen, MaxPayload
<1>3. W = Of(W)
  BY <1>2
<1>4. StructPlace = CHOOSE f : f = Of(f)
  BY DEF StructPlace
<1>5. StructPlace = Of(StructPlace)
  <2> HIDE DEF Of, W
  <2>1. QED
    BY <1>3, <1>4
<1>6. /\ StructPlace[1] = 0
      /\ \A i \in 2 .. 13 : LET end == StructPlace[i - 1] + StructEvent[i - 1].width
                            IN  StructPlace[i] = end + Upto(end, StructEvent[i].align)
  BY <1>5
<1>7. StructPlace = [i \in 1 .. 13 |-> StructPlace[i]]
  BY <1>5
<1>8. \A i \in 1 .. 13 : StructPlace[i] = W[i]
  BY <1>1, <1>6
<1>9. QED
  BY <1>7, <1>8

(* The places binary.Read takes the fields of RawEvent from.               *)
LEMMA RawPlaces ==
  RawPlace = <<0, 4, 8, 12, 16, 24, 40, 296, 300, 304, 306, 310, 312>>
<1> DEFINE Of(f) == [i \in 1 .. 13 |->
                       IF i = 1 THEN 0
                       ELSE LET end == f[i - 1] + RawEvent[i - 1].width
                            IN  end + Upto(end, RawEvent[i].align)]
           W == <<0, 4, 8, 12, 16, 24, 40, 296, 300, 304, 306, 310, 312>>
<1>1. ASSUME NEW f, f[1] = 0,
             \A i \in 2 .. 13 : LET end == f[i - 1] + RawEvent[i - 1].width
                                IN  f[i] = end + Upto(end, RawEvent[i].align)
      PROVE  /\ f[1] = 0 /\ f[2] = 4 /\ f[3] = 8 /\ f[4] = 12 /\ f[5] = 16 /\ f[6] = 24
             /\ f[7] = 40 /\ f[8] = 296 /\ f[9] = 300 /\ f[10] = 304 /\ f[11] = 306
             /\ f[12] = 310 /\ f[13] = 312
  BY <1>1, Padding DEF RawEvent, Packed, Field, TaskCommLen, MaxPayload
<1>2. \A i \in 2 .. 13 : LET end == W[i - 1] + RawEvent[i - 1].width
                         IN  W[i] = end + Upto(end, RawEvent[i].align)
  BY Padding DEF RawEvent, Packed, Field, TaskCommLen, MaxPayload
<1>3. W = Of(W)
  BY <1>2
<1>4. RawPlace = CHOOSE f : f = Of(f)
  BY DEF RawPlace
<1>5. RawPlace = Of(RawPlace)
  <2> HIDE DEF Of, W
  <2>1. QED
    BY <1>3, <1>4
<1>6. /\ RawPlace[1] = 0
      /\ \A i \in 2 .. 13 : LET end == RawPlace[i - 1] + RawEvent[i - 1].width
                            IN  RawPlace[i] = end + Upto(end, RawEvent[i].align)
  BY <1>5
<1>7. RawPlace = [i \in 1 .. 13 |-> RawPlace[i]]
  BY <1>5
<1>8. \A i \in 1 .. 13 : RawPlace[i] = W[i]
  BY <1>1, <1>6
<1>9. QED
  BY <1>7, <1>8

(* A byte of a field is found where the field lies.                        *)
LEMMA LayoutHolds ==
  ASSUME NEW fields, NEW old, NEW k \in 1 .. 13, NEW j \in 1 .. StructEvent[k].width
  PROVE  Layout(fields, old)[StructPlace[k] + j] = fields[StructEvent[k].name][j]
<1>1. Size = 320
  BY StructPlaces, Padding DEF Size, StructEvent, Field
<1>2. /\ \A i \in 1 .. 13 : StructPlace[i] \in 0 .. 316 /\ StructEvent[i].width \in 1 .. 256
      /\ \A i \in 1 .. 12 : StructPlace[i] + StructEvent[i].width <= StructPlace[i + 1]
      /\ StructPlace[13] + StructEvent[13].width = 320
  BY StructPlaces DEF StructEvent, Field, TaskCommLen, MaxPayload
<1>3. \A i, m \in 1 .. 13 : i < m => StructPlace[i] + StructEvent[i].width <= StructPlace[m]
  BY StructPlaces DEF StructEvent, Field, TaskCommLen, MaxPayload
<1> DEFINE p == StructPlace[k]
           w == StructEvent[k].width
           b == p + j
<1>4. p \in 0 .. 316 /\ w \in 1 .. 256 /\ j \in 1 .. w /\ p + w <= 320
  <2>1. p \in 0 .. 316 /\ w \in 1 .. 256
    BY <1>2
  <2>2. k = 13 => p + w = 320
    BY <1>2
  <2>3. k # 13 => p + w <= StructPlace[13]
    <3>1. k # 13 => k < 13 /\ 13 \in 1 .. 13
      OBVIOUS
    <3>2. QED
      BY <1>3, <3>1
  <2>4. StructPlace[13] = 316
    BY StructPlaces
  <2>5. \A x \in 0 .. 316, y \in 1 .. 256 : x + y = 320 \/ x + y <= 316 => x + y <= 320
    OBVIOUS
  <2> HIDE DEF p, w
  <2>6. p + w = 320 \/ p + w <= 316
    BY <2>2, <2>3, <2>4
  <2>7. j \in 1 .. w
    BY DEF w
  <2>8. QED
    BY <2>1, <2>5, <2>6, <2>7
<1>5. b \in 1 .. Size /\ b - p = j /\ b \in Nat /\ p < b /\ b <= p + w
  <2> HIDE DEF p, w
  <2>1. QED
    BY <1>1, <1>4
<1>6. Holders(b) = {k}
  <2>1. k \in Holders(b)
    BY <1>5 DEF Holders
  <2>2. ASSUME NEW i \in Holders(b) PROVE i = k
    <3> DEFINE q == StructPlace[i]
               v == StructEvent[i].width
    <3>1. i \in 1 .. 13 /\ q < b /\ b <= q + v
      BY <2>2 DEF Holders
    <3>2. q \in 0 .. 316 /\ v \in 1 .. 256
      BY <1>2, <3>1
    <3>3. (i < k => q + v <= p) /\ (k < i => p + w <= q)
      BY <1>3, <3>1
    <3> HIDE DEF p, w, q, v, b
    <3>4. ~(q + v <= p) /\ ~(p + w <= q)
      BY <1>4, <1>5, <3>1, <3>2
    <3>5. QED
      BY <3>1, <3>3, <3>4
  <2>3. QED
    BY <2>1, <2>2
<1>7. (CHOOSE i \in Holders(b) : TRUE) = k
  BY <1>6
<1>8. QED
  <2> HIDE DEF b
  <2>1. Layout(fields, old)[b] = fields[StructEvent[k].name][b - p]
    BY <1>5, <1>6, <1>7 DEF Layout
  <2>2. QED
    BY <1>5, <2>1 DEF b

(* Up to the port of a connection, binary.Read finds a field where the     *)
(* compiler has put it; where it looks for the flags, the family lies.     *)
LEMMA ReadAsWritten ==
  ASSUME record # <<>>
  PROVE  /\ Raw("EventType") = [j \in 1 .. 4 |-> record.fields["event_type"][j]]
         /\ Raw("PID")       = [j \in 1 .. 4 |-> record.fields["pid"][j]]
         /\ Raw("PPID")      = [j \in 1 .. 4 |-> record.fields["ppid"][j]]
         /\ Raw("UID")       = [j \in 1 .. 4 |-> record.fields["uid"][j]]
         /\ Raw("Comm")      = [j \in 1 .. TaskCommLen |-> record.fields["comm"][j]]
         /\ Raw("DstPort")   = [j \in 1 .. 2 |-> record.fields["dst_port"][j]]
         /\ Raw("Flags")[1]  = record.fields["sa_family"][1]
<1>1. ASSUME NEW k \in 1 .. 10
      PROVE  Raw(RawEvent[k].name) = [j \in 1 .. StructEvent[k].width |->
                                        record.fields[StructEvent[k].name][j]]
  <2> DEFINE f == CHOOSE i \in 1 .. 13 : RawEvent[i].name = RawEvent[k].name
  <2>1. f = k
    BY DEF RawEvent, Packed, Field
  <2>2. RawPlace[k] = StructPlace[k] /\ RawEvent[k].width = StructEvent[k].width
    <3>1. RawPlace[k] = StructPlace[k]
      BY StructPlaces, RawPlaces
    <3>2. RawEvent[k].width = StructEvent[k].width
      BY DEF RawEvent, StructEvent, Packed, Field
    <3>3. QED
      BY <3>1, <3>2
  <2>3. \A j \in 1 .. StructEvent[k].width :
           Layout(record.fields, record.old)[StructPlace[k] + j]
             = record.fields[StructEvent[k].name][j]
    <3>1. SUFFICES ASSUME NEW j \in 1 .. StructEvent[k].width
                   PROVE  Layout(record.fields, record.old)[StructPlace[k] + j]
                            = record.fields[StructEvent[k].name][j]
      OBVIOUS
    <3>2. k \in 1 .. 13
      OBVIOUS
    <3> DEFINE fields == record.fields
               old    == record.old
    <3> HIDE DEF fields, old
    <3>3. Layout(fields, old)[StructPlace[k] + j] = fields[StructEvent[k].name][j]
      BY <3>2, LayoutHolds
    <3>4. QED
      BY <3>3 DEF fields, old
  <2>4. Raw(RawEvent[k].name) = [j \in 1 .. RawEvent[k].width |->
                                   Layout(record.fields, record.old)[RawPlace[k] + j]]
    <3>1. Raw(RawEvent[k].name) = [j \in 1 .. RawEvent[f].width |->
                                     Layout(record.fields, record.old)[RawPlace[f] + j]]
      BY DEF Raw
    <3> HIDE DEF f
    <3>2. QED
      BY <2>1, <3>1
  <2>5. QED
    BY <2>2, <2>3, <2>4
<1>2. /\ RawEvent[1].name = "EventType" /\ StructEvent[1].name = "event_type" /\ StructEvent[1].width = 4
      /\ RawEvent[2].name = "PID" /\ StructEvent[2].name = "pid" /\ StructEvent[2].width = 4
      /\ RawEvent[3].name = "PPID" /\ StructEvent[3].name = "ppid" /\ StructEvent[3].width = 4
      /\ RawEvent[4].name = "UID" /\ StructEvent[4].name = "uid" /\ StructEvent[4].width = 4
      /\ RawEvent[6].name = "Comm" /\ StructEvent[6].name = "comm" /\ StructEvent[6].width = TaskCommLen
      /\ RawEvent[10].name = "DstPort" /\ StructEvent[10].name = "dst_port" /\ StructEvent[10].width = 2
  BY DEF RawEvent, StructEvent, Packed, Field
<1>3. {1, 2, 3, 4, 6, 10} \subseteq 1 .. 10
  OBVIOUS
<1>4. Raw("Flags")[1] = record.fields["sa_family"][1]
  <2> DEFINE f      == CHOOSE i \in 1 .. 13 : RawEvent[i].name = "Flags"
             fields == record.fields
             old    == record.old
  <2>1. f = 13 /\ RawEvent[13].width = 4 /\ 1 \in 1 .. 4 /\ RawPlace[13] = 312
    BY RawPlaces DEF RawEvent, Packed, Field
  <2>2. Raw("Flags") = [i \in 1 .. RawEvent[f].width |-> Layout(fields, old)[RawPlace[f] + i]]
    BY DEF Raw
  <2> HIDE DEF f, fields, old
  <2>3. Raw("Flags")[1] = Layout(fields, old)[312 + 1]
    BY <2>1, <2>2
  <2>4. /\ StructEvent[12].name = "sa_family" /\ StructEvent[12].width = 2
        /\ StructPlace[12] = 312 /\ 12 \in 1 .. 13 /\ 1 \in 1 .. 2
    BY StructPlaces DEF StructEvent, Field
  <2>5. Layout(fields, old)[StructPlace[12] + 1] = fields[StructEvent[12].name][1]
    BY <2>4, LayoutHolds
  <2>6. QED
    BY <2>3, <2>4, <2>5 DEF fields
<1>5. QED
  BY <1>1, <1>2, <1>3, <1>4

(* A string of nonzero bytes that is ended by a zero is read back without  *)
(* the zero and what follows it.                                           *)
LEMMA NullTermEnds ==
  ASSUME NEW name \in Seq(1 .. 255), NEW n \in Nat, Len(name) < n,
         NEW bytes, bytes = [i \in 1 .. n |-> bytes[i]],
         \A i \in 1 .. Len(name) : bytes[i] = name[i],
         bytes[Len(name) + 1] = 0
  PROVE  NullTerm(bytes) = name
<1> DEFINE end   == Len(name) + 1
           zeros == {i \in 1 .. Len(bytes) : bytes[i] = 0}
<1>1. Len(name) \in Nat /\ end \in 1 .. n /\ end - 1 = Len(name)
  OBVIOUS
<1>2. Len(bytes) = n
  OBVIOUS
<1>3. \A i \in 1 .. Len(name) : name[i] \in 1 .. 255
  BY ElementOfSeq
<1>4. end \in zeros /\ \A i \in zeros : end <= i
  <2>1. end \in zeros
    BY <1>1, <1>2
  <2>2. ASSUME NEW i \in zeros PROVE end <= i
    <3>1. i \in 1 .. n /\ bytes[i] = 0
      BY <1>2
    <3>2. ~(i <= Len(name))
      <4>1. i <= Len(name) => i \in 1 .. Len(name)
        BY <1>1, <3>1
      <4>2. i \in 1 .. Len(name) => bytes[i] \in 1 .. 255
        BY <1>3
      <4>3. ~(0 \in 1 .. 255)
        OBVIOUS
      <4>4. QED
        BY <3>1, <4>1, <4>2, <4>3
    <3>3. QED
      BY <1>1, <3>1, <3>2
  <2>3. QED
    BY <2>1, <2>2
<1>5. zeros \subseteq Nat
  BY <1>2
<1>6. Min(zeros) = end
  <2> HIDE DEF zeros, end
  <2>1. \A x \in zeros : (\A y \in zeros : x <= y) => x = end
    BY <1>1, <1>4, <1>5
  <2>2. QED
    BY <1>4, <2>1 DEF Min
<1>7. SubSeq(bytes, 1, Len(name)) = [i \in 1 .. Len(name) |-> bytes[i]]
  BY <1>1
<1>8. name = [i \in 1 .. Len(name) |-> name[i]]
  OBVIOUS
<1>9. [i \in 1 .. Len(name) |-> bytes[i]] = name
  BY <1>8
<1>10. NullTerm(bytes) = SubSeq(bytes, 1, Min(zeros) - 1)
  BY <1>4 DEF NullTerm
<1>11. QED
  BY <1>1, <1>6, <1>7, <1>9, <1>10

(* The name of a task ends where its zero is.                              *)
LEMMA CommEnds ==
  ASSUME NEW name \in Seq(1 .. 255), Len(name) < TaskCommLen
  PROVE  NullTerm(ZeroPadded(name, TaskCommLen)) = name
<1> DEFINE bytes == ZeroPadded(name, TaskCommLen)
           m     == Len(name)
<1>1. m \in Nat /\ m < 16 /\ TaskCommLen = 16
  BY LenProperties DEF TaskCommLen
<1>2. m + 1 \in 1 .. 16 /\ ~(m + 1 <= m) /\ \A i \in 1 .. m : i \in 1 .. 16 /\ i <= m
  <2> HIDE DEF m
  <2>1. QED
    BY <1>1
<1>3. bytes[m + 1] = 0 /\ \A i \in 1 .. m : bytes[i] = name[i]
  BY <1>1, <1>2 DEF ZeroPadded
<1>4. bytes = [i \in 1 .. 16 |-> bytes[i]]
  BY <1>1 DEF ZeroPadded
<1> HIDE DEF bytes
<1>5. NullTerm(bytes) = name
  BY <1>1, <1>3, <1>4, NullTermEnds
<1>6. QED
  BY <1>5 DEF bytes

(* What a record of the ring buffer carries: who did what, at most the     *)
(* port that was connected to, and no family where a file is opened.       *)
Carries(r, s) ==
  /\ s.type \in 1 .. 3 /\ s.comm \in Comms
  /\ r.fields["event_type"] = LittleEndian(s.type)
  /\ r.fields["pid"] = LittleEndian(s.pid)
  /\ r.fields["ppid"] = LittleEndian(s.ppid)
  /\ r.fields["uid"] = LittleEndian(s.uid)
  /\ r.fields["comm"] = ZeroPadded(s.comm, TaskCommLen)
  /\ \/ r.fields["dst_port"] = <<0, 0>>
     \/ s.address.family = 2 /\ r.fields["dst_port"] = Bswap16(s.address.port)
  /\ s.type = EventOpenat => r.fields["sa_family"][1] = 0

WireInv == /\ record # <<>> => Carries(record, sent) /\ got = <<>>
           /\ HeaderKept /\ NothingInvented

HeaderFields == {"event_type", "pid", "ppid", "uid", "comm"}

(* fill_common writes the header, and clears what it does not know.        *)
LEMMA CommonWrites ==
  ASSUME NEW type, NEW s, NEW old
  PROVE  LET common == Common(type, s, old)
         IN  /\ common["event_type"] = LittleEndian(type)
             /\ common["pid"] = LittleEndian(s.pid) /\ common["ppid"] = LittleEndian(s.ppid)
             /\ common["uid"] = LittleEndian(s.uid)
             /\ common["comm"] = ZeroPadded(s.comm, TaskCommLen)
             /\ common["dst_port"] = <<0, 0>> /\ common["sa_family"][1] = 0
<1>1. Fill(0, 2) = <<0, 0>> /\ Fill(0, 2)[1] = 0
  BY DEF Fill
<1>2. QED
  BY <1>1 DEF Common, Header

(* A record that keeps the header of fill_common carries what was seen.    *)
LEMMA CommonCarries ==
  ASSUME NEW type \in 1 .. 3, NEW name, NEW flags, NEW address,
         NEW s \in Seen(type, name, flags, address), NEW old, NEW fields,
         \A f \in HeaderFields : fields[f] = Common(type, s, old)[f],
         \/ fields["dst_port"] = <<0, 0>>
         \/ address.family = 2 /\ fields["dst_port"] = Bswap16(address.port),
         type = EventOpenat => fields["sa_family"][1] = 0
  PROVE  Carries([fields |-> fields, old |-> old], s)
<1>1. PICK pid \in Values, ppid \in Values, uid \in Values, comm \in Comms :
        s = [type |-> type, pid |-> pid, ppid |-> ppid, uid |-> uid, comm |-> comm,
             name |-> name, flags |-> flags, address |-> address]
  BY DEF Seen
<1>2. s.type = type /\ s.comm \in Comms /\ s.address = address
  BY <1>1
<1>3. /\ fields["event_type"] = LittleEndian(type) /\ fields["pid"] = LittleEndian(s.pid)
      /\ fields["ppid"] = LittleEndian(s.ppid) /\ fields["uid"] = LittleEndian(s.uid)
      /\ fields["comm"] = ZeroPadded(s.comm, TaskCommLen)
  BY CommonWrites DEF HeaderFields
<1>4. QED
  BY <1>2, <1>3 DEF Carries

(* Where the sensor looks for the address of a connection there is a       *)
(* descriptor: whatever is read, none is copied.                           *)
LEMMA NoAddressIsRead ==
  ASSUME NEW fd \in Descriptors, NEW word, NEW low,
         NEW addr \in FromContext(<<fd, word>>, ConnectUservaddr),
         NEW sa \in SocketAddresses(addr)
  PROVE  sa = NoAddress
<1>1. Slot(ConnectUservaddr) = 1
  BY DEF Slot, ConnectUservaddr
<1>2. addr = fd \/ addr = Nil
  BY <1>1 DEF FromContext
<1>3. addr.kind # "sockaddr"
  BY <1>2 DEF Descriptors, Nil, Number, Word
<1>4. QED
  BY <1>3 DEF SocketAddresses

(* What a tracepoint submits carries what it saw.                          *)
LEMMA TracepointsCarry ==
  ASSUME NEW old, TracepointExecve(old) \/ TracepointOpenat(old) \/ TracepointConnect(old)
  PROVE  Carries(record', sent') /\ got = <<>> /\ got' = <<>>
<1>1. CASE TracepointExecve(old)
  <2>1. PICK name \in FileNames \cup {<<>>}, pointer \in Flags :
          \E s \in Seen(EventExecve, name, 0, NoAddress),
             file \in FromContext(<<Path(name, pointer)>>, ExecveFilename) :
            \E payload \in Payloads(file, old) :
              SubmitRecord(s, old, [Common(EventExecve, s, old) EXCEPT !.payload = payload])
    BY <1>1 DEF TracepointExecve
  <2>2. PICK s \in Seen(EventExecve, name, 0, NoAddress) : \E payload :
          SubmitRecord(s, old, [Common(EventExecve, s, old) EXCEPT !.payload = payload])
    BY <2>1
  <2>p. PICK payload :
          SubmitRecord(s, old, [Common(EventExecve, s, old) EXCEPT !.payload = payload])
    BY <2>2
  <2> DEFINE fields == [Common(EventExecve, s, old) EXCEPT !.payload = payload]
  <2>3. /\ \A f \in HeaderFields : fields[f] = Common(EventExecve, s, old)[f]
        /\ fields["dst_port"] = Common(EventExecve, s, old)["dst_port"]
    BY DEF Common, Header, HeaderFields
  <2>4. SubmitRecord(s, old, fields)
    BY <2>p
  <2>5. EventExecve \in 1 .. 3 /\ EventExecve # EventOpenat
    BY DEF EventExecve, EventOpenat
  <2> HIDE DEF fields
  <2>6. Carries([fields |-> fields, old |-> old], s)
    BY <2>3, <2>5, CommonWrites, CommonCarries
  <2>7. QED
    BY <2>4, <2>6 DEF SubmitRecord
<1>2. CASE TracepointOpenat(old)
  <2>1. PICK name \in FileNames \cup {<<>>}, low \in Flags, pointer \in Flags, dfd \in Descriptors :
          LET args == <<dfd, Path(name, pointer), Number(low)>>
          IN  \E s \in Seen(EventOpenat, name, low, NoAddress),
                 file \in FromContext(args, OpenatFilename),
                 flags \in FromContext(args, OpenatFlags) :
                \E payload \in Payloads(file, old) :
                  SubmitRecord(s, old, [Common(EventOpenat, s, old) EXCEPT
                                          !.payload = payload, !.flags = LittleEndian(flags.low)])
    BY <1>2 DEF TracepointOpenat
  <2>2. PICK s \in Seen(EventOpenat, name, low, NoAddress) : \E payload, flags :
          SubmitRecord(s, old, [Common(EventOpenat, s, old) EXCEPT
                                  !.payload = payload, !.flags = LittleEndian(flags.low)])
    BY <2>1
  <2>p. PICK payload, flags :
          SubmitRecord(s, old, [Common(EventOpenat, s, old) EXCEPT
                                  !.payload = payload, !.flags = LittleEndian(flags.low)])
    BY <2>2
  <2> DEFINE fields == [Common(EventOpenat, s, old) EXCEPT
                          !.payload = payload, !.flags = LittleEndian(flags.low)]
  <2>3. /\ \A f \in HeaderFields : fields[f] = Common(EventOpenat, s, old)[f]
        /\ fields["dst_port"] = Common(EventOpenat, s, old)["dst_port"]
        /\ fields["sa_family"] = Common(EventOpenat, s, old)["sa_family"]
    BY DEF Common, Header, HeaderFields
  <2>4. SubmitRecord(s, old, fields)
    BY <2>p
  <2>5. EventOpenat \in 1 .. 3
    BY DEF EventOpenat
  <2> HIDE DEF fields
  <2>6. fields["dst_port"] = <<0, 0>> /\ fields["sa_family"][1] = 0
    BY <2>3, CommonWrites
  <2>7. Carries([fields |-> fields, old |-> old], s)
    BY <2>3, <2>5, <2>6, CommonCarries
  <2>8. QED
    BY <2>4, <2>7 DEF SubmitRecord
<1>3. CASE TracepointConnect(old)
  <2>1. PICK a \in Addresses, fd \in Descriptors :
          \E s \in Seen(EventConnect, <<>>, 0, a),
             addr \in FromContext(<<fd, Sockaddr(a)>>, ConnectUservaddr) :
            \E sa \in SocketAddresses(addr) :
              SubmitRecord(s, old, Connected(Common(EventConnect, s, old), sa))
    BY <1>3 DEF TracepointConnect
  <2>2. PICK s \in Seen(EventConnect, <<>>, 0, a) :
          SubmitRecord(s, old, Connected(Common(EventConnect, s, old), NoAddress))
    BY <2>1, NoAddressIsRead
  <2> DEFINE fields == Connected(Common(EventConnect, s, old), NoAddress)
  <2>3. /\ \A f \in HeaderFields : fields[f] = Common(EventConnect, s, old)[f]
        /\ fields["dst_port"] = Common(EventConnect, s, old)["dst_port"]
    <3> DEFINE common == Common(EventConnect, s, old)
    <3>1. fields = [common EXCEPT !.sa_family = <<NoAddress.family, 0>>]
      BY DEF Connected, NoAddress
    <3>2. QED
      BY <3>1 DEF Common, Header, HeaderFields
  <2>4. SubmitRecord(s, old, fields)
    BY <2>2
  <2>5. EventConnect \in 1 .. 3 /\ EventConnect # EventOpenat
    BY DEF EventConnect, EventOpenat
  <2> HIDE DEF fields
  <2>6. Carries([fields |-> fields, old |-> old], s)
    BY <2>3, <2>5, CommonWrites, CommonCarries
  <2>7. QED
    BY <2>4, <2>6 DEF SubmitRecord
<1>4. QED
  BY <1>1, <1>2, <1>3

(* ParseEvent finds what the record carries.                               *)
LEMMA ParsedAsCarried ==
  ASSUME record # <<>>, Carries(record, sent)
  PROVE  /\ ParseEvent.type = sent.type /\ ParseEvent.comm = sent.comm
         /\ ParseEvent.pid = LittleEndian(sent.pid)
         /\ ParseEvent.ppid = LittleEndian(sent.ppid)
         /\ ParseEvent.uid = LittleEndian(sent.uid)
         /\ \/ ParseEvent.dstPort = <<0, 0>>
            \/ sent.address.family = 2 /\ ParseEvent.dstPort = Bswap16(sent.address.port)
         /\ ~ParseEvent.isWrite
<1>1. Raw("EventType")[1] = sent.type
  <2>1. Raw("EventType")[1] = LittleEndian(sent.type)[1]
    BY ReadAsWritten DEF Carries
  <2>2. \A t \in 1 .. 3 : LittleEndian(t)[1] = t
    BY DEF LittleEndian
  <2>3. QED
    BY <2>1, <2>2 DEF Carries
<1>2. \A n : LittleEndian(n) = [j \in 1 .. 4 |-> LittleEndian(n)[j]]
  BY DEF LittleEndian
<1>3. /\ Raw("PID") = LittleEndian(sent.pid) /\ Raw("PPID") = LittleEndian(sent.ppid)
      /\ Raw("UID") = LittleEndian(sent.uid)
  BY <1>2, ReadAsWritten DEF Carries
<1>4. Raw("DstPort") = record.fields["dst_port"]
  <2> DEFINE bytes == record.fields["dst_port"]
  <2>1. bytes = <<0, 0>> \/ bytes = Bswap16(sent.address.port)
    BY DEF Carries
  <2>2. bytes = [j \in 1 .. 2 |-> bytes[j]]
    BY <2>1 DEF Bswap16
  <2>3. QED
    BY <2>2, ReadAsWritten
<1>5. NullTerm(Raw("Comm")) = sent.comm
  <2>1. sent.comm \in Seq(1 .. 255) /\ Len(sent.comm) < TaskCommLen
    BY BytesAssumption DEF Carries
  <2>2. Raw("Comm") = ZeroPadded(sent.comm, TaskCommLen)
    BY ReadAsWritten DEF Carries, ZeroPadded
  <2>3. QED
    BY <2>1, <2>2, CommEnds
<1>6. sent.type = EventOpenat => ~Writes(Raw("Flags")[1])
  <2>1. sent.type = EventOpenat => Raw("Flags")[1] = 0
    BY ReadAsWritten DEF Carries
  <2>2. ~Writes(0)
    BY DEF Writes, Bit
  <2>3. QED
    BY <2>1, <2>2
<1>7. ~ParseEvent.isWrite
  BY <1>1, <1>6 DEF ParseEvent
<1>8. /\ ParseEvent.type = sent.type /\ ParseEvent.comm = sent.comm
      /\ ParseEvent.pid = LittleEndian(sent.pid) /\ ParseEvent.ppid = LittleEndian(sent.ppid)
      /\ ParseEvent.uid = LittleEndian(sent.uid)
      /\ ParseEvent.dstPort = record.fields["dst_port"]
  BY <1>1, <1>3, <1>4, <1>5 DEF ParseEvent
<1>9. QED
  BY <1>7, <1>8 DEF Carries

(* A record of the ring carries what its tracepoint saw, and what is made  *)
(* of it says nothing else.                                                *)
LEMMA WireInvariant == WireSpec => []WireInv
<1>1. WireInit => WireInv
  BY DEF WireInit, WireInv, HeaderKept, NothingInvented, Parsed
<1>2. WireInv /\ [WireNext]_wireVars => WireInv'
  <2> SUFFICES ASSUME WireInv, [WireNext]_wireVars PROVE WireInv'
    OBVIOUS
  <2>1. ASSUME NEW old \in Leftovers,
               TracepointExecve(old) \/ TracepointOpenat(old) \/ TracepointConnect(old)
        PROVE  WireInv'
    BY <2>1, TracepointsCarry DEF WireInv, HeaderKept, NothingInvented, Parsed
  <2>2. CASE ReadEvent
    <3>1. record # <<>> /\ got' = ParseEvent /\ record' = <<>> /\ sent' = sent
      BY <2>2 DEF ReadEvent
    <3>2. Carries(record, sent)
      BY <3>1 DEF WireInv
    <3>3. /\ got'.type = sent.type /\ got'.comm = sent.comm
          /\ got'.pid = LittleEndian(sent.pid) /\ got'.ppid = LittleEndian(sent.ppid)
          /\ got'.uid = LittleEndian(sent.uid)
          /\ \/ got'.dstPort = <<0, 0>>
             \/ sent.address.family = 2 /\ got'.dstPort = Bswap16(sent.address.port)
          /\ ~got'.isWrite
      BY <3>1, <3>2, ParsedAsCarried
    <3>4. HeaderKept'
      BY <3>1, <3>3 DEF HeaderKept
    <3>5. NothingInvented'
      BY <3>1, <3>3 DEF NothingInvented
    <3>6. QED
      BY <3>1, <3>4, <3>5 DEF WireInv
  <2>3. CASE HandOn
    BY <2>3 DEF HandOn, WireInv, HeaderKept, NothingInvented, Parsed
  <2>4. CASE UNCHANGED wireVars
    BY <2>4 DEF WireInv, wireVars, HeaderKept, NothingInvented, Parsed, Carries
  <2>5. QED
    BY <2>1, <2>2, <2>3, <2>4 DEF WireNext
<1>3. QED
  BY <1>1, <1>2, PTL DEF WireSpec

(* Who did what arrives as the tracepoint saw it: for all values, names,   *)
(* addresses and leftovers, and whichever reads fail.                      *)
THEOREM HeadersArrive == WireSpec => []HeaderKept
<1>1. WireInv => HeaderKept
  BY DEF WireInv
<1>2. QED
  BY <1>1, WireInvariant, PTL

(* Nothing earlier records left behind, and no gap of the C layout, is     *)
(* reported as a port or as a write.                                       *)
THEOREM NothingIsInvented == WireSpec => []NothingInvented
<1>1. WireInv => NothingInvented
  BY DEF WireInv
<1>2. QED
  BY <1>1, WireInvariant, PTL

=============================================================================
