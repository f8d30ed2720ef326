----------------------------- MODULE WireFormat -----------------------------
(***************************************************************************)
(* One record of the ring buffer, byte by byte: struct event as bpf/       *)
(* sensor.c fills it and the C compiler lays it out, and RawEvent as       *)
(* binary.Read of internal/sensor/loader.go takes it apart and ParseEvent  *)
(* of internal/sensor/events.go interprets it.                             *)
(*                                                                         *)
(* bpf_ringbuf_reserve does not clear the record: whatever a tracepoint    *)
(* leaves unwritten is left over from earlier records.                     *)
(*                                                                         *)
(* The tracepoints read the arguments of the call from their context with  *)
(* bpf_probe_read_user and ignore the result.  The context is kernel       *)
(* memory: where the kernel tells the two apart the read fails and leaves  *)
(* zeros.  ContextReads says which outcomes there are.                     *)
(***************************************************************************)
EXTENDS Naturals, Sequences, FiniteSetsExt

CONSTANTS Values,     \* values of the fields that are only passed through
          Comms,      \* names of tasks: sequences of nonzero bytes
          FileNames,  \* names of files: sequences of nonzero bytes
          Flags,      \* low bytes of openat's flags and of pointers
          Addresses,  \* socket addresses: family, port and IP as bytes
          Leftovers,  \* bytes found in unwritten memory
          ContextReads \* may a user read of the context succeed, or fail?

TaskCommLen == 16
MaxPayload  == 256

(* The kernel ends a comm and bpf_probe_read_user_str a file name with a   *)
(* zero that is within the array.                                          *)
ASSUME BytesAssumption ==
  /\ ContextReads \subseteq BOOLEAN
  /\ Leftovers \subseteq 0 .. 255 /\ Flags \subseteq 0 .. 255
  /\ \A a \in Addresses : /\ a.family \in 0 .. 255
                          /\ Len(a.port) = 2 /\ Len(a.ip) = 4
  /\ \A name \in Comms : name \in Seq(1 .. 255) /\ Len(name) < TaskCommLen
  /\ \A name \in FileNames : name \in Seq(1 .. 255) /\ name # <<>> /\ Len(name) < MaxPayload

VARIABLES record,  \* the record in the ring buffer, <<>> if there is none: what
                   \* is written to its fields, and what was there before
          sent,    \* what the tracepoint saw
          got      \* the Event ParseEvent makes of it

wireVars == <<record, sent, got>>

EventExecve  == 1
EventOpenat  == 2
EventConnect == 3

-----------------------------------------------------------------------------
(* The two declarations: a field's name, its bytes and its alignment.      *)
(* binary.Read takes the fields one after the other, without gaps.         *)

Field(name, width, align) == [name |-> name, width |-> width, align |-> align]
Packed(name, width) == Field(name, width, 1)

StructEvent ==
  << Field("event_type", 4, 4), Field("pid", 4, 4), Field("ppid", 4, 4), Field("uid", 4, 4),
     Field("timestamp_ns", 8, 8), Field("comm", TaskCommLen, 1), Field("payload", MaxPayload, 1),
     Field("ret_val", 4, 4), Field("payload_len", 4, 4), Field("dst_port", 2, 2),
     Field("dst_ip4", 4, 4), Field("sa_family", 2, 2), Field("flags", 4, 4) >>

(* Mutant: two fields change places. *)
RawEventSwapped ==
  << Packed("EventType", 4), Packed("PPID", 4), Packed("PID", 4), Packed("UID", 4),
     Packed("TimestampNs", 8), Packed("Comm", TaskCommLen), Packed("Payload", MaxPayload),
     Packed("RetVal", 4), Packed("PayloadLen", 4), Packed("DstPort", 2),
     Packed("DstIP4", 4), Packed("SAFamily", 2), Packed("Flags", 4) >>

RawEvent ==
  << Packed("EventType", 4), Packed("PID", 4), Packed("PPID", 4), Packed("UID", 4),
     Packed("TimestampNs", 8), Packed("Comm", TaskCommLen), Packed("Payload", MaxPayload),
     Packed("RetVal", 4), Packed("PayloadLen", 4), Packed("DstPort", 2),
     Packed("DstIP4", 4), Packed("SAFamily", 2), Packed("Flags", 4) >>

Fill(byte, n) == [i \in 1 .. n |-> byte]
ZeroPadded(bytes, width) == [i \in 1 .. width |-> IF i <= Len(bytes) THEN bytes[i] ELSE 0]
Upto(n, a) == (a - (n % a)) % a

(* How many bytes precede each field: it starts at the next multiple of    *)
(* its alignment.                                                          *)
StructPlace[i \in 1 .. 13] ==
  IF i = 1 THEN 0
  ELSE LET end == StructPlace[i - 1] + StructEvent[i - 1].width
       IN  end + Upto(end, StructEvent[i].align)

RawPlace[i \in 1 .. 13] ==
  IF i = 1 THEN 0
  ELSE LET end == RawPlace[i - 1] + RawEvent[i - 1].width
       IN  end + Upto(end, RawEvent[i].align)

(* The record in memory: every field in its place, the gaps between them   *)
(* as they were, its end at a multiple of 8.                               *)
Size == LET end == StructPlace[13] + StructEvent[13].width IN end + Upto(end, 8)

Holders(b) == {i \in 1 .. 13 : /\ StructPlace[i] < b
                               /\ b <= StructPlace[i] + StructEvent[i].width}

Layout(fields, old) ==
  [b \in 1 .. Size |->
     LET holders == Holders(b)
     IN  IF holders = {} THEN old
         ELSE LET i == CHOOSE i \in holders : TRUE
              IN  fields[StructEvent[i].name][b - StructPlace[i]]]

Raw(name) ==
  LET f      == CHOOSE i \in 1 .. 13 : RawEvent[i].name = name
      memory == Layout(record.fields, record.old)
  IN  [i \in 1 .. RawEvent[f].width |-> memory[RawPlace[f] + i]]

-----------------------------------------------------------------------------
(* What the kernel hands over.  A call's arguments lie in the context, 8   *)
(* bytes each, behind the 16 bytes of its head; an argument is a number or *)
(* a pointer to a path or to a socket address.                             *)

NoAddress == [family |-> 0, port |-> <<0, 0>>, ip |-> <<0, 0, 0, 0>>]

Word(kind, name, address, low) ==
  [kind |-> kind, name |-> name, address |-> address, low |-> low]

Nil               == Word("nil", <<>>, NoAddress, 0)
Number(low)       == Word("number", <<>>, NoAddress, low)
Path(name, low)   == IF name = <<>> THEN Nil ELSE Word("path", name, NoAddress, low)
Sockaddr(a)       == Word("sockaddr", <<>>, a, 0)
Descriptors       == {Nil, Number(3)}

Slot(offset) == (offset - 16) \div 8 + 1

(* Where the compiler puts the arguments the sensor declares: fd and dfd   *)
(* are ints there, and what follows them comes 8 bytes too early.          *)
ExecveFilename  == 16
OpenatFilename  == 16
OpenatFlags     == 24
ConnectUservaddr == 16

(* bpf_probe_read_user of an argument: a read that fails leaves zeros.     *)
FromContext(args, offset) == {IF ok THEN args[Slot(offset)] ELSE Nil : ok \in ContextReads}

-----------------------------------------------------------------------------
(* fill_common, and what each tracepoint adds.  The time stamp and         *)
(* payload_len carry values that do not matter here.                       *)

LittleEndian(n) == <<n % 256, n \div 256, 0, 0>>

Header(type, s, old) ==
  [event_type |-> LittleEndian(type), pid |-> LittleEndian(s.pid), ppid |-> LittleEndian(s.ppid),
   uid |-> LittleEndian(s.uid), timestamp_ns |-> Fill(0, 8),
   comm |-> ZeroPadded(s.comm, TaskCommLen), payload |-> Fill(old, MaxPayload),
   ret_val |-> Fill(old, 4), payload_len |-> Fill(old, 4), dst_port |-> Fill(old, 2),
   dst_ip4 |-> Fill(old, 4), sa_family |-> Fill(old, 2), flags |-> Fill(old, 4)]

(* Mutant: the field only connect fills is not cleared.                    *)
CommonUncleared(type, s, old) ==
  [Header(type, s, old) EXCEPT !.ret_val = Fill(0, 4), !.payload_len = Fill(0, 4),
     !.dst_port = Fill(0, 2), !.dst_ip4 = Fill(0, 4), !.flags = Fill(0, 4)]

Common(type, s, old) ==
  [Header(type, s, old) EXCEPT !.ret_val = Fill(0, 4), !.payload_len = Fill(0, 4),
     !.dst_port = Fill(0, 2), !.dst_ip4 = Fill(0, 4), !.sa_family = Fill(0, 2),
     !.flags = Fill(0, 4)]

(* A string is written with its terminating zero, the rest of the payload  *)
(* stays as it was.                                                        *)
Text(name, old) ==
  [i \in 1 .. MaxPayload |-> IF i <= Len(name) THEN name[i]
                             ELSE IF i = Len(name) + 1 THEN 0 ELSE old]

(* Nothing is written for a null pointer.  bpf_probe_read_user_str clears  *)
(* the payload when it fails: always of what is no pointer, and of a path  *)
(* that is not in memory.                                                  *)
Payloads(file, old) ==
  IF file = Nil THEN {Fill(old, MaxPayload)}
  ELSE {Fill(0, MaxPayload)}
         \cup {Text(name, old) : name \in IF file.kind = "path" THEN {file.name} ELSE {}}

(* What is copied of the socket address; a null pointer leaves the zeros   *)
(* it is initialised with, too.                                            *)
SocketAddresses(word) == {NoAddress} \cup IF word.kind = "sockaddr" THEN {word.address} ELSE {}

Bswap16(b) == <<b[2], b[1]>>

Connected(fields, a) ==
  IF a.family = 2
  THEN [fields EXCEPT !.sa_family = <<2, 0>>, !.dst_port = Bswap16(a.port), !.dst_ip4 = a.ip]
  ELSE [fields EXCEPT !.sa_family = <<a.family, 0>>]

Seen(type, name, flags, address) ==
  {[type |-> type, pid |-> pid, ppid |-> ppid, uid |-> uid, comm |-> comm,
    name |-> name, flags |-> flags, address |-> address] :
     pid \in Values, ppid \in Values, uid \in Values, comm \in Comms}

WireInit == record = <<>> /\ sent = <<>> /\ got = <<>>

SubmitRecord(s, old, fields) ==
  /\ record = <<>> /\ got = <<>>
  /\ sent' = s /\ record' = [fields |-> fields, old |-> old]
  /\ UNCHANGED got

TracepointExecve(old) ==
  \E name \in FileNames \cup {<<>>}, pointer \in Flags :
    \E s \in Seen(EventExecve, name, 0, NoAddress),
       file \in FromContext(<<Path(name, pointer)>>, ExecveFilename) :
      \E payload \in Payloads(file, old) :
        SubmitRecord(s, old, [Common(EventExecve, s, old) EXCEPT !.payload = payload])

TracepointOpenat(old) ==
  \E name \in FileNames \cup {<<>>}, low \in Flags, pointer \in Flags, dfd \in Descriptors :
    LET args == <<dfd, Path(name, pointer), Number(low)>>
    IN  \E s \in Seen(EventOpenat, name, low, NoAddress),
           file \in FromContext(args, OpenatFilename),
           flags \in FromContext(args, OpenatFlags) :
          \E payload \in Payloads(file, old) :
            SubmitRecord(s, old, [Common(EventOpenat, s, old) EXCEPT
                                    !.payload = payload, !.flags = LittleEndian(flags.low)])

TracepointConnect(old) ==
  \E a \in Addresses, fd \in Descriptors :
    \E s \in Seen(EventConnect, <<>>, 0, a),
       addr \in FromContext(<<fd, Sockaddr(a)>>, ConnectUservaddr) :
      \E sa \in SocketAddresses(addr) :
        SubmitRecord(s, old, Connected(Common(EventConnect, s, old), sa))

-----------------------------------------------------------------------------
(* ParseEvent.                                                             *)

NullTerm(bytes) ==
  LET zeros == {i \in 1 .. Len(bytes) : bytes[i] = 0}
  IN  IF zeros = {} THEN bytes ELSE SubSeq(bytes, 1, Min(zeros) - 1)

Bit(byte, value) == (byte \div value) % 2 = 1

Writes(low) == \E value \in {1, 2, 64} : Bit(low, value)

ParseEvent ==
  [type    |-> Raw("EventType")[1],
   pid     |-> Raw("PID"), ppid |-> Raw("PPID"), uid |-> Raw("UID"),
   comm    |-> NullTerm(Raw("Comm")),
   payload |-> NullTerm(Raw("Payload")),
   dstPort |-> Raw("DstPort"),
   dstIP   |-> IF Raw("EventType")[1] = EventConnect /\ Raw("DstIP4") # Fill(0, 4)
               THEN Raw("DstIP4") ELSE <<>>,
   isWrite |-> /\ Raw("EventType")[1] = EventOpenat
               /\ Writes(Raw("Flags")[1])]

ReadEvent ==
  /\ record # <<>>
  /\ got' = ParseEvent /\ record' = <<>>
  /\ UNCHANGED sent

(* The event goes to the channel, and the ring's memory is free again.     *)
HandOn ==
  /\ got # <<>>
  /\ got' = <<>> /\ sent' = <<>>
  /\ UNCHANGED record

WireNext == \/ \E old \in Leftovers : \/ TracepointExecve(old) \/ TracepointOpenat(old)
                                      \/ TracepointConnect(old)
            \/ ReadEvent
            \/ HandOn

WireSpec == WireInit /\ [][WireNext]_wireVars

-----------------------------------------------------------------------------
Parsed == got # <<>>

(* Who did what arrives as it was sent, whatever the record's memory held  *)
(* before: the two declarations agree that far.                            *)
HeaderKept == Parsed =>
  /\ got.type = sent.type /\ got.comm = sent.comm
  /\ got.pid = LittleEndian(sent.pid) /\ got.ppid = LittleEndian(sent.ppid)
  /\ got.uid = LittleEndian(sent.uid)

(* Whatever reads fail and whatever earlier records left behind, an event  *)
(* reports no port that nobody connected to and no write of a file opened  *)
(* for reading: what a tracepoint does not write of these is cleared, and  *)
(* no gap of the C layout is taken for it.                                 *)
NothingInvented == Parsed =>
  /\ got.dstPort # <<0, 0>> =>
       sent.address.family = 2 /\ got.dstPort = Bswap16(sent.address.port)
  /\ got.isWrite => sent.type = EventOpenat /\ Writes(sent.flags)

(* The following do not hold of the code.  The file an execve or openat is *)
(* about arrives as the payload.                                           *)
NameArrives == Parsed /\ sent.name # <<>> => got.payload = sent.name

(* An event that is about no file arrives without a payload.               *)
NoStalePayload == Parsed /\ sent.name = <<>> => got.payload = <<>>

(* An open for writing arrives as one: O_WRONLY, O_RDWR or O_CREAT.        *)
WritesSeen == Parsed /\ sent.type = EventOpenat => got.isWrite = Writes(sent.flags)

(* The address of a connection arrives.                                    *)
DestinationArrives == Parsed /\ sent.address.family = 2 =>
  got.dstIP = (IF sent.address.ip = Fill(0, 4) THEN <<>> ELSE sent.address.ip)

(* Even if none arrives, none is made up: a destination was connected to.  *)
DestinationReal == Parsed /\ got.dstIP # <<>> => got.dstIP = sent.address.ip

=============================================================================
