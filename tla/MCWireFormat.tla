---------------------------- MODULE MCWireFormat ----------------------------
(* Instances of WireFormat for TLC.                                        *)
EXTENDS WireFormat

(* One byte, two bytes; a short name and one that fills its array.         *)
SmallValues == {7, 300}
ShortAndLong == {<<115, 104>>, Fill(97, TaskCommLen - 1)}
ShortAndLongest == {<<115, 104>>, Fill(47, MaxPayload - 1)}

(* O_RDONLY, O_WRONLY and O_CREAT.                                         *)
OpenFlags == {0, 1, 64}

(* IPv4 with and without an address, IPv6.                                 *)
SomeAddresses ==
  {[family |-> 2, port |-> <<1, 187>>, ip |-> ip] : ip \in {<<10, 0, 2, 15>>, <<0, 0, 0, 0>>}}
    \cup {[family |-> 10, port |-> <<0, 80>>, ip |-> <<0, 0, 0, 0>>]}

(* Cleared memory, and memory full of letters that are write flags, too.   *)
SomeBytes == {0, 67}

(* A user read of the context fails where the kernel tells its memory from *)
(* the process's (x86-64, arm64); what holds of both outcomes holds there. *)
AlwaysFails  == {FALSE}
BothOutcomes == BOOLEAN

=============================================================================
