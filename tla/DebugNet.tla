------------------------------ MODULE DebugNet ------------------------------
(* The packets of the debugger's connection (debugnet.cpp): a packet is a   *)
(* header with its command and its size, and a payload.  The emulator puts  *)
(* its packets in the stream to the client with serializePacket;            *)
(* networkThread takes the client's out of the other, with recv giving it   *)
(* some of the bytes it asks for.  A behaviour looks at one of the streams. *)
(* The client is not in the repository: it is taken to read and write whole *)
(* packets of this form, none longer than its header can say.  The build is *)
(* the Release one, which has no assertions.                                *)
EXTENDS Integers, Sequences, SequencesExt

CONSTANTS Command,        \* DebugPacketType, those that serializePacket knows
          ClientCommand,  \* those that the client sends
          PayloadSizes,   \* Command -> the sizes its payload may have
          NetHeaderSize,  \* sizeof(DebugNetHeader)
          SizeLimit,      \* the sizes that the header's cast keeps: 2^16
          MaxWritten      \* bound: packets written

ASSUME DebugNetAssumption ==
    /\ \A c \in Command : PayloadSizes[c] \subseteq Nat
    /\ NetHeaderSize \in Nat \ {0} /\ SizeLimit \in Nat /\ SizeLimit > NetHeaderSize
    /\ ClientCommand \subseteq Command
    /\ \A c \in ClientCommand : \A n \in PayloadSizes[c] : NetHeaderSize + n < SizeLimit

VARIABLES link,        \* the stream: "to client" or "from client"
          written,     \* the packets that were written
          stream,      \* the bytes between the ends: <<packet, offset>>
          receiver,    \* where the thread that receives is
          buffer,      \* what it has received of a packet
          headerSize,  \* what the header in the buffer says
          received,    \* the packets that reached handlePacket, or the client
          short        \* history: a recv has given less than it was asked for

netStreamVars == <<link, written, stream, receiver, buffer, headerSize, received, short>>

InitNet ==
    /\ link \in {"to client", "from client"}
    /\ written = <<>> /\ stream = <<>>
    /\ receiver = "header" /\ buffer = <<>> /\ headerSize = 0
    /\ received = <<>>
    /\ short = FALSE

MutantSerializePacket(c, n) ==
    [command |-> c, length |-> NetHeaderSize + n, size |-> n % SizeLimit]

\* serializePacket and serializePacket2: the size goes through 16 bits, those
\* of a packet that is too long are cut.
serializePacket(c, n) ==
    [command |-> c, length |-> NetHeaderSize + n,
     size |-> (NetHeaderSize + n) % SizeLimit]

Commands == IF link = "from client" THEN ClientCommand ELSE Command \ ClientCommand

writePacket ==
    /\ Len(written) < MaxWritten
    /\ \E c \in Commands : \E n \in PayloadSizes[c] :
          LET packet == serializePacket(c, n)
          IN  /\ written' = Append(written, packet)
              /\ stream' = stream \o [k \in 1 .. packet.length |->
                                        <<Len(written) + 1, k>>]
    /\ UNCHANGED <<link, receiver, buffer, headerSize, received, short>>

\* What the buffer held before, or zero.
StaleByte == <<0, 0>>

\* recv gives some of the bytes; networkThread goes on as if it had them all.
Recv(wanted, next) ==
    \E n \in 1 .. Len(stream) :
        /\ n <= wanted /\ (link = "to client" => n = wanted)
        /\ stream' = SubSeq(stream, n + 1, Len(stream))
        /\ buffer' = buffer \o SubSeq(stream, 1, n) \o [k \in 1 .. wanted - n |-> StaleByte]
        /\ short' = (short \/ n < wanted)
        /\ receiver' = next

RecvHeader ==
    /\ receiver = "header"
    /\ Recv(NetHeaderSize, "size")
    /\ UNCHANGED <<link, written, headerSize, received>>

\* The bytes in the buffer are the first ones of a packet.
AreOfOne == \A k \in 1 .. Len(buffer) : buffer[k] = <<buffer[1][1], k>>

\* Other bytes say anything for a size.  A size that the buffer has already
\* asks for no more.
TestSize ==
    /\ receiver = "size"
    /\ headerSize' \in IF AreOfOne THEN {written[buffer[1][1]].size}
                      ELSE 0 .. SizeLimit - 1
    /\ receiver' = IF headerSize' > NetHeaderSize THEN "payload" ELSE "packet"
    /\ UNCHANGED <<link, written, stream, buffer, received, short>>

RecvPayload ==
    /\ receiver = "payload"
    /\ Recv(headerSize - NetHeaderSize, "packet")
    /\ UNCHANGED <<link, written, headerSize, received>>

Garbage == [command |-> "garbage", length |-> 0, size |-> 0]

\* The packet in the buffer, when it is one.
InBuffer ==
    IF AreOfOne /\ Len(buffer) = written[buffer[1][1]].length
    THEN written[buffer[1][1]] ELSE Garbage

\* deserializePacket asserts that the buffer has the header's size.  Of what is
\* no packet it makes one if it can; the archive throws, or there is no packet
\* to handle, where it cannot.
Deserialize ==
    /\ receiver = "packet"
    /\ receiver' \in {"header"} \cup IF InBuffer = Garbage THEN {"crash"} ELSE {}
    /\ received' = Append(received, InBuffer)
    /\ buffer' = <<>>
    /\ UNCHANGED <<link, written, stream, headerSize, short>>

NextNet == writePacket \/ RecvHeader \/ TestSize \/ RecvPayload \/ Deserialize

SpecNet == InitNet /\ [][NextNet]_netStreamVars

-----------------------------------------------------------------------------
(* Correctness.                                                             *)

TooLong == {n \in 1 .. Len(written) : written[n].length >= SizeLimit}

\* What arrives is what was written, whole and in its order, and what is read as
\* a header is one.  In the stream to the client this ends with a packet whose
\* size the header's 16 bits cannot hold (debugnet.cpp:433); in the stream from
\* it with a recv that gives less than it was asked for, which the assertions
\* rule out and TCP does not (debugnet.cpp:598, :612): nothing puts the reader
\* back in step.
ArrivesAsWritten ==
    TooLong = {} /\ ~short =>
        /\ IsPrefix(received, written)
        /\ receiver = "size" => AreOfOne
        /\ receiver = "header" /\ stream # <<>> =>
               stream[1] = <<Len(received) + 1, 1>>

=============================================================================
