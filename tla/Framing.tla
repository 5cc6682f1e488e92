------------------------------ MODULE Framing ------------------------------
(***************************************************************************)
(* Packets of one connection, as SockList_ReadPacket (socket/lowlevel.cpp) *)
(* puts them together from what read() returns and handle_client           *)
(* (socket/loop.cpp) executes them.  A packet is two bytes of length and   *)
(* its content; the connection is first served as an entry of init_sockets,*)
(* and as a player from the packet on that logs in.                        *)
(***************************************************************************)
EXTENDS Integers, Sequences

CONSTANTS
    Base,          \* values of a byte
    InputLimit,    \* the len passed to SockList_ReadPacket, sizeof(buf) - 1
    Packets,       \* contents a client sends
    LoginPacket,   \* the one that makes the connection a player's
    MaxSent,       \* bound on the packets a client sends
    MaxCommands    \* commands of one call of handle_client

ASSUME FramingAssumption ==
    /\ Base \in Nat \ {0, 1} /\ InputLimit \in Nat /\ InputLimit >= 2
    /\ MaxSent \in Nat /\ MaxCommands \in Nat \ {0}
    /\ Packets \subseteq Seq(0 .. Base - 1)
    /\ \A p \in Packets : Len(p) < Base * Base
    /\ LoginPacket \in Packets

VARIABLES
    sent,      \* what the client sent
    closed,    \* "no", or how the client closed its end: "end" or "reset"
    wire,      \* bytes sent and not read
    inbuf,     \* ns->inbuf, as far as inbuf.len
    handler,   \* "slot" or "player", who reads the connection
    up,        \* the status is not Ns_Dead
    serving,   \* handle_client runs
    count,     \* command_count
    done       \* what was executed, and by whom
framing == <<sent, closed, wire, inbuf, handler, up, serving, count, done>>

Encode(p) == <<Len(p) \div Base, Len(p) % Base>> \o p

FramingInit ==
    /\ sent = <<>> /\ closed = "no" /\ wire = <<>> /\ inbuf = <<>>
    /\ handler = "slot" /\ up = TRUE /\ serving = FALSE /\ count = 0 /\ done = <<>>

-----------------------------------------------------------------------------
(* The client.                                                             *)
SendPacket(p) ==
    /\ up /\ closed = "no" /\ Len(sent) < MaxSent
    /\ sent' = Append(sent, p) /\ wire' = wire \o Encode(p)
    /\ UNCHANGED <<closed, inbuf, handler, up, serving, count, done>>

\* A reset discards what was not read yet.
CloseClient ==
    /\ up /\ closed = "no"
    /\ \/ closed' = "end" /\ UNCHANGED wire
       \/ closed' = "reset" /\ wire' = <<>>
    /\ UNCHANGED <<sent, inbuf, handler, up, serving, count, done>>

-----------------------------------------------------------------------------
(* handle_client, and SockList_ReadPacket inside it, one action for each   *)
(* return of read(), which hands over as much as there is.                 *)
handle_client ==
    /\ up /\ ~serving
    /\ serving' = TRUE /\ count' = 0
    /\ UNCHANGED <<sent, closed, wire, inbuf, handler, up, done>>

Stop == serving' = FALSE /\ count' = 0

\* Bytes read() may return of those asked for: what has arrived.
Arrived(asked) == {k \in 1 .. asked : k <= Len(wire)}
Taken(k) == /\ inbuf' = inbuf \o SubSeq(wire, 1, k)
            /\ wire' = SubSeq(wire, k + 1, Len(wire))

Declared == 2 + inbuf[1] * Base + inbuf[2]

\* Both bytes of the length at once, or the packet is left for a later call.
ReadHeader ==
    /\ serving /\ Len(inbuf) < 2
    /\ \E k \in Arrived(2 - Len(inbuf)) :
          /\ Taken(k)
          /\ IF k = 2 THEN UNCHANGED <<serving, count>> ELSE Stop
    /\ UNCHANGED <<sent, closed, handler, up, done>>

Kill == up' = FALSE /\ Stop

\* Too long for the buffer; or empty, so that read() is asked for nothing.
Fits == Declared < InputLimit

\* Mutated form of RefusePacket: it is not read, and the connection stays.
RefusePacketLater ==
    /\ serving /\ Len(inbuf) >= 2
    /\ ~Fits \/ Declared = Len(inbuf)
    /\ Stop
    /\ UNCHANGED <<sent, closed, wire, inbuf, handler, up, done>>

RefusePacket ==
    /\ serving /\ Len(inbuf) >= 2
    /\ ~Fits \/ Declared = Len(inbuf)
    /\ Kill
    /\ UNCHANGED <<sent, closed, wire, inbuf, handler, done>>

ReadBody ==
    /\ serving /\ Len(inbuf) >= 2 /\ Fits
    /\ \E k \in Arrived(Declared - Len(inbuf)) :
          /\ Len(inbuf) + k < Declared
          /\ Taken(k)
    /\ UNCHANGED <<sent, closed, handler, up, serving, count, done>>

\* Mutated form of Execute: the buffer is not reset.
ExecuteKeepingBuffer(packet) ==
    /\ done' = Append(done, [packet |-> packet, by |-> handler])
    /\ UNCHANGED inbuf
    /\ IF packet = LoginPacket /\ handler = "slot"
       THEN handler' = "player" /\ Stop
       ELSE /\ UNCHANGED handler
            /\ IF count + 1 < MaxCommands
               THEN count' = count + 1 /\ UNCHANGED serving
               ELSE Stop

\* Mutated form of Execute: no limit on the commands of one call.
ExecuteAll(packet) ==
    /\ done' = Append(done, [packet |-> packet, by |-> handler])
    /\ inbuf' = <<>>
    /\ IF packet = LoginPacket /\ handler = "slot"
       THEN handler' = "player" /\ Stop
       ELSE count' = count + 1 /\ UNCHANGED <<handler, serving>>

\* The last bytes: handle_cmd, then SockList_ResetRead.  The packet that logs
\* in ends the loop (faces_sent is NULL); the copy of the buffer the player
\* got was reset too (set_player_socket).
Execute(packet) ==
    /\ done' = Append(done, [packet |-> packet, by |-> handler])
    /\ inbuf' = <<>>
    /\ IF packet = LoginPacket /\ handler = "slot"
       THEN handler' = "player" /\ Stop
       ELSE /\ UNCHANGED handler
            /\ IF count + 1 < MaxCommands
               THEN count' = count + 1 /\ UNCHANGED serving
               ELSE Stop

ReadLast ==
    /\ serving /\ Len(inbuf) >= 2 /\ Fits
    /\ LET k == Declared - Len(inbuf)
       IN  /\ k \in Arrived(k)
           /\ Execute(SubSeq(inbuf \o SubSeq(wire, 1, k), 3, Declared))
           /\ wire' = SubSeq(wire, k + 1, Len(wire))
    /\ UNCHANGED <<sent, closed, up>>

\* EAGAIN, or a player without turns left: later.
NothingYet ==
    /\ serving /\ Stop
    /\ UNCHANGED <<sent, closed, wire, inbuf, handler, up, done>>

\* read() returns 0 at the end of what the client sent, or fails with ECONNRESET.
EndOfStream ==
    /\ serving /\ closed # "no" /\ wire = <<>>
    /\ Kill
    /\ UNCHANGED <<sent, closed, wire, inbuf, handler, done>>

ClientStep == CloseClient \/ \E p \in Packets : SendPacket(p)
Read == ReadHeader \/ RefusePacket \/ ReadBody \/ ReadLast \/ EndOfStream
ServerStep == handle_client \/ Read \/ NothingYet

-----------------------------------------------------------------------------
\* Everything has its type.
FramingTypeOK ==
    /\ sent \in Seq(Packets) /\ closed \in {"no", "end", "reset"}
    /\ wire \in Seq(0 .. Base - 1) /\ inbuf \in Seq(0 .. Base - 1)
    /\ handler \in {"slot", "player"} /\ up \in BOOLEAN /\ serving \in BOOLEAN
    /\ count \in 0 .. MaxCommands - 1
    /\ done \in Seq([packet : Seq(0 .. Base - 1), by : {"slot", "player"}])

\* The abstract specification: a queue of packets.
Queue == INSTANCE PacketQueue WITH queued <- sent, served <- done
RefinesPacketQueue == Queue!Spec
=============================================================================
