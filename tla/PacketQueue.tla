---------------------------- MODULE PacketQueue ----------------------------
(***************************************************************************)
(* What a client may rely on: packets are executed whole, once, in the     *)
(* order they were sent, by the handler that is in charge when their turn  *)
(* comes; the connection is dropped only for a packet that is empty or too *)
(* long, when everything sent before the client closed was executed, or    *)
(* when the client cut it.                                                 *)
(***************************************************************************)
EXTENDS Integers, Sequences

CONSTANTS Packets, LoginPacket, InputLimit
VARIABLES queued, closed, served, up

Handler == IF \E i \in DOMAIN served : served[i].packet = LoginPacket
           THEN "player" ELSE "slot"

NextPacket == queued[Len(served) + 1]

Init == queued = <<>> /\ closed = "no" /\ served = <<>> /\ up = TRUE

Send == /\ up /\ closed = "no"
        /\ \E p \in Packets : queued' = Append(queued, p)
        /\ UNCHANGED <<closed, served, up>>

Close == /\ up /\ closed = "no" /\ closed' \in {"end", "reset"}
         /\ UNCHANGED <<queued, served, up>>

Serve == /\ up /\ Len(served) < Len(queued)
         /\ Len(NextPacket) \in 1 .. InputLimit - 3
         /\ served' = Append(served, [packet |-> NextPacket, by |-> Handler])
         /\ UNCHANGED <<queued, closed, up>>

Drop == /\ up
        /\ \/ closed = "reset"
           \/ closed = "end" /\ Len(served) = Len(queued)
           \/ /\ Len(served) < Len(queued)
              /\ Len(NextPacket) \notin 1 .. InputLimit - 3
        /\ up' = FALSE /\ UNCHANGED <<queued, closed, served>>

Spec == Init /\ [][Send \/ Close \/ Serve \/ Drop]_<<queued, closed, served, up>>
=============================================================================
