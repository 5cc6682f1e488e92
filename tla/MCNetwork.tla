----------------------------- MODULE MCNetwork -----------------------------
(* An instance of Network for TLC: bytes of one bit, lengths 0 to 3. *)
EXTENDS Network

TwoBits == <<0, 1>>
MCLogin == <<0>>
MCPackets == {<<>>, MCLogin, TwoBits, <<1, 1, 1>>}
=============================================================================
