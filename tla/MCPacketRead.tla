----------------------------- MODULE MCPacketRead -----------------------------
(***************************************************************************)
(* An instance of PacketRead for TLC: each reader has its own patience,    *)
(* and the headers are those of a frame, of sound and of a contradiction.  *)
(***************************************************************************)
EXTENDS PacketRead

MCPatience == [sysdvr |-> 3, frametap |-> 2]

MCFlagSets == {{"VIDEO", "KEY", "INPUT"}, {"AUDIO"}, {"VIDEO", "STATUS"}}
=============================================================================
