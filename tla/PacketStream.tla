----------------------------- MODULE PacketStream -----------------------------
(***************************************************************************)
(* What the sessions rely on when they read packets from a connection: the *)
(* abstract specification of sysdvr_read_packet and of sft_read_packet.    *)
(*                                                                         *)
(* A caller is given the packets the sender has sent whole, in their       *)
(* order, until the stream ends or fails.  An end is told from a failure:  *)
(* unless the caller asked for it, the sender has closed the connection    *)
(* and everything it ever began to send has been given.                    *)
(***************************************************************************)
EXTENDS Naturals

VARIABLES
    whole,      \* packets sent whole
    begun,      \* a further packet has been begun
    closed,     \* the sender's side is closed
    stop,       \* the caller wants to stop
    given,      \* packets given to the caller
    answer      \* "reading", "end" (0) or "failure" (-1)

vars == <<whole, begun, closed, stop, given, answer>>

Init ==
    /\ whole = 0 /\ begun = FALSE /\ closed = FALSE /\ stop = FALSE
    /\ given = 0 /\ answer = "reading"

(* The sender sends some of a packet, the rest of it, or a whole one. *)
Send ==
    /\ ~closed
    /\ \/ ~begun /\ begun' = TRUE /\ UNCHANGED whole
       \/ begun' = FALSE /\ whole' = whole + 1
    /\ UNCHANGED <<closed, stop, given, answer>>

Close ==
    /\ ~closed
    /\ closed' = TRUE
    /\ UNCHANGED <<whole, begun, stop, given, answer>>

Stop ==
    /\ ~stop
    /\ stop' = TRUE
    /\ UNCHANGED <<whole, begun, closed, given, answer>>

Give ==
    /\ answer = "reading" /\ given < whole
    /\ given' = given + 1
    /\ UNCHANGED <<whole, begun, closed, stop, answer>>

End ==
    /\ answer = "reading"
    /\ stop \/ (closed /\ ~begun /\ given = whole)
    /\ answer' = "end"
    /\ UNCHANGED <<whole, begun, closed, stop, given>>

Fail ==
    /\ answer = "reading"
    /\ answer' = "failure"
    /\ UNCHANGED <<whole, begun, closed, stop, given>>

Next == Send \/ Close \/ Stop \/ Give \/ End \/ Fail

Spec == Init /\ [][Next]_vars
=============================================================================
