------------------------------ MODULE PacketRead ------------------------------
(***************************************************************************)
(* The two packet readers, one recv at a time, and the connection they     *)
(* read from: sysdvr_read_packet on sysdvr_read_exact (src/protocol.c,     *)
(* src/net.c), and sft_read_packet on read_exact_interruptible             *)
(* (src/sft_protocol.c).  backend says which of them reads; its caller     *)
(* reads packet after packet.                                              *)
(*                                                                         *)
(* The bytes of the stream are numbered; a packet is where it starts, the  *)
(* length its header claims, its type flags, and whether the rest of its   *)
(* header is right.  A reader knows only how far it has read.  Time passes *)
(* in ticks of 200 ms, the longest wait of a select, and only while a      *)
(* thread waits.                                                           *)
(***************************************************************************)
EXTENDS Integers, Sequences

CONSTANTS
    HeaderSize,     \* SYSDVR_PACKET_HEADER_SIZE, SFT_HEADER_SIZE
    Patience,       \* 15 s of SO_RCVTIMEO (SysDVR), 3 s (Frame Tap), in ticks
    FlagSets,       \* the flags a Frame Tap sender sets
    MaxLen,         \* bound: bytes in a payload
    MaxPackets      \* bound: packets

Backends == {"sysdvr", "frametap"}

(* The bits of a Frame Tap header, "other" for those without a meaning. *)
Flags == {"VIDEO", "KEY", "AUDIO", "STATUS", "CROP", "CROP_MID", "INPUT",
          "other"}

ASSUME ReadAssumption ==
    /\ HeaderSize \in Nat \ {0} /\ Patience \in [Backends -> Nat \ {0}]
    /\ FlagSets \subseteq SUBSET Flags
    /\ MaxLen \in Nat /\ MaxPackets \in Nat

VARIABLES
    backend,
    packets,        \* the packets sent or being sent
    out,            \* bytes sent
    line,           \* "open", "closed" or "reset" by the sender
    running,        \* the flag a Frame Tap read looks at
    stage,          \* what is being read: "header" or "payload"
    pc,             \* "test", "wait" or "judge"
    at,             \* bytes received
    done,           \* of them, bytes of the part being read
    deadline,       \* ticks until the read gives up, -1 if none is set
    given,          \* packets given to the caller
    result,         \* "reading", "end" (0), "failure" or "stalled" (-1)
    silence,        \* history: ticks waited since bytes were last sent
    longest,        \* history: the longest silence
    late            \* history: recvs since running was cleared

sendVars == <<backend, packets, out, line, running>>
readVars == <<stage, pc, at, done, deadline, given, result>>
histVars == <<silence, longest, late>>
vars == <<sendVars, readVars, histVars>>

(* SysDVR has nothing to test before a recv; its socket's timeout runs in  *)
(* each recv anew.                                                         *)
Entry == IF backend = "sysdvr" THEN "wait" ELSE "test"
Fresh == IF backend = "sysdvr" THEN Patience[backend] ELSE -1

Init ==
    /\ backend \in Backends
    /\ packets = <<>> /\ out = 0 /\ line = "open" /\ running = TRUE
    /\ stage = "header" /\ pc = Entry /\ at = 0 /\ done = 0
    /\ deadline = Fresh /\ given = 0 /\ result = "reading"
    /\ silence = 0 /\ longest = 0 /\ late = 0

-----------------------------------------------------------------------------
(* The header rules of Frame Tap: sft_parse_header takes INPUT away,       *)
(* sft_validate_header knows three types of packet.                        *)

Typed(f)    == f \ {"INPUT"}
IsStatus(f) == "STATUS" \in f
IsAudio(f)  == "AUDIO" \in f /\ "STATUS" \notin f
IsVideo(f)  == "VIDEO" \in f /\ f \cap {"AUDIO", "STATUS"} = {}

ValidFlags(raw) ==
    LET f == Typed(raw) IN
    /\ "other" \notin f
    /\ \/ IsStatus(f) /\ f = {"AUDIO", "STATUS"}
       \/ IsAudio(f) /\ f = {"AUDIO"}
       \/ IsVideo(f) /\ f \subseteq {"VIDEO", "KEY", "CROP", "CROP_MID"}

(* SysDVR packets may be empty. *)
Accepted(p) ==
    /\ p.right
    /\ backend = "frametap" => p.len > 0 /\ ValidFlags(p.flags)

-----------------------------------------------------------------------------
(* The sender.                                                             *)

End(p) == p.start + HeaderSize + p.len

(* Where the next packet will start. *)
Edge == IF packets = <<>> THEN 0 ELSE End(packets[Len(packets)])

Begin(n) ==
    /\ line = "open" /\ out = Edge
    /\ n \in 1..HeaderSize
    /\ \E f \in FlagSets, l \in 0..MaxLen, r \in BOOLEAN :
         packets' = Append(packets,
                       [start |-> out, len |-> l, flags |-> f, right |-> r])
    /\ out' = out + n
    /\ silence' = 0
    /\ UNCHANGED <<backend, line, running, readVars, longest, late>>

Continue(n) ==
    /\ line = "open" /\ out + n <= Edge
    /\ out' = out + n
    /\ silence' = 0
    /\ UNCHANGED <<backend, packets, line, running, readVars, longest, late>>

Hangup ==
    /\ line = "open"
    /\ line' \in {"closed", "reset"}
    /\ UNCHANGED <<backend, packets, out, running, readVars, histVars>>

(* The session ends: only Frame Tap's reads look at the flag. *)
Stop ==
    /\ backend = "frametap" /\ running
    /\ running' = FALSE
    /\ UNCHANGED <<backend, packets, out, line, readVars, histVars>>

-----------------------------------------------------------------------------
(* The reader.                                                             *)

Size == IF stage = "header" THEN HeaderSize ELSE packets[given + 1].len

Return(r) == result' = r /\ UNCHANGED <<stage, pc, at, done, deadline, given>>

(* The top of read_exact_interruptible's loop.  Interrupted in a payload,  *)
(* the 0 it returns is not the payload's length.                           *)
Due_Always == IF deadline = -1 THEN Patience[backend] ELSE deadline   \* mutant:
                    \* a sender that is idle between packets is given up, too
Due == IF (stage = "payload" \/ done > 0) /\ deadline = -1
       THEN Patience[backend] ELSE deadline

Test ==
    /\ result = "reading" /\ pc = "test"
    /\ CASE ~running /\ stage = "header"  -> Return("end")
         [] ~running /\ stage = "payload" -> Return("failure")
         [] running /\ Due = 0            -> Return("stalled")
         [] OTHER -> /\ deadline' = Due
                     /\ pc' = "wait"
                     /\ UNCHANGED <<stage, at, done, given, result>>
    /\ UNCHANGED <<sendVars, histVars>>

(* A tick passes without a byte.  SysDVR's recv gives up by itself, Frame  *)
(* Tap's select returns to the test.                                       *)
Silent ==
    /\ silence' = IF (backend = "sysdvr" \/ out # Edge)
                     /\ silence < Patience[backend]
                  THEN silence + 1 ELSE silence
    /\ longest' = IF silence' > longest THEN silence' ELSE longest

Turn ==
    /\ result = "reading" /\ pc = "wait" /\ at = out /\ line = "open"
    /\ IF backend = "sysdvr" /\ deadline = 1
       THEN Return("stalled")
       ELSE /\ deadline' = IF deadline > 0 THEN deadline - 1 ELSE deadline
            /\ pc' = Entry
            /\ UNCHANGED <<stage, at, done, given, result>>
    /\ Silent
    /\ UNCHANGED <<sendVars, late>>

(* EINTR: the call is made again. *)
Interrupted ==
    /\ result = "reading" /\ pc = "wait"
    /\ pc' = Entry
    /\ deadline' = IF backend = "sysdvr" THEN Fresh ELSE deadline
    /\ UNCHANGED <<sendVars, stage, at, done, given, result, histVars>>

(* recv takes what is there, but not more than it is asked for.  What had  *)
(* arrived before a reset may still be read.                               *)
Wanted_All == Size      \* mutant: the part already read is forgotten
Wanted == Size - done

(* Every recv extends the deadline; the loop starts again at its top. *)
Extended_Once == deadline   \* mutant: one deadline for the whole part
Extended == Patience[backend]

Again_Select == "wait"      \* mutant: running is tested after a timeout only
Again == Entry

(* A packet is complete: the caller has it, and reads the next. *)
Give ==
    /\ given' = given + 1
    /\ stage' = "header" /\ pc' = Entry /\ done' = 0 /\ deadline' = Fresh

Recv(n) ==
    /\ result = "reading" /\ pc = "wait"
    /\ n <= Wanted /\ at + n <= out
    /\ at' = at + n
    /\ late' = IF running THEN late ELSE late + 1
    /\ \/ /\ done + n < Size
          /\ done' = done + n /\ deadline' = Extended /\ pc' = Again
          /\ UNCHANGED <<stage, given>>
       \/ /\ done + n >= Size /\ stage = "header"
          /\ done' = done + n /\ pc' = "judge"
          /\ UNCHANGED <<stage, given, deadline>>
       \/ /\ done + n >= Size /\ stage = "payload"
          /\ Give
    /\ UNCHANGED <<sendVars, result, silence, longest>>

(* recv returns 0.  Only between two packets is that an end: a part of a   *)
(* header, and a payload without its length, are failures.                 *)
AtBoundary_Part == done = 0     \* mutant: an end before a payload counts
AtBoundary == stage = "header" /\ done = 0

Eof ==
    /\ result = "reading" /\ pc = "wait" /\ at = out /\ line = "closed"
    /\ Return(IF AtBoundary THEN "end" ELSE "failure")
    /\ UNCHANGED <<sendVars, histVars>>

Reset ==
    /\ result = "reading" /\ pc = "wait" /\ line = "reset"
    /\ Return("failure")
    /\ UNCHANGED <<sendVars, histVars>>

(* The header has been read: is it one, and will a payload follow? *)
Judge ==
    /\ result = "reading" /\ pc = "judge"
    /\ \/ /\ ~Accepted(packets[given + 1])
          /\ Return("failure")
       \/ /\ Accepted(packets[given + 1]) /\ packets[given + 1].len = 0
          /\ Give
          /\ UNCHANGED <<at, result>>
       \/ /\ Accepted(packets[given + 1]) /\ packets[given + 1].len > 0
          /\ stage' = "payload" /\ pc' = Entry /\ done' = 0
          /\ deadline' = Fresh
          /\ UNCHANGED <<at, given, result>>
    /\ UNCHANGED <<sendVars, histVars>>

Returned == result # "reading" /\ UNCHANGED vars

Reader ==
    \/ Test \/ Turn \/ Interrupted \/ Eof \/ Reset \/ Judge
    \/ \E n \in 1..(HeaderSize + MaxLen) : Recv(n)

Next ==
    \/ \E n \in 1..HeaderSize : Len(packets) < MaxPackets /\ Begin(n)
    \/ \E n \in 1..(HeaderSize + MaxLen) : Continue(n)
    \/ Hangup \/ Stop \/ Reader \/ Returned

Spec == Init /\ [][Next]_vars

-----------------------------------------------------------------------------
(* Properties.                                                             *)

(* Every variable keeps its type. *)
Packets == [start : Nat, len : 0..MaxLen, flags : FlagSets, right : BOOLEAN]

TypeOK ==
    /\ backend \in Backends /\ packets \in Seq(Packets) /\ out \in Nat
    /\ line \in {"open", "closed", "reset"} /\ running \in BOOLEAN
    /\ stage \in {"header", "payload"} /\ pc \in {"test", "wait", "judge"}
    /\ at \in Nat /\ done \in Nat /\ deadline \in {-1} \cup Nat
    /\ given \in Nat
    /\ result \in {"reading", "end", "failure", "stalled"}
    /\ silence \in Nat /\ longest \in Nat /\ late \in Nat

(* However the bytes of a packet are spread over the recvs, both readers   *)
(* give the packets the sender has sent whole, in order, and never report  *)
(* as a clean end (protocol.h:68) a stream that was cut inside a packet or *)
(* of which something is left.                                             *)
Whole == IF out = Edge THEN Len(packets) ELSE Len(packets) - 1

Stream == INSTANCE PacketStream WITH
    whole <- Whole, begun <- out # Edge, closed <- line # "open",
    stop <- ~running,
    answer <- IF result = "stalled" THEN "failure" ELSE result

ImplementsPacketStream == Stream!Spec

(* Slow is not stalled: a stream is given up for silence only if its       *)
(* sender was silent for the whole patience of the reader, for Frame Tap   *)
(* in the middle of a packet, however long the packets take.               *)
StallMeansSilence == result = "stalled" => longest >= Patience[backend]

(* A stop is noticed even while bytes keep coming: after running has been  *)
(* cleared, a Frame Tap read receives at most once more.                   *)
StopNoticed == late <= 1
=============================================================================
