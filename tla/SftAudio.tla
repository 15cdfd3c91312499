------------------------------- MODULE SftAudio -------------------------------
(***************************************************************************)
(* The sound of a Frame Tap session: sft_audio_open, sft_audio_offer and   *)
(* sft_audio_close on the stream thread, and SDL's audio thread, which     *)
(* takes sound from the same queue (src/sft_audio.c).                      *)
(*                                                                         *)
(* Sound is counted in blocks, time in ticks of any length.  The payload   *)
(* that sft_validate_header lets through is whole frames, so the rounding  *)
(* to frames never cuts anything.  Of the statistics only dropped_bytes is *)
(* kept.  sft_audio_reset has no caller and is left out.                   *)
(***************************************************************************)
EXTENDS Naturals, Sequences

CONSTANTS
    Keep,           \* SFT_AUDIO_PACKET_KEEP_MS, in blocks
    Limit,          \* SFT_AUDIO_QUEUE_LIMIT_MS, in blocks
    StallReset,     \* SFT_AUDIO_STALL_RESET_MS, in ticks
    MaxBlocks,      \* bound: blocks in one packet
    MaxOffered,     \* bound: blocks offered
    MaxTime         \* bound: ticks

ASSUME AudioAssumption ==
    /\ Keep \in Nat \ {0} /\ Limit \in Nat /\ Keep <= Limit
    /\ StallReset \in Nat \ {0}
    /\ MaxBlocks \in Nat /\ MaxOffered \in Nat /\ MaxTime \in Nat

VARIABLES
    device,         \* "none", "ready", "unavailable" or "closed"
    failed,
    last_offer,     \* when sound was last offered, 0 if never
    dropped_bytes,
    pc,             \* where the stream thread is in sft_audio_offer
    received,       \* when the packet it holds was received
    keep,           \* the blocks of it that are kept, its newest
    queued,         \* what SDL_GetQueuedAudioSize answered
    queue,          \* SDL's queue: when each block was received
    now,
    offered, played, lost   \* history: blocks offered, played, and refused
                            \* by SDL together with the failure

offerVars == <<device, failed, last_offer, dropped_bytes, pc, received, keep,
               queued>>
histVars  == <<offered, played, lost>>
vars == <<offerVars, queue, now, histVars>>

Init ==
    /\ device = "none" /\ failed = FALSE /\ last_offer = 0
    /\ dropped_bytes = 0 /\ pc = "idle" /\ received = 0 /\ keep = 0
    /\ queued = 0 /\ queue = <<>> /\ now = 1
    /\ offered = 0 /\ played = 0 /\ lost = 0

-----------------------------------------------------------------------------
(* The stream thread.                                                      *)

(* Once, when the first frame has been given to a player.  Every failure   *)
(* is final: the video goes on without sound.                              *)
Open ==
    /\ device = "none"
    /\ \/ device' = "ready" /\ UNCHANGED failed
       \/ device' = "unavailable" /\ failed' = TRUE
    /\ UNCHANGED <<last_offer, dropped_bytes, pc, received, keep, queued,
                   queue, now, histVars>>

(* A packet of more than Keep blocks loses its oldest. *)
Trimmed_Always(n) == n - Keep   \* mutant: short packets too, and it wraps
Trimmed(n) == IF n > Keep THEN n - Keep ELSE 0

(* The gap since the last offer is long enough for a reset. *)
Stalled_Late(at) == last_offer # 0 /\ at > last_offer + StallReset  \* mutant
Stalled(at) == last_offer # 0 /\ at >= last_offer + StallReset

Offer(n) ==
    /\ device = "ready" /\ ~failed /\ pc = "idle"
    /\ keep' = n - Trimmed(n)
    /\ dropped_bytes' = dropped_bytes + Trimmed(n)
    /\ received' = now
    /\ pc' = IF Stalled(now) THEN "stall" ELSE "note"
    /\ offered' = offered + n
    /\ UNCHANGED <<device, failed, last_offer, queued, queue, now, played,
                   lost>>

(* SDL_GetQueuedAudioSize; its answer is old as soon as SDL plays on. *)
Ask(here, enough, yes, no) ==
    /\ pc = here
    /\ queued' = Len(queue)
    /\ pc' = IF enough THEN yes ELSE no
    /\ UNCHANGED <<device, failed, last_offer, dropped_bytes, received, keep,
                   queue, now, histVars>>

TooMuch_Queued(q) == q > Limit  \* mutant: the packet to come is forgotten
TooMuch(q) == q + keep > Limit

AskStall == Ask("stall", Len(queue) > 0, "clear_stall", "note")
AskGuard == Ask("guard", TooMuch(Len(queue)), "clear_guard", "enqueue")

(* Everything in the queue goes, and what was seen in it is counted. *)
Counted_Late == dropped_bytes' = dropped_bytes + Len(queue')    \* mutant:
                    \* asked after the queue was cleared
Counted == dropped_bytes' = dropped_bytes + queued

Clear(here, next) ==
    /\ pc = here
    /\ queue' = <<>>
    /\ Counted
    /\ pc' = next
    /\ UNCHANGED <<device, failed, last_offer, received, keep, queued, now,
                   histVars>>

ClearStall == Clear("clear_stall", "note")
ClearGuard == Clear("clear_guard", "enqueue")

Note ==
    /\ pc = "note"
    /\ last_offer' = received
    /\ pc' = "guard"
    /\ UNCHANGED <<device, failed, dropped_bytes, received, keep, queued,
                   queue, now, histVars>>

(* SDL_QueueAudio takes the packet, or refuses it: then no more is offered.*)
Enqueue ==
    /\ pc = "enqueue"
    /\ pc' = "idle"
    /\ \/ /\ queue' = queue \o [i \in 1..keep |-> received]
          /\ UNCHANGED <<failed, lost>>
       \/ /\ failed' = TRUE
          /\ lost' = lost + keep
          /\ UNCHANGED queue
    /\ UNCHANGED <<device, last_offer, dropped_bytes, received, keep, queued,
                   now, offered, played>>

Close ==
    /\ device \in {"ready", "unavailable"} /\ pc = "idle"
    /\ device' = "closed"
    /\ queue' = <<>>
    /\ UNCHANGED <<failed, last_offer, dropped_bytes, pc, received, keep,
                   queued, now, histVars>>

-----------------------------------------------------------------------------
(* SDL's audio thread and the clock.  The device may fall behind the clock.*)

Play ==
    /\ queue # <<>>
    /\ queue' = Tail(queue)
    /\ played' = played + 1
    /\ UNCHANGED <<offerVars, now, offered, lost>>

Tick ==
    /\ now < MaxTime
    /\ now' = now + 1
    /\ UNCHANGED <<offerVars, queue, histVars>>

Closed == device = "closed" /\ UNCHANGED vars

Next ==
    \/ Open
    \/ \E n \in 1..MaxBlocks : offered + n <= MaxOffered /\ Offer(n)
    \/ AskStall \/ ClearStall \/ Note \/ AskGuard \/ ClearGuard \/ Enqueue
    \/ Close
    \/ Play \/ Tick \/ Closed

Spec == Init /\ [][Next]_vars

-----------------------------------------------------------------------------
(* Properties.                                                             *)

(* Every variable keeps its type. *)
TypeOK ==
    /\ device \in {"none", "ready", "unavailable", "closed"}
    /\ failed \in BOOLEAN /\ last_offer \in Nat /\ dropped_bytes \in Nat
    /\ pc \in {"idle", "stall", "clear_stall", "note", "guard",
               "clear_guard", "enqueue"}
    /\ received \in Nat /\ keep \in Nat /\ queued \in Nat
    /\ queue \in Seq(Nat) /\ now \in Nat
    /\ offered \in Nat /\ played \in Nat /\ lost \in Nat

(* The sound lags by no more than the limit (sft/audio.h:44): however the  *)
(* device drains the queue while a packet is offered, it never holds more. *)
LatencyBounded == Len(queue) <= Limit

(* What arrived before a stall is never played before what came after it:  *)
(* two neighbours in the queue arrived less than the stall time apart,     *)
(* even if the device itself stood still meanwhile.                        *)
NoStallInQueue ==
    \A i, j \in 1..Len(queue) :
        j = i + 1 => queue[j] < queue[i] + StallReset

(* No sound disappears unnoticed: whatever was offered is played, waits in *)
(* the queue, or is counted as dropped, save the packet SDL refused when   *)
(* sound was given up.  (SDL may play, between the question and the        *)
(* clearing, what is then counted too: the count may exceed the loss.)     *)
LossCounted ==
    device # "closed" /\ pc = "idle" =>
        offered <= played + Len(queue) + dropped_bytes + lost
=============================================================================
