---------------------------- MODULE FrametapVideo ----------------------------
(***************************************************************************)
(* How the Frame Tap stream thread treats a video packet: the video branch *)
(* of sft_stream_thread (src/frametap_backend.c).  It decides whether the  *)
(* frame may be given to the decoder, opens a decoder of the frame's size, *)
(* and asks the console for a fresh keyframe (SFTK).                       *)
(*                                                                         *)
(* A frame is its sequence number, its size and whether it is a key frame. *)
(* Status and audio packets do not touch this state; where they go, and    *)
(* the life of the thread, is FrametapSession's.                           *)
(*                                                                         *)
(* Time is counted in units of 250 ms, as the age of the last request.     *)
(* The code compares that age with two limits only, so it need not grow    *)
(* beyond the larger one.                                                  *)
(***************************************************************************)
EXTENDS Naturals

CONSTANTS
    SeqMod,         \* sequence numbers wrap: 2^32 in the code
    Sizes,          \* encoded picture sizes
    NoSize,         \* decoder_w = 0: no decoder was opened yet
    RequestGap,     \* 250 ms: least time between two requests
    RetryGap        \* 1 s: a waiting gate asks again

ASSUME VideoAssumption ==
    /\ SeqMod \in Nat /\ SeqMod > 1
    /\ NoSize \notin Sizes
    /\ RequestGap \in Nat \ {0} /\ RetryGap \in Nat /\ RequestGap <= RetryGap

Frames  == [seq : 0..SeqMod - 1, key : BOOLEAN, size : Sizes]
NoFrame == [seq |-> 0, key |-> FALSE, size |-> NoSize]

VARIABLES
    thread,         \* "reading", or "failed" once the thread gave up
    waiting_key,
    have_sequence,
    last_sequence,
    decoder,        \* decoder_w and decoder_h
    player,         \* player # NULL
    audio,          \* sft_audio_open: not yet tried, ready, unavailable
    age,            \* now - last_key_request, up to RetryGap
    \* history, read by properties only
    reference,      \* the last frame the decoder accepted
    sent_age,       \* the time since a request was really sent
    requests,       \* requests sent for the frame last handled
    skipped,        \* the frame last handled was skipped
    \* the console
    owed            \* a request it has not answered with a key frame

gate == <<thread, waiting_key, have_sequence, last_sequence, decoder, player,
          audio>>
vars == <<gate, age, reference, sent_age, requests, skipped, owed>>

(* The thread has just connected and sent its first request. *)
Init ==
    /\ thread = "reading" /\ waiting_key = TRUE
    /\ have_sequence = FALSE /\ last_sequence = 0
    /\ decoder = NoSize /\ player = FALSE /\ audio = "untried"
    /\ age = 0
    /\ reference = NoFrame /\ sent_age = 0 /\ requests = 1 /\ skipped = FALSE
    /\ owed = TRUE

-----------------------------------------------------------------------------
(* The decisions, in the order the code takes them.                        *)

Expected == (last_sequence + 1) % SeqMod

Gap(f) == have_sequence /\ f.seq # Expected

Resized_Ignored(f) == FALSE    \* mutant: a new size alone does not close it
Resized(f) == decoder # NoSize /\ f.size # decoder

(* waiting_key after the two tests: each sets it to !key. *)
Waiting(f) == IF Gap(f) \/ Resized(f) THEN ~f.key ELSE waiting_key

Skips(f) == Waiting(f) /\ ~f.key

(* The three places that ask, and the age of the last request after each.  *)
AskForGap(f) == Gap(f) /\ ~f.key /\ age >= RequestGap

AgeAfterGap_Kept(f) == age     \* mutant: last_key_request is not set
AgeAfterGap(f) == IF AskForGap(f) THEN 0 ELSE age

AskForSize(f) == Resized(f) /\ ~f.key /\ AgeAfterGap(f) >= RequestGap

AgeAfterSize(f) == IF AskForSize(f) THEN 0 ELSE AgeAfterGap(f)

AskAgain_Never(f) == FALSE     \* mutant: a waiting gate does not ask again
AskAgain(f) == Skips(f) /\ AgeAfterSize(f) >= RetryGap

AgeAfter_Always(f) == IF Skips(f) THEN 0 ELSE AgeAfterSize(f)
                               \* mutant: set outside the if
AgeAfter(f) == IF AskAgain(f) THEN 0 ELSE AgeAfterSize(f)

Asks(f) == (IF AskForGap(f) THEN 1 ELSE 0) + (IF AskForSize(f) THEN 1 ELSE 0)
               + (IF AskAgain(f) THEN 1 ELSE 0)

(* A new decoder is needed for this frame. *)
Reopens(f) == ~player \/ f.size # decoder

(* What every frame does, whatever becomes of it. *)
Arrive(f) ==
    /\ thread = "reading"
    /\ last_sequence' = f.seq /\ have_sequence' = TRUE
    /\ age' = AgeAfter(f)
    /\ requests' = Asks(f)
    /\ sent_age' = IF Asks(f) > 0 THEN 0 ELSE sent_age
    /\ owed' = (Asks(f) > 0 \/ (owed /\ ~f.key))

-----------------------------------------------------------------------------
(* The outcomes of a video packet.                                         *)

Skip(f) ==
    /\ Skips(f)
    /\ Arrive(f)
    /\ waiting_key' = Waiting(f)
    /\ skipped' = TRUE
    /\ UNCHANGED <<thread, decoder, player, audio, reference>>

(* ndl_media_create or ndl_media_open_video_only fails; the old player is  *)
(* gone and the thread gives up.                                           *)
OpenFails(f) ==
    /\ ~Skips(f) /\ Reopens(f)
    /\ Arrive(f)
    /\ waiting_key' = Waiting(f)
    /\ player' = FALSE /\ thread' = "failed"
    /\ reference' = NoFrame /\ skipped' = FALSE
    /\ UNCHANGED <<decoder, audio>>

(* The player, reopened for a new size; audio is opened with the first. *)
OpenAsNeeded(f) ==
    /\ player' = TRUE /\ decoder' = f.size
    /\ IF audio = "untried" THEN audio' \in {"ready", "unavailable"}
                            ELSE UNCHANGED audio

Show(f) ==
    /\ ~Skips(f)
    /\ Arrive(f)
    /\ OpenAsNeeded(f)
    /\ waiting_key' = FALSE
    /\ reference' = f /\ skipped' = FALSE
    /\ UNCHANGED thread

(* submit_video: the player rejects the frame, stays full for all retries, *)
(* or the session is stopped meanwhile.                                    *)
SubmitFails(f) ==
    /\ ~Skips(f)
    /\ Arrive(f)
    /\ OpenAsNeeded(f)
    /\ waiting_key' = FALSE
    /\ thread' = "failed"
    /\ skipped' = FALSE
    /\ reference' = IF Reopens(f) THEN NoFrame ELSE reference

VideoPacket(f) == Skip(f) \/ Show(f) \/ OpenFails(f) \/ SubmitFails(f)

Older_Late(a) == IF a <= RetryGap THEN a + 1 ELSE a    \* mutant
Older(a) == IF a < RetryGap THEN a + 1 ELSE a

Tick ==
    /\ thread = "reading"
    /\ age' = Older(age) /\ sent_age' = Older(sent_age)
    /\ skipped' = FALSE /\ requests' = 0
    /\ UNCHANGED <<gate, reference, owed>>

Terminated == thread = "failed" /\ UNCHANGED vars

Next == (\E f \in Frames : VideoPacket(f)) \/ Tick \/ Terminated

Spec == Init /\ [][Next]_vars

-----------------------------------------------------------------------------
(* The console keeps sending frames, a request is answered with a key      *)
(* frame, and time passes.                                                 *)

AnyFrame == \E f \in Frames : VideoPacket(f)
KeyFrame == owed /\ \E f \in Frames : f.key /\ VideoPacket(f)

FairSpec == Spec /\ WF_vars(Tick) /\ WF_vars(AnyFrame) /\ WF_vars(KeyFrame)

-----------------------------------------------------------------------------
(* Properties.                                                             *)

(* Every variable keeps its type; no frame asks more than three times, and *)
(* the ages stay within the limits they are compared with.                 *)
TypeOK ==
    /\ thread \in {"reading", "failed"}
    /\ waiting_key \in BOOLEAN /\ have_sequence \in BOOLEAN
    /\ last_sequence \in 0..SeqMod - 1
    /\ decoder \in Sizes \cup {NoSize} /\ player \in BOOLEAN
    /\ audio \in {"untried", "ready", "unavailable"}
    /\ age \in 0..RetryGap /\ sent_age \in 0..RetryGap
    /\ reference \in Frames \cup {NoFrame}
    /\ requests \in 0..3 /\ skipped \in BOOLEAN /\ owed \in BOOLEAN

(* ARCHITECTURE.md: the backend waits for an IDR before it resumes         *)
(* dependent P-frames, and recreates the decoder when the size changes.    *)
(* So the decoder is given a P-frame only right after the frame before it, *)
(* in the same size: never after a gap, a resize, or on a fresh decoder.   *)
Decodable(f, ref) ==
    f.key \/ /\ ref # NoFrame
             /\ f.seq = (ref.seq + 1) % SeqMod
             /\ f.size = ref.size

OnlyDecodableFrames ==
    [][reference' # reference /\ reference' # NoFrame
            => Decodable(reference', reference)]_vars

(* The console is never asked twice within RequestGap, in particular not   *)
(* twice for one frame that is both out of sequence and resized.           *)
RequestsSpaced ==
    [][requests' > 0 => requests' = 1 /\ sent_age >= RequestGap]_vars

(* While frames are being skipped the console has been asked for a key     *)
(* frame within the last RetryGap.                                         *)
SkippingIsAsked == skipped => sent_age < RetryGap

(* A console that answers requests always gets the picture back: the gate  *)
(* does not stay closed.                                                   *)
GateReopens == waiting_key ~> (~waiting_key \/ thread = "failed")
=============================================================================
