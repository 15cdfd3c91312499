------------------------ MODULE FrametapVideo_proofs ------------------------
(***************************************************************************)
(* Proofs about FrametapVideo, for any wrap of the sequence numbers, any   *)
(* set of picture sizes and any two request limits.                        *)
(***************************************************************************)
EXTENDS FrametapVideo, TLAPS

LEMMA NoFrameIsNone == NoFrame \notin Frames
BY VideoAssumption DEF NoFrame, Frames

LEMMA AgesTyped ==
    ASSUME TypeOK, NEW f \in Frames
    PROVE  /\ AgeAfterGap(f) \in {0, age} /\ AgeAfterSize(f) \in {0, age}
           /\ AgeAfter(f) \in {0, age} /\ AgeAfter(f) \in 0..RetryGap
           /\ Asks(f) \in 0..3
BY VideoAssumption DEF TypeOK, AgeAfterGap, AgeAfterSize, AgeAfter, Asks

LEMMA TypeInit == Init => TypeOK
<1> SUFFICES ASSUME Init PROVE TypeOK
  OBVIOUS
<1>1. last_sequence \in 0..SeqMod - 1 /\ age \in 0..RetryGap
      /\ sent_age \in 0..RetryGap /\ requests \in 0..3
  BY VideoAssumption DEF Init
<1>2. waiting_key \in BOOLEAN /\ have_sequence \in BOOLEAN
      /\ player \in BOOLEAN /\ skipped \in BOOLEAN /\ owed \in BOOLEAN
  BY DEF Init
<1>3. /\ thread \in {"reading", "failed"}
      /\ audio \in {"untried", "ready", "unavailable"}
      /\ decoder \in Sizes \cup {NoSize}
      /\ reference \in Frames \cup {NoFrame}
  BY DEF Init
<1> QED
  BY <1>1, <1>2, <1>3 DEF TypeOK

LEMMA TypeVideo ==
    ASSUME TypeOK, NEW f \in Frames, VideoPacket(f)
    PROVE  TypeOK'
<1>1. /\ have_sequence' \in BOOLEAN /\ last_sequence' \in 0..SeqMod - 1
      /\ age' \in 0..RetryGap /\ sent_age' \in 0..RetryGap
      /\ requests' \in 0..3 /\ owed' \in BOOLEAN
  <2>1. Arrive(f)
    BY DEF VideoPacket, Skip, Show, OpenFails, SubmitFails
  <2> QED
    BY <2>1, AgesTyped, VideoAssumption DEF Arrive, TypeOK, Frames
<1>2. /\ waiting_key' \in BOOLEAN /\ skipped' \in BOOLEAN
      /\ thread' \in {"reading", "failed"}
      /\ reference' \in Frames \cup {NoFrame}
  BY DEF TypeOK, VideoPacket, Skip, Show, OpenFails, SubmitFails, Arrive, Waiting,
     Frames
<1>3. /\ decoder' \in Sizes \cup {NoSize} /\ player' \in BOOLEAN
      /\ audio' \in {"untried", "ready", "unavailable"}
  BY DEF TypeOK, VideoPacket, Skip, Show, OpenFails, SubmitFails, OpenAsNeeded,
     Frames
<1> QED
  BY <1>1, <1>2, <1>3 DEF TypeOK

LEMMA TypeNext == TypeOK /\ [Next]_vars => TypeOK'
<1> SUFFICES ASSUME TypeOK, [Next]_vars PROVE TypeOK'
  OBVIOUS
<1>1. ASSUME NEW f \in Frames, VideoPacket(f) PROVE TypeOK'
  BY <1>1, TypeVideo
<1>2. CASE Tick
  <2>1. \A a \in 0..RetryGap : Older(a) \in 0..RetryGap
    BY VideoAssumption DEF Older
  <2>2. age' \in 0..RetryGap /\ sent_age' \in 0..RetryGap
        /\ requests' \in 0..3
    BY <1>2, <2>1 DEF Tick, TypeOK
  <2>3. skipped' \in BOOLEAN /\ owed' \in BOOLEAN
    BY <1>2 DEF Tick, TypeOK
  <2>4. UNCHANGED <<gate, reference>>
    BY <1>2 DEF Tick
  <2> QED
    BY <2>2, <2>3, <2>4 DEF TypeOK, gate
<1>3. CASE UNCHANGED vars
  BY <1>3 DEF TypeOK, vars, gate
<1> QED
  BY <1>1, <1>2, <1>3 DEF Next, Terminated

(* Every variable keeps its type. *)
THEOREM TypeCorrect == Spec => []TypeOK
BY TypeInit, TypeNext, PTL DEF Spec

-----------------------------------------------------------------------------
(***************************************************************************)
(* An open gate stands for something: the decoder exists, and its          *)
(* reference is the very frame the sequence number was taken from, in the  *)
(* decoder's size.                                                         *)
(***************************************************************************)
GateInv ==
    /\ thread = "reading" => (player <=> decoder # NoSize)
    /\ thread = "reading" /\ ~waiting_key =>
        /\ player /\ have_sequence
        /\ reference # NoFrame
        /\ reference.seq = last_sequence /\ reference.size = decoder

LEMMA GateNext == TypeOK /\ GateInv /\ [Next]_vars => GateInv'
<1> SUFFICES ASSUME TypeOK, GateInv, [Next]_vars PROVE GateInv'
  OBVIOUS
<1>1. ASSUME NEW f \in Frames, Skip(f) PROVE GateInv'
  BY <1>1 DEF Skip, Skips, Arrive, GateInv
<1>2. ASSUME NEW f \in Frames, Show(f) PROVE GateInv'
  BY <1>2, NoFrameIsNone, VideoAssumption 
  DEF Show, Arrive, OpenAsNeeded, GateInv, Frames
<1>3. ASSUME NEW f \in Frames, OpenFails(f) \/ SubmitFails(f) PROVE GateInv'
  BY <1>3 DEF OpenFails, SubmitFails, Arrive, GateInv
<1>4. CASE Tick \/ UNCHANGED vars
  BY <1>4 DEF Tick, GateInv, vars, gate
<1> QED
  BY <1>1, <1>2, <1>3, <1>4 DEF Next, Terminated, VideoPacket

(* A P-frame reaches the decoder only right after the frame before it.     *)
LEMMA ShownIsDecodable ==
    ASSUME TypeOK, GateInv, NEW f \in Frames, Show(f)
    PROVE  Decodable(f, reference)
<1>1. CASE f.key
  BY <1>1 DEF Decodable
<1>2. CASE ~f.key
  <2>1. ~waiting_key /\ ~Gap(f) /\ ~Resized(f)
    BY <1>2 DEF Show, Skips, Waiting
  <2>2. /\ player /\ have_sequence /\ reference # NoFrame
        /\ reference.seq = last_sequence /\ reference.size = decoder
        /\ decoder # NoSize
    BY <2>1 DEF Show, Arrive, GateInv
  <2> QED
    BY <2>1, <2>2 DEF Decodable, Gap, Expected, Resized
<1> QED
  BY <1>1, <1>2

LEMMA StepDecodable ==
    TypeOK /\ GateInv /\ [Next]_vars =>
        [reference' # reference /\ reference' # NoFrame
            => Decodable(reference', reference)]_vars
<1> SUFFICES ASSUME TypeOK, GateInv, Next,
                    reference' # reference, reference' # NoFrame
             PROVE  Decodable(reference', reference)
  OBVIOUS
<1>1. PICK f \in Frames : Show(f)
  BY DEF Next, VideoPacket, Skip, OpenFails, SubmitFails, Tick, Terminated,
     vars, gate
<1> QED
  BY <1>1, ShownIsDecodable DEF Show

(* The decoder never gets a P-frame whose reference it does not have. *)
THEOREM DecodableCorrect == Spec => OnlyDecodableFrames
<1>1. Init => GateInv
  BY DEF Init, GateInv
<1> QED
  BY <1>1, TypeInit, TypeNext, GateNext, StepDecodable, PTL
  DEF Spec, OnlyDecodableFrames

-----------------------------------------------------------------------------
(* The requests.  last_key_request is the time of the last request sent.   *)

AgeInv == age = sent_age /\ SkippingIsAsked

LEMMA AsksAtMostOnce ==
    ASSUME TypeOK, NEW f \in Frames
    PROVE  /\ Asks(f) > 0 => Asks(f) = 1 /\ age >= RequestGap
           /\ AgeAfter(f) = IF Asks(f) > 0 THEN 0 ELSE age
           /\ Skips(f) => AgeAfter(f) < RetryGap
BY VideoAssumption DEF TypeOK, Asks, AskForGap, AskForSize, AskAgain,
   AgeAfterGap, AgeAfterSize, AgeAfter

LEMMA AgeNext == TypeOK /\ AgeInv /\ [Next]_vars => AgeInv'
<1> SUFFICES ASSUME TypeOK, AgeInv, [Next]_vars PROVE AgeInv'
  OBVIOUS
<1>1. ASSUME NEW f \in Frames, VideoPacket(f) PROVE AgeInv'
  <2>1. Arrive(f) /\ (skipped' => Skips(f))
    BY <1>1 DEF VideoPacket, Skip, Show, OpenFails, SubmitFails
  <2> QED
    BY <2>1, AsksAtMostOnce DEF Arrive, AgeInv, SkippingIsAsked
<1>2. CASE Tick
  BY <1>2 DEF Tick, AgeInv, SkippingIsAsked
<1>3. CASE UNCHANGED vars
  BY <1>3 DEF vars, AgeInv, SkippingIsAsked
<1> QED
  BY <1>1, <1>2, <1>3 DEF Next, Terminated

LEMMA AgeInit == Init => AgeInv
BY DEF Init, AgeInv, SkippingIsAsked

LEMMA StepSpaced ==
    TypeOK /\ AgeInv /\ [Next]_vars =>
        [requests' > 0 => requests' = 1 /\ sent_age >= RequestGap]_vars
<1> SUFFICES ASSUME TypeOK, AgeInv, Next, requests' > 0, vars' # vars
             PROVE  requests' = 1 /\ sent_age >= RequestGap
  OBVIOUS
<1>1. PICK f \in Frames : VideoPacket(f)
  BY DEF Next, Tick, Terminated
<1>2. requests' = Asks(f)
  BY <1>1 DEF VideoPacket, Skip, Show, OpenFails, SubmitFails, Arrive
<1> QED
  BY <1>2, AsksAtMostOnce DEF AgeInv

(* Requests are at least RequestGap apart. *)
THEOREM SpacingCorrect == Spec => RequestsSpaced
BY AgeInit, TypeInit, TypeNext, AgeNext, StepSpaced, PTL
DEF Spec, RequestsSpaced

(* Whoever skips frames has asked within RetryGap. *)
THEOREM AskingCorrect == Spec => []SkippingIsAsked
<1>1. AgeInv => SkippingIsAsked
  BY DEF AgeInv
<1> QED
  BY <1>1, AgeInit, TypeInit, TypeNext, AgeNext, PTL DEF Spec
=============================================================================
