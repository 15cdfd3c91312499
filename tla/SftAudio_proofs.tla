---------------------------- MODULE SftAudio_proofs ----------------------------
(***************************************************************************)
(* Proofs about SftAudio, for any lengths of the packets, of the tail that *)
(* is kept, of the queue and of the stall, whatever SDL does between two   *)
(* of its calls.                                                           *)
(***************************************************************************)
EXTENDS SftAudio, SequenceTheorems, TLAPS

LEMMA Repeated ==
    ASSUME NEW n \in Nat, NEW r \in Nat
    PROVE  /\ [i \in 1..n |-> r] \in Seq(Nat)
           /\ Len([i \in 1..n |-> r]) = n
<1>1. [i \in 1..n |-> r] \in [1..n -> Nat]
  OBVIOUS
<1>2. [i \in 1..n |-> r] \in Seq(Nat)
  BY <1>1, SeqDef
<1>3. DOMAIN [i \in 1..n |-> r] = 1..Len([i \in 1..n |-> r])
  BY <1>2, LenProperties
<1>4. 1..Len([i \in 1..n |-> r]) = 1..n
  BY <1>3
<1>5. Len([i \in 1..n |-> r]) \in Nat
  BY <1>2, LenProperties
<1> QED
  BY <1>2, <1>4, <1>5

(* The queue after a packet went in, and after a block was played. *)
LEMMA Appended ==
    ASSUME TypeOK, queue' = queue \o [i \in 1..keep |-> received]
    PROVE  /\ queue' \in Seq(Nat)
           /\ Len(queue') = Len(queue) + keep
           /\ \A i \in 1..Len(queue') :
                queue'[i] = IF i <= Len(queue) THEN queue[i] ELSE received
<1> DEFINE p == [i \in 1..keep |-> received]
<1>1. p \in Seq(Nat) /\ Len(p) = keep
  BY Repeated DEF TypeOK
<1>2. \A i \in 1..keep : p[i] = received
  OBVIOUS
<1> HIDE DEF p
<1>3. queue \in Seq(Nat) /\ keep \in Nat
  BY DEF TypeOK
<1>4. /\ queue \o p \in Seq(Nat) /\ Len(queue \o p) = Len(queue) + keep
      /\ \A i \in 1..Len(queue) + keep :
            (queue \o p)[i] = IF i <= Len(queue) THEN queue[i]
                              ELSE p[i - Len(queue)]
  BY <1>1, <1>3, ConcatProperties
<1>5. queue' = queue \o p
  BY DEF p
<1>6. Len(queue) \in Nat
  BY <1>3, LenProperties
<1> QED
  BY <1>2, <1>3, <1>4, <1>5, <1>6

LEMMA PlayedOn ==
    ASSUME TypeOK, queue # <<>>, queue' = Tail(queue)
    PROVE  /\ queue' \in Seq(Nat)
           /\ Len(queue) \in Nat \ {0} /\ Len(queue') = Len(queue) - 1
           /\ \A i \in 1..Len(queue') : queue'[i] = queue[i + 1]
BY HeadTailProperties, EmptySeq DEF TypeOK

LEMMA TypeInit == Init => TypeOK
<1> SUFFICES ASSUME Init PROVE TypeOK
  OBVIOUS
<1>1. queue \in Seq(Nat)
  BY DEF Init
<1> QED
  BY <1>1 DEF Init, TypeOK

LEMMA TypeNext == TypeOK /\ [Next]_vars => TypeOK'
<1> SUFFICES ASSUME TypeOK, [Next]_vars PROVE TypeOK'
  OBVIOUS
<1>1. CASE Open
  BY <1>1 DEF Open, TypeOK, histVars
<1>2. ASSUME NEW n \in 1..MaxBlocks, Offer(n) PROVE TypeOK'
  <2>1. n \in Nat /\ Trimmed(n) \in Nat /\ n - Trimmed(n) \in Nat
    BY AudioAssumption DEF Trimmed
  <2> QED
    BY <1>2, <2>1 DEF Offer, TypeOK
<1>3. CASE AskStall \/ AskGuard
  <2>1. Len(queue) \in Nat
    BY LenProperties DEF TypeOK
  <2> QED
    BY <1>3, <2>1 DEF AskStall, AskGuard, Ask, TypeOK, histVars
<1>4. CASE ClearStall \/ ClearGuard
  <2>1. queue' \in Seq(Nat)
    BY <1>4, EmptySeq DEF ClearStall, ClearGuard, Clear
  <2>2. dropped_bytes' \in Nat
    BY <1>4 DEF ClearStall, ClearGuard, Clear, Counted, TypeOK
  <2> QED
    BY <1>4, <2>1, <2>2 DEF ClearStall, ClearGuard, Clear, TypeOK, histVars
<1>5. CASE Note
  BY <1>5 DEF Note, TypeOK, histVars
<1>6. CASE Enqueue
  <2>1. queue' \in Seq(Nat)
    BY <1>6, Appended DEF Enqueue, TypeOK
  <2> QED
    <3>1. lost' \in Nat
      BY <1>6 DEF Enqueue, TypeOK
    <3>2. failed' \in BOOLEAN
      BY <1>6 DEF Enqueue, TypeOK
    <3> QED
      BY <1>6, <2>1, <3>1, <3>2 DEF Enqueue, TypeOK
<1>7. CASE Close
  <2>1. <<>> \in Seq(Nat)
    OBVIOUS
  <2> QED
    BY <1>7, <2>1 DEF Close, TypeOK, histVars
<1>8. CASE Play
  BY <1>8, PlayedOn DEF Play, TypeOK, offerVars
<1>9. CASE Tick
  BY <1>9 DEF Tick, TypeOK, offerVars, histVars
<1>10. CASE UNCHANGED vars
  BY <1>10 DEF TypeOK, vars, offerVars, histVars
<1> QED
  BY <1>1, <1>2, <1>3, <1>4, <1>5, <1>6, <1>7, <1>8, <1>9, <1>10
  DEF Next, Closed

(* Every variable keeps its type: no count of dropped sound wraps. *)
THEOREM TypeCorrect == Spec => []TypeOK
BY TypeInit, TypeNext, PTL DEF Spec

-----------------------------------------------------------------------------
(***************************************************************************)
(* The bound on the queue.  The guard asks once how much is queued; from   *)
(* then on SDL can only take sound away, so that what was decided stays    *)
(* right: there is room for the packet when it is queued.                  *)
(***************************************************************************)

RoomInv ==
    /\ LatencyBounded
    /\ pc = "clear_guard" => keep <= Limit
    /\ pc # "idle" => keep \in 1..Keep
    /\ pc = "enqueue" => Len(queue) + keep <= Limit

LEMMA RoomInit == Init => RoomInv
BY AudioAssumption, EmptySeq DEF Init, RoomInv, LatencyBounded

LEMMA RoomNext == TypeOK /\ RoomInv /\ [Next]_vars => RoomInv'
<1> SUFFICES ASSUME TypeOK, RoomInv, [Next]_vars PROVE RoomInv'
  OBVIOUS
<1> USE AudioAssumption DEF RoomInv, LatencyBounded
<1>0. Len(queue) \in Nat /\ keep \in Nat /\ Len(<<>>) = 0
  BY LenProperties, EmptySeq DEF TypeOK
<1>1. CASE Open
  BY <1>1 DEF Open
<1>2. ASSUME NEW n \in 1..MaxBlocks, Offer(n) PROVE RoomInv'
  <2>1. n - Trimmed(n) \in 1..Keep
    BY DEF Trimmed
  <2> QED
    BY <1>2, <2>1 DEF Offer
<1>3. CASE AskStall \/ AskGuard
  BY <1>0, <1>3 DEF AskStall, AskGuard, Ask, TooMuch
<1>4. CASE ClearStall \/ ClearGuard
  BY <1>0, <1>4 DEF ClearStall, ClearGuard, Clear
<1>5. CASE Note
  BY <1>5 DEF Note
<1>6. CASE Enqueue
  BY <1>0, <1>6, Appended DEF Enqueue
<1>7. CASE Close
  BY <1>0, <1>7 DEF Close
<1>8. CASE Play
  BY <1>0, <1>8, PlayedOn DEF Play, offerVars
<1>9. CASE Tick
  BY <1>9 DEF Tick, offerVars
<1>10. CASE UNCHANGED vars
  BY <1>10 DEF vars, offerVars
<1> QED
  BY <1>1, <1>2, <1>3, <1>4, <1>5, <1>6, <1>7, <1>8, <1>9, <1>10
  DEF Next, Closed

(* The queue never holds more than the limit, in whatever order the stream *)
(* thread and SDL touch it.                                                *)
THEOREM LatencyCorrect == Spec => []LatencyBounded
<1>1. RoomInv => LatencyBounded
  BY DEF RoomInv
<1> QED
  BY <1>1, TypeInit, TypeNext, RoomInit, RoomNext, PTL DEF Spec

-----------------------------------------------------------------------------
(***************************************************************************)
(* Stalls.  The newest block of the queue is as old as the last offer      *)
(* says, so that the gap that is tested is the gap in the queue; once the  *)
(* test is passed, the packet that is held fits the newest block.          *)
(***************************************************************************)

Newest == queue[Len(queue)]

StallInv ==
    /\ NoStallInQueue
    /\ now >= 1
    /\ pc # "idle" => received >= 1 /\ keep >= 1
    /\ last_offer = 0 => queue = <<>>
    /\ (pc = "idle" => ~failed) /\ queue # <<>>
            /\ pc \in {"idle", "stall", "clear_stall"} => Newest = last_offer
    /\ queue # <<>> /\ pc \in {"note", "guard", "clear_guard", "enqueue"} =>
            received < Newest + StallReset
    /\ pc \in {"guard", "clear_guard", "enqueue"} => last_offer = received

LEMMA EmptyQueue == queue' = <<>> => NoStallInQueue'
<1> SUFFICES ASSUME queue' = <<>> PROVE NoStallInQueue'
  OBVIOUS
<1>1. Len(queue') = 0
  BY EmptySeq
<1> QED
  BY <1>1 DEF NoStallInQueue

LEMMA SameQueue ==
    ASSUME StallInv, UNCHANGED queue
    PROVE  NoStallInQueue' /\ Newest' = Newest
BY DEF StallInv, NoStallInQueue, Newest

LEMMA StallNext ==
    ASSUME TypeOK, RoomInv, StallInv, [Next]_vars
    PROVE  StallInv'
<1> USE AudioAssumption
<1>0. /\ queue \in Seq(Nat) /\ Len(queue) \in Nat /\ keep \in Nat
      /\ received \in Nat /\ last_offer \in Nat /\ now \in Nat
      /\ queue # <<>> => Len(queue) \in 1..Len(queue) /\ Newest \in Nat
  BY LenProperties, EmptySeq, ElementOfSeq DEF TypeOK, Newest
<1>1. CASE Open
  BY <1>1, SameQueue DEF Open, StallInv, histVars
<1>2. ASSUME NEW n \in 1..MaxBlocks, Offer(n) PROVE StallInv'
  <2>1. n - Trimmed(n) >= 1
    BY DEF Trimmed
  <2>2. queue # <<>> => Newest = last_offer /\ last_offer # 0
    BY <1>2 DEF Offer, StallInv
  <2>3. /\ pc' \in {"stall", "note"} /\ received' = now
        /\ keep' = n - Trimmed(n)
        /\ UNCHANGED <<last_offer, queue, now>>
        /\ pc' = "note" => ~Stalled(now)
    BY <1>2 DEF Offer
  <2>4. queue # <<>> /\ pc' = "note" => now < Newest + StallReset
    BY <1>0, <2>2, <2>3 DEF Stalled
  <2> QED
    BY <1>0, <2>1, <2>2, <2>3, <2>4, SameQueue DEF StallInv
<1>3. CASE AskStall \/ AskGuard
  <2>1. CASE AskStall
    <3>1. /\ pc = "stall" /\ pc' \in {"clear_stall", "note"}
          /\ pc' = "note" => queue = <<>>
          /\ UNCHANGED <<failed, last_offer, received, keep, queue, now>>
      BY <1>0, <2>1, EmptySeq DEF AskStall, Ask, TypeOK
    <3> QED
      BY <3>1, SameQueue DEF StallInv
  <2>2. CASE AskGuard
    BY <2>2, SameQueue DEF AskGuard, Ask, StallInv, histVars
  <2> QED
    BY <1>3, <2>1, <2>2
<1>4. CASE ClearStall \/ ClearGuard
  BY <1>4, EmptyQueue DEF ClearStall, ClearGuard, Clear, StallInv, histVars
<1>5. CASE Note
  BY <1>0, <1>5, SameQueue DEF Note, StallInv, histVars
<1>6. CASE Enqueue
  <2>1. CASE queue' = queue \o [i \in 1..keep |-> received]
    <3>1. /\ Len(queue') = Len(queue) + keep
          /\ \A i \in 1..Len(queue') :
               queue'[i] = IF i <= Len(queue) THEN queue[i] ELSE received
      BY <2>1, Appended
    <3>2. keep >= 1 /\ last_offer = received /\ received >= 1
      BY <1>6 DEF Enqueue, StallInv
    <3>3. Newest' = received
      BY <1>0, <3>1, <3>2 DEF Newest
    <3>4. ASSUME NEW i \in 1..Len(queue'), NEW j \in 1..Len(queue'),
                 j = i + 1
          PROVE  queue'[j] < queue'[i] + StallReset
      <4>1. CASE j <= Len(queue)
        <5>1. i \in 1..Len(queue) /\ j \in 1..Len(queue)
          BY <1>0, <3>1, <3>4, <4>1
        <5>2. queue'[i] = queue[i] /\ queue'[j] = queue[j]
          BY <1>0, <3>1, <5>1
        <5>3. queue[j] < queue[i] + StallReset
          BY <3>4, <5>1 DEF StallInv, NoStallInQueue
        <5> QED
          BY <5>2, <5>3
      <4>2. CASE i = Len(queue)
        <5>1. queue # <<>> /\ queue'[i] = Newest /\ queue'[j] = received
          BY <1>0, <3>1, <3>4, <4>2, EmptySeq DEF Newest
        <5> QED
          BY <1>6, <5>1 DEF Enqueue, StallInv
      <4>3. CASE i > Len(queue)
        BY <1>0, <3>1, <3>4, <4>3
      <4> QED
        BY <1>0, <3>1, <3>4, <4>1, <4>2, <4>3
    <3>5. NoStallInQueue'
      BY <3>4 DEF NoStallInQueue
    <3> QED
      BY <1>0, <1>6, <3>2, <3>3, <3>5 DEF Enqueue, StallInv
  <2>2. CASE failed' = TRUE /\ UNCHANGED queue
    BY <1>6, <2>2, SameQueue DEF Enqueue, StallInv
  <2> QED
    BY <1>6, <2>1, <2>2 DEF Enqueue
<1>7. CASE Close
  BY <1>7, EmptyQueue DEF Close, StallInv, histVars
<1>8. CASE Play
  <2>1. /\ queue # <<>>
        /\ UNCHANGED <<failed, last_offer, pc, received, keep, now>>
    BY <1>8 DEF Play, offerVars
  <2>2. /\ Len(queue) \in Nat \ {0} /\ Len(queue') = Len(queue) - 1
        /\ \A i \in 1..Len(queue') : queue'[i] = queue[i + 1]
        /\ queue' \in Seq(Nat)
    BY <1>8, PlayedOn DEF Play
  <2>3. queue' # <<>> => Newest' = Newest
    <3>1. queue' # <<>> => Len(queue') \in 1..Len(queue')
      BY <2>2, EmptySeq
    <3> QED
      BY <2>2, <3>1 DEF Newest
  <2>4. NoStallInQueue'
    <3> SUFFICES ASSUME NEW i \in 1..Len(queue'), NEW j \in 1..Len(queue'),
                        j = i + 1
                 PROVE  queue'[j] < queue'[i] + StallReset
      BY DEF NoStallInQueue
    <3>1. i + 1 \in 1..Len(queue) /\ j + 1 \in 1..Len(queue)
      BY <2>2
    <3>2. queue[j + 1] < queue[i + 1] + StallReset
      BY <3>1 DEF StallInv, NoStallInQueue
    <3> QED
      BY <2>2, <3>2
  <2> QED
    BY <2>1, <2>3, <2>4 DEF StallInv
<1>9. CASE Tick
  BY <1>0, <1>9, SameQueue DEF Tick, StallInv, offerVars
<1>10. CASE UNCHANGED vars
  BY <1>10, SameQueue DEF StallInv, vars, offerVars
<1> QED
  BY <1>1, <1>2, <1>3, <1>4, <1>5, <1>6, <1>7, <1>8, <1>9, <1>10
  DEF Next, Closed

(* Sound from before a stall never stays in the queue beside sound from    *)
(* after it.                                                               *)
THEOREM StallCorrect == Spec => []NoStallInQueue
<1>1. Init => StallInv
  <2> SUFFICES ASSUME Init PROVE StallInv
    OBVIOUS
  <2>1. Len(queue) = 0 /\ queue = <<>>
    BY EmptySeq DEF Init
  <2> QED
    BY <2>1 DEF Init, StallInv, NoStallInQueue
<1>2. StallInv => NoStallInQueue
  BY DEF StallInv
<1>3. TypeOK /\ RoomInv /\ StallInv /\ [Next]_vars => StallInv'
  BY StallNext
<1> QED
  BY <1>1, <1>2, <1>3, TypeInit, TypeNext, RoomInit, RoomNext, PTL DEF Spec

-----------------------------------------------------------------------------
(***************************************************************************)
(* The account of the sound.  While the thread is about to clear the       *)
(* queue, what it has seen is at least what is there; while it holds a     *)
(* packet, that packet is missing from the account.                        *)
(***************************************************************************)

Held == IF pc = "idle" THEN 0 ELSE keep

LossInv ==
    /\ pc \in {"clear_stall", "clear_guard"} => Len(queue) <= queued
    /\ device # "closed" =>
         offered <= played + Len(queue) + dropped_bytes + lost + Held

LEMMA LossNext ==
    ASSUME TypeOK, LossInv, [Next]_vars
    PROVE  LossInv'
<1> USE DEF LossInv, Held
<1>0. /\ Len(queue) \in Nat /\ Len(<<>>) = 0 /\ keep \in Nat
      /\ offered \in Nat /\ played \in Nat /\ dropped_bytes \in Nat
      /\ lost \in Nat /\ queued \in Nat
  BY LenProperties, EmptySeq DEF TypeOK
<1>1. CASE Open
  BY <1>1 DEF Open, histVars
<1>2. ASSUME NEW n \in 1..MaxBlocks, Offer(n) PROVE LossInv'
  <2>1. n \in Nat /\ Trimmed(n) \in Nat /\ n - Trimmed(n) \in Nat
    BY AudioAssumption DEF Trimmed
  <2> QED
    BY SMTT(40), <1>0, <1>2, <2>1 DEF Offer
<1>3. CASE AskStall \/ AskGuard
  BY <1>0, <1>3 DEF AskStall, AskGuard, Ask, histVars
<1>4. CASE ClearStall \/ ClearGuard
  BY <1>0, <1>4 DEF ClearStall, ClearGuard, Clear, Counted, histVars
<1>5. CASE Note
  BY <1>5 DEF Note, histVars
<1>6. CASE Enqueue
  BY <1>0, <1>6, Appended DEF Enqueue
<1>7. CASE Close
  BY <1>7 DEF Close
<1>8. CASE Play
  <2>1. Len(queue) \in Nat \ {0} /\ Len(queue') = Len(queue) - 1
    BY <1>8, PlayedOn DEF Play
  <2> QED
    BY <1>0, <1>8, <2>1 DEF Play, offerVars
<1>9. CASE Tick
  BY <1>9 DEF Tick, offerVars, histVars
<1>10. CASE UNCHANGED vars
  BY <1>10 DEF vars, offerVars, histVars
<1> QED
  BY <1>1, <1>2, <1>3, <1>4, <1>5, <1>6, <1>7, <1>8, <1>9, <1>10
  DEF Next, Closed

(* Every block that was offered is played, queued, or counted, although    *)
(* SDL plays on between the question how much is queued and the clearing.  *)
THEOREM AccountCorrect == Spec => []LossCounted
<1>1. Init => LossInv
  BY EmptySeq DEF Init, LossInv, Held
<1>2. TypeOK /\ LossInv /\ [Next]_vars => LossInv'
  BY LossNext
<1>3. TypeOK /\ LossInv => LossCounted
  <2> SUFFICES ASSUME TypeOK, LossInv PROVE LossCounted
    OBVIOUS
  <2>1. Len(queue) \in Nat
    BY LenProperties DEF TypeOK
  <2> QED
    BY <2>1 DEF TypeOK, LossInv, Held, LossCounted
<1> QED
  BY <1>1, <1>2, <1>3, TypeInit, TypeNext, PTL DEF Spec
=============================================================================
