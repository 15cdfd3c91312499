------------------------ MODULE SysdvrSession_proofs ------------------------
(***************************************************************************)
(* Proofs about SysdvrSession, for any bound on the retries and on the     *)
(* packets.                                                                *)
(***************************************************************************)
EXTENDS SysdvrSession, TLAPS

LEMMA VideoAndAudio == "video" \in Streams /\ "audio" \in Streams
BY DEF Streams

LEMMA TypeInit == Init => TypeOK
<1> SUFFICES ASSUME Init PROVE TypeOK
  OBVIOUS
<1>1. /\ wire \in [Streams -> Seq(Packet)]
      /\ received \in [Streams -> Seq(Nat)]
      /\ fed \in [Streams -> Seq(Nat)]
  BY DEF Init, All
<1>2. /\ retries \in [Streams -> 0..MaxRetries]
      /\ sent \in [Streams -> 0..MaxPackets]
      /\ packet \in [Streams -> Nat]
  BY SessionAssumption DEF Init, All, NoPacket
<1>3. /\ pc \in [Streams -> WorkerLocs]
      /\ fd \in [Streams -> {"none", "open", "shut", "closed"}]
      /\ started \in [Streams -> {"no", "yes", "failed"}]
      /\ peer \in [Streams -> {"idle", "up", "closed", "reset"}]
      /\ first_pending \in [Streams -> BOOLEAN]
      /\ transport_error \in [Streams -> BOOLEAN]
      /\ decoder_error \in [Streams -> BOOLEAN]
  BY DEF Init, All, WorkerLocs
<1> QED
  BY <1>1, <1>2, <1>3 DEF Init, TypeOK, MainLocs, Results, Nobody

LEMMA HeadAndTail ==
    ASSUME NEW S, NEW q \in Seq(S), q # <<>>
    PROVE  Head(q) \in S /\ Tail(q) \in Seq(S)
OBVIOUS

(* Giving up before the threads exist keeps the types. *)
LEMMA TypeGiveUp == TypeOK /\ GiveUp => TypeOK'
BY DEF TypeOK, GiveUp, Streams, MainLocs, Results, workerVars, netVars,
   histVars

(* The steps of the UI thread keep the types. *)
LEMMA TypeSetup ==
    ASSUME TypeOK, NEW s \in Streams, NEW here, NEW next \in MainLocs,
           \/ CreatePlayer \/ OpenPlayer
           \/ Connect(s, here, next) \/ Handshake(s, here, next)
           \/ PrimePacket(s, here, next)
           \/ PrimeFailure(s, here) \/ PrimeSilence(s, here)
           \/ PrimeNoMemory(s, here)
    PROVE  TypeOK'
<1>1. CASE GiveUp
  BY <1>1, TypeGiveUp
<1>2. CASE CreatePlayer /\ ~GiveUp
  BY <1>2 DEF CreatePlayer, TypeOK, MainLocs, workerVars, netVars, histVars
<1>3. CASE OpenPlayer /\ ~GiveUp
  BY <1>3 DEF OpenPlayer, TypeOK, MainLocs, workerVars, netVars, histVars
<1>4. CASE Connect(s, here, next) /\ ~GiveUp
  BY <1>4 DEF Connect, TypeOK, workerVars, netVars, histVars
<1>5. CASE Handshake(s, here, next) /\ ~GiveUp
  BY <1>5 DEF Handshake, TypeOK, workerVars, netVars, histVars
<1>6. CASE PrimePacket(s, here, next) /\ ~GiveUp
  <2> DEFINE p == Head(wire[s])
  <2>1. p \in Packet /\ Tail(wire[s]) \in Seq(Packet)
    <3>1. wire[s] \in Seq(Packet) /\ wire[s] # <<>>
      BY <1>6 DEF PrimePacket, HasPacket, TypeOK
    <3> QED
      BY <3>1, HeadAndTail
  <2>2. p.n \in Nat /\ Append(received[s], p.n) \in Seq(Nat)
    BY <2>1 DEF TypeOK, Packet
  <2>3. Take(s) => wire' \in [Streams -> Seq(Packet)]
    BY <2>1 DEF TypeOK, Take
  <2>4. CASE p.kind = "data"
    <3>1. /\ Take(s)
          /\ packet' = [packet EXCEPT ![s] = p.n]
          /\ first_pending' = [first_pending EXCEPT ![s] = TRUE]
          /\ received' = [received EXCEPT ![s] = Append(@, p.n)]
          /\ mpc' = next
          /\ UNCHANGED <<user_back, result, sharedVars, pc, retries,
                         transport_error, decoder_error, peer, sent, fed,
                         rejected, lost>>
      BY <1>6, <2>4 DEF PrimePacket
    <3> HIDE DEF p
    <3> QED
      BY <2>2, <2>3, <3>1 DEF TypeOK, sharedVars
  <2>5. CASE p.kind = "other"
    <3>1. /\ Take(s)
          /\ UNCHANGED <<mainVars, sharedVars, workerVars, peer, sent,
                         histVars>>
      BY <1>6, <2>5 DEF PrimePacket
    <3> QED
      BY <2>3, <3>1 DEF TypeOK, mainVars, sharedVars, workerVars, histVars
  <2> QED
    BY <1>6, <2>4, <2>5 DEF PrimePacket
<1> QED
  BY <1>1, <1>2, <1>3, <1>4, <1>5, <1>6 DEF PrimeFailure, PrimeSilence,
     PrimeNoMemory

LEMMA TypeTeardown ==
    ASSUME TypeOK, NEW s \in Streams, NEW here, NEW next \in MainLocs,
           \/ SpawnVideo \/ SpawnAudio \/ PollBack \/ PollQuit \/ PollEnd
           \/ StopWorkers \/ Shutdown(s, here, next) \/ Join(s, here, next)
           \/ Release
    PROVE  TypeOK'
<1>1. CASE SpawnVideo
  BY <1>1, VideoAndAudio DEF SpawnVideo, TypeOK, MainLocs, WorkerLocs,
     netVars, histVars
<1>2. CASE SpawnAudio
  BY <1>2, VideoAndAudio DEF SpawnAudio, TypeOK, MainLocs, WorkerLocs,
     netVars, histVars
<1>3. CASE PollBack \/ PollEnd
  BY <1>3 DEF PollBack, PollEnd, TypeOK, MainLocs, sharedVars, workerVars,
     netVars, histVars
<1>4. CASE PollQuit \/ StopWorkers
  BY <1>4 DEF PollQuit, StopWorkers, TypeOK, MainLocs, workerVars, netVars, histVars
<1>5. CASE Shutdown(s, here, next)
  BY <1>5 DEF Shutdown, ShutDown, TypeOK, workerVars, netVars, histVars
<1>6. CASE Join(s, here, next)
  BY <1>6 DEF Join, TypeOK, sharedVars, workerVars, netVars, histVars
<1>7. CASE Release
  BY <1>7 DEF Release, SessionResult, All, TypeOK, MainLocs, Results,
     workerVars, netVars, histVars
<1> QED
  BY <1>1, <1>2, <1>3, <1>4, <1>5, <1>6, <1>7

(* The steps of a stream thread keep the types. *)
LEMMA TypeWorker ==
    ASSUME TypeOK, NEW s \in Streams, WorkerStep(s) \/ ReadSilence(s)
    PROVE  TypeOK'
<1> USE DEF Goto
<1>1. CASE Begin(s) \/ Submit(s) \/ Loop(s)
  BY ZenonT(40), <1>1 DEF Begin, Submit, Loop, TypeOK, WorkerLocs, mainVars,
     sharedVars, netVars, histVars
<1>2. CASE Lock(s)
  BY <1>2 DEF Lock, TypeOK, WorkerLocs, mainVars, netVars, histVars
<1>3. CASE PlayOk(s)
  <2>1. Append(fed[s], packet[s]) \in Seq(Nat)
    BY DEF TypeOK
  <2>2. 0 \in 0..MaxRetries
    BY SessionAssumption
  <2> QED
    BY <1>3, <2>1, <2>2 DEF PlayOk, TypeOK, WorkerLocs, NoPacket, mainVars, netVars
<1>4. CASE PlayRetry(s)
  <2>1. retries[s] + 1 \in 0..MaxRetries
    BY <1>4, SessionAssumption DEF PlayRetry, MayRetry, TypeOK
  <2> QED
    BY <1>4, <2>1 DEF PlayRetry, TypeOK, WorkerLocs, mainVars, netVars,
       histVars
<1>5. CASE PlayReject(s) \/ Exit(s)
  BY <1>5 DEF PlayReject, Exit, TypeOK, WorkerLocs, mainVars, netVars, histVars
<1>6. CASE ReadEnd(s) \/ ReadFailure(s) \/ ReadSilence(s)
  BY <1>6 DEF ReadEnd, ReadFailure, ReadSilence, FailRead, Lose, TypeOK,
     WorkerLocs, mainVars, sharedVars, netVars
<1>7. CASE ReadPacket(s)
  <2> DEFINE p == Head(wire[s])
  <2>1. p \in Packet /\ Tail(wire[s]) \in Seq(Packet)
    <3>1. wire[s] \in Seq(Packet) /\ wire[s] # <<>>
      BY <1>7 DEF ReadPacket, HasPacket, TypeOK
    <3> QED
      BY <3>1, HeadAndTail
  <2>2. p.n \in Nat /\ Append(received[s], p.n) \in Seq(Nat)
    BY <2>1 DEF TypeOK, Packet
  <2>3. wire' \in [Streams -> Seq(Packet)]
    BY <1>7, <2>1 DEF TypeOK, Take, ReadPacket
  <2>4. \/ /\ packet' = [packet EXCEPT ![s] = p.n]
           /\ received' = [received EXCEPT ![s] = Append(@, p.n)]
           /\ Goto(s, "submit")
           /\ UNCHANGED <<transport_error, lost>>
        \/ UNCHANGED <<pc, packet, transport_error, received, lost>>
        \/ FailRead(s) /\ UNCHANGED <<packet, received>>
    BY <1>7 DEF ReadPacket
  <2>5. UNCHANGED <<mainVars, sharedVars, first_pending, retries,
                    decoder_error, peer, sent, fed, rejected>>
    BY <1>7 DEF ReadPacket
  <2> HIDE DEF p
  <2> QED
    BY ZenonT(40), <2>2, <2>3, <2>4, <2>5 DEF FailRead, Lose, TypeOK, WorkerLocs,
       mainVars, sharedVars
<1> QED
  BY <1>1, <1>2, <1>3, <1>4, <1>5, <1>6, <1>7 DEF WorkerStep

(* The console and a signal keep the types. *)
LEMMA TypeEnvironment ==
    ASSUME TypeOK, NEW s \in Streams,
           \/ \E kind \in Kinds : Send(s, kind)
           \/ \E how \in {"closed", "reset"} : Hangup(s, how)
           \/ Signal
    PROVE  TypeOK'
<1>1. ASSUME NEW kind \in Kinds, Send(s, kind) PROVE TypeOK'
  <2>1. sent[s] + 1 \in Nat \ {0}
    BY SessionAssumption DEF TypeOK
  <2>2. [kind |-> kind, n |-> sent[s] + 1] \in Packet
    BY <2>1 DEF Packet
  <2>3. Append(wire[s], [kind |-> kind, n |-> sent[s] + 1]) \in Seq(Packet)
    BY <2>2 DEF TypeOK
  <2>4. sent' \in [Streams -> 0..MaxPackets]
    <3>1. CASE sent[s] < MaxPackets /\ sent' = [sent EXCEPT ![s] = @ + 1]
      <4>1. sent[s] + 1 \in 0..MaxPackets
        BY <3>1, SessionAssumption DEF TypeOK
      <4> QED
        BY <3>1, <4>1 DEF TypeOK
    <3>2. CASE UNCHANGED sent
      BY <3>2 DEF TypeOK
    <3> QED
      BY <1>1, <3>1, <3>2 DEF Send
  <2> QED
    BY <1>1, <2>3, <2>4 DEF Send, TypeOK, mainVars, sharedVars, workerVars,
       histVars
<1>2. ASSUME NEW how \in {"closed", "reset"}, Hangup(s, how) PROVE TypeOK'
  BY <1>2 DEF Hangup, TypeOK, mainVars, sharedVars, workerVars, histVars
<1>3. CASE Signal
  BY <1>3 DEF Signal, TypeOK, mainVars, workerVars, netVars, histVars
<1> QED
  BY <1>1, <1>2, <1>3

LEMMA TypeNext == TypeOK /\ [Next]_vars => TypeOK'
<1> SUFFICES ASSUME TypeOK, [Next]_vars PROVE TypeOK'
  OBVIOUS
<1>2. CASE MainStep
  BY VideoAndAudio, <1>2, TypeSetup, TypeTeardown DEF MainStep, MainLocs
<1>3. CASE PrimeTimeout \/ NoMemory
  BY VideoAndAudio, <1>3, TypeSetup DEF PrimeTimeout, NoMemory, MainLocs
<1>4. ASSUME NEW s \in Streams, WorkerStep(s) \/ ReadSilence(s) PROVE TypeOK'
  BY <1>4, TypeWorker
<1>5. CASE Environment /\ ~NoMemory
  BY VideoAndAudio, <1>5, TypeEnvironment, TypeTeardown DEF Environment, MainLocs
<1>6. CASE UNCHANGED vars
  BY <1>6 DEF TypeOK, vars, mainVars, sharedVars, workerVars, netVars, histVars
<1> QED
  BY <1>2, <1>3, <1>4, <1>5, <1>6 DEF Next, Terminated

(* Every variable keeps its type, whatever the bounds. *)
THEOREM TypeCorrect == Spec => []TypeOK
BY TypeInit, TypeNext, PTL DEF Spec

-----------------------------------------------------------------------------
(***************************************************************************)
(* The resources.  WorkersHaveResources is not inductive: it holds because *)
(* of where the UI thread is.  ResourceInv says which resources it holds   *)
(* at each of its locations and which threads can be active there.         *)
(***************************************************************************)

BeforeSpawn == {"create", "open", "connect_video", "handshake_video",
                "connect_audio", "handshake_audio", "prime_video",
                "prime_audio", "spawn_video"}

HasPlayer == MainLocs \ {"create", "open", "done"}
HasVideo  == HasPlayer \ {"connect_video"}
HasAudio  == HasVideo \ {"handshake_video", "connect_audio"}

Active(s) == pc[s] \notin {"off", "ended"}

ResourceInv ==
    /\ mpc \in HasPlayer => player = "loaded"
    /\ mpc = "open" => player = "created"
    /\ mpc \in HasVideo => fd["video"] \in {"open", "shut"}
    /\ mpc \in HasAudio => fd["audio"] \in {"open", "shut"}
    /\ \A s \in Streams : Active(s) => started[s] = "yes"
    /\ mpc \in BeforeSpawn => \A s \in Streams : started[s] = "no"
    /\ mpc = "spawn_audio" => started["audio"] = "no"
    /\ mpc \in {"join_audio", "release", "done"} => ~Active("video")
    /\ mpc \in {"release", "done"} => ~Active("audio")

(* A thread inside the NDL library owns the mutex. *)
LockInv == \A s \in Streams : pc[s] = "play" => feed_lock = s

(* What each thread has received and fed, by where it is; the UI thread    *)
(* primes a stream once, before its thread exists.                         *)
Primed(s) == packet[s] # NoPacket /\ received[s] = Append(fed[s], packet[s])

FeedInv ==
    /\ \A s \in Streams :
        /\ pc[s] \in {"start", "submit", "lock", "play"} => Primed(s)
        /\ pc[s] \in {"loop", "read"} => fed[s] = received[s]
        /\ fed[s] = received[s] \/ Primed(s)
    /\ mpc \in BeforeSpawn \ {"prime_audio", "spawn_video"} =>
        fed["video"] = received["video"]
    /\ mpc \in BeforeSpawn \ {"spawn_video"} =>
        fed["audio"] = received["audio"]
    /\ mpc \in {"prime_audio", "spawn_video"} => Primed("video")
    /\ mpc \in {"spawn_video", "spawn_audio"} => Primed("audio")

-----------------------------------------------------------------------------
LEMMA ResourceInit == Init => ResourceInv
BY DEF Init, ResourceInv, All, HasPlayer, HasVideo, HasAudio, Active, Streams

(* The steps of the UI thread. *)
LEMMA ResourceMain ==
    ASSUME TypeOK, ResourceInv, MainStep \/ PrimeTimeout \/ NoMemory
    PROVE  ResourceInv'
<1> USE DEF TypeOK, ResourceInv, BeforeSpawn, HasPlayer, HasVideo, HasAudio,
            Active, MainLocs, Streams
<1>1. CASE GiveUp /\ mpc \in BeforeSpawn
  BY <1>1 DEF GiveUp, workerVars
<1>2. CASE CreatePlayer \/ OpenPlayer
  BY <1>1, <1>2 DEF CreatePlayer, OpenPlayer, workerVars
<1>3. CASE Connect("video", "connect_video", "handshake_video")
  BY <1>1, <1>3 DEF Connect, workerVars
<1>4. CASE Handshake("video", "handshake_video", "connect_audio")
  BY <1>1, <1>4 DEF Handshake, workerVars
<1>5. CASE Connect("audio", "connect_audio", "handshake_audio")
  BY <1>1, <1>5 DEF Connect, workerVars
<1>6. CASE Handshake("audio", "handshake_audio", "prime_video")
  BY <1>1, <1>6 DEF Handshake, workerVars
<1>7. CASE PrimePacket("video", "prime_video", "prime_audio")
  BY <1>1, <1>7 DEF PrimePacket, sharedVars, mainVars, workerVars
<1>8. CASE PrimePacket("audio", "prime_audio", "spawn_video")
  BY <1>1, <1>8 DEF PrimePacket, sharedVars, mainVars, workerVars
<1>9. CASE \/ PrimeFailure("video", "prime_video")
           \/ PrimeFailure("audio", "prime_audio")
           \/ PrimeTimeout \/ NoMemory
  BY <1>1, <1>9 DEF PrimeFailure, PrimeTimeout, PrimeSilence, NoMemory,
     PrimeNoMemory
<1>10. CASE SpawnVideo
  BY <1>10 DEF SpawnVideo
<1>11. CASE SpawnAudio
  BY <1>11 DEF SpawnAudio
<1>12. CASE PollEnd \/ StopWorkers
  BY <1>12 DEF PollEnd, StopWorkers, sharedVars, workerVars
<1>13. CASE Shutdown("video", "shutdown_video", "shutdown_audio")
  BY <1>13 DEF Shutdown, ShutDown, workerVars
<1>14. CASE Shutdown("audio", "shutdown_audio", "join_video")
  BY <1>14 DEF Shutdown, ShutDown, workerVars
<1>15. CASE Join("video", "join_video", "join_audio")
  BY <1>15 DEF Join, Joined, sharedVars, workerVars
<1>16. CASE Join("audio", "join_audio", "release")
  BY <1>16 DEF Join, Joined, sharedVars, workerVars
<1>17. CASE Release
  BY <1>17 DEF Release, workerVars
<1> QED
  BY <1>2, <1>3, <1>4, <1>5, <1>6, <1>7, <1>8, <1>9, <1>10, <1>11, <1>12,
     <1>13, <1>14, <1>15, <1>16, <1>17 DEF MainStep

(* A thread's step neither starts a thread nor touches a resource, and an  *)
(* ended thread stays ended.                                               *)
LEMMA WorkerKeeps ==
    ASSUME TypeOK, NEW s \in Streams, WorkerStep(s) \/ ReadSilence(s)
    PROVE  /\ UNCHANGED <<mpc, player, fd, started, user_back, g_signal_stop>>
           /\ Active(s)
           /\ \A t \in Streams \ {s} :
                UNCHANGED <<pc[t], packet[t], received[t], fed[t]>>
BY DEF WorkerStep, Begin, Submit, Lock, PlayOk, PlayRetry, PlayReject, Loop,
   ReadPacket, ReadEnd, ReadFailure, ReadSilence, FailRead, Exit, Goto,
   Active, TypeOK, mainVars, sharedVars, histVars

LEMMA ResourceNext == TypeOK /\ ResourceInv /\ [Next]_vars => ResourceInv'
<1> SUFFICES ASSUME TypeOK, ResourceInv, [Next]_vars PROVE ResourceInv'
  OBVIOUS
<1>1. CASE MainStep \/ PrimeTimeout \/ NoMemory
  BY <1>1, ResourceMain
<1>2. ASSUME NEW s \in Streams, WorkerStep(s) \/ ReadSilence(s)
      PROVE  ResourceInv'
  <2>1. /\ UNCHANGED <<mpc, player, fd, started>>
        /\ Active(s)
        /\ \A t \in Streams \ {s} : pc'[t] = pc[t]
    BY <1>2, WorkerKeeps
  <2> QED
    BY <2>1 DEF ResourceInv, Active, Streams
<1>3. CASE Environment /\ ~NoMemory
  <2>1. CASE PollBack \/ PollQuit
    BY <2>1 DEF PollBack, PollQuit, ResourceInv, Active, BeforeSpawn,
       HasPlayer, HasVideo, HasAudio, MainLocs, sharedVars, workerVars
  <2>2. ASSUME NEW s \in Streams, NEW kind \in Kinds, Send(s, kind)
        PROVE  ResourceInv'
    BY <2>2 DEF Send, ResourceInv, Active, mainVars, sharedVars, workerVars
  <2>3. ASSUME NEW s \in Streams, NEW how, Hangup(s, how)
        PROVE  ResourceInv'
    BY <2>3 DEF Hangup, ResourceInv, Active, mainVars, sharedVars, workerVars
  <2>4. CASE Signal
    BY <2>4 DEF Signal, ResourceInv, Active, mainVars, workerVars
  <2> QED
    BY <1>3, <2>1, <2>2, <2>3, <2>4 DEF Environment
<1>4. CASE UNCHANGED vars
  BY <1>4 DEF ResourceInv, Active, vars, mainVars, sharedVars, workerVars
<1> QED
  BY <1>1, <1>2, <1>3, <1>4 DEF Next, Terminated

LEMMA ResourcesAvailable == TypeOK /\ ResourceInv => WorkersHaveResources
BY DEF TypeOK, ResourceInv, WorkersHaveResources, Active, BeforeSpawn,
   HasPlayer, HasVideo, HasAudio, MainLocs, Streams

LEMMA ResourceInvariance == Spec => [](TypeOK /\ ResourceInv)
<1>1. Init => TypeOK /\ ResourceInv
  BY TypeInit, ResourceInit
<1>2. TypeOK /\ ResourceInv /\ [Next]_vars => TypeOK' /\ ResourceInv'
  BY TypeNext, ResourceNext
<1> QED
  BY <1>1, <1>2, PTL DEF Spec

(* No stream thread ever feeds a player that run_stream_session has        *)
(* destroyed or reads a socket it has closed.                              *)
THEOREM ResourcesCorrect == Spec => []WorkersHaveResources
BY ResourceInvariance, ResourcesAvailable, PTL

-----------------------------------------------------------------------------
(* Only a thread's step and SpawnVideo, SpawnAudio move a thread.          *)
LEMMA OthersKeep ==
    ASSUME TypeOK,
           \/ MainStep \/ PrimeTimeout \/ NoMemory \/ Environment
           \/ UNCHANGED vars
    PROVE  /\ UNCHANGED <<feed_lock, rejected, lost, fed>>
           /\ \/ UNCHANGED pc
              \/ SpawnVideo /\ pc' = [pc EXCEPT !["video"] = "start"]
              \/ SpawnAudio /\ pc' = [pc EXCEPT !["audio"] = "start"]
           /\ \/ UNCHANGED <<packet, received>>
              \/ PrimePacket("video", "prime_video", "prime_audio")
              \/ PrimePacket("audio", "prime_audio", "spawn_video")
<1>1. CASE MainStep \/ PrimeTimeout \/ NoMemory
  BY <1>1 DEF MainStep, PrimeTimeout, NoMemory, CreatePlayer, OpenPlayer,
     Connect, Handshake, PrimePacket, PrimeFailure, PrimeSilence,
     PrimeNoMemory, GiveUp, SpawnVideo, SpawnAudio, PollEnd, StopWorkers,
     Shutdown, Join, Release, mainVars, sharedVars, workerVars, histVars
<1>2. CASE Environment
  BY <1>1, <1>2 DEF Environment, PollBack, PollQuit, Signal, Send, Hangup,
     mainVars, sharedVars, workerVars, histVars
<1>3. CASE UNCHANGED vars
  BY <1>3 DEF vars, mainVars, sharedVars, workerVars, histVars
<1> QED
  BY <1>1, <1>2, <1>3

LEMMA LockNext == TypeOK /\ LockInv /\ [Next]_vars => LockInv'
<1> SUFFICES ASSUME TypeOK, LockInv, [Next]_vars PROVE LockInv'
  OBVIOUS
<1>1. ASSUME NEW s \in Streams, WorkerStep(s) \/ ReadSilence(s)
      PROVE  LockInv'
  BY <1>1 DEF LockInv, TypeOK, WorkerStep, Begin, Submit, Lock, LockFree,
     PlayOk, PlayRetry, PlayReject, Loop, ReadPacket, ReadEnd, ReadFailure,
     ReadSilence, FailRead, Exit, Goto, sharedVars, Streams, Nobody
<1>2. CASE ~(\E s \in Streams : WorkerStep(s) \/ ReadSilence(s))
  <2>1. /\ UNCHANGED feed_lock
        /\ \/ UNCHANGED pc
           \/ pc' = [pc EXCEPT !["video"] = "start"]
           \/ pc' = [pc EXCEPT !["audio"] = "start"]
    BY <1>2, OthersKeep DEF Next, Terminated
  <2> QED
    BY <2>1, VideoAndAudio DEF LockInv, TypeOK
<1> QED
  BY <1>1, <1>2

(* The threads are never in the NDL library together. *)
THEOREM MutualExclusion == Spec => []OneFeeder
<1>1. Init => LockInv
  BY DEF Init, LockInv, All
<1>2. LockInv => OneFeeder
  BY DEF LockInv, OneFeeder
<1> QED
  BY <1>1, <1>2, LockNext, TypeCorrect, PTL DEF Spec

-----------------------------------------------------------------------------
(* The order of the packets.                                               *)

LEMMA FeedInit == Init => FeedInv
BY DEF Init, FeedInv, All, Primed

LEMMA FeedWorker ==
    ASSUME TypeOK, ResourceInv, FeedInv,
           NEW s \in Streams, WorkerStep(s) \/ ReadSilence(s)
    PROVE  FeedInv'
<1>1. /\ UNCHANGED <<mpc, started>>
      /\ Active(s)
      /\ \A t \in Streams \ {s} :
            UNCHANGED <<pc[t], packet[t], received[t], fed[t]>>
  BY WorkerKeeps
<1>2. mpc \notin BeforeSpawn
  BY <1>1 DEF ResourceInv
<1>3. mpc = "spawn_audio" => s = "video"
  BY <1>1 DEF ResourceInv, Streams
<1>4. /\ pc'[s] \in {"start", "submit", "lock", "play"} => Primed(s)'
      /\ pc'[s] \in {"loop", "read"} => fed'[s] = received'[s]
      /\ fed'[s] = received'[s] \/ Primed(s)'
  <2> USE DEF Goto, FeedInv, Primed, TypeOK
  <2>1. CASE Begin(s) \/ Submit(s) \/ Lock(s) \/ Loop(s) \/ Exit(s)
    BY <2>1 DEF Begin, Submit, Lock, Loop, Exit, histVars
  <2>2. CASE PlayOk(s)
    BY <2>2 DEF PlayOk
  <2>3. CASE PlayRetry(s) \/ PlayReject(s)
    BY <2>3 DEF PlayRetry, PlayReject, histVars
  <2>4. CASE ReadEnd(s) \/ ReadFailure(s) \/ ReadSilence(s)
    BY <2>4 DEF ReadEnd, ReadFailure, ReadSilence, FailRead
  <2>5. CASE ReadPacket(s)
    <3> DEFINE p == Head(wire[s])
    <3>1. p.n # NoPacket
      <4>1. wire[s] \in Seq(Packet) /\ wire[s] # <<>>
        BY <2>5 DEF ReadPacket, HasPacket
      <4>2. p \in Packet
        BY <4>1, HeadAndTail
      <4> QED
        BY <4>2 DEF Packet, NoPacket
    <3>2. \/ /\ packet' = [packet EXCEPT ![s] = p.n]
             /\ received' = [received EXCEPT ![s] = Append(@, p.n)]
          \/ UNCHANGED <<packet, received>>
      BY <2>5 DEF ReadPacket, FailRead
    <3>3. /\ pc[s] = "read" /\ UNCHANGED fed
          /\ pc'[s] # "start"
          /\ pc'[s] \in {"submit", "lock", "play"} =>
                received' = [received EXCEPT ![s] = Append(@, p.n)]
          /\ pc'[s] \in {"loop", "read"} => UNCHANGED received
      BY <2>5 DEF ReadPacket, FailRead
    <3> HIDE DEF p
    <3> QED
      BY <3>1, <3>2, <3>3
  <2> QED
    BY <2>1, <2>2, <2>3, <2>4, <2>5 DEF WorkerStep
<1> QED
  BY <1>1, <1>2, <1>3, <1>4 DEF FeedInv, Primed, BeforeSpawn, Streams

(* Priming appends a packet to a stream that has fed all it received. *)
LEMMA FeedPrime ==
    ASSUME TypeOK, NEW s \in Streams, NEW here, NEW next,
           PrimePacket(s, here, next), fed[s] = received[s]
    PROVE  /\ UNCHANGED <<pc, fed>>
           /\ \A t \in Streams \ {s} : UNCHANGED <<packet[t], received[t]>>
           /\ \/ Primed(s)' /\ mpc' = next
              \/ UNCHANGED <<packet, received>> /\ mpc' \in {mpc, "done"}
<1> DEFINE p == Head(wire[s])
<1>1. p \in Packet
  <2>1. wire[s] \in Seq(Packet) /\ wire[s] # <<>>
    BY DEF PrimePacket, HasPacket, TypeOK
  <2> QED
    BY <2>1, HeadAndTail
<1>2. p.n # NoPacket
  BY <1>1 DEF Packet, NoPacket
<1>3. CASE p.kind = "data"
  <2>1. /\ packet' = [packet EXCEPT ![s] = p.n]
        /\ received' = [received EXCEPT ![s] = Append(@, p.n)]
        /\ mpc' = next /\ UNCHANGED <<pc, fed>>
    BY <1>3 DEF PrimePacket
  <2> HIDE DEF p
  <2> QED
    BY <2>1, <1>2 DEF TypeOK, Primed
<1>4. CASE p.kind # "data"
  BY <1>4 DEF PrimePacket, GiveUp, mainVars, workerVars, histVars
<1> QED
  BY <1>3, <1>4

LEMMA FeedOthers ==
    ASSUME TypeOK, ResourceInv, FeedInv,
           \/ MainStep \/ PrimeTimeout \/ NoMemory \/ Environment
           \/ UNCHANGED vars
    PROVE  FeedInv'
<1> USE DEF BeforeSpawn
<1>1. CASE PrimePacket("video", "prime_video", "prime_audio")
  <2>1. mpc = "prime_video"
    BY <1>1 DEF PrimePacket
  <2>2. fed["video"] = received["video"] /\ fed["audio"] = received["audio"]
    BY <2>1 DEF FeedInv
  <2>3. \A s \in Streams : pc[s] \in {"off", "ended"}
    BY <2>1 DEF ResourceInv, Active
  <2> QED
    BY <1>1, <2>1, <2>2, <2>3, FeedPrime, VideoAndAudio
    DEF FeedInv, Primed, Streams
<1>2. CASE PrimePacket("audio", "prime_audio", "spawn_video")
  <2>1. mpc = "prime_audio"
    BY <1>2 DEF PrimePacket
  <2>2. Primed("video") /\ fed["audio"] = received["audio"]
    BY <2>1 DEF FeedInv
  <2>3. \A s \in Streams : pc[s] \in {"off", "ended"}
    BY <2>1 DEF ResourceInv, Active
  <2> QED
    BY <1>2, <2>1, <2>2, <2>3, FeedPrime, VideoAndAudio
    DEF FeedInv, Primed, Streams
<1>3. CASE SpawnVideo \/ SpawnAudio
  <2>1. UNCHANGED <<packet, received, fed>>
    BY <1>3 DEF SpawnVideo, SpawnAudio, histVars
  <2> QED
    BY ZenonT(40), <1>3, <2>1, VideoAndAudio
    DEF SpawnVideo, SpawnAudio, FeedInv, Primed, TypeOK
<1>4. CASE /\ UNCHANGED <<pc, packet, received, fed>>
           /\ ~PrimePacket("video", "prime_video", "prime_audio")
           /\ ~PrimePacket("audio", "prime_audio", "spawn_video")
           /\ ~SpawnVideo /\ ~SpawnAudio
  <2>1. \/ mpc' \notin BeforeSpawn \cup {"spawn_audio"}
        \/ mpc' = mpc
        \/ mpc' \in BeforeSpawn \ {"prime_audio", "spawn_video"}
           /\ mpc \in BeforeSpawn \ {"prime_audio", "spawn_video"}
    <3>1. CASE MainStep \/ PrimeTimeout \/ NoMemory
      BY <1>4, <3>1 DEF MainStep, PrimeTimeout, NoMemory,
         CreatePlayer, OpenPlayer, Connect, Handshake, PrimeFailure,
         PrimeSilence, PrimeNoMemory, GiveUp, PollEnd, StopWorkers, Shutdown,
         Join, Release
    <3>2. CASE Environment /\ ~NoMemory
      BY <3>2 DEF Environment, PollBack, PollQuit, Signal, Send, Hangup,
         mainVars
    <3>3. CASE UNCHANGED vars
      BY <3>3 DEF vars, mainVars
    <3> QED
      BY <3>1, <3>2, <3>3
  <2> QED
    BY <1>4, <2>1 DEF FeedInv, Primed
<1> QED
  BY <1>1, <1>2, <1>3, <1>4, OthersKeep

LEMMA FeedNext ==
    TypeOK /\ ResourceInv /\ FeedInv /\ [Next]_vars => FeedInv'
BY FeedWorker, FeedOthers DEF Next, Terminated

(* Each stream is fed in order, without loss and without repetition, for   *)
(* any number of packets and of retries.                                   *)
THEOREM OrderCorrect == Spec => []FedInOrder
<1>1. FeedInv => FedInOrder
  BY DEF FeedInv, FedInOrder, Primed
<1> QED
  BY <1>1, FeedInit, FeedNext, ResourceInvariance, PTL DEF Spec

-----------------------------------------------------------------------------
(***************************************************************************)
(* Why a session ends.  As long as the UI thread has not shut a socket     *)
(* down, a stream that ends or breaks was lost; the flag is cleared, or a  *)
(* thread is leaving, only for a cause.                                    *)
(***************************************************************************)

Cause ==
    \/ user_back \/ g_signal_stop \/ rejected \/ lost # {}
    \/ \E s \in Streams : started[s] = "failed"

Priming  == {"prime_video", "prime_audio", "spawn_video"}
BothOpen ==
    Priming \cup {"handshake_audio", "spawn_audio", "poll", "stop",
                  "shutdown_video"}

CauseInv ==
    /\ mpc \in BeforeSpawn => \A s \in Streams : pc[s] = "off"
    /\ mpc = "spawn_audio" => pc["audio"] = "off"
    /\ mpc \in {"handshake_video", "connect_audio"} => fd["video"] = "open"
    /\ mpc \in BothOpen => \A s \in Streams : fd[s] = "open"
    /\ mpc \in Priming => running
    /\ mpc \in {"spawn_audio", "poll"} =>
        /\ ~running => Cause
        /\ \A s \in Streams : pc[s] \in {"exit", "ended"} => Cause
    /\ mpc \in {"stop", "shutdown_video"} => Cause

LEMMA CauseInit == Init => CauseInv
BY DEF Init, CauseInv, All, BeforeSpawn, Priming, BothOpen

(* What a thread's step does to the flag, to its socket's history and to   *)
(* its own way out.                                                        *)
LEMMA CauseWorker ==
    ASSUME TypeOK, ResourceInv, CauseInv,
           NEW s \in Streams, WorkerStep(s) \/ ReadSilence(s)
    PROVE  CauseInv'
<1>1. /\ UNCHANGED <<mpc, fd, started, user_back, g_signal_stop>>
      /\ Active(s)
      /\ \A t \in Streams \ {s} : UNCHANGED pc[t]
  BY WorkerKeeps
<1>2. mpc \notin BeforeSpawn
  BY <1>1 DEF ResourceInv
<1>3. mpc = "spawn_audio" => s = "video"
  BY <1>1 DEF ResourceInv, Streams
<1>4. /\ rejected => rejected'
      /\ lost \subseteq lost'
  BY DEF WorkerStep, Begin, Submit, Lock, PlayOk, PlayRetry, PlayReject,
     Loop, ReadPacket, ReadEnd, ReadFailure, ReadSilence, FailRead, Lose,
     Exit, TypeOK, histVars
<1>5. Cause => Cause'
  BY <1>1, <1>4 DEF Cause
<1>6. ASSUME fd[s] = "open"
      PROVE  /\ pc'[s] \in {"exit", "ended"} =>
                    \/ pc[s] \in {"exit", "ended"} \/ ~running
                    \/ rejected' \/ lost' # {}
             /\ ~running' => ~running \/ pc[s] = "exit"
  <2> USE DEF Goto, TypeOK
  <2>1. CASE Begin(s) \/ Submit(s) \/ Lock(s) \/ Loop(s) \/ Exit(s)
    BY <2>1 DEF Begin, Submit, Lock, Loop, KeepsReading, Exit, sharedVars
  <2>2. CASE PlayOk(s) \/ PlayRetry(s) \/ PlayReject(s)
    BY <2>2 DEF PlayOk, PlayRetry, PlayReject
  <2>3. CASE ReadEnd(s) \/ ReadFailure(s) \/ ReadSilence(s)
    BY <1>6, <2>3 DEF ReadEnd, ReadFailure, ReadSilence, FailRead, Lose,
       sharedVars
  <2>4. CASE ReadPacket(s)
    BY <1>6, <2>4 DEF ReadPacket, FailRead, Lose, sharedVars
  <2> QED
    BY <2>1, <2>2, <2>3, <2>4 DEF WorkerStep
<1>7. CASE mpc \in {"spawn_audio", "poll"}
  <2>1. fd[s] = "open"
    BY <1>7 DEF CauseInv, BothOpen
  <2>2. ~running' => Cause'
    BY <1>5, <1>6, <1>7, <2>1 DEF CauseInv
  <2>3. pc'[s] \in {"exit", "ended"} => Cause'
    BY <1>5, <1>6, <1>7, <2>1 DEF CauseInv, Cause
  <2>4. \A t \in Streams \ {s} : pc'[t] \in {"exit", "ended"} => Cause'
    BY <1>1, <1>5, <1>7 DEF CauseInv
  <2>5. mpc = "spawn_audio" => pc'["audio"] = "off"
    BY <1>1, <1>3 DEF CauseInv, Streams
  <2> QED
    BY <1>1, <1>2, <1>7, <2>2, <2>3, <2>4, <2>5 DEF CauseInv, Priming
<1>8. CASE mpc \notin {"spawn_audio", "poll"}
  BY <1>1, <1>2, <1>5, <1>8 DEF CauseInv, Priming, BeforeSpawn
<1> QED
  BY <1>7, <1>8

(* The steps of the UI thread. *)
LEMMA CauseMain ==
    ASSUME TypeOK, ResourceInv, CauseInv, MainStep \/ PrimeTimeout \/ NoMemory
    PROVE  CauseInv'
<1> USE DEF TypeOK, CauseInv, BeforeSpawn, Priming, BothOpen, MainLocs, Streams
<1>1. CASE GiveUp
  BY <1>1 DEF GiveUp
<1>2. CASE CreatePlayer \/ OpenPlayer
  BY <1>1, <1>2 DEF CreatePlayer, OpenPlayer, workerVars
<1>3. CASE Connect("video", "connect_video", "handshake_video")
  BY <1>1, <1>3 DEF Connect, workerVars
<1>4. CASE Handshake("video", "handshake_video", "connect_audio")
  BY <1>1, <1>4 DEF Handshake, workerVars
<1>5. CASE Connect("audio", "connect_audio", "handshake_audio")
  BY <1>1, <1>5 DEF Connect, workerVars
<1>6. CASE Handshake("audio", "handshake_audio", "prime_video")
  <2>1. CASE mpc' = "prime_video" /\ UNCHANGED <<fd, pc>>
    <3>1. running'
      BY <1>6, <2>1 DEF Handshake, GiveUp
    <3>2. fd["video"] = "open" /\ fd["audio"] = "open"
      BY <1>6 DEF Handshake
    <3> QED
      BY <1>6, <2>1, <3>1, <3>2 DEF Handshake
  <2> QED
    BY <1>1, <1>6, <2>1 DEF Handshake, workerVars
<1>7. ASSUME NEW s \in Streams, NEW here, NEW next,
             PrimePacket(s, here, next), here \in Priming,
             next \in Priming
      PROVE  CauseInv'
  <2>1. CASE UNCHANGED <<running, fd, pc>> /\ mpc' \in Priming
    <3>1. running /\ \A t \in Streams : fd[t] = "open"
      BY <1>7 DEF PrimePacket
    <3>2. \A t \in Streams : pc[t] = "off"
      BY <1>7 DEF PrimePacket
    <3> QED
      BY <2>1, <3>1, <3>2
  <2>2. GiveUp \/ (UNCHANGED <<running, fd, pc>> /\ mpc' \in Priming)
    BY <1>7 DEF PrimePacket, sharedVars, mainVars, workerVars
  <2> QED
    BY <1>1, <2>1, <2>2
<1>9. CASE \/ PrimeFailure("video", "prime_video")
           \/ PrimeFailure("audio", "prime_audio")
           \/ PrimeTimeout \/ NoMemory
  BY <1>1, <1>9 DEF PrimeFailure, PrimeTimeout, PrimeSilence, NoMemory,
     PrimeNoMemory
<1>10. CASE SpawnVideo
  BY <1>10 DEF SpawnVideo, Cause
<1>11. CASE SpawnAudio
  <2>1. /\ mpc = "spawn_audio" /\ mpc' = "poll"
        /\ UNCHANGED <<fd, user_back, g_signal_stop, rejected, lost>>
    BY <1>11 DEF SpawnAudio, histVars
  <2>2. \A s \in Streams : fd'[s] = "open"
    BY <2>1
  <2>3. pc'["video"] = pc["video"] /\ pc'["audio"] \in {"off", "start"}
    BY <1>11, <2>1 DEF SpawnAudio
  <2>4. Cause => Cause'
    <3>1. \A s \in Streams : started[s] = "failed" => started'[s] = "failed"
      BY <1>11, <2>1 DEF SpawnAudio, ResourceInv
    <3> QED
      BY <2>1, <3>1 DEF Cause
  <2>5. ~running' => Cause'
    <3>1. CASE running' = running
      BY <2>1, <2>4, <3>1
    <3>2. CASE started' = [started EXCEPT !["audio"] = "failed"]
      <4>1. started'["audio"] = "failed"
        BY <3>2
      <4> QED
        BY <4>1 DEF Cause
    <3> QED
      BY <1>11, <3>1, <3>2 DEF SpawnAudio
  <2> QED
    BY <2>1, <2>2, <2>3, <2>4, <2>5
<1>12. CASE PollEnd
  BY <1>12 DEF PollEnd, Cause, sharedVars, workerVars, histVars
<1>13. CASE StopWorkers
  BY <1>13 DEF StopWorkers, Cause, workerVars, histVars
<1>14. CASE \/ Shutdown("video", "shutdown_video", "shutdown_audio")
            \/ Shutdown("audio", "shutdown_audio", "join_video")
            \/ Join("video", "join_video", "join_audio")
            \/ Join("audio", "join_audio", "release")
            \/ Release
  BY <1>14 DEF Shutdown, Join, Release
<1> QED
  <2>1. CASE \/ PrimePacket("video", "prime_video", "prime_audio")
             \/ PrimePacket("audio", "prime_audio", "spawn_video")
    BY <1>7, <2>1
  <2> QED
    BY <1>2, <1>3, <1>4, <1>5, <1>6, <2>1, <1>9, <1>10, <1>11, <1>12,
       <1>13, <1>14 DEF MainStep

LEMMA CauseNext == TypeOK /\ ResourceInv /\ CauseInv /\ [Next]_vars => CauseInv'
<1> SUFFICES ASSUME TypeOK, ResourceInv, CauseInv, [Next]_vars PROVE CauseInv'
  OBVIOUS
<1>1. CASE MainStep \/ PrimeTimeout \/ NoMemory
  BY <1>1, CauseMain
<1>2. ASSUME NEW s \in Streams, WorkerStep(s) \/ ReadSilence(s) PROVE CauseInv'
  BY <1>2, CauseWorker
<1>3. CASE Environment /\ ~NoMemory
  <2> USE DEF CauseInv, BeforeSpawn, Priming, BothOpen, Cause
  <2>1. CASE PollBack \/ PollQuit
    BY <2>1 DEF PollBack, PollQuit, sharedVars, workerVars
  <2>2. ASSUME NEW s \in Streams, NEW kind \in Kinds, Send(s, kind)
        PROVE  CauseInv'
    BY <2>2 DEF Send, mainVars, sharedVars, workerVars, histVars
  <2>3. ASSUME NEW s \in Streams, NEW how, Hangup(s, how) PROVE CauseInv'
    BY <2>3 DEF Hangup, mainVars, sharedVars, workerVars, histVars
  <2>4. CASE Signal
    BY <2>4 DEF Signal, mainVars, workerVars, histVars
  <2> QED
    BY <1>3, <2>1, <2>2, <2>3, <2>4 DEF Environment
<1>4. CASE UNCHANGED vars
  BY <1>4 DEF CauseInv, Cause, vars, mainVars, sharedVars, workerVars, histVars
<1> QED
  BY <1>1, <1>2, <1>3, <1>4 DEF Next, Terminated

(* A session that streams ends only because the user left, a stop was      *)
(* requested, a stream was lost, a thread could not be started or the      *)
(* player refused a packet: whatever the interleaving of the threads.      *)
THEOREM CauseCorrect == Spec => []EndHasCause
<1>1. CauseInv => EndHasCause
  BY DEF CauseInv, EndHasCause, Cause
<1> QED
  BY <1>1, CauseInit, CauseNext, ResourceInvariance, PTL DEF Spec

-----------------------------------------------------------------------------
(***************************************************************************)
(* The refinement.  Every step of the session is a step of StreamSession   *)
(* or leaves the mapped variables alone.  Beyond the invariants above this *)
(* needs to know that no socket is shut down before the threads exist, and *)
(* that the flag is only cleared, while the UI thread polls, by a thread   *)
(* that ended or for one that was never started.                           *)
(***************************************************************************)

StreamInv ==
    /\ mpc \in BeforeSpawn => \A s \in Streams : fd[s] # "shut"
    /\ mpc = "poll" /\ ~running => \E s \in Streams : ~Active(s)

SessionInv == TypeOK /\ ResourceInv /\ CauseInv /\ StreamInv

LEMMA StreamInit == Init => StreamInv
BY DEF Init, StreamInv, All

LEMMA StreamMain ==
    ASSUME TypeOK, CauseInv, StreamInv, MainStep \/ PrimeTimeout \/ NoMemory
    PROVE  StreamInv'
<1> USE DEF TypeOK, CauseInv, StreamInv, BeforeSpawn, Active, Streams
<1>1. CASE GiveUp
  BY <1>1 DEF GiveUp
<1>2. CASE CreatePlayer \/ OpenPlayer
  BY <1>1, <1>2 DEF CreatePlayer, OpenPlayer
<1>3. CASE \/ Connect("video", "connect_video", "handshake_video")
           \/ Connect("audio", "connect_audio", "handshake_audio")
  BY <1>1, <1>3 DEF Connect
<1>4. CASE \/ Handshake("video", "handshake_video", "connect_audio")
           \/ Handshake("audio", "handshake_audio", "prime_video")
  BY <1>1, <1>4 DEF Handshake
<1>5. CASE \/ PrimePacket("video", "prime_video", "prime_audio")
           \/ PrimePacket("audio", "prime_audio", "spawn_video")
  BY <1>1, <1>5 DEF PrimePacket, sharedVars, mainVars
<1>6. CASE \/ PrimeFailure("video", "prime_video")
           \/ PrimeFailure("audio", "prime_audio")
           \/ PrimeTimeout \/ NoMemory
  BY <1>1, <1>6 DEF PrimeFailure, PrimeTimeout, PrimeSilence, NoMemory,
     PrimeNoMemory
<1>7. CASE SpawnVideo
  BY <1>7 DEF SpawnVideo
<1>8. CASE SpawnAudio
  BY <1>8 DEF SpawnAudio
<1>9. CASE PollEnd \/ StopWorkers
  BY <1>9 DEF PollEnd, StopWorkers, sharedVars
<1>10. CASE \/ Shutdown("video", "shutdown_video", "shutdown_audio")
            \/ Shutdown("audio", "shutdown_audio", "join_video")
  BY <1>10 DEF Shutdown
<1>11. CASE \/ Join("video", "join_video", "join_audio")
            \/ Join("audio", "join_audio", "release")
  BY <1>11 DEF Join
<1>12. CASE Release
  BY <1>12 DEF Release
<1> QED
  BY <1>2, <1>3, <1>4, <1>5, <1>6, <1>7, <1>8, <1>9, <1>10, <1>11, <1>12
     DEF MainStep

(* A thread clears the flag as it ends. *)
LEMMA FlagKept ==
    ASSUME TypeOK, NEW s \in Streams, WorkerStep(s) \/ ReadSilence(s)
    PROVE  ~running' => ~running \/ pc'[s] = "ended"
BY DEF WorkerStep, Begin, Submit, Lock, PlayOk, PlayRetry, PlayReject, Loop,
   ReadPacket, ReadEnd, ReadFailure, ReadSilence, FailRead, Exit, Goto,
   TypeOK, mainVars, sharedVars, histVars

LEMMA StreamNext ==
    TypeOK /\ CauseInv /\ StreamInv /\ [Next]_vars => StreamInv'
<1> SUFFICES ASSUME TypeOK, CauseInv, StreamInv, [Next]_vars
             PROVE  StreamInv'
  OBVIOUS
<1>1. CASE MainStep \/ PrimeTimeout \/ NoMemory
  BY <1>1, StreamMain
<1>2. ASSUME NEW s \in Streams, WorkerStep(s) \/ ReadSilence(s)
      PROVE  StreamInv'
  <2>1. /\ UNCHANGED <<mpc, fd>>
        /\ Active(s)
        /\ \A t \in Streams \ {s} : pc'[t] = pc[t]
    BY <1>2, WorkerKeeps
  <2>2. ~running' => ~running \/ pc'[s] = "ended"
    BY <1>2, FlagKept
  <2> QED
    BY <2>1, <2>2 DEF StreamInv, Active
<1>3. CASE Environment /\ ~NoMemory
  <2>1. CASE PollBack \/ PollQuit \/ Signal
    BY <2>1 DEF PollBack, PollQuit, Signal, mainVars, sharedVars,
       workerVars, StreamInv, BeforeSpawn, Active
  <2>2. ASSUME NEW s \in Streams, NEW kind \in Kinds, Send(s, kind)
        PROVE  StreamInv'
    BY <2>2 DEF Send, mainVars, sharedVars, workerVars, StreamInv, Active
  <2>3. ASSUME NEW s \in Streams, NEW how, Hangup(s, how)
        PROVE  StreamInv'
    BY <2>3 DEF Hangup, mainVars, sharedVars, workerVars, StreamInv, Active
  <2> QED
    BY <1>3, <2>1, <2>2, <2>3 DEF Environment
<1>4. CASE UNCHANGED vars
  BY <1>4 DEF vars, mainVars, sharedVars, workerVars, StreamInv, Active
<1> QED
  BY <1>1, <1>2, <1>3, <1>4 DEF Next, Terminated

LEMMA SessionInvariance == Spec => []SessionInv
BY StreamInit, StreamNext, CauseInit, CauseNext, ResourceInvariance, PTL
   DEF Spec, SessionInv

(* The mapped initial state, and the parts of the mapping.                 *)
LEMMA SessionInit == Init => Session!Init
BY DEF Init, Session!Init, SessionPhase, WorkerState, Holding, All

LEMMA MappedStutter ==
    ASSUME UNCHANGED <<mpc, pc, player, fd, user_back, g_signal_stop, result>>
    PROVE  UNCHANGED Session!vars
BY DEF Session!vars, SessionPhase, WorkerState, Holding

(* While the session opens no thread exists; its steps acquire, or give up.*)
Opening == BeforeSpawn \ {"spawn_video"}

LEMMA MappedOpening ==
    ASSUME mpc \in Opening, mpc' \in BeforeSpawn,
           Holding' \/ UNCHANGED <<player, fd>>,
           UNCHANGED <<pc, user_back, g_signal_stop, result>>
    PROVE  [Session!Next]_(Session!vars)
<1>1. /\ SessionPhase = "opening" /\ SessionPhase' = "opening"
      /\ WorkerState' = WorkerState
  BY DEF SessionPhase, WorkerState, Opening, BeforeSpawn
<1>2. CASE Holding'
  BY <1>1, <1>2 DEF Session!Next, Session!Acquire
<1>3. CASE UNCHANGED <<player, fd>>
  BY <1>1, <1>3 DEF Session!vars, Holding
<1> QED
  BY <1>2, <1>3

LEMMA MappedGiveUp ==
    ASSUME SessionInv, GiveUp, mpc \in BeforeSpawn
    PROVE  Session!Fail
<1>1. ~Holding'
  BY DEF GiveUp, Holding, SessionInv, TypeOK, StreamInv
<1>2. SessionPhase = "opening" /\ SessionPhase' = "done"
  BY DEF GiveUp, SessionPhase, BeforeSpawn
<1>3. result' \in Session!Failures
  BY DEF GiveUp, Session!Failures
<1>4. UNCHANGED <<WorkerState, user_back, g_signal_stop>>
  BY DEF GiveUp, WorkerState, workerVars
<1> QED
  BY <1>1, <1>2, <1>3, <1>4 DEF Session!Fail

LEMMA StepOpening ==
    ASSUME SessionInv, mpc \in BeforeSpawn,
           NEW s \in Streams, NEW here \in Opening, NEW next \in BeforeSpawn,
           \/ CreatePlayer \/ OpenPlayer
           \/ Connect(s, here, next) \/ Handshake(s, here, next)
           \/ PrimePacket(s, here, next) \/ PrimeFailure(s, here)
           \/ PrimeSilence(s, here) \/ PrimeNoMemory(s, here)
    PROVE  [Session!Next]_(Session!vars)
<1>1. CASE GiveUp
  BY <1>1, MappedGiveUp DEF Session!Next
<1>2. CASE CreatePlayer /\ ~GiveUp
  BY <1>2, MappedOpening DEF CreatePlayer, Holding, Opening, BeforeSpawn,
     workerVars
<1>3. CASE OpenPlayer /\ ~GiveUp
  BY <1>3, MappedOpening DEF OpenPlayer, Holding, Opening, BeforeSpawn,
     workerVars
<1>4. CASE Connect(s, here, next) /\ ~GiveUp
  <2>1. fd'[s] = "open"
    BY <1>4 DEF Connect, SessionInv, TypeOK
  <2> QED
    BY <1>4, <2>1, MappedOpening DEF Connect, Holding, workerVars
<1>5. CASE Handshake(s, here, next) /\ ~GiveUp
  BY <1>5, MappedOpening DEF Handshake, workerVars
<1>6. CASE PrimePacket(s, here, next) /\ ~GiveUp
  <2>1. /\ mpc \in Opening /\ mpc' \in BeforeSpawn
        /\ UNCHANGED <<player, fd, pc, user_back, g_signal_stop, result>>
    BY <1>6 DEF PrimePacket, mainVars, sharedVars, workerVars, Opening,
       BeforeSpawn
  <2> QED
    BY <2>1, MappedOpening
<1> QED
  BY <1>1, <1>2, <1>3, <1>4, <1>5, <1>6 DEF PrimeFailure, PrimeSilence,
     PrimeNoMemory

(* Starting the threads. *)
LEMMA StepSpawn ==
    ASSUME SessionInv, SpawnVideo \/ SpawnAudio
    PROVE  [Session!Next]_(Session!vars)
<1> USE VideoAndAudio
<1>1. CASE SpawnVideo
  <2>1. /\ SessionPhase = "opening" /\ SessionPhase' = "streaming"
        /\ Holding /\ Holding'
        /\ UNCHANGED <<user_back, g_signal_stop, result>>
    BY <1>1 DEF SpawnVideo, SessionPhase, Holding, SessionInv, ResourceInv,
       HasPlayer, MainLocs
  <2>2. \/ UNCHANGED WorkerState
        \/ WorkerState' = [WorkerState EXCEPT !["video"] = "alive"]
    <3>1. pc' = pc \/ pc' = [pc EXCEPT !["video"] = "start"]
      BY <1>1 DEF SpawnVideo
    <3> QED
      BY <3>1 DEF WorkerState, SessionInv, TypeOK
  <2> QED
    BY <2>1, <2>2 DEF Session!Next, Session!Begin
<1>2. CASE SpawnAudio
  <2>1. /\ SessionPhase = "streaming" /\ SessionPhase' = "streaming"
        /\ UNCHANGED <<Holding, user_back, g_signal_stop, result>>
        /\ WorkerState["audio"] = "unborn"
    BY <1>2 DEF SpawnAudio, SessionPhase, Holding, WorkerState, SessionInv,
       CauseInv
  <2>2. \/ UNCHANGED WorkerState
        \/ WorkerState' = [WorkerState EXCEPT !["audio"] = "alive"]
    BY ZenonT(40), <1>2 DEF SpawnAudio, WorkerState, SessionInv, TypeOK
  <2> QED
    BY <2>1, <2>2 DEF Session!Next, Session!Start, Session!vars
<1> QED
  BY <1>1, <1>2

(* Leaving the loop and tearing down. *)
LEMMA StepTeardown ==
    ASSUME SessionInv,
           \/ PollBack \/ PollQuit \/ PollEnd \/ StopWorkers
           \/ Shutdown("video", "shutdown_video", "shutdown_audio")
           \/ Shutdown("audio", "shutdown_audio", "join_video")
           \/ Join("video", "join_video", "join_audio")
           \/ Join("audio", "join_audio", "release")
           \/ Release
    PROVE  [Session!Next]_(Session!vars)
<1>1. CASE PollBack
  BY <1>1 DEF PollBack, sharedVars, workerVars, SessionPhase, WorkerState,
     Holding, Session!Next, Session!Leave
<1>2. CASE PollQuit
  BY <1>2 DEF PollQuit, workerVars, SessionPhase, WorkerState, Holding,
     Session!Next, Session!Quit
<1>3. CASE PollEnd
  <2>1. g_signal_stop \/ \E s \in Streams : WorkerState[s] # "alive"
    BY <1>3 DEF PollEnd, SessionInv, StreamInv, Active, WorkerState
  <2>2. /\ SessionPhase = "streaming" /\ SessionPhase' = "stopping"
        /\ UNCHANGED <<WorkerState, Holding, user_back, g_signal_stop, result>>
    BY <1>3 DEF PollEnd, sharedVars, workerVars, SessionPhase, WorkerState,
       Holding
  <2> QED
    BY <2>1, <2>2 DEF Session!Next, Session!End
<1>4. CASE StopWorkers
  BY <1>4 DEF StopWorkers, workerVars, SessionPhase, WorkerState, Holding,
     Session!vars
<1>5. ASSUME NEW s \in Streams, NEW here, NEW next,
             Shutdown(s, here, next),
             here \in {"shutdown_video", "shutdown_audio"},
             next \in {"shutdown_audio", "join_video"}
      PROVE  UNCHANGED Session!vars
  <2>1. Holding /\ Holding'
    BY <1>5 DEF Shutdown, Holding, SessionInv, ResourceInv, HasPlayer,
       MainLocs
  <2>2. SessionPhase = "stopping" /\ SessionPhase' = "stopping"
    BY <1>5 DEF Shutdown, SessionPhase
  <2>3. UNCHANGED <<WorkerState, user_back, g_signal_stop, result>>
    BY <1>5 DEF Shutdown, workerVars, WorkerState
  <2> QED
    BY <2>1, <2>2, <2>3 DEF Session!vars
<1>6. ASSUME NEW s \in Streams, NEW here, NEW next, Join(s, here, next),
             here \in {"join_video", "join_audio"},
             next \in {"join_audio", "release"}
      PROVE  UNCHANGED Session!vars
  BY <1>6 DEF Join, sharedVars, workerVars, SessionPhase, WorkerState,
     Holding, Session!vars
<1>7. CASE Release
  <2>1. \A s \in Streams : WorkerState[s] # "alive"
    BY <1>7 DEF Release, SessionInv, ResourceInv, Active, WorkerState, Streams
  <2>2. /\ SessionPhase = "stopping" /\ SessionPhase' = "done"
        /\ ~Holding'
        /\ UNCHANGED <<WorkerState, user_back, g_signal_stop>>
    BY <1>7 DEF Release, All, workerVars, SessionPhase, WorkerState, Holding
  <2>3. result' \in IF user_back THEN {"USER_BACK"} ELSE Session!Failures
    BY <1>7 DEF Release, SessionResult, Session!Failures
  <2> QED
    BY <2>1, <2>2, <2>3 DEF Session!Next, Session!Return
<1> QED
  BY <1>1, <1>2, <1>3, <1>4, <1>5, <1>6, <1>7, VideoAndAudio

LEMMA StepWorker ==
    ASSUME SessionInv, NEW s \in Streams, WorkerStep(s) \/ ReadSilence(s)
    PROVE  [Session!Next]_(Session!vars)
<1>1. /\ UNCHANGED <<mpc, player, fd, user_back, g_signal_stop>>
      /\ Active(s)
      /\ \A t \in Streams \ {s} : pc'[t] = pc[t]
  BY WorkerKeeps DEF SessionInv
<1>2. pc'[s] # "off" /\ pc' \in [Streams -> WorkerLocs] /\ result' = result
  BY DEF WorkerStep, Begin, Submit, Lock, PlayOk, PlayRetry, PlayReject, Loop,
     ReadPacket, ReadEnd, ReadFailure, ReadSilence, FailRead, Exit, Goto,
     SessionInv, TypeOK, WorkerLocs, mainVars, sharedVars, histVars
<1>3. UNCHANGED <<SessionPhase, Holding, user_back, g_signal_stop, result>>
  BY <1>1, <1>2 DEF SessionPhase, Holding
<1>4. WorkerState[s] = "alive"
  BY <1>1 DEF Active, WorkerState
<1>5. CASE pc'[s] = "ended"
  <2>1. WorkerState' = [WorkerState EXCEPT ![s] = "ended"]
    BY <1>1, <1>5 DEF WorkerState, Streams
  <2> QED
    BY <1>3, <1>4, <2>1 DEF Session!Next, Session!WorkerEnds
<1>6. CASE pc'[s] # "ended"
  <2>1. WorkerState' = WorkerState
    BY <1>1, <1>2, <1>6 DEF WorkerState, Active
  <2> QED
    BY <1>3, <2>1 DEF Session!vars
<1> QED
  BY <1>5, <1>6

LEMMA SessionNext == SessionInv /\ [Next]_vars => [Session!Next]_(Session!vars)
<1> SUFFICES ASSUME SessionInv, [Next]_vars
             PROVE  [Session!Next]_(Session!vars)
  OBVIOUS
<1> USE VideoAndAudio
<1>1. CASE MainStep
  <2>1. CASE SpawnVideo \/ SpawnAudio
    BY <2>1, StepSpawn
  <2>2. CASE CreatePlayer \/ OpenPlayer
    BY <2>2, StepOpening DEF CreatePlayer, OpenPlayer, Opening, BeforeSpawn
  <2>3. CASE \/ Connect("video", "connect_video", "handshake_video")
             \/ Handshake("video", "handshake_video", "connect_audio")
             \/ Connect("audio", "connect_audio", "handshake_audio")
             \/ Handshake("audio", "handshake_audio", "prime_video")
    BY <2>3, StepOpening DEF Connect, Handshake, Opening, BeforeSpawn
  <2>4. CASE \/ PrimePacket("video", "prime_video", "prime_audio")
             \/ PrimeFailure("video", "prime_video")
             \/ PrimePacket("audio", "prime_audio", "spawn_video")
             \/ PrimeFailure("audio", "prime_audio")
    BY <2>4, StepOpening DEF PrimePacket, PrimeFailure, Opening, BeforeSpawn
  <2> QED
    BY <1>1, <2>1, <2>2, <2>3, <2>4, StepTeardown DEF MainStep
<1>2. CASE PrimeTimeout \/ NoMemory
  BY <1>2, StepOpening DEF PrimeTimeout, PrimeSilence, NoMemory,
     PrimeNoMemory, Opening, BeforeSpawn
<1>3. ASSUME NEW s \in Streams, WorkerStep(s) \/ ReadSilence(s)
      PROVE  [Session!Next]_(Session!vars)
  BY <1>3, StepWorker
<1>4. CASE Environment /\ ~NoMemory
  <2>1. CASE PollBack \/ PollQuit
    BY <2>1, StepTeardown
  <2>2. CASE Signal
    <3>1. /\ g_signal_stop' = TRUE
          /\ UNCHANGED <<mpc, pc, player, fd, user_back, result>>
      BY <2>2 DEF Signal, mainVars, workerVars
    <3>2. SessionPhase # "killed"
      BY DEF SessionPhase
    <3> QED
      BY <3>1, <3>2 DEF SessionPhase, WorkerState, Holding, Session!Next,
         Session!Signal
  <2>3. ASSUME NEW s \in Streams, NEW kind \in Kinds, Send(s, kind)
        PROVE  UNCHANGED Session!vars
    BY <2>3, MappedStutter DEF Send, mainVars, sharedVars, workerVars
  <2>4. ASSUME NEW s \in Streams, NEW how, Hangup(s, how)
        PROVE  UNCHANGED Session!vars
    BY <2>4, MappedStutter DEF Hangup, mainVars, sharedVars, workerVars
  <2> QED
    BY <1>4, <2>1, <2>2, <2>3, <2>4 DEF Environment
<1>5. CASE UNCHANGED vars
  BY <1>5, MappedStutter DEF vars, mainVars, sharedVars, workerVars
<1> QED
  BY <1>1, <1>2, <1>3, <1>4, <1>5 DEF Next, Terminated

(* The SysDVR session implements the abstract session: for any number of   *)
(* retries and packets it streams, stops, waits for its threads, releases  *)
(* what it holds and answers as the selector was promised.                 *)
THEOREM SysdvrRefinesSession == Spec => ImplementsStreamSession
<1>1. Spec => Session!Init /\ [][Session!Next]_(Session!vars)
  BY SessionInit, SessionNext, SessionInvariance, PTL DEF Spec
<1> QED
  BY <1>1 DEF ImplementsStreamSession, Session!Spec

-----------------------------------------------------------------------------
(***************************************************************************)
(* What the refinement hands down.  The theorems of StreamSession_proofs,  *)
(* read under the refinement mapping.                                      *)
(***************************************************************************)
Promised == INSTANCE StreamSession_proofs
               WITH Workers <- Streams, Writers <- {},
                    phase <- SessionPhase, worker <- WorkerState,
                    holding <- Holding, back <- user_back,
                    stop <- g_signal_stop

LEMMA SessionIsPromised == Session!Spec => Promised!Spec
<1>1. Session!Init => Promised!Init
  BY DEF Session!Init, Promised!Init
<1>2. [Session!Next]_(Session!vars) => [Promised!Next]_(Promised!vars)
  BY DEF Session!Next, Session!vars, Session!Acquire, Session!Fail,
     Session!Begin, Session!Start, Session!WorkerEnds, Session!WorkerKilled,
     Session!Leave, Session!Quit, Session!Signal, Session!End,
     Session!Return, Session!Failures,
     Promised!Next, Promised!vars, Promised!Acquire, Promised!Fail,
     Promised!Begin, Promised!Start, Promised!WorkerEnds,
     Promised!WorkerKilled, Promised!Leave, Promised!Quit, Promised!Signal,
     Promised!End, Promised!Return, Promised!Failures
<1> QED
  BY <1>1, <1>2, PTL DEF Session!Spec, Promised!Spec

(* A SysDVR session that has returned holds nothing and has joined both    *)
(* threads, and has answered USER_BACK exactly if the user went back; and  *)
(* no thread of it ever lived without the player and the sockets.          *)
THEOREM PromiseKept ==
    Spec => /\ []Session!HeldWhileAlive
            /\ []Session!ReturnedClean
<1>1. Promised!Spec => /\ []Promised!HeldWhileAlive
                       /\ []Promised!ReturnedClean
  BY Promised!HeldCorrect, Promised!ReturnCorrect
<1>2. Promised!HeldWhileAlive => Session!HeldWhileAlive
  BY DEF Promised!HeldWhileAlive, Session!HeldWhileAlive
<1>3. Promised!ReturnedClean => Session!ReturnedClean
  BY DEF Promised!ReturnedClean, Session!ReturnedClean
<1> QED
  BY <1>1, <1>2, <1>3, SessionIsPromised, SysdvrRefinesSession, PTL
     DEF ImplementsStreamSession

-----------------------------------------------------------------------------
(***************************************************************************)
(* The join.  That it ends is for TLC to check; that nothing it waits for  *)
(* waits for anything outside the program is an invariant.                 *)
(***************************************************************************)

Moves(s) ==
    \/ pc[s] \in {"submit", "play", "loop", "exit"}
    \/ pc[s] = "start" /\ first_pending[s]
    \/ pc[s] = "lock" /\ feed_lock = Nobody
    \/ pc[s] = "read" /\ (HasPacket(s) \/ AtEnd(s))

(* While the UI thread waits in pthread_join, a thread that has not ended  *)
(* can go on, or waits for the other one, which is inside the player and   *)
(* waits for nobody.  No read blocks, however silent the console, and no   *)
(* thread finds the flag set when it comes back to its loop.               *)
JoinIsAnswered ==
    mpc \in {"join_video", "join_audio"} =>
        /\ ~running
        /\ \A s \in Streams : Active(s) =>
             \/ Moves(s)
             \/ pc[s] = "lock" /\ \E t \in Streams \ {s} :
                                    feed_lock = t /\ pc[t] = "play"

Stopping == {"shutdown_video", "shutdown_audio", "join_video", "join_audio"}

JoinInv ==
    /\ feed_lock # Nobody => pc[feed_lock] = "play"
    /\ mpc \in Stopping => ~running
    /\ mpc \in Stopping \ {"shutdown_video"} => fd["video"] = "shut"
    /\ mpc \in {"join_video", "join_audio"} => fd["audio"] = "shut"
    /\ mpc \in {"prime_audio", "spawn_video"} => first_pending["video"]
    /\ mpc \in {"spawn_video", "spawn_audio"} => first_pending["audio"]
    /\ \A s \in Streams : pc[s] = "start" => first_pending[s]

LEMMA JoinInit == Init => JoinInv
BY DEF Init, JoinInv, All, Stopping

LEMMA JoinMain ==
    ASSUME TypeOK, ResourceInv, CauseInv, JoinInv,
           MainStep \/ PrimeTimeout \/ NoMemory
    PROVE  JoinInv'
<1> USE DEF TypeOK, JoinInv, CauseInv, Stopping, BeforeSpawn, Streams, Nobody
<1>1. CASE GiveUp
  BY <1>1 DEF GiveUp, workerVars
<1>2. CASE CreatePlayer \/ OpenPlayer
  BY <1>1, <1>2 DEF CreatePlayer, OpenPlayer, workerVars
<1>3. CASE \/ Connect("video", "connect_video", "handshake_video")
           \/ Connect("audio", "connect_audio", "handshake_audio")
  BY <1>1, <1>3 DEF Connect, workerVars
<1>4. CASE \/ Handshake("video", "handshake_video", "connect_audio")
           \/ Handshake("audio", "handshake_audio", "prime_video")
  BY <1>1, <1>4 DEF Handshake, workerVars
<1>5. CASE PrimePacket("video", "prime_video", "prime_audio")
  BY <1>1, <1>5 DEF PrimePacket, sharedVars, mainVars, workerVars
<1>6. CASE PrimePacket("audio", "prime_audio", "spawn_video")
  BY <1>1, <1>6 DEF PrimePacket, sharedVars, mainVars, workerVars
<1>7. CASE \/ PrimeFailure("video", "prime_video")
           \/ PrimeFailure("audio", "prime_audio")
           \/ PrimeTimeout \/ NoMemory
  BY <1>1, <1>7 DEF PrimeFailure, PrimeTimeout, PrimeSilence, NoMemory,
     PrimeNoMemory
<1>8. CASE SpawnVideo
  BY <1>8 DEF SpawnVideo
<1>9. CASE SpawnAudio
  BY <1>9 DEF SpawnAudio
<1>10. CASE PollEnd \/ StopWorkers
  BY <1>10 DEF PollEnd, StopWorkers, sharedVars, workerVars
<1>11. CASE \/ Shutdown("video", "shutdown_video", "shutdown_audio")
            \/ Shutdown("audio", "shutdown_audio", "join_video")
  BY <1>11 DEF Shutdown, ShutDown, workerVars
<1>12. CASE \/ Join("video", "join_video", "join_audio")
            \/ Join("audio", "join_audio", "release")
            \/ Release
  BY <1>12 DEF Join, Release, sharedVars, workerVars
<1> QED
  BY <1>2, <1>3, <1>4, <1>5, <1>6, <1>7, <1>8, <1>9, <1>10, <1>11, <1>12
     DEF MainStep

(* A thread never sets the flag, and frees the lock as it leaves the       *)
(* player.                                                                 *)
LEMMA JoinWorker ==
    ASSUME TypeOK, LockInv, ResourceInv, JoinInv,
           NEW s \in Streams, WorkerStep(s) \/ ReadSilence(s)
    PROVE  JoinInv'
<1>1. /\ UNCHANGED <<mpc, fd>> /\ Active(s)
      /\ \A t \in Streams \ {s} : UNCHANGED pc[t]
  BY WorkerKeeps
<1>2. running' => running
  BY DEF WorkerStep, Begin, Submit, Lock, PlayOk, PlayRetry, PlayReject,
     Loop, ReadPacket, ReadEnd, ReadFailure, ReadSilence, FailRead, Exit,
     mainVars, sharedVars
<1>3. /\ pc'[s] # "start"
      /\ \A t \in Streams \ {s} : UNCHANGED first_pending[t]
  BY DEF WorkerStep, Begin, Submit, Lock, PlayOk, PlayRetry, PlayReject,
     Loop, KeepsReading, ReadPacket, ReadEnd, ReadFailure, ReadSilence,
     FailRead, Exit, Goto, TypeOK
<1>4. \/ feed_lock' = feed_lock /\ (pc[s] # "play")
      \/ feed_lock' = s /\ pc'[s] = "play"
      \/ feed_lock' = Nobody
  BY DEF WorkerStep, Begin, Submit, Lock, PlayOk, PlayRetry, PlayReject,
     Loop, ReadPacket, ReadEnd, ReadFailure, ReadSilence, FailRead, Exit,
     Goto, TypeOK, sharedVars
<1>5. feed_lock' # Nobody => pc'[feed_lock'] = "play"
  <2>1. CASE feed_lock' = feed_lock /\ pc[s] # "play" /\ feed_lock # Nobody
    <3>1. feed_lock \in Streams \ {s} /\ pc[feed_lock] = "play"
      BY <2>1 DEF JoinInv, TypeOK
    <3> QED
      BY <1>1, <2>1, <3>1
  <2> QED
    BY <1>4, <2>1
<1>6. /\ mpc \in {"prime_audio", "spawn_video"} => first_pending'["video"]
      /\ mpc \in {"spawn_video", "spawn_audio"} => first_pending'["audio"]
  <2>1. started[s] = "yes"
    BY <1>1 DEF ResourceInv
  <2>2. mpc \notin BeforeSpawn /\ (mpc = "spawn_audio" => s # "audio")
    BY <2>1 DEF ResourceInv, Streams
  <2> QED
    BY <1>3, <2>2 DEF JoinInv, BeforeSpawn, Streams
<1>7. \A t \in Streams : pc'[t] = "start" => first_pending'[t]
  BY <1>1, <1>3 DEF JoinInv
<1> QED
  BY <1>1, <1>2, <1>5, <1>6, <1>7 DEF JoinInv

LEMMA JoinNext ==
    TypeOK /\ LockInv /\ ResourceInv /\ CauseInv /\ JoinInv /\ [Next]_vars
        => JoinInv'
<1> SUFFICES ASSUME TypeOK, LockInv, ResourceInv, CauseInv, JoinInv,
                    [Next]_vars
             PROVE  JoinInv'
  OBVIOUS
<1>1. CASE MainStep \/ PrimeTimeout \/ NoMemory
  BY <1>1, JoinMain
<1>2. ASSUME NEW s \in Streams, WorkerStep(s) \/ ReadSilence(s) PROVE JoinInv'
  BY <1>2, JoinWorker
<1>3. CASE Environment /\ ~NoMemory
  <2> USE DEF JoinInv, Stopping
  <2>1. CASE PollBack \/ PollQuit \/ Signal
    BY <2>1 DEF PollBack, PollQuit, Signal, mainVars, sharedVars, workerVars
  <2>2. ASSUME NEW s \in Streams, NEW kind \in Kinds, Send(s, kind)
        PROVE  JoinInv'
    BY <2>2 DEF Send, mainVars, sharedVars, workerVars
  <2>3. ASSUME NEW s \in Streams, NEW how, Hangup(s, how) PROVE JoinInv'
    BY <2>3 DEF Hangup, mainVars, sharedVars, workerVars
  <2> QED
    BY <1>3, <2>1, <2>2, <2>3 DEF Environment
<1>4. CASE UNCHANGED vars
  BY <1>4 DEF JoinInv, vars, mainVars, sharedVars, workerVars
<1> QED
  BY <1>1, <1>2, <1>3, <1>4 DEF Next, Terminated

(* pthread_join waits for no silent console and for no circle of locks.    *)
THEOREM JoinCorrect == Spec => []JoinIsAnswered
<1>1. TypeOK /\ JoinInv => JoinIsAnswered
  <2> SUFFICES ASSUME TypeOK, JoinInv, mpc \in {"join_video", "join_audio"},
                      NEW s \in Streams, Active(s)
               PROVE  \/ Moves(s)
                      \/ pc[s] = "lock" /\ \E t \in Streams \ {s} :
                                             feed_lock = t /\ pc[t] = "play"
    BY DEF JoinIsAnswered, JoinInv, Stopping
  <2>1. pc[s] \in {"start", "submit", "lock", "play", "loop", "read", "exit"}
    BY DEF Active, TypeOK, WorkerLocs
  <2>2. CASE pc[s] = "read"
    BY <2>2 DEF JoinInv, Stopping, Streams, Moves, HasPacket, AtEnd
  <2>3. CASE pc[s] = "lock"
    BY <2>3 DEF JoinInv, TypeOK, Moves
  <2>4. CASE pc[s] = "start"
    BY <2>4 DEF JoinInv, Moves
  <2> QED
    BY <2>1, <2>2, <2>3, <2>4 DEF Moves
<1>2. Init => LockInv
  BY DEF Init, LockInv, All
<1>3. Init => CauseInv /\ JoinInv
  BY CauseInit, JoinInit
<1> QED
  BY <1>1, <1>2, <1>3, LockNext, CauseNext, JoinNext, ResourceInvariance, PTL
     DEF Spec

-----------------------------------------------------------------------------
(***************************************************************************)
(* The result.  What LostStreamReconnects gets wrong, and no more.         *)
(***************************************************************************)

(* The cause of an end is not forgotten on the way out: a session that     *)
(* started a thread has one when it returns.                               *)
ResultHasCause ==
    mpc = "done" /\ (\E s \in Streams : started[s] # "no") => Cause

(* An ERROR has one of three origins: setting up failed and no thread ran, *)
(* the player refused a packet for good, or a thread had a packet in its   *)
(* hands that the player never took when the session was stopped.          *)
ErrorsExplained ==
    mpc = "done" /\ result = "ERROR" =>
        \/ \A s \in Streams : started[s] = "no"
        \/ rejected
        \/ \E s \in Streams : /\ packet[s] # NoPacket
                              /\ received[s] = Append(fed[s], packet[s])

(* LostStreamReconnects holds of every session whose threads had nothing   *)
(* in their hands when it ended: the packet in hand is the whole of the    *)
(* difference between the code and its comment.                            *)
IdleLossReconnects ==
    mpc = "done" /\ lost # {} /\ ~user_back /\ ~rejected
      /\ (\A s \in Streams : packet[s] = NoPacket)
        => result \in {"REMOTE_END", "TRANSPORT_LOST"}

LEMMA CauseKept ==
    ASSUME TypeOK, ResourceInv, [Next]_vars, Cause
    PROVE  Cause'
<1>1. /\ user_back => user_back'
      /\ g_signal_stop => g_signal_stop'
      /\ \A s \in Streams : started[s] = "failed" => started'[s] = "failed"
  <2>1. CASE MainStep \/ PrimeTimeout \/ NoMemory
    BY <2>1 DEF MainStep, PrimeTimeout, NoMemory, CreatePlayer, OpenPlayer,
       Connect, Handshake, PrimePacket, PrimeFailure, PrimeSilence,
       PrimeNoMemory, GiveUp, SpawnVideo, SpawnAudio, PollEnd, StopWorkers,
       Shutdown, Join, Release, mainVars, sharedVars, ResourceInv,
       BeforeSpawn, TypeOK, Streams
  <2>2. ASSUME NEW s \in Streams, WorkerStep(s) \/ ReadSilence(s)
        PROVE  UNCHANGED <<user_back, g_signal_stop, started>>
    BY <2>2, WorkerKeeps
  <2>3. ASSUME Environment /\ ~NoMemory
        PROVE  /\ user_back => user_back'
               /\ g_signal_stop => g_signal_stop'
               /\ UNCHANGED started
    <3>1. CASE PollBack
      BY <3>1, Zenon DEF PollBack, sharedVars
    <3>2. CASE PollQuit
      BY <3>2, Zenon DEF PollQuit
    <3>3. CASE Signal
      BY <3>3, Zenon DEF Signal, mainVars
    <3>4. CASE \E s \in Streams : \/ \E kind \in Kinds : Send(s, kind)
                                  \/ \E how \in {"closed", "reset"} : Hangup(s, how)
      <4>1. UNCHANGED <<mainVars, sharedVars>>
        BY <3>4, Zenon DEF Send, Hangup
      <4> QED
        BY <4>1 DEF mainVars, sharedVars
    <3> QED
      BY <2>3, <3>1, <3>2, <3>3, <3>4 DEF Environment
  <2>4. CASE UNCHANGED vars
    BY <2>4 DEF vars, mainVars, sharedVars
  <2> QED
    BY <2>1, <2>2, <2>3, <2>4 DEF Next, Terminated
<1>2. (rejected => rejected') /\ lost \subseteq lost'
  <2>1. ASSUME NEW s \in Streams, WorkerStep(s) \/ ReadSilence(s)
        PROVE  (rejected => rejected') /\ lost \subseteq lost'
    BY <2>1 DEF WorkerStep, Begin, Submit, Lock, PlayOk, PlayRetry,
       PlayReject, Loop, ReadPacket, ReadEnd, ReadFailure, ReadSilence,
       FailRead, Lose, Exit, TypeOK, histVars
  <2>2. CASE ~(\E s \in Streams : WorkerStep(s) \/ ReadSilence(s))
    BY <2>2, OthersKeep DEF Next, Terminated
  <2> QED
    BY <2>1, <2>2
<1> QED
  BY <1>1, <1>2 DEF Cause

(* After the threads have been created: the way out has its cause.         *)
WayOutInv ==
    /\ mpc \in {"shutdown_audio", "join_video", "join_audio", "release"} => Cause
    /\ ResultHasCause

LEMMA WayOutNext ==
    TypeOK /\ ResourceInv /\ CauseInv /\ WayOutInv /\ [Next]_vars => WayOutInv'
<1> SUFFICES ASSUME TypeOK, ResourceInv, CauseInv, WayOutInv, [Next]_vars
             PROVE  WayOutInv'
  OBVIOUS
<1>1. Cause => Cause'
  BY CauseKept
<1>2. CASE mpc' = mpc /\ UNCHANGED started
  BY <1>1, <1>2 DEF WayOutInv, ResultHasCause
<1>3. CASE GiveUp /\ mpc \in BeforeSpawn
  <2>1. mpc' = "done" /\ \A s \in Streams : started'[s] = "no"
    BY <1>3 DEF GiveUp, ResourceInv
  <2> QED
    BY <2>1 DEF WayOutInv, ResultHasCause
<1>4. CASE mpc' \in MainLocs \ {"shutdown_audio", "join_video", "join_audio",
                               "release", "done"}
  BY <1>4 DEF WayOutInv, ResultHasCause
<1>5. CASE MainStep \/ PrimeTimeout \/ NoMemory
  <2>1. CASE \/ PrimeFailure("video", "prime_video")
             \/ PrimeFailure("audio", "prime_audio")
             \/ PrimeTimeout \/ NoMemory
    BY <1>3, <2>1 DEF PrimeFailure, PrimeTimeout, PrimeSilence, NoMemory,
       PrimeNoMemory, BeforeSpawn
  <2>2. CASE CreatePlayer \/ OpenPlayer
             \/ Connect("video", "connect_video", "handshake_video")
             \/ Handshake("video", "handshake_video", "connect_audio")
             \/ Connect("audio", "connect_audio", "handshake_audio")
             \/ Handshake("audio", "handshake_audio", "prime_video")
    BY <1>3, <1>4, <2>2 DEF CreatePlayer, OpenPlayer, Connect, Handshake,
       BeforeSpawn, MainLocs
  <2>3. CASE \/ PrimePacket("video", "prime_video", "prime_audio")
             \/ PrimePacket("audio", "prime_audio", "spawn_video")
    BY <1>2, <1>3, <1>4, <2>3 DEF PrimePacket, mainVars, sharedVars,
       BeforeSpawn, MainLocs
  <2>4. CASE SpawnVideo \/ SpawnAudio \/ PollEnd \/ StopWorkers
             \/ Shutdown("audio", "shutdown_audio", "join_video")
             \/ Shutdown("video", "shutdown_video", "shutdown_audio")
             \/ Join("video", "join_video", "join_audio")
             \/ Join("audio", "join_audio", "release")
             \/ Release
    BY <1>1, <1>4, <2>4 DEF SpawnVideo, SpawnAudio, PollEnd, StopWorkers,
       Shutdown, Join, Release, MainLocs, CauseInv, WayOutInv, ResultHasCause
  <2> QED
    BY <1>5, <2>1, <2>2, <2>3, <2>4 DEF MainStep
<1>6. ASSUME NEW s \in Streams, WorkerStep(s) \/ ReadSilence(s)
      PROVE  mpc' = mpc /\ UNCHANGED started
  BY <1>6, WorkerKeeps
<1>7. CASE Environment /\ ~NoMemory
  BY <1>2, <1>4, <1>7 DEF Environment, PollBack, PollQuit, Signal, Send,
     Hangup, mainVars, sharedVars, MainLocs
<1>8. CASE UNCHANGED vars
  BY <1>2, <1>8 DEF vars, mainVars, sharedVars
<1> QED
  BY <1>2, <1>5, <1>6, <1>7, <1>8 DEF Next, Terminated

(* A session that ran a thread returns for a reason: whatever happens      *)
(* while it stops, the cause is still there when the result is told.       *)
THEOREM ResultCauseCorrect == Spec => []ResultHasCause
<1>1. Init => WayOutInv
  BY DEF Init, WayOutInv, ResultHasCause
<1>2. WayOutInv => ResultHasCause
  BY DEF WayOutInv
<1> QED
  BY <1>1, <1>2, CauseInit, CauseNext, WayOutNext, ResourceInvariance, PTL
     DEF Spec

(* What is recorded of a failure, and what the result makes of it. *)
RecordInv ==
    /\ mpc \in BeforeSpawn =>
          lost = {} /\ \A s \in Streams : ~decoder_error[s]
    /\ \A s \in Streams : decoder_error[s] =>
          pc[s] \in {"exit", "ended"} /\ Primed(s)
    /\ mpc = "done" =>
          \/ /\ result = "ERROR" /\ lost = {}
             /\ \A s \in Streams : started[s] = "no"
          \/ result = SessionResult

LEMMA RecordInit == Init => RecordInv
BY DEF Init, RecordInv, All

LEMMA RecordWorker ==
    ASSUME TypeOK, ResourceInv, FeedInv, RecordInv,
           NEW s \in Streams, WorkerStep(s) \/ ReadSilence(s)
    PROVE  RecordInv'
<1>1. /\ UNCHANGED <<mpc, started>> /\ Active(s)
      /\ \A t \in Streams \ {s} : UNCHANGED <<pc[t], packet[t], received[t], fed[t]>>
  BY WorkerKeeps
<1>2. mpc \notin BeforeSpawn /\ mpc # "done"
  BY <1>1 DEF ResourceInv, Streams
<1>3. \A t \in Streams \ {s} : UNCHANGED decoder_error[t]
  BY DEF WorkerStep, Begin, Submit, Lock, PlayOk, PlayRetry, PlayReject,
     Loop, ReadPacket, ReadEnd, ReadFailure, ReadSilence, FailRead, Exit,
     TypeOK
<1>4. decoder_error'[s] =>
        \/ decoder_error[s] /\ pc[s] = "exit" /\ pc'[s] = "ended"
             /\ UNCHANGED <<packet[s], received[s], fed[s]>>
        \/ decoder_error[s] /\ pc[s] # "exit"
        \/ pc[s] \in {"submit", "play"} /\ pc'[s] = "exit"
             /\ UNCHANGED <<packet[s], received[s], fed[s]>>
  BY DEF WorkerStep, Begin, Submit, Lock, PlayOk, PlayRetry, PlayReject,
     Loop, ReadPacket, ReadEnd, ReadFailure, ReadSilence, FailRead, Exit,
     Goto, TypeOK, histVars
<1>5. pc[s] \in {"submit", "play"} => Primed(s)
  BY DEF FeedInv
<1>6. decoder_error'[s] => pc'[s] \in {"exit", "ended"} /\ Primed(s)'
  BY <1>1, <1>4, <1>5 DEF RecordInv, Active, Primed
<1>7. \A t \in Streams : decoder_error'[t] =>
        pc'[t] \in {"exit", "ended"} /\ Primed(t)'
  BY <1>1, <1>3, <1>6 DEF RecordInv, Primed
<1> QED
  BY <1>1, <1>2, <1>7 DEF RecordInv

LEMMA RecordMain ==
    ASSUME TypeOK, ResourceInv, CauseInv, RecordInv,
           MainStep \/ PrimeTimeout \/ NoMemory
    PROVE  RecordInv'
<1> USE DEF TypeOK, RecordInv, CauseInv, BeforeSpawn, Streams, Primed
<1>1. CASE GiveUp /\ mpc \in BeforeSpawn
  <2>1. /\ mpc' = "done" /\ result' = "ERROR"
        /\ UNCHANGED <<lost, started, decoder_error, pc, packet, received, fed>>
    BY <1>1 DEF GiveUp, workerVars, histVars
  <2>2. \A s \in Streams : started[s] = "no"
    BY <1>1 DEF ResourceInv
  <2> QED
    BY <1>1, <2>1, <2>2
<1>2. CASE CreatePlayer \/ OpenPlayer
  BY <1>1, <1>2 DEF CreatePlayer, OpenPlayer, workerVars, histVars
<1>3. CASE \/ Connect("video", "connect_video", "handshake_video")
           \/ Connect("audio", "connect_audio", "handshake_audio")
  BY <1>1, <1>3 DEF Connect, workerVars, histVars
<1>4. CASE \/ Handshake("video", "handshake_video", "connect_audio")
           \/ Handshake("audio", "handshake_audio", "prime_video")
  BY <1>1, <1>4 DEF Handshake, workerVars, histVars
<1>5. CASE \/ PrimePacket("video", "prime_video", "prime_audio")
           \/ PrimePacket("audio", "prime_audio", "spawn_video")
  BY <1>1, <1>5 DEF PrimePacket, mainVars, sharedVars, workerVars, histVars
<1>6. CASE \/ PrimeFailure("video", "prime_video")
           \/ PrimeFailure("audio", "prime_audio")
           \/ PrimeTimeout \/ NoMemory
  BY <1>1, <1>6 DEF PrimeFailure, PrimeTimeout, PrimeSilence, NoMemory,
     PrimeNoMemory
<1>7. CASE SpawnVideo \/ SpawnAudio
  <2>1. /\ mpc' \notin BeforeSpawn /\ mpc' # "done"
        /\ UNCHANGED <<decoder_error, packet, received, fed>>
    BY <1>7 DEF SpawnVideo, SpawnAudio, histVars
  <2>2. \A s \in Streams : pc'[s] = pc[s] \/ pc[s] \notin {"exit", "ended"}
    BY <1>7 DEF SpawnVideo, SpawnAudio
  <2> QED
    BY <2>1, <2>2
<1>8. CASE \/ PollEnd \/ StopWorkers
           \/ Shutdown("video", "shutdown_video", "shutdown_audio")
           \/ Shutdown("audio", "shutdown_audio", "join_video")
           \/ Join("video", "join_video", "join_audio")
           \/ Join("audio", "join_audio", "release")
  BY <1>8 DEF PollEnd, StopWorkers, Shutdown, Join, sharedVars, workerVars,
     histVars
<1>9. CASE Release
  <2>1. UNCHANGED <<user_back, decoder_error, transport_error, pc, packet,
                    received, fed>>
        /\ mpc' = "done" /\ result' = SessionResult
    BY <1>9 DEF Release, workerVars, histVars
  <2>2. SessionResult' = SessionResult
    BY <2>1 DEF SessionResult
  <2> QED
    BY <2>1, <2>2
<1> QED
  BY <1>2, <1>3, <1>4, <1>5, <1>6, <1>7, <1>8, <1>9 DEF MainStep

LEMMA RecordNext ==
    TypeOK /\ ResourceInv /\ FeedInv /\ CauseInv /\ RecordInv /\ [Next]_vars
        => RecordInv'
<1> SUFFICES ASSUME TypeOK, ResourceInv, FeedInv, CauseInv, RecordInv,
                    [Next]_vars
             PROVE  RecordInv'
  OBVIOUS
<1>1. CASE MainStep \/ PrimeTimeout \/ NoMemory
  BY <1>1, RecordMain
<1>2. ASSUME NEW s \in Streams, WorkerStep(s) \/ ReadSilence(s)
      PROVE  RecordInv'
  BY <1>2, RecordWorker
<1>3. CASE Environment /\ ~NoMemory
  <2> USE DEF RecordInv, BeforeSpawn, SessionResult, Primed
  <2>1. CASE PollBack \/ PollQuit
    BY <2>1 DEF PollBack, PollQuit, sharedVars, workerVars, histVars
  <2>2. CASE Signal
    BY <2>2 DEF Signal, mainVars, workerVars, histVars
  <2>3. ASSUME NEW s \in Streams, NEW kind \in Kinds, Send(s, kind)
        PROVE  RecordInv'
    BY <2>3 DEF Send, mainVars, sharedVars, workerVars, histVars
  <2>4. ASSUME NEW s \in Streams, NEW how, Hangup(s, how) PROVE RecordInv'
    BY <2>4 DEF Hangup, mainVars, sharedVars, workerVars, histVars
  <2> QED
    BY <1>3, <2>1, <2>2, <2>3, <2>4 DEF Environment
<1>4. CASE UNCHANGED vars
  BY <1>4 DEF RecordInv, SessionResult, Primed, vars, mainVars, sharedVars,
     workerVars, histVars
<1> QED
  BY <1>1, <1>2, <1>3, <1>4 DEF Next, Terminated

LEMMA RecordInvariance == Spec => [](TypeOK /\ FeedInv /\ RecordInv)
BY FeedInit, FeedNext, CauseInit, CauseNext, RecordInit, RecordNext,
   ResourceInvariance, PTL DEF Spec

(* A session that is reported as ERROR could not be set up, or its player  *)
(* refused a packet, or a thread was stopped with a packet in its hands.   *)
THEOREM ErrorsCorrect == Spec => []ErrorsExplained
<1>1. RecordInv => ErrorsExplained
  <2> SUFFICES ASSUME RecordInv, mpc = "done", result = "ERROR",
                      ~ \A s \in Streams : started[s] = "no"
               PROVE  \E s \in Streams :
                         /\ packet[s] # NoPacket
                         /\ received[s] = Append(fed[s], packet[s])
    BY DEF ErrorsExplained
  <2>1. PICK s \in Streams : decoder_error[s]
    BY DEF RecordInv, SessionResult
  <2> QED
    BY <2>1 DEF RecordInv, Primed
<1> QED
  BY <1>1, RecordInvariance, PTL

(* When no thread holds a packet, a lost stream leads to the wait for the  *)
(* console, as the comment at webos_main.c:1275 says.                      *)
THEOREM IdleLossCorrect == Spec => []IdleLossReconnects
<1>1. RecordInv => IdleLossReconnects
  <2> SUFFICES ASSUME RecordInv, mpc = "done", lost # {}, ~user_back,
                      \A s \in Streams : packet[s] = NoPacket
               PROVE  result \in {"REMOTE_END", "TRANSPORT_LOST"}
    BY DEF IdleLossReconnects
  <2>1. result = SessionResult /\ \A s \in Streams : ~decoder_error[s]
    BY DEF RecordInv, Primed
  <2> QED
    BY <2>1 DEF SessionResult
<1> QED
  BY <1>1, RecordInvariance, PTL

-----------------------------------------------------------------------------
(***************************************************************************)
(* How far a thread is from its end once the flag is down.  With           *)
(* JoinIsAnswered this is why the joins return: fairness only has to let   *)
(* the threads take their steps.                                           *)
(***************************************************************************)

StepsLeft(s) ==
    CASE pc[s] \in {"off", "ended"}         -> 0
      [] pc[s] = "exit"                     -> 1
      [] pc[s] \in {"loop", "submit"}       -> 2
      [] pc[s] \in {"start", "play", "read"} -> 3
      [] pc[s] = "lock"                     -> 4

(* read_data_packet skips a packet it does not expect. *)
Skips(s) ==
    /\ pc[s] = "read" /\ pc'[s] = "read"
    /\ wire[s] # <<>> /\ wire' = [wire EXCEPT ![s] = Tail(@)]

(* Once running is false, every step of a thread brings it nearer to its   *)
(* end, from wherever the flag finds it, with one exception: the reader    *)
(* that skips what is still buffered never looks at the flag.              *)
StopIsNear ==
    [][~running =>
         \A s \in Streams :
           WorkerStep(s) \/ ReadSilence(s) =>
             StepsLeft(s)' < StepsLeft(s) \/ Skips(s)]_vars

LEMMA WorkerNearer ==
    ASSUME TypeOK, ~running, NEW s \in Streams,
           WorkerStep(s) \/ ReadSilence(s)
    PROVE  StepsLeft(s)' < StepsLeft(s) \/ Skips(s)
<1> USE DEF TypeOK, Goto, FailRead, StepsLeft
<1>1. CASE Begin(s) \/ Submit(s)
  BY <1>1 DEF Begin, Submit
<1>2. CASE Lock(s)
  BY <1>2 DEF Lock
<1>3. CASE PlayOk(s) \/ PlayRetry(s) \/ PlayReject(s)
  BY <1>3 DEF PlayOk, PlayRetry, PlayReject
<1>4. CASE Loop(s)
  BY <1>4 DEF Loop, KeepsReading
<1>5. CASE ReadPacket(s)
  <2>1. pc[s] = "read" /\ wire[s] # <<>>
        /\ wire' = [wire EXCEPT ![s] = Tail(@)]
    BY <1>5 DEF ReadPacket, HasPacket, Take
  <2>2. pc' = pc \/ pc' = [pc EXCEPT ![s] = "submit"]
                 \/ pc' = [pc EXCEPT ![s] = "exit"]
    BY <1>5 DEF ReadPacket
  <2> QED
    BY <2>1, <2>2 DEF Skips
<1>6. CASE ReadEnd(s) \/ ReadFailure(s) \/ ReadSilence(s)
  BY <1>6 DEF ReadEnd, ReadFailure, ReadSilence
<1>7. CASE Exit(s)
  BY <1>7 DEF Exit
<1> QED
  BY <1>1, <1>2, <1>3, <1>4, <1>5, <1>6, <1>7 DEF WorkerStep

(* A thread's way to its end is at most four steps and the packets still   *)
(* buffered, whatever it was doing when the session was stopped.           *)
THEOREM StopIsNearCorrect == Spec => StopIsNear
<1>1. TypeOK /\ [Next]_vars
        => [~running =>
              \A s \in Streams :
                WorkerStep(s) \/ ReadSilence(s) =>
                  StepsLeft(s)' < StepsLeft(s) \/ Skips(s)]_vars
  BY WorkerNearer
<1> QED
  BY <1>1, TypeCorrect, PTL DEF Spec, StopIsNear
=============================================================================
