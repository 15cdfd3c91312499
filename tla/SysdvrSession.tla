---------------------------- MODULE SysdvrSession ----------------------------
(***************************************************************************)
(* One SysDVR streaming session: run_stream_session on the UI thread and   *)
(* the two threads it starts, one per stream, that read packets from their *)
(* own TCP connection and feed the single NDL player they share            *)
(* (src/webos_main.c, with feed_locked of src/ndl_media.c).                *)
(*                                                                         *)
(* A packet is its kind and its number in its stream.  The bytes, the      *)
(* timestamps and the statistics are left out.  A read that the code       *)
(* spreads over several recv calls is one step that finds a whole packet,  *)
(* the end of the connection, or a failure; the end found in the middle of *)
(* a packet is a failure (sysdvr_read_exact, sysdvr_read_packet).          *)
(***************************************************************************)
EXTENDS Naturals, Sequences

CONSTANTS
    MaxRetries,     \* FEED_MAX_RETRIES, how often a full decoder is retried
    MaxPackets,     \* bound: packets the console sends on one stream, those
                    \* of another kind apart
    Kinds           \* what arrives on a stream: a packet of its own kind, one
                    \* of another kind or without payload (skipped), an error
                    \* or malformed packet

ASSUME SessionAssumption ==
    /\ MaxRetries \in Nat /\ MaxPackets \in Nat \ {0}
    /\ Kinds \subseteq {"data", "other", "bad"}

Streams == {"video", "audio"}

Packet == [kind : Kinds, n : Nat \ {0}]     \* n-th packet of its stream

NoPacket == 0       \* packets are numbered from 1
Nobody   == "nobody"

VARIABLES
    \* the UI thread
    mpc,                \* where run_stream_session is
    user_back,          \* the user asked for the selector
    result,             \* what run_stream_session returned
    \* shared between the threads
    g_signal_stop,      \* SIGINT, SIGTERM or SDL_QUIT was seen
    running,            \* the session's atomic flag
    player,             \* the NDL player
    feed_lock,          \* the thread inside an NDL call
    fd,                 \* the socket of each stream
    started,            \* the outcome of pthread_create for each stream
    \* the stream threads
    pc,                 \* where each stream_thread is
    packet,             \* the packet it holds (the primed one at first)
    first_pending,      \* the primed packet has not been processed
    retries,            \* RETRY answers for the packet it holds
    transport_error,
    decoder_error,
    \* the console and the network
    peer,               \* the far end of each stream, from the handshake on
    sent,               \* packets it has sent, those of another kind apart
    wire,               \* packets sent and not yet read
    \* history, read by properties only
    received,           \* data packets read from each stream, in order
    fed,                \* packets the player accepted, in order
    rejected,           \* the player refused a packet for good
    lost                \* streams that the far end closed, broke or let fall
                        \* silent while their socket was in use

mainVars   == <<mpc, user_back, result>>
sharedVars == <<g_signal_stop, running, player, feed_lock, fd, started>>
workerVars == <<pc, packet, first_pending, retries, transport_error,
                decoder_error>>
netVars    == <<peer, sent, wire>>
histVars   == <<received, fed, rejected, lost>>
vars == <<mainVars, sharedVars, workerVars, netVars, histVars>>

MainLocs == {"create", "open", "connect_video", "handshake_video",
             "connect_audio", "handshake_audio", "prime_video",
             "prime_audio", "spawn_video", "spawn_audio", "poll", "stop",
             "shutdown_video", "shutdown_audio", "join_video", "join_audio",
             "release", "done"}
WorkerLocs == {"off", "start", "submit", "lock", "play", "loop", "read",
               "exit", "ended"}
Results == {"none", "REMOTE_END", "TRANSPORT_LOST", "ERROR", "USER_BACK"}

All(v) == [s \in Streams |-> v]

Init ==
    /\ mpc = "create" /\ user_back = FALSE /\ result = "none"
    /\ g_signal_stop = FALSE /\ running = FALSE /\ player = "none"
    /\ feed_lock = Nobody /\ fd = All("none") /\ started = All("no")
    /\ pc = All("off") /\ packet = All(NoPacket)
    /\ first_pending = All(FALSE) /\ retries = All(0)
    /\ transport_error = All(FALSE) /\ decoder_error = All(FALSE)
    /\ peer = All("idle") /\ sent = All(0) /\ wire = All(<<>>)
    /\ received = All(<<>>) /\ fed = All(<<>>)
    /\ rejected = FALSE /\ lost = {}

-----------------------------------------------------------------------------
(* What a read of stream s can find.                                       *)

HasPacket(s) == wire[s] # <<>>

AtEnd(s) == wire[s] = <<>> /\ (peer[s] = "closed" \/ fd[s] = "shut")

(* The connection broke, or it ended in the middle of a packet. *)
AtFailure(s) == wire[s] = <<>> /\ (peer[s] = "reset" \/ AtEnd(s))

(* SO_RCVTIMEO: nothing came although the connection is up. *)
AtSilence(s) == wire[s] = <<>> /\ peer[s] = "up" /\ fd[s] = "open"

Take(s) == wire' = [wire EXCEPT ![s] = Tail(@)]

-----------------------------------------------------------------------------
(* The UI thread: run_stream_session.                                      *)

(* Every failure before the threads exist: the sockets opened so far are   *)
(* closed and the player is destroyed.                                     *)
GiveUp ==
    /\ fd' = [s \in Streams |-> IF fd[s] = "open" THEN "closed" ELSE fd[s]]
    /\ player' = IF player = "none" THEN "none" ELSE "destroyed"
    /\ running' = FALSE
    /\ result' = "ERROR"
    /\ mpc' = "done"
    /\ UNCHANGED <<user_back, g_signal_stop, feed_lock, started, workerVars,
                   netVars, histVars>>

(* ndl_media_create, then ndl_media_open. *)
CreatePlayer ==
    /\ mpc = "create"
    /\ \/ /\ player' = "created" /\ mpc' = "open"
          /\ UNCHANGED <<user_back, result, g_signal_stop, running,
                         feed_lock, fd, started, workerVars, netVars,
                         histVars>>
       \/ GiveUp

OpenPlayer ==
    /\ mpc = "open"
    /\ \/ /\ player' = "loaded" /\ mpc' = "connect_video"
          /\ UNCHANGED <<user_back, result, g_signal_stop, running,
                         feed_lock, fd, started, workerVars, netVars,
                         histVars>>
       \/ GiveUp

(* sysdvr_tcp_connect *)
Connect(s, here, next) ==
    /\ mpc = here
    /\ \/ /\ fd' = [fd EXCEPT ![s] = "open"]
          /\ mpc' = next
          /\ UNCHANGED <<user_back, result, g_signal_stop, running, player,
                         feed_lock, started, workerVars, netVars, histVars>>
       \/ GiveUp

(* sysdvr_handshake; the audio one is followed by the creation of running. *)
(* Its one send (protocol.c:100) has no MSG_NOSIGNAL either: that it may   *)
(* end the process, if the console has closed and reset the connection     *)
(* before it is answered, is left out; no thread exists yet.               *)
Handshake(s, here, next) ==
    /\ mpc = here
    /\ \/ /\ peer' = [peer EXCEPT ![s] = "up"]
          /\ running' = (s = "audio")
          /\ mpc' = next
          /\ UNCHANGED <<user_back, result, g_signal_stop, player, feed_lock,
                         fd, started, workerVars, sent, wire, histVars>>
       \/ GiveUp

(* prime_worker: the UI thread itself reads the first packet of a stream.  *)
PrimePacket(s, here, next) ==
    /\ mpc = here /\ HasPacket(s)
    /\ LET p == Head(wire[s]) IN
       \/ /\ p.kind = "data"
          /\ Take(s)
          /\ packet' = [packet EXCEPT ![s] = p.n]
          /\ first_pending' = [first_pending EXCEPT ![s] = TRUE]
          /\ received' = [received EXCEPT ![s] = Append(@, p.n)]
          /\ mpc' = next
          /\ UNCHANGED <<user_back, result, sharedVars, pc, retries,
                         transport_error, decoder_error, peer, sent, fed,
                         rejected, lost>>
       \/ /\ p.kind = "other"
          /\ Take(s)
          /\ UNCHANGED <<mainVars, sharedVars, workerVars, peer, sent,
                         histVars>>
       \/ p.kind = "bad" /\ GiveUp

PrimeFailure(s, here) ==
    /\ mpc = here /\ AtFailure(s)
    /\ GiveUp

(* mutant: EAGAIN after the receive timeout is retried like EINTR *)
PrimeSilence_Retries(s, here) == mpc = here /\ AtSilence(s) /\ UNCHANGED vars

PrimeSilence(s, here) ==
    /\ mpc = here /\ AtSilence(s)
    /\ GiveUp

PrimeNoMemory(s, here) ==
    /\ mpc = here /\ ~first_pending[s]
    /\ GiveUp

(* pthread_create for the video thread, then for the audio thread.  The    *)
(* second is not attempted when the first failed or has already ended.     *)
SpawnVideo ==
    /\ mpc = "spawn_video"
    /\ mpc' = "spawn_audio"
    /\ \/ /\ started' = [started EXCEPT !["video"] = "yes"]
          /\ pc' = [pc EXCEPT !["video"] = "start"]
          /\ UNCHANGED running
       \/ /\ started' = [started EXCEPT !["video"] = "failed"]
          /\ running' = FALSE
          /\ UNCHANGED pc
    /\ UNCHANGED <<user_back, result, g_signal_stop, player, feed_lock, fd,
                   packet, first_pending, retries, transport_error,
                   decoder_error, netVars, histVars>>

SpawnAudio ==
    /\ mpc = "spawn_audio"
    /\ mpc' = "poll"
    /\ \/ /\ running
          /\ started' = [started EXCEPT !["audio"] = "yes"]
          /\ pc' = [pc EXCEPT !["audio"] = "start"]
          /\ UNCHANGED running
       \/ /\ running
          /\ started' = [started EXCEPT !["audio"] = "failed"]
          /\ running' = FALSE
          /\ UNCHANGED pc
       \/ /\ ~running
          /\ UNCHANGED <<running, started, pc>>
    /\ UNCHANGED <<user_back, result, g_signal_stop, player, feed_lock, fd,
                   packet, first_pending, retries, transport_error,
                   decoder_error, netVars, histVars>>

(* One turn of the 10 ms loop in which a key or SDL_QUIT is found. *)
PollBack ==
    /\ mpc = "poll" /\ running /\ ~g_signal_stop
    /\ user_back' = TRUE
    /\ mpc' = "stop"
    /\ UNCHANGED <<result, sharedVars, workerVars, netVars, histVars>>

PollQuit ==
    /\ mpc = "poll" /\ running /\ ~g_signal_stop
    /\ g_signal_stop' = TRUE
    /\ mpc' = "stop"
    /\ UNCHANGED <<user_back, result, running, player, feed_lock, fd,
                   started, workerVars, netVars, histVars>>

(* The loop condition is false. *)
PollEnd ==
    /\ mpc = "poll" /\ (~running \/ g_signal_stop)
    /\ mpc' = "stop"
    /\ UNCHANGED <<user_back, result, sharedVars, workerVars, netVars,
                   histVars>>

StopWorkers ==
    /\ mpc = "stop"
    /\ running' = FALSE
    /\ mpc' = "shutdown_video"
    /\ UNCHANGED <<user_back, result, g_signal_stop, player, feed_lock, fd,
                   started, workerVars, netVars, histVars>>

(* shutdown(fd, SHUT_RDWR) wakes a thread blocked in recv. *)
ShutDown_VideoOnly(s) == [fd EXCEPT !["video"] = "shut"]   \* mutant
ShutDown(s) == [fd EXCEPT ![s] = "shut"]

Shutdown(s, here, next) ==
    /\ mpc = here
    /\ fd' = ShutDown(s)
    /\ mpc' = next
    /\ UNCHANGED <<user_back, result, g_signal_stop, running, player,
                   feed_lock, started, workerVars, netVars, histVars>>

(* pthread_join, for a thread that was started *)
Joined_Assumed(s) == ~running   \* mutant: the flag is enough
Joined(s) == started[s] = "yes" => pc[s] = "ended"

Join(s, here, next) ==
    /\ mpc = here
    /\ Joined(s)
    /\ mpc' = next
    /\ UNCHANGED <<user_back, result, sharedVars, workerVars, netVars,
                   histVars>>

SessionResult_ErrorFirst ==     \* mutant: the order of the tests
    IF \E s \in Streams : decoder_error[s] THEN "ERROR"
    ELSE IF user_back THEN "USER_BACK"
    ELSE "REMOTE_END"
SessionResult ==
    IF user_back THEN "USER_BACK"
    ELSE IF \E s \in Streams : decoder_error[s] THEN "ERROR"
    ELSE IF \E s \in Streams : transport_error[s] THEN "TRANSPORT_LOST"
    ELSE "REMOTE_END"

(* The buffers are freed, the sockets closed, the player destroyed. *)
Release ==
    /\ mpc = "release"
    /\ fd' = All("closed")
    /\ player' = "destroyed"
    /\ result' = SessionResult
    /\ mpc' = "done"
    /\ UNCHANGED <<user_back, g_signal_stop, running, feed_lock, started,
                   workerVars, netVars, histVars>>

MainStep ==
    \/ CreatePlayer \/ OpenPlayer
    \/ Connect("video", "connect_video", "handshake_video")
    \/ Handshake("video", "handshake_video", "connect_audio")
    \/ Connect("audio", "connect_audio", "handshake_audio")
    \/ Handshake("audio", "handshake_audio", "prime_video")
    \/ PrimePacket("video", "prime_video", "prime_audio")
    \/ PrimeFailure("video", "prime_video")
    \/ PrimePacket("audio", "prime_audio", "spawn_video")
    \/ PrimeFailure("audio", "prime_audio")
    \/ SpawnVideo \/ SpawnAudio
    \/ PollEnd \/ StopWorkers
    \/ Shutdown("video", "shutdown_video", "shutdown_audio")
    \/ Shutdown("audio", "shutdown_audio", "join_video")
    \/ Join("video", "join_video", "join_audio")
    \/ Join("audio", "join_audio", "release")
    \/ Release

PrimeTimeout ==
    \/ PrimeSilence("video", "prime_video")
    \/ PrimeSilence("audio", "prime_audio")

NoMemory ==
    \/ PrimeNoMemory("video", "prime_video")
    \/ PrimeNoMemory("audio", "prime_audio")

-----------------------------------------------------------------------------
(* A stream thread: stream_thread, process_one, submit_packet.             *)

Goto(s, loc) == pc' = [pc EXCEPT ![s] = loc]

(* mutant: the thread starts with its loop and the primed packet is lost *)
Begin_Unprimed(s) ==
    /\ pc[s] = "start"
    /\ first_pending' = [first_pending EXCEPT ![s] = FALSE]
    /\ packet' = [packet EXCEPT ![s] = NoPacket]
    /\ Goto(s, "loop")
    /\ UNCHANGED <<mainVars, sharedVars, retries, transport_error,
                   decoder_error, netVars, histVars>>

(* The primed packet is processed before anything is read. *)
Begin(s) ==
    /\ pc[s] = "start"
    /\ first_pending[s]
    /\ first_pending' = [first_pending EXCEPT ![s] = FALSE]
    /\ Goto(s, "submit")
    /\ UNCHANGED <<mainVars, sharedVars, packet, retries, transport_error,
                   decoder_error, netVars, histVars>>

(* The test of running before every attempt to feed.  submit_packet        *)
(* returns false when it fails, and the caller takes any false for a       *)
(* decoder error.                                                          *)
Submit(s) ==
    /\ pc[s] = "submit"
    /\ \/ /\ running
          /\ Goto(s, "lock")
          /\ UNCHANGED decoder_error
       \/ /\ ~running
          /\ decoder_error' = [decoder_error EXCEPT ![s] = TRUE]
          /\ Goto(s, "exit")
    /\ UNCHANGED <<mainVars, sharedVars, packet, first_pending, retries,
                   transport_error, netVars, histVars>>

(* feed_locked, up to the NDL call and from its return.  Its test that the *)
(* player is loaded never fails here (WorkersHaveResources).               *)
LockFree_Unchecked == TRUE      \* mutant: no mutex around the NDL calls
LockFree == feed_lock = Nobody

Lock(s) ==
    /\ pc[s] = "lock"
    /\ LockFree
    /\ feed_lock' = s
    /\ Goto(s, "play")
    /\ UNCHANGED <<mainVars, g_signal_stop, running, player, fd, started,
                   packet, first_pending, retries, transport_error,
                   decoder_error, netVars, histVars>>

PlayOk(s) ==
    /\ pc[s] = "play"
    /\ feed_lock' = Nobody
    /\ fed' = [fed EXCEPT ![s] = Append(@, packet[s])]
    /\ packet' = [packet EXCEPT ![s] = NoPacket]
    /\ retries' = [retries EXCEPT ![s] = 0]
    /\ Goto(s, "loop")
    /\ UNCHANGED <<mainVars, g_signal_stop, running, player, fd, started,
                   first_pending, transport_error, decoder_error, netVars,
                   received, rejected, lost>>

(* retries >= FEED_MAX_RETRIES gives the packet up. *)
MayRetry_OffByOne(s) == retries[s] <= MaxRetries   \* mutant
MayRetry(s) == retries[s] < MaxRetries

PlayRetry(s) ==
    /\ pc[s] = "play" /\ MayRetry(s)
    /\ feed_lock' = Nobody
    /\ retries' = [retries EXCEPT ![s] = @ + 1]
    /\ Goto(s, "submit")
    /\ UNCHANGED <<mainVars, g_signal_stop, running, player, fd, started,
                   packet, first_pending, transport_error, decoder_error,
                   netVars, histVars>>

PlayReject(s) ==
    /\ pc[s] = "play" /\ ~MayRetry(s)
    /\ feed_lock' = Nobody
    /\ decoder_error' = [decoder_error EXCEPT ![s] = TRUE]
    /\ rejected' = TRUE
    /\ Goto(s, "exit")
    /\ UNCHANGED <<mainVars, g_signal_stop, running, player, fd, started,
                   packet, first_pending, retries, transport_error, netVars,
                   received, fed, lost>>

(* The loop condition of stream_thread. *)
KeepsReading_Polls(s) == running /\ HasPacket(s)  \* mutant: EAGAIN is the end
KeepsReading(s) == running

Loop(s) ==
    /\ pc[s] = "loop"
    /\ Goto(s, IF KeepsReading(s) THEN "read" ELSE "exit")
    /\ UNCHANGED <<mainVars, sharedVars, packet, first_pending, retries,
                   transport_error, decoder_error, netVars, histVars>>

(* The far end, not this program's shutdown, ended the stream. *)
Lose(s) == lost' = IF fd[s] = "open" THEN lost \cup {s} ELSE lost

FailRead(s) ==
    /\ transport_error' = [transport_error EXCEPT ![s] = TRUE]
    /\ Lose(s)
    /\ Goto(s, "exit")

(* read_data_packet skips packets it does not expect without looking at    *)
(* running.                                                                *)
ReadPacket(s) ==
    /\ pc[s] = "read" /\ HasPacket(s)
    /\ Take(s)
    /\ LET p == Head(wire[s]) IN
       \/ /\ p.kind = "data"
          /\ packet' = [packet EXCEPT ![s] = p.n]
          /\ received' = [received EXCEPT ![s] = Append(@, p.n)]
          /\ Goto(s, "submit")
          /\ UNCHANGED <<transport_error, lost>>
       \/ /\ p.kind = "other"
          /\ UNCHANGED <<pc, packet, transport_error, received, lost>>
       \/ /\ p.kind = "bad"
          /\ FailRead(s)
          /\ UNCHANGED <<packet, received>>
    /\ UNCHANGED <<mainVars, sharedVars, first_pending, retries,
                   decoder_error, peer, sent, fed, rejected>>

ReadEnd(s) ==
    /\ pc[s] = "read" /\ AtEnd(s)
    /\ Lose(s)
    /\ Goto(s, "exit")
    /\ UNCHANGED <<mainVars, sharedVars, packet, first_pending, retries,
                   transport_error, decoder_error, netVars, received, fed,
                   rejected>>

ReadFailure(s) ==
    /\ pc[s] = "read" /\ AtFailure(s)
    /\ FailRead(s)
    /\ UNCHANGED <<mainVars, sharedVars, packet, first_pending, retries,
                   decoder_error, netVars, received, fed, rejected>>

(* mutant: EAGAIN after the receive timeout is retried like EINTR *)
ReadSilence_Retries(s) == pc[s] = "read" /\ AtSilence(s) /\ UNCHANGED vars

ReadSilence(s) ==
    /\ pc[s] = "read" /\ AtSilence(s)
    /\ FailRead(s)
    /\ UNCHANGED <<mainVars, sharedVars, packet, first_pending, retries,
                   decoder_error, netVars, received, fed, rejected>>

Exit(s) ==
    /\ pc[s] = "exit"
    /\ running' = FALSE
    /\ Goto(s, "ended")
    /\ UNCHANGED <<mainVars, g_signal_stop, player, feed_lock, fd, started,
                   packet, first_pending, retries, transport_error,
                   decoder_error, netVars, histVars>>

WorkerStep(s) ==
    \/ Begin(s) \/ Submit(s) \/ Lock(s)
    \/ PlayOk(s) \/ PlayRetry(s) \/ PlayReject(s)
    \/ Loop(s) \/ ReadPacket(s) \/ ReadEnd(s) \/ ReadFailure(s)
    \/ Exit(s)

-----------------------------------------------------------------------------
(* The console, the network and the user.                                  *)

(* The console may go on for ever with packets that the reader skips; as a *)
(* bound, it sends one of them only when nothing else is on the wire.  A   *)
(* socket that has been shut down takes no more data: Linux answers it     *)
(* with a reset.                                                           *)
Send(s, kind) ==
    /\ peer[s] = "up" /\ fd[s] = "open"
    /\ \/ /\ kind # "other" /\ sent[s] < MaxPackets
          /\ sent' = [sent EXCEPT ![s] = @ + 1]
       \/ /\ kind = "other" /\ wire[s] = <<>>
          /\ UNCHANGED sent
    /\ wire' = [wire EXCEPT ![s] =
                    Append(@, [kind |-> kind, n |-> sent[s] + 1])]
    /\ UNCHANGED <<mainVars, sharedVars, workerVars, peer, histVars>>

Hangup(s, how) ==
    /\ peer[s] = "up"
    /\ peer' = [peer EXCEPT ![s] = how]
    /\ UNCHANGED <<mainVars, sharedVars, workerVars, sent, wire, histVars>>

Signal ==
    /\ ~g_signal_stop
    /\ g_signal_stop' = TRUE
    /\ UNCHANGED <<mainVars, running, player, feed_lock, fd, started,
                   workerVars, netVars, histVars>>

Environment ==
    \/ PollBack \/ PollQuit \/ Signal \/ NoMemory
    \/ \E s \in Streams : \/ \E kind \in Kinds : Send(s, kind)
                          \/ \E how \in {"closed", "reset"} : Hangup(s, how)

Terminated == mpc = "done" /\ UNCHANGED vars

Next ==
    \/ MainStep \/ PrimeTimeout
    \/ \E s \in Streams : WorkerStep(s) \/ ReadSilence(s)
    \/ Environment
    \/ Terminated

Spec == Init /\ [][Next]_vars

-----------------------------------------------------------------------------
(* The session as its caller sees it: the refinement mapping.              *)

SessionPhase ==
    IF mpc = "done" THEN "done"
    ELSE IF mpc \in {"spawn_audio", "poll"} THEN "streaming"
    ELSE IF mpc \in {"stop", "shutdown_video", "shutdown_audio",
                     "join_video", "join_audio", "release"} THEN "stopping"
    ELSE "opening"

WorkerState ==
    [s \in Streams |-> IF pc[s] = "off" THEN "unborn"
                       ELSE IF pc[s] = "ended" THEN "ended"
                       ELSE "alive"]

Holding ==
    \/ player \in {"created", "loaded"}
    \/ \E s \in Streams : fd[s] \in {"open", "shut"}

Session == INSTANCE StreamSession
               WITH Workers <- Streams, Writers <- {},
                    phase <- SessionPhase, worker <- WorkerState,
                    holding <- Holding, back <- user_back,
                    stop <- g_signal_stop

-----------------------------------------------------------------------------
(* Fairness.  The kernel schedules every thread, an NDL call returns, a    *)
(* recv returns when there is something to return.  Nothing is assumed of  *)
(* the console or the user.  Whether a recv on a silent connection ever    *)
(* returns depends on SO_RCVTIMEO: that is TimeoutFairness, which a        *)
(* property names where it needs it.                                       *)

ThreadFairness ==
    /\ WF_vars(MainStep)
    /\ \A s \in Streams : WF_vars(WorkerStep(s))

TimeoutFairness ==
    /\ WF_vars(PrimeTimeout)
    /\ \A s \in Streams : WF_vars(ReadSilence(s))

ThreadSpec == Spec /\ ThreadFairness

-----------------------------------------------------------------------------
(* Properties.                                                             *)

(* Every variable keeps its type. *)
TypeOK ==
    /\ mpc \in MainLocs /\ user_back \in BOOLEAN /\ result \in Results
    /\ g_signal_stop \in BOOLEAN /\ running \in BOOLEAN
    /\ player \in {"none", "created", "loaded", "destroyed"}
    /\ feed_lock \in Streams \cup {Nobody}
    /\ fd \in [Streams -> {"none", "open", "shut", "closed"}]
    /\ started \in [Streams -> {"no", "yes", "failed"}]
    /\ pc \in [Streams -> WorkerLocs]
    /\ packet \in [Streams -> Nat]
    /\ first_pending \in [Streams -> BOOLEAN]
    /\ retries \in [Streams -> 0..MaxRetries]
    /\ transport_error \in [Streams -> BOOLEAN]
    /\ decoder_error \in [Streams -> BOOLEAN]
    /\ peer \in [Streams -> {"idle", "up", "closed", "reset"}]
    /\ sent \in [Streams -> 0..MaxPackets]
    /\ wire \in [Streams -> Seq(Packet)]
    /\ received \in [Streams -> Seq(Nat)]
    /\ fed \in [Streams -> Seq(Nat)]
    /\ rejected \in BOOLEAN /\ lost \in SUBSET Streams

(* A stream thread that may still feed the player or read its socket finds *)
(* the player loaded and the descriptor open: run_stream_session destroys  *)
(* and closes them only after it has joined every thread it started.       *)
WorkersHaveResources ==
    \A s \in Streams :
        pc[s] \notin {"off", "ended"} =>
            player = "loaded" /\ fd[s] \in {"open", "shut"}

(* The two threads are never inside the NDL library together (feed_lock).  *)
OneFeeder ==
    \A s, t \in Streams : pc[s] = "play" /\ pc[t] = "play" => s = t

(* Each stream is fed in the order it was received, from the primed packet *)
(* on, none skipped and none twice; only the packet a thread is processing *)
(* (or gave up on) is missing from the player.                             *)
FedInOrder ==
    \A s \in Streams :
        \/ fed[s] = received[s]
        \/ /\ packet[s] # NoPacket
           /\ received[s] = Append(fed[s], packet[s])

(* A session that is streaming leaves its loop only for a reason: the user *)
(* went back, a stop was requested, a stream was lost, a thread could not  *)
(* be started or the player refused a packet for good.  In particular a    *)
(* full decoder that recovers, or a packet of another kind, ends nothing.  *)
EndHasCause ==
    mpc \in {"stop", "shutdown_video"} =>
        \/ user_back \/ g_signal_stop \/ rejected \/ lost # {}
        \/ \E s \in Streams : started[s] = "failed"

(* What the selector is promised: the session starts its threads, streams  *)
(* until the user leaves, a stop is requested or a thread is missing, and  *)
(* returns only when both threads have ended and nothing is held, with     *)
(* USER_BACK exactly if the user left, whatever the threads made of the    *)
(* sockets that were shut down under them.                                 *)
ImplementsStreamSession == Session!Spec

(* webos_main.c:1275 says that a clean end of the stream and a transport   *)
(* failure in its middle both lead to the reconnect state.  So a session   *)
(* that lost a stream, and whose player never refused a packet, would not  *)
(* be reported as ERROR.                                                   *)
LostStreamReconnects ==
    mpc = "done" /\ lost # {} /\ ~user_back /\ ~rejected =>
        result \in {"REMOTE_END", "TRANSPORT_LOST"}

(* Going back, or a stop request while streaming, ends the session even if *)
(* the console is silent on both streams and no receive timeout fires, or  *)
(* goes on with packets that the threads skip: their reads are woken by    *)
(* shutdown.                                                               *)
LeavingEnds ==
    (mpc = "poll" /\ g_signal_stop) \/ user_back ~> mpc = "done"

(* The UI thread, reading the first packet of a stream, skips one that it  *)
(* does not expect.  No thread exists yet, so nobody else reads.           *)
PrimeSkips ==
    /\ mpc \in {"prime_video", "prime_audio"} /\ mpc' = mpc
    /\ \E s \in Streams : Len(wire'[s]) < Len(wire[s])

(* The receive timeout of 15 s (webos_main.c:39) bounds every wait of the  *)
(* UI thread, so a stop request ends the session from any point, the set-  *)
(* up included, with one exception: while a stream is primed,              *)
(* read_data_packet looks at nothing but the packets, and a console that   *)
(* goes on for ever with packets it skips holds the UI thread there.       *)
StopEnds ==
    TimeoutFairness /\ <>[][~PrimeSkips]_vars
        => (g_signal_stop ~> mpc = "done")

(* With the receive timeout a stream that has fallen silent for good ends  *)
(* the session: the silence becomes a failed read.                         *)
SilenceEnds ==
    TimeoutFairness =>
        \A s \in Streams :
            (mpc = "poll" /\ [](wire[s] = <<>> /\ peer[s] = "up"))
                ~> mpc = "done"
=============================================================================
