--------------------------- MODULE FrametapSession ---------------------------
(***************************************************************************)
(* One Frame Tap streaming session: frametap_run_stream_session on the UI  *)
(* thread and the one thread it starts, sft_stream_thread, with the        *)
(* interruptible reads of sft_read_packet (src/frametap_backend.c,         *)
(* src/sft_protocol.c).                                                    *)
(*                                                                         *)
(* What becomes of a video frame is FrametapVideo's; here its branch may   *)
(* ask for a key frame or not, and then skips the frame or gives it to the *)
(* player.  Audio only meets SDL's queue, and is left out.  A packet is    *)
(* read in one step when it is all there; one of which only a part came is *)
(* waited for.                                                             *)
(***************************************************************************)
EXTENDS Naturals, Sequences

CONSTANTS
    MaxRetries,     \* SFT_FEED_MAX_RETRIES
    MaxPackets      \* bound: packets the console sends

ASSUME FrametapAssumption == MaxRetries \in Nat /\ MaxPackets \in Nat \ {0}

(* What the console sends: whole packets, of which "bad" has an invalid    *)
(* header, and the beginning of one that never arrives in full.            *)
Kinds == {"status", "audio", "video", "bad", "part"}

VARIABLES
    \* the UI thread
    mpc,                \* where frametap_run_stream_session is
    user_back,
    ui_cleared,         \* the screen was cleared for the video
    shown,              \* the status text it copied last
    result,
    \* shared between the threads
    g_signal_stop,
    running, connected, video_started, failed, finished,  \* atomic flags
    fd,                 \* the socket
    status_lock,        \* "none", "free", or the thread that holds it
    status_head,        \* the status text, "torn" while it is being written
    \* the stream thread
    pc,
    player,             \* its NDL player
    retries,
    \* the console and the network
    peer, sent, wire,
    \* history
    causes              \* what went wrong, apart from the user leaving

uiVars     == <<mpc, user_back, ui_cleared, shown, result>>
flagVars   == <<running, connected, video_started, failed, finished>>
sharedVars == <<g_signal_stop, flagVars, fd, status_lock, status_head>>
streamVars == <<pc, player, retries>>
netVars    == <<peer, sent, wire>>
vars == <<uiVars, sharedVars, streamVars, netVars, causes>>

UiLocs == {"connect", "lock_init", "spawn", "poll", "copy", "stop",
           "shutdown", "join", "close", "done", "killed"}
StreamLocs == {"off", "start", "greet", "loop", "read", "middle", "judge",
               "status", "write", "video", "frame", "submit", "cleanup",
               "ended", "killed"}

Init ==
    /\ mpc = "connect" /\ user_back = FALSE /\ ui_cleared = FALSE
    /\ shown = "nothing" /\ result = "none"
    /\ g_signal_stop = FALSE
    /\ running = TRUE /\ connected = FALSE /\ video_started = FALSE
    /\ failed = FALSE /\ finished = FALSE
    /\ fd = "none" /\ status_lock = "none" /\ status_head = "default"
    /\ pc = "off" /\ player = FALSE /\ retries = 0
    /\ peer = "idle" /\ sent = 0 /\ wire = <<>>
    /\ causes = {}

-----------------------------------------------------------------------------
(* The UI thread.                                                          *)

UiGoto(loc) == mpc' = loc /\ UNCHANGED <<user_back, ui_cleared, shown, result>>

Return(r) == mpc' = "done" /\ result' = r
             /\ UNCHANGED <<user_back, ui_cleared, shown>>

(* sysdvr_tcp_connect_timeout, of 3 s *)
Connect ==
    /\ mpc = "connect"
    /\ \/ /\ fd' = "open" /\ peer' = "up"
          /\ UiGoto("lock_init")
          /\ UNCHANGED causes
       \/ /\ Return("TRANSPORT_LOST")
          /\ causes' = {"connect"}
          /\ UNCHANGED <<fd, peer>>
    /\ UNCHANGED <<g_signal_stop, flagVars, status_lock, status_head,
                   streamVars, sent, wire>>

InitLock ==
    /\ mpc = "lock_init"
    /\ \/ /\ status_lock' = "free"
          /\ UiGoto("spawn")
          /\ UNCHANGED fd
       \/ /\ fd' = "closed"
          /\ Return("ERROR")
          /\ UNCHANGED status_lock
    /\ UNCHANGED <<g_signal_stop, flagVars, status_head, streamVars, netVars,
                   causes>>

Spawn ==
    /\ mpc = "spawn"
    /\ \/ /\ pc' = "start"
          /\ UiGoto("poll")
          /\ UNCHANGED <<fd, status_lock>>
       \/ /\ status_lock' = "none" /\ fd' = "closed"
          /\ Return("ERROR")
          /\ UNCHANGED pc
    /\ UNCHANGED <<g_signal_stop, flagVars, status_head, player, retries,
                   netVars, causes>>

(* One turn of the 10 ms loop that finds no key: it clears the screen for  *)
(* the first frame, or shows the status text it copies under the lock.     *)
Polling == mpc = "poll" /\ ~g_signal_stop /\ ~finished

PollClear ==
    /\ Polling /\ ~ui_cleared /\ video_started
    /\ ui_cleared' = TRUE
    /\ UNCHANGED <<mpc, user_back, shown, result, sharedVars, streamVars,
                   netVars, causes>>

LockFree_Unchecked == TRUE      \* mutant: the text is copied without the lock
LockFree == status_lock = "free"

PollStatus ==
    /\ Polling /\ ~ui_cleared /\ ~video_started /\ connected
    /\ LockFree
    /\ status_lock' = "ui"
    /\ UiGoto("copy")
    /\ UNCHANGED <<g_signal_stop, flagVars, fd, status_head, streamVars,
                   netVars, causes>>

CopyStatus ==
    /\ mpc = "copy"
    /\ shown' = status_head
    /\ status_lock' = "free"
    /\ mpc' = "poll"
    /\ UNCHANGED <<user_back, ui_cleared, result, g_signal_stop, flagVars, fd,
                   status_head, streamVars, netVars, causes>>

PollBack ==
    /\ Polling
    /\ user_back' = TRUE /\ running' = FALSE
    /\ mpc' = "stop"
    /\ UNCHANGED <<ui_cleared, shown, result, g_signal_stop, connected,
                   video_started, failed, finished, fd, status_lock,
                   status_head, streamVars, netVars, causes>>

PollQuit ==
    /\ Polling
    /\ g_signal_stop' = TRUE
    /\ UiGoto("stop")
    /\ UNCHANGED <<flagVars, fd, status_lock, status_head, streamVars,
                   netVars, causes>>

PollEnd ==
    /\ mpc = "poll" /\ (g_signal_stop \/ finished)
    /\ UiGoto("stop")
    /\ UNCHANGED <<sharedVars, streamVars, netVars, causes>>

Stop ==
    /\ mpc = "stop"
    /\ running' = FALSE
    /\ UiGoto("shutdown")
    /\ UNCHANGED <<g_signal_stop, connected, video_started, failed, finished,
                   fd, status_lock, status_head, streamVars, netVars, causes>>

Shutdown ==
    /\ mpc = "shutdown"
    /\ fd' = "shut"
    /\ UiGoto("join")
    /\ UNCHANGED <<g_signal_stop, flagVars, status_lock, status_head,
                   streamVars, netVars, causes>>

Joined_Flag == ~running         \* mutant: the flag is taken for the end
Joined == pc = "ended"

Join ==
    /\ mpc = "join" /\ Joined
    /\ UiGoto("close")
    /\ UNCHANGED <<sharedVars, streamVars, netVars, causes>>

SessionResult_FailureFirst ==   \* mutant: the order of the tests
    IF failed THEN "TRANSPORT_LOST"
    ELSE IF user_back THEN "USER_BACK"
    ELSE "REMOTE_END"
SessionResult_StopFirst ==      \* mutant: a late signal hides the choice
    IF g_signal_stop THEN "REMOTE_END"
    ELSE IF user_back THEN "USER_BACK"
    ELSE IF failed THEN "TRANSPORT_LOST"
    ELSE "REMOTE_END"
SessionResult ==
    IF user_back THEN "USER_BACK"
    ELSE IF g_signal_stop THEN "REMOTE_END"
    ELSE IF failed THEN "TRANSPORT_LOST"
    ELSE "REMOTE_END"

Close ==
    /\ mpc = "close"
    /\ fd' = "closed" /\ status_lock' = "none"
    /\ Return(SessionResult)
    /\ UNCHANGED <<g_signal_stop, flagVars, status_head, streamVars, netVars,
                   causes>>

UiStep ==
    \/ Connect \/ InitLock \/ Spawn \/ PollEnd \/ Stop \/ Shutdown \/ Join
    \/ Close

UiTurn == PollClear \/ PollStatus \/ CopyStatus

-----------------------------------------------------------------------------
(* The stream thread.                                                      *)

Goto(loc) == pc' = loc

Start ==
    /\ pc = "start"
    /\ \/ /\ connected' = TRUE
          /\ Goto("greet")
          /\ UNCHANGED <<failed, finished, causes>>
       \/ /\ failed' = TRUE /\ finished' = TRUE
          /\ causes' = causes \cup {"memory"}
          /\ Goto("ended")
          /\ UNCHANGED connected
    /\ UNCHANGED <<uiVars, g_signal_stop, running, video_started, fd,
                   status_lock, status_head, player, retries, netVars>>

(* sft_request_keyframe; its outcome is ignored.  send without             *)
(* MSG_NOSIGNAL on a socket that can no longer be written raises SIGPIPE,  *)
(* which the program does not handle: both threads are gone.  After the    *)
(* far end has gone the kernel may also accept the bytes, or report an     *)
(* error.                                                                  *)
Request(next) ==
    \/ /\ fd # "shut"
       /\ Goto(next)
       /\ UNCHANGED uiVars
    \/ /\ fd = "shut" \/ peer \in {"closed", "reset"}
       /\ Goto("killed")
       /\ UiGoto("killed")

Greet ==
    /\ pc = "greet"
    /\ Request("loop")
    /\ UNCHANGED <<sharedVars, player, retries, netVars, causes>>

Loop ==
    /\ pc = "loop"
    /\ Goto(IF running THEN "read" ELSE "cleanup")
    /\ UNCHANGED <<uiVars, sharedVars, player, retries, netVars, causes>>

(* read_exact_interruptible looks at running before every wait of 200 ms.  *)
(* The read then returns 0 or -1, and either way the thread leaves its     *)
(* loop without failing.                                                   *)
ReadStopped_Waits(here) == pc = here /\ ~running /\ UNCHANGED vars
                                \* mutant: the wait for data goes on
ReadStopped(here) ==
    /\ pc = here /\ ~running
    /\ Goto("cleanup")
    /\ UNCHANGED <<uiVars, sharedVars, player, retries, netVars, causes>>

NextLoc == [status |-> "status", audio |-> "loop", video |-> "video",
            bad |-> "judge", part |-> "middle"]

ReadPacket ==
    /\ pc = "read" /\ running /\ wire # <<>>
    /\ wire' = Tail(wire)
    /\ Goto(NextLoc[Head(wire)])
    /\ causes' = IF Head(wire) = "bad" THEN causes \cup {"packet"} ELSE causes
    /\ UNCHANGED <<uiVars, sharedVars, player, retries, peer, sent>>

(* The end of the stream between two packets is a clean end.  It is read   *)
(* when the console closed, or the UI thread shut the socket down.         *)
ReadEnd ==
    /\ pc = "read" /\ wire = <<>> /\ (peer = "closed" \/ fd = "shut")
    /\ Goto("cleanup")
    /\ UNCHANGED <<uiVars, sharedVars, player, retries, netVars, causes>>

(* Anywhere else it is a failure, and so is a reset. *)
ReadFailure ==
    /\ wire = <<>>
    /\ \/ pc = "read" /\ peer = "reset"
       \/ pc = "middle" /\ (peer \in {"closed", "reset"} \/ fd = "shut")
    /\ Goto("judge")
    /\ causes' = IF fd = "shut" THEN causes ELSE causes \cup {"read"}
    /\ UNCHANGED <<uiVars, sharedVars, player, retries, netVars>>

(* No progress for 3 s in the middle of a packet. *)
ReadStalled_Idle == pc = "middle" /\ running /\ UNCHANGED vars
                                \* mutant: idle_allowed inside a packet too
ReadStalled ==
    /\ pc = "middle" /\ running
    /\ Goto("judge")
    /\ causes' = causes \cup {"read"}
    /\ UNCHANGED <<uiVars, sharedVars, player, retries, netVars>>

(* A failed read counts if the session is still running when it is looked  *)
(* at.                                                                     *)
Judge ==
    /\ pc = "judge"
    /\ failed' = (failed \/ running)
    /\ Goto("cleanup")
    /\ UNCHANGED <<uiVars, g_signal_stop, running, connected, video_started,
                   finished, fd, status_lock, status_head, player, retries,
                   netVars, causes>>

(* log_status_packet: the text is rewritten under the lock. *)
StatusLock ==
    /\ pc = "status" /\ status_lock = "free"
    /\ status_lock' = "stream"
    /\ status_head' = "torn"
    /\ Goto("write")
    /\ UNCHANGED <<uiVars, g_signal_stop, flagVars, fd, player, retries,
                   netVars, causes>>

StatusWrite ==
    /\ pc = "write"
    /\ status_head' \in {"default", "reason"}
    /\ status_lock' = "free"
    /\ Goto("loop")
    /\ UNCHANGED <<uiVars, g_signal_stop, flagVars, fd, player, retries,
                   netVars, causes>>

(* The video branch asks for a key frame, or does not. *)
Ask ==
    /\ pc = "video"
    /\ \/ Request("frame")
       \/ Goto("frame") /\ UNCHANGED uiVars
    /\ UNCHANGED <<sharedVars, player, retries, netVars, causes>>

(* The frame is skipped, or a player is there or opened for it. *)
Frame ==
    /\ pc = "frame"
    /\ \/ /\ Goto("loop")
          /\ UNCHANGED <<player, failed, causes>>
       \/ /\ player' = TRUE
          /\ Goto("submit")
          /\ UNCHANGED <<failed, causes>>
       \/ /\ player' = FALSE /\ failed' = TRUE
          /\ causes' = causes \cup {"decoder"}
          /\ Goto("cleanup")
    /\ UNCHANGED <<uiVars, g_signal_stop, running, connected, video_started,
                   finished, fd, status_lock, status_head, retries, netVars>>

(* submit_video *)
SubmitStopped ==
    /\ pc = "submit" /\ ~running
    /\ failed' = TRUE /\ retries' = 0
    /\ Goto("cleanup")
    /\ UNCHANGED <<uiVars, g_signal_stop, running, connected, video_started,
                   finished, fd, status_lock, status_head, player, netVars,
                   causes>>

Submitted ==
    /\ pc = "submit" /\ running
    /\ video_started' = TRUE /\ retries' = 0
    /\ Goto("loop")
    /\ UNCHANGED <<uiVars, g_signal_stop, running, connected, failed,
                   finished, fd, status_lock, status_head, player, netVars,
                   causes>>

MayRetry_OffByOne == retries <= MaxRetries    \* mutant
MayRetry == retries < MaxRetries

SubmitRetry ==
    /\ pc = "submit" /\ running /\ MayRetry
    /\ retries' = retries + 1
    /\ UNCHANGED <<uiVars, sharedVars, pc, player, netVars, causes>>

(* NDL rejects the frame, or stays full for every retry. *)
SubmitRejected ==
    /\ pc = "submit" /\ running
    /\ failed' = TRUE /\ retries' = 0
    /\ causes' = causes \cup {"decoder"}
    /\ Goto("cleanup")
    /\ UNCHANGED <<uiVars, g_signal_stop, running, connected, video_started,
                   finished, fd, status_lock, status_head, player, netVars>>

(* Audio and the player are closed before the thread is seen as finished. *)
Cleanup ==
    /\ pc = "cleanup"
    /\ player' = FALSE
    /\ finished' = TRUE
    /\ Goto("ended")
    /\ UNCHANGED <<uiVars, g_signal_stop, running, connected, video_started,
                   failed, fd, status_lock, status_head, retries, netVars,
                   causes>>

StreamStep ==
    \/ Start \/ Greet \/ Loop
    \/ ReadStopped("read") \/ ReadStopped("middle")
    \/ ReadPacket \/ ReadEnd \/ ReadFailure \/ ReadStalled \/ Judge
    \/ StatusLock \/ StatusWrite
    \/ Ask \/ Frame
    \/ SubmitStopped \/ Submitted \/ SubmitRetry \/ SubmitRejected
    \/ Cleanup

-----------------------------------------------------------------------------
(* The console, the network and the user.                                  *)

Send(kind) ==
    /\ peer = "up" /\ sent < MaxPackets
    /\ sent' = IF kind = "part" THEN MaxPackets ELSE sent + 1
    /\ wire' = Append(wire, kind)
    /\ UNCHANGED <<uiVars, sharedVars, streamVars, peer, causes>>

Hangup(how) ==
    /\ peer = "up"
    /\ peer' = how
    /\ UNCHANGED <<uiVars, sharedVars, streamVars, sent, wire, causes>>

Signal ==
    /\ mpc # "killed" /\ ~g_signal_stop
    /\ g_signal_stop' = TRUE
    /\ UNCHANGED <<uiVars, flagVars, fd, status_lock, status_head, streamVars,
                   netVars, causes>>

Environment ==
    \/ PollBack \/ PollQuit \/ Signal
    \/ \E kind \in Kinds : Send(kind)
    \/ \E how \in {"closed", "reset"} : Hangup(how)

Terminated == mpc \in {"done", "killed"} /\ UNCHANGED vars

Next == UiStep \/ UiTurn \/ StreamStep \/ Environment \/ Terminated

Spec == Init /\ [][Next]_vars

-----------------------------------------------------------------------------
(* The session as its caller sees it: the refinement mapping.              *)

SessionPhase ==
    IF mpc \in {"done", "killed"} THEN mpc
    ELSE IF mpc \in {"poll", "copy"} THEN "streaming"
    ELSE IF mpc \in {"stop", "shutdown", "join", "close"} THEN "stopping"
    ELSE "opening"

WorkerState ==
    [w \in {"stream"} |-> IF pc = "off" THEN "unborn"
                          ELSE IF pc \in {"ended", "killed"} THEN "ended"
                          ELSE "alive"]

Session == INSTANCE StreamSession
               WITH Workers <- {"stream"}, Writers <- {"stream"},
                    phase <- SessionPhase, worker <- WorkerState,
                    holding <- (fd \in {"open", "shut"} \/ player),
                    back <- user_back, stop <- g_signal_stop

-----------------------------------------------------------------------------
(* The kernel schedules both threads, the UI thread keeps taking the turns *)
(* of its loop, and a lock that keeps being free is obtained.  In the      *)
(* middle of a packet the time of 3 s passes (StreamStep).  Nothing is     *)
(* assumed of the console or the user.                                     *)
FairSpec ==
    /\ Spec
    /\ WF_vars(UiStep)
    /\ WF_vars(UiTurn)
    /\ SF_vars(StreamStep)

-----------------------------------------------------------------------------
(* Properties.                                                             *)

(* Every variable keeps its type. *)
TypeOK ==
    /\ mpc \in UiLocs /\ user_back \in BOOLEAN /\ ui_cleared \in BOOLEAN
    /\ shown \in {"nothing", "default", "reason", "torn"}
    /\ result \in {"none", "REMOTE_END", "TRANSPORT_LOST", "ERROR",
                   "USER_BACK"}
    /\ g_signal_stop \in BOOLEAN /\ running \in BOOLEAN
    /\ connected \in BOOLEAN /\ video_started \in BOOLEAN
    /\ failed \in BOOLEAN /\ finished \in BOOLEAN
    /\ fd \in {"none", "open", "shut", "closed"}
    /\ status_lock \in {"none", "free", "ui", "stream"}
    /\ status_head \in {"default", "reason", "torn"}
    /\ pc \in StreamLocs /\ player \in BOOLEAN /\ retries \in 0..MaxRetries
    /\ peer \in {"idle", "up", "closed", "reset"}
    /\ sent \in 0..MaxPackets /\ wire \in Seq(Kinds)
    /\ causes \subseteq {"connect", "memory", "packet", "read", "decoder"}

(* The worker and its lock live on the UI thread's stack and its socket is *)
(* closed by the UI thread: all three are there until the thread has       *)
(* ended, and nothing of the thread's is left when it has.                 *)
ThreadHasResources ==
    /\ pc \notin {"off", "ended", "killed"} =>
         fd \in {"open", "shut"} /\ status_lock # "none" /\ mpc # "done"
    /\ mpc = "done" => ~player

(* The status text on the waiting screen is one the console sent, never    *)
(* half of one and half of another.                                        *)
StatusNotTorn == shown # "torn"

(* A session that had its thread returns a lost transport exactly if       *)
(* something failed and nobody was leaving by then.  A frame or a read     *)
(* that the user, SDL_QUIT or a signal interrupts is no failure, although  *)
(* it sets failed; and no failure is overlooked because running is read    *)
(* late.                                                                   *)
LostIffFailed ==
    [][mpc = "close" /\ mpc' = "done" =>
         (result' = "TRANSPORT_LOST"
             <=> causes # {} /\ ~user_back /\ ~g_signal_stop)]_vars

(* What the selector is promised: the session starts its thread, streams   *)
(* until the user leaves, a stop is requested or the thread is gone, and   *)
(* returns only when the thread has ended and nothing is held, with        *)
(* USER_BACK exactly if the user left.  Only the thread, which writes to   *)
(* its socket, may end the process instead.                                *)
ImplementsStreamSession == Session!Spec

(* README.md:68: Left while streaming returns to the server selector.      *)
LeftReturns == user_back => mpc # "killed"

(* Leaving ends the session although the console is silent: the thread     *)
(* looks at running at least every 200 ms, and shutdown wakes it.          *)
LeavingEnds == user_back \/ (mpc = "poll" /\ g_signal_stop)
                   ~> mpc \in {"done", "killed"}

(* A console that closes, resets, or stalls in the middle of a packet ends *)
(* the session; only silence between packets does not (sft/protocol.h:57). *)
LossEnds ==
    mpc = "poll" /\ (peer \in {"closed", "reset"} \/ pc = "middle")
        ~> mpc \in {"done", "killed"}
=============================================================================
