----------------------- MODULE FrametapSession_proofs -----------------------
(***************************************************************************)
(* Proofs about FrametapSession, for any bound on the retries and on the   *)
(* packets.                                                                *)
(***************************************************************************)
EXTENDS FrametapSession, TLAPS

LEMMA HeadAndTail ==
    ASSUME NEW S, NEW q \in Seq(S), q # <<>>
    PROVE  Head(q) \in S /\ Tail(q) \in Seq(S)
OBVIOUS

(* Where the thread goes with a packet it has read. *)
LEMMA PacketLoc ==
    ASSUME wire \in Seq(Kinds), ReadPacket
    PROVE  /\ pc' \in {"status", "loop", "video", "judge", "middle"}
           /\ pc' = "judge" <=> Head(wire) = "bad"
<1>1. Head(wire) \in Kinds
  BY HeadAndTail DEF ReadPacket
<1> QED
  BY <1>1 DEF ReadPacket, Goto, NextLoc, Kinds

-----------------------------------------------------------------------------
(* The types. *)

(* The flags, then everything else: each prover is at home with one.       *)
FlagTypes ==
    /\ user_back \in BOOLEAN /\ ui_cleared \in BOOLEAN
    /\ g_signal_stop \in BOOLEAN /\ running \in BOOLEAN
    /\ connected \in BOOLEAN /\ video_started \in BOOLEAN
    /\ failed \in BOOLEAN /\ finished \in BOOLEAN /\ player \in BOOLEAN

DataTypes ==
    /\ mpc \in UiLocs
    /\ shown \in {"nothing", "default", "reason", "torn"}
    /\ result \in {"none", "REMOTE_END", "TRANSPORT_LOST", "ERROR",
                   "USER_BACK"}
    /\ fd \in {"none", "open", "shut", "closed"}
    /\ status_lock \in {"none", "free", "ui", "stream"}
    /\ status_head \in {"default", "reason", "torn"}
    /\ pc \in StreamLocs /\ retries \in 0..MaxRetries
    /\ peer \in {"idle", "up", "closed", "reset"}
    /\ sent \in 0..MaxPackets /\ wire \in Seq(Kinds)
    /\ causes \subseteq {"connect", "memory", "packet", "read", "decoder"}

LEMMA TypeParts == TypeOK <=> FlagTypes /\ DataTypes
BY Zenon DEF TypeOK, FlagTypes, DataTypes

LEMMA FlagInit == Init => FlagTypes
BY Zenon DEF Init, FlagTypes

LEMMA DataInit == Init => DataTypes
BY FrametapAssumption DEF Init, DataTypes, UiLocs, StreamLocs

LEMMA FlagNext == ASSUME FlagTypes, [Next]_vars PROVE FlagTypes'
<1> USE DEF FlagTypes, UiGoto, Return, uiVars, flagVars, sharedVars,
            streamVars, netVars
<1>1. CASE UiStep
  BY ZenonT(60), <1>1 DEF UiStep, Connect, InitLock, Spawn, PollEnd, Stop,
     Shutdown, Join, Close
<1>2. CASE UiTurn \/ PollBack \/ PollQuit \/ Signal
  BY ZenonT(60), <1>2 DEF UiTurn, PollClear, PollStatus, CopyStatus, PollBack,
     PollQuit, Signal
<1>3. CASE \/ Start \/ Cleanup \/ Greet \/ Ask \/ Loop
           \/ ReadStopped("read") \/ ReadStopped("middle")
  BY ZenonT(60), <1>3 DEF Start, Cleanup, Greet, Ask, Request, Loop, ReadStopped
<1>4. CASE ReadPacket \/ ReadEnd \/ ReadFailure \/ ReadStalled
  BY ZenonT(60), <1>4 DEF ReadPacket, ReadEnd, ReadFailure, ReadStalled
<1>5. CASE Judge
  BY ZenonT(60), <1>5 DEF Judge
<1>6. CASE StatusLock \/ StatusWrite \/ Frame
  BY ZenonT(60), <1>6 DEF StatusLock, StatusWrite, Frame
<1>7. CASE SubmitStopped \/ Submitted \/ SubmitRetry \/ SubmitRejected
  BY ZenonT(60), <1>7 DEF SubmitStopped, Submitted, SubmitRetry, SubmitRejected
<1>8. ASSUME NEW kind \in Kinds, Send(kind) PROVE FlagTypes'
  BY ZenonT(60), <1>8 DEF Send
<1>9. ASSUME NEW how, Hangup(how) PROVE FlagTypes'
  BY ZenonT(60), <1>9 DEF Hangup
<1>10. CASE UNCHANGED vars
  BY ZenonT(60), <1>10 DEF vars
<1> QED
  BY <1>1, <1>2, <1>3, <1>4, <1>5, <1>6, <1>7, <1>8, <1>9, <1>10
  DEF Next, StreamStep, Environment, Terminated

LEMMA DataUi ==
    ASSUME DataTypes, UiStep \/ UiTurn \/ PollBack \/ PollQuit
    PROVE  DataTypes'
<1> USE DEF DataTypes, UiLocs, UiGoto, Return, flagVars, sharedVars,
            streamVars, netVars, uiVars
<1>1. CASE Connect
  BY <1>1 DEF Connect
<1>2. CASE InitLock \/ Spawn
  BY <1>2 DEF InitLock, Spawn, StreamLocs
<1>3. CASE PollClear \/ PollStatus \/ CopyStatus
  BY <1>3 DEF PollClear, PollStatus, CopyStatus
<1>4. CASE PollBack \/ PollQuit \/ PollEnd
  BY <1>4 DEF PollBack, PollQuit, PollEnd
<1>5. CASE Stop \/ Shutdown \/ Join
  BY <1>5 DEF Stop, Shutdown, Join
<1>6. CASE Close
  BY <1>6 DEF Close, SessionResult
<1> QED
  BY <1>1, <1>2, <1>3, <1>4, <1>5, <1>6 DEF UiStep, UiTurn

LEMMA DataStream == ASSUME DataTypes, StreamStep PROVE DataTypes'
<1> USE DEF DataTypes, UiLocs, StreamLocs, Goto, UiGoto, flagVars,
            sharedVars, streamVars, netVars, uiVars
<1>1. CASE Start \/ Cleanup
  BY <1>1 DEF Start, Cleanup
<1>2. CASE Greet \/ Ask
  BY <1>2 DEF Greet, Ask, Request
<1>3. CASE Loop \/ ReadStopped("read") \/ ReadStopped("middle") \/ ReadEnd
  BY <1>3 DEF Loop, ReadStopped, ReadEnd
<1>4. CASE ReadPacket
  <2>1. pc' \in StreamLocs
    BY <1>4, PacketLoc
  <2>2. wire' \in Seq(Kinds)
    BY <1>4, HeadAndTail DEF ReadPacket
  <2> QED
    BY <1>4, <2>1, <2>2 DEF ReadPacket
<1>5. CASE ReadFailure \/ ReadStalled
  <2>1. causes' = causes \/ causes' = causes \cup {"read"}
    BY <1>5 DEF ReadFailure, ReadStalled
  <2>2. pc' = "judge" /\ UNCHANGED <<uiVars, sharedVars, player, retries,
                                     netVars>>
    BY Zenon, <1>5 DEF ReadFailure, ReadStalled
  <2>3. causes' \subseteq {"connect", "memory", "packet", "read", "decoder"}
    BY <2>1
  <2> QED
    BY <2>2, <2>3
<1>6. CASE Judge
  BY <1>6 DEF Judge
<1>7. CASE StatusLock \/ StatusWrite
  BY <1>7 DEF StatusLock, StatusWrite
<1>8. CASE Frame
  <2>1. causes' = causes \/ causes' = causes \cup {"decoder"}
    BY <1>8 DEF Frame
  <2>2. /\ pc' \in {"loop", "submit", "cleanup"}
        /\ UNCHANGED <<uiVars, fd, status_lock, status_head, retries, netVars>>
    BY <1>8 DEF Frame
  <2>3. causes' \subseteq {"connect", "memory", "packet", "read", "decoder"}
    BY <2>1
  <2> QED
    BY <2>2, <2>3
<1>9. CASE SubmitStopped \/ Submitted \/ SubmitRejected
  <2>1. causes' = causes \/ causes' = causes \cup {"decoder"}
    BY <1>9 DEF SubmitStopped, Submitted, SubmitRejected
  <2>2. /\ pc' \in {"loop", "cleanup"} /\ retries' = 0
        /\ UNCHANGED <<uiVars, fd, status_lock, status_head, netVars>>
    BY <1>9 DEF SubmitStopped, Submitted, SubmitRejected
  <2>3. causes' \subseteq {"connect", "memory", "packet", "read", "decoder"}
    BY <2>1
  <2> QED
    BY <2>2, <2>3, FrametapAssumption
<1>10. CASE SubmitRetry
  <2>1. retries + 1 \in 0..MaxRetries
    BY <1>10, FrametapAssumption DEF SubmitRetry, MayRetry
  <2> QED
    BY <1>10, <2>1 DEF SubmitRetry
<1> QED
  BY <1>1, <1>2, <1>3, <1>4, <1>5, <1>6, <1>7, <1>8, <1>9, <1>10
  DEF StreamStep

LEMMA DataEnvironment ==
    ASSUME DataTypes, Environment, ~PollBack, ~PollQuit
    PROVE  DataTypes'
<1> USE DEF flagVars, sharedVars, streamVars, netVars, uiVars
<1>1. ASSUME NEW kind \in Kinds, Send(kind) PROVE DataTypes'
  <2>1. sent' \in 0..MaxPackets
    BY <1>1, FrametapAssumption DEF Send, DataTypes
  <2>2. wire' \in Seq(Kinds)
    BY <1>1 DEF Send, DataTypes
  <2> QED
    BY <1>1, <2>1, <2>2 DEF Send, DataTypes
<1>2. ASSUME NEW how \in {"closed", "reset"}, Hangup(how) PROVE DataTypes'
  BY <1>2 DEF Hangup, DataTypes
<1>3. CASE Signal
  BY <1>3 DEF Signal, DataTypes
<1> QED
  BY <1>1, <1>2, <1>3 DEF Environment

LEMMA TypeInit == Init => TypeOK
BY FlagInit, DataInit, TypeParts

LEMMA TypeNext == TypeOK /\ [Next]_vars => TypeOK'
<1> SUFFICES ASSUME TypeOK, [Next]_vars PROVE TypeOK'
  OBVIOUS
<1>1. FlagTypes'
  BY TypeParts, FlagNext
<1>2. DataTypes'
  <2>1. CASE UNCHANGED vars
    BY <2>1, TypeParts DEF DataTypes, vars, uiVars, sharedVars, streamVars,
       netVars
  <2> QED
    BY <2>1, TypeParts, DataUi, DataStream, DataEnvironment
    DEF Next, Terminated, Environment
<1>3. (TypeOK <=> FlagTypes /\ DataTypes)'
  BY Zenon, TypeParts DEF TypeOK, FlagTypes, DataTypes
<1> QED
  BY <1>1, <1>2, <1>3

(* Every variable keeps its type; in particular no frame is submitted more *)
(* than MaxRetries times again.                                            *)
THEOREM TypeCorrect == Spec => []TypeOK
BY TypeInit, TypeNext, PTL DEF Spec

-----------------------------------------------------------------------------
(***************************************************************************)
(* The resources of the thread.  What the UI thread holds, and which       *)
(* thread can exist, at each of its locations.                             *)
(***************************************************************************)

BeforeSpawn == {"connect", "lock_init", "spawn"}
WithThread  == {"poll", "copy", "stop", "shutdown", "join"}

ResourceInv ==
    /\ mpc \in BeforeSpawn => pc = "off"
    /\ mpc \in WithThread => fd \in {"open", "shut"} /\ status_lock # "none"
    /\ mpc = "spawn" => fd = "open" /\ status_lock = "free"
    /\ mpc = "lock_init" => fd = "open"
    /\ mpc = "close" => pc = "ended"
    /\ mpc = "done" => pc \in {"off", "ended"}
    /\ mpc = "killed" <=> pc = "killed"
    /\ pc \in {"off", "start", "greet", "ended"} => ~player

LEMMA ResourceInit == Init => ResourceInv
BY DEF Init, ResourceInv, BeforeSpawn, WithThread

(* A step of the UI thread. *)
LEMMA ResourceUi ==
    ASSUME ResourceInv, UiStep \/ UiTurn \/ PollBack \/ PollQuit
    PROVE  ResourceInv'
<1> USE DEF ResourceInv, BeforeSpawn, WithThread, UiGoto, Return, streamVars
<1>1. CASE Connect
  BY <1>1 DEF Connect
<1>2. CASE InitLock
  BY <1>2 DEF InitLock
<1>3. CASE Spawn
  BY <1>3 DEF Spawn
<1>4. CASE PollClear
  BY <1>4 DEF PollClear, Polling, sharedVars
<1>5. CASE PollStatus
  BY <1>5 DEF PollStatus, Polling
<1>6. CASE CopyStatus
  BY <1>6 DEF CopyStatus
<1>7. CASE PollBack \/ PollQuit \/ PollEnd
  BY <1>7 DEF PollBack, PollQuit, PollEnd, Polling, sharedVars
<1>8. CASE Stop \/ Shutdown
  BY <1>8 DEF Stop, Shutdown
<1>9. CASE Join
  BY <1>9 DEF Join, Joined, sharedVars
<1>10. CASE Close
  BY <1>10 DEF Close
<1> QED
  BY <1>1, <1>2, <1>3, <1>4, <1>5, <1>6, <1>7, <1>8, <1>9, <1>10
  DEF UiStep, UiTurn

(* A step of the stream thread needs the thread, which only lives beside a *)
(* UI thread that has not yet joined it, and does not take its socket or   *)
(* its lock away.                                                          *)
Alive == pc \notin {"off", "ended", "killed"}

LEMMA StreamKeeps ==
    ASSUME TypeOK, ResourceInv, StreamStep
    PROVE  /\ Alive /\ mpc \in WithThread
           /\ fd' = fd /\ status_lock' # "none"
           /\ pc' \notin {"off", "start"}
           /\ \/ mpc' = mpc /\ pc' # "killed"
              \/ mpc' = "killed" /\ pc' = "killed"
           /\ pc' \in {"greet", "ended"} =>
                \/ pc = "start" /\ player' = player
                \/ player' = FALSE
<1> USE DEF Goto
<1>1. Alive
  BY DEF Alive, StreamStep, Start, Greet, Loop, ReadStopped, ReadPacket,
     ReadEnd, ReadFailure, ReadStalled, Judge, StatusLock, StatusWrite, Ask,
     Frame, SubmitStopped, Submitted, SubmitRetry, SubmitRejected, Cleanup
<1>2. mpc \in WithThread
  BY <1>1 DEF Alive, ResourceInv, WithThread, BeforeSpawn, TypeOK, UiLocs
<1>3. status_lock # "none"
  BY <1>2 DEF ResourceInv
<1>4. CASE Start
  BY <1>1, <1>2, <1>3, <1>4 DEF Start, uiVars, ResourceInv
<1>5. CASE Greet \/ Ask
  BY <1>1, <1>2, <1>3, <1>5 DEF Greet, Ask, Request, UiGoto, uiVars,
     sharedVars
<1>6. CASE \/ Loop \/ ReadStopped("read") \/ ReadStopped("middle")
           \/ ReadEnd \/ ReadFailure \/ ReadStalled
  BY <1>1, <1>2, <1>3, <1>6 DEF Loop, ReadStopped, ReadEnd, ReadFailure,
     ReadStalled, uiVars, sharedVars
<1>7. CASE ReadPacket
  <2>1. pc' \in {"status", "loop", "video", "judge", "middle"}
    BY <1>7, PacketLoc DEF TypeOK
  <2> QED
    BY <1>1, <1>2, <1>3, <1>7, <2>1 DEF ReadPacket, uiVars, sharedVars
<1>8. CASE Judge \/ StatusLock \/ StatusWrite
  BY <1>1, <1>2, <1>3, <1>8 DEF Judge, StatusLock, StatusWrite, uiVars
<1>9. CASE Frame
  BY <1>1, <1>2, <1>3, <1>9 DEF Frame, uiVars
<1>10. CASE SubmitStopped \/ Submitted \/ SubmitRetry \/ SubmitRejected
  BY <1>1, <1>2, <1>3, <1>10 DEF SubmitStopped, Submitted, SubmitRetry,
     SubmitRejected, uiVars, sharedVars
<1>11. CASE Cleanup
  BY <1>1, <1>2, <1>3, <1>11 DEF Cleanup, uiVars
<1> QED
  BY <1>4, <1>5, <1>6, <1>7, <1>8, <1>9, <1>10, <1>11 DEF StreamStep

LEMMA ResourceNext == TypeOK /\ ResourceInv /\ [Next]_vars => ResourceInv'
<1> SUFFICES ASSUME TypeOK, ResourceInv, [Next]_vars PROVE ResourceInv'
  OBVIOUS
<1>1. CASE StreamStep
  <2>1. pc = "start" => player = FALSE
    BY DEF ResourceInv
  <2>2. pc' \in {"off", "start", "greet", "ended"} => player' = FALSE
    BY <1>1, <2>1, StreamKeeps
  <2>3. /\ mpc' \in WithThread \cup {"killed"}
        /\ mpc' \in WithThread => fd' \in {"open", "shut"}
        /\ status_lock' # "none"
        /\ mpc' = "killed" <=> pc' = "killed"
    BY <1>1, StreamKeeps DEF ResourceInv, WithThread, Alive
  <2> QED
    BY <2>2, <2>3 DEF ResourceInv, BeforeSpawn, WithThread
<1>2. CASE UNCHANGED vars
  BY <1>2 DEF ResourceInv, vars, uiVars, sharedVars, streamVars
<1>3. ASSUME NEW kind \in Kinds, Send(kind) PROVE ResourceInv'
  BY <1>3 DEF Send, ResourceInv, uiVars, sharedVars, streamVars
<1>4. ASSUME NEW how, Hangup(how) PROVE ResourceInv'
  BY <1>4 DEF Hangup, ResourceInv, uiVars, sharedVars, streamVars
<1>5. CASE Signal
  BY <1>5 DEF Signal, ResourceInv, uiVars, streamVars
<1> QED
  BY <1>1, <1>2, <1>3, <1>4, <1>5, ResourceUi DEF Next, Environment, Terminated

LEMMA ResourceInvariance == Spec => [](TypeOK /\ ResourceInv)
BY TypeInit, TypeNext, ResourceInit, ResourceNext, PTL DEF Spec

(* The stream thread has its socket and its lock as long as it lives, and  *)
(* a session that has returned left no player behind.                      *)
THEOREM ResourcesCorrect == Spec => []ThreadHasResources
<1>1. TypeOK /\ ResourceInv => ThreadHasResources
  BY DEF TypeOK, UiLocs, ResourceInv, BeforeSpawn, WithThread,
     ThreadHasResources
<1> QED
  BY <1>1, ResourceInvariance, PTL

-----------------------------------------------------------------------------
(* The status text is only half written while the stream thread, which     *)
(* then holds the lock, is writing it.                                     *)
StatusInv ==
    /\ mpc = "copy" => status_lock = "ui"
    /\ pc = "write" => status_lock = "stream"
    /\ status_head = "torn" => pc = "write"
    /\ shown # "torn"

LEMMA StatusInit == Init => StatusInv
BY DEF Init, StatusInv

LEMMA StatusNext ==
    TypeOK /\ ResourceInv /\ StatusInv /\ [Next]_vars => StatusInv'
<1> SUFFICES ASSUME TypeOK, ResourceInv, StatusInv, [Next]_vars
             PROVE  StatusInv'
  OBVIOUS
<1> USE DEF UiGoto, Return
<1>1. CASE PollStatus
  BY <1>1 DEF PollStatus, LockFree, StatusInv, streamVars
<1>2. CASE CopyStatus
  BY <1>2 DEF CopyStatus, StatusInv, streamVars
<1>3. CASE InitLock \/ Spawn \/ Close
  <2>1. pc # "write" /\ pc' # "write" /\ mpc' # "copy"
    BY <1>3 DEF InitLock, Spawn, Close, ResourceInv, BeforeSpawn, streamVars
  <2>2. UNCHANGED <<status_head, shown>>
    BY <1>3 DEF InitLock, Spawn, Close
  <2> QED
    BY <2>1, <2>2 DEF StatusInv
<1>4. CASE StatusLock
  BY <1>4 DEF StatusLock, Goto, StatusInv, uiVars
<1>5. CASE StatusWrite
  BY <1>5 DEF StatusWrite, Goto, StatusInv, uiVars
<1>6. CASE StreamStep /\ ~StatusLock /\ ~StatusWrite
  <2>1. UNCHANGED <<status_lock, status_head, shown>>
    BY <1>6 DEF StreamStep, Start, Greet, Ask, Request, Loop, ReadStopped,
       ReadPacket, ReadEnd, ReadFailure, ReadStalled, Judge, Frame,
       SubmitStopped, Submitted, SubmitRetry, SubmitRejected, Cleanup,
       uiVars, sharedVars
  <2>2. pc # "write"
    BY <1>6 DEF StreamStep, Start, Greet, Ask, Loop, ReadStopped,
       ReadPacket, ReadEnd, ReadFailure, ReadStalled, Judge, Frame,
       SubmitStopped, Submitted, SubmitRetry, SubmitRejected, Cleanup
  <2>3. pc' # "write"
    <3>1. CASE ReadPacket
      BY <3>1, PacketLoc DEF TypeOK
    <3> QED
      BY <1>6, <3>1 DEF StreamStep, Start, Greet, Ask, Request, Loop,
         ReadStopped, ReadEnd, ReadFailure, ReadStalled, Judge, Frame, Goto,
         SubmitStopped, Submitted, SubmitRetry, SubmitRejected, Cleanup
  <2>4. mpc' = mpc \/ mpc' = "killed"
    BY <1>6, StreamKeeps
  <2> QED
    BY <2>1, <2>2, <2>3, <2>4 DEF StatusInv
<1>7. CASE /\ UNCHANGED <<pc, status_lock, status_head, shown>>
           /\ mpc' = mpc \/ mpc' # "copy"
  BY <1>7 DEF StatusInv
<1>8. CASE UiStep \/ UiTurn \/ PollBack \/ PollQuit
  <2>1. CASE Connect \/ PollEnd \/ Stop \/ Shutdown \/ Join
    BY <1>7, <2>1 DEF Connect, PollEnd, Stop, Shutdown, Join, sharedVars,
       streamVars
  <2>2. CASE PollClear \/ PollBack \/ PollQuit
    BY <1>7, <2>2 DEF PollClear, PollBack, PollQuit, sharedVars, streamVars
  <2> QED
    BY <1>1, <1>2, <1>3, <1>8, <2>1, <2>2 DEF UiStep, UiTurn
<1>9. CASE Environment /\ ~PollBack /\ ~PollQuit
  BY <1>7, <1>9 DEF Environment, Signal, Send, Hangup, uiVars, sharedVars,
     streamVars
<1>10. CASE UNCHANGED vars
  BY <1>7, <1>10 DEF vars, uiVars, sharedVars, streamVars
<1> QED
  BY <1>4, <1>5, <1>6, <1>8, <1>9, <1>10 DEF Next, Environment, Terminated

(* The user is never shown a status text that is half written: the lock    *)
(* covers the whole rewriting and the whole copy.                          *)
THEOREM StatusCorrect == Spec => []StatusNotTorn
<1>1. StatusInv => StatusNotTorn
  BY DEF StatusInv, StatusNotTorn
<1> QED
  BY <1>1, StatusInit, StatusNext, ResourceInvariance, PTL DEF Spec

-----------------------------------------------------------------------------
(* A session leaves for the user or a signal, or because its thread has    *)
(* ended.  Until one of the first two, the thread has failed exactly if    *)
(* something went wrong, except that it has not yet judged a failed read.  *)
Leaving == user_back \/ g_signal_stop

LossInv ==
    /\ mpc \in BeforeSpawn => ~failed /\ causes = {}
    /\ mpc \in BeforeSpawn \cup {"poll", "copy"} => running \/ Leaving
    /\ mpc \in {"stop", "shutdown", "join", "close"} => Leaving \/ finished
    /\ finished => pc = "ended"
    /\ running \/ Leaving \/ finished
    /\ fd = "shut" => mpc \in {"join", "close", "killed"}
    /\ ~Leaving =>
        /\ pc \notin {"off", "judge", "cleanup", "ended", "killed"} =>
             ~failed /\ causes = {}
        /\ pc = "judge" => ~failed /\ causes # {}
        /\ pc \in {"cleanup", "ended"} => (failed <=> causes # {})

LEMMA LossInit == Init => LossInv
BY DEF Init, LossInv, BeforeSpawn, Leaving

(* The steps of the UI thread. *)
LEMMA LossUi ==
    ASSUME TypeOK, ResourceInv, LossInv,
           UiStep \/ UiTurn \/ PollBack \/ PollQuit
    PROVE  LossInv'
<1> USE DEF LossInv, BeforeSpawn, Leaving, UiGoto, Return
<1>1. CASE Connect
  BY <1>1 DEF Connect, ResourceInv, flagVars, streamVars
<1>2. CASE InitLock
  BY <1>2 DEF InitLock, ResourceInv, flagVars, streamVars
<1>3. CASE Spawn
  BY <1>3 DEF Spawn, ResourceInv, flagVars
<1>4. CASE PollClear \/ PollStatus \/ CopyStatus
  BY <1>4 DEF PollClear, PollStatus, CopyStatus, Polling, sharedVars,
     flagVars, streamVars
<1>5. CASE PollBack
  BY <1>5 DEF PollBack, Polling, streamVars
<1>6. CASE PollQuit
  BY <1>6 DEF PollQuit, Polling, flagVars, streamVars
<1>7. CASE PollEnd
  BY <1>7 DEF PollEnd, sharedVars, flagVars, streamVars
<1>8. CASE Stop
  BY <1>8 DEF Stop, streamVars
<1>9. CASE Shutdown
  BY <1>9 DEF Shutdown, flagVars, streamVars
<1>10. CASE Join
  BY <1>10 DEF Join, sharedVars, flagVars, streamVars
<1>11. CASE Close
  BY <1>11 DEF Close, SessionResult, ResourceInv, flagVars, streamVars
<1> QED
  BY <1>1, <1>2, <1>3, <1>4, <1>5, <1>6, <1>7, <1>8, <1>9, <1>10, <1>11
  DEF UiStep, UiTurn

(* The steps of the stream thread: unless the session is being left, they  *)
(* keep failed in step with what went wrong.                               *)
Clean == ~failed /\ causes = {}

LEMMA LossStream ==
    ASSUME TypeOK, ResourceInv, LossInv, StreamStep
    PROVE  LossInv'
<1>1. /\ Alive /\ mpc \in WithThread /\ fd' = fd
      /\ mpc' = mpc \/ mpc' = "killed"
      /\ pc' \notin {"off", "start"}
  BY StreamKeeps
<1>2. ~finished /\ (fd = "shut" => Leaving)
  BY <1>1 DEF LossInv, Alive, WithThread
<1>3. running \/ Leaving
  BY <1>2 DEF LossInv
<1>4. UNCHANGED <<running, user_back, g_signal_stop>>
  BY Zenon DEF StreamStep, Start, Greet, Ask, Request, Loop, ReadStopped,
     ReadPacket, ReadEnd, ReadFailure, ReadStalled, Judge, StatusLock,
     StatusWrite, Frame, SubmitStopped, Submitted, SubmitRetry,
     SubmitRejected, Cleanup, uiVars, sharedVars, flagVars, UiGoto
<1>5. Leaving' <=> Leaving
  BY Zenon, <1>4 DEF Leaving
<1>6. finished' => pc' = "ended"
  <2>1. finished' = finished \/ pc' = "ended"
    BY Zenon DEF StreamStep, Start, Greet, Ask, Request, Loop, ReadStopped,
       ReadPacket, ReadEnd, ReadFailure, ReadStalled, Judge, StatusLock,
       StatusWrite, Frame, SubmitStopped, Submitted, SubmitRetry,
       SubmitRejected, Cleanup, sharedVars, flagVars, Goto
  <2> QED
    BY <1>2, <2>1
<1>7. ASSUME ~Leaving
      PROVE  /\ pc' \notin {"off", "judge", "cleanup", "ended", "killed"} =>
                  Clean'
             /\ pc' = "judge" => ~failed' /\ causes' # {}
             /\ pc' \in {"cleanup", "ended"} => (failed' <=> causes' # {})
  <2>1. running /\ fd # "shut"
    BY <1>2, <1>3, <1>7
  <2>2. pc \notin {"judge", "cleanup"} => Clean
    BY <1>1, <1>7 DEF LossInv, Alive, Clean
  <2> USE DEF Goto, Clean, flagVars, sharedVars
  <2>3. CASE Start
    BY <2>2, <2>3 DEF Start
  <2>4. CASE Greet \/ Ask \/ Loop
    <3>1. Clean /\ pc' \in {"loop", "frame", "read", "killed"}
      BY <2>1, <2>2, <2>4 DEF Greet, Ask, Request, Loop
    <3>2. UNCHANGED <<failed, causes>>
      BY Zenon, <2>4 DEF Greet, Ask, Loop
    <3> QED
      BY <3>1, <3>2
  <2>5. CASE ReadStopped("read") \/ ReadStopped("middle") \/ ReadEnd
    BY <2>1, <2>2, <2>5 DEF ReadStopped, ReadEnd
  <2>6. CASE ReadPacket
    BY <2>2, <2>6, PacketLoc DEF ReadPacket, TypeOK
  <2>7. CASE ReadFailure \/ ReadStalled
    <3>1. Clean /\ pc' = "judge" /\ causes' = causes \cup {"read"}
      BY <2>1, <2>2, <2>7 DEF ReadFailure, ReadStalled
    <3>2. UNCHANGED failed
      BY Zenon, <2>7 DEF ReadFailure, ReadStalled
    <3> QED
      BY <3>1, <3>2
  <2>8. CASE Judge
    <3>1. failed' /\ causes' # {} /\ pc' = "cleanup"
      BY <1>7, <2>1, <2>8 DEF Judge, LossInv
    <3> QED
      BY <3>1
  <2>9. CASE StatusLock \/ StatusWrite
    BY <2>2, <2>9 DEF StatusLock, StatusWrite
  <2>10. CASE Frame
    BY <2>2, <2>10 DEF Frame
  <2>11. CASE SubmitStopped \/ Submitted \/ SubmitRetry \/ SubmitRejected
    <3>1. CASE SubmitStopped \/ SubmitRejected
      BY <2>1, <2>2, <3>1 DEF SubmitStopped, SubmitRejected
    <3>2. CASE Submitted \/ SubmitRetry
      <4>1. Clean /\ pc' \in {"loop", "submit"}
        BY <2>2, <3>2 DEF Submitted, SubmitRetry
      <4>2. UNCHANGED <<failed, causes>>
        BY Zenon, <3>2 DEF Submitted, SubmitRetry
      <4> QED
        BY <4>1, <4>2
    <3> QED
      BY <2>11, <3>1, <3>2
  <2>12. CASE Cleanup
    BY <1>7, <2>12 DEF Cleanup, LossInv
  <2> QED
    BY <2>3, <2>4, <2>5, <2>6, <2>7, <2>8, <2>9, <2>10, <2>11, <2>12
    DEF StreamStep
<1>8. mpc \in {"stop", "shutdown", "join"} => Leaving
  BY <1>1, <1>2 DEF LossInv
<1> QED
  <2>1. /\ mpc' \notin BeforeSpawn \cup {"close", "done"}
        /\ running' \/ Leaving'
        /\ mpc' \in {"stop", "shutdown", "join"} => Leaving'
    BY <1>1, <1>3, <1>4, <1>5, <1>8 DEF WithThread, BeforeSpawn
  <2>2. fd' = "shut" => mpc' \in {"join", "close", "killed"}
    BY <1>1 DEF LossInv
  <2> QED
    BY <1>5, <1>6, <1>7, <2>1, <2>2 DEF LossInv, Clean

LEMMA LossNext == TypeOK /\ ResourceInv /\ LossInv /\ [Next]_vars => LossInv'
<1> SUFFICES ASSUME TypeOK, ResourceInv, LossInv, [Next]_vars PROVE LossInv'
  OBVIOUS
<1> USE DEF LossInv, Leaving, vars, uiVars, sharedVars, flagVars, streamVars
<1>1. CASE Signal
  BY <1>1 DEF Signal
<1>2. ASSUME NEW kind \in Kinds, Send(kind) PROVE LossInv'
  BY <1>2 DEF Send
<1>3. ASSUME NEW how, Hangup(how) PROVE LossInv'
  BY <1>3 DEF Hangup
<1>4. CASE UNCHANGED vars
  BY <1>4
<1> QED
  BY <1>1, <1>2, <1>3, <1>4, LossUi, LossStream
  DEF Next, Environment, Terminated

(* The step that returns.  The thread has been joined, and whether it      *)
(* failed is what went wrong, unless somebody was leaving.                 *)
LEMMA LossReturn ==
    ASSUME TypeOK, ResourceInv, LossInv, [Next]_vars,
           mpc = "close", mpc' = "done"
    PROVE  result' = "TRANSPORT_LOST" <=> causes # {} /\ ~Leaving
<1>1. pc = "ended"
  BY DEF ResourceInv
<1>2. Close
  <2>1. CASE StreamStep
    BY <1>1, <2>1, StreamKeeps DEF Alive
  <2>2. CASE UiStep /\ ~Close
    BY <2>2 DEF UiStep, Connect, InitLock, Spawn, PollEnd, Stop, Shutdown,
       Join
  <2>3. CASE UiTurn
    BY <2>3 DEF UiTurn, PollClear, PollStatus, CopyStatus, Polling
  <2>4. CASE Environment
    BY <2>4 DEF Environment, PollBack, PollQuit, Polling, Signal, Send,
       Hangup, uiVars
  <2>5. CASE UNCHANGED vars
    BY <2>5 DEF vars, uiVars
  <2> QED
    BY <2>1, <2>2, <2>3, <2>4, <2>5 DEF Next, Terminated
<1>3. result' = SessionResult
  BY <1>2 DEF Close, Return
<1>4. ~Leaving => (failed <=> causes # {})
  BY <1>1 DEF LossInv
<1> QED
  BY <1>3, <1>4 DEF SessionResult, Leaving

(* A session that had its thread is reported as a lost transport exactly   *)
(* if something failed and nobody was leaving by then, in whatever order   *)
(* the flags are set and read.                                             *)
THEOREM LossCorrect == Spec => LostIffFailed
<1>1. TypeOK /\ ResourceInv /\ LossInv /\ [Next]_vars
        => [mpc = "close" /\ mpc' = "done" =>
              (result' = "TRANSPORT_LOST"
                 <=> causes # {} /\ ~user_back /\ ~g_signal_stop)]_vars
  BY LossReturn DEF Leaving
<1> QED
  BY <1>1, LossInit, LossNext, ResourceInvariance, PTL
     DEF Spec, LostIffFailed

-----------------------------------------------------------------------------
(***************************************************************************)
(* The refinement: every step of the session is a step of StreamSession or *)
(* leaves the mapped variables alone.  The UI thread leaves its loop by    *)
(* itself only if finished is set, which the thread does as it ends; and   *)
(* nothing is held before the connection is made.                          *)
(***************************************************************************)

CallerInv ==
    /\ finished => pc = "ended"
    /\ mpc = "connect" => fd = "none"

SessionInv == TypeOK /\ ResourceInv /\ CallerInv

(* What a step of the stream thread does to the session around it. *)
LEMMA StreamFrame ==
    ASSUME StreamStep
    PROVE  /\ UNCHANGED <<user_back, g_signal_stop, result>>
           /\ finished' => finished \/ pc' = "ended"
BY DEF StreamStep, Start, Greet, Loop, ReadStopped, ReadPacket,
   ReadEnd, ReadFailure, ReadStalled, Judge, StatusLock, StatusWrite, Ask,
   Frame, SubmitStopped, Submitted, SubmitRetry, SubmitRejected, Cleanup,
   Request, UiGoto, Goto, uiVars, sharedVars, flagVars

(* What the other steps leave alone. *)
LEMMA UiFrame ==
    ASSUME UiStep \/ UiTurn \/ PollBack \/ PollQuit
    PROVE  /\ finished' = finished /\ player' = player
           /\ pc' = pc \/ mpc = "spawn"
           /\ mpc' # "connect"
BY DEF UiStep, UiTurn, Connect, InitLock, Spawn, PollClear, PollStatus,
   CopyStatus, PollBack, PollQuit, PollEnd, Stop, Shutdown, Join, Close,
   Polling, UiGoto, Return, sharedVars, flagVars, streamVars

LEMMA CallerNext ==
    TypeOK /\ ResourceInv /\ CallerInv /\ [Next]_vars => CallerInv'
<1> SUFFICES ASSUME TypeOK, ResourceInv, CallerInv, [Next]_vars
             PROVE  CallerInv'
  OBVIOUS
<1> USE DEF CallerInv
<1>1. CASE StreamStep
  <2>1. ~finished
    BY <1>1, StreamKeeps DEF Alive
  <2> QED
    BY <1>1, <2>1, StreamFrame, StreamKeeps DEF WithThread
<1>2. CASE UiStep \/ UiTurn \/ PollBack \/ PollQuit
  BY <1>2, UiFrame DEF ResourceInv, BeforeSpawn
<1>3. CASE Signal
  BY <1>3 DEF Signal, uiVars, flagVars, streamVars
<1>4. ASSUME NEW kind \in Kinds, Send(kind) PROVE CallerInv'
  BY <1>4 DEF Send, uiVars, sharedVars, flagVars, streamVars
<1>5. ASSUME NEW how, Hangup(how) PROVE CallerInv'
  BY <1>5 DEF Hangup, uiVars, sharedVars, flagVars, streamVars
<1>6. CASE UNCHANGED vars
  BY <1>6 DEF vars, uiVars, sharedVars, flagVars, streamVars
<1> QED
  BY <1>1, <1>2, <1>3, <1>4, <1>5, <1>6 DEF Next, Environment, Terminated

LEMMA SessionInvariance == Spec => []SessionInv
<1>1. Init => CallerInv
  BY DEF Init, CallerInv
<1> QED
  BY <1>1, CallerNext, ResourceInvariance, PTL DEF Spec, SessionInv

LEMMA SessionInit == Init => Session!Init
BY DEF Init, Session!Init, SessionPhase, WorkerState

LEMMA MappedStutter ==
    ASSUME UNCHANGED <<mpc, pc, player, fd, user_back, g_signal_stop, result>>
    PROVE  UNCHANGED Session!vars
BY DEF Session!vars, SessionPhase, WorkerState

LEMMA StepStream ==
    ASSUME SessionInv, StreamStep
    PROVE  [Session!Next]_(Session!vars)
<1>1. /\ Alive /\ mpc \in WithThread /\ fd' = fd
      /\ pc' # "off"
      /\ \/ mpc' = mpc /\ pc' # "killed"
         \/ mpc' = "killed" /\ pc' = "killed"
      /\ UNCHANGED <<user_back, g_signal_stop, result>>
  BY StreamKeeps, StreamFrame DEF SessionInv
<1>2. fd \in {"open", "shut"} /\ fd' \in {"open", "shut"}
  BY <1>1 DEF SessionInv, ResourceInv
<1>3. WorkerState["stream"] = "alive"
  BY <1>1 DEF WorkerState, Alive
<1>4. CASE mpc' = "killed" /\ pc' = "killed"
  <2>1. /\ SessionPhase' = "killed"
        /\ WorkerState' = [WorkerState EXCEPT !["stream"] = "ended"]
    BY <1>4 DEF SessionPhase, WorkerState
  <2> QED
    BY <1>1, <1>2, <1>3, <2>1 DEF Session!Next, Session!WorkerKilled
<1>5. CASE mpc' = mpc /\ pc' = "ended"
  <2>1. /\ SessionPhase' = SessionPhase
        /\ WorkerState' = [WorkerState EXCEPT !["stream"] = "ended"]
    BY <1>5 DEF SessionPhase, WorkerState
  <2> QED
    BY <1>1, <1>2, <1>3, <2>1 DEF Session!Next, Session!WorkerEnds
<1>6. CASE mpc' = mpc /\ pc' \notin {"ended", "killed"}
  <2>1. SessionPhase' = SessionPhase /\ WorkerState' = WorkerState
    BY <1>1, <1>6 DEF SessionPhase, WorkerState, Alive
  <2> QED
    BY <1>1, <1>2, <2>1 DEF Session!vars
<1> QED
  BY <1>1, <1>4, <1>5, <1>6

LEMMA StepOpening ==
    ASSUME SessionInv, Connect \/ InitLock \/ Spawn
    PROVE  [Session!Next]_(Session!vars)
<1> USE DEF SessionPhase, WorkerState, UiGoto, Return, streamVars, SessionInv,
            ResourceInv, BeforeSpawn
<1>1. CASE Connect
  <2>1. pc = "off" /\ ~player /\ fd = "none"
    BY <1>1 DEF Connect, CallerInv
  <2> QED
    BY <1>1, <2>1 DEF Connect, Session!Next, Session!Acquire, Session!Fail,
       Session!Failures
<1>2. CASE InitLock
  BY <1>2 DEF InitLock, Session!Next, Session!vars, Session!Fail,
     Session!Failures
<1>3. CASE Spawn
  <2>1. CASE mpc' = "poll"
    <3>1. /\ SessionPhase = "opening" /\ SessionPhase' = "streaming"
          /\ fd' \in {"open", "shut"} /\ fd = fd'
          /\ UNCHANGED <<user_back, g_signal_stop, result>>
      BY <1>3, <2>1 DEF Spawn
    <3>2. WorkerState' = [WorkerState EXCEPT !["stream"] = "alive"]
      BY <1>3, <2>1 DEF Spawn
    <3> QED
      BY <3>1, <3>2 DEF Session!Next, Session!Begin
  <2>2. CASE mpc' # "poll"
    BY <1>3, <2>2 DEF Spawn, Session!Next, Session!Fail, Session!Failures
  <2> QED
    BY <2>1, <2>2
<1> QED
  BY <1>1, <1>2, <1>3

LEMMA StepStopping ==
    ASSUME SessionInv,
           UiTurn \/ PollBack \/ PollQuit \/ PollEnd \/ Stop \/ Shutdown
           \/ Join \/ Close
    PROVE  [Session!Next]_(Session!vars)
<1> USE DEF SessionPhase, WorkerState, UiGoto, Return, Polling
<1>1. CASE PollClear
  BY <1>1, MappedStutter DEF PollClear, sharedVars, streamVars
<1>2. CASE PollStatus \/ CopyStatus
  BY <1>2 DEF PollStatus, CopyStatus, streamVars, Session!vars
<1>3. CASE PollBack
  BY <1>3 DEF PollBack, streamVars, Session!Next, Session!Leave
<1>4. CASE PollQuit
  BY <1>4 DEF PollQuit, streamVars, Session!Next, Session!Quit
<1>5. CASE PollEnd
  <2>1. g_signal_stop \/ WorkerState["stream"] # "alive"
    BY <1>5 DEF PollEnd, SessionInv, CallerInv
  <2> QED
    BY <1>5, <2>1 DEF PollEnd, sharedVars, streamVars, Session!Next,
       Session!End
<1>6. CASE Stop
  BY <1>6 DEF Stop, streamVars, Session!vars
<1>7. CASE Shutdown
  <2>1. fd \in {"open", "shut"}
    BY <1>7 DEF Shutdown, SessionInv, ResourceInv, WithThread
  <2> QED
    BY <1>7, <2>1 DEF Shutdown, streamVars, Session!vars
<1>8. CASE Join
  BY <1>8 DEF Join, sharedVars, streamVars, Session!vars
<1>9. CASE Close
  <2>1. pc = "ended" /\ ~player
    BY <1>9 DEF Close, SessionInv, ResourceInv
  <2>2. /\ SessionPhase = "stopping" /\ SessionPhase' = "done"
        /\ fd' = "closed" /\ ~player'
        /\ \A w \in {"stream"} : WorkerState[w] # "alive"
        /\ UNCHANGED <<WorkerState, user_back, g_signal_stop>>
    BY <1>9, <2>1 DEF Close, streamVars
  <2>3. result' \in IF user_back THEN {"USER_BACK"} ELSE Session!Failures
    BY <1>9 DEF Close, SessionResult, Session!Failures
  <2> QED
    BY <2>2, <2>3 DEF Session!Next, Session!Return
<1> QED
  BY <1>1, <1>2, <1>3, <1>4, <1>5, <1>6, <1>7, <1>8, <1>9 DEF UiTurn

LEMMA SessionNext == SessionInv /\ [Next]_vars => [Session!Next]_(Session!vars)
<1> SUFFICES ASSUME SessionInv, [Next]_vars
             PROVE  [Session!Next]_(Session!vars)
  OBVIOUS
<1>1. CASE Signal
  <2>1. /\ g_signal_stop' = TRUE /\ mpc # "killed"
        /\ UNCHANGED <<mpc, pc, player, fd, user_back, result>>
    BY <1>1 DEF Signal, uiVars, streamVars
  <2>2. SessionPhase # "killed"
    BY <2>1 DEF SessionPhase
  <2> QED
    BY <2>1, <2>2 DEF SessionPhase, WorkerState, Session!Next, Session!Signal
<1>2. ASSUME NEW kind \in Kinds, Send(kind) PROVE UNCHANGED Session!vars
  BY <1>2, MappedStutter DEF Send, uiVars, sharedVars, streamVars
<1>3. ASSUME NEW how, Hangup(how) PROVE UNCHANGED Session!vars
  BY <1>3, MappedStutter DEF Hangup, uiVars, sharedVars, streamVars
<1>4. CASE UNCHANGED vars
  BY <1>4, MappedStutter DEF vars, uiVars, sharedVars, streamVars
<1> QED
  BY <1>1, <1>2, <1>3, <1>4, StepStream, StepOpening, StepStopping
  DEF Next, UiStep, Environment, Terminated

(* The Frame Tap session implements the abstract session, with its stream  *)
(* thread as the one that may be the end of the process.                   *)
THEOREM FrametapRefinesSession == Spec => ImplementsStreamSession
<1>1. Spec => Session!Init /\ [][Session!Next]_(Session!vars)
  BY SessionInit, SessionNext, SessionInvariance, PTL DEF Spec
<1> QED
  BY <1>1 DEF ImplementsStreamSession, Session!Spec

-----------------------------------------------------------------------------
(* The session inherits what is proved of StreamSession. *)
Promised == INSTANCE StreamSession_proofs
               WITH Workers <- {"stream"}, Writers <- {"stream"},
                    phase <- SessionPhase, worker <- WorkerState,
                    holding <- (fd \in {"open", "shut"} \/ player),
                    back <- user_back, stop <- g_signal_stop

LEMMA SessionIsPromised == Session!Spec => Promised!Spec
<1>1. Session!Init => Promised!Init
  BY DEF Session!Init, Promised!Init
<1>2. [Session!Next]_(Session!vars) => [Promised!Next]_(Promised!vars)
  BY DEF Session!Next, Session!vars, Session!Acquire, Session!Fail,
     Session!Begin, Session!Start, Session!WorkerEnds, Session!WorkerKilled,
     Session!Leave, Session!Quit, Session!Signal, Session!End,
     Session!Return, Session!Failures,
     Promised!Next, Promised!vars, Promised!Acquire, Promised!Fail,
     Promised!Begin, Promised!Start, Promised!WorkerEnds,
     Promised!WorkerKilled, Promised!Leave, Promised!Quit, Promised!Signal,
     Promised!End, Promised!Return, Promised!Failures
<1> QED
  BY <1>1, <1>2, PTL DEF Session!Spec, Promised!Spec

(* A Frame Tap session that has returned holds neither socket nor player   *)
(* and has joined its thread, and has answered USER_BACK exactly if the    *)
(* user went back; and its thread never lived without its socket.          *)
THEOREM PromiseKept ==
    Spec => /\ []Session!HeldWhileAlive
            /\ []Session!ReturnedClean
<1>1. Promised!Spec => /\ []Promised!HeldWhileAlive
                       /\ []Promised!ReturnedClean
  BY Promised!HeldCorrect, Promised!ReturnCorrect
<1>2. Promised!HeldWhileAlive => Session!HeldWhileAlive
  BY DEF Promised!HeldWhileAlive, Session!HeldWhileAlive
<1>3. Promised!ReturnedClean => Session!ReturnedClean
  BY DEF Promised!ReturnedClean, Session!ReturnedClean
<1> QED
  BY <1>1, <1>2, <1>3, SessionIsPromised, FrametapRefinesSession, PTL
     DEF ImplementsStreamSession

-----------------------------------------------------------------------------
(***************************************************************************)
(* The way out: what the join waits for, and when the process is ended     *)
(* instead.                                                                *)
(***************************************************************************)

(* Where the thread can take a step that is neither a packet nor the       *)
(* console's doing.                                                        *)
Moves ==
    \/ pc \in {"start", "greet", "loop", "judge", "write", "video", "frame",
               "cleanup"}
    \/ pc \in {"read", "middle", "submit"} /\ ~running
    \/ pc = "status" /\ LockFree

(* While the UI thread waits in pthread_join, the thread has ended or can  *)
(* go on by itself: it reads running as false, no read of it waits for the *)
(* console, no frame is tried again, and nobody else has the status lock.  *)
JoinIsAnswered ==
    mpc = "join" => ~running /\ (pc = "ended" \/ Moves)

(* SIGPIPE ends the process only if the console has gone, or the session   *)
(* is being left and its own shutdown has come first: what LeftReturns     *)
(* gets wrong, and no more.  While the console is there and nobody leaves, *)
(* the thread may write.                                                   *)
KilledOnlyOnTheWayOut ==
    mpc = "killed" =>
        \/ peer \in {"closed", "reset"}
        \/ fd = "shut" /\ ~running /\ Leaving

ExitInv ==
    /\ mpc \in {"shutdown", "join"} => ~running
    /\ mpc = "join" => fd = "shut"
    /\ fd = "shut" => ~running
    /\ status_lock = "ui" => mpc \in {"copy", "killed"}
    /\ status_lock = "stream" => pc = "write"
    /\ mpc \in WithThread => pc # "off"
    /\ KilledOnlyOnTheWayOut

LEMMA ExitInit == Init => ExitInv
BY DEF Init, ExitInv, KilledOnlyOnTheWayOut, WithThread

LEMMA ExitUi ==
    ASSUME TypeOK, ResourceInv, ExitInv,
           UiStep \/ UiTurn \/ PollBack \/ PollQuit
    PROVE  ExitInv'
<1> USE DEF ExitInv, KilledOnlyOnTheWayOut, WithThread, UiGoto, Return
<1>1. CASE Connect \/ InitLock \/ Spawn
  BY <1>1 DEF Connect, InitLock, Spawn, ResourceInv, BeforeSpawn, flagVars,
     streamVars
<1>2. CASE PollClear \/ PollStatus \/ CopyStatus
  BY <1>2 DEF PollClear, PollStatus, CopyStatus, Polling, LockFree,
     sharedVars, flagVars, streamVars
<1>3. CASE PollBack \/ PollQuit \/ PollEnd
  BY <1>3 DEF PollBack, PollQuit, PollEnd, Polling, sharedVars, flagVars,
     streamVars
<1>4. CASE Stop
  BY <1>4 DEF Stop, streamVars
<1>5. CASE Shutdown
  BY <1>5 DEF Shutdown, flagVars, streamVars
<1>6. CASE Join \/ Close
  BY <1>6 DEF Join, Close, sharedVars, flagVars, streamVars
<1> QED
  BY <1>1, <1>2, <1>3, <1>4, <1>5, <1>6 DEF UiStep, UiTurn

(* The stream thread keeps the flag, and has the lock only to write.       *)
LEMMA StreamLock ==
    ASSUME TypeOK, StreamStep
    PROVE  /\ running' = running
           /\ \/ status_lock' = "stream" /\ pc' = "write"
              \/ status_lock' = "free"
              \/ status_lock' = status_lock /\ pc # "write"
<1>1. CASE StatusLock \/ StatusWrite
  BY <1>1 DEF StatusLock, StatusWrite, Goto, flagVars
<1>2. CASE ~StatusLock /\ ~StatusWrite
  <2>1. UNCHANGED <<running, status_lock>>
    BY Zenon, <1>2 DEF StreamStep, Start, Greet, Ask, Loop, ReadStopped,
       ReadPacket, ReadEnd, ReadFailure, ReadStalled, Judge, Frame,
       SubmitStopped, Submitted, SubmitRetry, SubmitRejected, Cleanup,
       sharedVars, flagVars
  <2>2. pc # "write"
    BY <1>2 DEF StreamStep, Start, Greet, Ask, Loop, ReadStopped,
       ReadPacket, ReadEnd, ReadFailure, ReadStalled, Judge, Frame,
       SubmitStopped, Submitted, SubmitRetry, SubmitRejected, Cleanup
  <2> QED
    BY <2>1, <2>2
<1> QED
  BY <1>1, <1>2

(* Only a request, on a socket that cannot be written, ends the process.   *)
LEMMA KilledByRequest ==
    ASSUME StreamStep, mpc # "killed", mpc' = "killed"
    PROVE  (fd = "shut" \/ peer \in {"closed", "reset"}) /\ UNCHANGED peer
<1>1. Greet \/ Ask
  BY DEF StreamStep, Start, Loop, ReadStopped, ReadPacket, ReadEnd,
     ReadFailure, ReadStalled, Judge, StatusLock, StatusWrite, Frame,
     SubmitStopped, Submitted, SubmitRetry, SubmitRejected, Cleanup, uiVars
<1> QED
  BY <1>1 DEF Greet, Ask, Request, UiGoto, uiVars, netVars

LEMMA ExitStream ==
    ASSUME TypeOK, ResourceInv, LossInv, ExitInv, StreamStep
    PROVE  ExitInv'
<1>1. /\ Alive /\ mpc \in WithThread /\ fd' = fd
      /\ mpc' = mpc \/ mpc' = "killed"
      /\ pc' # "off"
  BY StreamKeeps
<1>2. /\ running' = running
      /\ \/ status_lock' = "stream" /\ pc' = "write"
         \/ status_lock' = "free"
         \/ status_lock' = status_lock /\ pc # "write"
  BY StreamLock
<1>3. mpc # "killed"
  BY <1>1 DEF WithThread
<1>4. KilledOnlyOnTheWayOut'
  <2>1. ASSUME mpc' = "killed", fd = "shut"
        PROVE  fd' = "shut" /\ ~running' /\ Leaving'
    <3>1. Leaving
      BY <1>1, <2>1 DEF LossInv, Alive, WithThread
    <3>2. Leaving'
      BY <3>1, StreamFrame DEF Leaving
    <3> QED
      BY <1>1, <1>2, <2>1, <3>2 DEF ExitInv
  <2>2. ASSUME mpc' = "killed", fd # "shut"
        PROVE  peer' \in {"closed", "reset"}
    BY <1>3, <2>2, KilledByRequest
  <2> QED
    BY <2>1, <2>2 DEF KilledOnlyOnTheWayOut
<1>5. /\ status_lock' = "ui" => mpc' \in {"copy", "killed"}
      /\ status_lock' = "stream" => pc' = "write"
  BY <1>1, <1>2, <1>3 DEF ExitInv
<1>6. /\ mpc' \in {"shutdown", "join"} => ~running'
      /\ mpc' = "join" => fd' = "shut"
      /\ fd' = "shut" => ~running'
  BY <1>1, <1>2 DEF ExitInv
<1> QED
  BY <1>1, <1>4, <1>5, <1>6 DEF ExitInv

LEMMA ExitNext ==
    TypeOK /\ ResourceInv /\ LossInv /\ ExitInv /\ [Next]_vars => ExitInv'
<1> SUFFICES ASSUME TypeOK, ResourceInv, LossInv, ExitInv, [Next]_vars
             PROVE  ExitInv'
  OBVIOUS
<1>1. CASE Signal
  BY <1>1 DEF Signal, ExitInv, KilledOnlyOnTheWayOut, uiVars, flagVars,
     streamVars
<1>2. ASSUME NEW kind \in Kinds, Send(kind) PROVE ExitInv'
  BY <1>2 DEF Send, ExitInv, KilledOnlyOnTheWayOut, Leaving, uiVars,
     sharedVars, flagVars, streamVars
<1>3. ASSUME NEW how, Hangup(how) PROVE ExitInv'
  BY <1>3 DEF Hangup, ExitInv, KilledOnlyOnTheWayOut, Leaving, uiVars,
     sharedVars, flagVars, streamVars
<1>4. CASE UNCHANGED vars
  BY <1>4 DEF vars, ExitInv, KilledOnlyOnTheWayOut, Leaving, uiVars,
     sharedVars, flagVars, streamVars, netVars
<1> QED
  BY <1>1, <1>2, <1>3, <1>4, ExitUi, ExitStream
  DEF Next, Environment, Terminated

LEMMA ExitInvariance == Spec => [](TypeOK /\ ResourceInv /\ ExitInv)
BY ExitInit, ExitNext, LossInit, LossNext, ResourceInvariance, PTL DEF Spec

(* The join of the thread waits for nothing outside the program.           *)
THEOREM JoinCorrect == Spec => []JoinIsAnswered
<1> SUFFICES ASSUME TypeOK, ResourceInv, ExitInv PROVE JoinIsAnswered
  BY ExitInvariance, PTL
<1>1. ASSUME mpc = "join" PROVE ~running /\ (pc = "ended" \/ Moves)
  <2>1. ~running
    BY <1>1 DEF ExitInv
  <2>2. pc \notin {"off", "killed"}
    BY <1>1 DEF ResourceInv, ExitInv, WithThread
  <2>3. pc = "status" => status_lock = "free"
    BY <1>1 DEF ExitInv, ResourceInv, WithThread, TypeOK
  <2> QED
    BY <2>1, <2>2, <2>3 DEF Moves, LockFree, TypeOK, StreamLocs
<1> QED
  BY <1>1 DEF JoinIsAnswered

(* The process is ended by SIGPIPE only after the console has gone or, on  *)
(* the way out, after the session's own shutdown.                          *)
THEOREM KilledCorrect == Spec => []KilledOnlyOnTheWayOut
BY ExitInvariance, PTL DEF ExitInv

-----------------------------------------------------------------------------
(***************************************************************************)
(* How far the thread is from its end once the flag is down.  Together     *)
(* with JoinIsAnswered this is why leaving ends the session: fairness only *)
(* has to let the thread take its steps.                                   *)
(***************************************************************************)

StepsLeft ==
    CASE pc \in {"off", "ended", "killed"}          -> 0
      [] pc = "cleanup"                             -> 1
      [] pc \in {"loop", "judge", "submit"}         -> 2
      [] pc \in {"greet", "read", "middle", "write", "frame"} -> 3
      [] pc \in {"start", "status", "video"}        -> 4

(* Once running is false, every step of the thread brings it nearer to its *)
(* end, from wherever the flag finds it: no loop of it, over packets,      *)
(* waits or retries, makes another turn.                                   *)
StopIsNear ==
    [][~running /\ StreamStep => StepsLeft' < StepsLeft]_vars

LEMMA StreamNearer ==
    ASSUME TypeOK, ~running, StreamStep
    PROVE  StepsLeft' < StepsLeft
<1>1. CASE Start \/ Greet \/ Loop \/ Cleanup
  BY <1>1 DEF Start, Greet, Request, Loop, Cleanup, Goto, StepsLeft
<1>2. CASE ReadStopped("read") \/ ReadStopped("middle") \/ ReadEnd
  BY <1>2 DEF ReadStopped, ReadEnd, Goto, StepsLeft
<1>3. CASE ReadFailure \/ Judge
  BY <1>3 DEF ReadFailure, Judge, Goto, StepsLeft
<1>4. CASE StatusLock \/ StatusWrite
  BY <1>4 DEF StatusLock, StatusWrite, Goto, StepsLeft
<1>5. CASE Ask \/ Frame \/ SubmitStopped
  BY <1>5 DEF Ask, Request, Frame, SubmitStopped, Goto, StepsLeft
<1> QED
  BY <1>1, <1>2, <1>3, <1>4, <1>5 DEF StreamStep, ReadPacket, ReadStalled,
     Submitted, SubmitRetry, SubmitRejected

(* The thread's way to its end is at most four steps, whatever it was      *)
(* doing when the session was stopped.                                     *)
THEOREM StopIsNearCorrect == Spec => StopIsNear
<1>1. TypeOK /\ [Next]_vars
        => [~running /\ StreamStep => StepsLeft' < StepsLeft]_vars
  BY StreamNearer
<1> QED
  BY <1>1, TypeCorrect, PTL DEF Spec, StopIsNear
=============================================================================
