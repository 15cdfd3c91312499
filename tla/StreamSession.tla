---------------------------- MODULE StreamSession ----------------------------
(***************************************************************************)
(* What a streaming session promises to the selector that runs it, whoever *)
(* serves the stream: the abstract specification of run_stream_session and *)
(* of frametap_run_stream_session.                                         *)
(*                                                                         *)
(* A session takes hold of a socket or a player, starts its workers, and   *)
(* streams until the user goes back, a stop is requested, or a worker is   *)
(* missing.  It returns when no worker is left and everything it held is   *)
(* released, with USER_BACK exactly if the user went back.                 *)
(***************************************************************************)
CONSTANTS
    Workers,    \* the threads a session starts
    Writers     \* those that write to their socket while they stream, and may
                \* be the end of the process when nobody reads it any more

VARIABLES
    phase,      \* "opening", "streaming", "stopping", "done" or "killed"
    worker,     \* each worker is "unborn", "alive" or "ended"
    holding,    \* a socket or the player is held
    back,       \* the user went back
    stop,       \* a signal or SDL_QUIT was seen
    result      \* what the session returned

vars == <<phase, worker, holding, back, stop, result>>

Failures == {"ERROR", "TRANSPORT_LOST", "REMOTE_END"}

Init ==
    /\ phase = "opening"
    /\ worker = [w \in Workers |-> "unborn"]
    /\ holding = FALSE /\ back = FALSE /\ stop = FALSE
    /\ result = "none"

(* The first socket or the player. *)
Acquire ==
    /\ phase = "opening"
    /\ holding' = TRUE
    /\ UNCHANGED <<phase, worker, back, stop, result>>

(* Setting up failed before any worker ran: nothing stays held. *)
Fail ==
    /\ phase = "opening"
    /\ phase' = "done"
    /\ holding' = FALSE
    /\ result' \in Failures
    /\ UNCHANGED <<worker, back, stop>>

(* The first worker is started, or could not be. *)
Begin ==
    /\ phase = "opening" /\ holding
    /\ phase' = "streaming"
    /\ \/ UNCHANGED worker
       \/ \E w \in Workers : worker' = [worker EXCEPT ![w] = "alive"]
    /\ UNCHANGED <<holding, back, stop, result>>

(* A further worker.  An earlier one may have ended meanwhile. *)
Start(w) ==
    /\ phase = "streaming" /\ worker[w] = "unborn"
    /\ worker' = [worker EXCEPT ![w] = "alive"]
    /\ UNCHANGED <<phase, holding, back, stop, result>>

WorkerEnds(w) ==
    /\ worker[w] = "alive"
    /\ worker' = [worker EXCEPT ![w] = "ended"]
    /\ UNCHANGED <<phase, holding, back, stop, result>>

(* A write that nobody reads raises SIGPIPE, which ends the process. *)
WorkerKilled(w) ==
    /\ worker[w] = "alive" /\ w \in Writers
    /\ worker' = [worker EXCEPT ![w] = "ended"]
    /\ phase' = "killed"
    /\ UNCHANGED <<holding, back, stop, result>>

Leave ==
    /\ phase = "streaming" /\ ~stop
    /\ phase' = "stopping"
    /\ back' = TRUE
    /\ UNCHANGED <<worker, holding, stop, result>>

Quit ==
    /\ phase = "streaming" /\ ~stop
    /\ phase' = "stopping"
    /\ stop' = TRUE
    /\ UNCHANGED <<worker, holding, back, result>>

(* The handler may also run after the session has returned. *)
Signal ==
    /\ phase # "killed"
    /\ stop' = TRUE
    /\ UNCHANGED <<phase, worker, holding, back, result>>

(* Streaming ends by itself only for a stop request or a missing worker.   *)
End ==
    /\ phase = "streaming"
    /\ stop \/ \E w \in Workers : worker[w] # "alive"
    /\ phase' = "stopping"
    /\ UNCHANGED <<worker, holding, back, stop, result>>

Return ==
    /\ phase = "stopping"
    /\ \A w \in Workers : worker[w] # "alive"
    /\ phase' = "done"
    /\ holding' = FALSE
    /\ result' \in IF back THEN {"USER_BACK"} ELSE Failures
    /\ UNCHANGED <<worker, back, stop>>

Next ==
    \/ Acquire \/ Fail \/ Begin
    \/ Leave \/ Quit \/ Signal \/ End \/ Return
    \/ \E w \in Workers : Start(w) \/ WorkerEnds(w) \/ WorkerKilled(w)

Spec == Init /\ [][Next]_vars

-----------------------------------------------------------------------------
(* What the selector relies on.                                            *)

(* A thread that is alive finds what the session holds still held. *)
HeldWhileAlive == (\E w \in Workers : worker[w] = "alive") => holding

(* A session that has returned has released everything and joined every    *)
(* thread, and its result is USER_BACK exactly if the user went back.      *)
ReturnedClean ==
    /\ phase = "done" =>
          /\ ~holding /\ \A w \in Workers : worker[w] # "alive"
          /\ result # "none"
    /\ result = "USER_BACK" <=> (phase = "done" /\ back)
=============================================================================
