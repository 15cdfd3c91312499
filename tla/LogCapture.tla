------------------------------ MODULE LogCapture ------------------------------
(***************************************************************************)
(* The diagnostic log (src/log.c): sysdvr_log_printf, called by the UI     *)
(* thread and the stream threads at any time, the two limits of the        *)
(* capture, and sysdvr_log_close.  Libraries write to the same stream      *)
(* without asking.                                                         *)
(*                                                                         *)
(* The file is counted in lines.  Every stdio call holds the stream's own  *)
(* lock, so no call touches the stream while another thread holds it by    *)
(* flockfile.  /dev/null is assumed to open.                               *)
(***************************************************************************)
EXTENDS Naturals

CONSTANTS
    Threads,        \* the threads that log
    Main,           \* the one of them that closes the log
    NoThread,       \* the stream's lock is free
    MaxBytes,       \* g_max_bytes, in lines
    MaxLines        \* bound: lines in the file before the last calls

ASSUME LogAssumption ==
    /\ Main \in Threads /\ NoThread \notin Threads
    /\ MaxBytes \in Nat \ {0} /\ MaxLines \in Nat

VARIABLES
    g_persistent,   \* the log goes to a file
    g_stopped,
    expired,        \* the time limit has been reached
    sink,           \* what stderr is: "file", "stderr" or "null"
    size,           \* lines in the file
    holder,         \* who holds stderr's lock
    pc,             \* where each thread is in sysdvr_log_printf
    log,            \* "open", "closing" or "closed"
    told,           \* history: notices of each thread in the file
    late,           \* history: lines each thread put into the file when a
                    \* limit had been reached
    dropped         \* history: some line did not get into the file

vars == <<g_persistent, g_stopped, expired, sink, size, holder, pc, log, told,
          late, dropped>>

(* sysdvr_log_init; the file may not open. *)
Init ==
    /\ sink \in {"file", "stderr"}
    /\ g_persistent = (sink = "file")
    /\ g_stopped = FALSE /\ expired = FALSE /\ size = 0
    /\ holder = NoThread
    /\ pc = [t \in Threads |-> "idle"]
    /\ log = "open"
    /\ told = [t \in Threads |-> 0]
    /\ late = [t \in Threads |-> 0]
    /\ dropped = FALSE

Go(t, where) == pc' = [pc EXCEPT ![t] = where]

Reached == expired \/ size >= MaxBytes

-----------------------------------------------------------------------------
(* sysdvr_log_printf.                                                      *)

(* A line that is not to be written any more is forgotten. *)
Forget(t) ==
    /\ Go(t, "idle")
    /\ dropped' = TRUE

Enter(t) ==
    /\ pc[t] = "idle"
    /\ \/ g_stopped /\ Forget(t)
       \/ ~g_stopped /\ Go(t, "limits") /\ UNCHANGED dropped
    /\ UNCHANGED <<g_persistent, g_stopped, expired, sink, size, holder, told,
                   late>>

Call(t) ==
    /\ log = "open" /\ size < MaxLines
    /\ Enter(t)
    /\ UNCHANGED log

(* limit_reached: the flags and the clock. *)
Limits(t) ==
    /\ pc[t] = "limits"
    /\ \/ g_stopped /\ Forget(t)
       \/ /\ ~g_stopped
          /\ Go(t, CASE ~g_persistent -> "lock"
                     [] g_persistent /\ expired -> "disable"
                     [] OTHER -> "measure")
          /\ UNCHANGED dropped
    /\ UNCHANGED <<g_persistent, g_stopped, expired, sink, size, holder, log,
                   told, late>>

(* current_log_size: /dev/null has no size. *)
Full_Off == sink = "file" /\ size >= MaxBytes + 10   \* mutant: other units
Full == sink = "file" /\ size >= MaxBytes

Measure(t) ==
    /\ pc[t] = "measure" /\ holder = NoThread
    /\ Go(t, IF Full THEN "disable" ELSE "lock")
    /\ UNCHANGED <<g_persistent, g_stopped, expired, sink, size, holder, log,
                   told, late, dropped>>

(* The line: its time, then its text, under the lock. *)
LockFree_Unchecked == TRUE  \* mutant: no flockfile
LockFree == holder = NoThread

Lock(t) ==
    /\ pc[t] = "lock" /\ LockFree
    /\ holder' = t
    /\ Go(t, "prefix")
    /\ UNCHANGED <<g_persistent, g_stopped, expired, sink, size, log, told,
                   late, dropped>>

Prefix(t) ==
    /\ pc[t] = "prefix"
    /\ Go(t, "text")
    /\ UNCHANGED <<g_persistent, g_stopped, expired, sink, size, holder, log,
                   told, late, dropped>>

Text(t) ==
    /\ pc[t] = "text"
    /\ holder' = NoThread
    /\ Go(t, "idle")
    /\ \/ /\ sink = "file"
          /\ size' = size + 1
          /\ late' = [late EXCEPT ![t] = IF Reached THEN @ + 1 ELSE @]
          /\ UNCHANGED dropped
       \/ /\ sink = "null"
          /\ dropped' = TRUE
          /\ UNCHANGED <<size, late>>
       \/ /\ sink = "stderr"
          /\ UNCHANGED <<size, late, dropped>>
    /\ UNCHANGED <<g_persistent, g_stopped, expired, sink, log, told>>

-----------------------------------------------------------------------------
(* disable_persistent_logging.                                             *)

Disable(t) ==
    /\ pc[t] = "disable"
    /\ \/ g_stopped /\ Forget(t)
       \/ ~g_stopped /\ Go(t, "notice") /\ UNCHANGED dropped
    /\ UNCHANGED <<g_persistent, g_stopped, expired, sink, size, holder, log,
                   told, late>>

(* What follows the notice. *)
AfterNotice_Returns == "idle"   \* mutant: the capture goes on
AfterNotice_Flag == "stop"      \* mutant: stderr is not redirected
AfterNotice == "redirect"

Notice_TryLock(t) ==        \* mutant: no notice while a line is being written
    /\ pc[t] = "notice"
    /\ Go(t, AfterNotice)
    /\ IF sink = "file" /\ holder = NoThread
       THEN /\ size' = size + 1
            /\ told' = [told EXCEPT ![t] = @ + 1]
       ELSE UNCHANGED <<size, told>>
    /\ UNCHANGED <<g_persistent, g_stopped, expired, sink, holder, log, late,
                   dropped>>

Notice(t) ==
    /\ pc[t] = "notice" /\ holder = NoThread
    /\ Go(t, AfterNotice)
    /\ IF sink = "file"
       THEN /\ size' = size + 1
            /\ told' = [told EXCEPT ![t] = @ + 1]
       ELSE UNCHANGED <<size, told>>
    /\ UNCHANGED <<g_persistent, g_stopped, expired, sink, holder, log, late,
                   dropped>>

Redirect(t) ==
    /\ pc[t] = "redirect" /\ holder = NoThread
    /\ sink' = "null"
    /\ Go(t, "stop")
    /\ UNCHANGED <<g_persistent, g_stopped, expired, size, holder, log, told,
                   late, dropped>>

(* The caller's line is not written. *)
Stop(t) ==
    /\ pc[t] = "stop"
    /\ g_stopped' = TRUE
    /\ Forget(t)
    /\ UNCHANGED <<g_persistent, expired, sink, size, holder, log, told, late>>

-----------------------------------------------------------------------------
(* sysdvr_log_close, at the end of main: no other thread is left.          *)

Close ==
    /\ log = "open"
    /\ \A t \in Threads : pc[t] = "idle"
    /\ log' = "closing"
    /\ \/ /\ g_stopped
          /\ UNCHANGED <<g_persistent, g_stopped, expired, sink, size, holder,
                         pc, told, late, dropped>>
       \/ /\ ~g_stopped
          /\ Enter(Main)

Closed ==
    /\ log = "closing" /\ pc[Main] = "idle"
    /\ log' = "closed"
    /\ g_persistent' = FALSE
    /\ UNCHANGED <<g_stopped, expired, sink, size, holder, pc, told, late,
                   dropped>>

(* A library writes a line of its own. *)
Vendor ==
    /\ holder = NoThread /\ size < MaxLines
    /\ sink = "file"
    /\ size' = size + 1
    /\ UNCHANGED <<g_persistent, g_stopped, expired, sink, holder, pc, log,
                   told, late, dropped>>

Expire ==
    /\ ~expired
    /\ expired' = TRUE
    /\ UNCHANGED <<g_persistent, g_stopped, sink, size, holder, pc, log, told,
                   late, dropped>>

Terminated == log = "closed" /\ UNCHANGED vars

(* Each thread's next step inside a call. *)
Step(t) ==
    \/ Limits(t) \/ Measure(t) \/ Lock(t) \/ Prefix(t) \/ Text(t)
    \/ Disable(t) \/ Notice(t) \/ Redirect(t) \/ Stop(t)

Next ==
    \/ \E t \in Threads : Call(t) \/ Step(t)
    \/ Close \/ Closed \/ Vendor \/ Expire \/ Terminated

Spec == Init /\ [][Next]_vars

(* A call goes on, and a lock that keeps being freed is obtained. *)
FairSpec == Spec /\ \A t \in Threads : SF_vars(Step(t))

-----------------------------------------------------------------------------
(* Properties.                                                             *)

(* Every variable keeps its type; no thread gives notice twice. *)
TypeOK ==
    /\ g_persistent \in BOOLEAN /\ g_stopped \in BOOLEAN
    /\ expired \in BOOLEAN /\ dropped \in BOOLEAN
    /\ sink \in {"file", "stderr", "null"}
    /\ size \in Nat
    /\ holder \in Threads \cup {NoThread}
    /\ pc \in [Threads -> {"idle", "limits", "measure", "lock", "prefix",
                           "text", "disable", "notice", "redirect", "stop"}]
    /\ log \in {"open", "closing", "closed"}
    /\ told \in [Threads -> {0, 1}]
    /\ late \in [Threads -> Nat]

(* The test of a limit and the line that follows are not one step, yet the *)
(* capture overruns its limit by at most one line of each thread (besides  *)
(* its notice, and whatever the libraries write until some thread logs).   *)
OverrunBounded == \A t \in Threads : late[t] <= 1

(* A reader of the file can tell that it is not the whole story: as soon   *)
(* as one line is left out of it, the notice that says so is in it, with   *)
(* any number of threads meeting the limit at once.                        *)
DropsAreTold == dropped => \E t \in Threads : told[t] = 1

(* log.h:17: once the capture has stopped, nothing reaches the file, the   *)
(* libraries' lines and those already past the test included.              *)
FileFrozen == [][g_stopped => UNCHANGED size]_vars

(* Between the time and the text of a line nothing else is written and the *)
(* stream is not redirected: lines are neither torn nor cut.               *)
WholeLines ==
    [][\A t \in Threads : pc[t] = "text" /\ pc'[t] = "text" =>
          /\ UNCHANGED <<size, sink>>
          /\ \A u \in Threads : pc'[u] = "text" => pc[u] = "text"]_vars

(* A thread that logs after a limit was reached ends the capture. *)
LimitStops ==
    \A t \in Threads :
        (g_persistent /\ Reached /\ pc[t] = "limits") ~> g_stopped
=============================================================================
