--------------------------- MODULE LogCapture_proofs ---------------------------
(***************************************************************************)
(* Theorems about LogCapture, for any number of threads and any limits.    *)
(***************************************************************************)
EXTENDS LogCapture, TLAPS

(* Whoever has found the log persistent and not stopped works on a file,   *)
(* or on /dev/null when another thread was faster.                         *)
SinkInv ==
    /\ g_persistent => sink # "stderr"
    /\ sink # "stderr" /\ log # "closed" => g_persistent
    /\ g_stopped => sink = "null"
    /\ \A t \in Threads :
         /\ pc[t] \in {"measure", "disable", "notice", "redirect", "stop"}
              => g_persistent
         /\ pc[t] = "stop" => sink = "null"
         /\ log = "closed" => pc[t] = "idle"
         /\ log = "closing" /\ t # Main => pc[t] = "idle"

(* The notice is in the file before the stream leaves it, and the thread   *)
(* that wrote it has yet to redirect the stream or finds it redirected.    *)
NoticeInv ==
    /\ sink = "null" \/ dropped => \E t \in Threads : told[t] = 1
    /\ \A t \in Threads :
         /\ pc[t] \in {"redirect", "stop"} => \E u \in Threads : told[u] = 1
         /\ told[t] = 1 => sink = "null" \/ pc[t] = "redirect"

(* A thread that has overrun a limit does not pass the test again.         *)
LateInv ==
    \A t \in Threads :
        /\ late[t] <= 1
        /\ late[t] = 1 /\ sink = "file" =>
             /\ Reached
             /\ pc[t] = "measure" => size >= MaxBytes
             /\ pc[t] \notin {"lock", "prefix", "text"}

(* The lock's holder is exactly the thread in the middle of a line. *)
LockInv ==
    \A t \in Threads : pc[t] \in {"prefix", "text"} <=> holder = t

IInv == TypeOK /\ SinkInv /\ NoticeInv /\ LateInv /\ LockInv

-----------------------------------------------------------------------------
(* A thread's step moves that thread only. *)
LEMMA Moved ==
    ASSUME TypeOK, NEW t \in Threads, NEW where, Go(t, where)
    PROVE  \A u \in Threads : pc'[u] = IF u = t THEN where ELSE pc[u]
BY DEF TypeOK, Go

LEMMA MovedType ==
    ASSUME TypeOK, NEW t \in Threads,
           NEW where \in {"idle", "limits", "measure", "lock", "prefix",
                          "text", "disable", "notice", "redirect", "stop"},
           Go(t, where)
    PROVE  pc' \in [Threads -> {"idle", "limits", "measure", "lock", "prefix",
                       "text", "disable", "notice", "redirect", "stop"}]
BY DEF TypeOK, Go

(* What each action does, as far as the invariant needs it.                *)
LEMMA TypeNext ==
    ASSUME IInv, [Next]_vars
    PROVE  TypeOK'
<1> USE LogAssumption DEF IInv
<1>1. ASSUME NEW t \in Threads, Enter(t), UNCHANGED log PROVE TypeOK'
  BY <1>1, MovedType DEF Enter, Forget, TypeOK
<1>2. ASSUME NEW t \in Threads, Limits(t) PROVE TypeOK'
  <2>1. pc' \in [Threads -> {"idle", "limits", "measure", "lock", "prefix",
                       "text", "disable", "notice", "redirect", "stop"}]
    BY <1>2, MovedType DEF Limits, Forget
  <2> QED
    BY <1>2, <2>1 DEF Limits, Forget, TypeOK
<1>3. ASSUME NEW t \in Threads, Measure(t) PROVE TypeOK'
  BY <1>3, MovedType DEF Measure, TypeOK
<1>4. ASSUME NEW t \in Threads, Lock(t) \/ Prefix(t) PROVE TypeOK'
  BY <1>4, MovedType DEF Lock, Prefix, TypeOK
<1>5. ASSUME NEW t \in Threads, Text(t) PROVE TypeOK'
  <2>1. size' \in Nat
    BY <1>5 DEF Text, TypeOK
  <2>2. late' \in [Threads -> Nat]
    <3>1. late[t] \in Nat /\ late[t] + 1 \in Nat
      BY DEF TypeOK
    <3>2. UNCHANGED late \/ \E n \in Nat : late' = [late EXCEPT ![t] = n]
      BY <1>5, <3>1 DEF Text
    <3> QED
      BY <3>2 DEF TypeOK
  <2>3. dropped' \in BOOLEAN
    BY <1>5, Zenon DEF Text, TypeOK
  <2> QED
    BY <1>5, <2>1, <2>2, <2>3, MovedType DEF Text, TypeOK
<1>6. ASSUME NEW t \in Threads, Disable(t) PROVE TypeOK'
  BY <1>6, MovedType DEF Disable, Forget, TypeOK
<1>7. ASSUME NEW t \in Threads, Notice(t) PROVE TypeOK'
  <2>1. sink = "file" => told[t] = 0
    BY <1>7 DEF Notice, NoticeInv, TypeOK
  <2>2. size' \in Nat /\ told' \in [Threads -> {0, 1}]
    BY <1>7, <2>1 DEF Notice, TypeOK
  <2> QED
    BY <1>7, <2>2, MovedType DEF Notice, AfterNotice, TypeOK
<1>8. ASSUME NEW t \in Threads, Redirect(t) \/ Stop(t) PROVE TypeOK'
  BY <1>8, MovedType DEF Redirect, Stop, Forget, TypeOK
<1>9. CASE Close
  BY <1>9, MovedType DEF Close, Enter, Forget, TypeOK
<1>10. CASE Closed \/ Expire \/ UNCHANGED vars
  BY <1>10, Zenon DEF Closed, Expire, vars, TypeOK
<1>11. CASE Vendor
  BY <1>11 DEF Vendor, TypeOK
<1> QED
  BY <1>1, <1>2, <1>3, <1>4, <1>5, <1>6, <1>7, <1>8, <1>9, <1>10, <1>11
  DEF Next, Step, Call, Terminated

LEMMA SinkNext ==
    ASSUME IInv, [Next]_vars
    PROVE  SinkInv'
<1> USE LogAssumption DEF IInv, SinkInv
<1>1. ASSUME NEW t \in Threads, Enter(t), UNCHANGED log, log = "open"
      PROVE  SinkInv'
  BY <1>1, Moved DEF Enter, Forget
<1>2. ASSUME NEW t \in Threads, Limits(t) PROVE SinkInv'
  <2>1. pc[t] = "limits" /\ log # "closed"
    BY <1>2 DEF Limits
  <2>2. CASE Forget(t) /\ g_stopped
    BY <1>2, <2>1, <2>2, Moved DEF Limits, Forget
  <2>3. ASSUME NEW w \in {"lock", "disable", "measure"}, Go(t, w),
               w # "lock" => g_persistent
        PROVE  SinkInv'
    BY <1>2, <2>1, <2>3, Moved DEF Limits
  <2> QED
    BY <1>2, <2>2, <2>3 DEF Limits, TypeOK
<1>3. ASSUME NEW t \in Threads, Measure(t) PROVE SinkInv'
  BY <1>3, Moved DEF Measure
<1>4. ASSUME NEW t \in Threads, Lock(t) \/ Prefix(t) PROVE SinkInv'
  BY <1>4, Moved DEF Lock, Prefix
<1>5. ASSUME NEW t \in Threads, Text(t) PROVE SinkInv'
  BY <1>5, Moved DEF Text
<1>6. ASSUME NEW t \in Threads, Disable(t) PROVE SinkInv'
  BY <1>6, Moved DEF Disable, Forget
<1>7. ASSUME NEW t \in Threads, Notice(t) PROVE SinkInv'
  BY <1>7, Moved DEF Notice, AfterNotice
<1>8. ASSUME NEW t \in Threads, Redirect(t) \/ Stop(t) PROVE SinkInv'
  BY <1>8, Moved DEF Redirect, Stop, Forget
<1>9. CASE Close
  BY <1>9, Moved DEF Close, Enter, Forget
<1>10. CASE Closed \/ Vendor \/ Expire \/ UNCHANGED vars
  BY <1>10 DEF Closed, Vendor, Expire, vars
<1> QED
  BY <1>1, <1>2, <1>3, <1>4, <1>5, <1>6, <1>7, <1>8, <1>9, <1>10
  DEF Next, Step, Call, Terminated

LEMMA NoticeNext ==
    ASSUME IInv, [Next]_vars
    PROVE  NoticeInv'
<1> USE LogAssumption DEF IInv, NoticeInv
<1>1. ASSUME NEW t \in Threads, Enter(t) PROVE NoticeInv'
  BY <1>1, Moved DEF Enter, Forget, SinkInv
<1>2. ASSUME NEW t \in Threads, Limits(t) PROVE NoticeInv'
  <2>1. CASE Forget(t) /\ g_stopped
    BY <1>2, <2>1, Moved DEF Limits, Forget, SinkInv
  <2>2. ASSUME NEW w \in {"lock", "disable", "measure"}, Go(t, w),
               UNCHANGED dropped
        PROVE  NoticeInv'
    BY <1>2, <2>2, Moved DEF Limits
  <2> QED
    BY <1>2, <2>1, <2>2 DEF Limits, TypeOK
<1>3. ASSUME NEW t \in Threads, Measure(t) PROVE NoticeInv'
  BY <1>3, Moved DEF Measure
<1>4. ASSUME NEW t \in Threads, Lock(t) \/ Prefix(t) PROVE NoticeInv'
  BY <1>4, Moved DEF Lock, Prefix
<1>5. ASSUME NEW t \in Threads, Text(t) PROVE NoticeInv'
  BY <1>5, Moved DEF Text
<1>6. ASSUME NEW t \in Threads, Disable(t) PROVE NoticeInv'
  BY <1>6, Moved DEF Disable, Forget, SinkInv
<1>7. ASSUME NEW t \in Threads, Notice(t) PROVE NoticeInv'
  <2>1. \A u \in Threads : pc'[u] = IF u = t THEN "redirect" ELSE pc[u]
    BY <1>7, Moved DEF Notice, AfterNotice
  <2>2. CASE sink = "file"
    <3>1. told[t] = 0 /\ told' = [told EXCEPT ![t] = 1]
      BY <1>7, <2>2 DEF Notice, TypeOK
    <3>2. told'[t] = 1 /\ \A u \in Threads : u # t => told'[u] = told[u]
      BY <3>1 DEF TypeOK
    <3> QED
      BY <1>7, <2>1, <2>2, <3>2 DEF Notice
  <2>3. CASE sink # "file"
    <3>1. sink = "null" /\ UNCHANGED <<sink, told, dropped>>
      BY <1>7, <2>3 DEF Notice, SinkInv, TypeOK
    <3> QED
      BY <2>1, <3>1
  <2> QED
    BY <2>2, <2>3
<1>8. ASSUME NEW t \in Threads, Redirect(t) \/ Stop(t) PROVE NoticeInv'
  BY <1>8, Moved DEF Redirect, Stop, Forget, SinkInv
<1>9. CASE Close
  BY <1>1, <1>9 DEF Close
<1>10. CASE Closed \/ Vendor \/ Expire \/ UNCHANGED vars
  BY <1>10 DEF Closed, Vendor, Expire, vars
<1> QED
  BY <1>1, <1>2, <1>3, <1>4, <1>5, <1>6, <1>7, <1>8, <1>9, <1>10
  DEF Next, Step, Call, Terminated

LEMMA LateNext ==
    ASSUME IInv, [Next]_vars
    PROVE  LateInv'
<1> USE LogAssumption DEF IInv, LateInv, Reached
<1>0. size \in Nat /\ \A u \in Threads : late[u] \in Nat
  BY DEF TypeOK
<1>1. ASSUME NEW t \in Threads, Enter(t) PROVE LateInv'
  BY <1>0, <1>1, Moved DEF Enter, Forget
<1>2. ASSUME NEW t \in Threads, Limits(t) PROVE LateInv'
  <2>1. CASE Forget(t) \/ Go(t, "disable")
    BY <1>0, <1>2, <2>1, Moved DEF Limits, Forget
  <2>2. CASE Go(t, "lock") /\ ~g_persistent
    <3>1. sink # "file"
      BY <1>2, <2>2 DEF Limits, SinkInv
    <3> QED
      BY <1>0, <1>2, <3>1 DEF Limits
  <2>3. CASE Go(t, "measure") /\ ~expired
    BY <1>0, <1>2, <2>3, Moved DEF Limits
  <2> QED
    BY <1>2, <2>1, <2>2, <2>3 DEF Limits, TypeOK
<1>3. ASSUME NEW t \in Threads, Measure(t) PROVE LateInv'
  <2>1. CASE Full
    BY <1>0, <1>3, <2>1, Moved DEF Measure
  <2>2. CASE ~Full
    BY <1>0, <1>3, <2>2, Moved DEF Measure, Full
  <2> QED
    BY <2>1, <2>2
<1>4. ASSUME NEW t \in Threads, Lock(t) \/ Prefix(t) PROVE LateInv'
  BY <1>0, <1>4, Moved DEF Lock, Prefix
<1>5. ASSUME NEW t \in Threads, Text(t) PROVE LateInv'
  <2>1. \A u \in Threads : pc'[u] = IF u = t THEN "idle" ELSE pc[u]
    BY <1>5, Moved DEF Text
  <2>2. CASE sink = "file"
    <3>1. /\ UNCHANGED <<sink, expired>> /\ size' = size + 1
          /\ \A u \in Threads : late'[u] =
               IF u = t /\ Reached THEN late[u] + 1 ELSE late[u]
      BY <1>5, <2>2 DEF Text, TypeOK
    <3>2. pc[t] = "text" /\ late[t] = 0
      BY <1>0, <1>5, <2>2 DEF Text
    <3> QED
      BY <1>0, <2>1, <3>1, <3>2
  <2>3. CASE sink # "file"
    BY <1>0, <1>5, <2>3 DEF Text
  <2> QED
    BY <2>2, <2>3
<1>6. ASSUME NEW t \in Threads, Disable(t) PROVE LateInv'
  BY <1>0, <1>6, Moved DEF Disable, Forget
<1>7. ASSUME NEW t \in Threads, Notice(t) PROVE LateInv'
  <2>1. /\ \A u \in Threads : pc'[u] = IF u = t THEN "redirect" ELSE pc[u]
        /\ size' \in Nat /\ size' >= size /\ UNCHANGED <<late, sink, expired>>
    BY <1>0, <1>7, Moved DEF Notice, AfterNotice
  <2> QED
    BY <1>0, <2>1
<1>8. ASSUME NEW t \in Threads, Redirect(t) \/ Stop(t) PROVE LateInv'
  BY <1>0, <1>8, Moved DEF Redirect, Stop, Forget
<1>9. CASE Close
  BY <1>1, <1>9 DEF Close
<1>10. CASE Closed \/ Vendor \/ Expire \/ UNCHANGED vars
  BY <1>0, <1>10 DEF Closed, Vendor, Expire, vars
<1> QED
  BY <1>1, <1>2, <1>3, <1>4, <1>5, <1>6, <1>7, <1>8, <1>9, <1>10
  DEF Next, Step, Call, Terminated

LEMMA LockNext ==
    ASSUME IInv, [Next]_vars
    PROVE  LockInv'
<1> USE LogAssumption DEF IInv, LockInv
<1>1. ASSUME NEW t \in Threads, Enter(t) PROVE LockInv'
  BY <1>1, Moved DEF Enter, Forget
<1>2. ASSUME NEW t \in Threads, Limits(t) PROVE LockInv'
  <2>1. ASSUME NEW w \in {"idle", "lock", "disable", "measure"}, Go(t, w)
        PROVE  LockInv'
    BY <1>2, <2>1, Moved DEF Limits
  <2> QED
    BY <1>2, <2>1 DEF Limits, Forget, TypeOK
<1>3. ASSUME NEW t \in Threads, Measure(t) PROVE LockInv'
  BY <1>3, Moved DEF Measure
<1>4. ASSUME NEW t \in Threads, Lock(t) \/ Prefix(t) PROVE LockInv'
  BY <1>4, Moved DEF Lock, LockFree, Prefix
<1>5. ASSUME NEW t \in Threads, Text(t) PROVE LockInv'
  BY <1>5, Moved DEF Text
<1>6. ASSUME NEW t \in Threads, Disable(t) PROVE LockInv'
  BY <1>6, Moved DEF Disable, Forget
<1>7. ASSUME NEW t \in Threads, Notice(t) PROVE LockInv'
  BY <1>7, Moved DEF Notice, AfterNotice
<1>8. ASSUME NEW t \in Threads, Redirect(t) \/ Stop(t) PROVE LockInv'
  BY <1>8, Moved DEF Redirect, Stop, Forget
<1>9. CASE Close
  BY <1>1, <1>9 DEF Close
<1>10. CASE Closed \/ Vendor \/ Expire \/ UNCHANGED vars
  BY <1>10 DEF Closed, Vendor, Expire, vars
<1> QED
  BY <1>1, <1>2, <1>3, <1>4, <1>5, <1>6, <1>7, <1>8, <1>9, <1>10
  DEF Next, Step, Call, Terminated

LEMMA Inductive == Spec => []IInv
<1>1. Init => IInv
  <2> SUFFICES ASSUME Init PROVE IInv
    OBVIOUS
  <2>1. TypeOK
    <3>1. g_persistent \in BOOLEAN
      BY DEF Init
    <3> QED
      BY <3>1 DEF Init, TypeOK
  <2>2. SinkInv
    BY DEF Init, SinkInv
  <2>3. NoticeInv
    BY DEF Init, NoticeInv
  <2>4. LateInv /\ LockInv
    BY LogAssumption DEF Init, LateInv, LockInv
  <2> QED
    BY <2>1, <2>2, <2>3, <2>4 DEF IInv
<1>2. IInv /\ [Next]_vars => IInv'
  BY TypeNext, SinkNext, NoticeNext, LateNext, LockNext DEF IInv
<1> QED
  BY <1>1, <1>2, PTL DEF Spec

-----------------------------------------------------------------------------
(* The types, and one notice of each thread at most. *)
THEOREM TypeCorrect == Spec => []TypeOK
<1>1. IInv => TypeOK
  BY DEF IInv
<1> QED
  BY <1>1, Inductive, PTL

(* However many threads log, each overruns a limit by one line at most. *)
THEOREM OverrunCorrect == Spec => []OverrunBounded
<1>1. IInv => OverrunBounded
  BY DEF IInv, LateInv, OverrunBounded
<1> QED
  BY <1>1, Inductive, PTL

(* No line is left out of the file before the notice is in it. *)
THEOREM DropsCorrect == Spec => []DropsAreTold
<1>1. IInv => DropsAreTold
  BY DEF IInv, NoticeInv, DropsAreTold
<1> QED
  BY <1>1, Inductive, PTL

(* Once the capture has stopped, the file never grows again. *)
THEOREM FrozenCorrect == Spec => FileFrozen
<1>1. IInv /\ [Next]_vars => [g_stopped => UNCHANGED size]_vars
  <2> SUFFICES ASSUME IInv, [Next]_vars, g_stopped PROVE UNCHANGED size
    OBVIOUS
  <2>1. sink = "null"
    BY DEF IInv, SinkInv
  <2>2. ASSUME NEW t \in Threads, Call(t) \/ Step(t) PROVE UNCHANGED size
    BY <2>1, <2>2 DEF Call, Enter, Step, Limits, Measure, Lock, Prefix, Text,
                      Disable, Notice, Redirect, Stop
  <2> QED
    BY <2>1, <2>2 DEF Next, Close, Enter, Closed, Vendor, Expire, Terminated,
                      vars
<1> QED
  BY <1>1, Inductive, PTL DEF Spec, FileFrozen

(* Lines are neither torn nor cut, whichever threads write them. *)
THEOREM LinesCorrect == Spec => WholeLines
<1> DEFINE Whole(t) == pc[t] = "text" /\ pc'[t] = "text" =>
                         /\ UNCHANGED <<size, sink>>
                         /\ \A u \in Threads : pc'[u] = "text" => pc[u] = "text"
<1>1. ASSUME IInv, [Next]_vars, NEW t \in Threads PROVE Whole(t)
  <2> SUFFICES ASSUME pc[t] = "text", pc'[t] = "text"
               PROVE  /\ UNCHANGED <<size, sink>>
                      /\ \A u \in Threads : pc'[u] = "text" => pc[u] = "text"
    OBVIOUS
  <2> USE <1>1, LogAssumption DEF IInv
  <2>1. holder = t /\ holder # NoThread
    BY DEF LockInv
  <2>2. \A u \in Threads : pc[u] \in {"prefix", "text"} => u = t
    BY <2>1 DEF LockInv
  <2>3. ASSUME NEW u \in Threads, Enter(u) \/ Limits(u) \/ Disable(u)
        PROVE  /\ UNCHANGED <<size, sink>>
               /\ \A v \in Threads : pc'[v] = "text" => pc[v] = "text"
    <3>1. /\ UNCHANGED <<size, sink>>
          /\ \E w \in {"idle", "limits", "lock", "disable", "measure",
                       "notice"} : Go(u, w)
      BY <2>3 DEF Enter, Limits, Disable, Forget, TypeOK
    <3> QED
      BY <3>1, Moved
  <2>4. ASSUME NEW u \in Threads, Stop(u)
        PROVE  /\ UNCHANGED <<size, sink>>
               /\ \A v \in Threads : pc'[v] = "text" => pc[v] = "text"
    BY <2>4, Moved DEF Stop, Forget
  <2>5. ASSUME NEW u \in Threads, Lock(u) \/ Measure(u) \/ Notice(u)
                                  \/ Redirect(u)
        PROVE  FALSE
    BY <2>1, <2>5 DEF Lock, LockFree, Measure, Notice, Redirect
  <2>6. ASSUME NEW u \in Threads, Prefix(u) PROVE FALSE
    BY <2>2, <2>6 DEF Prefix
  <2>7. ASSUME NEW u \in Threads, Text(u) PROVE FALSE
    <3>1. u = t
      BY <2>2, <2>7 DEF Text
    <3> QED
      BY <2>7, <3>1, Moved DEF Text
  <2>8. CASE Close
    BY <2>3, <2>8 DEF Close
  <2>9. CASE Closed \/ Vendor \/ Expire \/ UNCHANGED vars
    BY <2>1, <2>9 DEF Closed, Vendor, Expire, vars
  <2> QED
    BY <2>3, <2>4, <2>5, <2>6, <2>7, <2>8, <2>9
    DEF Next, Call, Step, Terminated
<1>2. IInv /\ [Next]_vars => [\A t \in Threads : Whole(t)]_vars
  BY <1>1
<1> QED
  BY <1>2, Inductive, PTL DEF Spec, WholeLines
=============================================================================
