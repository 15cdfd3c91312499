------------------------ MODULE StreamSession_proofs ------------------------
(***************************************************************************)
(* What follows from StreamSession alone, for any threads: the sessions    *)
(* that implement it inherit it.                                           *)
(***************************************************************************)
EXTENDS StreamSession, TLAPS

(* The inductive invariant: what may be alive, held and known in each      *)
(* phase. *)
Inv ==
    /\ worker \in [Workers -> {"unborn", "alive", "ended"}]
    /\ phase \in {"opening", "streaming", "stopping", "done", "killed"}
    /\ holding \in BOOLEAN /\ back \in BOOLEAN
    /\ phase = "opening" => ~back /\ \A w \in Workers : worker[w] = "unborn"
    /\ phase \in {"streaming", "stopping", "killed"} => holding
    /\ phase # "done" => result = "none"
    /\ phase = "done" =>
          /\ ~holding /\ \A w \in Workers : worker[w] # "alive"
          /\ result \in IF back THEN {"USER_BACK"} ELSE Failures

LEMMA InitInv == Init => Inv
BY DEF Init, Inv

LEMMA NextInv == Inv /\ [Next]_vars => Inv'
<1> SUFFICES ASSUME Inv, [Next]_vars PROVE Inv'
  OBVIOUS
<1>1. CASE Acquire
  BY <1>1 DEF Acquire, Inv
<1>2. CASE Fail
  BY <1>2 DEF Fail, Inv
<1>3. CASE Begin
  BY <1>3 DEF Begin, Inv
<1>4. CASE Leave
  BY <1>4 DEF Leave, Inv
<1>5. CASE Quit
  BY <1>5 DEF Quit, Inv
<1>6. CASE Signal
  BY <1>6 DEF Signal, Inv
<1>7. CASE End
  BY <1>7 DEF End, Inv
<1>8. CASE Return
  BY <1>8 DEF Return, Inv
<1>9. ASSUME NEW w \in Workers, Start(w) PROVE Inv'
  BY <1>9 DEF Start, Inv
<1>10. ASSUME NEW w \in Workers, WorkerEnds(w) PROVE Inv'
  BY <1>10 DEF WorkerEnds, Inv
<1>11. ASSUME NEW w \in Workers, WorkerKilled(w) PROVE Inv'
  BY <1>11 DEF WorkerKilled, Inv
<1>12. CASE UNCHANGED vars
  BY <1>12 DEF vars, Inv
<1> QED
  BY <1>1, <1>2, <1>3, <1>4, <1>5, <1>6, <1>7, <1>8, <1>9, <1>10, <1>11,
     <1>12 DEF Next

LEMMA Inductive == Spec => []Inv
BY InitInv, NextInv, PTL DEF Spec

(* No thread outlives what it works with. *)
THEOREM HeldCorrect == Spec => []HeldWhileAlive
<1>1. Inv => HeldWhileAlive
  BY DEF Inv, HeldWhileAlive
<1> QED
  BY <1>1, Inductive, PTL

(* A session returns with nothing left behind and tells a departure from a *)
(* failure. *)
THEOREM ReturnCorrect == Spec => []ReturnedClean
<1>1. Inv => ReturnedClean
  BY DEF Inv, ReturnedClean, Failures
<1> QED
  BY <1>1, Inductive, PTL
=============================================================================
