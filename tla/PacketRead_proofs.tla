--------------------------- MODULE PacketRead_proofs ---------------------------
(***************************************************************************)
(* Theorems about PacketRead, for headers and payloads of any size, any    *)
(* number of packets and any patience.                                     *)
(***************************************************************************)
EXTENDS PacketRead, TLAPS

(* Packets lie on the stream one after the other; the last one has been    *)
(* begun.                                                                  *)
SendInv ==
    /\ packets = <<>> => out = 0
    /\ packets # <<>> =>
         packets[1].start = 0 /\ packets[Len(packets)].start < out
    /\ out <= Edge
    /\ \A i, j \in 1..Len(packets) :
         /\ i < j => End(packets[i]) <= packets[j].start
         /\ j = i + 1 => packets[j].start = End(packets[i])

(* Where packet k starts, or will start. *)
Start(k) == IF k <= Len(packets) THEN packets[k].start ELSE Edge

(* The reader is in the packet it believes to be in. *)
FrameInv ==
    /\ given <= Len(packets) /\ at <= out
    /\ stage = "header" =>
         /\ at = Start(given + 1) + done
         /\ IF pc = "judge" THEN done = HeaderSize ELSE done < HeaderSize
    /\ stage = "payload" =>
         /\ given < Len(packets)
         /\ at = packets[given + 1].start + HeaderSize + done
         /\ done < packets[given + 1].len
         /\ pc # "judge"
    /\ backend = "sysdvr" => pc # "test"

(* What the deadline has lost since it was set was silence, and is the     *)
(* present silence as long as nothing more has come.                       *)
SilenceInv ==
    /\ result = "stalled" => longest >= Patience[backend]
    /\ deadline <= Patience[backend] /\ silence <= Patience[backend]
    /\ deadline # -1 =>
         /\ longest >= Patience[backend] - deadline
         /\ at = out /\ pc # "judge" =>
              silence >= Patience[backend] - deadline
    /\ backend = "sysdvr" => deadline >= 1
    /\ backend = "frametap" /\ deadline # -1 => stage = "payload" \/ done > 0

StopInv ==
    /\ late <= 1
    /\ late = 1 => backend = "frametap" /\ ~running /\ pc # "wait"
    /\ backend = "sysdvr" => running

IInv == TypeOK /\ SendInv /\ FrameInv /\ SilenceInv /\ StopInv

-----------------------------------------------------------------------------
(* Arithmetic on packets needs their fields to be numbers. *)
LEMMA Numbers ==
    ASSUME TypeOK
    PROVE  /\ HeaderSize \in Nat \ {0} /\ Patience[backend] \in Nat \ {0}
           /\ Len(packets) \in Nat
           /\ packets # <<>> => Len(packets) \in 1..Len(packets)
           /\ packets = <<>> <=> Len(packets) = 0
           /\ \A i \in 1..Len(packets) :
                /\ packets[i] \in Packets
                /\ packets[i].start \in Nat /\ packets[i].len \in Nat
                /\ End(packets[i]) \in Nat
           /\ Edge \in Nat
<1> USE ReadAssumption
<1>1. HeaderSize \in Nat \ {0} /\ Patience[backend] \in Nat \ {0}
  BY DEF TypeOK
<1>2. /\ Len(packets) \in Nat /\ packets = <<>> <=> Len(packets) = 0
      /\ \A i \in 1..Len(packets) : packets[i] \in Packets
  BY DEF TypeOK
<1>3. \A i \in 1..Len(packets) :
        packets[i].start \in Nat /\ packets[i].len \in Nat
  BY <1>2 DEF Packets
<1>4. \A i \in 1..Len(packets) : End(packets[i]) \in Nat
  BY <1>1, <1>3 DEF End
<1>5. packets # <<>> => Len(packets) \in 1..Len(packets)
  BY <1>2
<1>6. Edge \in Nat
  BY <1>4, <1>5 DEF Edge
<1> QED
  BY <1>1, <1>2, <1>3, <1>4, <1>5, <1>6

(* A part of a packet ends within the packet. *)
LEMMA Sum ==
    ASSUME NEW s \in Nat, NEW h \in Nat, NEW l \in Nat, NEW d \in Nat
    PROVE  /\ d < h => s + d < s + h + l
           /\ d < l => s + h + d < s + h + l
OBVIOUS

(* Not more than what is missing, and not less. *)
LEMMA Exact ==
    ASSUME NEW s \in Nat, NEW d \in Nat, NEW n \in Nat,
           n <= s - d, d + n >= s
    PROVE  d + n = s
OBVIOUS

(* A reader that is inside a packet is inside the stream, and if nothing   *)
(* more has come, that packet is the last one, and not whole.              *)
LEMMA Inside ==
    ASSUME TypeOK, SendInv, FrameInv, stage = "payload" \/ done > 0
    PROVE  /\ given + 1 \in 1..Len(packets)
           /\ at = out /\ pc # "judge" => out # Edge
<1> USE Numbers DEF FrameInv, SendInv
<1>1. given \in Nat /\ at \in Nat /\ out \in Nat /\ done \in Nat
      /\ stage \in {"header", "payload"}
  BY DEF TypeOK
<1>2. given + 1 \in 1..Len(packets)
  BY <1>1 DEF Start
<1>3. ASSUME at = out, pc # "judge" PROVE out # Edge
  <2>1. at < End(packets[given + 1])
    <3>1. /\ packets[given + 1].start \in Nat /\ packets[given + 1].len \in Nat
          /\ End(packets[given + 1]) =
               packets[given + 1].start + HeaderSize + packets[given + 1].len
      BY <1>2 DEF End
    <3>2. CASE stage = "header"
      <4>1. at = Start(given + 1) + done /\ done < HeaderSize
        BY <1>3, <3>2
      <4>2. Start(given + 1) = packets[given + 1].start
        BY <1>2 DEF Start
      <4> QED
        BY SMTT(40), <1>1, <3>1, <4>1, <4>2, Sum
    <3>3. CASE stage = "payload"
      <4>1. /\ at = packets[given + 1].start + HeaderSize + done
            /\ done < packets[given + 1].len
        BY <3>3
      <4> QED
        <5>1. HeaderSize \in Nat /\ done \in Nat
          BY <1>1
        <5>2. packets[given + 1].start + HeaderSize + done
                < packets[given + 1].start + HeaderSize + packets[given + 1].len
          <6> HIDE DEF FrameInv, SendInv
          <6> QED
            BY <3>1, <4>1, <5>1, Sum
        <5> QED
          BY <3>1, <4>1, <5>2
    <3> QED
      BY <1>1, <3>2, <3>3
  <2>2. CASE given + 1 = Len(packets)
    BY <1>2, <2>1, <2>2, <1>3 DEF Edge
  <2>3. CASE given + 1 < Len(packets)
    <3>1. /\ End(packets[given + 1]) <= packets[Len(packets)].start
          /\ packets[Len(packets)].start < out
      BY <1>1, <1>2, <2>3
    <3> QED
      BY <1>1, <1>2, <1>3, <2>1, <3>1
  <2> QED
    BY <1>1, <1>2, <2>2, <2>3
<1> QED
  BY <1>2, <1>3

(* The steps of the reader leave the sender alone.                         *)
LEMMA ReaderFrame ==
    ASSUME Reader
    PROVE  UNCHANGED sendVars
BY DEF Reader, Test, Turn, Interrupted, Eof, Reset, Judge, Recv

LEMMA SenderFrame ==
    ASSUME NEW n, Begin(n) \/ Continue(n)
    PROVE  /\ UNCHANGED <<backend, line, running, readVars, longest, late>>
           /\ silence' = 0
BY DEF Begin, Continue

LEMMA FreshType ==
    ASSUME TypeOK
    PROVE  Fresh \in {-1} \cup Nat /\ Entry \in {"test", "wait"}
BY Numbers DEF Fresh, Entry

LEMMA TypeNext ==
    ASSUME TypeOK, FrameInv, SendInv, [Next]_vars
    PROVE  TypeOK'
<1> USE ReadAssumption, Numbers, FreshType
<1>1. ASSUME NEW n \in 1..HeaderSize, Begin(n) PROVE TypeOK'
  <2>1. packets' \in Seq(Packets)
    <3>1. PICK f \in FlagSets, l \in 0..MaxLen, r \in BOOLEAN :
            packets' = Append(packets,
                       [start |-> out, len |-> l, flags |-> f, right |-> r])
      BY <1>1 DEF Begin
    <3>2. [start |-> out, len |-> l, flags |-> f, right |-> r] \in Packets
      BY DEF Packets, TypeOK
    <3> QED
      BY <3>1, <3>2 DEF TypeOK
  <2> QED
    BY <1>1, <2>1 DEF Begin, readVars, TypeOK
<1>2. ASSUME NEW n \in 1..(HeaderSize + MaxLen), Continue(n) PROVE TypeOK'
  BY <1>2 DEF Continue, readVars, TypeOK
<1>3. CASE Hangup
  BY <1>3 DEF Hangup, readVars, histVars, TypeOK
<1>4. CASE Stop
  BY <1>4 DEF Stop, readVars, histVars, TypeOK
<1>5. CASE Test
  <2>1. Due \in {-1} \cup Nat
    BY DEF Due, TypeOK
  <2>2. deadline' \in {-1} \cup Nat
    BY <1>5, <2>1 DEF Test, Return, TypeOK
  <2>3. /\ pc' \in {"test", "wait", "judge"}
        /\ result' \in {"reading", "end", "failure", "stalled"}
        /\ UNCHANGED <<stage, at, done, given>>
    BY <1>5 DEF Test, Return, TypeOK
  <2>4. UNCHANGED sendVars /\ UNCHANGED histVars
    BY <1>5 DEF Test
  <2> QED
    BY <2>2, <2>3, <2>4 DEF sendVars, histVars, TypeOK
<1>6. CASE Turn
  <2>1. deadline' \in {-1} \cup Nat
    BY <1>6 DEF Turn, Return, TypeOK
  <2>2. silence' \in Nat /\ longest' \in Nat
    BY <1>6 DEF Turn, Silent, TypeOK
  <2>3. /\ pc' \in {"test", "wait", "judge"}
        /\ result' \in {"reading", "end", "failure", "stalled"}
        /\ UNCHANGED <<stage, at, done, given>>
    BY <1>6 DEF Turn, Return, TypeOK
  <2> QED
    BY <1>6, <2>1, <2>2, <2>3 DEF Turn, sendVars, TypeOK
<1>7. CASE Interrupted
  BY <1>7 DEF Interrupted, sendVars, histVars, TypeOK
<1>8. CASE Eof \/ Reset
  BY <1>8 DEF Eof, Reset, Return, sendVars, histVars, TypeOK
<1>9. CASE Judge
  BY <1>9 DEF Judge, Give, Return, sendVars, histVars, TypeOK
<1>10. ASSUME NEW n \in 1..(HeaderSize + MaxLen), Recv(n) PROVE TypeOK'
  <2>1. done + n \in Nat /\ at' \in Nat /\ late' \in Nat
    BY <1>10 DEF Recv, TypeOK
  <2>2. /\ stage' \in {"header", "payload"} /\ given' \in Nat
        /\ pc' \in {"test", "wait", "judge"}
        /\ done' \in Nat /\ deadline' \in {-1} \cup Nat
    BY <1>10, <2>1 DEF Recv, Give, Again, Extended, TypeOK
  <2> QED
    BY <1>10, <2>1, <2>2 DEF Recv, sendVars, TypeOK
<1>11. CASE UNCHANGED vars
  BY <1>11 DEF vars, sendVars, readVars, histVars, TypeOK
<1> QED
  BY <1>1, <1>2, <1>3, <1>4, <1>5, <1>6, <1>7, <1>8, <1>9, <1>10, <1>11
  DEF Next, Reader, Returned

-----------------------------------------------------------------------------
(* A packet that begins takes the place that was kept for it. *)
LEMMA BeginPlaces ==
    ASSUME TypeOK, NEW n, Begin(n)
    PROVE  /\ Len(packets') = Len(packets) + 1
           /\ \A i \in 1..Len(packets) : packets'[i] = packets[i]
           /\ packets'[Len(packets) + 1].start = out
           /\ out = Edge
           /\ Edge' \in Nat /\ Edge' >= out + HeaderSize
           /\ packets' # <<>>
<1> USE ReadAssumption, Numbers
<1>1. PICK f \in FlagSets, l \in 0..MaxLen, r \in BOOLEAN :
        packets' = Append(packets,
                     [start |-> out, len |-> l, flags |-> f, right |-> r])
  BY DEF Begin
<1>2. /\ Len(packets') = Len(packets) + 1
      /\ \A i \in 1..Len(packets) : packets'[i] = packets[i]
      /\ packets'[Len(packets) + 1] =
           [start |-> out, len |-> l, flags |-> f, right |-> r]
      /\ packets' # <<>>
  BY <1>1 DEF TypeOK
<1>3. Edge' = out + HeaderSize + l
  BY <1>2 DEF Edge, End
<1> QED
  BY <1>2, <1>3 DEF Begin, TypeOK

LEMMA SendNext ==
    ASSUME TypeOK, SendInv, [Next]_vars
    PROVE  SendInv'
<1> USE Numbers
<1>1. ASSUME NEW n \in 1..HeaderSize, Begin(n) PROVE SendInv'
  <2>1. out' = out + n /\ out \in Nat
    BY <1>1 DEF Begin, TypeOK
  <2>2. /\ packets'[1].start = 0 /\ packets'[Len(packets')].start < out'
        /\ out' <= Edge'
    BY <1>1, <2>1, BeginPlaces DEF SendInv, Edge
  <2>3. ASSUME NEW i \in 1..Len(packets'), NEW j \in 1..Len(packets')
        PROVE  /\ i < j => End(packets'[i]) <= packets'[j].start
               /\ j = i + 1 => packets'[j].start = End(packets'[i])
    <3>1. CASE j <= Len(packets) /\ i <= Len(packets)
      <4>1. packets'[i] = packets[i] /\ packets'[j] = packets[j]
        <5>1. i \in 1..Len(packets) /\ j \in 1..Len(packets)
          BY <1>1, <3>1, BeginPlaces
        <5> QED
          BY <1>1, <5>1, BeginPlaces
      <4> QED
        <5>1. i \in 1..Len(packets) /\ j \in 1..Len(packets)
          BY <1>1, <3>1, BeginPlaces
        <5>2. /\ i < j => End(packets[i]) <= packets[j].start
              /\ j = i + 1 => packets[j].start = End(packets[i])
          BY <5>1 DEF SendInv
        <5> QED
          BY <4>1, <5>2
    <3>2. CASE j = Len(packets) + 1 /\ i <= Len(packets)
      <4>1. /\ packets'[i] = packets[i] /\ packets'[j].start = Edge
            /\ packets # <<>> /\ Edge = End(packets[Len(packets)])
        BY <1>1, <3>2, BeginPlaces DEF Edge
      <4>2. i < Len(packets) => End(packets[i]) <= End(packets[Len(packets)])
        <5> SUFFICES ASSUME i < Len(packets)
                     PROVE  End(packets[i]) <= End(packets[Len(packets)])
          OBVIOUS
        <5>1. End(packets[i]) <= packets[Len(packets)].start
          <6>1. /\ i \in 1..Len(packets)
                /\ Len(packets) \in 1..Len(packets)
            BY <1>1, <3>2, <4>1, BeginPlaces
          <6> QED
            BY <6>1 DEF SendInv
        <5> QED
          <6>1. /\ packets[Len(packets)].start \in Nat
                /\ packets[Len(packets)].len \in Nat
            BY <4>1
          <6>2. i \in 1..Len(packets) /\ End(packets[i]) \in Nat
            BY <1>1, <3>2, BeginPlaces
          <6> QED
            BY SMTT(40), <5>1, <6>1, <6>2 DEF End
      <4>3. i = Len(packets) \/ i < Len(packets)
        BY <3>2
      <4>4. i \in 1..Len(packets) /\ End(packets[i]) <= Edge
        BY <1>1, <3>2, <4>1, <4>2, <4>3, BeginPlaces
      <4>5. j = i + 1 => packets'[j].start = End(packets'[i])
        BY <3>2, <4>1
      <4> QED
        BY <4>1, <4>4, <4>5
    <3>3. CASE i = Len(packets) + 1
      BY <1>1, <3>3, BeginPlaces
    <3> QED
      BY <1>1, <3>1, <3>2, <3>3, BeginPlaces
  <2> QED
    BY <1>1, <2>2, <2>3, BeginPlaces DEF SendInv
<1>2. ASSUME NEW n \in 1..(HeaderSize + MaxLen), Continue(n) PROVE SendInv'
  <2>1. /\ out \in Nat /\ n \in Nat \ {0} /\ out' = out + n /\ out + n <= Edge
        /\ UNCHANGED packets
    BY <1>2, ReadAssumption DEF Continue, TypeOK
  <2>2. packets # <<>>
    BY <2>1 DEF SendInv, Edge
  <2> QED
    BY <2>1, <2>2 DEF SendInv, Edge, End
<1>3. CASE Hangup \/ Stop
  BY <1>3 DEF Hangup, Stop, SendInv, Edge, End
<1>4. CASE Reader \/ UNCHANGED vars
  BY <1>4, ReaderFrame DEF vars, sendVars, SendInv, Edge, End
<1> QED
  BY <1>1, <1>2, <1>3, <1>4 DEF Next, Returned

-----------------------------------------------------------------------------
(* One packet ends where the next one starts. *)
LEMMA NextStart ==
    ASSUME TypeOK, SendInv, given + 1 \in 1..Len(packets)
    PROVE  /\ Start(given + 2) = End(packets[given + 1])
           /\ Start(given + 1) = packets[given + 1].start
<1> USE Numbers
<1>0. given \in Nat
  BY DEF TypeOK
<1>1. CASE given + 1 = Len(packets)
  BY <1>0, <1>1 DEF Start, Edge
<1>2. CASE given + 1 < Len(packets)
  <2>1. given + 2 \in 1..Len(packets) /\ given + 2 = (given + 1) + 1
    BY <1>0, <1>2
  <2>2. packets[given + 2].start = End(packets[given + 1])
    BY <2>1 DEF SendInv
  <2> QED
    BY <1>0, <1>2, <2>1, <2>2 DEF Start
<1> QED
  BY <1>0, <1>1, <1>2 DEF Start

(* What a sender's step leaves to the reader. *)
LEMMA SentKeeps ==
    ASSUME TypeOK, FrameInv, NEW n, n \in Nat \ {0},
           Begin(n) \/ Continue(n)
    PROVE  /\ out' = out + n
           /\ Len(packets') \in Nat /\ Len(packets) <= Len(packets')
           /\ \A i \in 1..Len(packets) : packets'[i] = packets[i]
           /\ Start(given + 1)' = Start(given + 1)
<1>3. Len(packets) \in Nat
  BY Numbers
<1>0. given \in Nat /\ given <= Len(packets)
  BY DEF TypeOK, FrameInv
<1>1. CASE Begin(n)
  <2>1. given' = given
    BY <1>1, SenderFrame DEF readVars
  <2>2. ASSUME given = Len(packets)
        PROVE  Start(given + 1)' = Start(given + 1)
    <3>1. /\ Len(packets') = given + 1 /\ packets'[given + 1].start = Edge
          /\ given + 1 <= Len(packets') /\ ~(given + 1 <= Len(packets))
      BY <1>0, <1>3, <1>1, <2>2, BeginPlaces
    <3> QED
      BY <2>1, <3>1 DEF Start
  <2>3. ASSUME given < Len(packets)
        PROVE  Start(given + 1)' = Start(given + 1)
    <3>1. given + 1 \in 1..Len(packets) /\ given + 1 <= Len(packets')
      BY <1>0, <1>3, <1>1, <2>3, BeginPlaces
    <3> QED
      <4>1. packets'[given + 1] = packets[given + 1]
        BY <1>1, <3>1, BeginPlaces
      <4>2. given + 1 <= Len(packets)
        BY <1>0, <1>3, <2>3
      <4> QED
        BY <2>1, <3>1, <4>1, <4>2 DEF Start
  <2> QED
    BY <1>0, <1>3, <1>1, <2>2, <2>3, BeginPlaces DEF Begin
<1>2. CASE Continue(n)
  BY <1>3, <1>2 DEF Continue, readVars, Start, Edge, End
<1> QED
  BY <1>1, <1>2

LEMMA FrameSent ==
    ASSUME TypeOK, FrameInv, NEW n, n \in Nat \ {0},
           Begin(n) \/ Continue(n)
    PROVE  FrameInv'
<1>1. UNCHANGED <<backend, stage, pc, at, done, given>>
  BY SenderFrame DEF readVars
<1>2. given \in Nat /\ at \in Nat /\ out \in Nat /\ Len(packets) \in Nat
  BY DEF TypeOK
<1>3. given' <= Len(packets') /\ at' <= out'
  BY <1>1, <1>2, SentKeeps DEF FrameInv
<1>4. stage = "payload" =>
        given + 1 \in 1..Len(packets) /\ given < Len(packets')
  BY <1>2, SentKeeps DEF FrameInv
<1>5. stage = "payload" => packets'[given + 1] = packets[given + 1]
  BY <1>4, SentKeeps
<1> QED
  BY <1>1, <1>3, <1>4, <1>5, SentKeeps DEF FrameInv

(* The reader's variables the frame is made of, and the sender's. *)
LEMMA FrameKept ==
    ASSUME FrameInv,
           UNCHANGED <<backend, packets, out, stage, at, done, given>>,
           pc' = pc \/ (pc = "test" /\ pc' = "wait")
             \/ (pc = "wait" /\ pc' = Entry)
    PROVE  FrameInv'
<1>1. Start(given + 1)' = Start(given + 1)
  BY DEF Start, Edge, End
<1>2. pc' = "judge" <=> pc = "judge"
  BY DEF Entry
<1>3. backend = "sysdvr" => pc' # "test"
  BY DEF FrameInv, Entry
<1> QED
  BY <1>1, <1>2, <1>3 DEF FrameInv

(* The caller gets the packet: the reader is at the start of the next.     *)
LEMMA FrameGiven ==
    ASSUME TypeOK, SendInv, given + 1 \in 1..Len(packets), Give,
           UNCHANGED <<backend, packets, out>>,
           at' = End(packets[given + 1]), at' <= out'
    PROVE  FrameInv'
<1> USE Numbers
<1>1. /\ given' = given + 1 /\ stage' = "header" /\ pc' = Entry /\ done' = 0
      /\ given \in Nat
  BY DEF Give, TypeOK
<1>2. Start(given + 1)' = Start(given + 2)
  <2>1. given' + 1 = given + 2
    BY <1>1
  <2> QED
    BY <2>1 DEF Start, Edge, End
<1>3. at' = Start(given + 1)' + done'
  BY <1>1, <1>2, NextStart
<1>4. pc' # "judge" /\ (backend' = "sysdvr" => pc' # "test")
  BY <1>1 DEF Entry
<1>5. done' < HeaderSize /\ given' <= Len(packets')
  BY <1>1
<1> QED
  BY <1>1, <1>3, <1>4, <1>5 DEF FrameInv

LEMMA FrameRecv ==
    ASSUME TypeOK, SendInv, FrameInv, NEW n, n \in Nat \ {0}, Recv(n)
    PROVE  FrameInv'
<1> USE Numbers
<1>1. /\ pc = "wait" /\ n <= Size - done /\ at' = at + n /\ at + n <= out
      /\ UNCHANGED <<backend, packets, out>>
      /\ done \in Nat /\ given \in Nat /\ at \in Nat /\ n \in Nat
      /\ stage \in {"header", "payload"}
  BY DEF Recv, Wanted, sendVars, TypeOK
<1>2. CASE /\ done + n < Size /\ done' = done + n /\ pc' = Again
           /\ UNCHANGED <<stage, given>>
  <2>1. Start(given + 1)' = Start(given + 1) /\ pc' # "judge"
    BY <1>1, <1>2 DEF Start, Edge, End, Again, Entry
  <2>2. backend' = "sysdvr" => pc' # "test"
    BY <1>1, <1>2 DEF Again, Entry
  <2>3. CASE stage = "header"
    <3>1. at = Start(given + 1) + done /\ Start(given + 1) \in Nat
      BY <1>1, <2>3 DEF FrameInv, Start
    <3>2. at' = Start(given + 1)' + done' /\ done' < HeaderSize
      BY <1>1, <1>2, <2>1, <2>3, <3>1 DEF Size
    <3> QED
      BY <1>1, <1>2, <2>1, <2>2, <2>3, <3>2 DEF FrameInv
  <2>4. CASE stage = "payload"
    <3>1. /\ given + 1 \in 1..Len(packets)
          /\ at = packets[given + 1].start + HeaderSize + done
      BY <1>1, <2>4 DEF FrameInv
    <3>2. /\ at' = packets[given + 1].start + HeaderSize + done'
          /\ done' < packets[given + 1].len
      BY SMTT(40), <1>1, <1>2, <2>4, <3>1 DEF Size
    <3> QED
      BY <1>1, <1>2, <2>1, <2>2, <2>4, <3>2 DEF FrameInv
  <2> QED
    BY <1>1, <2>3, <2>4
<1>3. CASE /\ done + n >= Size /\ stage = "header" /\ done' = done + n
           /\ pc' = "judge" /\ UNCHANGED <<stage, given>>
  <2>1. Start(given + 1)' = Start(given + 1)
    BY <1>1, <1>3 DEF Start, Edge, End
  <2>2. at = Start(given + 1) + done /\ Start(given + 1) \in Nat
    BY <1>1, <1>3 DEF FrameInv, Start
  <2>3. done' = HeaderSize /\ at' = Start(given + 1)' + done'
    <3>1. Size = HeaderSize /\ HeaderSize \in Nat
      BY <1>3 DEF Size
    <3>2. done + n = HeaderSize
      BY <1>1, <1>3, <3>1
    <3> QED
      BY <1>1, <1>3, <2>1, <2>2, <3>2
  <2> QED
    BY <1>1, <1>3, <2>3 DEF FrameInv
<1>4. CASE done + n >= Size /\ stage = "payload" /\ Give
  <2>1. /\ given + 1 \in 1..Len(packets)
        /\ at = packets[given + 1].start + HeaderSize + done
    BY <1>1, <1>4 DEF FrameInv
  <2>2. done + n = packets[given + 1].len
    <3>1. Size = packets[given + 1].len /\ packets[given + 1].len \in Nat
      BY <1>4, <2>1 DEF Size
    <3>2. done + n >= Size /\ n <= Size - done
      BY <1>1, <1>4
    <3>3. done + n = Size
      <4> HIDE DEF Size
      <4> QED
        BY <1>1, <3>1, <3>2, Exact
    <3> QED
      BY <3>1, <3>3
  <2>3. at' = End(packets[given + 1])
    BY SMTT(40), <1>1, <2>1, <2>2 DEF End
  <2> QED
    BY <1>1, <1>4, <2>1, <2>3, FrameGiven
<1> QED
  BY <1>2, <1>3, <1>4 DEF Recv

LEMMA FrameJudge ==
    ASSUME TypeOK, SendInv, FrameInv, Judge
    PROVE  FrameInv'
<1> USE Numbers
<1>1. /\ pc = "judge" /\ stage = "header" /\ done = HeaderSize /\ done > 0
      /\ UNCHANGED <<backend, packets, out>> /\ at \in Nat /\ given \in Nat
      /\ at = Start(given + 1) + done /\ at <= out
  BY DEF Judge, FrameInv, TypeOK, sendVars
<1>2. given + 1 \in 1..Len(packets)
  BY <1>1, Inside
<1>3. CASE Return("failure")
  BY <1>1, <1>3, FrameKept DEF Return
<1>4. CASE packets[given + 1].len = 0 /\ Give /\ at' = at
  BY <1>1, <1>2, <1>4, NextStart, FrameGiven DEF End
<1>5. CASE /\ packets[given + 1].len > 0 /\ stage' = "payload"
           /\ pc' = Entry /\ done' = 0 /\ UNCHANGED <<at, given>>
  <2>1. at' = packets[given + 1].start + HeaderSize + done'
    BY <1>1, <1>2, <1>5, NextStart
  <2>2. pc' # "judge" /\ (backend' = "sysdvr" => pc' # "test")
    BY <1>1, <1>5 DEF Entry
  <2> QED
    BY <1>1, <1>2, <1>5, <2>1, <2>2 DEF FrameInv
<1> QED
  BY <1>3, <1>4, <1>5 DEF Judge

LEMMA FrameNext ==
    ASSUME TypeOK, SendInv, FrameInv, [Next]_vars
    PROVE  FrameInv'
<1>1. ASSUME NEW n \in 1..HeaderSize, Begin(n) PROVE FrameInv'
  BY <1>1, FrameSent, Numbers
<1>2. ASSUME NEW n \in 1..(HeaderSize + MaxLen), Continue(n) PROVE FrameInv'
  BY <1>2, FrameSent, ReadAssumption
<1>3. CASE Hangup \/ Stop
  BY <1>3, FrameKept DEF Hangup, Stop, readVars
<1>4. CASE Test \/ Turn \/ Interrupted \/ Eof \/ Reset
  <2>1. /\ UNCHANGED <<backend, packets, out, stage, at, done, given>>
        /\ \/ pc' = pc \/ (pc = "test" /\ pc' = "wait")
           \/ (pc = "wait" /\ pc' = Entry)
    BY <1>4 DEF Test, Turn, Interrupted, Eof, Reset, Return, sendVars
  <2> QED
    BY <2>1, FrameKept
<1>5. ASSUME NEW n \in 1..(HeaderSize + MaxLen), Recv(n) PROVE FrameInv'
  BY <1>5, FrameRecv, ReadAssumption
<1>6. CASE UNCHANGED vars
  BY <1>6, FrameKept DEF vars, sendVars, readVars
<1> QED
  BY <1>1, <1>2, <1>3, <1>4, <1>5, <1>6, FrameJudge DEF Next, Reader, Returned

-----------------------------------------------------------------------------
LEMMA SilenceTurn ==
    ASSUME TypeOK, SendInv, FrameInv, SilenceInv, Turn
    PROVE  SilenceInv'
<1> DEFINE P == Patience[backend]
<1>1. /\ P \in Nat \ {0} /\ silence \in Nat /\ longest \in Nat
      /\ deadline \in {-1} \cup Nat /\ backend \in {"sysdvr", "frametap"}
  BY Numbers DEF TypeOK, Backends
<1>2. /\ at = out /\ pc = "wait" /\ result = "reading" /\ Silent
      /\ UNCHANGED <<backend, out, stage, at, done>>
  BY DEF Turn, Return, sendVars
<1>3. deadline # -1 => backend = "sysdvr" \/ out # Edge
  BY <1>1, <1>2, Inside DEF SilenceInv
<1>4. /\ silence' \in Nat /\ silence' >= silence /\ silence' <= P
      /\ deadline # -1 => silence' = P \/ silence' = silence + 1
  BY <1>1, <1>2, <1>3 DEF Silent, SilenceInv
<1>5. longest' \in Nat /\ longest' >= longest /\ longest' >= silence'
  BY <1>1, <1>2, <1>4 DEF Silent
<1>6. deadline # -1 => silence >= P - deadline
  BY <1>2 DEF SilenceInv
<1>7. CASE backend = "sysdvr" /\ deadline = 1 /\ Return("stalled")
  <2>1. silence' = P
    BY <1>1, <1>4, <1>6, <1>7 DEF SilenceInv
  <2>2. /\ deadline' = 1 /\ deadline' <= P' /\ P' = P
        /\ longest' >= P
    BY <1>1, <1>2, <1>5, <1>7, <2>1 DEF Return
  <2>3. longest' >= P - deadline' /\ silence' >= P - deadline'
    BY <1>1, <1>5, <2>1, <2>2
  <2> QED
    BY <1>2, <1>4, <1>7, <2>2, <2>3 DEF SilenceInv
<1>8. CASE /\ deadline' = IF deadline > 0 THEN deadline - 1 ELSE deadline
           /\ ~(backend = "sysdvr" /\ deadline = 1)
           /\ UNCHANGED result
  <2>1. P' = P /\ result' # "stalled"
    BY <1>2, <1>8
  <2>2. deadline' <= P /\ (deadline' = -1 <=> deadline = -1)
    BY <1>1, <1>8 DEF SilenceInv
  <2>3. deadline # -1 => silence' >= P - deadline'
    BY <1>1, <1>4, <1>6, <1>8 DEF SilenceInv
  <2>4. deadline # -1 => longest' >= P - deadline'
    BY <1>1, <1>4, <1>5, <1>8, <2>3
  <2>5. backend = "sysdvr" => deadline' >= 1
    BY <1>1, <1>8 DEF SilenceInv
  <2> QED
    BY <1>2, <1>4, <2>1, <2>2, <2>3, <2>4, <2>5 DEF SilenceInv
<1> QED
  BY <1>7, <1>8 DEF Turn

(* Bytes that are sent break the silence, and are then to be read. *)
LEMMA SilenceSent ==
    ASSUME TypeOK, FrameInv, SilenceInv, NEW n, n \in Nat \ {0},
           Begin(n) \/ Continue(n)
    PROVE  SilenceInv'
<1>1. /\ UNCHANGED <<backend, stage, pc, at, done, deadline, result, longest>>
      /\ silence' = 0
  BY SenderFrame DEF readVars
<1>2. at' # out' /\ Patience[backend] \in Nat
  BY <1>1, SentKeeps, Numbers DEF FrameInv, TypeOK
<1> QED
  BY <1>1, <1>2 DEF SilenceInv

(* A deadline is set afresh, or taken away. *)
LEMMA SilenceFresh ==
    ASSUME TypeOK, SilenceInv,
           UNCHANGED <<backend, result, silence, longest>>,
           \/ deadline' = Fresh
           \/ deadline' = Patience[backend] /\ (stage' = "payload" \/ done' > 0)
    PROVE  SilenceInv'
<1>1. /\ Patience[backend] \in Nat \ {0} /\ silence \in Nat /\ longest \in Nat
      /\ backend \in {"sysdvr", "frametap"}
  BY Numbers DEF TypeOK, Backends
<1>2. CASE deadline' = -1 /\ backend = "frametap"
  BY <1>1, <1>2 DEF SilenceInv
<1>3. CASE deadline' = Patience[backend] /\
           (backend = "sysdvr" \/ stage' = "payload" \/ done' > 0)
  BY <1>1, <1>3 DEF SilenceInv
<1> QED
  BY <1>1, <1>2, <1>3 DEF Fresh

LEMMA SilenceNext ==
    ASSUME TypeOK, SendInv, FrameInv, SilenceInv, [Next]_vars
    PROVE  SilenceInv'
<1>0. /\ Patience[backend] \in Nat \ {0} /\ silence \in Nat /\ longest \in Nat
      /\ deadline \in {-1} \cup Nat /\ done \in Nat
      /\ backend \in {"sysdvr", "frametap"}
  BY Numbers DEF TypeOK, Backends
<1>1. ASSUME NEW n \in 1..HeaderSize, Begin(n) PROVE SilenceInv'
  BY <1>1, SilenceSent, Numbers
<1>2. ASSUME NEW n \in 1..(HeaderSize + MaxLen), Continue(n)
      PROVE  SilenceInv'
  BY <1>2, SilenceSent, ReadAssumption
<1>3. CASE Hangup \/ Stop
  BY <1>3 DEF Hangup, Stop, readVars, histVars, SilenceInv
<1>4. CASE Test
  <2>1. /\ UNCHANGED <<backend, out, stage, at, done, silence, longest>>
        /\ result = "reading" /\ pc = "test"
    BY <1>4 DEF Test, Return, sendVars, histVars
  <2>2. CASE Return("end") \/ Return("failure")
    BY <2>1, <2>2 DEF Return, SilenceInv
  <2>3. CASE Return("stalled") /\ Due = 0
    <3>1. deadline = 0
      BY <1>0, <2>3 DEF Due
    <3>2. longest >= Patience[backend]
      BY <1>0, <3>1 DEF SilenceInv
    <3> QED
      BY <2>1, <2>3, <3>2 DEF Return, SilenceInv
  <2>4. CASE deadline' = Due /\ pc' = "wait" /\ UNCHANGED result
    <3>1. CASE Due = deadline
      BY <2>1, <2>4, <3>1 DEF SilenceInv
    <3>2. CASE Due = Patience[backend] /\ (stage = "payload" \/ done > 0)
      BY <2>1, <2>4, <3>2, SilenceFresh
    <3> QED
      BY <3>1, <3>2 DEF Due
  <2> QED
    BY <1>4, <2>2, <2>3, <2>4 DEF Test
<1>5. CASE Interrupted
  <2>1. CASE backend = "sysdvr" /\ deadline' = Fresh
    BY <1>5, <2>1, SilenceFresh DEF Interrupted, sendVars, histVars
  <2>2. CASE deadline' = deadline
    BY <1>5, <2>2 DEF Interrupted, sendVars, histVars, Entry, SilenceInv
  <2> QED
    BY <1>5, <2>1, <2>2 DEF Interrupted
<1>6. CASE Eof \/ Reset
  BY <1>6 DEF Eof, Reset, Return, sendVars, histVars, SilenceInv
<1>7. CASE Judge
  <2>1. CASE Return("failure")
    BY <1>7, <2>1 DEF Judge, Return, sendVars, histVars, SilenceInv
  <2>2. CASE deadline' = Fresh /\ UNCHANGED result
    BY <1>7, <2>2, SilenceFresh DEF Judge, sendVars, histVars
  <2> QED
    BY <1>7, <2>1, <2>2 DEF Judge, Give
<1>8. ASSUME NEW n \in 1..(HeaderSize + MaxLen), Recv(n) PROVE SilenceInv'
  <2>1. UNCHANGED <<backend, result, silence, longest>>
    BY <1>8 DEF Recv, sendVars
  <2>2. n \in Nat \ {0}
    BY ReadAssumption
  <2>3. CASE done' = done + n /\ deadline' = Extended
    <3>1. done' > 0
      BY <1>0, <2>2, <2>3
    <3> QED
      BY <2>1, <2>3, <3>1, SilenceFresh DEF Extended
  <2>4. CASE /\ stage = "header" /\ done' = done + n /\ pc' = "judge"
             /\ UNCHANGED <<stage, deadline>>
    <3>1. done' > 0
      BY <1>0, <2>2, <2>4
    <3> QED
      BY <2>1, <2>4, <3>1 DEF SilenceInv
  <2>5. CASE Give
    BY <2>1, <2>5, SilenceFresh DEF Give
  <2> QED
    BY <1>8, <2>3, <2>4, <2>5 DEF Recv
<1>9. CASE UNCHANGED vars
  BY <1>9 DEF vars, sendVars, readVars, histVars, SilenceInv
<1> QED
  BY <1>1, <1>2, <1>3, <1>4, <1>5, <1>6, <1>7, <1>8, <1>9, SilenceTurn
  DEF Next, Reader, Returned

LEMMA StopNext ==
    ASSUME TypeOK, StopInv, [Next]_vars
    PROVE  StopInv'
<1>0. late \in Nat /\ backend \in {"sysdvr", "frametap"}
  BY DEF TypeOK, Backends
<1>1. ASSUME NEW n, Begin(n) \/ Continue(n) PROVE StopInv'
  BY <1>1, SenderFrame DEF readVars, StopInv
<1>2. CASE Hangup \/ Stop
  BY <1>0, <1>2 DEF Hangup, Stop, readVars, histVars, StopInv
<1>3. CASE Test
  <2>1. /\ pc = "test" /\ UNCHANGED <<backend, running, late>>
        /\ stage \in {"header", "payload"} /\ running \in BOOLEAN
    BY <1>3 DEF Test, sendVars, histVars, TypeOK
  <2>2. pc' = pc \/ running
    BY <1>3, <2>1 DEF Test, Return
  <2> QED
    BY <1>0, <2>1, <2>2 DEF StopInv
<1>4. CASE Turn \/ Interrupted \/ Eof \/ Reset
  BY <1>4 DEF Turn, Interrupted, Eof, Reset, Return, Entry, sendVars,
              histVars, StopInv
<1>5. CASE Judge
  BY <1>5 DEF Judge, Give, Return, Entry, sendVars, histVars, StopInv
<1>6. ASSUME NEW n \in 1..(HeaderSize + MaxLen), Recv(n) PROVE StopInv'
  <2>1. /\ pc = "wait" /\ UNCHANGED <<backend, running>>
        /\ late' = IF running THEN late ELSE late + 1
    BY <1>6 DEF Recv, sendVars
  <2>2. pc' = Entry \/ pc' = "judge"
    BY <1>6 DEF Recv, Give, Again
  <2>3. late = 0
    BY <1>0, <2>1 DEF StopInv
  <2> QED
    BY <1>0, <2>1, <2>2, <2>3 DEF StopInv, Entry
<1>7. CASE UNCHANGED vars
  BY <1>7 DEF vars, sendVars, readVars, histVars, StopInv
<1> QED
  BY <1>1, <1>2, <1>3, <1>4, <1>5, <1>6, <1>7 DEF Next, Reader, Returned

LEMMA Inductive == Spec => []IInv
<1>1. Init => IInv
  <2> SUFFICES ASSUME Init PROVE IInv
    OBVIOUS
  <2>0. /\ backend \in Backends /\ Patience[backend] \in Nat \ {0}
        /\ HeaderSize \in Nat \ {0}
    BY ReadAssumption DEF Init
  <2>1. TypeOK
    BY <2>0 DEF Init, TypeOK, Entry, Fresh
  <2>2. Len(packets) = 0 /\ Edge = 0
    BY DEF Init, Edge
  <2>3. SendInv /\ FrameInv
    BY <2>0, <2>2 DEF Init, SendInv, FrameInv, Start, Entry
  <2>4. SilenceInv /\ StopInv
    BY <2>0 DEF Init, SilenceInv, StopInv, Fresh, Backends
  <2> QED
    BY <2>1, <2>3, <2>4 DEF IInv
<1>2. IInv /\ [Next]_vars => IInv'
  BY TypeNext, SendNext, FrameNext, SilenceNext, StopNext DEF IInv
<1> QED
  BY <1>1, <1>2, PTL DEF Spec

(* Every variable keeps its type, whatever is sent. *)
THEOREM TypeCorrect == Spec => []TypeOK
<1>1. IInv => TypeOK
  BY DEF IInv
<1> QED
  BY <1>1, Inductive, PTL

(* No reader gives up a sender that was never silent for its patience.     *)
THEOREM SilenceCorrect == Spec => []StallMeansSilence
<1>1. IInv => StallMeansSilence
  BY DEF IInv, SilenceInv, StallMeansSilence
<1> QED
  BY <1>1, Inductive, PTL

(* After a stop, one more recv at most. *)
THEOREM StopCorrect == Spec => []StopNoticed
<1>1. IInv => StopNoticed
  BY DEF IInv, StopInv, StopNoticed
<1> QED
  BY <1>1, Inductive, PTL

-----------------------------------------------------------------------------
(***************************************************************************)
(* How many of its own steps a Frame Tap reader is from its return.        *)
(***************************************************************************)

StepsLeft ==
    CASE result # "reading"                   -> 0
      [] result = "reading" /\ pc = "test"    -> 1
      [] result = "reading" /\ pc = "judge"   -> 2
      [] result = "reading" /\ pc = "wait"    -> 3

(* Once running has been cleared, every step of a Frame Tap reader brings  *)
(* it nearer to its return, of at most three: the wait or the recv it is   *)
(* in, the judgement of a header, the test.  It waits for no further       *)
(* silence and begins no further packet, whatever the sender does.         *)
StopIsNear ==
    [][backend = "frametap" /\ ~running /\ Reader
         => StepsLeft' < StepsLeft]_vars

LEMMA ReaderNearer ==
    ASSUME TypeOK, backend = "frametap", ~running, Reader
    PROVE  StepsLeft' < StepsLeft
<1> USE DEF Return, StepsLeft
<1>1. Entry = "test" /\ Again = "test"
  BY DEF Entry, Again
<1>2. CASE Test
  <2>1. Return("end") \/ Return("failure")
    BY <1>2 DEF Test, TypeOK
  <2> QED
    BY <1>2, <2>1 DEF Test
<1>3. CASE Turn
  <2>1. pc' = "test" /\ result' = result
    BY <1>1, <1>3 DEF Turn
  <2> QED
    BY <1>3, <2>1 DEF Turn
<1>4. CASE Interrupted
  BY <1>1, <1>4 DEF Interrupted
<1>5. CASE Eof \/ Reset
  BY <1>5 DEF Eof, Reset
<1>6. CASE Judge
  BY <1>1, <1>6 DEF Judge, Give
<1>7. ASSUME NEW n \in 1..(HeaderSize + MaxLen), Recv(n)
      PROVE  StepsLeft' < StepsLeft
  <2>1. pc' \in {"test", "judge"} /\ result' = result
    BY <1>1, <1>7 DEF Recv, Give
  <2> QED
    BY <1>7, <2>1 DEF Recv
<1> QED
  BY <1>2, <1>3, <1>4, <1>5, <1>6, <1>7 DEF Reader

(* A stopped Frame Tap read returns within three of its own steps.         *)
THEOREM StopIsNearCorrect == Spec => StopIsNear
<1>1. TypeOK /\ [Next]_vars
        => [backend = "frametap" /\ ~running /\ Reader
              => StepsLeft' < StepsLeft]_vars
  BY ReaderNearer
<1> QED
  BY <1>1, TypeCorrect, PTL DEF Spec, StopIsNear

-----------------------------------------------------------------------------
(* The header rules against their meaning: INPUT aside, a header that is   *)
(* let through is a status, sound, or a frame with any of its three marks, *)
(* and the caller's three tests tell these apart.                          *)
THEOREM HeaderRules ==
    ASSUME NEW raw \in SUBSET Flags
    PROVE  /\ ValidFlags(raw) <=>
                \/ Typed(raw) = {"AUDIO", "STATUS"}
                \/ Typed(raw) = {"AUDIO"}
                \/ /\ "VIDEO" \in raw
                   /\ Typed(raw) \subseteq {"VIDEO", "KEY", "CROP", "CROP_MID"}
           /\ ValidFlags(raw) =>
                \/ /\ IsStatus(Typed(raw)) /\ ~IsAudio(Typed(raw))
                   /\ ~IsVideo(Typed(raw))
                \/ /\ IsAudio(Typed(raw)) /\ ~IsStatus(Typed(raw))
                   /\ ~IsVideo(Typed(raw))
                \/ /\ IsVideo(Typed(raw)) /\ ~IsStatus(Typed(raw))
                   /\ ~IsAudio(Typed(raw))
BY DEF ValidFlags, Typed, IsStatus, IsAudio, IsVideo, Flags

-----------------------------------------------------------------------------
(***************************************************************************)
(* The refinement.  That a packet given was sent whole, and that an end    *)
(* leaves nothing, both come from the reader being where it believes to    *)
(* be on the stream.                                                       *)
(***************************************************************************)

LEMMA GivenWasSent ==
    ASSUME TypeOK, SendInv, given + 1 \in 1..Len(packets),
           End(packets[given + 1]) <= out
    PROVE  given < Whole
<1> USE Numbers
<1>1. given \in Nat /\ out \in Nat /\ Len(packets) \in Nat /\ Edge \in Nat
  BY DEF TypeOK
<1>2. CASE given + 1 = Len(packets)
  <2>1. out = Edge
    BY <1>1, <1>2 DEF SendInv, Edge
  <2> QED
    BY <1>1, <1>2, <2>1 DEF Whole
<1>3. CASE given + 1 < Len(packets)
  BY <1>1, <1>3 DEF Whole
<1> QED
  BY <1>1, <1>2, <1>3

LEMMA EndLeavesNothing ==
    ASSUME TypeOK, SendInv, FrameInv, at = out, AtBoundary, pc = "wait"
    PROVE  out = Edge /\ given = Whole
<1> USE Numbers
<1>1. /\ given \in Nat /\ out \in Nat /\ Len(packets) \in Nat /\ Edge \in Nat
      /\ given <= Len(packets)
  BY DEF TypeOK, FrameInv
<1>2. at = Start(given + 1) + 0
  BY DEF FrameInv, AtBoundary
<1>3. CASE given = Len(packets)
  <2>1. Start(given + 1) = Edge
    BY <1>1, <1>3 DEF Start
  <2> QED
    BY <1>1, <1>2, <1>3, <2>1 DEF Whole
<1>4. CASE given < Len(packets)
  <2>1. given + 1 \in 1..Len(packets) /\ packets # <<>>
    BY <1>1, <1>4
  <2>2. /\ packets[given + 1].start \in Nat /\ packets[given + 1].len \in Nat
        /\ packets[Len(packets)].start \in Nat
        /\ packets[Len(packets)].start < out
    BY <2>1 DEF SendInv
  <2>3. out = packets[given + 1].start
    BY <1>2, <2>1, <2>2 DEF Start
  <2>4. given + 1 < Len(packets)
    BY <1>1, <2>1, <2>2, <2>3
  <2>5. End(packets[given + 1]) <= packets[Len(packets)].start
    BY <2>1, <2>4 DEF SendInv
  <2>6. End(packets[given + 1]) >= packets[given + 1].start
    BY <2>2 DEF End
  <2>7. End(packets[given + 1]) \in Nat
    BY <2>1
  <2> QED
    BY <1>1, <2>2, <2>3, <2>5, <2>6, <2>7
<1> QED
  BY <1>1, <1>3, <1>4

LEMMA StreamKept ==
    ASSUME UNCHANGED <<packets, out, line, running, given, result>>
    PROVE  UNCHANGED Stream!vars
BY DEF Stream!vars, Whole, Edge, End

LEMMA StreamInit == Init => Stream!Init
<1> SUFFICES ASSUME Init PROVE Stream!Init
  OBVIOUS
<1>1. Len(packets) = 0 /\ Edge = 0 /\ out = 0
  BY DEF Init, Edge
<1> QED
  BY <1>1 DEF Init, Stream!Init, Whole

LEMMA StepSend ==
    ASSUME TypeOK, SendInv, NEW n, n \in Nat \ {0}, Begin(n) \/ Continue(n)
    PROVE  [Stream!Next]_(Stream!vars)
<1> USE Numbers
<1>1. UNCHANGED <<line, running, given, result>> /\ line = "open"
  BY SenderFrame DEF readVars, Begin, Continue
<1>2. out \in Nat /\ Len(packets) \in Nat
  BY DEF TypeOK
<1>3. CASE Begin(n)
  <2>1. /\ out = Edge /\ Len(packets') = Len(packets) + 1
        /\ Whole = Len(packets)
    BY <1>3, BeginPlaces DEF Whole
  <2>2. \/ (out' # Edge') = TRUE /\ Whole' = Whole
        \/ (out' # Edge') = FALSE /\ Whole' = Whole + 1
    BY <1>2, <2>1 DEF Whole
  <2>3. (out # Edge) = FALSE
    BY <2>1
  <2> QED
    BY <1>1, <2>2, <2>3 DEF Stream!Next, Stream!Send
<1>4. CASE Continue(n)
  <2>1. /\ out' = out + n /\ out + n <= Edge /\ UNCHANGED packets
        /\ Edge' = Edge
    BY <1>4 DEF Continue, Edge, End
  <2>2. out # Edge /\ Whole = Len(packets) - 1
    BY <1>2, <2>1 DEF Whole
  <2>3. CASE out' = Edge
    <3>0. out' = Edge' /\ Whole' = Len(packets)
      BY <2>1, <2>3 DEF Whole
    <3>a. Whole + 1 = Len(packets)
      BY <1>2, <2>2
    <3>b. (out' # Edge') = FALSE
      BY <3>0
    <3>1. (out' # Edge') = FALSE /\ Whole' = Whole + 1
      BY <3>0, <3>a, <3>b
    <3> QED
      BY <1>1, <3>1 DEF Stream!Next, Stream!Send
  <2>4. CASE out' # Edge
    <3>1. (out' # Edge') = (out # Edge) /\ Whole' = Whole
      BY <2>1, <2>2, <2>4 DEF Whole
    <3> QED
      BY <1>1, <3>1 DEF Stream!vars
  <2> QED
    BY <2>3, <2>4
<1> QED
  BY <1>3, <1>4

(* What the reader answers, the sender being left alone.                   *)
LEMMA StepReturn ==
    ASSUME UNCHANGED sendVars, UNCHANGED given, result = "reading",
           \/ result' \in {"reading", "failure", "stalled"}
           \/ /\ result' = "end"
              /\ ~running \/ (line # "open" /\ out = Edge /\ given = Whole)
    PROVE  [Stream!Next]_(Stream!vars)
<1>1. /\ UNCHANGED <<line, running, given>> /\ Whole' = Whole /\ Edge' = Edge
      /\ out' = out
  BY DEF sendVars, Whole, Edge, End
<1>2. CASE result' = "reading"
  BY <1>2, StreamKept DEF sendVars
<1>3. CASE result' \in {"failure", "stalled"}
  BY <1>1, <1>3 DEF Stream!Next, Stream!Fail
<1>4. CASE /\ result' = "end"
           /\ ~running \/ (line # "open" /\ out = Edge /\ given = Whole)
  BY <1>1, <1>4 DEF Stream!Next, Stream!End
<1> QED
  BY <1>2, <1>3, <1>4

LEMMA StepGive ==
    ASSUME UNCHANGED sendVars, given' = given + 1, given < Whole,
           result = "reading", UNCHANGED result
    PROVE  [Stream!Next]_(Stream!vars)
<1>1. UNCHANGED <<line, running>> /\ Whole' = Whole /\ Edge' = Edge /\ out' = out
  BY DEF sendVars, Whole, Edge, End
<1> QED
  BY <1>1 DEF Stream!Next, Stream!Give

LEMMA StepReader ==
    ASSUME IInv, IInv', Reader
    PROVE  [Stream!Next]_(Stream!vars)
<1>0. /\ TypeOK /\ SendInv /\ FrameInv /\ UNCHANGED sendVars
      /\ result = "reading" /\ given \in Nat
  BY ReaderFrame
  DEF IInv, TypeOK, Reader, Test, Turn, Interrupted, Eof, Reset, Judge, Recv
<1>1. CASE Test
  <2>1. /\ UNCHANGED given
        /\ \/ result' \in {"reading", "failure", "stalled"}
           \/ result' = "end" /\ ~running
    BY <1>1 DEF Test, Return
  <2> QED
    BY <1>0, <2>1, StepReturn
<1>2. CASE Turn \/ Interrupted \/ Reset
  BY <1>0, <1>2, StepReturn DEF Turn, Interrupted, Reset, Return
<1>3. CASE Eof
  <2>1. CASE AtBoundary
    BY <1>0, <1>3, <2>1, EndLeavesNothing, StepReturn DEF Eof, Return
  <2>2. CASE ~AtBoundary
    BY <1>0, <1>3, <2>2, StepReturn DEF Eof, Return
  <2> QED
    BY <2>1, <2>2
<1>4. ASSUME Give, at' <= out, UNCHANGED result,
             given + 1 \in 1..Len(packets), at' = End(packets[given + 1])
      PROVE  [Stream!Next]_(Stream!vars)
  BY <1>0, <1>4, GivenWasSent, StepGive DEF Give
<1>5. CASE Judge
  <2>1. /\ pc = "judge" /\ stage = "header" /\ done = HeaderSize
        /\ at = Start(given + 1) + done /\ at <= out
    BY <1>0, <1>5 DEF Judge, FrameInv, TypeOK
  <2>2. given + 1 \in 1..Len(packets)
    BY <1>0, <2>1, Inside, Numbers
  <2>3. CASE packets[given + 1].len = 0 /\ Give /\ UNCHANGED <<at, result>>
    <3>1. at' = End(packets[given + 1])
      BY <1>0, <2>1, <2>2, <2>3, NextStart, Numbers DEF End
    <3> QED
      BY <1>4, <2>1, <2>2, <2>3, <3>1
  <2>4. CASE UNCHANGED given /\ result' \in {"reading", "failure"}
    BY <1>0, <2>4, StepReturn
  <2> QED
    BY <1>0, <1>5, <2>3, <2>4 DEF Judge, Return
<1>6. ASSUME NEW n \in 1..(HeaderSize + MaxLen), Recv(n)
      PROVE  [Stream!Next]_(Stream!vars)
  <2>1. UNCHANGED result /\ at' <= out /\ at' = at + n /\ n \in Nat \ {0}
    BY <1>6, ReadAssumption DEF Recv
  <2>2. CASE UNCHANGED given
    BY <1>0, <2>1, <2>2, StepReturn
  <2>3. CASE done + n >= Size /\ stage = "payload" /\ Give
    <3>1. /\ given + 1 \in 1..Len(packets)
          /\ at = packets[given + 1].start + HeaderSize + done
          /\ Size = packets[given + 1].len
          /\ Size \in Nat /\ done \in Nat
      BY <1>0, <2>3, Numbers DEF FrameInv, Size, TypeOK
    <3>2. n <= Size - done
      BY <1>6 DEF Recv, Wanted
    <3>3. done + n = Size
      <4> HIDE DEF Size
      <4> QED
        BY <2>1, <2>3, <3>1, <3>2, Exact
    <3>4. at' = End(packets[given + 1])
      <4>1. /\ HeaderSize \in Nat /\ packets[given + 1].start \in Nat
            /\ packets[given + 1].len \in Nat
        BY <1>0, <3>1, Numbers
      <4>2. \A a, b, c, d, m \in Nat :
               d + m = c => ((a + b) + d) + m = (a + b) + c
        OBVIOUS
      <4>3. done + n = packets[given + 1].len /\ n \in Nat /\ done \in Nat
        BY <2>1, <3>1, <3>3
      <4>4. at' = ((packets[given + 1].start + HeaderSize) + done) + n
        BY <2>1, <3>1
      <4> QED
        BY <4>1, <4>2, <4>3, <4>4 DEF End
    <3> QED
      BY <1>4, <2>1, <2>3, <3>1, <3>4
  <2> QED
    BY <1>6, <2>2, <2>3 DEF Recv
<1> QED
  BY <1>1, <1>2, <1>3, <1>5, <1>6 DEF Reader

LEMMA StreamNext == IInv /\ IInv' /\ [Next]_vars => [Stream!Next]_(Stream!vars)
<1> SUFFICES ASSUME IInv, IInv', [Next]_vars
             PROVE  [Stream!Next]_(Stream!vars)
  OBVIOUS
<1>1. ASSUME NEW n \in 1..HeaderSize, Begin(n)
      PROVE  [Stream!Next]_(Stream!vars)
  BY <1>1, StepSend, Numbers DEF IInv
<1>2. ASSUME NEW n \in 1..(HeaderSize + MaxLen), Continue(n)
      PROVE  [Stream!Next]_(Stream!vars)
  BY <1>2, StepSend, ReadAssumption DEF IInv
<1>3. CASE Hangup
  <2>1. /\ (line # "open") = FALSE /\ (line' # "open") = TRUE
        /\ Whole' = Whole /\ Edge' = Edge
        /\ UNCHANGED <<out, running, given, result>>
    BY <1>3 DEF Hangup, readVars, Whole, Edge, End
  <2> QED
    BY <2>1 DEF Stream!Next, Stream!Close
<1>4. CASE Stop
  <2>1. /\ (~running) = FALSE /\ (~running') = TRUE
        /\ Whole' = Whole /\ Edge' = Edge
        /\ UNCHANGED <<out, line, given, result>>
    BY <1>4 DEF Stop, readVars, Whole, Edge, End
  <2> QED
    BY <2>1 DEF Stream!Next, Stream!Stop
<1>5. CASE UNCHANGED vars
  BY <1>5, StreamKept DEF vars, sendVars, readVars
<1> QED
  BY <1>1, <1>2, <1>3, <1>4, <1>5, StepReader DEF Next, Returned

(* Both readers give their callers the packets that were sent, whole and   *)
(* in order, and report an end only when nothing is left.                  *)
THEOREM ReadersRefineStream == Spec => ImplementsPacketStream
<1>1. Spec => Stream!Init /\ [][Stream!Next]_(Stream!vars)
  BY StreamInit, StreamNext, Inductive, PTL DEF Spec
<1> QED
  BY <1>1 DEF ImplementsPacketStream, Stream!Spec
=============================================================================
