----------------------- MODULE CapturePipelineProofs ------------------------
(***************************************************************************)
(* For every capacity of the channel and of libpcap's buffer: nothing is   *)
(* lost or reordered between the capture and the segmenter, a capture that *)
(* ends is drained, and an exit leaves nothing open.                       *)
(*                                                                         *)
(* Neither property is inductive. NoLossInside needs to know that a thread *)
(* holds a packet only where it works on one, or an append would not come  *)
(* last; ExitIsClean needs what the main task has established at each of   *)
(* the points between the end of its loop and the exit (Ending).           *)
(***************************************************************************)
EXTENDS CapturePipeline, SequenceTheorems, TLAPS

LoopPoints == {"check", "recv", "process"}

(* The main task holds a packet only while it processes it.                *)
Hands == mainHand # <<>> => mainPc \in {"process", "killed"}

(* What the end of the main task has established, point by point. What     *)
(* finalize finds closed stays closed.                                     *)
Ending ==
    /\ mainPc \in {"join", "finalize", "reap", "exit"} => flag
    /\ mainPc \in {"finalize", "reap", "exit"} => capPc = "ended"
    /\ mainPc \in {"reap", "exit"} => open = 0
    /\ mainPc = "exit" => consPc = "ended"

(* When the loop has ended for the end of the channel, no packet is on its *)
(* way, and there will be none.                                            *)
Drained ==
    endedBy = "disconnected" =>
        /\ mainPc \notin LoopPoints
        /\ capPc = "ended" /\ chan = <<>> /\ mainHand = <<>>

IInv == TypeOK /\ NoLossInside /\ Hands /\ Ending /\ Drained

-----------------------------------------------------------------------------
(* Facts about sequences.                                                  *)

(* A hand is empty or holds one packet.                                    *)
LEMMA HandIsSeq ==
    ASSUME NEW S, NEW h \in {<<>>} \cup {<<x>> : x \in S}
    PROVE  h \in Seq(S) /\ Len(h) <= 1
  <1>1. CASE h = <<>>
    BY <1>1, EmptySeq
  <1>2. CASE \E x \in S : h = <<x>>
    <2>1. PICK x \in S : h = <<x>>
      BY <1>2
    <2>2. <<x>> \in Seq(S) /\ Len(<<x>>) = 1
      OBVIOUS
    <2>3. QED BY <2>1, <2>2
  <1>3. QED BY <1>1, <1>2

(* A sequence is its head, then its tail.                                  *)
LEMMA HeadThenTail ==
    ASSUME NEW S, NEW s \in Seq(S), s # <<>>
    PROVE  /\ Head(s) \in S /\ Tail(s) \in Seq(S) /\ <<Head(s)>> \in Seq(S)
           /\ Len(Tail(s)) = Len(s) - 1 /\ Len(s) \in Nat
           /\ <<Head(s)>> \o Tail(s) = s
  <1>1. /\ Head(s) \in S /\ Tail(s) \in Seq(S) /\ Len(Tail(s)) = Len(s) - 1
        /\ \A i \in 1..Len(Tail(s)) : Tail(s)[i] = s[i + 1]
    BY HeadTailProperties
  <1>2. Len(s) \in Nat \ {0}
    BY EmptySeq
  <1>3. <<Head(s)>> \in Seq(S) /\ Len(<<Head(s)>>) = 1 /\ <<Head(s)>>[1] = s[1]
    BY <1>1, <1>2
  <1>4. DEFINE c == <<Head(s)>> \o Tail(s)
  <1>5. /\ c \in Seq(S) /\ Len(c) = 1 + Len(Tail(s))
        /\ \A i \in 1..(1 + Len(Tail(s))) :
              c[i] = IF i <= 1 THEN <<Head(s)>>[i] ELSE Tail(s)[i - 1]
    BY <1>1, <1>3, ConcatProperties
  <1>6. c = s
    <2>1. Len(c) = Len(s)
      BY <1>1, <1>2, <1>5
    <2>2. ASSUME NEW i \in 1..Len(c) PROVE c[i] = s[i]
      <3>1. CASE i = 1
        BY <1>2, <1>3, <1>5, <2>1, <3>1
      <3>2. CASE i # 1
        BY <1>1, <1>2, <1>5, <2>1, <3>2
      <3>3. QED BY <3>1, <3>2
    <2>3. HIDE DEF c
    <2>4. QED BY <1>5, <2>1, <2>2, SeqEqual
  <1>7. QED BY <1>1, <1>2, <1>3, <1>6

-----------------------------------------------------------------------------
(* The types.                                                              *)

LEMMA TypeCapture ==
    ASSUME TypeOK, Capture \/ CapError PROVE TypeOK'
  <1> USE DEF netVars, ctlVars, mainVars, Packets, AtMostOne
  <1>1. CASE CapCheck
    BY <1>1 DEF TypeOK, CapCheck
  <1>2. CASE CapNext
    <2>1. /\ Head(kernel) \in Packets /\ Tail(kernel) \in Seq(Packets)
          /\ Len(Tail(kernel)) = Len(kernel) - 1 /\ Len(kernel) \in Nat
      BY <1>2, HeadThenTail DEF CapNext, TypeOK
    <2>2. Append(captured, Head(kernel)) \in Seq(Packets)
      BY <2>1 DEF TypeOK
    <2>3. capHand' = <<Head(kernel)>> /\ capHand' # <<>> /\ capHand' \in AtMostOne
      BY <1>2, <2>1 DEF CapNext
    <2>4. Len(kernel') <= KernelCap
      BY <1>2, <2>1, CaptureAssumption DEF CapNext, TypeOK
    <2>5. QED BY <1>2, <2>1, <2>2, <2>3, <2>4 DEF TypeOK, CapNext
  <1>3. CASE CapSend
    <2>1. capHand \in Seq(Packets) /\ Len(capHand) <= 1
      BY HandIsSeq DEF TypeOK
    <2>2. /\ chan \o capHand \in Seq(Packets)
          /\ Len(chan \o capHand) = Len(chan) + Len(capHand)
      BY <2>1, ConcatProperties DEF TypeOK
    <2>3. Len(chan') <= ChannelCap
      BY <1>3, <2>1, <2>2, CaptureAssumption DEF TypeOK, CapSend
    <2>4. QED BY <1>3, <2>2, <2>3 DEF TypeOK, CapSend
  <1>4. CASE CapError
    BY <1>4 DEF TypeOK, CapError
  <1>5. QED BY <1>1, <1>2, <1>3, <1>4 DEF Capture

LEMMA TypeMain ==
    ASSUME TypeOK, Main PROVE TypeOK'
  <1> USE DEF netVars, ctlVars, capVars, Packets, AtMostOne
  <1>1. CASE MainCheck
    BY <1>1 DEF TypeOK, MainCheck
  <1>2. CASE MainRecv
    <2>1. /\ Head(chan) \in Packets /\ Tail(chan) \in Seq(Packets)
          /\ Len(Tail(chan)) = Len(chan) - 1 /\ Len(chan) \in Nat
      BY <1>2, HeadThenTail DEF MainRecv, TypeOK
    <2>2. Len(chan') <= ChannelCap
      BY <1>2, <2>1, CaptureAssumption DEF MainRecv, TypeOK
    <2>3. QED BY <1>2, <2>1, <2>2 DEF TypeOK, MainRecv
  <1>3. CASE MainDisconnected
    BY <1>3 DEF TypeOK, MainDisconnected
  <1>4. CASE MainProcess
    <2>1. mainHand \in Seq(Packets)
      BY HandIsSeq DEF TypeOK
    <2>2. processed \o mainHand \in Seq(Packets)
      BY <2>1 DEF TypeOK
    <2>3. open' \in Nat
      BY <1>4 DEF MainProcess, TypeOK
    <2>4. QED BY <1>4, <2>2, <2>3 DEF TypeOK, MainProcess
  <1>5. CASE MainStop
    BY <1>5 DEF TypeOK, MainStop, Raise
  <1>6. CASE MainJoin \/ MainFinalize \/ MainReap
    BY <1>6 DEF TypeOK, MainJoin, MainFinalize, MainReap
  <1>7. QED BY <1>1, <1>2, <1>3, <1>4, <1>5, <1>6 DEF Main

LEMMA TypeStep == TypeOK /\ [Next]_vars => TypeOK'
  <1> SUFFICES ASSUME TypeOK, [Next]_vars PROVE TypeOK'
    OBVIOUS
  <1> USE DEF netVars, ctlVars, capVars, mainVars, Packets, AtMostOne
  <1>1. CASE Consumer
    BY <1>1 DEF TypeOK, Consumer
  <1>2. CASE CtrlC
    BY <1>2, CaptureAssumption DEF TypeOK, CtrlC
  <1>3. CASE Arrive
    <2>1. arrived' \in 0..MaxPackets /\ arrived' \in Packets
      BY <1>3, CaptureAssumption DEF TypeOK, Arrive
    <2>2. CASE Len(kernel) < KernelCap
      <3>1. /\ kernel' = Append(kernel, arrived') /\ kernel' \in Seq(Packets)
            /\ Len(kernel') = Len(kernel) + 1 /\ Len(kernel) \in Nat
        BY <1>3, <2>1, <2>2 DEF TypeOK, Arrive
      <3>2. QED BY <1>3, <2>1, <2>2, <3>1, CaptureAssumption DEF TypeOK, Arrive
    <2>3. CASE ~(Len(kernel) < KernelCap)
      BY <1>3, <2>1, <2>3 DEF TypeOK, Arrive
    <2>4. QED BY <2>2, <2>3
  <1>4. CASE Expire
    BY <1>4 DEF TypeOK, Expire
  <1>5. CASE UNCHANGED vars
    BY <1>5 DEF TypeOK, vars
  <1>6. QED
    BY <1>1, <1>2, <1>3, <1>4, <1>5, TypeCapture, TypeMain DEF Next, Terminated

-----------------------------------------------------------------------------
(* Nothing is lost inside.                                                 *)

LEMMA LineTypes ==
    ASSUME TypeOK
    PROVE  /\ processed \in Seq(Packets) /\ mainHand \in Seq(Packets)
           /\ chan \in Seq(Packets) /\ capHand \in Seq(Packets)
  <1>1. mainHand \in Seq(Packets) /\ capHand \in Seq(Packets)
    BY HandIsSeq DEF TypeOK, AtMostOne
  <1>2. QED BY <1>1 DEF TypeOK

(* A packet that moves from one place to the next changes nothing.         *)
LEMMA Regroup ==
    ASSUME NEW S, NEW p \in Seq(S), NEW m \in Seq(S), NEW c \in Seq(S), NEW h \in Seq(S)
    PROVE  /\ p \o m \o <<>> \o c \o h = p \o m \o c \o h
           /\ p \o m \o (c \o h) = p \o m \o c \o h
           /\ p \o m \o (c \o h) \in Seq(S)
           /\ p \o <<>> \o (m \o c) \o h = p \o m \o c \o h
  <1>1. /\ p \o m \in Seq(S) /\ c \o h \in Seq(S) /\ m \o c \in Seq(S)
        /\ (p \o m) \o (c \o h) \in Seq(S)
    BY ConcatProperties
  <1>2. (p \o m) \o <<>> = p \o m /\ p \o <<>> = p
    BY <1>1, ConcatEmptySeq
  <1>3. ((p \o m) \o c) \o h = (p \o m) \o (c \o h)
    <2>1. ASSUME NEW pm \in Seq(S) PROVE (pm \o c) \o h = pm \o (c \o h)
      BY ConcatAssociative
    <2>2. QED BY ONLY <1>1, <2>1
  <1>4. (p \o m) \o c = p \o (m \o c)
    BY ConcatAssociative
  <1>5. QED BY <1>1, <1>2, <1>3, <1>4

LEMMA NoLossStep ==
    ASSUME TypeOK, Hands, NoLossInside, [Next]_vars
    PROVE  NoLossInside'
  <1> USE DEF netVars, ctlVars
  <1>1. /\ processed \in Seq(Packets) /\ mainHand \in Seq(Packets)
        /\ chan \in Seq(Packets) /\ capHand \in Seq(Packets)
    BY LineTypes
  <1>2. CASE CapNext
    <2>1. kernel \in Seq(Packets) /\ kernel # <<>>
      BY <1>2 DEF CapNext, TypeOK
    <2>2. Head(kernel) \in Packets /\ captured \in Seq(Packets) /\ capHand = <<>>
      BY <1>2, <2>1, HeadThenTail DEF CapNext, TypeOK
    <2>3. captured' = captured \o <<Head(kernel)>>
      BY <1>2, <2>2, AppendIsConcat DEF CapNext
    <2>4. (processed \o mainHand) \o chan \in Seq(Packets)
      BY <1>1, ConcatProperties
    <2>5. captured = (processed \o mainHand) \o chan
      BY <2>2, <2>4, ConcatEmptySeq DEF NoLossInside
    <2>6. UNCHANGED <<processed, mainHand, chan>> /\ capHand' = <<Head(kernel)>>
      BY <1>2 DEF CapNext, mainVars
    <2>7. QED BY <2>3, <2>5, <2>6 DEF NoLossInside
  <1>3. CASE CapSend
    <2>1. /\ UNCHANGED <<processed, mainHand, captured>>
          /\ chan' = chan \o capHand /\ capHand' = <<>>
      BY <1>3 DEF CapSend, mainVars
    <2>2. /\ processed \o mainHand \o (chan \o capHand)
               = processed \o mainHand \o chan \o capHand
          /\ processed \o mainHand \o (chan \o capHand) \in Seq(Packets)
      BY ONLY <1>1, Regroup, SMTT(30)
    <2>3. processed' \o mainHand' \o chan' \o capHand'
            = processed \o mainHand \o (chan \o capHand)
      BY <2>1, <2>2, ConcatEmptySeq
    <2>4. QED BY <2>1, <2>2, <2>3 DEF NoLossInside
  <1>4. CASE MainRecv
    <2>1. /\ mainHand = <<>> /\ chan # <<>>
          /\ mainHand' = <<Head(chan)>> /\ chan' = Tail(chan)
          /\ UNCHANGED <<processed, capHand, captured>>
      BY <1>4 DEF MainRecv, Hands, capVars
    <2>2. /\ <<Head(chan)>> \o Tail(chan) = chan
          /\ <<Head(chan)>> \in Seq(Packets) /\ Tail(chan) \in Seq(Packets)
      BY <1>1, <2>1, HeadThenTail
    <2>3. processed \o <<>> \o (mainHand' \o chan') \o capHand
            = processed \o mainHand' \o chan' \o capHand
      BY <1>1, <2>1, <2>2, Regroup
    <2>4. QED BY <2>1, <2>2, <2>3 DEF NoLossInside
  <1>5. CASE MainProcess
    <2>1. /\ processed' = processed \o mainHand /\ mainHand' = <<>>
          /\ UNCHANGED <<chan, capHand, captured>>
      BY <1>5 DEF MainProcess, capVars
    <2>2. QED BY <1>1, <2>1, Regroup DEF NoLossInside
  <1>6. CASE UNCHANGED <<processed, mainHand, chan, capHand, captured>>
    BY <1>6 DEF NoLossInside
  <1>7. CapCheck \/ CapError \/ MainCheck \/ MainDisconnected \/ MainStop
        \/ MainJoin \/ MainFinalize \/ MainReap \/ Consumer \/ CtrlC \/ Arrive
        \/ Expire \/ UNCHANGED vars
        => UNCHANGED <<processed, mainHand, chan, capHand, captured>>
    BY DEF CapCheck, CapError, MainCheck, MainDisconnected, MainStop, MainJoin,
           MainFinalize, MainReap, Consumer, CtrlC, Arrive, Expire, vars, mainVars,
           capVars
  <1>8. QED
    BY <1>2, <1>3, <1>4, <1>5, <1>6, <1>7 DEF Next, Capture, Main, Terminated

-----------------------------------------------------------------------------
(* The ends.                                                               *)

LEMMA EndStep ==
    ASSUME TypeOK, Hands, Ending, Drained, [Next]_vars
    PROVE  Hands' /\ Ending' /\ Drained'
  <1> USE DEF Hands, Ending, Drained, LoopPoints, netVars, ctlVars, mainVars, capVars,
              Running
  <1>1. CASE Capture \/ CapError
    BY <1>1 DEF TypeOK, Capture, CapCheck, CapNext, CapSend, CapError
  <1>2. CASE MainCheck \/ MainRecv
    BY <1>2 DEF MainCheck, MainRecv
  <1>3. CASE MainDisconnected
    BY <1>3 DEF MainDisconnected, ChannelEnded
  <1>4. CASE MainProcess
    BY <1>4 DEF MainProcess
  <1>5. CASE MainStop \/ MainJoin
    BY <1>5 DEF MainStop, Raise, MainJoin, Joined
  <1>6. CASE MainFinalize \/ MainReap
    BY <1>6 DEF MainFinalize, MainReap
  <1>7. CASE Consumer \/ CtrlC
    BY <1>7 DEF Consumer, CtrlC
  <1>8. CASE Arrive \/ Expire \/ UNCHANGED vars
    BY <1>8 DEF Arrive, Expire, vars
  <1>9. QED
    BY <1>1, <1>2, <1>3, <1>4, <1>5, <1>6, <1>7, <1>8 DEF Next, Main, Terminated

LEMMA Inductive == Spec => []IInv
  <1>1. Init => IInv
    <2> SUFFICES ASSUME Init PROVE IInv
      OBVIOUS
    <2>1. TypeOK
      <3>1. /\ <<>> \in Seq(Packets) /\ Len(<<>>) = 0
            /\ 0 <= KernelCap /\ 0 <= ChannelCap /\ 0 \in 0..MaxPackets
            /\ 0 \in 0..MaxSignals
        BY CaptureAssumption, EmptySeq
      <3>2. QED BY <3>1 DEF Init, TypeOK, AtMostOne
    <2>2. <<>> \o <<>> = <<>>
      OBVIOUS
    <2>3. NoLossInside
      BY <2>2 DEF Init, NoLossInside
    <2>4. Hands /\ Ending /\ Drained
      BY DEF Init, Hands, Ending, Drained
    <2>5. QED BY <2>1, <2>3, <2>4 DEF IInv
  <1>2. IInv /\ [Next]_vars => IInv'
    BY TypeStep, NoLossStep, EndStep DEF IInv
  <1>3. QED BY <1>1, <1>2, PTL DEF Spec

(* The threads and the channel keep their types, for every capacity.       *)
THEOREM TypeCorrect == Spec => []TypeOK
  <1>1. IInv => TypeOK
    BY DEF IInv
  <1>2. QED BY <1>1, Inductive, PTL

(* Behind libpcap no packet is lost, repeated or reordered, whatever the   *)
(* channel holds and however the threads interleave or end.                *)
THEOREM NothingLost == Spec => []NoLossInside
  <1>1. IInv => NoLossInside
    BY DEF IInv
  <1>2. QED BY <1>1, Inductive, PTL

(* An exit leaves nothing open and no thread running, and a capture that   *)
(* ends by itself is processed to its last packet.                         *)
THEOREM ExitsClean == Spec => []ExitIsClean
  <1>1. IInv => ExitIsClean
    <2> SUFFICES ASSUME IInv PROVE ExitIsClean
      OBVIOUS
    <2>1. mainPc = "exit" => open = 0 /\ capPc = "ended" /\ consPc = "ended" /\ flag
      BY DEF IInv, Ending
    <2>2. ASSUME endedBy = "disconnected" PROVE processed = captured
      <3>1. /\ mainHand = <<>> /\ chan = <<>> /\ capHand = <<>>
            /\ processed \in Seq(Packets)
        BY <2>2 DEF IInv, Drained, TypeOK
      <3>2. processed \o <<>> = processed
        BY <3>1, ConcatEmptySeq
      <3>3. QED BY <3>1, <3>2 DEF IInv, NoLossInside
    <2>3. QED BY <2>1, <2>2 DEF ExitIsClean
  <1>2. QED BY <1>1, Inductive, PTL
=============================================================================
