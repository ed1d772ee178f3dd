-------------------------- MODULE HlsSenderProofs ---------------------------
(* Theorems about HlsSender, for every list of segments, size of packets,  *)
(* capacity of the queues, command line and fault.                         *)
EXTENDS HlsSender, DataTheorems

-----------------------------------------------------------------------------
(* The cells of the segments.                                              *)

(* CellsBefore is the function its recursion describes: the lengths of the *)
(* joined first segments are one.                                          *)
LEMMA CellsBeforeIs ==
    CellsBefore = [i \in 1..(Len(SegmentCells) + 1) |->
                     IF i = 1 THEN 0 ELSE CellsBefore[i - 1] + SegmentCells[i - 1]]
  <1> DEFINE Blanks == [j \in 1..Len(SegmentCells) |-> [k \in 1..SegmentCells[j] |-> k]]
             First(n) == SubSeq(Blanks, 1, n)
             g == [i \in 1..(Len(SegmentCells) + 1) |-> Len(FlattenSeq(First(i - 1)))]
             U == Seq(Nat)
  <1>1. Len(SegmentCells) \in Nat /\ \A j \in 1..Len(SegmentCells) : SegmentCells[j] \in Nat
    BY SenderAssumption
  <1>2. /\ Blanks \in Seq(U) /\ Len(Blanks) = Len(SegmentCells)
        /\ \A j \in 1..Len(SegmentCells) : Len(Blanks[j]) = SegmentCells[j]
    <2>1. ASSUME NEW j \in 1..Len(SegmentCells)
          PROVE  [k \in 1..SegmentCells[j] |-> k] \in U
                 /\ Len([k \in 1..SegmentCells[j] |-> k]) = SegmentCells[j]
      BY <1>1
    <2> HIDE DEF U
    <2>2. QED BY <1>1, <2>1
  <1> HIDE DEF Blanks
  <1>3. ASSUME NEW i \in 1..(Len(SegmentCells) + 1)
        PROVE  g[i] = IF i = 1 THEN 0 ELSE g[i - 1] + SegmentCells[i - 1]
    <2>1. g[i] = Len(FlattenSeq(First(i - 1)))
      OBVIOUS
    <2>2. CASE i = 1
      <3>1. First(0) = <<>>
        BY <1>2
      <3>2. Len(FlattenSeq(First(0))) = 0
        <4>1. FlattenSeq(First(0)) = <<>>
          BY <3>1, FlattenEmpty
        <4> HIDE DEF First
        <4>2. QED BY <4>1
      <3>3. QED BY <2>1, <2>2, <3>2
    <2>3. CASE i # 1
      <3> DEFINE n == i - 1
      <3>1. n \in 1..Len(SegmentCells) /\ n - 1 \in Nat /\ i - 1 \in 1..(Len(SegmentCells) + 1)
        BY <1>1, <2>3
      <3> HIDE DEF U
      <3>2. /\ First(n) = Append(First(n - 1), Blanks[n])
            /\ First(n - 1) \in Seq(U) /\ Blanks[n] \in U
        BY <1>1, <1>2, <3>1
      <3> USE DEF U
      <3> HIDE DEF First
      <3>3. /\ FlattenSeq(First(n)) = FlattenSeq(First(n - 1)) \o Blanks[n]
            /\ FlattenSeq(First(n - 1)) \in Seq(Nat)
        BY <3>2, FlattenAppend, FlattenType
      <3>4. Len(FlattenSeq(First(n))) = Len(FlattenSeq(First(n - 1))) + SegmentCells[n]
        <4>1. Blanks[n] \in Seq(Nat) /\ Len(Blanks[n]) = SegmentCells[n]
          BY <1>2, <3>1, <3>2
        <4> DEFINE a == FlattenSeq(First(n - 1))
                   b == Blanks[n]
        <4>2. FlattenSeq(First(n)) = a \o b /\ a \in Seq(Nat) /\ b \in Seq(Nat)
          BY <3>3, <4>1
        <4> HIDE DEF a, b
        <4>3. Len(a \o b) = Len(a) + Len(b)
          BY <4>2, ConcatProperties
        <4>4. Len(FlattenSeq(First(n))) = Len(a) + Len(b)
          BY <4>2, <4>3
        <4>5. QED BY <4>1, <4>4 DEF a, b
      <3>5. g[i - 1] = Len(FlattenSeq(First(n - 1)))
        BY <3>1
      <3>6. QED BY <2>1, <2>3, <3>4, <3>5
    <2>4. QED BY <2>2, <2>3
  <1>4. g = [i \in 1..(Len(SegmentCells) + 1) |->
               IF i = 1 THEN 0 ELSE g[i - 1] + SegmentCells[i - 1]]
    BY <1>3
  <1> HIDE DEF g
  <1>5. \E f : f = [i \in 1..(Len(SegmentCells) + 1) |->
                      IF i = 1 THEN 0 ELSE f[i - 1] + SegmentCells[i - 1]]
    BY <1>4
  <1>6. QED BY <1>5 DEF CellsBefore

(* Segments come one behind the other.                                     *)
LEMMA CellsBeforeStep ==
    /\ CellsBefore[1] = 0
    /\ \A i \in 1..Len(SegmentCells) :
         CellsBefore[i + 1] = CellsBefore[i] + SegmentCells[i]
  <1> DEFINE N == Len(SegmentCells) + 1
  <1>1. Len(SegmentCells) \in Nat
    BY SenderAssumption
  <1>2. ASSUME NEW j \in 1..N
        PROVE  CellsBefore[j] = IF j = 1 THEN 0 ELSE CellsBefore[j - 1] + SegmentCells[j - 1]
    <2> DEFINE g == [i \in 1..N |->
                       IF i = 1 THEN 0 ELSE CellsBefore[i - 1] + SegmentCells[i - 1]]
    <2>1. g[j] = IF j = 1 THEN 0 ELSE CellsBefore[j - 1] + SegmentCells[j - 1]
      OBVIOUS
    <2>2. CellsBefore = g
      BY CellsBeforeIs
    <2> HIDE DEF g
    <2>3. QED BY <2>1, <2>2
  <1>3. CellsBefore[1] = 0
    BY <1>1, <1>2
  <1>4. ASSUME NEW i \in 1..Len(SegmentCells)
        PROVE  CellsBefore[i + 1] = CellsBefore[i] + SegmentCells[i]
    <2>1. i + 1 \in 1..N /\ i + 1 # 1 /\ i + 1 - 1 = i
      BY <1>1
    <2>2. QED BY <1>2, <2>1
  <1>5. QED BY <1>3, <1>4

(* What is before a segment is a number of cells.                          *)
LEMMA CellsBeforeType ==
    \A i \in 1..(Len(SegmentCells) + 1) : CellsBefore[i] \in Nat
  <1> DEFINE T == {n \in Nat : n + 1 \in 1..(Len(SegmentCells) + 1) => CellsBefore[n + 1] \in Nat}
  <1>1. Len(SegmentCells) \in Nat /\ \A j \in 1..Len(SegmentCells) : SegmentCells[j] \in Nat
    BY SenderAssumption
  <1>2. 0 \in T
    BY CellsBeforeStep
  <1>3. ASSUME NEW n \in Nat, n \in T
        PROVE  n + 1 \in T
    <2> SUFFICES ASSUME n + 1 + 1 \in 1..(Len(SegmentCells) + 1)
                 PROVE  CellsBefore[n + 1 + 1] \in Nat
      OBVIOUS
    <2>1. n + 1 \in 1..Len(SegmentCells) /\ n + 1 \in 1..(Len(SegmentCells) + 1)
      BY <1>1
    <2>2. CellsBefore[n + 1] \in Nat /\ SegmentCells[n + 1] \in Nat
      BY <1>1, <1>3, <2>1
    <2>3. QED BY <2>1, <2>2, CellsBeforeStep
  <1> HIDE DEF T
  <1>4. Nat \subseteq T
    BY <1>2, <1>3, SetInduction
  <1>5. ASSUME NEW i \in 1..(Len(SegmentCells) + 1) PROVE CellsBefore[i] \in Nat
    <2>1. i - 1 \in Nat /\ i - 1 + 1 = i
      BY <1>1
    <2>2. i - 1 \in T
      BY <1>4, <2>1
    <2>3. QED BY <2>1, <2>2 DEF T
  <1>6. QED BY <1>5

(* A later segment has at least as many cells before it.                   *)
LEMMA CellsBeforeGrows ==
    \A i, j \in 1..(Len(SegmentCells) + 1) : i <= j => CellsBefore[i] <= CellsBefore[j]
  <1> SUFFICES ASSUME NEW i \in 1..(Len(SegmentCells) + 1)
               PROVE  \A j \in 1..(Len(SegmentCells) + 1) :
                        i <= j => CellsBefore[i] <= CellsBefore[j]
    OBVIOUS
  <1> DEFINE T == {n \in Nat : i + n \in 1..(Len(SegmentCells) + 1)
                                 => CellsBefore[i] <= CellsBefore[i + n]}
  <1>1. Len(SegmentCells) \in Nat /\ \A j \in 1..Len(SegmentCells) : SegmentCells[j] \in Nat
    BY SenderAssumption
  <1>2. 0 \in T
    <2>1. CellsBefore[i] \in Nat /\ i + 0 = i
      BY CellsBeforeType
    <2>2. QED BY <2>1
  <1>3. ASSUME NEW n \in Nat, n \in T
        PROVE  n + 1 \in T
    <2> SUFFICES ASSUME i + (n + 1) \in 1..(Len(SegmentCells) + 1)
                 PROVE  CellsBefore[i] <= CellsBefore[i + (n + 1)]
      OBVIOUS
    <2> DEFINE m == i + n
    <2>1. /\ m \in 1..Len(SegmentCells) /\ m \in 1..(Len(SegmentCells) + 1)
          /\ i + (n + 1) = m + 1
      BY <1>1
    <2>2. CellsBefore[i] <= CellsBefore[m]
      BY <1>3, <2>1
    <2> HIDE DEF m
    <2>3. CellsBefore[m + 1] = CellsBefore[m] + SegmentCells[m]
      BY <2>1, CellsBeforeStep
    <2>4. CellsBefore[m] \in Nat /\ SegmentCells[m] \in Nat /\ CellsBefore[i] \in Nat
      BY <1>1, <2>1, CellsBeforeType
    <2>5. QED BY <2>1, <2>2, <2>3, <2>4
  <1> HIDE DEF T
  <1>4. Nat \subseteq T
    BY <1>2, <1>3, SetInduction
  <1>5. ASSUME NEW j \in 1..(Len(SegmentCells) + 1), i <= j
        PROVE  CellsBefore[i] <= CellsBefore[j]
    <2>1. j - i \in Nat /\ i + (j - i) = j
      BY <1>1, <1>5
    <2>2. j - i \in T
      BY <1>4, <2>1
    <2>3. QED BY <2>1, <2>2 DEF T
  <1>6. QED BY <1>5

(* The longest segment is one.                                             *)
LEMMA MaxCells ==
    ASSUME NEW i \in 1..Len(SegmentCells)
    PROVE  /\ SegmentCells[i] \in Nat \ {0} /\ Max(Range(SegmentCells)) \in Nat
           /\ SegmentCells[i] <= Max(Range(SegmentCells))
  <1> DEFINE S == Range(SegmentCells)
             N == Len(SegmentCells)
             T == {n \in Nat : \A x \in S : x <= n}
  <1>1. N \in Nat /\ SegmentCells \in Seq(Nat \ {0})
    BY SenderAssumption
  <1>2. S = {SegmentCells[j] : j \in 1..N}
    BY <1>1 DEF Range
  <1>3. S \subseteq Nat \ {0} /\ SegmentCells[i] \in S
    BY <1>1, <1>2
  <1>4. CellsBefore[N + 1] \in T
    <2>1. ASSUME NEW j \in 1..N
          PROVE  SegmentCells[j] <= CellsBefore[N + 1]
      <3>1. j \in 1..(N + 1) /\ j + 1 \in 1..(N + 1) /\ N + 1 \in 1..(N + 1) /\ j + 1 <= N + 1
        BY <1>1
      <3>2. /\ CellsBefore[j] \in Nat /\ CellsBefore[j + 1] \in Nat
            /\ CellsBefore[N + 1] \in Nat /\ SegmentCells[j] \in Nat
            /\ CellsBefore[j + 1] = CellsBefore[j] + SegmentCells[j]
            /\ CellsBefore[j + 1] <= CellsBefore[N + 1]
        BY <1>1, <3>1, CellsBeforeType, CellsBeforeStep, CellsBeforeGrows
      <3>3. QED BY <3>2
    <2>2. CellsBefore[N + 1] \in Nat
      BY <1>1, CellsBeforeType
    <2>3. QED BY <1>2, <2>1, <2>2
  <1> HIDE DEF S
  <1>5. PICK n \in T : \A m \in T : n <= m
    <2>1. T \subseteq Nat /\ T # {}
      BY <1>4
    <2> HIDE DEF T
    <2>2. QED BY <2>1, LeastNumber
  <1>6. n \in S
    <2> SUFFICES ASSUME n \notin S PROVE FALSE
      OBVIOUS
    <2>1. n \in Nat /\ \A x \in S : x <= n
      BY <1>5
    <2>2. \A x \in S : x \in Nat /\ x <= n - 1
      BY <1>3, <2>1
    <2>3. n - 1 \in Nat
      <3>1. SegmentCells[i] \in Nat \ {0} /\ SegmentCells[i] <= n
        BY <1>3, <2>1
      <3>2. QED BY <2>1, <3>1
    <2>4. n - 1 \in T
      BY <2>2, <2>3
    <2>5. QED BY <1>5, <2>1, <2>4
  <1>7. \E x \in S : \A y \in S : x >= y
    <2>1. \A y \in S : n >= y
      BY <1>3, <1>5
    <2>2. QED BY <1>6, <2>1
  <1>8. Max(S) \in S /\ \A y \in S : Max(S) >= y
    BY <1>7 DEF Max
  <1>9. Max(S) \in Nat /\ SegmentCells[i] <= Max(S) /\ SegmentCells[i] \in Nat \ {0}
    BY <1>3, <1>8
  <1>10. QED BY <1>9 DEF S
-----------------------------------------------------------------------------
(* Types.                                                                  *)

(* The cells of the stream, and its packets, which are all of one length.  *)
Cell == 1..Total
Packets == {p \in Seq(Cell) : Len(p) = PacketCells}

(* Everything past the buffer is packets; each of the receiver and the     *)
(* sender tells main at most once; only the smoother is given packets, and *)
(* the UDP thread ends for the flag alone.                                 *)
PacketInv ==
    /\ TypeOK
    /\ udpq \in Seq(Packets) /\ smooth \in Seq(Packets)
    /\ sent \in Seq(Packets) /\ dropped \in Seq(Packets)
    /\ recvPc = "send" => taken < opts.count
    /\ notices <= (IF recvPc = "ended" THEN 1 ELSE 0)
                    + (IF sendPc \in {"join", "ended"} THEN 1 ELSE 0)
    /\ ~UseSmoother => smooth = <<>>
    /\ udpPc = "ended" => flag
    /\ mainPc = "start" => recvPc = "none" /\ sendPc = "none"
    /\ sendPc \in {"none", "start"} => udpPc = "none"

(* How far the receiver can be.                                            *)
LEMMA CountType ==
    ASSUME PacketInv
    PROVE  /\ opts.count \in 1..Len(SegmentCells) /\ Len(SegmentCells) \in Nat
           /\ taken \in 0..opts.count /\ opts.count + 1 \in 1..(Len(SegmentCells) + 1)
           /\ Total \in Nat /\ opts \in Options
  <1>1. opts \in Options /\ opts \in Option /\ Len(SegmentCells) \in Nat /\ taken \in 0..opts.count
    BY SenderAssumption DEF PacketInv, TypeOK
  <1>2. opts.count \in 1..Len(SegmentCells)
    BY <1>1 DEF Option, Lists
  <1>3. opts.count + 1 \in 1..(Len(SegmentCells) + 1)
    BY <1>1, <1>2
  <1>4. QED BY <1>1, <1>2, <1>3, CellsBeforeType DEF Total

(* The cells that a segment adds.                                          *)
LEMMA CellsType ==
    ASSUME PacketInv, taken < opts.count
    PROVE  /\ taken + 1 \in 1..Len(SegmentCells)
           /\ SegmentCells[taken + 1] \in Nat /\ CellsBefore[taken + 1] \in Nat
           /\ CellsBefore[taken + 1 + 1] = CellsBefore[taken + 1] + SegmentCells[taken + 1]
           /\ Cells(taken + 1) \in Seq(Cell)
           /\ Len(Cells(taken + 1)) = SegmentCells[taken + 1]
  <1> DEFINE i == taken + 1
  <1>1. /\ i \in 1..Len(SegmentCells) /\ i \in 1..(Len(SegmentCells) + 1)
        /\ i + 1 \in 1..(Len(SegmentCells) + 1) /\ i + 1 <= opts.count + 1
        /\ opts.count + 1 \in 1..(Len(SegmentCells) + 1) /\ Total \in Nat
    <2>1. /\ opts.count \in 1..Len(SegmentCells) /\ Len(SegmentCells) \in Nat
          /\ taken \in 0..opts.count /\ Total \in Nat
      BY CountType
    <2>2. taken \in Nat /\ opts.count \in Nat /\ taken < opts.count
      BY <2>1
    <2>3. QED BY <2>1, <2>2
  <1> HIDE DEF i
  <1>2. /\ SegmentCells[i] \in Nat /\ CellsBefore[i] \in Nat /\ CellsBefore[i + 1] \in Nat
        /\ CellsBefore[i + 1] = CellsBefore[i] + SegmentCells[i]
        /\ CellsBefore[i + 1] <= Total
    BY <1>1, MaxCells, CellsBeforeType, CellsBeforeStep, CellsBeforeGrows DEF Total
  <1>3. \A k \in 1..SegmentCells[i] : CellsBefore[i] + k \in Cell
    <2> SUFFICES ASSUME NEW k \in 1..SegmentCells[i]
                 PROVE  CellsBefore[i] + k \in Cell
      OBVIOUS
    <2>1. k \in Nat /\ k >= 1 /\ k <= SegmentCells[i]
      BY <1>2
    <2>2. CellsBefore[i] + k >= 1 /\ CellsBefore[i] + k <= Total /\ CellsBefore[i] + k \in Nat
      <3>1. \A a, b, c, d \in Nat : c >= 1 /\ c <= b /\ a + b <= d
                                    => a + c >= 1 /\ a + c <= d /\ a + c \in Nat
        OBVIOUS
      <3>2. CellsBefore[i] + SegmentCells[i] <= Total
        BY <1>2
      <3>3. QED BY <1>1, <1>2, <2>1, <3>1, <3>2
    <2>3. QED BY <1>1, <2>2 DEF Cell
  <1> HIDE DEF Cell
  <1>4. Cells(i) \in Seq(Cell) /\ Len(Cells(i)) = SegmentCells[i]
    BY <1>2, <1>3 DEF Cells
  <1>5. QED BY <1>1, <1>2, <1>4 DEF i

(* A sequence of packets is one of sequences of cells.                     *)
LEMMA PacketsType ==
    /\ Packets \subseteq Seq(Cell) /\ \A p \in Packets : Len(p) = PacketCells
    /\ Seq(Packets) \subseteq Seq(Seq(Cell))
  <1>1. Packets \subseteq Seq(Cell) /\ \A p \in Packets : Len(p) = PacketCells
    BY DEF Packets
  <1> HIDE DEF Packets, Cell
  <1> DEFINE U == Seq(Cell)
  <1>2. Packets \subseteq U
    BY <1>1
  <1> HIDE DEF U
  <1>3. Seq(Packets) \subseteq Seq(U)
    BY <1>2
  <1>4. QED BY <1>1, <1>3 DEF U

(* What is cut off the buffer, and what remains of it.                     *)
LEMMA PacketType ==
    ASSUME PacketInv, MayCut
    PROVE  /\ Packet \in Packets /\ Rest \in Seq(Cell)
           /\ buffer = Packet \o Rest
           /\ Len(buffer) = PacketCells + Len(Rest)
  <1>1. buffer \in Seq(Cell) /\ PacketCells \in Nat \ {0} /\ Len(buffer) >= PacketCells
    BY SenderAssumption DEF PacketInv, TypeOK, Cell, MayCut
  <1> HIDE DEF Cell
  <1>2. Len(buffer) \in Nat /\ \A i \in 1..Len(buffer) : buffer[i] \in Cell
    BY <1>1
  <1>3. /\ Packet \in Seq(Cell) /\ Len(Packet) = PacketCells
        /\ \A i \in 1..PacketCells : Packet[i] = buffer[i]
    BY <1>1, <1>2 DEF Packet
  <1>4. /\ Rest \in Seq(Cell) /\ Len(Rest) = Len(buffer) - PacketCells
        /\ \A i \in 1..Len(Rest) : Rest[i] = buffer[PacketCells + i]
    BY <1>1, <1>2 DEF Rest
  <1> HIDE DEF Packet, Rest
  <1>5. /\ Packet \o Rest \in Seq(Cell) /\ Len(Packet \o Rest) = Len(buffer)
        /\ \A i \in 1..Len(buffer) : (Packet \o Rest)[i] = buffer[i]
    <2>1. Packet \o Rest \in Seq(Cell) /\ Len(Packet \o Rest) = Len(Packet) + Len(Rest)
      BY <1>3, <1>4, ConcatProperties
    <2>2. ASSUME NEW i \in 1..Len(buffer)
          PROVE  (Packet \o Rest)[i] = buffer[i]
      <3>1. (Packet \o Rest)[i] = IF i <= Len(Packet) THEN Packet[i] ELSE Rest[i - Len(Packet)]
        BY <1>1, <1>2, <1>3, <1>4, <2>1, ConcatProperties
      <3>2. CASE i <= PacketCells
        BY <1>1, <1>2, <1>3, <3>1, <3>2
      <3>3. CASE i > PacketCells
        <4>1. i - PacketCells \in 1..Len(Rest) /\ PacketCells + (i - PacketCells) = i
          BY <1>1, <1>2, <1>4, <3>3
        <4>2. QED BY <1>1, <1>2, <1>3, <1>4, <3>1, <3>3, <4>1
      <3>4. i <= PacketCells \/ i > PacketCells
        BY <1>1, <1>2
      <3>5. QED BY <3>2, <3>3, <3>4
    <2>3. QED BY <1>1, <1>2, <1>3, <1>4, <2>1, <2>2
  <1>6. buffer = Packet \o Rest
    BY <1>1, <1>5, SeqEqual
  <1>7. QED BY <1>1, <1>2, <1>3, <1>4, <1>6 DEF Packets

(* The invariant holds at the start.                                       *)
LEMMA PacketInit == Init => PacketInv
  <1> SUFFICES ASSUME Init PROVE PacketInv
    OBVIOUS
  <1>1. opts \in Options /\ opts.pcrKnown \in BOOLEAN /\ 0 \in 0..opts.count
    BY SenderAssumption DEF Init, Option, Lists
  <1>2. TypeOK
    <2>1. /\ segq \in Seq(Seq(1..Total)) /\ Len(segq) <= SegCap
          /\ buffer \in Seq(1..Total) /\ smooth \in Seq(Seq(1..Total))
          /\ udpq \in Seq(Seq(1..Total)) /\ Len(udpq) <= UdpCap
          /\ sent \in Seq(Seq(1..Total)) /\ dropped \in Seq(Seq(1..Total))
      BY SenderAssumption DEF Init
    <2>2. /\ flag \in BOOLEAN /\ signals \in 0..MaxSignals /\ notices \in 0..2
          /\ mainPc = "start" /\ recvPc = "none" /\ taken \in 0..opts.count
          /\ sendPc = "none" /\ pcr \in BOOLEAN /\ udpPc = "none" /\ opts \in Options
      <3>1. MaxSignals \in Nat /\ pcr = opts.pcrKnown
        BY SenderAssumption DEF Init
      <3>2. pcr \in BOOLEAN
        BY <1>1, <3>1
      <3>3. 0 \in 0..MaxSignals /\ 0 \in 0..2
        BY <3>1
      <3>4. QED BY <1>1, <3>2, <3>3 DEF Init
    <2>3. QED BY <2>1, <2>2 DEF TypeOK
  <1>3. <<>> \in Seq(Packets)
    OBVIOUS
  <1>4. QED BY <1>2, <1>3 DEF Init, PacketInv

(* A step keeps the command line, and with it the cells and the packets.   *)
LEMMA OptsKept ==
    ASSUME [Next]_vars
    PROVE  /\ opts' = opts /\ UseSmoother' = UseSmoother /\ Total' = Total
           /\ Cell' = Cell /\ Packets' = Packets
  <1>1. opts' = opts
    BY DEF Next, vars, Receiver, RecvDownload, RecvSend, RecvEnds, Sender, SendStart,
       SendRecv, SendDisconnected, SendThrottled, SendPacket, SendDrained, SendFinish,
       SendJoined, SmootherOut, Udp, UdpPacket, UdpSeesFlag, Main, MainStart, MainPoll,
       MainJoins, MainWaits, UdpWaits, CtrlC, Terminated
  <1>2. UseSmoother' = UseSmoother /\ Total' = Total
    BY <1>1 DEF UseSmoother, Total
  <1>3. Cell' = Cell
    BY <1>2 DEF Cell
  <1>4. QED BY <1>1, <1>2, <1>3 DEF Packets

(* Program points, the flag, and what main has been told.                  *)
LEMMA PointsStep ==
    ASSUME PacketInv, [Next]_vars
    PROVE  /\ flag' \in BOOLEAN /\ signals' \in 0..MaxSignals /\ notices' \in 0..2
           /\ mainPc' \in {"start", "poll", "join_sender", "join_receiver", "exit", "killed"}
           /\ recvPc' \in {"none", "run", "send", "ended"}
           /\ sendPc' \in {"none", "start", "recv", "throttle", "drain", "finish",
                           "join", "ended"}
           /\ udpPc' \in {"none", "run", "ended"} /\ pcr' \in BOOLEAN
           /\ notices' <= (IF recvPc' = "ended" THEN 1 ELSE 0)
                            + (IF sendPc' \in {"join", "ended"} THEN 1 ELSE 0)
           /\ udpPc' = "ended" => flag'
           /\ mainPc' = "start" => recvPc' = "none" /\ sendPc' = "none"
           /\ sendPc' \in {"none", "start"} => udpPc' = "none"
  <1> USE DEF mainVars, recvVars, sendVars, udpVars
  <1>1. /\ flag \in BOOLEAN /\ signals \in 0..MaxSignals /\ notices \in 0..2
        /\ mainPc \in {"start", "poll", "join_sender", "join_receiver", "exit", "killed"}
        /\ recvPc \in {"none", "run", "send", "ended"}
        /\ sendPc \in {"none", "start", "recv", "throttle", "drain", "finish",
                        "join", "ended"}
        /\ udpPc \in {"none", "run", "ended"} /\ pcr \in BOOLEAN
        /\ udpPc = "ended" => flag /\ UseSmoother \in BOOLEAN
        /\ MaxSignals \in Nat
        /\ mainPc = "start" => recvPc = "none" /\ sendPc = "none"
        /\ sendPc \in {"none", "start"} => udpPc = "none"
    <2>1. UseSmoother \in BOOLEAN
      BY DEF UseSmoother
    <2>2. QED BY <2>1, SenderAssumption DEF PacketInv, TypeOK
  <1>2. /\ mainPc' \in {"start", "poll", "join_sender", "join_receiver", "exit", "killed"}
        /\ recvPc' \in {"none", "run", "send", "ended"}
        /\ sendPc' \in {"none", "start", "recv", "throttle", "drain", "finish",
                        "join", "ended"}
        /\ udpPc' \in {"none", "run", "ended"}
    BY <1>1
       DEF Next, vars, Receiver, RecvDownload, RecvSend, RecvEnds, Sender, SendStart,
       SendRecv, SendDisconnected, SendThrottled, SendPacket, SendDrained, SendFinish,
       SendJoined, SmootherOut, Udp, UdpPacket, UdpSeesFlag, Main, MainStart, MainPoll,
       MainJoins, MainWaits, UdpWaits, CtrlC, Terminated
  <1>3. flag' \in BOOLEAN /\ (flag => flag')
    BY <1>1
       DEF Next, vars, Receiver, RecvDownload, RecvSend, RecvEnds, Sender, SendStart,
       SendRecv, SendDisconnected, SendThrottled, SendPacket, SendDrained, SendFinish,
       SendJoined, SmootherOut, Udp, UdpPacket, UdpSeesFlag, Main, MainStart, MainPoll,
       MainJoins, MainWaits, UdpWaits, CtrlC, Terminated
  <1>4. udpPc' = "ended" => udpPc = "ended" \/ flag
    BY DEF Next, vars, Receiver, RecvDownload, RecvSend, RecvEnds, Sender, SendStart,
       SendRecv, SendDisconnected, SendThrottled, SendPacket, SendDrained, SendFinish,
       SendJoined, SmootherOut, Udp, UdpPacket, UdpSeesFlag, Main, MainStart, MainPoll,
       MainJoins, MainWaits, UdpWaits, CtrlC, Terminated
  <1>5. mainPc' = "start" => recvPc' = "none" /\ sendPc' = "none"
    <2>1. mainPc' = "start" => mainPc = "start"
      BY DEF Next, vars, Receiver, RecvDownload, RecvSend, RecvEnds, Sender, SendStart,
         SendRecv, SendDisconnected, SendThrottled, SendPacket, SendDrained, SendFinish,
         SendJoined, SmootherOut, Udp, UdpPacket, UdpSeesFlag, Main, MainStart, MainPoll,
         MainJoins, MainWaits, UdpWaits, CtrlC, Terminated
    <2>2. ASSUME mainPc' = "start"
          PROVE  recvPc' = "none" /\ sendPc' = "none"
      BY <1>1, <2>1, <2>2
         DEF Next, vars, Receiver, RecvDownload, RecvSend, RecvEnds, Sender, SendStart,
         SendRecv, SendDisconnected, SendThrottled, SendPacket, SendDrained, SendFinish,
         SendJoined, SmootherOut, Udp, UdpPacket, UdpSeesFlag, Main, MainStart, MainPoll,
         MainJoins, MainWaits, UdpWaits, CtrlC, Terminated
    <2>3. QED BY <2>2
  <1>6. pcr' \in BOOLEAN
    <2>1. pcr' = pcr \/ pcr' = PcrFound
      BY DEF Next, vars, Receiver, RecvDownload, RecvSend, RecvEnds, Sender, SendStart,
         SendRecv, SendDisconnected, SendThrottled, SendPacket, SendDrained, SendFinish,
         SendJoined, SmootherOut, Udp, UdpPacket, UdpSeesFlag, Main, MainStart, MainPoll,
         MainJoins, MainWaits, UdpWaits, CtrlC, Terminated
    <2>2. PcrFound \in BOOLEAN
      BY DEF PcrFound
    <2>3. QED BY <1>1, <2>1, <2>2
  <1>7. signals' \in 0..MaxSignals
    <2>1. signals' = signals \/ (signals' = signals + 1 /\ signals < MaxSignals)
      BY DEF Next, vars, Receiver, RecvDownload, RecvSend, RecvEnds, Sender, SendStart,
         SendRecv, SendDisconnected, SendThrottled, SendPacket, SendDrained, SendFinish,
         SendJoined, SmootherOut, Udp, UdpPacket, UdpSeesFlag, Main, MainStart, MainPoll,
         MainJoins, MainWaits, UdpWaits, CtrlC, Terminated
    <2>2. QED BY <1>1, <2>1
  <1> DEFINE R == IF recvPc = "ended" THEN 1 ELSE 0
             S == IF sendPc \in {"join", "ended"} THEN 1 ELSE 0
             R1 == IF recvPc' = "ended" THEN 1 ELSE 0
             S1 == IF sendPc' \in {"join", "ended"} THEN 1 ELSE 0
  <1>8. /\ R \in 0..1 /\ S \in 0..1 /\ R1 \in 0..1 /\ S1 \in 0..1
        /\ notices <= R + S
    BY DEF PacketInv
  <1>9. \/ R <= R1 /\ S <= S1 /\ notices' = notices
        \/ R = 0 /\ R1 = 1 /\ S1 = S /\ notices' = notices + 1
        \/ S = 0 /\ S1 = 1 /\ R1 = R /\ notices' = notices + 1
        \/ R1 = R /\ S1 = S /\ notices > 0 /\ notices' = notices - 1
    <2>1. \/ /\ recvPc = "ended" => recvPc' = "ended"
             /\ sendPc \in {"join", "ended"} => sendPc' \in {"join", "ended"}
             /\ notices' = notices
          \/ /\ recvPc = "send" /\ recvPc' = "ended" /\ sendPc' = sendPc
             /\ notices' = notices + 1
          \/ /\ sendPc = "finish" /\ sendPc' = "join" /\ recvPc' = recvPc
             /\ notices' = Notice
          \/ /\ recvPc' = recvPc /\ sendPc' = sendPc
             /\ notices > 0 /\ notices' = notices - 1
      <3>1. CASE RecvSend
        BY <3>1 DEF RecvSend
      <3>2. CASE SendFinish
        BY <3>2 DEF SendFinish
      <3>3. CASE MainPoll
        BY <1>1, <3>3 DEF MainPoll, Noticed
      <3>4. CASE ~RecvSend /\ ~SendFinish /\ ~MainPoll
        <4>1. notices' = notices
          BY <3>4
             DEF Next, vars, Receiver, RecvDownload, RecvEnds, Sender, SendStart,
             SendRecv, SendDisconnected, SendThrottled, SendPacket, SendDrained,
             SendJoined, SmootherOut, Udp, UdpPacket, UdpSeesFlag, Main, MainStart,
             MainJoins, MainWaits, UdpWaits, CtrlC, Terminated
        <4>2. CASE MainStart
          BY <1>1, <4>1, <4>2 DEF MainStart
        <4>3. CASE ~MainStart
          <5>1. recvPc = "ended" => recvPc' = "ended"
            BY <3>4, <4>3
               DEF Next, vars, Receiver, RecvDownload, RecvEnds, Sender, SendStart,
               SendRecv, SendDisconnected, SendThrottled, SendPacket, SendDrained,
               SendJoined, SmootherOut, Udp, UdpPacket, UdpSeesFlag, Main,
               MainJoins, MainWaits, UdpWaits, CtrlC, Terminated
          <5>2. sendPc \in {"join", "ended"} => sendPc' \in {"join", "ended"}
            BY <3>4, <4>3
               DEF Next, vars, Receiver, RecvDownload, RecvEnds, Sender, SendStart,
               SendRecv, SendDisconnected, SendThrottled, SendPacket, SendDrained,
               SendJoined, SmootherOut, Udp, UdpPacket, UdpSeesFlag, Main,
               MainJoins, MainWaits, UdpWaits, CtrlC, Terminated
          <5>3. QED BY <4>1, <5>1, <5>2
        <4>4. QED BY <4>2, <4>3
      <3>5. QED BY <3>1, <3>2, <3>3, <3>4
    <2>2. QED BY <2>1 DEF Notice
  <1> HIDE DEF R, S, R1, S1
  <1>10. notices' \in 0..2 /\ notices' <= R1 + S1
    <2>1. \A m, a, b, c, d \in Nat :
            /\ m <= a + b /\ a <= 1 /\ b <= 1 /\ c <= 1 /\ d <= 1
            => /\ a <= c /\ b <= d => m \in 0..2 /\ m <= c + d
               /\ a = 0 /\ c = 1 /\ d = b => m + 1 \in 0..2 /\ m + 1 <= c + d
               /\ b = 0 /\ d = 1 /\ c = a => m + 1 \in 0..2 /\ m + 1 <= c + d
      OBVIOUS
    <2>2. \A m, a, b \in Nat : m <= a + b /\ m > 0 /\ m <= 2 => m - 1 \in 0..2 /\ m - 1 <= a + b
      OBVIOUS
    <2>3. /\ R \in Nat /\ S \in Nat /\ R1 \in Nat /\ S1 \in Nat /\ notices \in Nat
          /\ notices <= 2 /\ R <= 1 /\ S <= 1 /\ R1 <= 1 /\ S1 <= 1 /\ notices <= R + S
      BY <1>1, <1>8
    <2>4. CASE R <= R1 /\ S <= S1 /\ notices' = notices
      BY <2>1, <2>3, <2>4
    <2>5. CASE R = 0 /\ R1 = 1 /\ S1 = S /\ notices' = notices + 1
      BY <2>1, <2>3, <2>5
    <2>6. CASE S = 0 /\ S1 = 1 /\ R1 = R /\ notices' = notices + 1
      BY <2>1, <2>3, <2>6
    <2>7. CASE R1 = R /\ S1 = S /\ notices > 0 /\ notices' = notices - 1
      BY <2>2, <2>3, <2>7
    <2>8. QED BY <1>9, <2>4, <2>5, <2>6, <2>7
  <1>11. sendPc' \in {"none", "start"} => udpPc' = "none"
    <2>1. sendPc' \in {"none", "start"} =>
            sendPc \in {"none", "start"} /\ (udpPc' = udpPc \/ udpPc = "run")
      BY <1>1
         DEF Next, vars, Receiver, RecvDownload, RecvSend, RecvEnds, Sender, SendStart,
         SendRecv, SendDisconnected, SendThrottled, SendPacket, SendDrained, SendFinish,
         SendJoined, SmootherOut, Udp, UdpPacket, UdpSeesFlag, Main, MainStart, MainPoll,
         MainJoins, MainWaits, UdpWaits, CtrlC, Terminated
    <2>2. QED BY <1>1, <2>1
  <1>12. QED BY <1>1, <1>2, <1>3, <1>4, <1>5, <1>6, <1>7, <1>10, <1>11 DEF R1, S1

(* The steps that move no data.                                            *)
Moves == RecvSend \/ SendRecv \/ SendPacket \/ SendFinish \/ SmootherOut \/ UdpPacket

(* A step that is none of the moves leaves all data alone.                 *)
LEMMA Quiet ==
    ASSUME [Next]_vars, ~Moves
    PROVE  UNCHANGED <<taken, segq, buffer, smooth, udpq, sent, dropped>>
  BY DEF Moves, Next, vars, mainVars, recvVars, sendVars, udpVars, Receiver,
     RecvDownload, RecvEnds, Sender, SendStart, SendDisconnected, SendThrottled,
     SendDrained, SendJoined, Udp, UdpSeesFlag, Main, MainStart, MainPoll, MainJoins,
     MainWaits, UdpWaits, CtrlC, Terminated

(* What was sent by the receiver is what is on its way, in packets and not *)
(* yet, and what was sent or given up.                                     *)
Cut == Len(sent) + Len(dropped) + Len(udpq) + Len(smooth)

CountInv == CellsBefore[taken + 1] = Cut * PacketCells + Len(buffer) + Len(FlattenSeq(segq))

(* What the data of a state are, for the packets of the stream.            *)
LEMMA DataTypes ==
    ASSUME PacketInv
    PROVE  /\ segq \in Seq(Seq(Cell)) /\ Len(segq) \in Nat /\ Len(segq) <= SegCap
           /\ FlattenSeq(segq) \in Seq(Cell) /\ Len(FlattenSeq(segq)) \in Nat
           /\ buffer \in Seq(Cell) /\ Len(buffer) \in Nat
           /\ udpq \in Seq(Packets) /\ smooth \in Seq(Packets)
           /\ sent \in Seq(Packets) /\ dropped \in Seq(Packets)
           /\ Len(udpq) \in Nat /\ Len(smooth) \in Nat
           /\ Len(sent) \in Nat /\ Len(dropped) \in Nat
           /\ Len(udpq) <= UdpCap /\ Cut \in Nat
           /\ PacketCells \in Nat \ {0} /\ SegCap \in Nat \ {0} /\ UdpCap \in Nat \ {0}
  <1>1. /\ segq \in Seq(Seq(Cell)) /\ Len(segq) <= SegCap /\ buffer \in Seq(Cell)
        /\ udpq \in Seq(Packets) /\ smooth \in Seq(Packets)
        /\ sent \in Seq(Packets) /\ dropped \in Seq(Packets) /\ Len(udpq) <= UdpCap
    BY DEF PacketInv, TypeOK, Cell
  <1> HIDE DEF Cell, Packets
  <1>2. FlattenSeq(segq) \in Seq(Cell)
    BY <1>1, FlattenType
  <1>3. /\ Len(segq) \in Nat /\ Len(buffer) \in Nat /\ Len(udpq) \in Nat
        /\ Len(smooth) \in Nat /\ Len(sent) \in Nat /\ Len(dropped) \in Nat
        /\ Len(FlattenSeq(segq)) \in Nat
    BY <1>1, <1>2, LenProperties
  <1>4. Cut \in Nat
    BY <1>3 DEF Cut
  <1>5. QED BY <1>1, <1>2, <1>3, <1>4, SenderAssumption

(* A step keeps the types of the data and the bounds of the queues.        *)
LEMMA DataStep ==
    ASSUME PacketInv, [Next]_vars
    PROVE  /\ segq' \in Seq(Seq(Cell)) /\ Len(segq') <= SegCap
           /\ buffer' \in Seq(Cell)
           /\ udpq' \in Seq(Packets) /\ smooth' \in Seq(Packets)
           /\ sent' \in Seq(Packets) /\ dropped' \in Seq(Packets)
           /\ Len(udpq') <= UdpCap
           /\ taken' \in 0..opts.count
           /\ recvPc' = "send" => taken' < opts.count
           /\ ~UseSmoother => smooth' = <<>>
  <1> USE DEF mainVars, recvVars, sendVars, udpVars
  <1> DEFINE U == Seq(Cell)
  <1>1. /\ segq \in Seq(U) /\ Len(segq) \in Nat /\ Len(segq) <= SegCap
        /\ buffer \in U
        /\ udpq \in Seq(Packets) /\ smooth \in Seq(Packets)
        /\ sent \in Seq(Packets) /\ dropped \in Seq(Packets)
        /\ Len(udpq) \in Nat /\ Len(udpq) <= UdpCap
        /\ SegCap \in Nat /\ UdpCap \in Nat
    BY DataTypes
  <1>2. /\ taken \in 0..opts.count /\ (~UseSmoother => smooth = <<>>)
        /\ recvPc = "send" => taken < opts.count
    BY DEF PacketInv, TypeOK
  <1>3. opts.count \in Nat
    BY CountType
  <1> HIDE DEF U, Packets, Cell
  <1>4. CASE RecvSend
    <2>1. /\ UNCHANGED <<buffer, smooth, udpq, sent, dropped>> /\ recvPc = "send"
          /\ recvPc' # "send"
          /\ \/ UNCHANGED <<taken, segq>>
             \/ /\ Len(segq) < SegCap /\ taken' = taken + 1
                /\ segq' = Append(segq, Cells(taken + 1))
      BY <1>4 DEF RecvSend
    <2>2. taken' \in 0..opts.count
      BY <1>2, <1>3, <2>1
    <2>3. Cells(taken + 1) \in U
      BY <1>2, <2>1, CellsType DEF U
    <2>4. segq' \in Seq(U) /\ Len(segq') <= SegCap
      <3>1. /\ Append(segq, Cells(taken + 1)) \in Seq(U)
            /\ Len(Append(segq, Cells(taken + 1))) = Len(segq) + 1
        BY <1>1, <2>3, AppendProperties
      <3>2. Len(segq) < SegCap => Len(Append(segq, Cells(taken + 1))) <= SegCap
        BY <1>1, <3>1
      <3>3. CASE UNCHANGED <<taken, segq>>
        BY <1>1, <3>3
      <3>4. CASE segq' = Append(segq, Cells(taken + 1)) /\ Len(segq) < SegCap
        BY <3>1, <3>2, <3>4
      <3>5. QED BY <2>1, <3>3, <3>4
    <2>5. QED BY <1>1, <1>2, <2>1, <2>2, <2>4 DEF U
  <1>5. CASE SendRecv
    <2>1. /\ UNCHANGED <<recvPc, taken, smooth, udpq, sent, dropped>>
          /\ segq # <<>> /\ segq' = Tail(segq) /\ buffer' = buffer \o Head(segq)
      BY <1>5 DEF SendRecv
    <2>2. /\ Head(segq) \in U /\ Tail(segq) \in Seq(U)
          /\ Len(Tail(segq)) = Len(segq) - 1
      BY <1>1, <2>1, HeadTailProperties
    <2>3. segq' \in Seq(U) /\ Len(segq') <= SegCap
      BY <1>1, <2>1, <2>2
    <2>4. buffer' \in U
      BY <1>1, <2>1, <2>2, ConcatProperties DEF U
    <2>5. QED BY <1>1, <1>2, <2>1, <2>3, <2>4 DEF U
  <1>6. CASE SendPacket
    <2>1. MayCut /\ buffer' = Rest /\ UNCHANGED <<recvPc, taken, segq, sent>>
      BY <1>6 DEF SendPacket
    <2>2. Packet \in Packets /\ Rest \in U
      BY <2>1, PacketType DEF U
    <2>3. \/ UseSmoother /\ smooth' = Append(smooth, Packet) /\ UNCHANGED <<udpq, dropped>>
          \/ dropped' = Append(dropped, Packet) /\ UNCHANGED <<smooth, udpq>>
          \/ Len(udpq) < UdpCap /\ udpq' = Append(udpq, Packet) /\ UNCHANGED <<smooth, dropped>>
      BY <1>6 DEF SendPacket, Room
    <2>4. /\ Append(smooth, Packet) \in Seq(Packets) /\ Append(dropped, Packet) \in Seq(Packets)
          /\ Append(udpq, Packet) \in Seq(Packets) /\ Len(Append(udpq, Packet)) = Len(udpq) + 1
      BY <1>1, <2>2, AppendProperties
    <2>5. Len(udpq') <= UdpCap
      BY <1>1, <2>3, <2>4
    <2>6. QED BY <1>1, <1>2, <2>1, <2>2, <2>3, <2>4, <2>5 DEF U
  <1>7. CASE SendFinish
    <2>1. /\ smooth' = <<>> /\ dropped' = dropped \o smooth
          /\ UNCHANGED <<recvPc, taken, segq, buffer, udpq, sent>>
      BY <1>7 DEF SendFinish
    <2>2. dropped' \in Seq(Packets) /\ smooth' \in Seq(Packets)
      BY <1>1, <2>1, ConcatProperties, EmptySeq
    <2>3. QED BY <1>1, <1>2, <2>1, <2>2 DEF U
  <1>8. CASE SmootherOut
    <2>1. /\ smooth # <<>> /\ UNCHANGED <<recvPc, taken, segq, buffer, sent, dropped>>
          /\ \/ UNCHANGED <<smooth, udpq>>
             \/ /\ Len(udpq) < UdpCap /\ udpq' = Append(udpq, Head(smooth))
                /\ smooth' = Tail(smooth)
      BY <1>8 DEF SmootherOut, Room
    <2>2. Head(smooth) \in Packets /\ Tail(smooth) \in Seq(Packets)
      BY <1>1, <2>1, HeadTailProperties
    <2>3. /\ Append(udpq, Head(smooth)) \in Seq(Packets)
          /\ Len(Append(udpq, Head(smooth))) = Len(udpq) + 1
      BY <1>1, <2>2, AppendProperties
    <2>4. Len(udpq') <= UdpCap
      BY <1>1, <2>1, <2>3
    <2>5. QED BY <1>1, <1>2, <2>1, <2>2, <2>3, <2>4 DEF U
  <1>9. CASE UdpPacket
    <2>1. /\ udpq # <<>> /\ udpq' = Tail(udpq)
          /\ UNCHANGED <<recvPc, taken, segq, buffer, smooth>>
          /\ \/ sent' = sent /\ dropped' = Append(dropped, Head(udpq))
             \/ sent' = Append(sent, Head(udpq)) /\ dropped' = dropped
      BY <1>9 DEF UdpPacket
    <2>2. /\ Head(udpq) \in Packets /\ Tail(udpq) \in Seq(Packets)
          /\ Len(Tail(udpq)) = Len(udpq) - 1
      BY <1>1, <2>1, HeadTailProperties
    <2>3. /\ Append(sent, Head(udpq)) \in Seq(Packets)
          /\ Append(dropped, Head(udpq)) \in Seq(Packets)
      BY <1>1, <2>2, AppendProperties
    <2>4. Len(udpq') <= UdpCap
      BY <1>1, <2>1, <2>2
    <2>5. QED BY <1>1, <1>2, <2>1, <2>2, <2>3, <2>4 DEF U
  <1>10. CASE ~Moves
    <2>1. UNCHANGED <<taken, segq, buffer, smooth, udpq, sent, dropped>>
      BY <1>10, Quiet
    <2>2. recvPc' = "send" => recvPc = "send" \/ taken < opts.count
      BY <1>10
         DEF Moves, Next, vars, Receiver, RecvDownload, RecvEnds, Sender, SendStart,
         SendDisconnected, SendThrottled, SendDrained, SendJoined, Udp, UdpSeesFlag,
         Main, MainStart, MainPoll, MainJoins, MainWaits, UdpWaits, CtrlC, Terminated
    <2>3. QED BY <1>1, <1>2, <2>1, <2>2 DEF U
  <1>11. QED
    BY <1>4, <1>5, <1>6, <1>7, <1>8, <1>9, <1>10 DEF Moves

(* Every step keeps the invariant of the packets.                          *)
LEMMA PacketStep == PacketInv /\ [Next]_vars => PacketInv'
  <1> SUFFICES ASSUME PacketInv, [Next]_vars PROVE PacketInv'
    OBVIOUS
  <1>1. /\ opts' = opts /\ UseSmoother' = UseSmoother /\ Total' = Total
        /\ Cell' = Cell /\ Packets' = Packets /\ opts \in Options
    BY OptsKept, CountType
  <1>2. /\ segq' \in Seq(Seq(Cell)) /\ Len(segq') <= SegCap /\ buffer' \in Seq(Cell)
        /\ udpq' \in Seq(Packets) /\ smooth' \in Seq(Packets)
        /\ sent' \in Seq(Packets) /\ dropped' \in Seq(Packets)
        /\ Len(udpq') <= UdpCap /\ taken' \in 0..opts.count
        /\ recvPc' = "send" => taken' < opts.count
        /\ ~UseSmoother => smooth' = <<>>
    BY DataStep
  <1>3. /\ udpq' \in Seq(Seq(Cell)) /\ smooth' \in Seq(Seq(Cell))
        /\ sent' \in Seq(Seq(Cell)) /\ dropped' \in Seq(Seq(Cell))
    BY <1>2, PacketsType
  <1>4. TypeOK'
    <2>1. /\ segq' \in Seq(Seq(1..Total')) /\ buffer' \in Seq(1..Total')
          /\ udpq' \in Seq(Seq(1..Total')) /\ smooth' \in Seq(Seq(1..Total'))
          /\ sent' \in Seq(Seq(1..Total')) /\ dropped' \in Seq(Seq(1..Total'))
      BY <1>1, <1>2, <1>3 DEF Cell
    <2>2. /\ flag' \in BOOLEAN /\ signals' \in 0..MaxSignals /\ notices' \in 0..2
          /\ mainPc' \in {"start", "poll", "join_sender", "join_receiver", "exit", "killed"}
          /\ recvPc' \in {"none", "run", "send", "ended"}
          /\ sendPc' \in {"none", "start", "recv", "throttle", "drain", "finish",
                          "join", "ended"}
          /\ udpPc' \in {"none", "run", "ended"} /\ pcr' \in BOOLEAN
      BY PointsStep
    <2>3. /\ opts' \in Options /\ taken' \in 0..opts'.count
          /\ Len(segq') <= SegCap /\ Len(udpq') <= UdpCap
      BY <1>1, <1>2
    <2>4. QED BY <2>1, <2>2, <2>3 DEF TypeOK
  <1>5. /\ notices' <= (IF recvPc' = "ended" THEN 1 ELSE 0)
                         + (IF sendPc' \in {"join", "ended"} THEN 1 ELSE 0)
        /\ udpPc' = "ended" => flag'
        /\ mainPc' = "start" => recvPc' = "none" /\ sendPc' = "none"
        /\ sendPc' \in {"none", "start"} => udpPc' = "none"
    BY PointsStep
  <1>6. /\ udpq' \in Seq(Packets') /\ smooth' \in Seq(Packets')
        /\ sent' \in Seq(Packets') /\ dropped' \in Seq(Packets')
    BY <1>1, <1>2
  <1>7. /\ recvPc' = "send" => taken' < opts'.count
        /\ ~UseSmoother' => smooth' = <<>>
    BY <1>1, <1>2
  <1>8. QED BY <1>4, <1>5, <1>6, <1>7 DEF PacketInv

(* Every variable of the threads has its type; the queues are bounded.     *)
THEOREM TypeCorrect == Spec => []TypeOK
<1>1. Spec => []PacketInv
  BY PacketInit, PacketStep, PTL DEF Spec
<1>2. PacketInv => TypeOK
  BY DEF PacketInv
<1>3. QED BY <1>1, <1>2, PTL
-----------------------------------------------------------------------------
(* What a playback that ends by itself leaves unsent.                      *)

(* At the start nothing is counted.                                        *)
LEMMA CountInit == Init => CountInv
  <1> SUFFICES ASSUME Init PROVE CountInv
    OBVIOUS
  <1>1. /\ taken = 0 /\ segq = <<>> /\ buffer = <<>> /\ smooth = <<>> /\ udpq = <<>>
        /\ sent = <<>> /\ dropped = <<>> /\ PacketCells \in Nat
    BY SenderAssumption DEF Init
  <1>2. Len(sent) = 0 /\ Len(dropped) = 0 /\ Len(udpq) = 0 /\ Len(smooth) = 0 /\ Len(buffer) = 0
    BY <1>1
  <1>3. Cut = 0
    BY <1>2 DEF Cut
  <1>4. FlattenSeq(segq) = <<>>
    BY <1>1, FlattenEmpty
  <1>5. Len(FlattenSeq(segq)) = 0
    BY <1>4
  <1>6. 0 * PacketCells = 0
    BY <1>1
  <1>7. CellsBefore[taken + 1] = 0
    BY <1>1, CellsBeforeStep
  <1>8. QED BY <1>2, <1>3, <1>5, <1>6, <1>7 DEF CountInv

(* Data only move from one place to the next.                              *)
LEMMA CountStep == PacketInv /\ CountInv /\ [Next]_vars => CountInv'
  <1> SUFFICES ASSUME PacketInv, CountInv, [Next]_vars PROVE CountInv'
    OBVIOUS
  <1> USE DEF mainVars, recvVars, sendVars, udpVars
  <1> DEFINE U == Seq(Cell)
             waiting == Len(FlattenSeq(segq))
             before == CellsBefore[taken + 1]
  <1>1. /\ segq \in Seq(U) /\ buffer \in U /\ Len(buffer) \in Nat /\ waiting \in Nat
        /\ udpq \in Seq(Packets) /\ smooth \in Seq(Packets)
        /\ sent \in Seq(Packets) /\ dropped \in Seq(Packets)
        /\ Len(udpq) \in Nat /\ Len(smooth) \in Nat
        /\ Len(sent) \in Nat /\ Len(dropped) \in Nat
        /\ PacketCells \in Nat /\ Cut \in Nat
    BY DataTypes
  <1>2. before = Cut * PacketCells + Len(buffer) + waiting
    BY DEF CountInv
  <1>3. Cut * PacketCells \in Nat
    BY <1>1
  <1> HIDE DEF U, Packets, Cell, waiting, before
  <1>4. ASSUME UNCHANGED <<taken, segq, buffer>>, Cut' = Cut
        PROVE  CountInv'
    BY <1>2, <1>4 DEF CountInv, waiting, before
  <1>5. CASE RecvSend
    <2>1. /\ UNCHANGED <<buffer, smooth, udpq, sent, dropped>> /\ taken < opts.count
          /\ \/ UNCHANGED <<taken, segq>>
             \/ taken' = taken + 1 /\ segq' = Append(segq, Cells(taken + 1))
      BY <1>5 DEF RecvSend, PacketInv
    <2>2. CASE UNCHANGED <<taken, segq>>
      BY <1>4, <2>1, <2>2 DEF Cut
    <2>3. CASE taken' = taken + 1 /\ segq' = Append(segq, Cells(taken + 1))
      <3> DEFINE c == Cells(taken + 1)
                 f == FlattenSeq(segq)
      <3>1. /\ c \in U /\ before \in Nat /\ SegmentCells[taken + 1] \in Nat
            /\ Len(c) = SegmentCells[taken + 1]
            /\ CellsBefore[taken' + 1] = before + SegmentCells[taken + 1]
        BY <2>1, <2>3, CellsType DEF U, before
      <3>2. f \in U /\ FlattenSeq(segq') = f \o c
        BY <1>1, <2>3, <3>1, FlattenType, FlattenAppend DEF U
      <3> HIDE DEF c, f
      <3>3. Len(f \o c) = Len(f) + Len(c)
        BY <3>1, <3>2, ConcatProperties DEF U
      <3>4. Len(FlattenSeq(segq')) = waiting + SegmentCells[taken + 1]
        BY <3>1, <3>2, <3>3 DEF waiting, f
      <3>5. Cut' = Cut /\ Len(buffer') = Len(buffer)
        BY <2>1 DEF Cut
      <3>6. \A a, b, w, n \in Nat : (a + b + w) + n = a + b + (w + n)
        OBVIOUS
      <3>7. before + SegmentCells[taken + 1]
              = Cut * PacketCells + Len(buffer) + (waiting + SegmentCells[taken + 1])
        BY <1>1, <1>2, <1>3, <3>1, <3>6
      <3>8. QED BY <3>1, <3>4, <3>5, <3>7 DEF CountInv
    <2>4. QED BY <2>1, <2>2, <2>3
  <1>6. CASE SendRecv
    <2>1. /\ UNCHANGED <<taken, smooth, udpq, sent, dropped>>
          /\ segq # <<>> /\ segq' = Tail(segq) /\ buffer' = buffer \o Head(segq)
      BY <1>6 DEF SendRecv
    <2> DEFINE h == Head(segq)
               t == Tail(segq)
    <2>2. h \in U /\ t \in Seq(U) /\ segq = <<h>> \o t
      BY <1>1, <2>1, HeadTailProperties
    <2>3. FlattenSeq(t) \in U /\ FlattenSeq(segq) = h \o FlattenSeq(t)
      <3> HIDE DEF h, t
      <3>1. QED BY <2>2, FlattenType, FlattenCons DEF U
    <2> DEFINE f == FlattenSeq(t)
    <2>4. Len(h \o f) = Len(h) + Len(f) /\ Len(buffer \o h) = Len(buffer) + Len(h)
          /\ Len(h) \in Nat /\ Len(f) \in Nat
      <3> HIDE DEF h, f
      <3>1. QED BY <1>1, <2>2, <2>3, ConcatProperties, LenProperties DEF U, f
    <2>5. waiting = Len(h) + Len(f)
      BY <2>3, <2>4 DEF waiting
    <2>6. \A a, b, c, d \in Nat : a + b + (c + d) = a + (b + c) + d
      OBVIOUS
    <2>7. before = Cut * PacketCells + (Len(buffer) + Len(h)) + Len(f)
      <3> HIDE DEF h, f
      <3>1. QED BY <1>1, <1>2, <1>3, <2>4, <2>5, <2>6
    <2>8. /\ Cut' = Cut /\ Len(buffer') = Len(buffer) + Len(h)
          /\ Len(FlattenSeq(segq')) = Len(f) /\ CellsBefore[taken' + 1] = before
      BY <2>1, <2>4 DEF Cut, before
    <2>9. QED BY <2>7, <2>8 DEF CountInv
  <1>7. CASE SendPacket
    <2>1. MayCut /\ buffer' = Rest /\ UNCHANGED <<taken, segq, sent>>
      BY <1>7 DEF SendPacket
    <2>2. /\ Packet \in Packets /\ Rest \in U /\ Len(buffer) = PacketCells + Len(Rest)
          /\ Len(Rest) \in Nat
      BY <2>1, PacketType, LenProperties DEF U
    <2>3. \/ smooth' = Append(smooth, Packet) /\ UNCHANGED <<udpq, dropped>>
          \/ dropped' = Append(dropped, Packet) /\ UNCHANGED <<smooth, udpq>>
          \/ udpq' = Append(udpq, Packet) /\ UNCHANGED <<smooth, dropped>>
      BY <1>7 DEF SendPacket
    <2>4. /\ Len(Append(smooth, Packet)) = Len(smooth) + 1
          /\ Len(Append(dropped, Packet)) = Len(dropped) + 1
          /\ Len(Append(udpq, Packet)) = Len(udpq) + 1
      BY <1>1, <2>2, AppendProperties
    <2>5. Cut' = Cut + 1
      <3>1. \A a, b, c, d \in Nat : /\ a + (b + 1) + c + d = a + b + c + d + 1
                                    /\ a + b + (c + 1) + d = a + b + c + d + 1
                                    /\ a + b + c + (d + 1) = a + b + c + d + 1
        OBVIOUS
      <3>2. CASE smooth' = Append(smooth, Packet) /\ UNCHANGED <<udpq, dropped>>
        BY <1>1, <2>1, <2>4, <3>1, <3>2 DEF Cut
      <3>3. CASE dropped' = Append(dropped, Packet) /\ UNCHANGED <<smooth, udpq>>
        BY <1>1, <2>1, <2>4, <3>1, <3>3 DEF Cut
      <3>4. CASE udpq' = Append(udpq, Packet) /\ UNCHANGED <<smooth, dropped>>
        BY <1>1, <2>1, <2>4, <3>1, <3>4 DEF Cut
      <3>5. QED BY <2>3, <3>2, <3>3, <3>4
    <2>6. \A n, p, r, w \in Nat : n * p + (p + r) + w = (n + 1) * p + r + w
      OBVIOUS
    <2>7. before = (Cut + 1) * PacketCells + Len(Rest) + waiting
      BY <1>1, <1>2, <2>2, <2>6
    <2>8. CellsBefore[taken' + 1] = before /\ Len(FlattenSeq(segq')) = waiting
      BY <2>1 DEF before, waiting
    <2>9. QED BY <2>1, <2>5, <2>7, <2>8 DEF CountInv
  <1>8. CASE SendFinish
    <2>1. /\ smooth' = <<>> /\ dropped' = dropped \o smooth
          /\ UNCHANGED <<taken, segq, buffer, udpq, sent>>
      BY <1>8 DEF SendFinish
    <2>2. Len(dropped \o smooth) = Len(dropped) + Len(smooth) /\ Len(<<>>) = 0
      BY <1>1, ConcatProperties
    <2>3. \A a, b, c, d \in Nat : a + (b + d) + c + 0 = a + b + c + d
      OBVIOUS
    <2>4. Cut' = Cut
      BY <1>1, <2>1, <2>2, <2>3 DEF Cut
    <2>5. QED BY <1>4, <2>1, <2>4
  <1>9. CASE SmootherOut
    <2>1. /\ smooth # <<>> /\ UNCHANGED <<taken, segq, buffer, sent, dropped>>
          /\ \/ UNCHANGED <<smooth, udpq>>
             \/ udpq' = Append(udpq, Head(smooth)) /\ smooth' = Tail(smooth)
      BY <1>9 DEF SmootherOut
    <2>2. /\ Len(Append(udpq, Head(smooth))) = Len(udpq) + 1
          /\ Len(Tail(smooth)) = Len(smooth) - 1 /\ Len(smooth) - 1 \in Nat
      <3>1. Head(smooth) \in Packets /\ Len(Tail(smooth)) = Len(smooth) - 1
            /\ Len(Tail(smooth)) \in Nat
        BY <1>1, <2>1, HeadTailProperties, LenProperties
      <3>2. QED BY <1>1, <3>1, AppendProperties
    <2>3. \A a, b, c, d \in Nat : a + b + (c + 1) + (d - 1) = a + b + c + d
      OBVIOUS
    <2>4. Cut' = Cut
      <3>1. CASE UNCHANGED <<smooth, udpq>>
        BY <2>1, <3>1 DEF Cut
      <3>2. CASE udpq' = Append(udpq, Head(smooth)) /\ smooth' = Tail(smooth)
        BY <1>1, <2>1, <2>2, <2>3, <3>2 DEF Cut
      <3>3. QED BY <2>1, <3>1, <3>2
    <2>5. QED BY <1>4, <2>1, <2>4
  <1>10. CASE UdpPacket
    <2>1. /\ udpq # <<>> /\ udpq' = Tail(udpq)
          /\ UNCHANGED <<taken, segq, buffer, smooth>>
          /\ \/ sent' = sent /\ dropped' = Append(dropped, Head(udpq))
             \/ sent' = Append(sent, Head(udpq)) /\ dropped' = dropped
      BY <1>10 DEF UdpPacket
    <2>2. /\ Len(Append(sent, Head(udpq))) = Len(sent) + 1
          /\ Len(Append(dropped, Head(udpq))) = Len(dropped) + 1
          /\ Len(Tail(udpq)) = Len(udpq) - 1
      <3>1. Head(udpq) \in Packets /\ Len(Tail(udpq)) = Len(udpq) - 1
        BY <1>1, <2>1, HeadTailProperties
      <3>2. QED BY <1>1, <3>1, AppendProperties
    <2>3. \A a, b, c, d \in Nat : /\ (a + 1) + b + (c - 1) + d = a + b + c + d
                                  /\ a + (b + 1) + (c - 1) + d = a + b + c + d
      OBVIOUS
    <2>4. Cut' = Cut
      <3>1. CASE sent' = sent /\ dropped' = Append(dropped, Head(udpq))
        BY <1>1, <2>1, <2>2, <2>3, <3>1 DEF Cut
      <3>2. CASE sent' = Append(sent, Head(udpq)) /\ dropped' = dropped
        BY <1>1, <2>1, <2>2, <2>3, <3>2 DEF Cut
      <3>3. QED BY <2>1, <3>1, <3>2
    <2>5. QED BY <1>4, <2>1, <2>4
  <1>11. CASE ~Moves
    <2>1. UNCHANGED <<taken, segq, buffer, smooth, udpq, sent, dropped>>
      BY <1>11, Quiet
    <2>2. QED BY <1>4, <2>1 DEF Cut
  <1>12. QED
    BY <1>5, <1>6, <1>7, <1>8, <1>9, <1>10, <1>11 DEF Moves

(* A sender that could not start, which nobody is told.                    *)
Unstarted == sendPc = "ended" /\ udpPc = "none"

(* How a playback without CTRL+C ends: the flag comes from a notice, the   *)
(* notice from a sender that found its queue empty and the receiver gone,  *)
(* and the receiver goes when the list is through.                         *)
EndInv ==
    /\ signals = 0 /\ (flag \/ notices > 0) => sendPc \in {"join", "ended"}
    /\ ~UseSmoother /\ sendPc \in {"none", "start", "recv"} => Len(buffer) < PacketCells
    /\ signals = 0 /\ ~Unstarted /\ recvPc = "ended" => taken = opts.count
    /\ signals = 0 /\ ~Unstarted /\ sendPc \in {"finish", "join", "ended"} =>
         /\ recvPc = "ended" /\ segq = <<>>
         /\ ~UseSmoother => Len(buffer) < PacketCells
    /\ mainPc \in {"join_receiver", "exit"} => sendPc = "ended"
    /\ mainPc = "exit" => recvPc = "ended"

(* At the start nothing has been told or ended.                            *)
LEMMA EndInit == Init => EndInv
  <1> SUFFICES ASSUME Init PROVE EndInv
    OBVIOUS
  <1>1. buffer = <<>> /\ 0 < PacketCells
    BY SenderAssumption DEF Init
  <1>2. Len(buffer) < PacketCells
    BY <1>1
  <1>3. /\ signals = 0 /\ flag = FALSE /\ notices = 0 /\ sendPc = "none"
        /\ recvPc = "none" /\ mainPc = "start"
    BY DEF Init
  <1>4. QED BY <1>2, <1>3 DEF EndInv

(* The flag and the notices, while nobody presses CTRL+C.                  *)
LEMMA TellStep ==
    ASSUME PacketInv, EndInv, [Next]_vars, signals' = 0
    PROVE  /\ signals = 0
           /\ flag' \/ notices' > 0 => sendPc' \in {"join", "ended"}
           /\ ~Unstarted' => ~Unstarted
  <1> USE DEF mainVars, recvVars, sendVars, udpVars
  <1>1. /\ notices \in Nat /\ signals \in Nat /\ flag \in BOOLEAN
        /\ mainPc = "start" => sendPc = "none"
    BY SenderAssumption DEF PacketInv, TypeOK
  <1>2. signals = 0 /\ ~CtrlC
    <2>1. signals' = signals \/ (CtrlC /\ signals' = signals + 1)
      BY DEF Next, vars, Receiver, RecvDownload, RecvSend, RecvEnds, Sender, SendStart,
         SendRecv, SendDisconnected, SendThrottled, SendPacket, SendDrained, SendFinish,
         SendJoined, SmootherOut, Udp, UdpPacket, UdpSeesFlag, Main, MainStart, MainPoll,
         MainJoins, MainWaits, UdpWaits, CtrlC, Terminated
    <2>2. CtrlC => signals' = signals + 1
      BY DEF CtrlC
    <2>3. QED BY <1>1, <2>1, <2>2
  <1>3. flag \/ notices > 0 => sendPc \in {"join", "ended"}
    BY <1>2 DEF EndInv
  <1>4. sendPc \in {"join", "ended"} => sendPc' \in {"join", "ended"}
    <2>1. CASE MainStart
      BY <1>1, <2>1 DEF MainStart
    <2>2. CASE ~MainStart
      BY <2>2
         DEF Next, vars, Receiver, RecvDownload, RecvSend, RecvEnds, Sender, SendStart,
         SendRecv, SendDisconnected, SendThrottled, SendPacket, SendDrained, SendFinish,
         SendJoined, SmootherOut, Udp, UdpPacket, UdpSeesFlag, Main, MainPoll,
         MainJoins, MainWaits, UdpWaits, CtrlC, Terminated
    <2>3. QED BY <2>1, <2>2
  <1>5. flag' \/ notices' > 0 => sendPc' \in {"join", "ended"}
    <2>1. CASE RecvSend
      <3>1. flag' = flag /\ sendPc' = sendPc /\ (sendPc = "ended" \/ notices' = notices)
        BY <2>1 DEF RecvSend
      <3>2. QED BY <1>3, <3>1
    <2>2. CASE SendFinish
      BY <2>2 DEF SendFinish
    <2>3. CASE MainPoll
      <3>1. flag \/ notices > 0
        BY <2>3 DEF MainPoll, Noticed
      <3>2. QED BY <1>3, <1>4, <3>1
    <2>4. CASE ~RecvSend /\ ~SendFinish /\ ~MainPoll
      <3>1. flag' = flag /\ notices' = notices
        BY <1>2, <2>4
           DEF Next, vars, Receiver, RecvDownload, RecvEnds, Sender, SendStart,
           SendRecv, SendDisconnected, SendThrottled, SendPacket, SendDrained,
           SendJoined, SmootherOut, Udp, UdpPacket, UdpSeesFlag, Main, MainStart,
           MainJoins, MainWaits, UdpWaits, Terminated
      <3>2. QED BY <1>3, <1>4, <3>1
    <2>5. QED BY <2>1, <2>2, <2>3, <2>4
  <1>6. Unstarted => Unstarted'
    <2>1. CASE MainStart
      BY <1>1, <2>1 DEF MainStart, Unstarted
    <2>2. CASE ~MainStart
      <3> SUFFICES ASSUME sendPc = "ended", udpPc = "none"
                   PROVE  sendPc' = "ended" /\ udpPc' = "none"
        BY DEF Unstarted
      <3>1. QED
        BY <2>2
           DEF Next, vars, Receiver, RecvDownload, RecvSend, RecvEnds, Sender, SendStart,
           SendRecv, SendDisconnected, SendThrottled, SendPacket, SendDrained, SendFinish,
           SendJoined, SmootherOut, Udp, UdpPacket, UdpSeesFlag, Main, MainPoll,
           MainJoins, MainWaits, UdpWaits, CtrlC, Terminated
    <2>3. QED BY <2>1, <2>2
  <1>7. QED BY <1>2, <1>5, <1>6

(* The buffer is short wherever the sender may wait or end.                *)
LEMMA ShortStep ==
    ASSUME PacketInv, EndInv, [Next]_vars, ~UseSmoother,
           sendPc' \in {"none", "start", "recv"}
    PROVE  Len(buffer') < PacketCells
  <1> USE DEF mainVars, recvVars, sendVars, udpVars
  <1>1. Len(buffer) \in Nat /\ PacketCells \in Nat /\ (mainPc = "start" => sendPc = "none")
    BY DataTypes DEF PacketInv
  <1>2. sendPc \in {"none", "start", "recv"} => Len(buffer) < PacketCells
    BY DEF EndInv
  <1>3. CASE SendDrained
    <2>1. ~MayCut /\ buffer' = buffer
      BY <1>3 DEF SendDrained
    <2>2. Len(buffer) < PacketCells
      BY <1>1, <2>1 DEF MayCut
    <2>3. QED BY <2>1, <2>2
  <1>4. CASE ~SendDrained
    <2>1. buffer' = buffer /\ sendPc \in {"none", "start", "recv"}
      BY <1>1, <1>4
         DEF Next, vars, Receiver, RecvDownload, RecvSend, RecvEnds, Sender, SendStart,
         SendRecv, SendDisconnected, SendThrottled, SendPacket, SendFinish,
         SendJoined, SmootherOut, Udp, UdpPacket, UdpSeesFlag, Main, MainStart, MainPoll,
         MainJoins, MainWaits, UdpWaits, CtrlC, Terminated
    <2>2. QED BY <1>2, <2>1
  <1>5. QED BY <1>3, <1>4

(* The receiver ends with its list; the sender, when it has all of it.     *)
LEMMA ThroughStep ==
    ASSUME PacketInv, EndInv, [Next]_vars, signals' = 0, ~Unstarted'
    PROVE  /\ recvPc' = "ended" => taken' = opts.count
           /\ sendPc' \in {"finish", "join", "ended"} =>
                /\ recvPc' = "ended" /\ segq' = <<>>
                /\ ~UseSmoother => Len(buffer') < PacketCells
  <1> USE DEF mainVars, recvVars, sendVars, udpVars
  <1>1. signals = 0 /\ ~Unstarted
    BY TellStep
  <1>2. /\ recvPc = "ended" => taken = opts.count
        /\ sendPc \in {"finish", "join", "ended"} =>
             /\ recvPc = "ended" /\ segq = <<>>
             /\ ~UseSmoother => Len(buffer) < PacketCells
        /\ flag => sendPc \in {"join", "ended"}
        /\ mainPc = "start" => recvPc = "none" /\ sendPc = "none"
    BY <1>1 DEF EndInv, PacketInv
  <1>3. ~UseSmoother /\ sendPc = "recv" => Len(buffer) < PacketCells
    BY DEF EndInv
  <1>4. recvPc' = "ended" => taken' = opts.count
    <2>1. CASE RecvEnds
      BY <1>2, <2>1 DEF RecvEnds
    <2>2. CASE RecvSend
      BY <1>2, <2>2 DEF RecvSend
    <2>3. CASE ~RecvEnds /\ ~RecvSend
      <3>1. taken' = taken /\ (recvPc' = "ended" => recvPc = "ended")
        BY <2>3
           DEF Next, vars, Receiver, RecvDownload, Sender, SendStart,
           SendRecv, SendDisconnected, SendThrottled, SendPacket, SendDrained, SendFinish,
           SendJoined, SmootherOut, Udp, UdpPacket, UdpSeesFlag, Main, MainStart, MainPoll,
           MainJoins, MainWaits, UdpWaits, CtrlC, Terminated
      <3>2. QED BY <1>2, <3>1
    <2>4. QED BY <2>1, <2>2, <2>3
  <1>5. CASE sendPc \in {"finish", "join", "ended"}
    <2>1. recvPc = "ended" /\ segq = <<>>
      BY <1>2, <1>5
    <2>2. UNCHANGED <<recvPc, segq, buffer>>
      BY <1>2, <1>5, <2>1
         DEF Next, vars, Receiver, RecvDownload, RecvSend, RecvEnds, Sender, SendStart,
         SendRecv, SendDisconnected, SendThrottled, SendPacket, SendDrained, SendFinish,
         SendJoined, SmootherOut, Udp, UdpPacket, UdpSeesFlag, Main, MainStart, MainPoll,
         MainJoins, MainWaits, UdpWaits, CtrlC, Terminated
    <2>3. QED BY <1>2, <1>4, <1>5, <2>2
  <1>6. CASE sendPc \notin {"finish", "join", "ended"}
    <2>1. CASE SendDisconnected
      <3>1. sendPc = "recv" /\ recvPc = "ended" /\ segq = <<>> /\ UNCHANGED <<recvPc, segq, buffer>>
        BY <2>1 DEF SendDisconnected, Drained
      <3>2. QED BY <1>3, <1>4, <3>1
    <2>2. CASE SendThrottled
      <3>1. sendPc' = "drain"
        BY <1>2, <1>6, <2>2 DEF SendThrottled
      <3>2. QED BY <1>4, <3>1
    <2>3. CASE SendStart
      <3>1. sendPc' # "ended" /\ sendPc' \notin {"finish", "join"}
        <4>1. sendPc' = "recv" \/ (sendPc' = "ended" /\ udpPc' = udpPc)
          BY <2>3 DEF SendStart
        <4>2. sendPc = "start"
          BY <2>3 DEF SendStart
        <4>3. udpPc = "none"
          BY <4>2 DEF PacketInv
        <4>4. QED BY <4>1, <4>3 DEF Unstarted
      <3>2. QED BY <1>4, <3>1
    <2>4. CASE ~SendDisconnected /\ ~SendThrottled /\ ~SendStart
      <3>1. sendPc' \notin {"finish", "join", "ended"}
        BY <1>6, <2>4
           DEF Next, vars, Receiver, RecvDownload, RecvSend, RecvEnds, Sender,
           SendRecv, SendPacket, SendDrained, SendFinish,
           SendJoined, SmootherOut, Udp, UdpPacket, UdpSeesFlag, Main, MainStart, MainPoll,
           MainJoins, MainWaits, UdpWaits, CtrlC, Terminated
      <3>2. QED BY <1>4, <3>1
    <2>5. QED BY <2>1, <2>2, <2>3, <2>4
  <1>7. QED BY <1>4, <1>5, <1>6

(* main joins the sender, then the receiver.                               *)
LEMMA JoinStep ==
    ASSUME PacketInv, EndInv, [Next]_vars
    PROVE  /\ mainPc' \in {"join_receiver", "exit"} => sendPc' = "ended"
           /\ mainPc' = "exit" => recvPc' = "ended"
  <1> USE DEF mainVars, recvVars, sendVars, udpVars
  <1>1. /\ mainPc \in {"join_receiver", "exit"} => sendPc = "ended"
        /\ mainPc = "exit" => recvPc = "ended"
    BY DEF EndInv
  <1>2. CASE MainJoins
    BY <1>1, <1>2 DEF MainJoins
  <1>3. CASE ~MainJoins
    <2>1. mainPc' \in {"join_receiver", "exit"} => mainPc' = mainPc
      BY <1>3
         DEF Next, vars, Receiver, RecvDownload, RecvSend, RecvEnds, Sender, SendStart,
         SendRecv, SendDisconnected, SendThrottled, SendPacket, SendDrained, SendFinish,
         SendJoined, SmootherOut, Udp, UdpPacket, UdpSeesFlag, Main, MainStart, MainPoll,
         MainWaits, UdpWaits, CtrlC, Terminated
    <2>2. mainPc \in {"join_receiver", "exit"} /\ sendPc = "ended" => sendPc' = "ended"
      BY DEF Next, vars, Receiver, RecvDownload, RecvSend, RecvEnds, Sender, SendStart,
         SendRecv, SendDisconnected, SendThrottled, SendPacket, SendDrained, SendFinish,
         SendJoined, SmootherOut, Udp, UdpPacket, UdpSeesFlag, Main, MainStart, MainPoll,
         MainJoins, MainWaits, UdpWaits, CtrlC, Terminated
    <2>3. mainPc = "exit" /\ recvPc = "ended" => recvPc' = "ended"
      BY DEF Alive, Next, vars, Receiver, RecvDownload, RecvSend, RecvEnds, Sender, SendStart,
         SendRecv, SendDisconnected, SendThrottled, SendPacket, SendDrained, SendFinish,
         SendJoined, SmootherOut, Udp, UdpPacket, UdpSeesFlag, Main, MainStart, MainPoll,
         MainJoins, MainWaits, UdpWaits, CtrlC, Terminated
    <2>4. QED BY <1>1, <2>1, <2>2, <2>3
  <1>4. QED BY <1>2, <1>3

(* The four facts together.                                                *)
LEMMA EndStep == PacketInv /\ EndInv /\ [Next]_vars => EndInv'
  <1> SUFFICES ASSUME PacketInv, EndInv, [Next]_vars PROVE EndInv'
    OBVIOUS
  <1>1. UseSmoother' = UseSmoother /\ opts' = opts
    BY OptsKept
  <1>2. ASSUME signals' = 0
        PROVE  flag' \/ notices' > 0 => sendPc' \in {"join", "ended"}
    BY <1>2, TellStep
  <1>3. ASSUME ~UseSmoother, sendPc' \in {"none", "start", "recv"}
        PROVE  Len(buffer') < PacketCells
    BY <1>3, ShortStep
  <1>4. ASSUME signals' = 0, ~Unstarted'
        PROVE  /\ recvPc' = "ended" => taken' = opts.count
               /\ sendPc' \in {"finish", "join", "ended"} =>
                    /\ recvPc' = "ended" /\ segq' = <<>>
                    /\ ~UseSmoother => Len(buffer') < PacketCells
    BY <1>4, ThroughStep
  <1>5. /\ mainPc' \in {"join_receiver", "exit"} => sendPc' = "ended"
        /\ mainPc' = "exit" => recvPc' = "ended"
    BY JoinStep
  <1>6. QED BY <1>1, <1>2, <1>3, <1>4, <1>5 DEF EndInv

(* All cells are counted at the end: those sent or given up, those in the  *)
(* UDP queue, and a remainder shorter than a packet.                       *)
LEMMA EndCounts ==
    ASSUME PacketInv, CountInv, EndInv
    PROVE  EndLosesAtMostTheQueue
  <1> SUFFICES ASSUME mainPc = "exit", signals = 0, ~UseSmoother, udpPc # "none"
               PROVE  Total - Len(FlattenSeq(sent \o dropped))
                        <= UdpCap * PacketCells + PacketCells - 1
    BY DEF EndLosesAtMostTheQueue
  <1>1. taken = opts.count /\ segq = <<>> /\ Len(buffer) < PacketCells
    BY DEF EndInv, Unstarted
  <1>2. smooth = <<>> /\ Len(FlattenSeq(segq)) = 0 /\ Len(smooth) = 0
    BY <1>1, FlattenEmpty DEF PacketInv
  <1>3. /\ sent \in Seq(Packets) /\ dropped \in Seq(Packets) /\ udpq \in Seq(Packets)
        /\ Len(udpq) <= UdpCap
    BY DEF PacketInv, TypeOK
  <1>4. PacketCells \in Nat /\ UdpCap \in Nat /\ Len(buffer) \in Nat
    BY SenderAssumption, DataTypes
  <1>5. Len(FlattenSeq(sent \o dropped)) = (Len(sent) + Len(dropped)) * PacketCells
    <2> DEFINE ss == sent \o dropped
    <2>1. ss \in Seq(Packets) /\ Len(ss) = Len(sent) + Len(dropped)
      <3> HIDE DEF Packets
      <3>1. QED BY <1>3
    <2>2. ss \in Seq(Seq(Cell)) /\ \A i \in 1..Len(ss) : Len(ss[i]) = PacketCells
      <3>1. ss \in Seq(Seq(Cell))
        BY <2>1, PacketsType
      <3>2. \A i \in 1..Len(ss) : ss[i] \in Packets
        <4> HIDE DEF Packets, ss
        <4>1. QED BY <2>1
      <3>3. QED BY <3>1, <3>2 DEF Packets
    <2> HIDE DEF ss
    <2>3. Len(FlattenSeq(ss)) = Len(ss) * PacketCells
      BY <1>4, <2>2, FlattenLen
    <2>4. QED BY <2>1, <2>3 DEF ss
  <1>6. Total = Cut * PacketCells + Len(buffer)
    BY <1>1, <1>2, <1>4 DEF CountInv, Total, Cut
  <1>7. \A s, d, q, u, p, b \in Nat : q <= u /\ b < p =>
          ((s + d + q + 0) * p + b + 0) - (s + d) * p <= u * p + p - 1
    <2>1. \A a, b, p \in Nat : a <= b => a * p <= b * p
      OBVIOUS
    <2>2. \A s, q, p \in Nat : (s + q) * p = s * p + q * p
      OBVIOUS
    <2>3. TAKE s, d, q, u, p, b \in Nat
    <2>4. HAVE q <= u /\ b < p
    <2>5. ((s + d) + q) * p = (s + d) * p + q * p /\ q * p <= u * p
      BY <2>1, <2>2, <2>4
    <2>6. s + d + q + 0 = (s + d) + q
      OBVIOUS
    <2> DEFINE A == (s + d) * p
               B == q * p
               C == u * p
    <2>7. A \in Nat /\ B \in Nat /\ C \in Nat
      OBVIOUS
    <2>8. (s + d + q + 0) * p = A + B /\ B <= C
      BY <2>5, <2>6
    <2> HIDE DEF A, B, C
    <2>9. (A + B + b + 0) - A <= C + p - 1
      BY <2>4, <2>7, <2>8
    <2>10. QED BY <2>8, <2>9 DEF A, C
  <1>8. /\ Len(sent) \in Nat /\ Len(dropped) \in Nat /\ Len(udpq) \in Nat
        /\ Cut = Len(sent) + Len(dropped) + Len(udpq) + 0
    BY <1>2, <1>3 DEF Cut
  <1>9. Total = (Len(sent) + Len(dropped) + Len(udpq) + 0) * PacketCells + Len(buffer) + 0
    BY <1>6, <1>8, <1>4
  <1>10. QED BY <1>1, <1>3, <1>4, <1>5, <1>7, <1>8, <1>9

(* A playback that ends by itself leaves unsent, besides what it gave up,  *)
(* no more than a full UDP queue and a piece of a packet.                  *)
THEOREM EndLosesCorrect == Spec => []EndLosesAtMostTheQueue
<1>1. Spec => []PacketInv
  BY PacketInit, PacketStep, PTL DEF Spec
<1>2. Init => CountInv /\ EndInv
  BY CountInit, EndInit
<1>3. PacketInv /\ CountInv /\ EndInv /\ [Next]_vars => CountInv' /\ EndInv'
  BY CountStep, EndStep
<1>4. PacketInv /\ CountInv /\ EndInv => EndLosesAtMostTheQueue
  BY EndCounts
<1>5. QED BY <1>1, <1>2, <1>3, <1>4, PTL DEF Spec
-----------------------------------------------------------------------------
(* The relay: sequences joined and cut.                                    *)

Associates(a, b, c, d, e) ==
    /\ ((a \o b) \o c) \o (d \o e) = ((a \o b) \o (c \o d)) \o e
    /\ ((a \o b) \o (c \o d)) \o e = ((a \o (b \o c)) \o d) \o e
    /\ ((a \o b) \o (c \o d)) \o e = ((a \o b) \o c) \o (d \o e)
    /\ ((a \o (b \o c)) \o d) \o e = (((a \o b) \o c) \o d) \o e
    /\ (((a \o b) \o c) \o d) \o e = a \o (((b \o c) \o d) \o e)
    /\ ((a \o b) \o c) \o d = (a \o b) \o (c \o d)
    /\ (a \o b) \o c = a \o (b \o c) /\ a \o <<>> = a

(* Brackets between joined sequences may be moved.                         *)
LEMMA Reassociate ==
    ASSUME NEW S, NEW a \in Seq(S), NEW b \in Seq(S), NEW c \in Seq(S), NEW d \in Seq(S),
           NEW e \in Seq(S)
    PROVE  Associates(a, b, c, d, e)
  <1> DEFINE U == Seq(S)
             cat(x, y) == x \o y
  <1>1. a \in U /\ b \in U /\ c \in U /\ d \in U /\ e \in U
    OBVIOUS
  <1>2. \A x, y \in U : cat(x, y) \in U
    BY ConcatProperties
  <1>3. \A x, y, z \in U : cat(cat(x, y), z) = cat(x, cat(y, z))
    <2> SUFFICES ASSUME NEW x \in Seq(S), NEW y \in Seq(S), NEW z \in Seq(S)
                 PROVE  (x \o y) \o z = x \o (y \o z)
      OBVIOUS
    <2>1. QED BY ONLY ConcatAssociative, SMTT(30)
  <1>4. a \o <<>> = a
    BY ConcatEmptySeq
  <1> HIDE DEF U, cat
  <1> DEFINE ab == cat(a, b)
             bc == cat(b, c)
             cd == cat(c, d)
             de == cat(d, e)
             bcd == cat(bc, d)
  <1>5. ab \in U /\ bc \in U /\ cd \in U /\ de \in U /\ bcd \in U
    BY <1>1, <1>2
  <1>6. cat(c, de) = cat(cd, e) /\ cat(ab, c) = cat(a, bc)
    BY <1>1, <1>3
  <1> HIDE DEF ab, bc, de, bcd
  <1>7. cat(cat(ab, c), d) = cat(ab, cd)
    BY <1>1, <1>3, <1>5
  <1> HIDE DEF cd
  <1>8. cat(cat(ab, c), de) = cat(cat(ab, cd), e)
    BY <1>1, <1>3, <1>5, <1>6
  <1>9. cat(cat(ab, cd), e) = cat(cat(cat(a, bc), d), e)
    BY <1>6, <1>7
  <1>10. cat(cat(cat(ab, c), d), e) = cat(a, cat(bcd, e))
    <2>1. cat(cat(a, bc), d) = cat(a, bcd)
      BY <1>1, <1>3, <1>5 DEF bcd
    <2>2. cat(cat(a, bcd), e) = cat(a, cat(bcd, e))
      BY <1>1, <1>3, <1>5
    <2>3. QED BY <1>6, <2>1, <2>2
  <1>11. QED BY <1>4, <1>6, <1>7, <1>8, <1>9, <1>10
            DEF Associates, ab, bc, cd, de, bcd, cat

(* A front that is cut off, and a middle that is cut out.                  *)
Splits(w, a, b) ==
    /\ SubSeq(w, 1, Len(a)) = a /\ SubSeq(w, Len(a) + 1, Len(w)) = b
    /\ Len(w) = Len(a) + Len(b) /\ Len(a) \in Nat /\ Len(b) \in Nat
Shortens(w, v) ==
    \E i \in 0..Len(w) : \E j \in i..Len(w) :
       v = SubSeq(w, 1, i) \o SubSeq(w, j + 1, Len(w))

(* Two joined sequences are cut apart where they were joined.              *)
LEMMA CutFront ==
    ASSUME NEW S, NEW a \in Seq(S), NEW b \in Seq(S), NEW w, w = a \o b
    PROVE  Splits(w, a, b)
  BY DEF Splits

(* A middle part can be cut out.                                           *)
LEMMA CutOut ==
    ASSUME NEW S, NEW a \in Seq(S), NEW b \in Seq(S), NEW c \in Seq(S),
           NEW w, w = (a \o b) \o c
    PROVE  Shortens(w, a \o c)
  <1> DEFINE i == Len(a)
             j == Len(a) + Len(b)
             U == Seq(S)
  <1>1. /\ a \o b \in U /\ b \o c \in U /\ w = a \o (b \o c)
        /\ Len(a) \in Nat /\ Len(b) \in Nat /\ Len(c) \in Nat
    <2>1. (a \o b) \o c = a \o (b \o c)
      BY ONLY ConcatAssociative
    <2>2. QED BY <2>1
  <1>2. Len(a \o b) = j /\ Len(w) = j + Len(c)
    BY <1>1
  <1>3. SubSeq(w, 1, i) = a
    BY <1>1, CutFront DEF Splits
  <1>4. SubSeq(w, j + 1, Len(w)) = c
    <2>1. SubSeq(w, Len(a \o b) + 1, Len(w)) = c
      BY <1>1, CutFront DEF Splits
    <2>2. QED BY <1>2, <2>1
  <1>5. i \in 0..Len(w) /\ j \in i..Len(w)
    BY <1>1, <1>2
  <1>6. QED BY <1>3, <1>4, <1>5 DEF Shortens

(* The state of the relay that a state of the threads stands for.          *)
Fed == CellsBefore[taken + 1]
Inside == FlattenSeq(udpq) \o FlattenSeq(smooth) \o buffer \o FlattenSeq(segq)
Output == FlattenSeq(sent)
Closing == flag \/ sendPc \in {"finish", "join", "ended"}
Given == UNCHANGED <<Fed, Output, Closing>>

(* The parts of the view are sequences of cells.                           *)
LEMMA ViewTypes ==
    ASSUME PacketInv
    PROVE  /\ FlattenSeq(udpq) \in Seq(Cell) /\ FlattenSeq(smooth) \in Seq(Cell)
           /\ buffer \in Seq(Cell) /\ FlattenSeq(segq) \in Seq(Cell)
           /\ Output \in Seq(Cell) /\ Closing \in BOOLEAN
           /\ udpq \in Seq(Seq(Cell)) /\ smooth \in Seq(Seq(Cell))
           /\ segq \in Seq(Seq(Cell)) /\ sent \in Seq(Seq(Cell))
  <1>1. /\ udpq \in Seq(Seq(Cell)) /\ smooth \in Seq(Seq(Cell)) /\ sent \in Seq(Seq(Cell))
        /\ segq \in Seq(Seq(Cell)) /\ buffer \in Seq(Cell)
    BY DataTypes, PacketsType
  <1> HIDE DEF Cell
  <1>2. /\ FlattenSeq(udpq) \in Seq(Cell) /\ FlattenSeq(smooth) \in Seq(Cell)
        /\ FlattenSeq(segq) \in Seq(Cell) /\ FlattenSeq(sent) \in Seq(Cell)
    BY <1>1, FlattenType
  <1>3. flag \in BOOLEAN
    BY DEF PacketInv, TypeOK
  <1>4. QED BY <1>1, <1>2, <1>3 DEF Output, Closing

(* Steps of the relay, in these terms.                                     *)
LEMMA ViewStutters ==
    ASSUME Given, Inside' = Inside
    PROVE  UNCHANGED RelayView!rvars
  BY DEF Given, RelayView!rvars, Fed, Inside, Output, Closing

(* A segment of cells that goes in is a Feed.                              *)
LEMMA ViewFeeds ==
    ASSUME NEW k \in 1..Max(Range(SegmentCells)), Fed' = Fed + k, Output' = Output,
           Closing' = Closing, Inside' = Inside \o [i \in 1..k |-> Fed + i]
    PROVE  RelayView!RNext
  <1>1. RelayView!Feed(k)
    BY DEF RelayView!Feed, Fed, Inside, Output, Closing
  <1>2. QED BY <1>1 DEF RelayView!RNext

(* A packet at the front that comes out is an Emit.                        *)
LEMMA ViewEmits ==
    ASSUME PacketInv, NEW p \in Packets, NEW r \in Seq(Cell), Inside = p \o r, Inside' = r,
           Output' = Output \o p, Fed' = Fed, Closing' = Closing
    PROVE  RelayView!RNext
  <1>1. /\ SubSeq(Inside, 1, PacketCells) = p
        /\ SubSeq(Inside, PacketCells + 1, Len(Inside)) = r
        /\ Len(Inside) >= PacketCells
    <2>1. p \in Seq(Cell) /\ Len(p) = PacketCells /\ PacketCells \in Nat
      BY SenderAssumption DEF Packets
    <2> HIDE DEF Cell
    <2>2. Splits(Inside, p, r)
      BY <2>1, CutFront
    <2>3. /\ SubSeq(Inside, 1, Len(p)) = p
          /\ SubSeq(Inside, Len(p) + 1, Len(Inside)) = r
          /\ Len(Inside) = Len(p) + Len(r) /\ Len(r) \in Nat
      BY ONLY <2>2 DEF Splits
    <2>4. SubSeq(Inside, 1, PacketCells) = p
      BY ONLY <2>1, <2>3
    <2>5. SubSeq(Inside, PacketCells + 1, Len(Inside)) = r
      BY ONLY <2>1, <2>3
    <2>6. Len(Inside) >= PacketCells
      BY ONLY <2>1, <2>3
    <2>7. QED BY <2>4, <2>5, <2>6
  <1>2. RelayView!Emit
    BY <1>1 DEF RelayView!Emit, RelayView!Due, RelayView!Behind, Fed, Inside, Output, Closing
  <1>3. QED BY <1>2 DEF RelayView!RNext

(* A packet at the front that disappears is a Lose.                        *)
LEMMA ViewLoses ==
    ASSUME PacketInv, NEW p \in Packets, NEW r \in Seq(Cell), Inside = p \o r, Inside' = r,
           "socket" \in Faults, Given
    PROVE  RelayView!RNext
  <1>1. /\ SubSeq(Inside, PacketCells + 1, Len(Inside)) = r
        /\ Len(Inside) >= PacketCells
    <2>1. p \in Seq(Cell) /\ Len(p) = PacketCells /\ PacketCells \in Nat
      BY SenderAssumption DEF Packets
    <2> HIDE DEF Cell
    <2>2. Splits(Inside, p, r)
      BY <2>1, CutFront
    <2>3. QED BY <2>1, <2>2 DEF Splits
  <1>2. RelayView!Lose
    BY <1>1 DEF RelayView!Lose, RelayView!Behind, Given, Fed, Inside, Output, Closing
  <1>3. QED BY <1>2 DEF RelayView!RNext

(* While it closes, any part that disappears is a GiveUp.                  *)
LEMMA ViewGivesUp ==
    ASSUME NEW a \in Seq(Cell), NEW b \in Seq(Cell), NEW c \in Seq(Cell),
           Inside = (a \o b) \o c, Inside' = a \o c, Closing, Given
    PROVE  RelayView!RNext
  <1>1. \E i \in 0..Len(Inside) : \E j \in i..Len(Inside) :
           Inside' = SubSeq(Inside, 1, i) \o SubSeq(Inside, j + 1, Len(Inside))
    <2>1. Shortens(Inside, a \o c)
      BY CutOut
    <2>2. QED BY <2>1 DEF Shortens
  <1>2. RelayView!GiveUp
    BY <1>1 DEF RelayView!GiveUp, Given, Fed, Inside, Output, Closing
  <1>3. QED BY <1>2 DEF RelayView!RNext

(* The closing begins once, and nothing else happens with it.              *)
LEMMA ViewCloses ==
    ASSUME UNCHANGED <<Fed, Inside, Output>>, Closing \in BOOLEAN, Closing' \in BOOLEAN,
           Closing => Closing'
    PROVE  [RelayView!RNext]_(RelayView!rvars)
  <1>1. CASE Closing' = Closing
    BY <1>1, ViewStutters DEF Given
  <1>2. CASE ~Closing /\ Closing' = TRUE
    <2>1. RelayView!BeginClose
      BY <1>2 DEF RelayView!BeginClose, Fed, Inside, Output, Closing
    <2>2. QED BY <2>1 DEF RelayView!RNext
  <1>3. QED BY <1>1, <1>2

(* The receiver feeds the relay with the next segment.                     *)
LEMMA SegmentFeeds ==
    ASSUME PacketInv, RecvSend
    PROVE  [RelayView!RNext]_(RelayView!rvars)
  <1> USE DEF mainVars, recvVars, sendVars, udpVars
  <1>1. UNCHANGED <<udpq, smooth, buffer, Output, Closing>>
    BY DEF RecvSend, Output, Closing
  <1>2. CASE UNCHANGED <<taken, segq>>
    BY <1>1, <1>2, ViewStutters DEF Given, Fed, Inside
  <1>3. CASE taken' = taken + 1 /\ segq' = Append(segq, Cells(taken + 1))
    <2> DEFINE k == SegmentCells[taken + 1]
               c == Cells(taken + 1)
               x == FlattenSeq(udpq)
               y == FlattenSeq(smooth)
               z == FlattenSeq(segq)
    <2>1. taken < opts.count
      BY DEF RecvSend, PacketInv
    <2>2. /\ c \in Seq(Cell) /\ k \in 1..Max(Range(SegmentCells)) /\ Fed' = Fed + k
      <3>1. /\ c \in Seq(Cell) /\ taken + 1 \in 1..Len(SegmentCells)
            /\ CellsBefore[taken + 1 + 1] = Fed + k
        BY <2>1, CellsType DEF Fed
      <3>2. k \in Nat \ {0} /\ Max(Range(SegmentCells)) \in Nat /\ k <= Max(Range(SegmentCells))
        BY <3>1, MaxCells
      <3>3. k \in 1..Max(Range(SegmentCells))
        BY <3>2
      <3>4. QED BY <1>3, <3>1, <3>3 DEF Fed
    <2>3. c = [i \in 1..k |-> Fed + i]
      BY DEF Cells, Fed
    <2>4. /\ segq \in Seq(Seq(Cell)) /\ x \in Seq(Cell) /\ y \in Seq(Cell)
          /\ z \in Seq(Cell) /\ buffer \in Seq(Cell)
      BY ViewTypes
    <2> HIDE DEF c, x, y, z
    <2>5. FlattenSeq(segq') = z \o c
      BY <1>3, <2>2, <2>4, FlattenAppend DEF c, z
    <2>6. ((x \o y) \o buffer) \o (z \o c) = (((x \o y) \o buffer) \o z) \o c
      <3> DEFINE U == Seq(Cell)
                 w == (x \o y) \o buffer
      <3>1. w \in Seq(Cell)
        BY <2>4, ConcatProperties
      <3> HIDE DEF w
      <3>2. w \o (z \o c) = (w \o z) \o c
        BY ONLY <2>2, <2>4, <3>1, ConcatAssociative, SMTT(30)
      <3>3. QED BY <3>2 DEF w
    <2>7. Inside' = Inside \o c
      BY <1>1, <2>5, <2>6 DEF Inside, x, y, z
    <2>8. QED
      BY <1>1, <2>2, <2>3, <2>7, ViewFeeds
  <1>4. QED BY <1>2, <1>3 DEF RecvSend

(* A segment that enters the buffer stays where it is in the relay.        *)
LEMMA SegmentMoves ==
    ASSUME PacketInv, SendRecv
    PROVE  [RelayView!RNext]_(RelayView!rvars)
  <1> USE DEF mainVars, recvVars, sendVars, udpVars
  <1>1. /\ segq # <<>> /\ segq' = Tail(segq) /\ buffer' = buffer \o Head(segq)
        /\ UNCHANGED <<udpq, smooth>> /\ Given
    BY DEF SendRecv, Given, Fed, Output, Closing
  <1> DEFINE h == Head(segq)
             t == Tail(segq)
             x == FlattenSeq(udpq)
             y == FlattenSeq(smooth)
             U == Seq(Cell)
  <1>2. segq \in Seq(U) /\ x \in Seq(Cell) /\ y \in Seq(Cell) /\ buffer \in Seq(Cell)
    BY ViewTypes
  <1> HIDE DEF U
  <1>3. h \in U /\ t \in Seq(U) /\ segq = <<h>> \o t
    BY <1>1, <1>2, HeadTailProperties
  <1> HIDE DEF h, t
  <1>4. FlattenSeq(t) \in Seq(Cell) /\ FlattenSeq(segq) = h \o FlattenSeq(t) /\ h \in Seq(Cell)
    BY <1>3, FlattenType, FlattenCons DEF U
  <1> DEFINE f == FlattenSeq(t)
  <1> HIDE DEF x, y, f
  <1>5. ((x \o y) \o buffer) \o (h \o f) = ((x \o y) \o (buffer \o h)) \o f
    <2>1. Associates(x, y, buffer, h, f)
      BY <1>2, <1>4, Reassociate DEF f
    <2>2. QED BY ONLY <2>1 DEF Associates
  <1>6. Inside' = Inside
    BY <1>1, <1>4, <1>5 DEF Inside, x, y, h, t, f
  <1>7. QED BY <1>1, <1>6, ViewStutters

(* So does a packet that the sender passes on; one that it cannot pass on  *)
(* is given up, the flag being set.                                        *)
LEMMA PacketMoves ==
    ASSUME PacketInv, SendPacket
    PROVE  [RelayView!RNext]_(RelayView!rvars)
  <1> USE DEF mainVars, recvVars, sendVars, udpVars
  <1> DEFINE x == FlattenSeq(udpq)
             y == FlattenSeq(smooth)
             z == FlattenSeq(segq)
  <1>1. MayCut /\ buffer' = Rest /\ segq' = segq /\ Given
    BY DEF SendPacket, Given, Fed, Output, Closing
  <1>2. /\ Packet \in Seq(Cell) /\ Rest \in Seq(Cell) /\ buffer = Packet \o Rest
    BY <1>1, PacketType DEF Packets
  <1>3. /\ x \in Seq(Cell) /\ y \in Seq(Cell) /\ z \in Seq(Cell)
        /\ udpq \in Seq(Seq(Cell)) /\ smooth \in Seq(Seq(Cell))
    BY ViewTypes
  <1> HIDE DEF x, y, z, Cell
  <1>4. Associates(x, y, Packet, Rest, z)
    BY <1>2, <1>3, Reassociate
  <1>5. Associates(x, y, Rest, z, z) /\ Associates(x, Packet, Rest, z, z)
    BY <1>2, <1>3, Reassociate
  <1>6. CASE smooth' = Append(smooth, Packet) /\ udpq' = udpq
    <2>1. FlattenSeq(smooth') = y \o Packet
      BY <1>2, <1>3, <1>6, FlattenAppend DEF y
    <2>2. ((x \o y) \o (Packet \o Rest)) \o z = ((x \o (y \o Packet)) \o Rest) \o z
      BY ONLY <1>4 DEF Associates
    <2>3. Inside' = Inside
      <3>1. Inside' = ((x \o (y \o Packet)) \o Rest) \o z
        BY <1>1, <1>6, <2>1 DEF Inside, x, z
      <3>2. Inside = ((x \o y) \o (Packet \o Rest)) \o z
        BY <1>2 DEF Inside, x, y, z
      <3>3. QED BY <2>2, <3>1, <3>2
    <2>4. QED BY <1>1, <2>3, ViewStutters
  <1>7. CASE ~UseSmoother /\ udpPc = "ended" /\ UNCHANGED <<smooth, udpq>>
    <2>1. Closing
      BY <1>7 DEF PacketInv, Closing
    <2>2. ((x \o y) \o (Packet \o Rest)) \o z = ((x \o y) \o Packet) \o (Rest \o z)
      BY ONLY <1>4 DEF Associates
    <2>3. ((x \o y) \o Rest) \o z = (x \o y) \o (Rest \o z)
      BY ONLY <1>5 DEF Associates
    <2>4. Inside = ((x \o y) \o Packet) \o (Rest \o z)
      BY <1>2, <2>2 DEF Inside, x, y, z
    <2>5. Inside' = (x \o y) \o (Rest \o z)
      BY <1>1, <1>7, <2>3 DEF Inside, x, y, z
    <2>6. x \o y \in Seq(Cell) /\ Rest \o z \in Seq(Cell)
      BY <1>2, <1>3, ConcatProperties
    <2>7. QED BY <1>1, <1>2, <2>1, <2>4, <2>5, <2>6, ViewGivesUp
  <1>8. CASE ~UseSmoother /\ udpq' = Append(udpq, Packet) /\ smooth' = smooth
    <2>1. y = <<>>
      BY <1>8, FlattenEmpty DEF PacketInv, y
    <2>2. FlattenSeq(udpq') = x \o Packet
      BY <1>2, <1>3, <1>8, FlattenAppend DEF x
    <2>3. ((x \o <<>>) \o (Packet \o Rest)) \o z = (((x \o Packet) \o <<>>) \o Rest) \o z
      <3>1. x \o Packet \in Seq(Cell)
        BY <1>2, <1>3, ConcatProperties
      <3>2. x \o <<>> = x /\ (x \o Packet) \o <<>> = x \o Packet
        BY <1>3, <3>1, ConcatEmptySeq
      <3>3. x \o (Packet \o Rest) = (x \o Packet) \o Rest
        BY ONLY <1>5 DEF Associates
      <3>4. QED BY <3>2, <3>3
    <2>4. Inside = ((x \o <<>>) \o (Packet \o Rest)) \o z
      BY <1>2, <2>1 DEF Inside, x, y, z
    <2>5. Inside' = (((x \o Packet) \o <<>>) \o Rest) \o z
      BY <1>1, <1>8, <2>1, <2>2 DEF Inside, y, z
    <2>6. QED BY <1>1, <2>3, <2>4, <2>5, ViewStutters
  <1>9. QED BY <1>6, <1>7, <1>8 DEF SendPacket

(* The end of the sender's loop gives up what is in the smoother.          *)
LEMMA FinishGivesUp ==
    ASSUME PacketInv, SendFinish
    PROVE  [RelayView!RNext]_(RelayView!rvars)
  <1> USE DEF mainVars, recvVars, sendVars, udpVars
  <1> DEFINE x == FlattenSeq(udpq)
             y == FlattenSeq(smooth)
             z == FlattenSeq(segq)
  <1>1. /\ smooth' = <<>> /\ UNCHANGED <<udpq, buffer, segq>> /\ Closing /\ Given
    BY DEF SendFinish, Given, Fed, Output, Closing
  <1>2. x \in Seq(Cell) /\ y \in Seq(Cell) /\ z \in Seq(Cell) /\ buffer \in Seq(Cell)
    BY ViewTypes
  <1> HIDE DEF x, y, z, Cell
  <1>3. Associates(x, y, buffer, z, z) /\ Associates(x, buffer, z, z, z)
    BY <1>2, Reassociate
  <1>4. Inside = (x \o y) \o (buffer \o z)
    <2>1. Inside = ((x \o y) \o buffer) \o z
      BY DEF Inside, x, y, z
    <2>2. ((x \o y) \o buffer) \o z = (x \o y) \o (buffer \o z)
      BY ONLY <1>3 DEF Associates
    <2>3. QED BY <2>1, <2>2
  <1>5. Inside' = x \o (buffer \o z)
    <2>1. FlattenSeq(smooth') = <<>>
      BY <1>1, FlattenEmpty
    <2>2. Inside' = ((x \o <<>>) \o buffer) \o z
      BY <1>1, <2>1 DEF Inside, x, z
    <2>3. x \o <<>> = x /\ (x \o buffer) \o z = x \o (buffer \o z)
      BY ONLY <1>3 DEF Associates
    <2>4. QED BY <2>2, <2>3
  <1>6. buffer \o z \in Seq(Cell)
    BY <1>2, ConcatProperties
  <1>7. QED BY <1>1, <1>2, <1>4, <1>5, <1>6, ViewGivesUp

(* A packet that leaves the smoother keeps its place.                      *)
LEMMA SmootherMoves ==
    ASSUME PacketInv, SmootherOut
    PROVE  [RelayView!RNext]_(RelayView!rvars)
  <1> USE DEF mainVars, recvVars, sendVars, udpVars
  <1>1. smooth # <<>> /\ UNCHANGED <<buffer, segq>> /\ Given
    BY DEF SmootherOut, Given, Fed, Output, Closing
  <1>2. CASE UNCHANGED <<smooth, udpq>>
    BY <1>1, <1>2, ViewStutters DEF Inside
  <1>3. CASE udpq' = Append(udpq, Head(smooth)) /\ smooth' = Tail(smooth)
    <2> DEFINE h == Head(smooth)
               t == Tail(smooth)
               U == Seq(Cell)
    <2>1. /\ smooth \in Seq(U) /\ udpq \in Seq(U) /\ FlattenSeq(udpq) \in Seq(Cell)
          /\ buffer \in Seq(Cell) /\ FlattenSeq(segq) \in Seq(Cell)
      BY ViewTypes
    <2> HIDE DEF U
    <2>2. h \in U /\ t \in Seq(U) /\ smooth = <<h>> \o t
      BY <1>1, <2>1, HeadTailProperties
    <2> HIDE DEF h, t
    <2>3. /\ FlattenSeq(t) \in Seq(Cell) /\ FlattenSeq(smooth) = h \o FlattenSeq(t)
          /\ h \in Seq(Cell)
      BY <2>2, FlattenType, FlattenCons DEF U
    <2>4. FlattenSeq(udpq') = FlattenSeq(udpq) \o h
      <3>1. udpq' = Append(udpq, h)
        BY <1>3 DEF h
      <3>2. QED BY <2>1, <2>3, <3>1, FlattenAppend DEF U
    <2> DEFINE x == FlattenSeq(udpq)
               f == FlattenSeq(t)
               z == FlattenSeq(segq)
    <2> HIDE DEF x, f, z
    <2>5. Associates(x, h, f, buffer, z)
      BY <2>1, <2>3, Reassociate DEF x, f, z
    <2>6. ((x \o (h \o f)) \o buffer) \o z = (((x \o h) \o f) \o buffer) \o z
      BY ONLY <2>5 DEF Associates
    <2>7. Inside = ((x \o (h \o f)) \o buffer) \o z
      BY <2>3 DEF Inside, x, f, z
    <2>8. Inside' = (((x \o h) \o f) \o buffer) \o z
      BY <1>1, <1>3, <2>4 DEF Inside, x, f, z, t
    <2>9. QED BY <1>1, <2>6, <2>7, <2>8, ViewStutters
  <1>4. QED BY <1>2, <1>3 DEF SmootherOut

(* The UDP thread emits the packet that is due, or loses it to the socket, *)
(* or gives it up because the flag is set.                                 *)
LEMMA UdpEmits ==
    ASSUME PacketInv, UdpPacket
    PROVE  [RelayView!RNext]_(RelayView!rvars)
  <1> USE DEF mainVars, recvVars, sendVars, udpVars
  <1>1. /\ udpq # <<>> /\ udpq' = Tail(udpq) /\ UNCHANGED <<smooth, buffer, segq>>
        /\ Fed' = Fed /\ Closing' = Closing
    BY DEF UdpPacket, Fed, Closing
  <1> DEFINE h == Head(udpq)
             t == Tail(udpq)
             U == Seq(Cell)
  <1>2. /\ udpq \in Seq(Packets) /\ FlattenSeq(smooth) \in Seq(Cell)
        /\ buffer \in Seq(Cell) /\ FlattenSeq(segq) \in Seq(Cell)
        /\ sent \in Seq(U) /\ Output \in Seq(Cell)
    BY ViewTypes, DataTypes
  <1> HIDE DEF U, Packets
  <1>3. h \in Packets /\ t \in Seq(Packets) /\ udpq = <<h>> \o t
    BY <1>1, <1>2, HeadTailProperties
  <1> HIDE DEF h, t
  <1>4. /\ FlattenSeq(t) \in Seq(Cell) /\ FlattenSeq(udpq) = h \o FlattenSeq(t)
        /\ h \in Seq(Cell)
    <2>1. h \in Seq(Cell) /\ t \in Seq(Seq(Cell))
      BY <1>3, PacketsType
    <2> HIDE DEF Cell
    <2>2. FlattenSeq(t) \in Seq(Cell)
      BY <2>1, FlattenType
    <2>3. FlattenSeq(<<h>> \o t) = h \o FlattenSeq(t)
      BY <2>1, FlattenCons
    <2>4. QED BY <1>3, <2>1, <2>2, <2>3
  <1> DEFINE f == FlattenSeq(t)
             y == FlattenSeq(smooth)
             z == FlattenSeq(segq)
             r == ((f \o y) \o buffer) \o z
  <1>5. Associates(h, f, y, buffer, z)
    BY <1>2, <1>4, Reassociate
  <1>6. r \in Seq(Cell)
    <2> HIDE DEF f, y, z
    <2>1. f \in Seq(Cell) /\ y \in Seq(Cell) /\ z \in Seq(Cell)
      BY <1>2, <1>4 DEF f, y, z
    <2>2. f \o y \in Seq(Cell)
      BY <2>1, ConcatProperties
    <2>3. (f \o y) \o buffer \in Seq(Cell)
      BY <1>2, <2>2, ConcatProperties
    <2>4. QED BY <2>1, <2>3, ConcatProperties
  <1> HIDE DEF f, y, z
  <1>7. Inside = h \o r
    <2>1. Inside = (((h \o f) \o y) \o buffer) \o z
      BY <1>4 DEF Inside, f, y, z
    <2>2. (((h \o f) \o y) \o buffer) \o z = h \o (((f \o y) \o buffer) \o z)
      BY ONLY <1>5 DEF Associates
    <2>3. QED BY <2>1, <2>2
  <1>8. Inside' = r
    BY <1>1 DEF Inside, f, y, z, t
  <1> HIDE DEF r
  <1>9. CASE sent' = Append(sent, h)
    <2>1. FlattenSeq(sent') = FlattenSeq(sent) \o h
      BY <1>2, <1>4, <1>9, FlattenAppend DEF U
    <2>2. Output' = Output \o h
      BY <2>1 DEF Output
    <2>3. QED BY <1>1, <1>3, <1>6, <1>7, <1>8, <2>2, ViewEmits
  <1>10. CASE sent' = sent /\ "socket" \in Faults
    <2>1. Given
      BY <1>1, <1>10 DEF Given, Output
    <2>2. QED BY <1>3, <1>6, <1>7, <1>8, <1>10, <2>1, ViewLoses
  <1>11. CASE sent' = sent /\ flag
    <2>1. Given /\ Closing
      BY <1>1, <1>11 DEF Given, Output, Closing
    <2>2. <<>> \in Seq(Cell) /\ <<>> \o h = h /\ <<>> \o r = r
      BY <1>4, <1>6, ConcatEmptySeq, EmptySeq
    <2>3. Inside = (<<>> \o h) \o r /\ Inside' = <<>> \o r
      BY <1>7, <1>8, <2>2
    <2>4. QED BY <1>4, <1>6, <2>1, <2>2, <2>3, ViewGivesUp
  <1>12. QED BY <1>9, <1>10, <1>11 DEF UdpPacket, h

(* Every other step leaves the cells alone; it can begin the closing, and  *)
(* takes none back.                                                        *)
LEMMA QuietCloses ==
    ASSUME PacketInv, [Next]_vars, ~Moves
    PROVE  [RelayView!RNext]_(RelayView!rvars)
  <1> USE DEF mainVars, recvVars, sendVars, udpVars
  <1>1. UNCHANGED <<Fed, Inside, Output>>
    BY Quiet DEF Fed, Inside, Output
  <1>2. Closing \in BOOLEAN /\ Closing' \in BOOLEAN
    <2>1. PacketInv'
      BY PacketStep
    <2>2. flag' \in BOOLEAN
      BY <2>1 DEF PacketInv, TypeOK
    <2>3. QED BY <2>2, ViewTypes DEF Closing
  <1>3. flag => flag'
    BY DEF Moves, Next, vars, Receiver, RecvDownload, RecvEnds, Sender, SendStart,
       SendDisconnected, SendThrottled, SendDrained, SendJoined, Udp, UdpSeesFlag, Main,
       MainStart, MainPoll, MainJoins, MainWaits, UdpWaits, CtrlC, Terminated
  <1>4. sendPc \in {"finish", "join", "ended"} => sendPc' \in {"finish", "join", "ended"}
    <2>1. CASE MainStart
      BY <2>1 DEF MainStart, PacketInv
    <2>2. CASE ~MainStart
      BY <2>2
         DEF Moves, Next, vars, Receiver, RecvDownload, RecvEnds, Sender, SendStart,
         SendDisconnected, SendThrottled, SendDrained, SendJoined, Udp, UdpSeesFlag, Main,
         MainPoll, MainJoins, MainWaits, UdpWaits, CtrlC, Terminated
    <2>3. QED BY <2>1, <2>2
  <1>5. QED BY <1>1, <1>2, <1>3, <1>4, ViewCloses DEF Closing

(* Every step of the threads is one of the relay, or a stutter.            *)
LEMMA RelayStep ==
    ASSUME PacketInv, [Next]_vars
    PROVE  [RelayView!RNext]_(RelayView!rvars)
  BY SegmentFeeds, SegmentMoves, PacketMoves, FinishGivesUp, SmootherMoves, UdpEmits,
     QuietCloses DEF Moves

(* The threads start as the relay does.                                    *)
LEMMA RelayInit == Init => RelayView!RInit
  <1> SUFFICES ASSUME Init PROVE RelayView!RInit
    OBVIOUS
  <1>1. CellsBefore[0 + 1] = 0
    BY CellsBeforeStep
  <1>2. taken = 0 /\ CellsBefore[taken + 1] = 0
    BY <1>1 DEF Init
  <1>3. FlattenSeq(udpq) \o FlattenSeq(smooth) \o buffer \o FlattenSeq(segq) = <<>>
    BY FlattenEmpty DEF Init
  <1>4. FlattenSeq(sent) = <<>>
    BY FlattenEmpty DEF Init
  <1>5. (flag \/ sendPc \in {"finish", "join", "ended"}) = FALSE
    BY DEF Init
  <1>6. QED BY <1>2, <1>3, <1>4, <1>5 DEF RelayView!RInit

(* The threads implement the relay: nothing is repeated or reordered, and  *)
(* nothing is lost before the closing but packets the socket cannot take.  *)
THEOREM RelayCorrect == Spec => RelayImplemented
<1>1. Spec => []PacketInv
  BY PacketInit, PacketStep, PTL DEF Spec
<1>2. Init => RelayView!RInit
  BY RelayInit
<1>3. PacketInv /\ [Next]_vars => [RelayView!RNext]_(RelayView!rvars)
  BY RelayStep
<1>4. QED BY <1>1, <1>2, <1>3, PTL DEF Spec, RelayImplemented, RelayView!RelaySpec
=============================================================================
