---------------------------- MODULE Uart_proofs ----------------------------
(***************************************************************************)
(* The transmitter of Uart never overruns the hardware, never stalls and   *)
(* implements FifoChannel, for every FIFO depth from 2 and queue length.   *)
(***************************************************************************)
EXTENDS Uart, SequenceTheorems, TLAPS

(* The inductive invariant.  NoStall needs the last conjunct: while the    *)
(* flag is down a THRE interrupt is due even if nothing is queued, so that *)
(* the next character may be queued without starting the transmitter.      *)
IInv ==
  /\ TypeOK
  /\ NoOverrun
  /\ DirectOnlyWhenNothingQueued
  /\ lTHREEmpty0 = 1 => Len(thr) < FifoDepth
  /\ threPending = 1 => thr = <<>>
  /\ lTHREEmpty0 = 0 => thr # <<>> \/ threPending = 1

(* Writing one character to a sequence of them. *)
LEMMA WriteOne ==
  ASSUME NEW S, NEW q \in Seq(S), NEW c \in S
  PROVE  /\ Append(q, c) \in Seq(S) /\ Len(Append(q, c)) = Len(q) + 1
         /\ Append(q, c) # <<>>
  BY AppendProperties

(* A burst takes a prefix of the queue to the FIFO and leaves the rest. *)
LEMMA BurstSplits ==
  ASSUME NEW S, NEW q \in Seq(S), NEW n \in 0..Len(q)
  PROVE  /\ SubSeq(q, 1, n) \in Seq(S) /\ Len(SubSeq(q, 1, n)) = n
         /\ SubSeq(q, n + 1, Len(q)) \in Seq(S)
         /\ Len(SubSeq(q, n + 1, Len(q))) = Len(q) - n
         /\ SubSeq(q, 1, n) \o SubSeq(q, n + 1, Len(q)) = q
<1>1. Len(q) \in Nat /\ \A i \in 1..Len(q) : q[i] \in S
  BY LenProperties
<1>2. SubSeq(q, 1, n) \in Seq(S) /\ Len(SubSeq(q, 1, n)) = n
  BY <1>1, SubSeqProperties
<1>3. /\ SubSeq(q, n + 1, Len(q)) \in Seq(S)
      /\ Len(SubSeq(q, n + 1, Len(q))) = Len(q) - n
  BY <1>1, SubSeqProperties
<1>4. SubSeq(q, 1, n) \o SubSeq(q, n + 1, Len(q)) = q
  <2>1. SubSeq(q, 1, n) \o SubSeq(q, n + 1, Len(q)) = SubSeq(q, 1, Len(q))
    <3>1. 1 \in 1 .. Len(q)+1 /\ n \in 1-1 .. Len(q) /\ Len(q) \in n .. Len(q)
      BY <1>1
    <3> QED BY <3>1, ConcatAdjacentSubSeq
  <2> QED BY <2>1, SubSeqFull
<1> QED BY <1>2, <1>3, <1>4

(* The number of characters of a burst. *)
LEMMA BurstSize ==
  ASSUME TypeOK
  PROVE  LET sent == Least(BytesToSend, Len(xTX0Queue))
         IN  /\ sent \in 0..Len(xTX0Queue) /\ sent <= FifoDepth
             /\ sent < FifoDepth => sent = Len(xTX0Queue)
             /\ BytesLeft(sent) > 0 <=> sent <= FifoDepth - 2
  BY FifoAssumption DEF TypeOK, Least, BytesToSend, BytesLeft

LEMMA InitIInv == Init => IInv
  BY FifoAssumption, QueueAssumption
     DEF Init, IInv, TypeOK, NoOverrun, DirectOnlyWhenNothingQueued

LEMMA PutCharIInv ==
  ASSUME IInv, NEW w \in Writers, NEW c \in Chars, PutChar(w, c)
  PROVE  IInv'
<1> USE FifoAssumption, QueueAssumption
    DEF IInv, TypeOK, NoOverrun, DirectOnlyWhenNothingQueued
<1>1. CASE lTHREEmpty0 = 1
  <2>1. thr' = Append(thr, c) /\ threPending' = 0 /\ lTHREEmpty0' = 0
    BY <1>1, WriteOne DEF PutChar, WriteTHR
  <2> QED BY <1>1, <2>1, WriteOne DEF PutChar, WriteTHR
<1>2. CASE lTHREEmpty0 = 0 /\ Len(xTX0Queue) < TxLength
  <2>1. /\ xTX0Queue' = Append(xTX0Queue, c)
        /\ UNCHANGED <<lTHREEmpty0, thr, threPending, line, writer, inHand>>
    BY <1>2 DEF PutChar, hardware
  <2>2. /\ xTX0Queue' \in Seq(Chars) /\ Len(xTX0Queue') <= TxLength
    BY <1>2, <2>1, WriteOne, LenProperties
  <2> QED BY <1>2, <2>1, <2>2
<1>3. CASE lTHREEmpty0 = 0 /\ Len(xTX0Queue) = TxLength
  <2>1. /\ writer' = [writer EXCEPT ![w] = "asleep"]
        /\ inHand' = [inHand EXCEPT ![w] = c]
        /\ UNCHANGED <<lTHREEmpty0, xTX0Queue, thr, threPending, line>>
    BY <1>3 DEF PutChar, hardware
  <2>2. TypeOK'
    BY <2>1
  <2> QED BY <1>3, <2>1, <2>2
<1> QED BY <1>1, <1>2, <1>3 DEF PutChar

LEMMA ResumeIInv ==
  ASSUME IInv, NEW w \in Writers, Resume(w)
  PROVE  IInv'
<1> USE FifoAssumption, QueueAssumption
    DEF IInv, TypeOK, NoOverrun, DirectOnlyWhenNothingQueued
<1>1. inHand[w] \in Chars
  BY DEF Resume
<1>2. CASE Len(xTX0Queue) < TxLength /\ lTHREEmpty0 = 1
  <2> DEFINE queue == Append(xTX0Queue, inHand[w])
  <2>1. queue = <<inHand[w]>>
    BY <1>2
  <2>2. Head(queue) = inHand[w] /\ Tail(queue) = <<>>
    BY <1>1, <2>1
  <2>3. /\ thr' = Append(thr, inHand[w]) /\ threPending' = 0 /\ lTHREEmpty0' = 0
        /\ xTX0Queue' = <<>> /\ line' = line
    BY <1>1, <1>2, <2>2, WriteOne DEF Resume, QueueAndKick, WriteTHR
  <2>4. /\ writer' = [writer EXCEPT ![w] = "out"]
        /\ inHand' = [inHand EXCEPT ![w] = NoChar]
    BY <1>2 DEF Resume
  <2> QED BY <1>1, <1>2, <2>3, <2>4, WriteOne
<1>3. CASE Len(xTX0Queue) < TxLength /\ lTHREEmpty0 = 0
  <2>1. /\ xTX0Queue' = Append(xTX0Queue, inHand[w])
        /\ writer' = [writer EXCEPT ![w] = "out"]
        /\ inHand' = [inHand EXCEPT ![w] = NoChar]
        /\ UNCHANGED <<lTHREEmpty0, thr, threPending, line>>
    BY <1>3 DEF Resume, QueueAndKick, hardware
  <2>2. /\ xTX0Queue' \in Seq(Chars) /\ Len(xTX0Queue') <= TxLength
    BY <1>1, <1>3, <2>1, WriteOne, LenProperties
  <2>3. TypeOK'
    BY <2>1, <2>2
  <2> QED BY <1>3, <2>1, <2>3
<1>4. CASE Len(xTX0Queue) = TxLength
  BY <1>4 DEF Resume, hardware
<1> QED BY <1>2, <1>3, <1>4 DEF Resume

LEMMA HandleTHREIInv ==
  ASSUME IInv, HandleTHRE
  PROVE  IInv'
<1> USE FifoAssumption, QueueAssumption
    DEF IInv, NoOverrun, DirectOnlyWhenNothingQueued
<1> DEFINE sent == Least(BytesToSend, Len(xTX0Queue))
           first == SubSeq(xTX0Queue, 1, sent)
           rest == SubSeq(xTX0Queue, sent + 1, Len(xTX0Queue))
<1>1. /\ sent \in 0..Len(xTX0Queue) /\ sent <= FifoDepth
      /\ sent < FifoDepth => sent = Len(xTX0Queue)
      /\ BytesLeft(sent) > 0 <=> sent <= FifoDepth - 2
  BY BurstSize
<1>2. /\ first \in Seq(Chars) /\ Len(first) = sent
      /\ rest \in Seq(Chars) /\ Len(rest) = Len(xTX0Queue) - sent
  BY <1>1, BurstSplits, SMTT(30) DEF TypeOK
<1>3. thr' = first /\ xTX0Queue' = rest /\ threPending' = 0
      /\ lTHREEmpty0' = IF BytesLeft(sent) > 0 THEN 1 ELSE lTHREEmpty0
  BY <1>2, SMTT(30) DEF HandleTHRE, TypeOK
<1>4. PICK S \in SUBSET Sleepers :
        writer' = [v \in Writers |-> IF v \in S THEN "woken" ELSE writer[v]]
  BY DEF HandleTHRE, WakeSenders
<1>5. TypeOK'
  <2>1. writer' \in [Writers -> {"out", "asleep", "woken"}]
    BY <1>4 DEF TypeOK
  <2>2. \A v \in Writers : writer'[v] # "out" => inHand'[v] \in Chars
    BY <1>4 DEF TypeOK, Sleepers, HandleTHRE
  <2>3. /\ thr' \in Seq(Chars) /\ xTX0Queue' \in Seq(Chars)
        /\ Len(xTX0Queue') <= Len(xTX0Queue)
    BY SMTT(30), <1>1, <1>2, <1>3
  <2>4. lTHREEmpty0' \in {0, 1} /\ threPending' \in {0, 1}
    BY <1>3 DEF TypeOK
  <2>5. Len(xTX0Queue) <= TxLength /\ Len(xTX0Queue) \in Nat
        /\ Len(xTX0Queue') \in Nat /\ UNCHANGED <<inHand, line>>
    BY <1>2, <1>3, <2>3, LenProperties DEF TypeOK, HandleTHRE
  <2>6. Len(xTX0Queue') <= TxLength
    BY <2>3, <2>5
  <2> QED BY <2>1, <2>2, <2>3, <2>4, <2>5, <2>6 DEF TypeOK
<1>6. lTHREEmpty0 = 1 => sent = 0
  BY <1>1
<1>7. lTHREEmpty0' = 1 => sent <= FifoDepth - 2
  BY <1>1, <1>3, <1>6
<1>8. lTHREEmpty0' = 0 => sent > FifoDepth - 2
  BY <1>1, <1>3 DEF TypeOK
<1> HIDE DEF sent, first, rest
<1>9. NoOverrun' /\ (lTHREEmpty0' = 1 => Len(thr') < FifoDepth)
  BY <1>1, <1>2, <1>3, <1>7
<1>10. DirectOnlyWhenNothingQueued'
  <2>1. lTHREEmpty0' = 1 => Len(rest) = 0
    BY <1>1, <1>2, <1>7
  <2> QED BY <1>2, <1>3, <2>1, EmptySeq
<1>11. lTHREEmpty0' = 0 => thr' # <<>>
  BY <1>1, <1>2, <1>3, <1>8, LenProperties
<1> QED BY <1>3, <1>5, <1>9, <1>10, <1>11

LEMMA TransmitIInv ==
  ASSUME IInv, Transmit
  PROVE  IInv'
  BY FifoAssumption DEF Transmit, IInv, TypeOK, NoOverrun, DirectOnlyWhenNothingQueued

LEMMA NextIInv == IInv /\ [Next]_vars => IInv'
<1> SUFFICES ASSUME IInv, [Next]_vars PROVE IInv'
  OBVIOUS
<1>1. ASSUME NEW w \in Writers, BlockTimeOver(w) PROVE IInv'
  BY <1>1 DEF BlockTimeOver, hardware, IInv, TypeOK, NoOverrun,
              DirectOnlyWhenNothingQueued
<1>2. CASE UNCHANGED vars
  BY <1>2 DEF vars, IInv, TypeOK, NoOverrun, DirectOnlyWhenNothingQueued
<1> QED
  BY <1>1, <1>2, PutCharIInv, ResumeIInv, HandleTHREIInv, TransmitIInv DEF Next

LEMMA Invariance == Spec => []IInv
  BY InitIInv, NextIInv, PTL DEF Spec

(* State and types. *)
THEOREM TypeCorrect == Spec => []TypeOK
  BY Invariance, PTL DEF IInv

(* No byte is lost to a full hardware FIFO. *)
THEOREM NeverOverruns == Spec => []NoOverrun
  BY Invariance, PTL DEF IInv

(* A direct write never overtakes queued characters. *)
THEOREM NeverOvertakes == Spec => []DirectOnlyWhenNothingQueued
  BY Invariance, PTL DEF IInv

(* Whatever is queued has a THRE interrupt on its way. *)
THEOREM NeverStalls == Spec => []NoStall
<1>1. IInv => NoStall
  BY DEF IInv, NoStall, DirectOnlyWhenNothingQueued, TypeOK
<1> QED BY <1>1, Invariance, PTL

(* Refinement: appending behind the queue appends behind what is buffered, *)
(* and taking from the FIFO takes the oldest buffered character.           *)
LEMMA BufferedEnds ==
  ASSUME NEW S, NEW f \in Seq(S), NEW q \in Seq(S), NEW c \in S
  PROVE  /\ f \o Append(q, c) = Append(f \o q, c)
         /\ Append(f, c) \o <<>> = Append(f \o <<>>, c)
         /\ f # <<>> => /\ f \o q # <<>>
                        /\ Head(f \o q) = Head(f)
                        /\ Tail(f \o q) = Tail(f) \o q
<1>1. f \o Append(q, c) = Append(f \o q, c)
  BY SMT
<1>2. Append(f, c) \o <<>> = Append(f \o <<>>, c)
  BY ConcatEmptySeq, AppendProperties
<1>3. ASSUME f # <<>> PROVE f \o q # <<>> /\ Head(f \o q) = Head(f)
  BY <1>3, SMT
<1>4. ASSUME f # <<>> PROVE Tail(f \o q) = Tail(f) \o q
  BY <1>4, SMT
<1> QED BY <1>1, <1>2, <1>3, <1>4

LEMMA InitRefines == Init => Channel!Init
  BY DEF Init, Channel!Init

LEMMA PutCharRefines ==
  ASSUME IInv, NEW w \in Writers, NEW c \in Chars, PutChar(w, c)
  PROVE  [Channel!Next]_Channel!vars
<1>1. thr \in Seq(Chars) /\ xTX0Queue \in Seq(Chars)
  BY DEF IInv, TypeOK
<1>2. CASE lTHREEmpty0 = 1
  <2>1. xTX0Queue = <<>>
    BY <1>2 DEF IInv, DirectOnlyWhenNothingQueued
  <2>2. thr' = Append(thr, c) /\ xTX0Queue' = xTX0Queue /\ line' = line
    BY <1>2 DEF PutChar, WriteTHR
  <2>3. thr' \o xTX0Queue' = Append(thr \o xTX0Queue, c)
    BY <1>1, <2>1, <2>2, BufferedEnds
  <2> QED BY <2>2, <2>3 DEF Channel!Next, Channel!Accept
<1>3. CASE lTHREEmpty0 = 0 /\ Len(xTX0Queue) < TxLength
  <2>1. thr' = thr /\ xTX0Queue' = Append(xTX0Queue, c) /\ line' = line
    BY <1>3 DEF PutChar, hardware
  <2>2. thr' \o xTX0Queue' = Append(thr \o xTX0Queue, c)
    BY <1>1, <2>1, BufferedEnds
  <2> QED BY <2>1, <2>2 DEF Channel!Next, Channel!Accept
<1>4. CASE lTHREEmpty0 = 0 /\ Len(xTX0Queue) = TxLength
  <2>1. thr' = thr /\ xTX0Queue' = xTX0Queue /\ line' = line
    BY <1>4 DEF PutChar, hardware
  <2> QED BY <2>1 DEF Channel!vars
<1> QED BY <1>2, <1>3, <1>4 DEF PutChar

LEMMA ResumeRefines ==
  ASSUME IInv, NEW w \in Writers, Resume(w)
  PROVE  [Channel!Next]_Channel!vars
<1>1. thr \in Seq(Chars) /\ xTX0Queue \in Seq(Chars) /\ inHand[w] \in Chars
  BY DEF IInv, TypeOK, Resume
<1>2. CASE Len(xTX0Queue) < TxLength /\ lTHREEmpty0 = 1
  <2>1. xTX0Queue = <<>>
    BY <1>2 DEF IInv, DirectOnlyWhenNothingQueued
  <2>2. Append(xTX0Queue, inHand[w]) = <<inHand[w]>>
    BY <2>1
  <2>3. Head(<<inHand[w]>>) = inHand[w] /\ Tail(<<inHand[w]>>) = <<>>
    OBVIOUS
  <2>4. thr' = Append(thr, inHand[w]) /\ xTX0Queue' = <<>> /\ line' = line
    BY <1>2, <2>2, <2>3 DEF Resume, QueueAndKick, WriteTHR
  <2>5. thr' \o xTX0Queue' = Append(thr \o xTX0Queue, inHand[w])
    BY <1>1, <2>1, <2>4, BufferedEnds
  <2> QED BY <1>1, <2>4, <2>5 DEF Channel!Next, Channel!Accept
<1>3. CASE Len(xTX0Queue) < TxLength /\ lTHREEmpty0 # 1
  <2>1. /\ thr' = thr /\ xTX0Queue' = Append(xTX0Queue, inHand[w])
        /\ line' = line
    BY <1>3 DEF Resume, QueueAndKick, hardware
  <2>2. thr' \o xTX0Queue' = Append(thr \o xTX0Queue, inHand[w])
    BY <1>1, <2>1, BufferedEnds
  <2> QED BY <1>1, <2>1, <2>2 DEF Channel!Next, Channel!Accept
<1>4. CASE ~(Len(xTX0Queue) < TxLength)
  <2>1. thr' = thr /\ xTX0Queue' = xTX0Queue /\ line' = line
    BY <1>4 DEF Resume, hardware
  <2> QED BY <2>1 DEF Channel!vars
<1> QED BY <1>2, <1>3, <1>4

LEMMA HandleTHRERefines ==
  ASSUME IInv, HandleTHRE
  PROVE  UNCHANGED Channel!vars
<1> DEFINE sent == Least(BytesToSend, Len(xTX0Queue))
           first == SubSeq(xTX0Queue, 1, sent)
           rest == SubSeq(xTX0Queue, sent + 1, Len(xTX0Queue))
<1>1. thr = <<>> /\ xTX0Queue \in Seq(Chars)
  BY DEF IInv, TypeOK, HandleTHRE
<1>2. sent \in 0..Len(xTX0Queue)
  BY BurstSize DEF IInv
<1>3. first \in Seq(Chars) /\ first \o rest = xTX0Queue
  BY <1>1, <1>2, BurstSplits
<1>4. thr' = thr \o first /\ xTX0Queue' = rest /\ line' = line
  BY DEF HandleTHRE
<1> HIDE DEF sent, first, rest
<1>5. thr \o first = first /\ thr \o xTX0Queue = xTX0Queue
  BY <1>1, <1>3, ConcatEmptySeq
<1> QED BY <1>3, <1>4, <1>5 DEF Channel!vars

LEMMA TransmitRefines ==
  ASSUME IInv, Transmit, NEW c \in Chars
  PROVE  Channel!Emit
<1>1. thr \in Seq(Chars) /\ xTX0Queue \in Seq(Chars)
  BY DEF IInv, TypeOK
<1>2. /\ thr # <<>> /\ thr' = Tail(thr) /\ line' = <<Head(thr)>>
      /\ xTX0Queue' = xTX0Queue
  BY DEF Transmit
<1>3. /\ thr \o xTX0Queue # <<>>
      /\ Head(thr \o xTX0Queue) = Head(thr)
      /\ Tail(thr \o xTX0Queue) = Tail(thr) \o xTX0Queue
  BY <1>1, <1>2, BufferedEnds
<1> QED BY <1>2, <1>3 DEF Channel!Emit

LEMMA NextRefines ==
  ASSUME IInv, [Next]_vars
  PROVE  [Channel!Next]_Channel!vars
<1>1. ASSUME NEW w \in Writers, BlockTimeOver(w) PROVE UNCHANGED Channel!vars
  BY <1>1 DEF BlockTimeOver, hardware, Channel!vars
<1>2. CASE UNCHANGED vars
  BY <1>2 DEF vars, Channel!vars
<1>3. CASE Transmit
  <2>1. thr[1] \in Chars
    BY <1>3 DEF Transmit, IInv, TypeOK
  <2> QED BY <1>3, <2>1, TransmitRefines DEF Channel!Next
<1> QED
  BY <1>1, <1>2, <1>3, PutCharRefines, ResumeRefines, HandleTHRERefines DEF Next

(* The driver delivers what it accepted, once and in the order of          *)
(* acceptance, at every FIFO depth and queue length.                       *)
THEOREM Implements == Spec => InOrder
<1>1. IInv /\ [Next]_vars => [Channel!Next]_Channel!vars
  BY NextRefines
<1> QED
  BY InitRefines, <1>1, Invariance, PTL DEF Spec, InOrder, Channel!Spec
=============================================================================
