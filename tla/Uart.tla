-------------------------------- MODULE Uart --------------------------------
(***************************************************************************)
(* drivers/uart/uart0.c (uart1.c is the same text): interrupt-driven       *)
(* transmission.  Tasks call uart0PutChar, which writes the transmit       *)
(* register directly while lTHREEmpty0 says the hardware has room and      *)
(* queues the character otherwise; the interrupt handler moves queued      *)
(* characters to the hardware FIFO each time it has run empty.             *)
(*                                                                         *)
(* uart0PutChar runs inside a critical section, so the handler and other   *)
(* tasks run in the middle of it only where xQueueSend blocks: a call is   *)
(* one step, or a step that ends blocked and steps of Resume.              *)
(***************************************************************************)
EXTENDS Integers, Sequences, FiniteSets

CONSTANTS
  Writers,      \* tasks that print
  Chars,        \* characters
  FifoDepth,    \* the transmit FIFO of the UART (16)
  TxLength,     \* length of xTX0Queue (uxQueueLength + 1)
  NoChar

ASSUME FifoAssumption == FifoDepth \in Nat /\ FifoDepth >= 2
(* The firmware gives the queue 257 places and runs a handful of tasks. *)
ASSUME QueueAssumption == /\ TxLength \in Nat \ {0}
                          /\ IsFiniteSet(Writers)
                          /\ Cardinality(Writers) <= TxLength
ASSUME NoCharAssumption == NoChar \notin Chars

VARIABLES
  lTHREEmpty0,  \* "the transmit register can be written directly"
  xTX0Queue,
  thr,          \* contents of the hardware transmit FIFO
  threPending,  \* the THRE interrupt is raised
  writer,       \* per task: outside uart0PutChar, asleep in xQueueSend, woken
  inHand,       \* per task: the character of the call that sleeps
  line          \* the last character that left the FIFO

vars == <<lTHREEmpty0, xTX0Queue, thr, threPending, writer, inHand, line>>
hardware == <<thr, threPending, line>>

Least(a, b) == IF a < b THEN a ELSE b
Sleepers == {w \in Writers : writer[w] = "asleep"}

(* Writing U0THR also withdraws the interrupt. *)
WriteTHR(c) ==
  /\ thr' = Append(thr, c)
  /\ threPending' = 0
  /\ UNCHANGED line

\* Mutant of WakeSenders: one task woken per interrupt.
WakeSenders_One(n) ==
  \E S \in SUBSET Sleepers :
    /\ Cardinality(S) = Least(Least(n, 1), Cardinality(Sleepers))
    /\ writer' = [w \in Writers |-> IF w \in S THEN "woken" ELSE writer[w]]

(* n receives from the queue make room for n characters, and each wakes    *)
(* one task that waits to send: the kernel's choice is by priority.        *)
WakeSenders(n) ==
  \E S \in SUBSET Sleepers :
    /\ Cardinality(S) = Least(n, Cardinality(Sleepers))
    /\ writer' = [w \in Writers |-> IF w \in S THEN "woken" ELSE writer[w]]

-----------------------------------------------------------------------------
\* Mutant of PutChar: a full queue takes the character all the same.
PutChar_Overfull(w, c) ==
  /\ writer[w] = "out"
  /\ \/ /\ lTHREEmpty0 = 1
        /\ lTHREEmpty0' = 0
        /\ WriteTHR(c)
        /\ UNCHANGED <<xTX0Queue, writer, inHand>>
     \/ /\ lTHREEmpty0 = 0
        /\ xTX0Queue' = Append(xTX0Queue, c)
        /\ UNCHANGED <<lTHREEmpty0, hardware, writer, inHand>>

(* uart0PutChar: one call from its entry.                                  *)
PutChar(w, c) ==
  /\ writer[w] = "out"
  /\ \/ /\ lTHREEmpty0 = 1
        /\ lTHREEmpty0' = 0
        /\ WriteTHR(c)
        /\ UNCHANGED <<xTX0Queue, writer, inHand>>
     \/ /\ lTHREEmpty0 = 0 /\ Len(xTX0Queue) < TxLength
        /\ xTX0Queue' = Append(xTX0Queue, c)
        /\ UNCHANGED <<lTHREEmpty0, hardware, writer, inHand>>
     \/ /\ lTHREEmpty0 = 0 /\ Len(xTX0Queue) = TxLength
        /\ writer' = [writer EXCEPT ![w] = "asleep"]
        /\ inHand' = [inHand EXCEPT ![w] = c]
        /\ UNCHANGED <<lTHREEmpty0, xTX0Queue, hardware>>

\* Mutant of QueueAndKick: the flag is not looked at again.
QueueAndKick_NoKick(c) ==
  /\ xTX0Queue' = Append(xTX0Queue, c)
  /\ UNCHANGED <<lTHREEmpty0, hardware>>

(* Back in uart0PutChar after the character went into the queue: while the *)
(* caller slept the handler may have emptied the queue and found nothing   *)
(* more to send, so the transmission has to be started again.              *)
QueueAndKick(c) ==
  LET queue == Append(xTX0Queue, c)
  IN  IF lTHREEmpty0 = 1
      THEN /\ lTHREEmpty0' = 0
           /\ xTX0Queue' = Tail(queue)
           /\ WriteTHR(Head(queue))
      ELSE /\ xTX0Queue' = queue
           /\ UNCHANGED <<lTHREEmpty0, hardware>>

(* A woken caller finds room, or finds the queue filled by others again    *)
(* and sleeps on or gives up (its xBlockTime over), the character unsent.  *)
Resume(w) ==
  /\ writer[w] = "woken"
  /\ \/ /\ Len(xTX0Queue) < TxLength
        /\ QueueAndKick(inHand[w])
        /\ writer' = [writer EXCEPT ![w] = "out"]
        /\ inHand' = [inHand EXCEPT ![w] = NoChar]
     \/ /\ Len(xTX0Queue) = TxLength
        /\ \/ /\ writer' = [writer EXCEPT ![w] = "asleep"]
              /\ UNCHANGED inHand
           \/ /\ writer' = [writer EXCEPT ![w] = "out"]
              /\ inHand' = [inHand EXCEPT ![w] = NoChar]
        /\ UNCHANGED <<lTHREEmpty0, xTX0Queue, hardware>>

(* The tick moves a caller whose xBlockTime has passed to the ready list.  *)
BlockTimeOver(w) ==
  /\ writer[w] = "asleep"
  /\ writer' = [writer EXCEPT ![w] = "woken"]
  /\ UNCHANGED <<lTHREEmpty0, xTX0Queue, hardware, inHand>>

-----------------------------------------------------------------------------
\* Mutant of BytesToSend: the FIFOs are not recognised as enabled.
BytesToSend_NoFifo == 1

(* uart0ISR_Handler, case serSOURCE_THRE, with the FIFOs that uart0Init    *)
(* enables: bytesToSend starts at the depth of the FIFO.                   *)
BytesToSend == FifoDepth

\* Mutant of BytesLeft: the count is tested before it is spent.
BytesLeft_Early(sent) == BytesToSend - sent + 1

(* bytesToSend-- is evaluated once more than the loop body when the queue  *)
(* runs out first, and ends at -1 when the FIFO is full first.             *)
BytesLeft(sent) == IF sent = BytesToSend THEN -1 ELSE BytesToSend - sent - 1

HandleTHRE ==
  LET sent == Least(BytesToSend, Len(xTX0Queue))
  IN  /\ threPending = 1
      /\ thr' = thr \o SubSeq(xTX0Queue, 1, sent)
      /\ threPending' = 0                       \* reading IIR clears it
      /\ xTX0Queue' = SubSeq(xTX0Queue, sent + 1, Len(xTX0Queue))
      /\ lTHREEmpty0' = IF BytesLeft(sent) > 0 THEN 1 ELSE lTHREEmpty0
      /\ WakeSenders(sent)
      /\ UNCHANGED <<inHand, line>>

(* The UART shifts a character out; THRE is raised when the FIFO is empty. *)
Transmit ==
  /\ thr # <<>>
  /\ line' = <<Head(thr)>>
  /\ thr' = Tail(thr)
  /\ threPending' = IF Tail(thr) = <<>> THEN 1 ELSE 0
  /\ UNCHANGED <<lTHREEmpty0, xTX0Queue, writer, inHand>>

(* uart0Init: FIFOs on and cleared, THRE interrupt on, both queues empty. *)
Init ==
  /\ lTHREEmpty0 = 1
  /\ xTX0Queue = <<>>
  /\ thr = <<>> /\ threPending = 0 /\ line = <<>>
  /\ writer = [w \in Writers |-> "out"]
  /\ inHand = [w \in Writers |-> NoChar]

Next ==
  \/ \E w \in Writers : \/ \E c \in Chars : PutChar(w, c)
                        \/ Resume(w)
                        \/ BlockTimeOver(w)
  \/ HandleTHRE
  \/ Transmit

(* The UART transmits, its interrupt is served, and a ready task runs; a   *)
(* block time may be portMAX_DELAY, so BlockTimeOver is never relied on.   *)
Fairness ==
  /\ WF_vars(Transmit)
  /\ WF_vars(HandleTHRE)
  /\ \A w \in Writers : WF_vars(Resume(w))

Spec == Init /\ [][Next]_vars /\ Fairness

-----------------------------------------------------------------------------
TypeOK ==
  /\ lTHREEmpty0 \in {0, 1} /\ threPending \in {0, 1}
  /\ xTX0Queue \in Seq(Chars) /\ Len(xTX0Queue) <= TxLength
  /\ thr \in Seq(Chars)
  /\ line \in Seq(Chars)
  /\ writer \in [Writers -> {"out", "asleep", "woken"}]
  /\ inHand \in [Writers -> Chars \cup {NoChar}]
  /\ \A w \in Writers : writer[w] # "out" => inHand[w] \in Chars

(* The hardware FIFO is never written while full: neither the direct write *)
(* nor the handler's burst nor the restart in uart0PutChar loses a byte.   *)
NoOverrun == Len(thr) <= FifoDepth

(* The direct write never overtakes queued characters. *)
DirectOnlyWhenNothingQueued == lTHREEmpty0 = 1 => xTX0Queue = <<>>

(* Transmission never stalls: while something is queued, a THRE interrupt  *)
(* is on its way, although the handler's count leaves lTHREEmpty0 unset    *)
(* for bursts of FifoDepth - 1.                                            *)
NoStall == xTX0Queue # <<>> => thr # <<>> \/ threPending = 1

(* The driver implements the abstract transmitter. *)
Channel == INSTANCE FifoChannel WITH buffered <- thr \o xTX0Queue
InOrder == Channel!Spec

(* A caller that sleeps for room is woken, without help from its timeout,  *)
(* and before the queue is empty: as there is room for every task, each    *)
(* sleeper was woken by one of the receives.  It is also why the kick's    *)
(* xQueueReceive, which would switch to a woken task before the flag is    *)
(* cleared, finds nobody to wake.                                          *)
SleeperIsWoken ==
  /\ [](xTX0Queue = <<>> => Sleepers = {})
  /\ \A w \in Writers : writer[w] = "asleep" ~> writer[w] # "asleep"
=============================================================================
