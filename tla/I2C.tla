-------------------------------- MODULE I2C --------------------------------
(***************************************************************************)
(* drivers/i2c.c: single-register reads and writes over I2C0.  A caller    *)
(* takes i2cLock, fills I2C_IOFRAME and raises START; the interrupt        *)
(* handler's state machine does the rest, one status of the hardware at a  *)
(* time.  A read waits for i2cReadCompleteSignal, copies the byte and      *)
(* gives the lock back itself; a write returns at once and its lock is     *)
(* given by the handler.                                                   *)
(*                                                                         *)
(* Every transfer is of one byte, as both calls ask for: the states of     *)
(* longer reads and the flag AA are left out.                              *)
(***************************************************************************)
EXTENDS Integers

CONSTANTS
  Tasks, Devices, Registers,
  Values,       \* contents of a register; 0 is one of them
  NoRequest,
  Faults        \* what else the bus does, see BusFaults

(* A device that does not answer, an illegal START or STOP on the wires,   *)
(* and another master winning the bus.                                     *)
BusFaults == {"nack", "busError", "arbitrationLost"}

ASSUME ValuesAssumption == 0 \in Values
ASSUME FaultsAssumption == Faults \subseteq BusFaults

VARIABLES
  i2cLock, i2cReadCompleteSignal,      \* binary semaphores
  frame,        \* I2C_IOFRAME; rwBuffer is its first byte
  bPointer,     \* static in i2cStateMachine
  START, SI,    \* flags of I2CONSET
  I2STAT, I2DAT,
  addressed, pointer, registers,       \* the devices on the bus
  pc, request, byte,                   \* per task
  accepted,     \* history: the request whose transfer was started last
  disturbed     \* history: whether a bus error ended the last transfer

semaphores == <<i2cLock, i2cReadCompleteSignal>>
driver     == <<frame, bPointer>>
hardware   == <<START, SI, I2STAT, I2DAT>>
devices    == <<addressed, pointer, registers>>
tasks      == <<pc, request, byte>>
history    == <<accepted, disturbed>>
vars == <<semaphores, driver, hardware, devices, tasks, history>>

Requests == [mode : {"read", "write"}, device : Devices, register : Registers,
             value : Values]

ASSUME RequestAssumption == NoRequest \notin Requests

(* What I2DAT carries: a byte of each kind. *)
Bytes == Devices \cup Registers \cup Values

(* "idle" is the status without information, 0xF8. *)
Statuses ==
  {"idle", "start", "repeatStart", "slaveAddressAcked", "slaveAddressNacked",
   "dataAckedBySlave", "dataNackedBySlave", "readAckedBySlave",
   "readModeNackedBySlave", "dataAvailableNackSent", "busError",
   "arbitrationLost"}

(* What the frame's error holds after a status is stored in it: 0 stands   *)
(* for no error, and is also the code of a bus error.                      *)
ErrorCode(status) == IF status = "busError" THEN "none" ELSE status

-----------------------------------------------------------------------------
(* The callers.                                                            *)
Call(t, r) ==
  /\ pc[t] = "out"
  /\ pc' = [pc EXCEPT ![t] = "lock"]
  /\ request' = [request EXCEPT ![t] = r]
  /\ UNCHANGED <<semaphores, driver, hardware, devices, byte, history>>

TakeLock(t) ==
  /\ pc[t] = "lock"
  /\ i2cLock = 1
  /\ i2cLock' = 0
  /\ pc' = [pc EXCEPT ![t] = "kick"]
  /\ UNCHANGED <<i2cReadCompleteSignal, driver, hardware, devices, request,
                 byte, history>>

(* i2cKickOffTransfer; a write returns 0 right after it. *)
KickOff(t) ==
  LET r == request[t]
  IN  /\ pc[t] = "kick"
      /\ frame' = [mode |-> r.mode, device |-> r.device,
                   register |-> r.register, error |-> "none",
                   rwBuffer |-> IF r.mode = "write" THEN r.value
                                ELSE frame.rwBuffer]
      /\ START' = 1
      /\ accepted' = r
      /\ \/ /\ r.mode = "read"
            /\ pc' = [pc EXCEPT ![t] = "wait"]
            /\ UNCHANGED request
         \/ /\ r.mode = "write"
            /\ pc' = [pc EXCEPT ![t] = "out"]
            /\ request' = [request EXCEPT ![t] = NoRequest]
      /\ UNCHANGED <<semaphores, bPointer, SI, I2STAT, I2DAT, devices, byte,
                     disturbed>>

\* Mutant of TakeSignal: the read does not wait.
TakeSignal_NoWait(t) ==
  /\ pc[t] = "wait"
  /\ i2cReadCompleteSignal' = 0
  /\ pc' = [pc EXCEPT ![t] = "copy"]
  /\ UNCHANGED <<i2cLock, driver, hardware, devices, request, byte, history>>

TakeSignal(t) ==
  /\ pc[t] = "wait"
  /\ i2cReadCompleteSignal = 1
  /\ i2cReadCompleteSignal' = 0
  /\ pc' = [pc EXCEPT ![t] = "copy"]
  /\ UNCHANGED <<i2cLock, driver, hardware, devices, request, byte, history>>

CopyByte(t) ==
  /\ pc[t] = "copy"
  /\ byte' = [byte EXCEPT ![t] = frame.rwBuffer]
  /\ pc' = [pc EXCEPT ![t] = "give"]
  /\ UNCHANGED <<semaphores, driver, hardware, devices, request, history>>

GiveLock(t) ==
  /\ pc[t] = "give"
  /\ i2cLock' = 1
  /\ pc' = [pc EXCEPT ![t] = "out"]
  /\ request' = [request EXCEPT ![t] = NoRequest]
  /\ byte' = [byte EXCEPT ![t] = 0]
  /\ UNCHANGED <<i2cReadCompleteSignal, driver, hardware, devices, history>>

-----------------------------------------------------------------------------
(* i2cISR with i2cStateMachine, one action per group of case labels.       *)

\* Mutant of Complete: the lock of a read is given by the handler as well.
Complete_GiveBoth ==
  /\ START' = 0 /\ SI' = 0 /\ I2STAT' = "idle"
  /\ disturbed' = (I2STAT = "busError")
  /\ i2cLock' = 1
  /\ i2cReadCompleteSignal' = IF frame.mode = "read" THEN 1
                              ELSE i2cReadCompleteSignal
  /\ UNCHANGED <<I2DAT, devices, tasks, accepted>>

\* Mutant of Complete: a read that failed is not signalled.
Complete_NoErrorSignal ==
  /\ START' = 0 /\ SI' = 0 /\ I2STAT' = "idle"
  /\ disturbed' = (I2STAT = "busError")
  /\ IF frame.mode = "read"
     THEN /\ i2cReadCompleteSignal' =
               IF frame'.error = "none" THEN 1 ELSE i2cReadCompleteSignal
          /\ UNCHANGED i2cLock
     ELSE i2cLock' = 1 /\ UNCHANGED i2cReadCompleteSignal
  /\ UNCHANGED <<I2DAT, devices, tasks, accepted>>

(* setStop, which waits until the STOP is on the wires, and what i2cISR    *)
(* does with the readComplete or writeComplete it leaves.                  *)
Complete ==
  /\ START' = 0 /\ SI' = 0 /\ I2STAT' = "idle"
  /\ disturbed' = (I2STAT = "busError")
  /\ IF frame.mode = "read"
     THEN i2cReadCompleteSignal' = 1 /\ UNCHANGED i2cLock
     ELSE i2cLock' = 1 /\ UNCHANGED i2cReadCompleteSignal
  /\ UNCHANGED <<I2DAT, devices, tasks, accepted>>

(* The handler clears SI and the hardware goes on, sending I2DAT. *)
Continue(dat, sta) ==
  /\ SI' = 0
  /\ I2DAT' = dat
  /\ START' = sta
  /\ UNCHANGED <<semaphores, I2STAT, devices, tasks, history>>

\* Mutant of OnStart: the buffer index is not rewound.
OnStart_NoRewind ==
  /\ SI = 1 /\ I2STAT = "start"
  /\ Continue(frame.device, START)
  /\ UNCHANGED <<bPointer, frame>>

OnStart ==
  /\ SI = 1 /\ I2STAT = "start"
  /\ bPointer' = 0
  /\ Continue(frame.device, START)
  /\ UNCHANGED frame

OnRepeatStart ==
  /\ SI = 1 /\ I2STAT = "repeatStart"
  /\ Continue(frame.device, START)
  /\ UNCHANGED driver

OnAddressAcked ==
  /\ SI = 1 /\ I2STAT = "slaveAddressAcked"
  /\ Continue(frame.register, 0)
  /\ UNCHANGED driver

(* A read goes on with a repeated START; a write sends its byte, then ends. *)
OnDataAcked ==
  /\ SI = 1 /\ I2STAT = "dataAckedBySlave"
  /\ UNCHANGED frame
  /\ \/ /\ frame.mode = "read"
        /\ Continue(I2DAT, 1)
        /\ UNCHANGED bPointer
     \/ /\ frame.mode = "write" /\ bPointer < 1
        /\ Continue(frame.rwBuffer, START)
        /\ bPointer' = bPointer + 1
     \/ /\ frame.mode = "write" /\ bPointer >= 1
        /\ Complete
        /\ UNCHANGED bPointer

OnReadAcked ==
  /\ SI = 1 /\ I2STAT = "readAckedBySlave"
  /\ Continue(I2DAT, 0)
  /\ UNCHANGED driver

(* rwBuffer[bPointer++] = I2DAT. *)
OnDataAvailable ==
  /\ SI = 1 /\ I2STAT = "dataAvailableNackSent"
  /\ frame' = [frame EXCEPT !.rwBuffer = IF bPointer = 0 THEN I2DAT ELSE @]
  /\ bPointer' = bPointer + 1
  /\ Complete

(* I2C_IOFRAME.error = I2STAT, then setStop. *)
Fail(status) ==
  /\ SI = 1 /\ I2STAT = status
  /\ frame' = [frame EXCEPT !.error = ErrorCode(status)]
  /\ Complete
  /\ UNCHANGED bPointer

OnAddressNacked  == Fail("slaveAddressNacked")
OnDataNacked     == Fail("dataNackedBySlave")
OnReadModeNacked == Fail("readModeNackedBySlave")
OnBusError       == Fail("busError")

(* Neither SI is cleared nor the transaction ended. *)
OnArbitrationLost ==
  /\ SI = 1 /\ I2STAT = "arbitrationLost"
  /\ frame' = [frame EXCEPT !.error = ErrorCode(I2STAT)]
  /\ bPointer' = 0
  /\ UNCHANGED <<semaphores, hardware, devices, tasks, history>>

i2cISR ==
  \/ OnStart \/ OnRepeatStart \/ OnAddressAcked \/ OnDataAcked \/ OnReadAcked
  \/ OnDataAvailable \/ OnAddressNacked \/ OnDataNacked \/ OnReadModeNacked
  \/ OnBusError \/ OnArbitrationLost

-----------------------------------------------------------------------------
(* The bus, external: what the hardware and the devices do with SI clear.  *)
Report(status) ==
  /\ I2STAT' = status
  /\ SI' = 1
  /\ UNCHANGED <<semaphores, driver, START, tasks, history>>

SendStart ==
  /\ SI = 0 /\ START = 1
  /\ \/ I2STAT = "idle" /\ Report("start")
     \/ I2STAT = "dataAckedBySlave" /\ Report("repeatStart")
  /\ UNCHANGED <<I2DAT, devices>>

(* A byte goes out and the device acknowledges it. *)
SendByte ==
  /\ SI = 0
  /\ UNCHANGED I2DAT
  /\ \/ /\ I2STAT = "start" /\ Report("slaveAddressAcked")
        /\ addressed' = I2DAT
        /\ UNCHANGED <<pointer, registers>>
     \/ /\ I2STAT = "slaveAddressAcked" /\ Report("dataAckedBySlave")
        /\ pointer' = I2DAT
        /\ UNCHANGED <<addressed, registers>>
     \/ /\ I2STAT = "dataAckedBySlave" /\ START = 0 /\ Report("dataAckedBySlave")
        /\ registers' = [registers EXCEPT ![<<addressed, pointer>>] = I2DAT]
        /\ UNCHANGED <<addressed, pointer>>
     \/ /\ I2STAT = "repeatStart" /\ Report("readAckedBySlave")
        /\ addressed' = I2DAT
        /\ UNCHANGED <<pointer, registers>>

ReceiveByte ==
  /\ SI = 0
  /\ I2STAT = "readAckedBySlave" /\ Report("dataAvailableNackSent")
  /\ I2DAT' = registers[<<addressed, pointer>>]
  /\ UNCHANGED devices

Nacked ==
  /\ "nack" \in Faults
  /\ SI = 0
  /\ \/ I2STAT = "start" /\ Report("slaveAddressNacked")
     \/ I2STAT = "slaveAddressAcked" /\ Report("dataNackedBySlave")
     \/ I2STAT = "dataAckedBySlave" /\ START = 0 /\ Report("dataNackedBySlave")
     \/ I2STAT = "repeatStart" /\ Report("readModeNackedBySlave")
  /\ UNCHANGED <<I2DAT, devices>>

Disturbed ==
  /\ SI = 0 /\ I2STAT # "idle"
  /\ \E f \in Faults \cap {"busError", "arbitrationLost"} : Report(f)
  /\ UNCHANGED <<I2DAT, devices>>

Bus == SendStart \/ SendByte \/ ReceiveByte \/ Nacked \/ Disturbed

-----------------------------------------------------------------------------
(* initialize_I2C0, with devices whose registers read 0. *)
Init ==
  /\ i2cLock = 1 /\ i2cReadCompleteSignal = 0
  /\ frame \in [mode : {"read"}, device : Devices, register : Registers,
                error : {"none"}, rwBuffer : {0}]
  /\ bPointer = 0
  /\ START = 0 /\ SI = 0 /\ I2STAT = "idle" /\ I2DAT = 0
  /\ addressed = frame.device /\ pointer = frame.register
  /\ registers = [place \in Devices \X Registers |-> 0]
  /\ pc = [t \in Tasks |-> "out"]
  /\ request = [t \in Tasks |-> NoRequest]
  /\ byte = [t \in Tasks |-> 0]
  /\ accepted = NoRequest /\ disturbed = FALSE

Step(t) ==
  TakeLock(t) \/ KickOff(t) \/ TakeSignal(t) \/ CopyByte(t) \/ GiveLock(t)

Next ==
  \/ \E t \in Tasks : \E r \in Requests : Call(t, r)
  \/ \E t \in Tasks : Step(t)
  \/ i2cISR
  \/ Bus

(* The bus and the handler make progress, and so does a task that is ready *)
(* to run; which waiter gets a free lock is up to priorities, so TakeLock  *)
(* of a given task is not promised.                                        *)
Fairness ==
  /\ WF_vars(i2cISR) /\ WF_vars(Bus)
  /\ \A t \in Tasks : WF_vars(KickOff(t) \/ TakeSignal(t) \/ CopyByte(t)
                                \/ GiveLock(t))

Spec == Init /\ [][Next]_vars /\ Fairness

-----------------------------------------------------------------------------
Places  == {"out", "lock", "kick", "wait", "copy", "give"}
Holding == {t \in Tasks : pc[t] \in {"kick", "wait", "copy", "give"}}
Busy    == START = 1 \/ SI = 1 \/ I2STAT # "idle"

TypeOK ==
  /\ i2cLock \in {0, 1} /\ i2cReadCompleteSignal \in {0, 1}
  /\ frame \in [mode : {"read", "write"}, device : Devices,
                register : Registers, error : Statuses \cup {"none"},
                rwBuffer : Values]
  /\ bPointer \in 0..1
  /\ START \in {0, 1} /\ SI \in {0, 1}
  /\ I2STAT \in Statuses /\ I2DAT \in Bytes
  /\ addressed \in Devices /\ pointer \in Registers
  /\ registers \in [Devices \X Registers -> Values]
  /\ pc \in [Tasks -> Places]
  /\ request \in [Tasks -> Requests \cup {NoRequest}]
  /\ \A t \in Tasks : pc[t] # "out" => request[t] \in Requests
  /\ byte \in [Tasks -> Values]
  /\ accepted \in Requests \cup {NoRequest} /\ disturbed \in BOOLEAN

(* The lock changes hands between tasks and the handler and never comes    *)
(* free early: with it free the bus is quiet, nobody is in the middle of a *)
(* transfer, and no completion signal is left for the next reader to take. *)
LockFreeMeansBusFree ==
  i2cLock = 1 => ~Busy /\ Holding = {} /\ i2cReadCompleteSignal = 0

(* While a transfer is on the bus no other caller overwrites its frame. *)
FrameStable ==
  [][Busy => /\ frame'.mode = frame.mode /\ frame'.device = frame.device
             /\ frame'.register = frame.register]_vars

(* A read that met no error returns what the register asked for holds.  A  *)
(* bus error is excepted: the frame does not show it, and the byte         *)
(* returned is whatever rwBuffer held before.                              *)
ReadReturnsRegister ==
  \A t \in Tasks : pc[t] = "give" /\ frame.error = "none" /\ ~disturbed =>
    byte[t] = registers[<<request[t].device, request[t].register>>]

(* A write whose lock has been given back without error is in the device,  *)
(* unless a bus error, which leaves no trace in the frame, ended it.       *)
WriteLanded ==
  i2cLock = 1 /\ accepted # NoRequest /\ frame.mode = "write"
    /\ frame.error = "none" /\ ~disturbed =>
    registers[<<accepted.device, accepted.register>>] = accepted.value

(* Whatever a device answers, and on a disturbed bus, the lock comes back: *)
(* for the next caller, from the handler or from the reader.  The one      *)
(* exception is a transfer that loses the bus to another master, see below. *)
LockComesBack == i2cLock = 0 ~> i2cLock = 1 \/ I2STAT = "arbitrationLost"

(* What a comment says and the code does not do: i2c.c, arbitrationLost,   *)
(* "we still need to end our i2c transaction".                             *)
ArbitrationLossEnds == I2STAT = "arbitrationLost" ~> i2cLock = 1
=============================================================================
