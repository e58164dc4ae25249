----------------------------- MODULE I2C_proofs -----------------------------
(***************************************************************************)
(* The lock of the I2C driver protects a whole transfer, and what is read  *)
(* and written is what the caller asked for: for any number of tasks and   *)
(* devices and whatever faults the bus shows.                              *)
(***************************************************************************)
EXTENDS I2C, TLAPS

(* Who is responsible for giving i2cLock back.  There is one of: a free    *)
(* lock, one task between taking it and handing the frame to the handler,  *)
(* a write on the bus, a read on the bus or completed with one task        *)
(* waiting for it.                                                         *)
Responsible ==
  /\ \A t, u \in Tasks :
       /\ pc[t] \in {"kick", "wait", "copy", "give"}
       /\ pc[u] \in {"kick", "wait", "copy", "give"}
       => t = u
  /\ \A t \in Tasks :
       /\ pc[t] \in {"kick", "wait", "copy", "give"} => i2cLock = 0
       /\ pc[t] \in {"kick", "copy", "give"} =>
            ~Busy /\ i2cReadCompleteSignal = 0
       /\ pc[t] = "wait" => frame.mode = "read"
       /\ Busy /\ frame.mode = "write" =>
            pc[t] \notin {"kick", "wait", "copy", "give"}
  /\ Busy \/ i2cReadCompleteSignal = 1 =>
       /\ i2cLock = 0
       /\ frame.mode = "read" => \E t \in Tasks : pc[t] = "wait"
  /\ i2cReadCompleteSignal = 1 => ~Busy /\ frame.mode = "read"

(* What the hardware is doing fits the mode of the frame. *)
Wires ==
  /\ SI = 1 => I2STAT # "idle"
  /\ I2STAT \in {"repeatStart", "readAckedBySlave", "dataAvailableNackSent"} =>
       frame.mode = "read" /\ bPointer = 0
  /\ I2STAT = "dataAvailableNackSent" => SI = 1
  /\ I2STAT = "start" /\ SI = 0 => bPointer = 0
  /\ I2STAT = "slaveAddressAcked" => bPointer = 0 /\ (SI = 0 => START = 0)
  /\ I2STAT = "dataAckedBySlave" =>
       /\ START = 1 => SI = 0 /\ frame.mode = "read"
       /\ frame.mode = "read" => bPointer = 0 /\ (SI = 0 => START = 1)
       /\ frame.mode = "write" /\ SI = 0 => bPointer = 1

(* The device has been told, so far, what the frame says. *)
Conversation ==
  /\ SI = 0 /\ I2STAT \in {"start", "repeatStart"} => I2DAT = frame.device
  /\ SI = 0 /\ I2STAT = "slaveAddressAcked" => I2DAT = frame.register
  /\ I2STAT \in {"slaveAddressAcked", "dataAckedBySlave", "repeatStart",
                 "readAckedBySlave", "dataAvailableNackSent"} =>
       addressed = frame.device
  /\ I2STAT \in {"dataAckedBySlave", "repeatStart", "readAckedBySlave",
                 "dataAvailableNackSent"} => pointer = frame.register
  /\ I2STAT = "dataAckedBySlave" /\ SI = 0 /\ frame.mode = "write" =>
       I2DAT = frame.rwBuffer
  /\ I2STAT = "dataAckedBySlave" /\ SI = 1 /\ frame.mode = "write"
       /\ bPointer = 1 =>
       registers[<<frame.device, frame.register>>] = frame.rwBuffer
  /\ I2STAT = "dataAvailableNackSent" =>
       I2DAT = registers[<<frame.device, frame.register>>]

(* A completed transfer without error, and without a bus error, did what   *)
(* the frame says, and the frame says what the caller asked for.           *)
Completed ==
  /\ ~Busy /\ frame.error = "none" /\ ~disturbed =>
       frame.rwBuffer = registers[<<frame.device, frame.register>>]
  /\ \A t \in Tasks :
       /\ pc[t] \in {"wait", "copy", "give"} =>
            /\ request[t].device = frame.device
            /\ request[t].register = frame.register
            /\ accepted # NoRequest
       /\ pc[t] = "give" => byte[t] = frame.rwBuffer
  /\ Busy => accepted # NoRequest
  /\ accepted # NoRequest =>
       /\ accepted.mode = frame.mode
       /\ accepted.device = frame.device
       /\ accepted.register = frame.register
       /\ frame.mode = "write" => accepted.value = frame.rwBuffer

IInv == TypeOK /\ Responsible /\ Wires /\ Conversation /\ Completed

LEMMA InitIInv == Init => IInv
<1> SUFFICES ASSUME Init PROVE IInv
  OBVIOUS
<1> USE ValuesAssumption DEF Init
<1>1. TypeOK
  <2>1. disturbed \in BOOLEAN
    BY Zenon
  <2> QED BY <2>1 DEF TypeOK, Places, Statuses, Bytes
<1>2. Responsible
  BY DEF Responsible, Busy
<1>3. Wires /\ Conversation /\ Completed
  BY DEF Wires, Conversation, Completed, Busy
<1> QED BY <1>1, <1>2, <1>3 DEF IInv

(* Steps of a caller. *)
LEMMA CallIInv ==
  ASSUME IInv, NEW t \in Tasks, NEW r \in Requests, Call(t, r)
  PROVE  IInv'
<1> USE DEF Call, IInv, semaphores, driver, hardware, devices, history
<1>1. TypeOK'
  BY DEF TypeOK, Places
<1>2. Responsible'
  BY DEF Responsible, Busy, TypeOK
<1>3. Wires' /\ Conversation'
  BY DEF Wires, Conversation
<1>4. Completed'
  BY DEF Completed, Busy, TypeOK
<1> QED BY <1>1, <1>2, <1>3, <1>4

LEMMA TakeLockIInv ==
  ASSUME IInv, NEW t \in Tasks, TakeLock(t)
  PROVE  IInv'
<1> USE DEF TakeLock, IInv, driver, hardware, devices, history
<1>1. TypeOK'
  BY DEF TypeOK, Places
<1>2. Responsible'
  BY DEF Responsible, Busy, TypeOK
<1>3. Wires' /\ Conversation'
  BY DEF Wires, Conversation
<1>4. Completed'
  BY DEF Completed, Busy, TypeOK
<1> QED BY <1>1, <1>2, <1>3, <1>4

LEMMA KickOffIInv ==
  ASSUME IInv, NEW t \in Tasks, KickOff(t)
  PROVE  IInv'
<1> USE DEF KickOff, IInv, semaphores, devices, history
<1>1. request[t] \in Requests
  BY DEF TypeOK
<1>2. TypeOK'
  BY <1>1 DEF TypeOK, Places, Requests
<1>3. Responsible'
  BY <1>1, SMTT(30) DEF Responsible, Busy, TypeOK, Requests
<1>4. Wires' /\ Conversation'
  BY DEF Wires, Conversation, Responsible, Busy, TypeOK
<1>5. Completed'
  <2>1. /\ frame'.mode = request[t].mode /\ frame'.device = request[t].device
        /\ frame'.register = request[t].register
        /\ request[t].mode = "write" => frame'.rwBuffer = request[t].value
        /\ accepted' = request[t] /\ START' = 1 /\ byte' = byte
    OBVIOUS
  <2>2. ASSUME NEW u \in Tasks, pc'[u] \in {"wait", "copy", "give"}
        PROVE  u = t /\ pc'[u] = "wait" /\ request'[u] = request[t]
    BY <1>1, <2>2 DEF Responsible, TypeOK, Requests
  <2>3. Busy' /\ accepted' # NoRequest
    BY <1>1, <2>1, RequestAssumption DEF Busy
  <2> QED BY <2>1, <2>2, <2>3 DEF Completed
<1> QED BY <1>2, <1>3, <1>4, <1>5

LEMMA TakeSignalIInv ==
  ASSUME IInv, NEW t \in Tasks, TakeSignal(t)
  PROVE  IInv'
<1> USE DEF TakeSignal, IInv, driver, hardware, devices, history
<1>1. TypeOK'
  BY DEF TypeOK, Places
<1>2. Responsible'
  BY DEF Responsible, Busy, TypeOK
<1>3. Wires' /\ Conversation'
  BY DEF Wires, Conversation
<1>4. Completed'
  BY DEF Completed, Busy, TypeOK
<1> QED BY <1>1, <1>2, <1>3, <1>4

LEMMA CopyByteIInv ==
  ASSUME IInv, NEW t \in Tasks, CopyByte(t)
  PROVE  IInv'
<1> USE DEF CopyByte, IInv, semaphores, driver, hardware, devices, history
<1>1. TypeOK'
  BY DEF TypeOK, Places
<1>2. Responsible'
  BY DEF Responsible, Busy, TypeOK
<1>3. Wires' /\ Conversation'
  BY DEF Wires, Conversation
<1>4. Completed'
  BY DEF Completed, Busy, TypeOK
<1> QED BY <1>1, <1>2, <1>3, <1>4

LEMMA GiveLockIInv ==
  ASSUME IInv, NEW t \in Tasks, GiveLock(t)
  PROVE  IInv'
<1> USE ValuesAssumption DEF GiveLock, IInv, driver, hardware, devices, history
<1>1. TypeOK'
  BY DEF TypeOK, Places
<1>2. Responsible'
  BY DEF Responsible, Busy, TypeOK
<1>3. Wires' /\ Conversation'
  BY DEF Wires, Conversation
<1>4. Completed'
  BY DEF Completed, Busy, TypeOK
<1> QED BY <1>1, <1>2, <1>3, <1>4

(* The handler goes on with a transfer: who is responsible does not change. *)
LEMMA ContinueKeeps ==
  ASSUME IInv, SI = 1, NEW dat \in Bytes, NEW sta \in {0, 1}, Continue(dat, sta),
         I2STAT # "idle", UNCHANGED frame, bPointer' \in 0..1
  PROVE  TypeOK' /\ Responsible' /\ Completed'
<1> USE DEF Continue, IInv, semaphores, devices, tasks, history
<1>1. TypeOK'
  BY DEF TypeOK
<1>2. Responsible'
  BY DEF Responsible, Busy, TypeOK
<1>3. Completed'
  BY DEF Completed, Busy, TypeOK
<1> QED BY <1>1, <1>2, <1>3

LEMMA CompleteKeeps ==
  ASSUME IInv, SI = 1, Complete, bPointer' \in 0..1,
         NEW e \in Statuses \cup {"none"}, NEW b \in Values,
         frame' = [mode |-> frame.mode, device |-> frame.device,
                   register |-> frame.register, error |-> e, rwBuffer |-> b],
         frame.mode = "write" => b = frame.rwBuffer,
         e = "none" /\ I2STAT # "busError" =>
           b = registers[<<frame.device, frame.register>>]
  PROVE  IInv'
<1> USE DEF Complete, IInv, devices, tasks
<1>1. TypeOK'
  BY DEF TypeOK, Statuses
<1>2. Responsible'
  BY DEF Responsible, Busy, TypeOK
<1>3. Wires' /\ Conversation'
  BY DEF Wires, Conversation, TypeOK
<1>4. Completed'
  BY DEF Completed, Busy, TypeOK, Responsible
<1> QED BY <1>1, <1>2, <1>3, <1>4

LEMMA HandlerIInv ==
  ASSUME IInv, i2cISR
  PROVE  IInv'
<1> USE DEF IInv
<1>1. /\ frame.device \in Bytes /\ frame.register \in Bytes
      /\ frame.rwBuffer \in Bytes /\ I2DAT \in Bytes /\ START \in {0, 1}
  BY DEF TypeOK, Bytes
<1>2. CASE OnStart
  <2>1. TypeOK' /\ Responsible' /\ Completed'
    BY <1>1, <1>2, ContinueKeeps DEF OnStart
  <2>2. Wires' /\ Conversation'
    BY <1>2 DEF OnStart, Continue, Wires, Conversation
  <2> QED BY <2>1, <2>2
<1>3. CASE OnRepeatStart
  <2>1. TypeOK' /\ Responsible' /\ Completed'
    BY <1>1, <1>3, ContinueKeeps DEF OnRepeatStart, driver, TypeOK
  <2>2. Wires' /\ Conversation'
    BY <1>3 DEF OnRepeatStart, Continue, Wires, Conversation, driver, devices
  <2> QED BY <2>1, <2>2
<1>4. CASE OnAddressAcked
  <2>1. TypeOK' /\ Responsible' /\ Completed'
    BY <1>1, <1>4, ContinueKeeps DEF OnAddressAcked, driver, TypeOK
  <2>2. Wires' /\ Conversation'
    BY <1>4 DEF OnAddressAcked, Continue, Wires, Conversation, driver, devices
  <2> QED BY <2>1, <2>2
<1>5. CASE OnReadAcked
  <2>1. TypeOK' /\ Responsible' /\ Completed'
    BY <1>1, <1>5, ContinueKeeps DEF OnReadAcked, driver, TypeOK
  <2>2. Wires' /\ Conversation'
    BY <1>5 DEF OnReadAcked, Continue, Wires, Conversation, driver, devices
  <2> QED BY <2>1, <2>2
<1>6. CASE OnDataAcked
  <2>1. CASE frame.mode = "read"
    <3>1. Continue(I2DAT, 1) /\ UNCHANGED <<frame, bPointer>>
      BY <1>6, <2>1 DEF OnDataAcked
    <3>2. TypeOK' /\ Responsible' /\ Completed'
      BY <1>1, <1>6, <3>1, ContinueKeeps DEF OnDataAcked, TypeOK
    <3>3. Wires' /\ Conversation'
      BY <1>6, <2>1, <3>1 DEF OnDataAcked, Continue, Wires, Conversation, devices
    <3> QED BY <3>2, <3>3
  <2>2. CASE frame.mode = "write" /\ bPointer < 1
    <3>1. /\ Continue(frame.rwBuffer, START) /\ frame' = frame
          /\ bPointer' = bPointer + 1 /\ bPointer = 0
      BY <1>6, <2>2 DEF OnDataAcked, TypeOK
    <3>2. TypeOK' /\ Responsible' /\ Completed'
      BY <1>1, <1>6, <3>1, ContinueKeeps DEF OnDataAcked, TypeOK
    <3>3. Wires' /\ Conversation'
      BY <1>6, <2>2, <3>1 DEF OnDataAcked, Continue, Wires, Conversation, devices
    <3> QED BY <3>2, <3>3
  <2>3. CASE frame.mode = "write" /\ bPointer >= 1
    <3>1. Complete /\ UNCHANGED <<frame, bPointer>> /\ bPointer = 1
      BY <1>6, <2>3 DEF OnDataAcked, TypeOK
    <3>2. frame.rwBuffer = registers[<<frame.device, frame.register>>]
      BY <1>6, <2>3, <3>1 DEF OnDataAcked, Conversation
    <3>3. frame' = [mode |-> frame.mode, device |-> frame.device,
                    register |-> frame.register, error |-> frame.error, rwBuffer |-> frame.rwBuffer]
      BY <3>1 DEF TypeOK
    <3> QED BY <1>6, <3>1, <3>2, <3>3, CompleteKeeps DEF OnDataAcked, TypeOK
  <2> QED BY <2>1, <2>2, <2>3 DEF TypeOK
<1>7. CASE OnDataAvailable
  <2>1. bPointer = 0 /\ frame.mode = "read"
        /\ I2DAT = registers[<<frame.device, frame.register>>]
    BY <1>7 DEF OnDataAvailable, Wires, Conversation
  <2>2. I2DAT \in Values /\ frame.error \in Statuses \cup {"none"}
    BY <2>1 DEF TypeOK
  <2>3. /\ frame' = [mode |-> frame.mode, device |-> frame.device,
                     register |-> frame.register, error |-> frame.error, rwBuffer |-> I2DAT]
        /\ Complete /\ SI = 1 /\ bPointer' = 1
    BY <1>7, <2>1 DEF OnDataAvailable, TypeOK
  <2> QED BY <2>1, <2>2, <2>3, CompleteKeeps
<1>8. ASSUME NEW s \in {"slaveAddressNacked", "dataNackedBySlave",
                        "readModeNackedBySlave", "busError"}, Fail(s)
      PROVE  IInv'
  <2> DEFINE e == ErrorCode(s)
  <2>1. /\ e \in Statuses \cup {"none"} /\ frame.rwBuffer \in Values
        /\ e = "none" => I2STAT = "busError"
    BY <1>8 DEF Fail, ErrorCode, Statuses, TypeOK
  <2>2. /\ frame' = [mode |-> frame.mode, device |-> frame.device,
                     register |-> frame.register, error |-> e, rwBuffer |-> frame.rwBuffer]
        /\ Complete /\ SI = 1 /\ bPointer' \in 0..1
    BY <1>8 DEF Fail, TypeOK
  <2> HIDE DEF e
  <2> QED BY <2>1, <2>2, CompleteKeeps
<1>9. CASE OnArbitrationLost
  <2> USE <1>9 DEF OnArbitrationLost, semaphores, hardware, devices, tasks, history,
             ErrorCode
  <2>1. TypeOK'
    BY DEF TypeOK, Statuses
  <2>2. Responsible'
    BY DEF Responsible, Busy, TypeOK
  <2>3. Wires' /\ Conversation'
    BY DEF Wires, Conversation
  <2>4. Completed'
    BY DEF Completed, Busy, TypeOK
  <2> QED BY <2>1, <2>2, <2>3, <2>4
<1> QED
  BY <1>2, <1>3, <1>4, <1>5, <1>6, <1>7, <1>8, <1>9 DEF i2cISR,
     OnAddressNacked, OnDataNacked, OnReadModeNacked, OnBusError

(* A report of the bus raises SI during a transfer. *)
LEMMA ReportKeeps ==
  ASSUME IInv, NEW s \in Statuses, Report(s), Busy, I2DAT' \in Bytes,
         addressed' \in Devices, pointer' \in Registers,
         registers' \in [Devices \X Registers -> Values]
  PROVE  TypeOK' /\ Responsible' /\ Completed'
<1> USE DEF Report, IInv, semaphores, driver, tasks, history
<1>1. TypeOK'
  BY DEF TypeOK
<1>2. Responsible'
  BY DEF Responsible, Busy, TypeOK
<1>3. Completed'
  BY DEF Completed, Busy, TypeOK
<1> QED BY <1>1, <1>2, <1>3

LEMMA BusIInv ==
  ASSUME IInv, Bus
  PROVE  IInv'
<1> USE DEF IInv
<1>1. I2STAT # "idle" \/ START = 1 => Busy
  BY DEF Busy
<1>2. CASE SendStart
  <2>1. PICK s \in {"start", "repeatStart"} : Report(s)
    BY <1>2 DEF SendStart
  <2>2. TypeOK' /\ Responsible' /\ Completed'
    BY <1>1, <1>2, <2>1, ReportKeeps DEF SendStart, devices, TypeOK, Statuses
  <2>3. Wires' /\ Conversation'
    BY <1>2 DEF SendStart, Report, Wires, Conversation, driver, devices
  <2> QED BY <2>2, <2>3
<1>3. CASE SendByte
  <2>1. PICK s \in {"slaveAddressAcked", "dataAckedBySlave", "readAckedBySlave"} :
          Report(s)
    BY <1>3 DEF SendByte
  <2>2. /\ addressed' \in Devices /\ pointer' \in Registers
        /\ registers' \in [Devices \X Registers -> Values]
        /\ I2DAT' \in Bytes /\ I2STAT # "idle"
    BY <1>3 DEF SendByte, TypeOK, Wires, Conversation
  <2>3. TypeOK' /\ Responsible' /\ Completed'
    BY <1>1, <2>1, <2>2, ReportKeeps DEF Statuses
  <2>4. Wires' /\ Conversation'
    BY <1>3 DEF SendByte, Report, Wires, Conversation, driver, TypeOK
  <2> QED BY <2>3, <2>4
<1>4. CASE ReceiveByte
  <2>1. /\ registers[<<addressed, pointer>>] \in Values
        /\ Report("dataAvailableNackSent")
        /\ I2STAT # "idle" /\ UNCHANGED devices
        /\ I2DAT' \in Bytes
    BY <1>4 DEF ReceiveByte, TypeOK, Bytes
  <2>2. TypeOK' /\ Responsible' /\ Completed'
    BY <1>1, <2>1, ReportKeeps DEF devices, TypeOK, Statuses
  <2>3. Wires' /\ Conversation'
    BY <1>4 DEF ReceiveByte, Report, Wires, Conversation, driver, devices
  <2> QED BY <2>2, <2>3
<1>5. CASE Nacked \/ Disturbed
  <2>1. PICK s \in {"slaveAddressNacked", "dataNackedBySlave",
                    "readModeNackedBySlave", "busError", "arbitrationLost"} :
          Report(s)
    BY <1>5 DEF Nacked, Disturbed
  <2>2. UNCHANGED <<I2DAT, devices>> /\ I2STAT # "idle"
    BY <1>5 DEF Nacked, Disturbed
  <2>3. TypeOK' /\ Responsible' /\ Completed'
    BY <1>1, <2>1, <2>2, ReportKeeps DEF devices, TypeOK, Statuses
  <2>4. Wires' /\ Conversation'
    BY <2>1, <2>2 DEF Report, Wires, Conversation, driver, devices
  <2> QED BY <2>3, <2>4
<1> QED BY <1>2, <1>3, <1>4, <1>5 DEF Bus

LEMMA NextIInv == IInv /\ [Next]_vars => IInv'
<1> SUFFICES ASSUME IInv, [Next]_vars PROVE IInv'
  OBVIOUS
<1>1. CASE UNCHANGED vars
  BY <1>1 DEF vars, semaphores, driver, hardware, devices, tasks, history, IInv, TypeOK,
              Responsible, Busy, Wires, Conversation, Completed
<1>2. ASSUME NEW t \in Tasks, Step(t) PROVE IInv'
  BY <1>2, TakeLockIInv, KickOffIInv, TakeSignalIInv, CopyByteIInv, GiveLockIInv
     DEF Step
<1> QED
  BY <1>1, <1>2, CallIInv, HandlerIInv, BusIInv DEF Next

LEMMA Invariance == Spec => []IInv
  BY InitIInv, NextIInv, PTL DEF Spec

(* State and types. *)
THEOREM TypeCorrect == Spec => []TypeOK
  BY Invariance, PTL DEF IInv

(* The lock is never free while somebody relies on it. *)
THEOREM LockProtectsTransfer == Spec => []LockFreeMeansBusFree
<1>1. IInv => LockFreeMeansBusFree
  BY DEF IInv, TypeOK, Responsible, LockFreeMeansBusFree, Holding
<1> QED BY <1>1, Invariance, PTL

(* No other caller overwrites the frame of a transfer. *)
THEOREM FrameIsStable == Spec => FrameStable
<1> DEFINE Kept == Busy => /\ frame'.mode = frame.mode
                           /\ frame'.device = frame.device
                           /\ frame'.register = frame.register
<1>1. ASSUME IInv, Next PROVE Kept
  <2>1. ASSUME NEW t \in Tasks, Step(t) \/ \E r \in Requests : Call(t, r)
        PROVE  Kept
    BY <1>1, <2>1 DEF IInv, Responsible, Step, TakeLock, KickOff, TakeSignal,
                      CopyByte, GiveLock, Call, driver
  <2>2. ASSUME i2cISR PROVE Kept
    BY <1>1, <2>2 DEF IInv, TypeOK, i2cISR, OnStart, OnRepeatStart,
       OnAddressAcked, OnDataAcked, OnReadAcked, OnDataAvailable, Fail,
       OnAddressNacked, OnDataNacked, OnReadModeNacked, OnBusError, OnArbitrationLost, driver
  <2>3. ASSUME Bus PROVE Kept
    BY <2>3 DEF Bus, SendStart, SendByte, ReceiveByte, Nacked, Disturbed,
                Report, driver
  <2> QED BY <1>1, <2>1, <2>2, <2>3 DEF Next
<1>2. IInv /\ [Next]_vars => [Kept]_vars
  BY <1>1
<1> QED BY <1>2, Invariance, PTL DEF Spec, FrameStable

(* A read without error, and not ended by a bus error, returns the         *)
(* register it asked for.                                                  *)
THEOREM ReadsAreRight == Spec => []ReadReturnsRegister
<1>1. IInv => ReadReturnsRegister
  BY DEF IInv, ReadReturnsRegister, Completed, Responsible
<1> QED BY <1>1, Invariance, PTL

(* A write without error, and not ended by a bus error, has reached its    *)
(* register when the lock is free.                                         *)
THEOREM WritesLand == Spec => []WriteLanded
<1>1. IInv => WriteLanded
  BY DEF IInv, TypeOK, WriteLanded, Completed, Responsible
<1> QED BY <1>1, Invariance, PTL
=============================================================================
