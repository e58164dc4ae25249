---------------------------- MODULE KernelQueue ----------------------------
(***************************************************************************)
(* FreeRTOS/queue.c on top of the scheduler: tasks of any priorities send  *)
(* to and receive from one queue, or take and give one mutex, and delay    *)
(* themselves, with block times; device interrupts use the queue and the   *)
(* tick interrupt may come between any two critical sections.              *)
(*                                                                         *)
(* An action is a critical section of the running task, or an interrupt.   *)
(* Items are only counted here.                                            *)
(***************************************************************************)
EXTENDS Scheduler

CONSTANTS
  QueueLength, IsMutex,
  BlockTimes, Delays,   \* what tasks ask for
  MaxMissed, MaxLock,   \* bounds on uxMissedTicks and on the lock counts
  NoTask

ASSUME QueueAssumption ==
  /\ QueueLength \in Nat \ {0} /\ IsMutex \in BOOLEAN
  /\ IsMutex => QueueLength = 1
  /\ BlockTimes \subseteq 0..portMAX_DELAY /\ Delays \subseteq 0..portMAX_DELAY
  /\ MaxMissed \in 0..portMAX_DELAY   \* no suspension outlasts the tick count
  /\ MaxLock \in Nat /\ NoTask \notin Tasks

VARIABLES
  s,        \* the scheduler
  q,        \* messages, holder, txLock and rxLock of the queue
  call,     \* of each task: the call it is in, see NoCall
  now       \* history: ticks there have been, modulo TickModulus

vars == <<s, q, call, now>>

(* at: the next step; op, wait, entrySet, entering, wrapped: the call with *)
(* xTicksToWait and xTimeOut, wrapped being xNumOfOverflows # the saved    *)
(* one; after: where xTaskResumeAll leads.  History: the block time asked  *)
(* for, the ticks since xTimeOut was first set, and whether the tick count *)
(* came round twice without the task looking at it.                        *)
NoCall == [at |-> "out", op |-> "none", wait |-> 0, entrySet |-> 0,
           entering |-> 0, wrapped |-> 0, after |-> "out",
           limit |-> 0, waited |-> 0, stalled |-> 0]

me == s.current
At(place) == call[me].at = place
Goto(place) == call' = [call EXCEPT ![me].at = place]
Return == call' = [call EXCEPT ![me] = NoCall]

\* Mutant of Possible: a queue with one item too many is not full.
Possible_OneMore(op) ==
  IF op = "send" THEN q.messages <= QueueLength ELSE q.messages > 0

(* Room for a send, an item for a receive. *)
Possible(op) == IF op = "send" THEN q.messages < QueueLength ELSE q.messages > 0
Other(op) == IF op = "send" THEN "receive" ELSE "send"

-----------------------------------------------------------------------------
(* The tasks' calls.  A mutex is only given by its holder, without waiting. *)
Begin(op, ticks) ==
  /\ me # Idle /\ At("out")
  /\ IsMutex => IF op = "send" THEN q.holder = me /\ ticks = 0 ELSE q.holder # me
  /\ call' = [call EXCEPT ![me] = [NoCall EXCEPT !.at = "top", !.op = op,
                                     !.wait = ticks, !.limit = ticks]]
  /\ UNCHANGED <<s, q, now>>

BeginDelay(ticks) ==
  /\ me # Idle /\ At("out")
  /\ call' = [call EXCEPT ![me] = [NoCall EXCEPT !.op = "delay", !.wait = ticks,
                                     !.at = IF ticks > 0 THEN "delay" ELSE "yield"]]
  /\ s' = IF ticks > 0 THEN [s EXCEPT !.suspended = 1] ELSE s
  /\ UNCHANGED <<q, now>>

vTaskDelay ==
  /\ At("delay")
  /\ s' = Delay(s, call[me].wait)
  /\ call' = [call EXCEPT ![me].at = "resume", ![me].after = "yield"]
  /\ UNCHANGED <<q, now>>

(* The first critical section when it succeeds: the item moves, the head   *)
(* of the other event list is readied and may take over at once.           *)
Transfer ==
  LET op == call[me].op
      z  == IF IsMutex /\ op = "send" /\ q.holder # NoTask
            THEN vTaskPriorityDisinherit(s, q.holder) ELSE s
      w  == IF z.waiting[Other(op)] = <<>> THEN z
            ELSE LET r == xTaskRemoveFromEventList(z, Other(op))
                 IN  IF HeadOutranks(z, Other(op)) THEN vTaskSwitchContext(r) ELSE r
  IN  /\ At("top") /\ Possible(op)
      /\ q' = [q EXCEPT !.messages = IF op = "send" THEN @ + 1 ELSE @ - 1,
                        !.holder = IF IsMutex /\ op = "receive" THEN me ELSE NoTask]
      /\ s' = w
      /\ Return
      /\ UNCHANGED now

(* ... and when it does not. *)
Fail ==
  /\ At("top") /\ ~Possible(call[me].op) /\ call[me].wait = 0
  /\ Return
  /\ UNCHANGED <<s, q, now>>

vTaskSetTimeOutState ==
  /\ At("top") /\ ~Possible(call[me].op) /\ call[me].wait > 0
  /\ call' = [call EXCEPT ![me].at = "suspend", ![me].entrySet = 1,
                ![me].entering = IF call[me].entrySet = 0 THEN s.tick ELSE @]
  /\ UNCHANGED <<s, q, now>>

vTaskSuspendAll ==
  /\ At("suspend")
  /\ s' = [s EXCEPT !.suspended = 1]
  /\ Goto("lock")
  /\ UNCHANGED <<q, now>>

\* Mutant of prvLockQueue: handlers go on using the event lists.
prvLockQueue_Open ==
  /\ At("lock")
  /\ Goto("check")
  /\ UNCHANGED <<s, q, now>>

prvLockQueue ==
  /\ At("lock")
  /\ q' = [q EXCEPT !.rxLock = IF @ = -1 THEN 0 ELSE @,
                    !.txLock = IF @ = -1 THEN 0 ELSE @]
  /\ Goto("check")
  /\ UNCHANGED <<s, now>>

\* Mutant of Remaining: xTimeOnEntering is not set anew.
Remaining_SameEntry(c, elapsed) == [c EXCEPT !.wait = @ - elapsed, !.wrapped = 0]

(* "Not a genuine timeout": xTimeOut and xTicksToWait for the time left. *)
Remaining(c, elapsed) ==
  [c EXCEPT !.wait = @ - elapsed, !.entering = s.tick, !.wrapped = 0]

xTaskCheckForTimeOut ==
  LET c == call[me]
      elapsed == (s.tick - c.entering) % TickModulus
      expired == (c.wrapped = 1 /\ s.tick >= c.entering) \/ elapsed >= c.wait
  IN  /\ At("check")
      /\ \/ /\ c.wait = portMAX_DELAY
            /\ Goto("test")
         \/ /\ c.wait < portMAX_DELAY /\ ~expired
            /\ call' = [call EXCEPT ![me] = [Remaining(@, elapsed) EXCEPT !.at = "test"]]
         \/ /\ c.wait < portMAX_DELAY /\ expired
            /\ call' = [call EXCEPT ![me].at = "unlockTx", ![me].after = "out"]
      /\ UNCHANGED <<s, q, now>>

(* prvIsQueueFull, prvIsQueueEmpty *)
Retest ==
  /\ At("test")
  /\ \/ Possible(call[me].op)
        /\ call' = [call EXCEPT ![me].at = "unlockTx", ![me].after = "top"]
     \/ ~Possible(call[me].op) /\ Goto("place")
  /\ UNCHANGED <<s, q, now>>

Place ==
  LET c == call[me]
      z == IF IsMutex /\ c.op = "receive" THEN vTaskPriorityInherit(s, q.holder) ELSE s
  IN  /\ At("place")
      /\ s' = vTaskPlaceOnEventList(z, c.op, c.wait)
      /\ call' = [call EXCEPT ![me].at = "unlockTx", ![me].after = "yield"]
      /\ UNCHANGED <<q, now>>

(* prvUnlockQueue, which readies one task for each item that an interrupt  *)
(* moved while the queue was locked; with the scheduler suspended they go  *)
(* to the pending list.                                                    *)
WakeCounted(list, count) ==
  LET woken == SubSeq(s.waiting[list], 1, Min({count, Len(s.waiting[list])}))
  IN  [s EXCEPT !.waiting[list] = SubSeq(@, Len(woken) + 1, Len(@)),
                !.pending = @ \o woken,
                !.missedYield =
                   IF \E t \in ToSet(woken) : s.prio[t] >= s.prio[me] THEN 1 ELSE @]

UnlockTx ==
  /\ At("unlockTx")
  /\ s' = WakeCounted("receive", q.txLock)
  /\ q' = [q EXCEPT !.txLock = -1]
  /\ Goto("unlockRx")
  /\ UNCHANGED now

UnlockRx ==
  /\ At("unlockRx")
  /\ s' = WakeCounted("send", q.rxLock)
  /\ q' = [q EXCEPT !.rxLock = -1]
  /\ Goto("resume")
  /\ UNCHANGED now

(* xNumOfOverflows moves on when the tick count comes round; a call that   *)
(* waits for ever never compares it.                                       *)
Wrap(calls, again) ==
  [t \in Tasks |-> IF again /\ calls[t].entrySet = 1 /\ calls[t].wait < portMAX_DELAY
                   THEN [calls[t] EXCEPT !.wrapped = 1,
                           !.stalled = IF calls[t].wrapped = 1 THEN 1 ELSE @]
                   ELSE calls[t]]

(* How a call goes on after xTaskResumeAll: a failed one returns, one that *)
(* put its task on a list yields, unless that was done.                    *)
Resumed(c, yielded) ==
  IF c.after = "out" \/ (c.op = "delay" /\ yielded) THEN NoCall
  ELSE [c EXCEPT !.at = IF c.after = "yield" /\ ~yielded THEN "yield" ELSE "top",
                 !.after = "out"]

\* Mutant of MissedTicks: one tick makes up for all.
MissedTicks_One(z) ==
  IF z.missedTicks = 0 THEN z ELSE [vTaskIncrementTick(z) EXCEPT !.missedTicks = 0]

(* The ticks missed meanwhile, one after another. *)
MissedTicks(z) ==
  LET caughtUp[n \in 0..z.missedTicks] ==
        IF n = 0 THEN z ELSE vTaskIncrementTick(caughtUp[n - 1])
  IN  [caughtUp[z.missedTicks] EXCEPT !.missedTicks = 0]

xTaskResumeAll ==
  LET z == MissedTicks([MoveToReady(s, s.pending) EXCEPT !.suspended = 0,
                                                         !.pending = <<>>])
      yield == \/ \E t \in ToSet(s.pending) : s.prio[t] >= s.prio[me]
               \/ s.missedTicks > 0
               \/ s.missedYield = 1
  IN  /\ At("resume")
      /\ s' = IF yield THEN vTaskSwitchContext([z EXCEPT !.missedYield = 0]) ELSE z
      /\ call' = [Wrap(call, z.tick < s.tick) EXCEPT ![me] = Resumed(@, yield)]
      /\ UNCHANGED <<q, now>>

portYIELD ==
  /\ At("yield")
  /\ s' = vTaskSwitchContext(s)
  /\ IF call[me].op = "delay" THEN Return ELSE Goto("top")
  /\ UNCHANGED <<q, now>>

-----------------------------------------------------------------------------
(* Interrupts. *)
vTickISR ==
  LET z == vTaskIncrementTick(s)
      Counted == [t \in Tasks |->
         [call[t] EXCEPT !.waited =
            IF call[t].entrySet = 1 /\ @ < call[t].limit /\ call[t].limit < portMAX_DELAY
            THEN @ + 1 ELSE @]]
  IN  /\ s.suspended = 1 => s.missedTicks < MaxMissed
      /\ s' = vTaskSwitchContext(z)
      /\ call' = IF s.suspended = 1 THEN Counted ELSE Wrap(Counted, z.tick = 0)
      /\ now' = (now + 1) % TickModulus
      /\ UNCHANGED q

(* A device's handler, switching on the way out if it was told to. *)
DeviceISR(op) ==
  LET lock == IF op = "send" THEN q.txLock ELSE q.rxLock
      list == Other(op)
      moved == [q EXCEPT !.messages = IF op = "send" THEN @ + 1 ELSE @ - 1]
  IN  /\ ~IsMutex /\ Possible(op)
      /\ \/ /\ lock = -1
            /\ q' = moved
            /\ s' = IF s.waiting[list] = <<>> THEN s
                    ELSE LET r == xTaskRemoveFromEventList(s, list)
                         IN  IF HeadOutranks(s, list) THEN vTaskSwitchContext(r) ELSE r
         \/ /\ lock >= 0 /\ lock < MaxLock
            /\ q' = IF op = "send" THEN [moved EXCEPT !.txLock = @ + 1]
                    ELSE [moved EXCEPT !.rxLock = @ + 1]
            /\ UNCHANGED s
      /\ UNCHANGED <<call, now>>

xQueueGenericSendFromISR == DeviceISR("send")
xQueueReceiveFromISR == DeviceISR("receive")

-----------------------------------------------------------------------------
(* The queue is empty, the mutex free. *)
Init ==
  /\ s \in Started /\ s.current = Last(s.ready[s.top])
  /\ q = [messages |-> IF IsMutex THEN 1 ELSE 0, holder |-> NoTask,
          txLock |-> -1, rxLock |-> -1]
  /\ call = [t \in Tasks |-> NoCall]
  /\ now = 0

Next ==
  \/ \E op \in EventLists, n \in BlockTimes : Begin(op, n)
  \/ \E n \in Delays : BeginDelay(n)
  \/ vTaskDelay \/ Transfer \/ Fail \/ vTaskSetTimeOutState \/ vTaskSuspendAll
  \/ prvLockQueue \/ xTaskCheckForTimeOut \/ Retest \/ Place \/ UnlockTx
  \/ UnlockRx \/ xTaskResumeAll \/ portYIELD
  \/ vTickISR
  \/ xQueueGenericSendFromISR
  \/ xQueueReceiveFromISR

Spec == Init /\ [][Next]_vars

-----------------------------------------------------------------------------
Records ==
  [at : {"out", "top", "suspend", "lock", "check", "test", "place", "unlockTx",
         "unlockRx", "resume", "yield", "delay"},
   op : {"none", "send", "receive", "delay"}, wait : 0..portMAX_DELAY,
   entrySet : {0, 1}, entering : 0..portMAX_DELAY, wrapped : {0, 1},
   after : {"out", "top", "yield"}, limit : 0..portMAX_DELAY,
   waited : 0..portMAX_DELAY, stalled : {0, 1}]

TypeOK ==
  /\ s.current \in Tasks /\ s.top \in Priorities
  /\ s.tick \in 0..portMAX_DELAY /\ now \in 0..portMAX_DELAY
  /\ s.missedTicks \in 0..MaxMissed /\ {s.missedYield, s.suspended} \subseteq {0, 1}
  /\ q.messages \in 0..QueueLength /\ q.holder \in Tasks \cup {NoTask}
  /\ {q.txLock, q.rxLock} \subseteq -1..MaxLock
  /\ call \in [Tasks -> Records]

(* Every task is in exactly one of the scheduler's lists, once; a ready    *)
(* one in the list of the priority it has at the moment.                   *)
OneList == Tidy(s)

(* Between critical sections, with the scheduler running, no ready task    *)
(* outranks the one that runs, unless that one is about to yield.          *)
HighestPriorityRuns ==
  s.suspended = 0 /\ ~At("yield") =>
    /\ me \in ToSet(s.ready[s.prio[me]])
    /\ \A t \in Ready(s) : s.prio[t] <= s.prio[me]

(* No wake-up is lost: while the queue is not locked and tasks wait for    *)
(* items, there are no more items than receivers that were woken and have  *)
(* yet to look; the same for senders and room.                             *)
Woken(op) ==
  {t \in Tasks : /\ call[t].op = op /\ t \notin ToSet(s.waiting[op])
                 /\ \/ call[t].at \in {"top", "yield"}
                    \/ call[t].at \in {"unlockTx", "unlockRx", "resume"}
                         /\ call[t].after # "out"}
NoLostWakeup ==
  /\ q.txLock = -1 /\ s.waiting["receive"] # <<>> =>
       q.messages <= Cardinality(Woken("receive"))
  /\ q.rxLock = -1 /\ s.waiting["send"] # <<>> =>
       QueueLength - q.messages <= Cardinality(Woken("send"))

(* Ticks never slip: those missed while the scheduler was suspended are    *)
(* all made up for.                                                        *)
TicksNeverSlip == (s.tick + s.missedTicks) % TickModulus = now

(* Both delayed lists are in order, one holds what is due before the tick  *)
(* count comes round and the other what is due after: "If there are any    *)
(* items in pxDelayedTaskList here then there is an error!"                *)
DelayedInTime == InTime(s)

(* A call only gives up when its block time is over, however often it was  *)
(* woken for an item that another task took, and although the tick count   *)
(* comes round; and as soon as it is over the task is ready.               *)
Timed(t) == /\ call[t].op \in EventLists
            /\ call[t].limit < portMAX_DELAY
            /\ call[t].stalled = 0
GivingUp(t) == /\ call[t].after = "out"
               /\ call[t].at \in {"unlockTx", "unlockRx", "resume"}
BlockTimesKept ==
  \A t \in {x \in Tasks : Timed(x)} :
    /\ GivingUp(t) => call[t].waited >= call[t].limit
    /\ s.suspended = 0 /\ t \in ToSet(s.delayed) \cup ToSet(s.overflow)
         => call[t].waited < call[t].limit

(* Whoever holds the mutex runs at the priority of the tasks that wait for *)
(* it at least, nobody keeps an inherited priority without holding it, and *)
(* the waiting task with the highest priority is the first to be woken.    *)
NoInversion ==
  IsMutex =>
    /\ q.holder # NoTask => \A t \in ToSet(s.waiting["receive"]) :
                              s.prio[q.holder] >= s.prio[t]
    /\ \A t \in Tasks \ {q.holder} : s.prio[t] = uxBasePriority[t]
    /\ \A l \in EventLists : \A i, j \in DOMAIN s.waiting[l] :
         i < j => s.prio[s.waiting[l][i]] >= s.prio[s.waiting[l][j]]

(* "To be running we must be the highest priority task wanting to access   *)
(* the queue", as the comment at the first critical section has it.        *)
HighestGoesFirst ==
  At("top") => \A t \in Ready(s) : call[t].at = "top" => s.prio[t] <= s.prio[me]
=============================================================================
