----------------------------- MODULE Scheduler -----------------------------
(***************************************************************************)
(* FreeRTOS/tasks.c and list.c: the scheduler as operators on its state, a *)
(* record s that holds the file's variables and the fields of the TCBs:    *)
(*   current, top        pxCurrentTCB, uxTopReadyPriority                  *)
(*   ready               pxReadyTasksLists, each in the order in which     *)
(*                       listGET_OWNER_OF_NEXT_ENTRY will serve its tasks  *)
(*   pending             xPendingReadyList                                 *)
(*   delayed, overflow   the two delayed lists                             *)
(*   blocked             xSuspendedTaskList, whose order nobody reads      *)
(*   waiting             the event lists of a queue                        *)
(*   wake, event         values of xGenericListItem and xEventListItem     *)
(*   prio                uxPriority                                        *)
(*   tick, missedTicks, missedYield, suspended      the counters           *)
(* A task is always in one of ready, delayed, overflow and blocked.        *)
(***************************************************************************)
EXTENDS Integers, Sequences, FiniteSets, SequencesExt

CONSTANTS
  Low, Medium, High,   \* tasks by the priority they were created with
  Idle,                \* the idle task
  TickModulus          \* one more than the largest portTickType

Tasks == Low \cup Medium \cup High \cup {Idle}

ASSUME TasksAssumption ==
  /\ IsFiniteSet(Tasks)
  /\ Low \cap Medium = {} /\ Medium \cap High = {} /\ Low \cap High = {}
  /\ Idle \notin Low \cup Medium \cup High
ASSUME TicksAssumption == TickModulus \in Nat /\ TickModulus > 2

configMAX_PRIORITIES == 5
Priorities == 0..configMAX_PRIORITIES - 1
portMAX_DELAY == TickModulus - 1

uxBasePriority ==
  [t \in Tasks |-> CASE t = Idle     -> 0
                     [] t \in Low    -> 1
                     [] t \in Medium -> 2
                     [] t \in High   -> 3]

EventLists == {"send", "receive"}

-----------------------------------------------------------------------------
(* The tasks of a list that are in the set K, in the order of the list.    *)
Only(list, K) ==
  LET kept[i \in 0..Len(list)] ==
        IF i = 0 THEN <<>>
        ELSE IF list[i] \in K THEN Append(kept[i - 1], list[i])
        ELSE kept[i - 1]
  IN  kept[Len(list)]

(* Behind the last item that is not greater, so in order of arrival among  *)
(* equals; item t has value value[t].                                      *)
vListInsert(list, value, t) ==
  LET greater == {i \in DOMAIN list : value[list[i]] > value[t]}
  IN  InsertAt(list, IF greater = {} THEN Len(list) + 1 ELSE Min(greater), t)

\* Mutant of AddToReady: uxTopReadyPriority is not raised.
AddToReady_TopStays(s, list) ==
  [s EXCEPT !.ready = [p \in Priorities |->
                         @[p] \o Only(list, {t \in Tasks : s.prio[t] = p})]]

(* prvAddTaskToReadyQueue for each task of a sequence. *)
AddToReady(s, list) ==
  [s EXCEPT
     !.ready = [p \in Priorities |->
                  @[p] \o Only(list, {t \in Tasks : s.prio[t] = p})],
     !.top = Max({@} \cup {s.prio[t] : t \in ToSet(list)})]

(* vListRemove on the xGenericListItem of a set of tasks, whose wake time  *)
(* is never read again.                                                    *)
Unlist(s, tasks) ==
  LET Rest(list) == Only(list, Tasks \ tasks)
  IN  [s EXCEPT !.ready = [p \in Priorities |-> Rest(s.ready[p])],
                !.delayed = Rest(@), !.overflow = Rest(@),
                !.blocked = @ \ tasks,
                !.wake = [t \in Tasks |-> IF t \in tasks THEN 0 ELSE @[t]]]

MoveToReady(s, list) == AddToReady(Unlist(s, ToSet(list)), list)

-----------------------------------------------------------------------------
vTaskSwitchContext(s) ==
  IF s.suspended = 1
  THEN [s EXCEPT !.missedYield = 1]
  ELSE LET p == Max({n \in 0..s.top : s.ready[n] # <<>>})
       IN  [s EXCEPT !.top = p,
                     !.current = Head(s.ready[p]),
                     !.ready[p] = Append(Tail(@), Head(@))]

(* The running task sleeps for the given number of ticks. *)
Delay(s, ticks) ==
  LET t == s.current
      z == [Unlist(s, {t}) EXCEPT !.wake[t] = (s.tick + ticks) % TickModulus]
  IN  IF z.wake[t] < s.tick
      THEN [z EXCEPT !.overflow = vListInsert(@, z.wake, t)]
      ELSE [z EXCEPT !.delayed = vListInsert(@, z.wake, t)]

vTaskPlaceOnEventList(s, list, ticks) ==
  LET z == [s EXCEPT !.waiting[list] = vListInsert(@, s.event, s.current)]
  IN  IF ticks = portMAX_DELAY
      THEN [Unlist(z, {s.current}) EXCEPT !.blocked = @ \cup {s.current}]
      ELSE Delay(z, ticks)

(* Does the head of the list rank at least as high as the running task? *)
HeadOutranks(s, list) == s.prio[Head(s.waiting[list])] >= s.prio[s.current]

xTaskRemoveFromEventList(s, list) ==
  LET t == Head(s.waiting[list])
      z == [s EXCEPT !.waiting[list] = Tail(@)]
  IN  IF s.suspended = 0 THEN MoveToReady(z, <<t>>)
      ELSE [z EXCEPT !.pending = Append(@, t)]

(* prvCheckDelayedTasks: the front of the list whose time has come. *)
Due(s) ==
  LET later == {i \in DOMAIN s.delayed : s.wake[s.delayed[i]] > s.tick}
  IN  IF later = {} THEN s.delayed ELSE SubSeq(s.delayed, 1, Min(later) - 1)

WakeDue(s) ==
  MoveToReady([s EXCEPT !.waiting =
                 [l \in EventLists |-> Only(@[l], Tasks \ ToSet(Due(s)))]], Due(s))

\* Mutant of vTaskIncrementTick: the delayed lists are not swapped.
vTaskIncrementTick_NoSwap(s) ==
  IF s.suspended = 1
  THEN [s EXCEPT !.missedTicks = @ + 1]
  ELSE WakeDue([s EXCEPT !.tick = (@ + 1) % TickModulus])

vTaskIncrementTick(s) ==
  IF s.suspended = 1
  THEN [s EXCEPT !.missedTicks = @ + 1]
  ELSE LET z == [s EXCEPT !.tick = (@ + 1) % TickModulus]
       IN  WakeDue(IF z.tick = 0
                   THEN [z EXCEPT !.delayed = z.overflow, !.overflow = z.delayed]
                   ELSE z)

-----------------------------------------------------------------------------
\* Mutant of vTaskPriorityInherit: the holder stays in its ready list.
vTaskPriorityInherit_NotMoved(s, holder) ==
  LET p == Max({s.prio[s.current], s.prio[holder]})
  IN  [s EXCEPT !.prio[holder] = p, !.event[holder] = configMAX_PRIORITIES - p]

\* Mutant of vTaskPriorityInherit: only a ready holder inherits.
vTaskPriorityInherit_ReadyOnly(s, holder) ==
  LET p == Max({s.prio[s.current], s.prio[holder]})
      z == [s EXCEPT !.prio[holder] = p, !.event[holder] = configMAX_PRIORITIES - p]
  IN  IF Contains(s.ready[s.prio[holder]], holder) THEN MoveToReady(z, <<holder>>) ELSE s

(* The holder of a mutex takes the running task's priority. *)
vTaskPriorityInherit(s, holder) ==
  LET p == s.prio[s.current]
      z == [s EXCEPT !.prio[holder] = p, !.event[holder] = configMAX_PRIORITIES - p]
  IN  IF s.prio[holder] >= p THEN s
      ELSE IF Contains(s.ready[s.prio[holder]], holder)
      THEN MoveToReady(z, <<holder>>)
      ELSE z

vTaskPriorityDisinherit(s, holder) ==
  LET p == uxBasePriority[holder]
      z == [s EXCEPT !.prio[holder] = p, !.event[holder] = configMAX_PRIORITIES - p]
  IN  IF s.prio[holder] = p THEN s ELSE MoveToReady(z, <<holder>>)

(* What the lists are worth.  A task is ready in the list of the priority  *)
(* it has at the moment ...                                                *)
Ready(s) == UNION {ToSet(s.ready[p]) : p \in Priorities}

(* ... is in exactly one of the lists, once ...                            *)
Tidy(s) ==
  /\ \A p \in Priorities : \A t \in ToSet(s.ready[p]) : s.prio[t] = p
  /\ \A p \in Priorities : IsInjective(s.ready[p])
  /\ IsInjective(s.delayed) /\ IsInjective(s.overflow)
  /\ LET early == ToSet(s.delayed)
         late  == ToSet(s.overflow)
     IN  /\ Ready(s) \cup early \cup late \cup s.blocked = Tasks
         /\ Ready(s) \cap (early \cup late \cup s.blocked) = {}
         /\ early \cap (late \cup s.blocked) = {}
         /\ late \cap s.blocked = {}

(* ... and both delayed lists are in order, one of what is due before the  *)
(* tick count comes round and the other of what is due after.              *)
InTime(s) ==
  /\ \A t \in ToSet(s.delayed) : s.wake[t] > s.tick
  /\ \A t \in ToSet(s.overflow) : s.wake[t] < s.tick
  /\ \A list \in {s.delayed, s.overflow} :
       \A i, j \in DOMAIN list : i < j => s.wake[list[i]] <= s.wake[list[j]]

(* All tasks created, in any order; the last one of the highest priority   *)
(* is the first to run.                                                    *)
Started ==
  LET Created(p) == SetToSeqs({t \in Tasks : uxBasePriority[t] = p})
      p0 == Max({uxBasePriority[t] : t \in Tasks})
  IN  [current : Tasks,
       ready : {r \in [Priorities -> UNION {Created(p) : p \in Priorities}] :
                  \A p \in Priorities : r[p] \in Created(p)},
       top : {p0}, pending : {<<>>}, delayed : {<<>>}, overflow : {<<>>},
       blocked : {{}}, waiting : {[l \in EventLists |-> <<>>]},
       wake : {[t \in Tasks |-> 0]},
       event : {[t \in Tasks |-> configMAX_PRIORITIES - uxBasePriority[t]]},
       prio : {uxBasePriority}, tick : {0}, missedTicks : {0},
       missedYield : {0}, suspended : {0}]
=============================================================================
