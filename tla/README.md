# TLA+ models of the CMPE 146 final project

The repository holds two programs. The **LPC2148 firmware** (`src/main.c`) runs
FreeRTOS 6.0.2 with two tasks, a UART command line, an SD card driver and FatFs,
and records crashes in RAM that survives a reset. The **MazeGator** program
(`src/mazegatormain.c`, an mbed program) drives a robot through a line maze with the
left-hand rule, computes the shortest path and replays it.

## Inventory

| component | state it keeps | operations | talks to |
|---|---|---|---|
| MazeGator main program, `src/mazegatormain.c` | arrays `path`, `input`; `/local/Path.txt` | menu, left-hand run, short run, shortestPath, readPath, writePath | reflectance sensors, motor controller, file system |
| reflectance sensors, `src/drivers/QTR8RC` | timings, threshold `BWValue`, static buffer `BW` | read, convertToErrorNumber, calibrate | MazeGator |
| motor controller, `src/drivers/motor` | last commands | forward, left, right, uturn, pd_Control | MazeGator |
| UART0 driver, `src/drivers/uart/uart0.c` | two queues, flag `lTHREEmpty0` | uart0PutChar, uart0GetChar, ISR | every task that prints |
| I2C driver, `src/drivers/i2c.c` | frame `I2C_IOFRAME`, two semaphores | read and write a device register, ISR state machine | bus devices |
| SD card driver, `src/fat/diskio.c` | `Stat`, `CardType`, `Timer1`, `Timer2`, SPI mutex | initialize, read, write, ioctl, timer | card on the SPI bus, FatFs, diskTimer task |
| FatFs, `src/fat/ff.c` | `FATFS` (window, free count, hint), `FIL` (position, cluster, buffer), the card | file API | SD card driver, volume mutex |
| kernel, `src/FreeRTOS` | ready and delayed lists, event lists, queues | tasks, queues, mutexes, tick | all tasks, interrupt handlers |
| crash record, `src/Startup.S`, `src/System/crash.c` | `__abort_dat` in protected RAM | abort handlers, print, clear | boot in `src/main.c` |
| user interface, `src/General/userInterface.c` | input line | commands | UART, FatFs, crash, kernel |
| C library glue, `src/System/syscalls.c` | heap break | _sbrk_r, _read_r, _write_r | heap, UART |

How they interact. The firmware has two tasks of its own: `uartUI` at low priority, which runs
the command line and everything it calls, and `diskTimer` at the highest, which calls
`disk_timerproc` every 10 ms and so preempts the SD card driver wherever it is. They share
`Stat`, `Timer1` and `Timer2` without a lock. Interrupt handlers (tick, UART, I2C) meet the
tasks in queues, semaphores and a few flags; the kernel's queues are locked by counts
when a task is about to block. FatFs calls the driver through `disk_*`, and holds a sector
window that FAT and directories share. Crash handlers and the boot code meet in a record in
RAM, with a watchdog reset in between. MazeGator is one thread; its runs meet each other in the
globals `path` and `input` and in the file.

Which behaviour is hard, and what makes each part correct:

| part | hard | correct if |
|---|---|---|
| kernel | tasks, ticks and devices between any two critical sections; tick count wraps; time-outs race wake-ups; inherited priorities | no wake-up is lost, block times are kept, the highest ready task runs, every task is in one list, a holder outranks its waiters |
| UART | a task blocks inside a critical section and comes back to a transmitter that has gone idle | nothing is lost, overtaken or stuck |
| I2C | the lock is taken by a task and given by an interrupt handler; devices fail at any byte | the frame belongs to one transfer, the lock always comes back, a read returns the register |
| SD card | two tasks update `Stat`; cards vanish in a call; every wait relies on the timer | calls return, flags tell the truth, a write reported good was accepted |
| crash record | random RAM at power-up, aborts in the abort handler, resets anywhere | a report is of one abort and its count is right, every abort is reported |
| FatFs | power lost between FAT and directory; three caches of the card (window, file buffer, free count); errors halfway through a call | no cluster in two files, at worst lost clusters; what is saved stays and is what is read |
| MazeGator | in-place reduction of a string, a full array, order of menu choices | the saved path is the route of the maze, a replay stays on it |

`PROJECT.json` lists every hazard at its line with the properties that cover it.

## The modules

**`MazeGrid`, `MazeGator`** — the maze robot. `MazeGrid` gives all spanning-tree mazes of a grid
and what the sensors report on each point (`convertToErrorNumber`, and the second reading that
`intersection` takes further on). In `MazeGator` one step is one call of `GoLeftHand` or
`GoShort`; `path` and `input` are the globals, `file` is `/local/Path.txt`, and `shortestPath` cuts
the array in place as the C loop does, old `F`s included. Saving takes two steps: `inputFinish` is `shortestPath` and
the `fopen` that empties the file (mode "saving"), the action `writePath` what follows up to `fclose`. `PowerCycle` may come at any
step; between those two it leaves any front part of the string in the file, nothing included. `whole` remembers
whether the last save was closed. A file that was cut has no `F`: a short run then reads on behind the array (`NextChar`:
anything may be there), and from an empty file `fscanf` changes nothing in `path`. A maze has no loops: the left-hand rule, and the program, assume that.

**`FifoChannel`, `Uart`** — the UART driver. `PutChar` is a call up to its end or up to where it
blocks on the full queue, `Resume` what it does when it comes back (still in its critical section),
`HandleTHRE` the interrupt, `Transmit` the hardware. `writer` and `inHand` are the blocked callers
and their characters. `FifoChannel` is the abstract promise, a buffer that delivers each accepted
character once and in order; `Uart` implements it with `buffered <- thr \o xTX0Queue`.

**`I2C`** — the one-byte read and write that the driver offers (the firmware as compiled calls neither). A caller's five steps (`TakeLock`, `KickOff`, `TakeSignal`, `CopyByte`, `GiveLock`), one
action per status of the hardware for the handler, and the bus and its devices as external actions
that may refuse, disturb the wires or take the bus away. The handler stores I2STAT as the error (`ErrorCode`). For a bus error
that is 0, which also means no error; the history `disturbed` tells the two apart.

**`CrashBoot`** — `Abort`, the handler in the stores it makes, the watchdog's reset, `Boot`,
`PrintCrashInfo` and the two halves of `clearCrashInfo`. The sigil (`CheckSigil`) and the zero count that goes with a new
one (`ClearCount`) are two stores. Between any two, power may fail, the reset
pin be pulled, and the handler itself abort where it reads foreign memory. Fields hold the number of
the abort they come from, so that a mixed record shows, and the history `counter` says where the count comes from. After power-up
every field is random; that of the sigil may hold anything but, by an accident of 1 in 2^32, the sigil itself.

**`Scheduler`, `KernelQueue`** — the kernel. `Scheduler` is `tasks.c` and `list.c` as operators on one
record `s` (ready, pending, delayed, overflow and event lists, priorities, tick, counters).
`KernelQueue` is `queue.c` on top: an action is one critical section of the running task, or an
interrupt. A call goes through `top` (test, succeed, fail or set the time-out), suspension and
lock, `xTaskCheckForTimeOut`, `Retest`, `Place`, `UnlockTx`, `UnlockRx`, `xTaskResumeAll` and
`portYIELD`; ticks and device interrupts come between any two. Items are counted, not named.

**`DiskIO`** — the SD card driver for its one caller, a command with its answer or a block per step, and
`disk_timerproc` in between. `Finish`, `LoadStat` and `StoreStat` are the read-modify-write of `Stat`.
The card is external: it may be of three kinds, slow, refusing, busy programming, pulled and exchanged.
The timer runs at most once while the caller executes a straight stretch of code (a few
instructions against 10 ms), and a person needs more than two samples (20 ms) to exchange a card.

**`FatVolume`, `FatFs`, `FileStore`** — the file system. `FatVolume` holds the functions of `ff.c` that
work on a volume (`move_window`, `get_fat`, `put_fat`, `create_chain`, `remove_chain`, `dir_sdi`, `dir_next`, `dir_find`,
`dir_read`, `dir_register`, `dir_remove`, `sync`, `chk_mounted`) as operators from a volume to the volume the C
function leaves, with its result in `res` and `val`. A volume is the card, sector by sector, and the `FATFS` object.
In `FatFs` an action is one call of the file API, with `vol` and the open file `fp` (the `FIL`
object) as state; `f_readdir` is the listing that the command `ls` makes, `f_opendir` and `f_readdir` until
nothing is left. Each call is run once without a fault to count its transfers, and then any one
of them may be refused or be the last before the power goes, in every call. What was written before stays on the card, and what was
in RAM is lost. `PowerCycle` is what happens between calls: the power is switched, or the card is pulled and put back, its write
protect switch set or not, with a file open (a fault) or without. A call that finds the volume unmounted, or mounted on a card that has to
be initialized again, mounts it; after that `validate` refuses a file opened before, so the model closes it.

`exposed` names, one by one, the cases in which the code does not keep the volume sound:

| in `exposed` | since | what is then still claimed |
|---|---|---|
| "file" | `f_truncate` freed clusters, and the entry on the card still counts them | a cut may tear the volume; the next save ends it |
| "call" | a fault struck while the directory was being stretched, inside `f_rename`, or while "file" was there | the volume may be torn; one that is torn is not followed |
| "lost" | `create_chain` or `f_write` took an error for an answer (ff.c:786, 2258) | nothing |
| "buffer" | the dirty buffer of a file outlived its cluster (ff.c:2912), and the directory has taken that | nothing |

`FileStore` is the abstract promise to the program: which files there are, what they
contain, and what each result says. `FatFs` implements it with `files <- disk`, the contents another computer would read
from the card, `handle` from what the program wrote (`told`), `shut` from the write protect switch and `astray` from "lost" and "buffer".
A failed call leaves doubt about the files it names until the window is clean. `FileStore` promises nothing once it is
astray, but it must not get there without a file open, nor come back.

Definitions named `X_Something` and commented *Mutant of X* are plausible bugs of `X`. They are used nowhere
in the specifications; each shows which property would notice.

## The runs

| run | module | what it asks | bounds, and why they are enough |
|---|---|---|---|
| `maze` | MCMazeGator | is the saved path the simple route, does a replay stay on it and in its string, does every run end? | every spanning-tree maze of a 3x3 grid with every finish (three points a side give bends, both Ts, four-way crossings and nested dead ends); between runs the operator may put up two other mazes, so a record meets a maze it does not fit; an array of 9 that holds most records and that the longer runs overflow; the power may fail in every save |
| `uart` | Uart | is nothing lost, overtaken or stuck? | three writers on a queue of 5 and a FIFO of 3: bursts shorter than, equal to and one less than the FIFO, a full queue, more than one sleeper |
| `i2c` | I2C | who owns the frame, does the lock come back, is the data right? | two tasks, two devices, all three faults at any status |
| `i2c_arbitration` | I2C | finding, see below | |
| `crash` | CrashBoot | is a report true, is every abort reported? | four aborts, two pulls of the reset pin, any losses of power: an abort in the handler, one during its report and one after it |
| `crash_count` | CrashBoot | finding | |
| `kernel_queue` | KernelQueue | are wake-ups, block times and priorities kept on a queue? | tasks of two priorities and the idle task, one item, both devices; a tick count modulo 4 that wraps in every call, block times of 2 and for ever; one missed tick and a lock count of 1 |
| `kernel_mutex` | KernelQueue | lists, ticks, inheritance | three tasks of three priorities, one mutex, two missed ticks, delays |
| `kernel_mutex_first` | KernelQueue | finding | |
| `diskio` | DiskIO | do calls return, do the flags settle, is success true? | three kinds of card, two insertions (so an exchange in the middle of a call), transfers of one and two blocks, time-outs of 3, 2 and 1 ticks in the order of the code's 100, 50 and 10 |
| `diskio_initialized` | DiskIO | finding | |
| `fat` | MCFatFs | does a cut or a refused transfer anywhere tear the volume, is the free count right, is the window, is the promise of `FileStore` kept? | an empty, a used and a full card of four file clusters, FAT and directory each in several sectors, two names, files of up to three pieces in sectors of two (so partial, whole and straddling transfers); five calls, enough for create, write, close, open, read, or open, write, truncate, rename, sync; one fault, at any transfer of any call |

What the less obvious properties say:

* `SleeperIsWoken` (Uart) is two things: a blocked writer is woken in the end, and nobody sleeps on an empty
  queue. The second is why `xQueueReceive` inside the restart of `uart0PutChar` never
  switches tasks in the middle of the hand-over.
* `NoLostWakeup` (kernel) counts: with the queue unlocked and receivers asleep, there are no more
  items than receivers that were woken and have yet to look.
* `BlockTimesKept` (kernel), neither too early nor too late, speaks of calls that looked at the tick count before it
  came round a second time; `xTaskCheckForTimeOut` cannot tell one turn from two (49 days at 1 kHz).
* `StatSettles` (DiskIO): a sample may be overwritten by the caller's older copy of `Stat`, but the next one
  puts it right.
* `SavedPathIsTheRoute`, `ShortStaysOnRoute` and `ReplayStaysInString` (MazeGator) say of a file that was saved whole what the
  code promises, and of one that lost the power in the middle only that it is a front part of the route, and that a replay stays on
  the route as far as the recorded turns go. Beyond that the code promises nothing: it neither checks for the `F`, nor for the end of the array.
* `ReadReturnsRegister` and `WriteLanded` (I2C) speak of transfers that ended without error and without a bus error (see Findings).
* `CountIsAbortsSinceReport` (CrashBoot) excepts one pull of the reset pin, between the stores of a new sigil and of the zero count (see Findings).
* `TornOnlyWhenExposed` (FatFs): outside the cases that `exposed` names, the order of writes protects the volume from
  a cut and from an error at any transfer.
* `FreeCountIsTrue` (FatFs) holds until the first fault, over mounts and power cycles: after one, a lost cluster
  is what FAT file systems accept. It and `WindowIsTrue` end where `exposed` says that the code has gone astray.
* `KeepsFiles` (FatFs) is the refinement of `FileStore`: files that a call does not name do not change, a read
  returns what the program wrote, saved content survives a cut at any transfer, an error-free listing shows
  every file once with its size, a write protected card does not change.
* `NoStaleCard` (DiskIO) is what remains true of the first finding below: of version 2 cards.

### Findings

The first four are runs in which TLC finds the property violated.

* `diskio_initialized`: an older card that does not leave the idle state in time, or refuses CMD16, passes
  for initialised: the `ty = 0` of `disk_initialize` is inside the `#if` of the debug output.
* `i2c_arbitration`: after losing arbitration the handler neither clears SI nor gives the lock, so the
  transfer never ends.
* `crash_count`: the count that `clearCrashInfo` keeps is zeroed at the next abort, because the sigil
  it belongs to was cleared.
* `kernel_mutex_first`: the waiter that raised a holder's priority times out; the holder then gives the
  mutex with nobody to wake, drops to its own priority without a yield, and goes on ahead of a ready task
  of higher priority until the next tick.

Two more are exceptions in the properties of the run concerned:

* I2C: on a bus error I2STAT is 0, and the handler stores it as the frame's error (i2c.c:246-249). A read then returns a stale byte
  and a write leaves nothing in the device, both without error. The comment at i2c.h:14 admits half of it: the value read "might be
  0 if error". Without `disturbed`, TLC finds `ReadReturnsRegister` and `WriteLanded` violated.
* Crash: the handler stores the sigil (Startup.S:258) before it clears the count (261). If the reset pin is pulled between the two,
  the record is valid with the old or a random count, which the next report prints. Without `counter`, TLC finds `CountIsAbortsSinceReport` violated.

The rest are in `FatFs`. The model allows them all, and `exposed` or `FileStore` names what they spoil.

* `create_chain` (ff.c:786-788) takes the 0xFFFFFFFF with which `get_fat` reports a disk error for the end of
  the chain, takes a free cluster and links it over the rest of the file. `f_lseek` and `f_write` then return `FR_OK`. This is "lost".
* In `f_write`, a refused transfer: `fp->org_clust = clst` (ff.c:2258) takes the error code of `create_chain`, and
  the next `f_sync` writes it to the directory as the start of the file. `ff.h:318` says "File start cluster (0 when
  fsize==0)". This is "lost" too. Both take three calls (open, write or seek, and the next), and if
  "lost" is not excepted, TLC finds `TornOnlyWhenExposed` violated.
* `f_truncate` (ff.c:2895-2934) frees clusters and keeps a dirty buffer of a sector in them; the next flush writes into a
  sector that is free or another file's, and no fault is needed. The run shows the flush into a free sector, which does no
  harm. With a third name it takes one call more than the run's five for the directory to grow into the freed cluster
  (open, write, seek, truncate, rename, sync): the flush then writes data over the directory. This is "buffer".
* `f_sync` and `f_close` clear `FA__WRITTEN` (ff.c:2368) before `sync` has flushed the window. The call fails,
  but when it is tried again it returns `FR_OK` without having written anything. `FileStore` therefore lets a call that
  fails leave doubt about the open file.
* `f_getfree` keeps the partial count of a scan that failed as the number of free clusters (ff.c:2880).
  `FreeCountIsTrue` ends at the first fault.
* The command `ls` takes an error of `f_readdir` for the end of the list (userInterface.c:94): the model's `List` promises a
  complete listing only with `FR_OK`, and the command does not tell the two apart.

### Fairness

Uart: the transmitter shifts, its interrupt is served, and a woken writer runs; the block time is never
relied on. I2C: the bus and its handler make progress and so does a task between its waits, but
which task gets a free lock is not promised. CrashBoot: the processor executes; nothing is assumed of
aborts, resets and power. MazeGator: `main` calls the drive step in a loop. DiskIO: the caller runs, and
the timer's task, which has the highest priority, is called for ever; the card need not do anything.
FatFs: none, a call ends in the step that makes it.
The kernel's specification states no fairness: all its properties are safety, with promptness
expressed as what must hold whenever the scheduler is not suspended.

## Proofs

The proof modules show, for all values of the constants that meet the named assumptions of the modules, what the
runs check on small instances:

| module | theorems |
|---|---|
| `Uart_proofs` | `TypeCorrect`, `NeverOverruns`, `NeverOvertakes`, `NeverStalls`, `Implements` (the driver refines the FIFO channel) |
| `I2C_proofs` | `TypeCorrect`, `LockProtectsTransfer`, `FrameIsStable`, `ReadsAreRight`, `WritesLand` |
| `MazeGator_proofs` | `TypeCorrect`, `RecordIsTheRoute`, `ReplayIsOnTheRoute`, `ReplayEnds` |
| `CrashBoot_proofs` | `TypeCorrect`, `CountIsRight`, `NothingPending`, `ReportIsRight` |
| `DiskIO_proofs` | `TypeCorrect`, `WriteIsAccepted`, `StatIsSettled`, `Version2IsReady` |
| `KernelQueue_proofs` | what each operator of `Scheduler` does to the lists: `SwitchFacts`, `TickFacts`, `RemoveFacts`, `InheritFacts`, `MissedTicksFacts`; and `TypeCorrect`, `ListsAgree`, `Punctual`, `NoTickLost`, `HighestRuns`, `NobodyOutranksTheHolder`, `NoWakeupLost`, `NobodyGivesUpEarly` |
| `FatLayout_proofs` | what a layout is and what keeps it: `Mounts`, `ReadsFile` and the lemmas on every operator of `FatVolume`, and on layouts alone |
| `FatFs_proofs` | `SoundUnlessExposed` (no tearing but where `exposed` says so), `WindowTrue`, `Invariance`; per call `SeeksTo`, `WriteEnds`, `Syncing`, `Truncating`, `Unlinks`, `OpensFile`, `Renames` |

Uart, I2C, CrashBoot and DiskIO have one inductive invariant `IInv` each, one lemma per action or group of actions,
`NextIInv`, and the theorems as consequences. MazeGator has one, `Inv`. The kernel has one, `Inv`, and four more that
rest on it; FatFs has one, `IInv`. The assumptions are those the modules name: positive sizes, and for the maze a grid of at least one point,
an array of at least three places and that what is put up between runs are tree mazes of the grid, for FatFs three
clusters at least, positive sector sizes, natural numbers for sizes and places, and cards that are orderly to begin with.

* Uart: the safety properties are not inductive. The handler relies on a pending interrupt meaning an empty
  FIFO, so that a burst of `FifoDepth` fits; and while the direct-write flag is down an interrupt
  is due even if nothing is queued, so that the next character may be queued without a restart. The refinement rests on `BurstSplits`: a burst moves a prefix of the
  queue to the FIFO, which leaves `thr \o xTX0Queue` alone.
* I2C: `Responsible` says who will give the lock (at most one of a task, the handler's transfer, or the
  lock itself being free), `Wires` which flags of the hardware go together, `Conversation` what the addressed
  device and its pointer hold at each status, `Completed` what the frame holds when the transfer is over.
  The data theorems need all four: a read is right because nobody touched frame or register in between.
* CrashBoot: `Numbers` bounds the history by the abort being handled, `Sigil` relates the sigil to the stage,
  `OneAbort` says which fields already come from the abort at hand.
* DiskIO: `Transfer` counts, in every step of a write, the blocks accepted and the blocks still to come.
  `Settled` adds to the flags that the contacts have not changed since they were last sampled, so
  that the next sample is the second of two equal ones. `Version2` follows a card from the answer to CMD58
  to the write of `Stat`: it is ready, or was pulled so lately that the timer has sampled the empty socket
  at most once, which keeps another card out of it. This rests on an assumption of the model, that the
  caller's straight stretch from there to the write of `Stat` sees one timer call at most.

* MazeGator, the maze: in a tree every corridor leads from one of its ends to that end's parent on the way to the
  finish (`TreeFacts`: there is one corridor per point but the finish, so the map from points to corridors, being one to one, is
  onto). `Exploring` says that the points the robot has not turned its back on form a path (`Path`) on which no way
  tried before the one taken leads to a parent, and `Placed` that the robot is at its end, or on its way back out of
  a branch. The code has no stack, so the invariant must find this path in what the array holds. A path that ends at the finish
  is the route (`PathIsRoute`): a step away from the finish can only be followed by another, because the path never turns back.
* MazeGator, the string: the array is not the path, it is every turn made. `Recorded` folds it by the else-ifs of
  `shortestPath` as it comes in: the folded record is the turns of the path, with one `U` behind them while the robot
  is on its way back. What `Substitute` gives for pairs the robot cannot make does not matter, and `Onward` and
  `Return` show which pairs it can. `ReducedFacts` then shows that cutting the array in place, old `F`s
  and all, is that folding. Recursive functions inside definitions (`Within`, `Route`, `RouteTurns`, `Reduced`) are proved
  to exist before they are used.
* MazeGator, replay: `OnRoute` keeps `input` equal to the number of turns on the route up to the robot. In another
  maze nothing of this holds, but `input` cannot pass the `F`, because a file that was saved whole holds one and it ends the run. For a file
  that was cut, `OnRoute` holds as far as its turns go.

* Kernel, lists and ticks: `Inv` is `Typed`, `Base` and `Holding` (the mutex
  is held by who has taken it). `Base` says that the lists are tidy and in order (`Lists`, `Apart`), whose calls the event lists
  hold (`Queued`), what a call's stage says of its fields, who suspends the scheduler and who has locked
  the queue, and that ticks are counted. The order of the delayed lists is not inductive on wake
  times, which come round; it is stated as `Elapsed`, how many ticks from now each is due. A resuming
  task makes up for all missed ticks at once: `MissedTicksFacts` shows by induction on their number that this wakes who would have
  been woken by single ticks. `Only` and `MissedTicks` are recursive functions, whose existence the lemmas
  `KeptExists` and `CaughtUpExists` prove first.
* Kernel, priorities: `Ranks` adds where the running task may be outranked: with the scheduler suspended, and before a yield it is
  about to make. `HighestRuns` is for plain queues, as its run is: on a mutex the finding
  `kernel_mutex_first` is a yield that the code leaves out. `Mutex` adds to `NoInversion` the time
  when the mutex is free and tasks wait for it: a woken one that ranks as high as they do is on its
  way, and nobody of a lower rank gets there first.
* Kernel, wake-ups: `NoLostWakeup` holds for an unlocked queue, and while it is locked the invariant `Wakes` keeps the account:
  what the queue offers beside sleeping tasks is at most what woken tasks have yet to take plus the wake-ups
  that the lock count still owes (`Credit`), and all of it has come while the queue was locked when the
  running task is about to join the sleepers.
* Kernel, block times: a call keeps the tick at which it started and what is left of its time, both modulo the tick
  count. `Times` relates them to the ticks that have really gone by: `Since` is the part of `waited` that the
  fields do not show yet, and is below one turn of the count for a call that has not been overtaken.

* FatFs, the layout: what a card holds is read by following links, and nothing about a chain is inductive as long as it is
  defined by following it. So the proof gives each file, and the directory, the sequence of its clusters (`Tree(card, ch, x)`): no
  cluster twice, each linked to the next, the last to the end mark, every entry starting where its sequence does and not
  longer than it; `x` are the names whose entry is out of date on the card (the open file, while it is written). The lemma `TreeSound` shows that a
  card with a layout is `Sound`, `FormattedTree` that the cards one starts from have one. A change of a
  datum, a link or an entry of the card is then a change of `ch`: a cluster added behind (`create_chain`), a tail
  dropped (`remove_chain`), an entry struck or taken over.
* FatFs, the faults: a call is not atomic on the card, so every operator is shown to leave a layout in *each* outcome: done, or stopped at any transfer. `Base` is
  what holds between two of them, for the card with the window written back (`Flushed`) as well as for the card alone. The loops of `f_read`, `f_write` and `f_lseek` and those over chains
  are recursive functions; their steps are operators of their own, and the induction runs over the number of steps.
* FatFs, the invariant: `IInv` is `Good(vol, fp, exposed)`, unless `exposed` says "lost" or "buffer" (`Stray`, which nothing ends).
  Either the volume is mounted and has a layout to which the open
  file fits (`Settled`), or it is not and the card is sound by itself (`Resting`), or a call has torn
  it and `exposed` says so (`Broken`). While `exposed` is empty the card must also be sound without the window, which a cut loses.
  A file fits a layout if its clusters are those of its sequence and a dirty buffer is in one of them or, after `f_truncate`, in one that is not the
  directory's. `Invariance` goes through the calls; `SoundUnlessExposed` and `WindowTrue` follow.
* FatFs, what is assumed: nothing of the faults. Each lemma on a call has one alternative for each way it may end: done or refused with a
  layout, cut with a sound card, or, for those that take clusters, with an error passed over (`Lost`, `Astray`, `Strayed`), and the actions
  show that `exposed` then says so. The invariant speaks of *some* layout, so TLC checks what follows from it and not `IInv` itself.
* FatFs, what the proof changed: `exposed` was one value at first. With a file cut short and not yet saved, a refused transfer in an
  `f_rename` of two other files left no trace in it, and the next `f_sync` declared a torn volume sound. That takes three
  names, and the run has two; the invariant could not be proved. `exposed` is a set since.

Only model-checked: liveness and fairness everywhere, `RunsEnd` of the maze among them (TLAPS has no rule for ENABLED
here); the first part of `SleeperIsWoken` (a counting argument); of FatFs `TypeOK` (it counts free clusters, as
`FreeCountIsTrue` does, over sets defined by chains) and the refinement of `FileStore` (`KeepsFiles`); and the kernel's
`HighestPriorityRuns` on a mutex.

## Not modelled, and why

* FatFs: sub-directories (`f_mkdir` and paths of several segments), attributes and time stamps (`f_chmod`,
  `f_utime`), long names (a name takes one entry here), the second copy of the FAT, finding the partition in
  `chk_mounted`, several open files, clusters of several sectors. None is used by the firmware on its one card but long names.
* The user interface splits lines and prints. (After a file whose last block is short, `read` prints the rest of the
  block before it as well: the buffer is not terminated, userInterface.c:139-149.)
* The motor's commands are byte sequences without state, and the steering between crossings is a feedback loop through the floor.
  `pd_Control` corrects in one direction only: for `c < 0` its loop `i < c` never runs (QIK_2S9V1.c:161).
* The port's assembly and hooks: their effect, one task at a time and switches where interrupts are
  enabled, is what the interleavings assume. Co-routines are configured out.
* Kernel: `vTaskPrioritySet`, `vTaskSuspend`, `vTaskDelayUntil`, peeking and recursive mutexes, which the
  firmware does not use on these objects.
* SD card: the SPI mutex (one task takes it), block contents, ACMD23, the control codes that only read,
  `getSDCardInfo` (its wait for the data token has no time-out).
* UART: reception (the handler drops a character when the queue is full; it shares no variable with transmission, and
  how its reader sleeps and is woken is `KernelQueue`'s subject) and polled output. UART1 is the same text with other registers.
* Register set-up, stubs, LCD and formatted output; vendored and generated files.
* MazeGator: steering between crossings and calibration. A short run leaves `input` at the end of the
  array, and the next left-hand run then records nothing and keeps the old file: `MazeGator` shows this
  behaviour, and `SavedPathIsTheRoute` is stated for the maze the file was recorded in.

The mapped share of the sources is small because most of the tree is mbed libraries, register definitions,
kernel headers and build output; of the program's own logic, the parts named above are modelled.

## Plan

Done: maze, UART with refinement, I2C, crash record, kernel and SD card driver, all with
proofs; FatFs against `FileStore`, with the layout of the volume proved.

1. FatFs: `FreeCountIsTrue` from the layout (the free clusters are those in no sequence of `ch`), then `KeepsFiles`, call by call:
   the contents of a file are the data along `ch[name]`, which the layout lemmas already keep track of.
2. FatFs with sub-directories and clusters of several sectors.
3. The ring of a queue's storage (`prvCopyDataToQueue`, `prvCopyDataFromQueue`) refined to `FifoChannel`.
