----------------------------- MODULE CrashBoot -----------------------------
(***************************************************************************)
(* The crash record of the LPC2148 firmware: the abort handlers of         *)
(* Startup.S fill __abort_dat, which lies in RAM that no start-up code     *)
(* touches, and let the watchdog reset the chip; main finds the record,    *)
(* prints it and clears it (System/crash.c).  Power may fail, the reset    *)
(* pin may be pulled and a further abort may strike between any two steps. *)
(***************************************************************************)
EXTENDS Integers

CONSTANTS
  MaxAborts,    \* bound on the number of aborts of a behaviour
  MaxPulls      \* and of pulls of the reset pin

ASSUME AbortsAssumption == MaxAborts \in Nat
ASSUME PullsAssumption  == MaxPulls \in Nat

VARIABLES
  stage,        \* what the processor is doing, see Stages
  abort_dat,    \* __abort_dat
  numberOfResets, \* local of clearCrashInfo
  crash,        \* history: the abort being handled, numbered from 1
  done,         \* history: the last abort whose handler ran to its end
  unreported,   \* history: how many such there are since the sigil was set
  pulls,        \* history: pulls of the reset pin
  torn,         \* history: 1 if such a pull cut the last handler
  counter       \* history: where the count comes from, see Counters

vars == <<stage, abort_dat, numberOfResets, crash, done, unreported, pulls,
          torn, counter>>

(* From reset to the scheduler: start-up code and main up to the test of   *)
(* the sigil, printCrashInfo, the two halves of clearCrashInfo.  The       *)
(* handler: registers and type stored, sigil checked and stored, old       *)
(* count cleared, second dataset and stack stored, counter counted,        *)
(* watchdog running.                                                       *)
BootStages    == {"startup", "print", "clear", "restore"}
HandlerStages == {"sigil", "clearCount", "save", "count", "watchdog"}
Stages == BootStages \cup HandlerStages \cup {"running"}

(* UNDEF, PABORT, DABORT; a field that comes from abort n holds n. *)
Types  == 0..2
Aborts == 0..MaxAborts
\* What the count can reach: what it held at power-up, and every abort since.
Counts == 0..2 * MaxAborts
NoAbort == [number |-> 0, type |-> 0]
Records == [sigil : {"deadc0de", "zero", "garbage"}, count : Counts,
            type : Types, r0_r12 : Aborts, pc : Aborts, stack : Aborts]

(* The count came up with the RAM, was cleared by the handler under the    *)
(* sigil that stands, was put back by clearCrashInfo, or has a new sigil   *)
(* but was not cleared because the reset pin was pulled just then.         *)
Counters == {"random", "cleared", "putBack", "uncleared"}

-----------------------------------------------------------------------------
\* Mutant of Abort: an abort while the last one is printed is not recorded.
Abort_KeepsType(type) ==
  /\ crash.number < MaxAborts
  /\ \/ stage \in {"startup", "print", "running"}
     \/ stage = "save" /\ type = 2
  /\ stage' = "sigil"
  /\ crash' = [number |-> crash.number + 1, type |-> type]
  /\ abort_dat' = [abort_dat EXCEPT
                     !.r0_r12 = crash'.number,
                     !.type = IF abort_dat.sigil = "deadc0de" THEN @ ELSE type]
  /\ UNCHANGED <<numberOfResets, done, unreported, pulls, torn, counter>>

(* __undf, __pabt, __dabt and the first store of .abtstore.  The handler   *)
(* itself can data-abort where it reads the opcode and the stack of the    *)
(* code that crashed.                                                      *)
Abort(type) ==
  /\ crash.number < MaxAborts
  /\ \/ stage \in {"startup", "print", "running"}
     \/ stage = "save" /\ type = 2
  /\ stage' = "sigil"
  /\ crash' = [number |-> crash.number + 1, type |-> type]
  /\ abort_dat' = [abort_dat EXCEPT !.r0_r12 = crash'.number, !.type = type]
  /\ UNCHANGED <<numberOfResets, done, unreported, pulls, torn, counter>>

(* "see if the sigil value is set, and if not": the sigil is stored first. *)
CheckSigil ==
  /\ stage = "sigil"
  /\ IF abort_dat.sigil = "deadc0de"
     THEN stage' = "save" /\ UNCHANGED <<abort_dat, unreported>>
     ELSE /\ stage' = "clearCount"
          /\ abort_dat' = [abort_dat EXCEPT !.sigil = "deadc0de"]
          /\ unreported' = 0
  /\ UNCHANGED <<numberOfResets, crash, done, pulls, torn, counter>>

\* Mutant of ClearCount: the counter is not cleared with a new sigil.
ClearCount_Keeps ==
  /\ stage = "clearCount"
  /\ stage' = "save"
  /\ counter' = "cleared"
  /\ UNCHANGED <<abort_dat, numberOfResets, crash, done, unreported, pulls, torn>>

(* "reset the abort counter to 0", a store of its own. *)
ClearCount ==
  /\ stage = "clearCount"
  /\ stage' = "save"
  /\ abort_dat' = [abort_dat EXCEPT !.count = 0]
  /\ counter' = "cleared"
  /\ UNCHANGED <<numberOfResets, crash, done, unreported, pulls, torn>>

SaveContext ==
  /\ stage = "save"
  /\ stage' = "count"
  /\ abort_dat' = [abort_dat EXCEPT !.pc = crash.number, !.stack = crash.number]
  /\ UNCHANGED <<numberOfResets, crash, done, unreported, pulls, torn, counter>>

(* .sysreset *)
CountAbort ==
  /\ stage = "count"
  /\ stage' = "watchdog"
  /\ abort_dat' = [abort_dat EXCEPT !.count = @ + 1]
  /\ done' = crash
  /\ unreported' = unreported + 1
  /\ torn' = 0
  /\ UNCHANGED <<numberOfResets, crash, pulls, counter>>

\* Mutant of WatchdogReset: start-up zeroes the protected RAM with the rest.
WatchdogReset_Zeroes ==
  /\ stage = "watchdog"
  /\ stage' = "startup"
  /\ abort_dat' = [sigil |-> "zero", count |-> 0, type |-> 0,
                   r0_r12 |-> 0, pc |-> 0, stack |-> 0]
  /\ UNCHANGED <<numberOfResets, crash, done, unreported, pulls, torn, counter>>

WatchdogReset ==
  /\ stage = "watchdog"
  /\ stage' = "startup"
  /\ UNCHANGED <<abort_dat, numberOfResets, crash, done, unreported, pulls,
                 torn, counter>>

-----------------------------------------------------------------------------
(* main: didSystemCrash decides whether there is something to print. *)
Boot ==
  /\ stage = "startup"
  /\ stage' = IF abort_dat.sigil = "deadc0de" THEN "print" ELSE "running"
  /\ UNCHANGED <<abort_dat, numberOfResets, crash, done, unreported, pulls,
                 torn, counter>>

PrintCrashInfo ==
  /\ stage = "print"
  /\ stage' = "clear"
  /\ UNCHANGED <<abort_dat, numberOfResets, crash, done, unreported, pulls,
                 torn, counter>>

\* Mutant of ClearCrashInfo: the sigil survives.
ClearCrashInfo_KeepsSigil ==
  /\ \/ /\ stage = "clear" /\ stage' = "restore"
        /\ numberOfResets' = abort_dat.count
        /\ abort_dat' = [sigil |-> abort_dat.sigil, count |-> 0, type |-> 0,
                         r0_r12 |-> 0, pc |-> 0, stack |-> 0]
        /\ UNCHANGED counter
     \/ /\ stage = "restore" /\ stage' = "running"
        /\ abort_dat' = [abort_dat EXCEPT !.count = numberOfResets]
        /\ counter' = "putBack"
        /\ UNCHANGED numberOfResets
  /\ UNCHANGED <<crash, done, unreported, pulls, torn>>

\* Mutant of ClearCrashInfo: the reset itself is counted.
ClearCrashInfo_CountsReset ==
  /\ \/ /\ stage = "clear" /\ stage' = "restore"
        /\ numberOfResets' = abort_dat.count
        /\ abort_dat' = [sigil |-> "zero", count |-> 0, type |-> 0,
                         r0_r12 |-> 0, pc |-> 0, stack |-> 0]
        /\ UNCHANGED counter
     \/ /\ stage = "restore" /\ stage' = "running"
        /\ abort_dat' = [abort_dat EXCEPT !.count = numberOfResets + 1]
        /\ counter' = "putBack"
        /\ UNCHANGED numberOfResets
  /\ UNCHANGED <<crash, done, unreported, pulls, torn>>

(* clearCrashInfo: the memset, then the count is put back.  The memset     *)
(* clears the sigil before the rest, so a reset in the middle of it leaves *)
(* nothing that a boot or a later handler would look at.                   *)
ClearCrashInfo ==
  /\ \/ /\ stage = "clear" /\ stage' = "restore"
        /\ numberOfResets' = abort_dat.count
        /\ abort_dat' = [sigil |-> "zero", count |-> 0, type |-> 0,
                         r0_r12 |-> 0, pc |-> 0, stack |-> 0]
        /\ UNCHANGED counter
     \/ /\ stage = "restore" /\ stage' = "running"
        /\ abort_dat' = [abort_dat EXCEPT !.count = numberOfResets]
        /\ counter' = "putBack"
        /\ UNCHANGED numberOfResets
  /\ UNCHANGED <<crash, done, unreported, pulls, torn>>

-----------------------------------------------------------------------------
(* External: the RAM forgets, but does not happen to come up with the      *)
(* sigil's 32 bits in it.                                                  *)
PowerLoss ==
  /\ stage' = "startup"
  /\ \E n \in Aborts :
       abort_dat' = [sigil |-> "garbage", count |-> n, type |-> 0,
                     r0_r12 |-> 0, pc |-> 0, stack |-> 0]
  /\ counter' = "random"
  /\ UNCHANGED <<numberOfResets, crash, done, unreported, pulls, torn>>

PullReset ==
  /\ pulls < MaxPulls
  /\ pulls' = pulls + 1
  /\ stage' = "startup"
  /\ torn' = IF stage \in {"sigil", "clearCount", "save", "count"} THEN 1 ELSE torn
  /\ counter' = IF stage = "clearCount" THEN "uncleared" ELSE counter
  /\ UNCHANGED <<abort_dat, numberOfResets, crash, done, unreported>>

Init ==
  /\ stage = "startup"
  /\ abort_dat \in [sigil : {"garbage"}, count : Aborts, type : {0},
                    r0_r12 : {0}, pc : {0}, stack : {0}]
  /\ numberOfResets = 0
  /\ crash = NoAbort /\ done = NoAbort /\ unreported = 0
  /\ pulls = 0 /\ torn = 0 /\ counter = "random"

Handler == CheckSigil \/ ClearCount \/ SaveContext \/ CountAbort \/ WatchdogReset
Main    == Boot \/ PrintCrashInfo \/ ClearCrashInfo

Next ==
  \/ \E type \in Types : Abort(type)
  \/ Handler
  \/ Main
  \/ PowerLoss
  \/ PullReset

(* The processor runs. *)
Spec == Init /\ [][Next]_vars /\ WF_vars(Handler \/ Main)

-----------------------------------------------------------------------------
(* The count is at most what power-up left in it and the aborts since. *)
TypeOK ==
  /\ stage \in Stages
  /\ abort_dat \in Records /\ abort_dat.count <= MaxAborts + done.number
  /\ numberOfResets \in Counts
  /\ {crash, done} \subseteq [number : Aborts, type : Types]
  /\ unreported \in Aborts /\ pulls \in 0..MaxPulls /\ torn \in {0, 1}
  /\ counter \in Counters

(* The counter that is printed says how many aborts there were since the   *)
(* last report, whatever the counter held before: aborts on the way to the *)
(* report add to it, an interrupted handler does not.  The one exception   *)
(* is a reset pin pulled between the stores of a new sigil and of the zero *)
(* that goes with it: the old or random count then counts on.              *)
CountIsAbortsSinceReport ==
  /\ abort_dat.sigil = "deadc0de"
  /\ stage # "clearCount" /\ counter # "uncleared"
  => abort_dat.count = unreported

(* The firmware never runs with an unreported crash in the record, so the  *)
(* next one is not taken for a repetition of it.                           *)
NothingPendingWhileRunning == stage = "running" => abort_dat.sigil # "deadc0de"

(* A report is of one abort, the last one handled, with nothing of earlier *)
(* ones in it, even when the handler itself aborted; unless the reset pin  *)
(* was pulled in the middle of a handler and none has run to its end since. *)
ReportIsLastAbort ==
  stage = "print" /\ torn = 0 =>
    /\ abort_dat.type = done.type
    /\ abort_dat.r0_r12 = done.number
    /\ abort_dat.pc = done.number /\ abort_dat.stack = done.number

(* Every abort that was handled is printed, or the next one strikes before *)
(* that, or the power goes.                                                *)
EveryAbortIsReported ==
  \A n \in 1..MaxAborts :
    stage = "watchdog" /\ done.number = n
      ~> \/ stage = "clear" /\ abort_dat.pc = n
         \/ crash.number > n
         \/ abort_dat.sigil = "garbage"

(* crash.c: "Clear everything but COUNT, which should only reset upon      *)
(* power-loss": the handler clears no count but a random one.              *)
CountOnlyResetsUponPowerLoss ==
  [][stage = "clearCount" /\ abort_dat'.count < abort_dat.count
       => counter = "random" \/ abort_dat'.sigil = "garbage"]_vars
=============================================================================
