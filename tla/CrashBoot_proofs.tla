-------------------------- MODULE CrashBoot_proofs --------------------------
(***************************************************************************)
(* What the crash record says when it is printed, for any number of aborts *)
(* and with resets, aborts and losses of power between any two steps.      *)
(***************************************************************************)
EXTENDS CrashBoot, TLAPS

(* The counter stays in range because it counts finished handlers on top   *)
(* of what power-up left, and an unfinished one has its own number.        *)
Numbers ==
  /\ numberOfResets <= MaxAborts + done.number
  /\ unreported <= done.number /\ done.number <= crash.number
  /\ stage \in {"sigil", "clearCount", "save", "count"} => done.number < crash.number

(* A sigil that the handler found, or stored and cleared the count with,   *)
(* goes with the count it keeps, and with a crash record that main has yet *)
(* to print.                                                               *)
Sigil ==
  /\ CountIsAbortsSinceReport
  /\ stage = "clearCount" => unreported = 0
  /\ stage \in {"clearCount", "save", "count", "watchdog"} => abort_dat.sigil = "deadc0de"
  /\ stage \in {"running", "restore"} => abort_dat.sigil # "deadc0de"
  /\ stage \in {"print", "clear"} => abort_dat.sigil = "deadc0de"

(* A handler that no pull of the reset pin cuts is only stopped by an abort *)
(* of its own or by the power going: what it stored belongs to one abort.  *)
OneAbort ==
  /\ stage \in HandlerStages =>
       abort_dat.type = crash.type /\ abort_dat.r0_r12 = crash.number
  /\ stage \in {"count", "watchdog"} =>
       abort_dat.pc = crash.number /\ abort_dat.stack = crash.number
  /\ stage = "watchdog" => done = crash
  /\ stage \in BootStages /\ abort_dat.sigil = "deadc0de" /\ torn = 0 =>
       /\ abort_dat.type = done.type /\ abort_dat.r0_r12 = done.number
       /\ abort_dat.pc = done.number /\ abort_dat.stack = done.number

IInv == TypeOK /\ Numbers /\ Sigil /\ OneAbort

LEMMA InitIInv == Init => IInv
  BY AbortsAssumption, PullsAssumption DEF Init, IInv, TypeOK, Numbers, Sigil, OneAbort, NoAbort,
     Stages, BootStages, HandlerStages, Records, Aborts, Counts, Types,
     Counters, CountIsAbortsSinceReport

LEMMA AbortIInv ==
  ASSUME IInv, NEW type \in Types, Abort(type)
  PROVE  IInv'
<1> USE AbortsAssumption DEF IInv, Abort, Aborts, Counts, Types
<1>1. crash.number + 1 \in Aborts /\ crash'.number = crash.number + 1
  BY DEF TypeOK
<1>2. abort_dat' \in Records /\ crash' \in [number : Aborts, type : Types]
  BY <1>1 DEF TypeOK, Records
<1>3. TypeOK'
  BY <1>2 DEF TypeOK, Stages, HandlerStages
<1>4. done.number <= crash.number /\ done.number \in Nat /\ unreported \in Nat
  BY DEF TypeOK, Numbers
<1>5. Numbers'
  <2>1. done.number < crash'.number
    BY <1>1, <1>4 DEF TypeOK
  <2> QED BY <2>1, <1>1, <1>4 DEF Numbers
<1>6. Sigil'
  BY DEF Sigil, TypeOK, Records, CountIsAbortsSinceReport
<1>7. OneAbort'
  BY DEF OneAbort, TypeOK, Records, HandlerStages, BootStages
<1> QED BY <1>3, <1>5, <1>6, <1>7

LEMMA HandlerIInv ==
  ASSUME IInv, Handler
  PROVE  IInv'
<1> USE AbortsAssumption DEF IInv, Aborts, Counts, Types, Stages, HandlerStages, BootStages
<1>1. CASE CheckSigil
  <2> USE <1>1 DEF CheckSigil
  <2>1. /\ abort_dat' \in Records /\ abort_dat'.type = abort_dat.type
        /\ abort_dat'.r0_r12 = abort_dat.r0_r12
        /\ abort_dat'.count = abort_dat.count
        /\ abort_dat'.sigil = "deadc0de"
    BY DEF TypeOK, Records
  <2>2. TypeOK' /\ Numbers'
    <3>1. stage' \in Stages /\ unreported' \in Aborts
      BY DEF TypeOK
    <3>2. unreported' = unreported \/ unreported' = 0
      OBVIOUS
    <3>3. {unreported, done.number, crash.number} \subseteq Nat
      BY DEF TypeOK
    <3> QED BY <2>1, <3>1, <3>2, <3>3 DEF TypeOK, Numbers
  <2>3. Sigil'
    BY <2>1 DEF Sigil, CountIsAbortsSinceReport
  <2>4. OneAbort'
    BY <2>1 DEF OneAbort
  <2> QED BY <2>2, <2>3, <2>4
<1>5. CASE ClearCount
  <2> USE <1>5 DEF ClearCount
  <2>1. /\ abort_dat' \in Records /\ abort_dat'.type = abort_dat.type
        /\ abort_dat'.r0_r12 = abort_dat.r0_r12
        /\ abort_dat'.count = 0
        /\ abort_dat'.sigil = abort_dat.sigil
    BY DEF TypeOK, Records
  <2>2. TypeOK' /\ Numbers'
    BY <2>1 DEF TypeOK, Numbers, Counters
  <2>3. Sigil'
    BY <2>1 DEF Sigil, CountIsAbortsSinceReport
  <2>4. OneAbort'
    BY <2>1 DEF OneAbort
  <2> QED BY <2>2, <2>3, <2>4
<1>2. CASE SaveContext
  BY <1>2 DEF SaveContext, TypeOK, Numbers, Sigil, OneAbort, Records,
       CountIsAbortsSinceReport, Counters
<1>3. CASE CountAbort
  BY <1>3 DEF CountAbort, TypeOK, Numbers, Sigil, OneAbort, Records,
       CountIsAbortsSinceReport, Counters
<1>4. CASE WatchdogReset
  BY <1>4 DEF WatchdogReset, TypeOK, Numbers, Sigil, OneAbort, Records,
       CountIsAbortsSinceReport, Counters
<1> QED BY <1>1, <1>2, <1>3, <1>4, <1>5 DEF Handler

LEMMA MainIInv ==
  ASSUME IInv, Main
  PROVE  IInv'
<1> USE AbortsAssumption DEF IInv, Aborts, Counts, Types, Stages, HandlerStages, BootStages
<1>1. CASE Boot
  BY <1>1 DEF Boot, TypeOK, Numbers, Sigil, OneAbort, Records,
       CountIsAbortsSinceReport, Counters
<1>2. CASE PrintCrashInfo
  BY <1>2 DEF PrintCrashInfo, TypeOK, Numbers, Sigil, OneAbort, Records,
       CountIsAbortsSinceReport, Counters
<1>3. CASE ClearCrashInfo
  BY <1>3 DEF ClearCrashInfo, TypeOK, Numbers, Sigil, OneAbort, Records,
       CountIsAbortsSinceReport, Counters
<1> QED BY <1>1, <1>2, <1>3 DEF Main

LEMMA NextIInv == IInv /\ [Next]_vars => IInv'
<1> SUFFICES ASSUME IInv, [Next]_vars PROVE IInv'
  OBVIOUS
<1> USE DEF IInv
<1>1. CASE PowerLoss
  <2> USE <1>1 DEF PowerLoss
  <2>1. TypeOK' /\ Numbers' /\ Sigil'
    BY AbortsAssumption DEF TypeOK, Numbers, Sigil, Stages, BootStages, Records,
       Aborts, Counts, Types, Counters, CountIsAbortsSinceReport
  <2>2. OneAbort'
    BY DEF OneAbort, HandlerStages
  <2> QED BY <2>1, <2>2
<1>2. CASE PullReset
  <2> USE <1>2 DEF PullReset
  <2>1. TypeOK' /\ Numbers' /\ Sigil'
    BY PullsAssumption DEF TypeOK, Numbers, Sigil, Stages, BootStages, Counters,
       CountIsAbortsSinceReport
  <2>2. OneAbort'
    BY DEF OneAbort, TypeOK, Sigil, Stages, HandlerStages, BootStages
  <2> QED BY <2>1, <2>2
<1>3. CASE UNCHANGED vars
  BY <1>3 DEF vars, TypeOK, Numbers, Sigil, OneAbort, CountIsAbortsSinceReport
<1> QED
  BY <1>1, <1>2, <1>3, AbortIInv, HandlerIInv, MainIInv DEF Next

LEMMA Invariance == Spec => []IInv
  BY InitIInv, NextIInv, PTL DEF Spec

(* State and types: the counter never exceeds what power-up left in it and *)
(* the aborts since.                                                       *)
THEOREM TypeCorrect == Spec => []TypeOK
  BY Invariance, PTL DEF IInv

(* The printed count is the number of aborts since the last report, unless *)
(* the reset pin was pulled between a new sigil and the zero that goes     *)
(* with it.                                                                *)
THEOREM CountIsRight == Spec => []CountIsAbortsSinceReport
<1>1. IInv => CountIsAbortsSinceReport
  BY DEF IInv, Sigil
<1> QED BY <1>1, Invariance, PTL

(* The firmware never runs on top of an unreported crash. *)
THEOREM NothingPending == Spec => []NothingPendingWhileRunning
<1>1. IInv => NothingPendingWhileRunning
  BY DEF IInv, Sigil, NothingPendingWhileRunning
<1> QED BY <1>1, Invariance, PTL

(* A report is of one abort, the last one, unless its handler was cut. *)
THEOREM ReportIsRight == Spec => []ReportIsLastAbort
<1>1. IInv => ReportIsLastAbort
  BY DEF IInv, Sigil, OneAbort, ReportIsLastAbort, BootStages
<1> QED BY <1>1, Invariance, PTL
=============================================================================
