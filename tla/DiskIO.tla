------------------------------- MODULE DiskIO -------------------------------
(***************************************************************************)
(* fat/diskio.c: the SD card driver below FatFs.  FatFs calls it from the  *)
(* user interface's task; the diskTimer task preempts that task to count   *)
(* down the timeouts and to debounce the contacts of the socket.  Cards    *)
(* are pulled and inserted at any time.                                    *)
(*                                                                         *)
(* A step of the caller is a command with its answer, a block, or a step   *)
(* of the update of Stat.  The contents of blocks are left out.            *)
(***************************************************************************)
EXTENDS Integers, FiniteSets

CONSTANTS
  Kinds,        \* the kinds of card there are: of "SD1", "SD2", "MMC"
  MaxBlocks,    \* blocks in a transfer
  MaxCards,     \* how many cards are ever inserted
  InitTicks, ReadyTicks, DataTicks   \* the timeouts, in calls of the timer

ASSUME CardsAssumption == /\ Kinds \subseteq {"SD1", "SD2", "MMC"}
                          /\ MaxCards \in Nat /\ MaxBlocks \in Nat \ {0}
ASSUME TicksAssumption ==
  /\ InitTicks \in Nat \ {0} /\ ReadyTicks \in Nat \ {0} /\ DataTicks \in Nat \ {0}

VARIABLES
  Stat,             \* the set of flags that are up
  pv,               \* the contacts when the timer last sampled them
  CardType,
  Timer1, Timer2,
  card,             \* external: the card in the socket
  ui,               \* the caller, see Idle
  inserted          \* history: cards so far

vars == <<Stat, pv, CardType, Timer1, Timer2, card, ui, inserted>>

Ticks == 0..(InitTicks + ReadyTicks + DataTicks)
Flags == {"NOINIT", "NODISK", "PROTECT"}

(* An empty socket's contacts are open, which reads as protected.  History: *)
(* seen, how often the timer has sampled it since it was put in or pulled:  *)
(* 2 stands for at least twice, 3 for at least twice and at least once      *)
(* since the caller wrote Stat.                                             *)
NoCard == [id |-> 0, kind |-> "none", protected |-> 1, mode |-> "off",
           busy |-> 0, seen |-> 0]
Contacts == [empty |-> IF card.id = 0 THEN 1 ELSE 0, protected |-> card.protected]

(* pc: where the call is; op, ty, left, count, stat: what it does, the      *)
(* locals ty and count, the count asked for, and its copy of Stat; ok: what *)
(* it returned; late: the timer ran since the caller last could wait.       *)
(* History: taken, the blocks of a write that the card accepted.            *)
Idle == [pc |-> "idle", op |-> "none", ty |-> "none", left |-> 0, count |-> 0,
         stat |-> {}, ok |-> 0, late |-> 0, taken |-> 0]

-----------------------------------------------------------------------------
(* External: the answers of the card in the socket, "ok", "idle" or        *)
(* "error", which is any other answer and none.                            *)
Answers(cmd) ==
  CASE card.id = 0 -> {"error"}
    [] card.id # 0 /\ cmd = "CMD0" -> {"idle"}
    [] card.mode = "sd" /\ cmd # "CMD0" -> {"error"}
    [] card.mode = "idle" /\ cmd = "CMD8" -> IF card.kind = "SD2" THEN {"idle"} ELSE {"error"}
    [] card.mode = "idle" /\ cmd = "ACMD41" ->
         IF card.kind = "MMC" THEN {"error"} ELSE {"ok", "idle"}
    [] card.mode = "idle" /\ cmd = "CMD1" -> {"ok", "idle"}
    [] card.mode = "idle" /\ cmd \in {"CMD16", "CMD58"} -> {"idle"}
    [] card.mode = "ready" /\ cmd \in {"CMD1", "ACMD41", "CMD12", "CMD16", "CMD58"} -> {"ok"}
    [] card.mode = "ready" /\ cmd = "transfer" -> {"ok", "error"}
    [] OTHER -> {"error"}

(* External: the card after it. *)
Obey(cmd, answer) ==
  CASE card.id # 0 /\ cmd = "CMD0" -> [card EXCEPT !.mode = "idle"]
    [] cmd \in {"ACMD41", "CMD1"} /\ answer = "ok" -> [card EXCEPT !.mode = "ready"]
    [] OTHER -> card

(* wait_ready: a busy card holds the line low, an empty socket does not. *)
Ready == card.busy = 0
Waited == Ready \/ Timer2 = 0

(* send_cmd, once the wait is over. *)
Command(cmd, answer) ==
  /\ Waited
  /\ answer \in IF Ready THEN Answers(cmd) ELSE {"error"}
  /\ card' = IF Ready THEN Obey(cmd, answer) ELSE card

At(pc) == ui.pc = pc
(* On to the next step, which starts with wait_ready. *)
Goto(pc) == ui' = [ui EXCEPT !.pc = pc, !.late = 0] /\ Timer2' = ReadyTicks

-----------------------------------------------------------------------------
(* disk_initialize, which FatFs calls to mount the card.                   *)
disk_initialize ==
  /\ At("idle") /\ "NODISK" \notin Stat
  /\ ui' = [Idle EXCEPT !.pc = "CMD0", !.op = "initialize"]
  /\ Timer2' = ReadyTicks
  /\ UNCHANGED <<Stat, pv, CardType, Timer1, card, inserted>>

EnterIdle ==
  /\ At("CMD0")
  /\ \E answer \in {"ok", "idle", "error"} :
       /\ Command("CMD0", answer)
       /\ \/ /\ answer = "idle"
             /\ Timer1' = InitTicks
             /\ Goto("CMD8")
          \/ /\ answer # "idle"
             /\ Goto("finish")
             /\ UNCHANGED Timer1
  /\ UNCHANGED <<Stat, pv, CardType, inserted>>

CheckVoltage ==
  /\ At("CMD8")
  /\ \E answer \in {"ok", "idle", "error"} :
       /\ Command("CMD8", answer)
       /\ \/ answer = "idle" /\ ui' = [ui EXCEPT !.pc = "leave", !.op = "SD2"]
          \/ answer = "idle" /\ ui' = [ui EXCEPT !.pc = "finish"]
          \/ answer # "idle" /\ ui' = [ui EXCEPT !.pc = "probe"]
  /\ Timer2' = ReadyTicks
  /\ UNCHANGED <<Stat, pv, CardType, Timer1, inserted>>

Probe ==
  /\ At("probe")
  /\ \E answer \in {"ok", "idle", "error"} :
       /\ Command("ACMD41", answer)
       /\ ui' = [ui EXCEPT !.pc = "leave", !.op = "older",
                           !.ty = IF answer = "error" THEN "MMC" ELSE "SD1"]
  /\ Timer2' = ReadyTicks
  /\ UNCHANGED <<Stat, pv, CardType, Timer1, inserted>>

\* Mutant of LeaveIdle: only the card ends the loop.
LeaveIdle_NoTimeout ==
  /\ At("leave")
  /\ \E answer \in {"ok", "idle", "error"} :
       /\ Command(IF ui.ty = "MMC" THEN "CMD1" ELSE "ACMD41", answer)
       /\ IF answer = "ok" THEN Goto("verify") ELSE Goto("leave")
  /\ UNCHANGED <<Stat, pv, CardType, Timer1, inserted>>

(* "Wait for leaving idle state", a command at a time. *)
LeaveIdle ==
  /\ At("leave")
  /\ \/ /\ Timer1 = 0
        /\ Goto("verify")
        /\ UNCHANGED card
     \/ /\ Timer1 > 0
        /\ \E answer \in {"ok", "idle", "error"} :
             /\ Command(IF ui.ty = "MMC" THEN "CMD1" ELSE "ACMD41", answer)
             /\ IF answer = "ok" THEN Goto("verify") ELSE Goto("leave")
  /\ UNCHANGED <<Stat, pv, CardType, Timer1, inserted>>

(* CMD58 or CMD16, unless the time is up.  For an older card neither the   *)
(* timeout nor the answer changes ty: the "ty = 0" is inside the #if of    *)
(* the debug output.                                                       *)
Verify ==
  /\ At("verify")
  /\ \/ /\ Timer1 = 0
        /\ ui' = [ui EXCEPT !.pc = "finish"]
        /\ UNCHANGED card
     \/ /\ Timer1 > 0
        /\ \E answer \in {"ok", "idle", "error"} :
             /\ Command(IF ui.op = "SD2" THEN "CMD58" ELSE "CMD16", answer)
             /\ ui' = [ui EXCEPT !.pc = "finish",
                         !.ty = IF ui.op = "SD2" /\ answer = "ok" THEN "SD2" ELSE @]
  /\ Timer2' = ReadyTicks
  /\ UNCHANGED <<Stat, pv, CardType, Timer1, inserted>>

(* power_off on failure begins with wait_ready; on both paths Stat is read *)
(* and then written.                                                       *)
Finish ==
  /\ At("finish")
  /\ CardType' = ui.ty
  /\ ui' = [ui EXCEPT !.pc = IF ui.ty = "none" THEN "powerOff" ELSE "load"]
  /\ Timer2' = ReadyTicks
  /\ UNCHANGED <<Stat, pv, Timer1, card, inserted>>

power_off ==
  /\ At("powerOff") /\ Waited
  /\ Goto("load")
  /\ UNCHANGED <<Stat, pv, CardType, Timer1, card, inserted>>

LoadStat ==
  /\ At("load")
  /\ ui' = [ui EXCEPT !.pc = "store", !.stat = Stat]
  /\ UNCHANGED <<Stat, pv, CardType, Timer1, Timer2, card, inserted>>

StoreStat ==
  /\ At("store")
  /\ Stat' = IF ui.ty = "none" THEN ui.stat \cup {"NOINIT"} ELSE ui.stat \ {"NOINIT"}
  /\ ui' = Idle
  /\ card' = IF card.seen = 3 THEN [card EXCEPT !.seen = 2] ELSE card
  /\ UNCHANGED <<pv, CardType, Timer1, Timer2, inserted>>

-----------------------------------------------------------------------------
(* disk_read, disk_write and CTRL_SYNC, when their first tests pass. *)
disk_read(n) ==
  /\ At("idle") /\ "NOINIT" \notin Stat
  /\ ui' = [Idle EXCEPT !.pc = "send", !.op = "read", !.left = n, !.count = n]
  /\ Timer2' = ReadyTicks
  /\ UNCHANGED <<Stat, pv, CardType, Timer1, card, inserted>>

disk_write(n) ==
  /\ At("idle") /\ Stat \cap {"NOINIT", "PROTECT"} = {}
  /\ ui' = [Idle EXCEPT !.pc = "send", !.op = "write", !.left = n, !.count = n]
  /\ Timer2' = ReadyTicks
  /\ UNCHANGED <<Stat, pv, CardType, Timer1, card, inserted>>

disk_ioctl ==
  /\ At("idle") /\ "NOINIT" \notin Stat
  /\ ui' = [Idle EXCEPT !.pc = "sync", !.op = "sync"]
  /\ Timer2' = ReadyTicks
  /\ UNCHANGED <<Stat, pv, CardType, Timer1, card, inserted>>

Return(ok) == ui' = [ui EXCEPT !.pc = "idle", !.ok = ok, !.late = 0]

(* CMD17, CMD18, CMD24 or CMD25. *)
Send ==
  /\ At("send")
  /\ \E answer \in {"ok", "idle", "error"} :
       /\ Command("transfer", answer)
       /\ IF answer = "ok"
          THEN /\ Goto("block")
               /\ Timer1' = IF ui.op = "read" THEN DataTicks ELSE Timer1
          ELSE Return(0) /\ UNCHANGED <<Timer1, Timer2>>
  /\ UNCHANGED <<Stat, pv, CardType, inserted>>

(* After a block: the next one, or the end of a transfer of one or more.    *)
After(left) ==
  IF left = 0 /\ ui.count = 1 THEN [ui EXCEPT !.pc = "idle", !.left = 0, !.ok = 1, !.late = 0]
  ELSE [ui EXCEPT !.pc = IF left = 0 THEN "stop" ELSE "block", !.left = left, !.late = 0]

(* What a failed block does: count keeps what is left. *)
GiveUp == IF ui.count = 1 THEN Return(0) ELSE ui' = [ui EXCEPT !.pc = "stop", !.late = 0]

(* rcvr_datablock: a token and data, no token before the timeout, or an    *)
(* error token.                                                            *)
ReceiveBlock ==
  /\ At("block") /\ ui.op = "read"
  /\ \/ card.mode = "ready" /\ ui' = After(ui.left - 1)
     \/ card.mode = "ready" /\ GiveUp
     \/ Timer1 = 0 /\ GiveUp
  /\ Timer1' = IF ui'.pc = "block" THEN DataTicks ELSE Timer1
  /\ Timer2' = ReadyTicks
  /\ UNCHANGED <<Stat, pv, CardType, card, inserted>>

\* Mutant of TransmitBlock: the data response is not looked at.
TransmitBlock_AnyResponse ==
  /\ At("block") /\ ui.op = "write" /\ Waited
  /\ \/ /\ Ready /\ card.mode = "ready"
        /\ card' = [card EXCEPT !.busy = 1]
        /\ ui' = [After(ui.left - 1) EXCEPT !.taken = @ + 1]
     \/ Ready /\ ui' = After(ui.left - 1) /\ UNCHANGED card
     \/ ~Ready /\ GiveUp /\ UNCHANGED card
  /\ Timer2' = ReadyTicks
  /\ UNCHANGED <<Stat, pv, CardType, Timer1, inserted>>

(* xmit_datablock: the card accepts the block and goes busy programming    *)
(* it, rejects it, or never got ready for it.                              *)
TransmitBlock ==
  /\ At("block") /\ ui.op = "write" /\ Waited
  /\ \/ /\ Ready /\ card.mode = "ready"
        /\ card' = [card EXCEPT !.busy = 1]
        /\ ui' = [After(ui.left - 1) EXCEPT !.taken = @ + 1]
     \/ GiveUp /\ UNCHANGED card
  /\ Timer2' = ReadyTicks
  /\ UNCHANGED <<Stat, pv, CardType, Timer1, inserted>>

(* CMD12, whose answer is not looked at, or the STOP_TRAN token. *)
Stop ==
  /\ At("stop") /\ Waited
  /\ Return(IF ui.left = 0 /\ (ui.op = "write" => Ready) THEN 1 ELSE 0)
  /\ card' = IF ui.op = "write" /\ Ready /\ card.mode = "ready"
             THEN [card EXCEPT !.busy = 1] ELSE card
  /\ UNCHANGED <<Stat, pv, CardType, Timer1, Timer2, inserted>>

Sync ==
  /\ At("sync") /\ Waited
  /\ Return(IF Ready THEN 1 ELSE 0)
  /\ UNCHANGED <<Stat, pv, CardType, Timer1, Timer2, card, inserted>>

-----------------------------------------------------------------------------
\* Mutant of Down: the counters wrap.
Down_Wraps(n) == n - 1

Down(n) == IF n > 0 THEN n - 1 ELSE 0

\* Mutant of Sampled: an empty socket leaves the card initialised.
Sampled_NoInit(contacts) ==
  LET s == IF contacts.protected = 1 THEN Stat \cup {"PROTECT"} ELSE Stat \ {"PROTECT"}
  IN  IF contacts.empty = 1 THEN s \cup {"NODISK"} ELSE s \ {"NODISK"}

\* Mutant of Sampled: flags are only ever put up.
Sampled_OnlyUp(contacts) ==
  Stat \cup (IF contacts.protected = 1 THEN {"PROTECT"} ELSE {})
       \cup (IF contacts.empty = 1 THEN {"NODISK", "NOINIT"} ELSE {})

(* Stat after two equal samples. *)
Sampled(contacts) ==
  LET s == IF contacts.protected = 1 THEN Stat \cup {"PROTECT"} ELSE Stat \ {"PROTECT"}
  IN  IF contacts.empty = 1 THEN s \cup {"NODISK", "NOINIT"} ELSE s \ {"NODISK"}

(* Where the caller runs on without waiting for card or timer. *)
Straight == {"finish", "load", "store"}

(* Every 10 ms; the caller needs less than that for a straight stretch.    *)
disk_timerproc ==
  /\ At("idle") \/ ui.pc \notin Straight \/ ui.late = 0
  /\ Timer1' = Down(Timer1) /\ Timer2' = Down(Timer2)
  /\ pv' = Contacts
  /\ Stat' = IF pv = Contacts THEN Sampled(Contacts) ELSE Stat
  /\ ui' = IF ui.pc \in Straight THEN [ui EXCEPT !.late = 1] ELSE ui
  /\ card' = IF card.seen < 3 THEN [card EXCEPT !.seen = @ + 1] ELSE card
  /\ UNCHANGED <<CardType, inserted>>

-----------------------------------------------------------------------------
(* External: the card gets done, is pulled, is inserted.  Nobody is so     *)
(* quick that the timer does not sample the empty socket twice.            *)
Programmed ==
  /\ card.busy = 1
  /\ card' = [card EXCEPT !.busy = 0]
  /\ UNCHANGED <<Stat, pv, CardType, Timer1, Timer2, ui, inserted>>

Pull ==
  /\ card.id # 0
  /\ card' = NoCard
  /\ UNCHANGED <<Stat, pv, CardType, Timer1, Timer2, ui, inserted>>

Insert ==
  /\ card.id = 0 /\ card.seen >= 2 /\ inserted < MaxCards
  /\ inserted' = inserted + 1
  /\ card' \in [id : {inserted + 1}, kind : Kinds, protected : {0, 1},
               mode : {"sd"}, busy : {0}, seen : {0}]
  /\ UNCHANGED <<Stat, pv, CardType, Timer1, Timer2, ui>>

Init ==
  /\ Stat = {"NOINIT"}
  /\ pv = [empty |-> 0, protected |-> 0]
  /\ CardType = "none" /\ Timer1 = 0 /\ Timer2 = 0
  /\ card = NoCard /\ ui = Idle /\ inserted = 0

Caller ==
  \/ EnterIdle \/ CheckVoltage \/ Probe \/ LeaveIdle \/ Verify \/ Finish
  \/ power_off \/ LoadStat \/ StoreStat
  \/ Send \/ ReceiveBlock \/ TransmitBlock \/ Stop \/ Sync

Next ==
  \/ disk_initialize
  \/ \E n \in 1..MaxBlocks : disk_read(n) \/ disk_write(n)
  \/ disk_ioctl
  \/ Caller
  \/ disk_timerproc
  \/ Programmed \/ Pull \/ Insert

(* The caller runs when it can, and the timer's task is never starved; the *)
(* card need not do anything.                                              *)
Spec == Init /\ [][Next]_vars /\ WF_vars(Caller) /\ WF_vars(disk_timerproc)

-----------------------------------------------------------------------------
TypeOK ==
  /\ Stat \subseteq Flags /\ pv \in [empty : {0, 1}, protected : {0, 1}]
  /\ CardType \in Kinds \cup {"none", "SD1", "SD2", "MMC"}
  /\ {Timer1, Timer2} \subseteq Ticks /\ inserted \in 0..MaxCards
  /\ card \in [id : 0..MaxCards, kind : Kinds \cup {"none"}, protected : {0, 1},
               mode : {"off", "sd", "idle", "ready"}, busy : {0, 1}, seen : 0..3]
  /\ ui.left \in 0..MaxBlocks /\ ui.taken \in 0..MaxBlocks

(* What STA_NOINIT down says: the card in the socket, if there is one, has *)
(* left the idle state since it was put in: also when cards are exchanged  *)
(* during a call, and although Stat is updated by two tasks.               *)
InitializedMeansReady ==
  At("idle") /\ "NOINIT" \notin Stat /\ card.id # 0 => card.mode = "ready"

(* The same of the cards that the driver takes for version 2.              *)
NoStaleCard == CardType = "SD2" => InitializedMeansReady

(* disk_write only returns RES_OK if the card accepted every block, however *)
(* slow it is and whenever it is pulled.                                    *)
WriteOkMeansAccepted ==
  At("idle") /\ ui.op = "write" /\ ui.ok = 1 => ui.taken = ui.count

(* Both tasks read Stat and write it back, so a sample may be overwritten  *)
(* with an older copy.  But once an unchanged socket was sampled twice the *)
(* first sample after the caller's write puts Stat right, and it stays so. *)
StatSettles ==
  card.seen = 3 =>
    /\ "NODISK" \in Stat <=> card.id = 0
    /\ "PROTECT" \in Stat <=> card.protected = 1
    /\ card.id = 0 => "NOINIT" \in Stat

(* Every call returns: no card, slow, dead or absent, keeps the caller.    *)
EveryCallReturns == ui.pc # "idle" ~> ui.pc = "idle"
=============================================================================
