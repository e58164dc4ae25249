---------------------------- MODULE DiskIO_proofs ----------------------------
(***************************************************************************)
(* What the driver's results and flags say, for transfers of any length,   *)
(* any time-outs and any number of cards, pulled and inserted between any  *)
(* two steps of the caller and of the timer.                               *)
(***************************************************************************)
EXTENDS DiskIO, TLAPS

Steps == {"idle", "CMD0", "CMD8", "probe", "leave", "verify", "finish", "powerOff", "load",
          "store", "send", "block", "stop", "sync"}
Calls ==
  [pc : Steps, op : {"none", "initialize", "SD2", "older", "read", "write", "sync"},
   ty : {"none", "SD1", "SD2", "MMC"}, left : 0..MaxBlocks, count : 0..MaxBlocks,
   stat : SUBSET Flags, ok : {0, 1}, late : {0, 1}, taken : 0..MaxBlocks]

Typed == TypeOK /\ ui \in Calls

(* A block that is still to come has not been accepted; the ones before it *)
(* have, or the transfer has failed.                                       *)
Transfer ==
  /\ ui.pc \in {"send", "block"} => 1 <= ui.left /\ ui.left <= ui.count
  /\ ui.pc \in {"send", "block", "stop"} =>
       /\ ui.op \in {"read", "write"}
       /\ ui.op = "write" => ui.taken + ui.left = ui.count
  /\ ui.pc = "sync" => ui.op = "sync"
  /\ WriteOkMeansAccepted

(* The contacts have not changed since the last sample.                    *)
Settled == StatSettles /\ (card.seen >= 1 => pv = Contacts)

(* Until Stat says so a version 2 card has left the idle state, or has been *)
(* pulled so lately that none can be in its place.                         *)
Using == {"idle", "send", "block", "stop", "sync"}
Version2 ==
  /\ card.id = 0 => card.mode = "off"
  /\ ui.pc \in {"CMD0", "CMD8", "probe", "leave", "verify"} => ui.ty # "SD2"
  /\ ui.pc \in {"load", "store"} => CardType = ui.ty
  /\ ui.pc = "powerOff" => ui.ty = "none" /\ CardType = "none"
  /\ ui.pc \in Straight /\ ui.ty = "SD2" =>
       card.mode = "ready" \/ (card.id = 0 /\ card.seen <= ui.late)
  /\ ui.pc \in Using /\ CardType = "SD2" /\ "NOINIT" \notin Stat =>
       card.mode = "ready" \/ (card.id = 0 /\ card.seen < 2)

IInv == Typed /\ Transfer /\ Settled /\ Version2

-----------------------------------------------------------------------------
CardsAndNone ==
  [id : 0..MaxCards, kind : Kinds \cup {"none"}, protected : {0, 1},
   mode : {"off", "sd", "idle", "ready"}, busy : {0, 1}, seen : 0..3]

LEMMA InitIInv == Init => IInv
  BY CardsAssumption, TicksAssumption
  DEF Init, IInv, Typed, TypeOK, Transfer, Settled, Version2, StatSettles, WriteOkMeansAccepted,
      NoCard, Idle, Flags, Ticks, Calls, Steps, Straight, Using, At

(* A command leaves the socket as it is, and only CMD0 makes a card idle.  *)
LEMMA CommandKeepsCard ==
  ASSUME Typed, card.id = 0 => card.mode = "off", NEW cmd, NEW answer, Command(cmd, answer)
  PROVE  /\ card' \in CardsAndNone
         /\ card'.id = card.id /\ card'.protected = card.protected /\ card'.seen = card.seen
         /\ card.id = 0 => card' = card
         /\ cmd \notin {"CMD0", "ACMD41", "CMD1"} => card' = card
<1>1. card \in CardsAndNone
  BY DEF Typed, TypeOK, CardsAndNone
<1>2. card.id = 0 => card' = card
  <2> SUFFICES ASSUME card.id = 0, Ready PROVE Obey(cmd, answer) = card
    BY DEF Command
  <2>1. Answers(cmd) = {"error"}
    BY DEF Answers
  <2>2. answer = "error"
    BY <2>1 DEF Command
  <2> QED BY <2>2 DEF Obey
<1>3. \/ card' = card
      \/ cmd = "CMD0" /\ card' = [card EXCEPT !.mode = "idle"]
      \/ cmd \in {"ACMD41", "CMD1"} /\ card' = [card EXCEPT !.mode = "ready"]
  <2>1. CASE card.id # 0 /\ cmd = "CMD0"
    BY <2>1 DEF Command, Obey
  <2>2. CASE cmd \in {"ACMD41", "CMD1"}
    BY <2>2 DEF Command, Obey
  <2>3. CASE ~(card.id # 0 /\ cmd = "CMD0") /\ cmd \notin {"ACMD41", "CMD1"}
    BY <2>3 DEF Command, Obey
  <2> QED BY <2>1, <2>2, <2>3
<1> QED BY <1>1, <1>2, <1>3 DEF CardsAndNone

(* CMD58 is only answered well by a card that has left the idle state.     *)
LEMMA VerifiedIsReady ==
  ASSUME Command("CMD58", "ok")
  PROVE  card.mode = "ready" /\ card' = card
  BY DEF Command, Obey, Answers, Ready

-----------------------------------------------------------------------------
(* A call starts with its locals set.                                      *)
LEMMA CallIInv ==
  ASSUME IInv,
         disk_initialize \/ (\E n \in 1..MaxBlocks : disk_read(n) \/ disk_write(n)) \/ disk_ioctl
  PROVE  IInv'
<1> USE CardsAssumption, TicksAssumption DEF IInv, At, Goto
<1>1. PICK n \in 1..MaxBlocks : disk_initialize \/ disk_read(n) \/ disk_write(n) \/ disk_ioctl
  OBVIOUS
<1>2. UNCHANGED <<Stat, pv, CardType, Timer1, card, inserted>> /\ Timer2' = ReadyTicks
  BY <1>1 DEF disk_initialize, disk_read, disk_write, disk_ioctl
<1>3. \/ ui' = [Idle EXCEPT !.pc = "CMD0", !.op = "initialize"]
      \/ ui' = [Idle EXCEPT !.pc = "send", !.op = "read", !.left = n, !.count = n] /\ At("idle")
      \/ ui' = [Idle EXCEPT !.pc = "send", !.op = "write", !.left = n, !.count = n] /\ At("idle")
      \/ ui' = [Idle EXCEPT !.pc = "sync", !.op = "sync"] /\ At("idle")
  BY <1>1 DEF disk_initialize, disk_read, disk_write, disk_ioctl
<1>4. Typed'
  <2>1. n \in 0..MaxBlocks /\ 0 \in 0..MaxBlocks
    OBVIOUS
  <2>2. Idle \in Calls
    BY <2>1 DEF Idle, Calls, Steps, Flags
  <2>3. ui' \in Calls
    <3>1. [Idle EXCEPT !.pc = "CMD0", !.op = "initialize"] \in Calls
      BY <2>2 DEF Calls, Steps
    <3>2. [Idle EXCEPT !.pc = "send", !.op = "read", !.left = n, !.count = n] \in Calls
      BY <2>1, <2>2 DEF Calls, Steps
    <3>3. [Idle EXCEPT !.pc = "send", !.op = "write", !.left = n, !.count = n] \in Calls
      BY <2>1, <2>2 DEF Calls, Steps
    <3>4. [Idle EXCEPT !.pc = "sync", !.op = "sync"] \in Calls
      BY <2>2 DEF Calls, Steps
    <3> QED BY <1>3, <3>1, <3>2, <3>3, <3>4
  <2>4. Timer2' \in Ticks
    BY <1>2 DEF Ticks
  <2> QED BY <1>2, <2>3, <2>4 DEF Typed, TypeOK, Calls
<1>5. Transfer'
  <2>1. n \in Nat /\ n >= 1
    OBVIOUS
  <2>2. ui'.pc = "send" => ui'.left = n /\ ui'.count = n /\ ui'.taken = 0 /\ ui'.op \in {"read", "write"}
    BY <1>3 DEF Idle
  <2>3. /\ ui'.pc \in {"CMD0", "send", "sync"}
        /\ ui'.pc = "sync" => ui'.op = "sync"
    BY <1>3 DEF Idle
  <2> QED BY <2>1, <2>2, <2>3 DEF Transfer, WriteOkMeansAccepted
<1>6. Settled'
  BY <1>2 DEF Settled, StatSettles, Contacts
<1>7. Version2'
  BY <1>2, <1>3, ZenonT(60) DEF Version2, Idle, Using, Straight
<1> QED BY <1>4, <1>5, <1>6, <1>7

(* The timer's second sample of an empty socket puts STA_NOINIT up.        *)
LEMMA TimerIInv ==
  ASSUME IInv, disk_timerproc
  PROVE  IInv'
<1> USE CardsAssumption, TicksAssumption DEF IInv, disk_timerproc
<1>1. card' \in CardsAndNone /\ card'.id = card.id /\ card'.protected = card.protected
      /\ card'.mode = card.mode /\ card'.seen \in {card.seen + 1, 3}
      /\ (card'.seen = 3 => card.seen >= 2)
      /\ (card.seen < 3 => card'.seen = card.seen + 1)
  BY DEF Typed, TypeOK, CardsAndNone
<1>2. Contacts' = Contacts
  BY <1>1 DEF Contacts
<1>3. Stat' = Stat \/ Stat' = Sampled(Contacts)
  OBVIOUS
<1>4. Sampled(Contacts) \in SUBSET Flags
  BY DEF Typed, TypeOK, Sampled, Flags
<1>5. ui' \in Calls /\ ui' = [ui EXCEPT !.late = ui'.late]
      /\ (ui.pc \in Straight => ui.late = 0 /\ ui'.late = 1)
  BY DEF Typed, Calls, At, Straight
<1>6. Typed'
  <2>1. Timer1' \in Ticks /\ Timer2' \in Ticks
    BY DEF Typed, TypeOK, Down, Ticks
  <2>2. pv' \in [empty : {0, 1}, protected : {0, 1}]
    BY DEF Contacts, Typed, TypeOK
  <2>3. Stat' \subseteq Flags
    BY <1>3, <1>4 DEF Typed, TypeOK
  <2> QED BY <2>1, <2>2, <2>3, <1>1, <1>5 DEF Typed, TypeOK, CardsAndNone, Calls
<1>7. Transfer'
  BY <1>5 DEF Transfer, WriteOkMeansAccepted, At, Typed, Calls
<1>8. Settled'
  <2>1. ASSUME card'.seen = 3 PROVE Stat' = Sampled(Contacts)
    BY <2>1, <1>1 DEF Settled, Typed, TypeOK
  <2>2. /\ "NODISK" \in Sampled(Contacts) <=> card.id = 0
        /\ "PROTECT" \in Sampled(Contacts) <=> card.protected = 1
        /\ card.id = 0 => "NOINIT" \in Sampled(Contacts)
    BY DEF Sampled, Contacts
  <2> QED BY <2>1, <2>2, <1>1, <1>2 DEF Settled, StatSettles
<1>9. Version2'
  <2>1. "NOINIT" \notin Stat' => "NOINIT" \notin Stat
    BY <1>3 DEF Sampled
  <2>2. ASSUME card.id = 0, card'.seen >= 2, "NOINIT" \notin Stat' PROVE card.seen >= 2
    <3>1. CASE card.seen = 1
      BY <3>1, <2>2 DEF Settled, Sampled, Contacts
    <3> QED BY <3>1, <2>2, <1>1 DEF Typed, TypeOK
  <2>3. ui'.pc = ui.pc /\ ui'.ty = ui.ty /\ CardType' = CardType
    BY <1>5 DEF Typed, Calls
  <2>4. ASSUME ui'.pc \in Straight, ui'.ty = "SD2"
        PROVE  card'.mode = "ready" \/ (card'.id = 0 /\ card'.seen <= ui'.late)
    BY <2>4, <2>3, <1>1, <1>5 DEF Version2, Typed, TypeOK
  <2>5. ASSUME ui'.pc \in Using, CardType' = "SD2", "NOINIT" \notin Stat'
        PROVE  card'.mode = "ready" \/ (card'.id = 0 /\ card'.seen < 2)
    <3>1. card.mode = "ready" \/ (card.id = 0 /\ card.seen < 2)
      BY <2>5, <2>1, <2>3 DEF Version2
    <3> QED BY <3>1, <2>2, <2>5, <1>1 DEF Typed, TypeOK, CardsAndNone
  <2> QED BY <2>3, <2>4, <2>5, <1>1 DEF Version2
<1> QED BY <1>6, <1>7, <1>8, <1>9

(* A new card finds STA_NOINIT up, or an initialization that is not over.  *)
LEMMA SocketIInv ==
  ASSUME IInv, Programmed \/ Pull \/ Insert
  PROVE  IInv'
<1> USE CardsAssumption, TicksAssumption DEF IInv
<1>1. UNCHANGED <<Stat, pv, CardType, Timer1, Timer2, ui>>
  BY DEF Programmed, Pull, Insert
<1>2. Transfer'
  BY <1>1 DEF Transfer, WriteOkMeansAccepted, At
<1>3. CASE Programmed
  <2>1. card' \in CardsAndNone /\ card'.id = card.id /\ card'.protected = card.protected
        /\ card'.mode = card.mode /\ card'.seen = card.seen
    BY <1>3 DEF Programmed, Typed, TypeOK, CardsAndNone
  <2> QED BY <1>1, <1>2, <1>3, <2>1
      DEF Programmed, Typed, TypeOK, CardsAndNone, Settled, StatSettles, Contacts, Version2
<1>4. CASE Pull
  <2>1. card' \in CardsAndNone /\ card'.id = 0 /\ card'.mode = "off" /\ card'.seen = 0
    BY <1>4 DEF Pull, NoCard, CardsAndNone
  <2>2. Version2'
    BY <1>1, <2>1 DEF Version2, Typed, Calls
  <2> QED BY <1>1, <1>2, <1>4, <2>1, <2>2
      DEF Pull, Typed, TypeOK, CardsAndNone, Settled, StatSettles
<1>5. CASE Insert
  <2>1. /\ card'.id = inserted + 1 /\ card'.seen = 0 /\ card' \in CardsAndNone
        /\ inserted' \in 0..MaxCards
    BY <1>5 DEF Insert, Typed, TypeOK, CardsAndNone
  <2>2. card.id = 0 /\ card.seen >= 2 /\ card.mode = "off"
    BY <1>5 DEF Insert, Version2
  <2>3. Version2'
    BY <1>1, <2>1, <2>2 DEF Version2, Typed, TypeOK, Calls
  <2> QED BY <1>1, <1>2, <1>5, <2>1, <2>3
      DEF Typed, TypeOK, CardsAndNone, Settled, StatSettles
<1> QED BY <1>3, <1>4, <1>5

-----------------------------------------------------------------------------
(* A step that leaves Stat, the samples and the socket alone.              *)
Beside ==
  /\ UNCHANGED <<Stat, pv, inserted>>
  /\ card' \in CardsAndNone /\ card'.id = card.id /\ card'.protected = card.protected
  /\ card'.seen = card.seen
  /\ ui' \in Calls /\ Timer1' \in Ticks /\ Timer2' \in Ticks

LEMMA BesideKeeps ==
  ASSUME IInv, Beside, CardType' \in {"none", "SD1", "SD2", "MMC"}
  PROVE  Typed' /\ Settled'
  BY DEF IInv, Beside, Typed, TypeOK, Calls, CardsAndNone, Settled, StatSettles, Contacts

(* The steps of an initialization up to where it knows the card.           *)
LEMMA ProbingIInv ==
  ASSUME IInv, Beside, CardType' = CardType,
         card.id = 0 => card' = card,
         ui'.pc \in {"CMD8", "probe", "leave", "verify", "finish"}, ui'.ty # "SD2"
  PROVE  IInv'
<1>1. Typed' /\ Settled'
  BY BesideKeeps, CardsAssumption DEF IInv, Typed, TypeOK
<1>2. Transfer'
  BY DEF Transfer, WriteOkMeansAccepted, At
<1>3. Version2'
  BY DEF IInv, Beside, Version2, Straight, Using
<1> QED BY <1>1, <1>2, <1>3 DEF IInv

(* The steps of a transfer.                                                *)
LEMMA UsingIInv ==
  ASSUME IInv, Beside, CardType' = CardType, card'.mode = card.mode,
         ui.pc \in Using, ui'.pc \in Using, Transfer'
  PROVE  IInv'
<1>1. Typed' /\ Settled'
  BY BesideKeeps, CardsAssumption DEF IInv, Typed, TypeOK
<1>2. Version2'
  BY DEF IInv, Beside, Version2, Straight, Using
<1> QED BY <1>1, <1>2 DEF IInv

LEMMA TimersAreTicks == {0, InitTicks, ReadyTicks, DataTicks} \subseteq Ticks
  BY TicksAssumption DEF Ticks

LEMMA InitializeIInv ==
  ASSUME IInv,
         \/ EnterIdle \/ CheckVoltage \/ Probe \/ LeaveIdle \/ Verify \/ Finish
         \/ power_off \/ LoadStat \/ StoreStat
  PROVE  IInv'
<1>0. Typed /\ ui \in Calls /\ card \in CardsAndNone /\ (card.id = 0 => card.mode = "off")
      /\ Timer1 \in Ticks /\ Timer2 \in Ticks
  BY DEF IInv, Typed, TypeOK, CardsAndNone, Version2
<1>1. CASE EnterIdle
  <2>1. PICK answer \in {"ok", "idle", "error"} :
          /\ Command("CMD0", answer) /\ Timer1' \in {InitTicks, Timer1} /\ Timer2' = ReadyTicks
          /\ ui' = [ui EXCEPT !.pc = "CMD8", !.late = 0] \/ ui' = [ui EXCEPT !.pc = "finish", !.late = 0]
    BY <1>1 DEF EnterIdle, Goto
  <2>2. UNCHANGED <<Stat, pv, CardType, inserted>> /\ ui.pc = "CMD0"
    BY <1>1 DEF EnterIdle, At
  <2>3. ui' \in Calls /\ ui'.pc \in {"CMD8", "finish"} /\ ui'.ty = ui.ty
    BY <2>1, <1>0 DEF Calls, Steps
  <2>4. Beside
    BY <2>1, <2>2, <2>3, <1>0, CommandKeepsCard, TimersAreTicks DEF Beside
  <2> QED BY <2>1, <2>2, <2>3, <2>4, <1>0, CommandKeepsCard, ProbingIInv DEF IInv, Version2
<1>2. CASE CheckVoltage
  <2>1. PICK answer \in {"ok", "idle", "error"} :
          /\ Command("CMD8", answer) /\ Timer2' = ReadyTicks
          /\ \/ ui' = [ui EXCEPT !.pc = "leave", !.op = "SD2"]
             \/ ui' = [ui EXCEPT !.pc = "finish"]
             \/ ui' = [ui EXCEPT !.pc = "probe"]
    BY <1>2 DEF CheckVoltage
  <2>2. UNCHANGED <<Stat, pv, CardType, Timer1, inserted>> /\ ui.pc = "CMD8"
    BY <1>2 DEF CheckVoltage, At
  <2>3. ui' \in Calls /\ ui'.pc \in {"leave", "finish", "probe"} /\ ui'.ty = ui.ty
    BY <2>1, <1>0 DEF Calls, Steps
  <2>4. Beside
    BY <2>1, <2>2, <2>3, <1>0, CommandKeepsCard, TimersAreTicks DEF Beside
  <2> QED BY <2>1, <2>2, <2>3, <2>4, <1>0, CommandKeepsCard, ProbingIInv DEF IInv, Version2
<1>3. CASE Probe
  <2>1. PICK answer \in {"ok", "idle", "error"} :
          /\ Command("ACMD41", answer) /\ Timer2' = ReadyTicks
          /\ ui' = [ui EXCEPT !.pc = "leave", !.op = "older",
                              !.ty = IF answer = "error" THEN "MMC" ELSE "SD1"]
    BY <1>3 DEF Probe
  <2>2. UNCHANGED <<Stat, pv, CardType, Timer1, inserted>>
    BY <1>3 DEF Probe
  <2>3. ui' \in Calls /\ ui'.pc = "leave" /\ ui'.ty # "SD2"
    BY <2>1, <1>0 DEF Calls, Steps
  <2>4. Beside
    BY <2>1, <2>2, <2>3, <1>0, CommandKeepsCard, TimersAreTicks DEF Beside
  <2> QED BY <2>1, <2>2, <2>3, <2>4, <1>0, CommandKeepsCard, ProbingIInv
<1>4. CASE LeaveIdle
  <2>1. /\ ui' = [ui EXCEPT !.pc = "verify", !.late = 0] \/ ui' = [ui EXCEPT !.pc = "leave", !.late = 0]
        /\ Timer2' = ReadyTicks /\ ui.pc = "leave"
        /\ card' = card \/ \E cmd, answer : Command(cmd, answer)
        /\ UNCHANGED <<Stat, pv, CardType, Timer1, inserted>>
    BY <1>4 DEF LeaveIdle, Goto, At
  <2>2. ui' \in Calls /\ ui'.pc \in {"verify", "leave"} /\ ui'.ty = ui.ty
    BY <2>1, <1>0 DEF Calls, Steps
  <2>3. /\ card' \in CardsAndNone
        /\ card'.id = card.id /\ card'.protected = card.protected /\ card'.seen = card.seen
        /\ card.id = 0 => card' = card
    BY <2>1, <1>0, CommandKeepsCard
  <2>4. Beside
    BY <2>1, <2>2, <2>3, <1>0, TimersAreTicks DEF Beside
  <2> QED BY <2>1, <2>2, <2>3, <2>4, ProbingIInv DEF IInv, Version2
<1>5. CASE Verify
  <2>1. /\ UNCHANGED <<Stat, pv, CardType, Timer1, inserted>> /\ Timer2' = ReadyTicks
        /\ ui.pc = "verify"
    BY <1>5 DEF Verify, At
  <2>2. CASE card' = card /\ ui' = [ui EXCEPT !.pc = "finish"]
    <3>1. ui' \in Calls /\ ui'.pc = "finish" /\ ui'.ty = ui.ty
      BY <2>2, <1>0 DEF Calls, Steps
    <3>2. Beside
      BY <3>1, <2>1, <2>2, <1>0, TimersAreTicks DEF Beside
    <3> QED BY <2>1, <2>2, <3>1, <3>2, ProbingIInv DEF IInv, Version2
  <2>3. ASSUME NEW answer,
               Command(IF ui.op = "SD2" THEN "CMD58" ELSE "CMD16", answer),
               ui' = [ui EXCEPT !.pc = "finish",
                         !.ty = IF ui.op = "SD2" /\ answer = "ok" THEN "SD2" ELSE @]
        PROVE  IInv'
    <3>1. card' = card
      BY <2>3, <1>0, CommandKeepsCard
    <3>2. ui' \in Calls /\ ui'.pc = "finish"
      BY <2>3, <1>0 DEF Calls, Steps
    <3>3. Beside
      BY <3>1, <3>2, <2>1, <1>0, TimersAreTicks DEF Beside
    <3>4. CASE ui.op = "SD2" /\ answer = "ok"
      <4>1. card.mode = "ready"
        BY <3>4, <2>3, VerifiedIsReady
      <4>2. Typed' /\ Settled'
        BY <2>1, <3>3, BesideKeeps, CardsAssumption DEF IInv, Typed, TypeOK
      <4>3. Version2'
        BY <3>1, <3>2, <4>1, <1>0 DEF Version2, Using
      <4>4. Transfer'
        BY <3>2 DEF Transfer, WriteOkMeansAccepted, At
      <4> QED BY <4>2, <4>3, <4>4 DEF IInv
    <3>5. CASE ~(ui.op = "SD2" /\ answer = "ok")
      <4>1. ui'.ty = ui.ty
        BY <3>5, <2>3, <1>0 DEF Calls
      <4> QED BY <2>1, <3>1, <3>2, <3>3, <4>1, ProbingIInv DEF IInv, Version2
    <3> QED BY <3>4, <3>5
  <2> QED BY <2>2, <2>3, <1>5 DEF Verify
<1>6. CASE Finish
  <2>1. /\ UNCHANGED <<Stat, pv, Timer1, card, inserted>> /\ Timer2' = ReadyTicks
        /\ ui.pc = "finish" /\ CardType' = ui.ty
    BY <1>6 DEF Finish, At
  <2>2. ui' \in Calls /\ ui'.pc = (IF ui.ty = "none" THEN "powerOff" ELSE "load")
        /\ ui'.ty = ui.ty /\ ui'.late = ui.late
    BY <1>6, <1>0 DEF Finish, Calls, Steps
  <2>3. Typed' /\ Settled'
    BY <2>1, <2>2, <1>0, BesideKeeps, TimersAreTicks DEF Beside, Calls
  <2>4. Version2'
    BY <2>1, <2>2 DEF IInv, Version2, Straight, Using
  <2>5. Transfer'
    BY <2>2 DEF Transfer, WriteOkMeansAccepted, At
  <2> QED BY <2>3, <2>4, <2>5 DEF IInv
<1>7. CASE power_off
  <2>1. /\ UNCHANGED <<Stat, pv, CardType, Timer1, card, inserted>> /\ Timer2' = ReadyTicks
        /\ ui.pc = "powerOff" /\ ui' = [ui EXCEPT !.pc = "load", !.late = 0]
    BY <1>7 DEF power_off, At, Goto
  <2>2. ui' \in Calls /\ ui'.pc = "load" /\ ui'.ty = ui.ty
    BY <2>1, <1>0 DEF Calls, Steps
  <2>3. Typed' /\ Settled'
    BY <2>1, <2>2, <1>0, BesideKeeps, TimersAreTicks, CardsAssumption DEF Beside, Typed, TypeOK
  <2>4. Version2'
    BY <2>1, <2>2 DEF IInv, Version2, Straight, Using
  <2>5. Transfer'
    BY <2>2 DEF Transfer, WriteOkMeansAccepted, At
  <2> QED BY <2>3, <2>4, <2>5 DEF IInv
<1>8. CASE LoadStat
  <2>1. /\ UNCHANGED <<Stat, pv, CardType, Timer1, Timer2, card, inserted>>
        /\ ui.pc = "load" /\ ui' = [ui EXCEPT !.pc = "store", !.stat = Stat]
    BY <1>8 DEF LoadStat, At
  <2>2. ui' \in Calls /\ ui'.pc = "store" /\ ui'.ty = ui.ty /\ ui'.late = ui.late
    BY <2>1, <1>0 DEF Calls, Steps, Typed, TypeOK
  <2>3. Typed' /\ Settled'
    BY <2>1, <2>2, <1>0, BesideKeeps, CardsAssumption DEF Beside, Typed, TypeOK
  <2>4. Version2'
    BY <2>1, <2>2 DEF IInv, Version2, Straight, Using
  <2>5. Transfer'
    BY <2>2 DEF Transfer, WriteOkMeansAccepted, At
  <2> QED BY <2>3, <2>4, <2>5 DEF IInv
<1>9. CASE StoreStat
  <2>1. /\ UNCHANGED <<pv, CardType, Timer1, Timer2, inserted>> /\ ui.pc = "store" /\ ui' = Idle
        /\ Stat' = IF ui.ty = "none" THEN ui.stat \cup {"NOINIT"} ELSE ui.stat \ {"NOINIT"}
        /\ card' = IF card.seen = 3 THEN [card EXCEPT !.seen = 2] ELSE card
    BY <1>9 DEF StoreStat, At
  <2>2. card' \in CardsAndNone /\ card'.id = card.id /\ card'.protected = card.protected
        /\ card'.mode = card.mode /\ card'.seen # 3 /\ card'.seen <= card.seen
        /\ (card.seen < 3 => card'.seen = card.seen)
    BY <2>1, <1>0 DEF CardsAndNone
  <2>3. ui' \in Calls
    <3>1. 0 \in 0..MaxBlocks
      BY CardsAssumption
    <3> QED BY <3>1, <2>1 DEF Idle, Calls, Steps, Flags
  <2>4. Typed'
    BY <2>1, <2>2, <2>3, <1>0 DEF Typed, TypeOK, CardsAndNone, Calls, Flags
  <2>5. Settled'
    BY <2>1, <2>2, <1>0 DEF IInv, Settled, StatSettles, Contacts, CardsAndNone
  <2>6. Transfer'
    BY <2>1 DEF Transfer, WriteOkMeansAccepted, At, Idle
  <2>7. Version2'
    <3>1. ASSUME CardType = "SD2" PROVE card.mode = "ready" \/ (card.id = 0 /\ card.seen <= 1)
      BY <3>1, <2>1, <1>0 DEF IInv, Version2, Straight, Calls, CardsAndNone
    <3> QED BY <3>1, <2>1, <2>2, <1>0 DEF Version2, Using, Straight, Idle, CardsAndNone
  <2> QED BY <2>4, <2>5, <2>6, <2>7 DEF IInv
<1> QED BY <1>1, <1>2, <1>3, <1>4, <1>5, <1>6, <1>7, <1>8, <1>9

(* Where a block leaves the call.                                          *)
LEMMA AfterABlock ==
  ASSUME Typed, Transfer, ui.pc = "block", NEW done, done = After(ui.left - 1)
  PROVE  /\ done \in Calls /\ done.pc \in {"idle", "block", "stop"}
         /\ done.op = ui.op /\ done.count = ui.count /\ done.taken = ui.taken
         /\ done.left = ui.left - 1
         /\ done.pc = "block" => done.left >= 1
         /\ done.pc = "idle" => done.left = 0
<1>1. ui \in Calls /\ ui.left \in 1..MaxBlocks /\ ui.left - 1 \in 0..MaxBlocks
  BY CardsAssumption DEF Typed, Calls, Transfer
<1>2. CASE ui.left - 1 = 0 /\ ui.count = 1
  <2>1. done = [ui EXCEPT !.pc = "idle", !.left = 0, !.ok = 1, !.late = 0]
    BY <1>2 DEF After
  <2>2. done \in Calls
    <3>1. 0 \in 0..MaxBlocks
      BY CardsAssumption
    <3> QED BY <1>1, <2>1, <3>1 DEF Calls, Steps
  <2>3. done.pc = "idle" /\ done.left = 0 /\ done.op = ui.op /\ done.count = ui.count
        /\ done.taken = ui.taken
    BY <1>1, <2>1 DEF Calls
  <2> QED BY <1>2, <2>2, <2>3
<1>3. CASE ~(ui.left - 1 = 0 /\ ui.count = 1)
  <2>1. done = [ui EXCEPT !.pc = IF ui.left - 1 = 0 THEN "stop" ELSE "block",
                          !.left = ui.left - 1, !.late = 0]
    BY <1>3 DEF After
  <2>2. done \in Calls
    BY <1>1, <2>1 DEF Calls, Steps
  <2>3. done.pc = (IF ui.left - 1 = 0 THEN "stop" ELSE "block") /\ done.left = ui.left - 1
        /\ done.op = ui.op /\ done.count = ui.count /\ done.taken = ui.taken
    BY <1>1, <2>1 DEF Calls
  <2> QED BY <1>1, <2>2, <2>3
<1> QED BY <1>2, <1>3

LEMMA TransferIInv ==
  ASSUME IInv, Send \/ ReceiveBlock \/ TransmitBlock \/ Stop \/ Sync
  PROVE  IInv'
<1>0. /\ Typed /\ Transfer /\ ui \in Calls /\ card \in CardsAndNone
      /\ (card.id = 0 => card.mode = "off") /\ Timer1 \in Ticks /\ Timer2 \in Ticks
  BY DEF IInv, Typed, TypeOK, CardsAndNone, Version2
<1>1. CASE Send
  <2>1. PICK answer \in {"ok", "idle", "error"} :
          /\ Command("transfer", answer)
          /\ \/ /\ ui' = [ui EXCEPT !.pc = "block", !.late = 0] /\ Timer2' = ReadyTicks
                /\ Timer1' \in {DataTicks, Timer1}
             \/ /\ ui' = [ui EXCEPT !.pc = "idle", !.ok = 0, !.late = 0]
                /\ UNCHANGED <<Timer1, Timer2>>
    BY <1>1 DEF Send, Goto, Return
  <2>2. UNCHANGED <<Stat, pv, CardType, inserted>> /\ ui.pc = "send"
    BY <1>1 DEF Send, At
  <2>3. card' = card
    BY <2>1, <1>0, CommandKeepsCard
  <2>4. ui' \in Calls /\ ui'.pc \in {"block", "idle"}
    BY <2>1, <1>0 DEF Calls, Steps
  <2>5. Beside
    BY <2>1, <2>2, <2>3, <2>4, <1>0, TimersAreTicks DEF Beside
  <2>6. Transfer'
    <3>1. ui'.op = ui.op /\ ui'.left = ui.left /\ ui'.count = ui.count /\ ui'.taken = ui.taken
          /\ (ui'.pc = "idle" => ui'.ok = 0)
      BY <2>1, <1>0 DEF Calls
    <3> QED BY <3>1, <2>2, <2>4, <1>0 DEF Transfer, WriteOkMeansAccepted, At
  <2> QED BY <2>2, <2>3, <2>4, <2>5, <2>6, UsingIInv DEF Using
<1>2. CASE ReceiveBlock
  <2>1. /\ UNCHANGED <<Stat, pv, CardType, card, inserted>> /\ Timer2' = ReadyTicks
        /\ Timer1' \in {DataTicks, Timer1} /\ ui.pc = "block" /\ ui.op = "read"
        /\ \/ ui' = After(ui.left - 1)
           \/ ui' = [ui EXCEPT !.pc = "idle", !.ok = 0, !.late = 0]
           \/ ui' = [ui EXCEPT !.pc = "stop", !.late = 0]
    BY <1>2 DEF ReceiveBlock, GiveUp, Return, At
  <2>2. /\ ui' \in Calls /\ ui'.pc \in {"idle", "block", "stop"} /\ ui'.op = "read"
        /\ ui'.pc = "block" => ui'.left >= 1 /\ ui'.left <= ui'.count
    <3>1. CASE ui' = After(ui.left - 1)
      BY <3>1, <2>1, <1>0, AfterABlock DEF Transfer, Calls
    <3>2. CASE ui' = [ui EXCEPT !.pc = "idle", !.ok = 0, !.late = 0]
      BY <3>2, <2>1, <1>0 DEF Calls, Steps
    <3>3. CASE ui' = [ui EXCEPT !.pc = "stop", !.late = 0]
      BY <3>3, <2>1, <1>0 DEF Calls, Steps
    <3> QED BY <2>1, <3>1, <3>2, <3>3
  <2>3. Beside
    BY <2>1, <2>2, <1>0, TimersAreTicks DEF Beside
  <2>4. Transfer'
    BY <2>2 DEF Transfer, WriteOkMeansAccepted, At
  <2> QED BY <2>1, <2>2, <2>3, <2>4, UsingIInv DEF Using
<1>3. CASE TransmitBlock
  <2>1. /\ UNCHANGED <<Stat, pv, CardType, Timer1, inserted>> /\ Timer2' = ReadyTicks
        /\ ui.pc = "block" /\ ui.op = "write"
        /\ card' = card \/ card' = [card EXCEPT !.busy = 1]
        /\ \/ ui' = [After(ui.left - 1) EXCEPT !.taken = @ + 1]
           \/ ui' = [ui EXCEPT !.pc = "idle", !.ok = 0, !.late = 0]
           \/ ui' = [ui EXCEPT !.pc = "stop", !.late = 0]
    BY <1>3 DEF TransmitBlock, GiveUp, Return, At
  <2>2. ui' \in Calls /\ ui'.pc \in {"idle", "block", "stop"} /\ Transfer'
    <3>1. CASE ui' = [After(ui.left - 1) EXCEPT !.taken = @ + 1]
      <4>1. ui.taken + 1 \in 0..MaxBlocks /\ ui.taken + 1 + (ui.left - 1) = ui.count
        BY <2>1, <1>0, CardsAssumption DEF Transfer, Calls
      <4>2. /\ ui' \in Calls /\ ui'.taken = ui.taken + 1 /\ ui'.left = ui.left - 1
            /\ ui'.pc = After(ui.left - 1).pc /\ ui'.count = ui.count /\ ui'.op = "write"
        BY <3>1, <4>1, <2>1, <1>0, AfterABlock DEF Calls
      <4>3. ui'.pc \in {"idle", "block", "stop"} /\ (ui'.pc = "block" => ui'.left >= 1)
            /\ (ui'.pc = "idle" => ui'.left = 0)
        <5>1. /\ After(ui.left - 1).pc \in {"idle", "block", "stop"}
              /\ After(ui.left - 1).left = ui.left - 1
              /\ After(ui.left - 1).pc = "block" => After(ui.left - 1).left >= 1
              /\ After(ui.left - 1).pc = "idle" => After(ui.left - 1).left = 0
          BY <2>1, <1>0, AfterABlock
        <5> QED BY <5>1, <4>2
      <4>4. ui.left <= ui.count /\ ui.left \in 0..MaxBlocks /\ ui.count \in 0..MaxBlocks
            /\ ui.taken \in 0..MaxBlocks
        BY <2>1, <1>0 DEF Transfer, Calls
      <4>5. ui'.left <= ui'.count /\ ui'.taken + ui'.left = ui'.count
            /\ (ui'.left = 0 => ui'.taken = ui'.count)
        BY <4>1, <4>2, <4>4, CardsAssumption
      <4> QED BY <4>2, <4>3, <4>5 DEF Transfer, WriteOkMeansAccepted, At
    <3>2. CASE ui' = [ui EXCEPT !.pc = "idle", !.ok = 0, !.late = 0]
      <4>1. ui' \in Calls /\ ui'.pc = "idle" /\ ui'.ok = 0
        BY <3>2, <1>0 DEF Calls, Steps
      <4> QED BY <4>1 DEF Transfer, WriteOkMeansAccepted
    <3>3. CASE ui' = [ui EXCEPT !.pc = "stop", !.late = 0]
      BY <3>3, <2>1, <1>0 DEF Calls, Steps, Transfer, WriteOkMeansAccepted, At
    <3> QED BY <2>1, <3>1, <3>2, <3>3
  <2>3. Beside /\ card'.mode = card.mode
    BY <2>1, <2>2, <1>0, TimersAreTicks DEF Beside, CardsAndNone
  <2> QED BY <2>1, <2>2, <2>3, UsingIInv DEF Using
<1>4. CASE Stop
  <2>1. /\ UNCHANGED <<Stat, pv, CardType, Timer1, Timer2, inserted>> /\ ui.pc = "stop"
        /\ card' = card \/ card' = [card EXCEPT !.busy = 1]
        /\ \/ ui' = [ui EXCEPT !.pc = "idle", !.ok = 1, !.late = 0] /\ ui.left = 0
           \/ ui' = [ui EXCEPT !.pc = "idle", !.ok = 0, !.late = 0]
    BY <1>4 DEF Stop, Return, At
  <2>2. ui' \in Calls /\ ui'.pc = "idle"
    BY <2>1, <1>0 DEF Calls, Steps
  <2>3. Beside /\ card'.mode = card.mode
    BY <2>1, <2>2, <1>0 DEF Beside, CardsAndNone
  <2>4. Transfer'
    <3>1. ui'.op = ui.op /\ ui'.count = ui.count /\ ui'.taken = ui.taken
          /\ (ui'.ok = 1 => ui.left = 0)
      <4>1. CASE ui' = [ui EXCEPT !.pc = "idle", !.ok = 1, !.late = 0] /\ ui.left = 0
        BY <4>1, <1>0 DEF Calls
      <4>2. CASE ui' = [ui EXCEPT !.pc = "idle", !.ok = 0, !.late = 0]
        BY <4>2, <1>0 DEF Calls
      <4> QED BY <2>1, <4>1, <4>2
    <3>2. ui.op = "write" => ui.taken + ui.left = ui.count
      BY <2>1, <1>0 DEF Transfer
    <3>3. ui.taken \in Nat /\ ui.count \in Nat
      BY <1>0, CardsAssumption DEF Calls
    <3> QED BY <3>1, <3>2, <3>3, <2>2 DEF Transfer, WriteOkMeansAccepted, At
  <2> QED BY <2>1, <2>2, <2>3, <2>4, UsingIInv DEF Using
<1>5. CASE Sync
  <2>1. /\ UNCHANGED <<Stat, pv, CardType, Timer1, Timer2, card, inserted>> /\ ui.pc = "sync"
        /\ \/ ui' = [ui EXCEPT !.pc = "idle", !.ok = 1, !.late = 0]
           \/ ui' = [ui EXCEPT !.pc = "idle", !.ok = 0, !.late = 0]
    BY <1>5 DEF Sync, Return, At
  <2>2. ui' \in Calls /\ ui'.pc = "idle" /\ ui'.op = ui.op
    BY <2>1, <1>0 DEF Calls, Steps
  <2>3. Beside
    BY <2>1, <2>2, <1>0 DEF Beside
  <2>4. Transfer'
    BY <2>1, <2>2, <1>0 DEF Transfer, WriteOkMeansAccepted, At
  <2> QED BY <2>1, <2>2, <2>3, <2>4, UsingIInv DEF Using
<1> QED BY <1>1, <1>2, <1>3, <1>4, <1>5

-----------------------------------------------------------------------------
LEMMA NextIInv == IInv /\ [Next]_vars => IInv'
<1> SUFFICES ASSUME IInv, [Next]_vars PROVE IInv'
  OBVIOUS
<1>1. CASE disk_initialize \/ (\E n \in 1..MaxBlocks : disk_read(n) \/ disk_write(n)) \/ disk_ioctl
  BY <1>1, CallIInv
<1>2. CASE Caller
  BY <1>2, InitializeIInv, TransferIInv DEF Caller
<1>3. CASE disk_timerproc
  BY <1>3, TimerIInv
<1>4. CASE Programmed \/ Pull \/ Insert
  BY <1>4, SocketIInv
<1>5. CASE UNCHANGED vars
  BY <1>5 DEF vars, IInv, Typed, TypeOK, Transfer, WriteOkMeansAccepted, Settled, StatSettles,
              Contacts, Version2, At
<1> QED BY <1>1, <1>2, <1>3, <1>4, <1>5 DEF Next

LEMMA Invariance == Spec => []IInv
  BY InitIInv, NextIInv, PTL DEF Spec

(* The state of the driver stays well typed; in particular the counters of *)
(* disk_timerproc stop at 0, and no card accepts more blocks than a write  *)
(* has.                                                                    *)
THEOREM TypeCorrect == Spec => []TypeOK
<1>1. IInv => TypeOK
  BY DEF IInv, Typed
<1> QED BY <1>1, Invariance, PTL

(* disk_write only returns RES_OK when the card has accepted each block,   *)
(* for transfers of any length.                                            *)
THEOREM WriteIsAccepted == Spec => []WriteOkMeansAccepted
<1>1. IInv => WriteOkMeansAccepted
  BY DEF IInv, Transfer
<1> QED BY <1>1, Invariance, PTL

(* Although disk_initialize may write back an old copy of Stat, the timer's *)
(* next sample of an unchanged socket makes its flags right, and they stay *)
(* so until the contacts change or the caller writes Stat again.           *)
THEOREM StatIsSettled == Spec => []StatSettles
<1>1. IInv => StatSettles
  BY DEF IInv, Settled
<1> QED BY <1>1, Invariance, PTL

(* While STA_NOINIT is down after disk_initialize took a card for version  *)
(* 2, the card in the socket has left the idle state, however the cards    *)
(* are exchanged.                                                          *)
THEOREM Version2IsReady == Spec => []NoStaleCard
<1>1. IInv => NoStaleCard
  BY DEF IInv, Version2, NoStaleCard, InitializedMeansReady, At, Using
<1> QED BY <1>1, Invariance, PTL

=============================================================================
