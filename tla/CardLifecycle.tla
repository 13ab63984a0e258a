---------------------------- MODULE CardLifecycle ----------------------------
(***************************************************************************)
(* How EmeraldSDHCBlockStorageDevice takes up a card: initCard with        *)
(* resetCard, probeCard and switchMMCSpeed, run by two threads, that of    *)
(* start and setPowerState and that of handleCardChange, while cards come  *)
(* and go and the machine sleeps and wakes.                                *)
(*                                                                         *)
(* A synchronous command and what its caller does with the result is one   *)
(* step of the calling thread; CommandEngine has the inside of a command,  *)
(* and what can go wrong in it is a fault here: it may time out though the *)
(* card could answer, a leftover busy interrupt may end the second of two  *)
(* SWITCH commands, and a command may never return, because the lines stay *)
(* busy or because a flush dropped it.  Nothing in the driver keeps one    *)
(* thread out of initCard while the other is in it; Overlap = FALSE leaves *)
(* those behaviours out.                                                   *)
(*                                                                         *)
(* An operator Bug_X is X with a mistake that its code could well contain; *)
(* nothing here uses it.                                                   *)
(***************************************************************************)
EXTENDS Naturals

CONSTANTS
  Kinds,          \* the cards that may be in the slot, see MMC and SD
  HostTransfer,   \* the best transfer type the capabilities register offers
  Faults,         \* what may go wrong, see Fault
  Overlap,        \* both threads may be taking up a card at the same time
  MaxEvents,      \* bound: card insertions and removals
  MaxSleeps       \* bound: times the machine goes to sleep

(* eMMC has an extended CSD and addresses sectors; MMC3, of specification  *)
(* version 3, has none and addresses bytes.  SD1 knows no SEND_IF_COND.    *)
MMC == {"eMMC", "MMC3"}
SD  == {"SD1", "SD2"}

(* "command", "clock", "reset": it may time out; "busy": a leftover busy    *)
(* interrupt; "hang": a command that never returns; "event": a card change *)
(* that is wiped from the status register before it is handled.            *)
Fault == {"command", "clock", "reset", "busy", "hang", "event"}

ASSUME LifecycleAssumption ==
  /\ Kinds \subseteq MMC \cup SD
  /\ HostTransfer \in {"PIO", "SDMA", "ADMA2"}
  /\ Faults \subseteq Fault /\ Overlap \in BOOLEAN
  /\ MaxEvents \in Nat /\ MaxSleeps \in Nat

VARIABLES
  pc,                   \* where each thread is
  cardType,             \* _cardType
  isCardInserted,       \* _isCardInserted
  isMachineSleeping,    \* _isMachineSleeping
  isCardHighCapacity,   \* _isCardHighCapacity
  hcTransferType,       \* _hcTransferType
  cardCSD,              \* the kind of card _cardCSD was read from
  blockCount,           \* the card _cardBlockCount was read from, 0: none
  media,                \* handleCardChange last told the clients: online
  changePending,        \* _cardChangeThread has been entered, not yet run
  host,                 \* the controller: power, clock, bus and DMA mode
  slot,                 \* the card in the slot and its own state
  events, sleeps        \* how often the bounded actions happened

cardData == <<isCardHighCapacity, hcTransferType, cardCSD, blockCount>>
bounded  == <<changePending, events, sleeps>>
flags    == <<isCardInserted, isMachineSleeping, media>>
vars     == <<pc, cardType, flags, cardData, bounded, host, slot>>

Thread == {"main", "change"}

ResetStep == {"goIdle", "ifCond", "opCond", "goIdleAgain", "mmcOpCond"}
SpeedStep == {"busWidth", "speed", "tune", "extCSDAgain"}
CommandStep == {"cid", "rca", "csd", "extCSD", "blockLength"} \cup ResetStep \cup SpeedStep
Step == {"idle", "reset", "initCard", "powerUp", "hung"} \cup CommandStep

Host == [power  : BOOLEAN,
         clock  : {"off", "init", "standard", "fast"},
         width  : {1, 8},
         timing : {"default", "HS200"},
         dma    : {"SDMA", "ADMA2"}]

(* id tells one insertion from another; 0 is an empty slot.                *)
Slot == [id     : 0..(MaxEvents + 1),
         kind   : Kinds \cup {"none"},
         state  : {"off", "idle", "ready", "ident", "stby"},
         width  : {1, 8},
         timing : {"default", "HS200"}]

HostReset == [power |-> FALSE, clock |-> "off", width |-> 1,
              timing |-> "default", dma |-> "SDMA"]

CardIn(id, kind) == [id |-> id, kind |-> kind, state |-> "off",
                     width |-> 1, timing |-> "default"]

NoCard == CardIn(0, "none")

(* isCardPresent                                                           *)
Present == slot.id # 0

(* The type invariant: every field keeps its type.                         *)
TypeOK ==
  /\ pc \in [Thread -> Step]
  /\ cardType \in {"SD_200", "SD_Legacy", "MMC"}
  /\ {isCardInserted, isMachineSleeping, isCardHighCapacity, media,
      changePending} \subseteq BOOLEAN
  /\ hcTransferType \in {"PIO", "SDMA", "ADMA2"}
  /\ cardCSD \in Kinds \cup {"none"} /\ blockCount \in 0..(MaxEvents + 1)
  /\ host \in Host /\ slot \in Slot
  /\ events \in 0..MaxEvents /\ sleeps \in 0..MaxSleeps

(* start has registered the interrupt handler and reset the controller,    *)
(* and is about to call initCard.                                          *)
Init ==
  /\ pc = [main |-> "initCard", change |-> "idle"]
  /\ cardType = "SD_200" /\ hcTransferType = "SDMA"
  /\ isCardInserted = FALSE /\ isMachineSleeping = FALSE
  /\ isCardHighCapacity = FALSE
  /\ cardCSD = "none" /\ blockCount = 0 /\ media = FALSE
  /\ changePending = FALSE
  /\ host = HostReset
  /\ slot \in {NoCard} \cup {CardIn(1, k) : k \in Kinds}
  /\ events = 0 /\ sleeps = 0

------------------------------------------------------------------------------
(* The card's side of a command.                                           *)

Listens == host.power /\ host.clock # "off" /\ slot.state # "off"

Resets == {"goIdle", "goIdleAgain"}

(* Whether the command of step s completes.  A reset has no response to    *)
(* wait for, but no command leaves the controller without its clock.       *)
Answers(s) ==
  \/ s \in Resets /\ host.clock # "off"
  \/ /\ Listens
     /\ \/ s = "ifCond" /\ slot.kind = "SD2"
        \/ s = "opCond" /\ slot.kind \in SD
        \/ s = "mmcOpCond" /\ slot.kind \in MMC /\ slot.state = "idle"
        \/ s = "cid" /\ slot.state = "ready"
        \/ s = "rca" /\ slot.state = "ident"
        \/ s \in {"csd", "blockLength"} /\ slot.state = "stby"
        \/ /\ s \in {"extCSD"} \cup SpeedStep
           /\ slot.state = "stby" /\ slot.kind = "eMMC"

(* What the command of step s does to a card that takes it.                *)
Taken(s) ==
  IF ~(Listens /\ Answers(s)) THEN slot
  ELSE CASE s \in Resets      -> [CardIn(slot.id, slot.kind) EXCEPT !.state = "idle"]
         [] s = "mmcOpCond" -> [slot EXCEPT !.state = "ready"]
         [] s = "cid"       -> [slot EXCEPT !.state = "ident"]
         [] s = "rca"       -> [slot EXCEPT !.state = "stby"]
         [] s = "busWidth"  -> [slot EXCEPT !.width = 8]
         [] s = "speed"     -> [slot EXCEPT !.timing = "HS200"]
         [] OTHER           -> slot

(* doSyncCommand at step s may return status and leave the card as after.  *)
(* A command that times out may still have reached the card.  A card that  *)
(* leaves, or has been exchanged for another, aborts the command under way.*)
(* The interrupt with which the card ends the busy signal of the first     *)
(* SWITCH may be taken for the answer to the second.                       *)
doSyncCommand(s, status, after) ==
  \/ ~Present /\ status = "NoMedia" /\ after = slot
  \/ Present /\ Answers(s) /\ status = "Success" /\ after = Taken(s)
  \/ /\ Present /\ status = "Timeout" /\ after \in {slot, Taken(s)}
     /\ ~Answers(s) \/ ("command" \in Faults /\ s \notin Resets)
  \/ ~Present /\ status \in {"Aborted", "Timeout"} /\ after = slot
  \/ Present /\ slot.state = "off" /\ status = "Aborted" /\ after = slot
  \/ /\ "busy" \in Faults /\ Present /\ s = "speed" /\ slot.width = 8
     /\ status = "Success" /\ after = slot

Statuses == {"NoMedia", "Success", "Timeout", "Aborted"}

(* The card loses its state with its power.                                *)
Unpowered == IF Present THEN CardIn(slot.id, slot.kind) ELSE slot

------------------------------------------------------------------------------
(* What the functions of the driver have in common.                        *)

isSDCard == cardType # "MMC"

isExtendedCSDSupported(kind) == ~isSDCard /\ kind = "eMMC"

At(t, s) == pc[t] = s

Continue(t, s) == pc' = [pc EXCEPT ![t] = s] /\ UNCHANGED <<isMachineSleeping, media>>

Bug_ReturnOnline(t, result) ==
  /\ pc' = [pc EXCEPT ![t] = "idle"]
  /\ IF t = "change" THEN media' = TRUE /\ UNCHANGED isMachineSleeping
     ELSE UNCHANGED media /\ isMachineSleeping' = FALSE

Bug_ReturnAsleep(t, result) ==
  /\ pc' = [pc EXCEPT ![t] = "idle"]
  /\ IF t = "change" THEN media' = result /\ UNCHANGED isMachineSleeping
     ELSE UNCHANGED media /\ isMachineSleeping' = (isMachineSleeping /\ ~result)

(* initCard returns result: to handleCardChange, which tells the clients,  *)
(* or to start or setPowerState, which ignore it.                          *)
Return(t, result) ==
  /\ pc' = [pc EXCEPT ![t] = "idle"]
  /\ IF t = "change" THEN media' = result /\ UNCHANGED isMachineSleeping
     ELSE UNCHANGED media /\ isMachineSleeping' = FALSE

Bug_PowerOff == host' = host /\ slot' = slot

(* setControllerPower(false), setControllerClock(0)                        *)
PowerOff ==
  /\ host' = [host EXCEPT !.power = FALSE, !.clock = "off"]
  /\ slot' = Unpowered

(* The controller after setControllerClock, whose result only the call at  *)
(* power-up looks at.                                                      *)
ClockSet(h, speed) ==
  {[h EXCEPT !.clock = speed]}
    \cup IF "clock" \in Faults THEN {[h EXCEPT !.clock = "off"]} ELSE {}

(* resetCard or probeCard returned false.                                  *)
GiveUp(t) ==
  /\ PowerOff
  /\ isCardInserted' = FALSE
  /\ Return(t, FALSE)

------------------------------------------------------------------------------
(* Taking up a card, step by step.                                         *)

Bug_initController(t) ==
  /\ At(t, "reset")
  /\ host' = [host EXCEPT !.power = FALSE, !.clock = "off"] /\ slot' = Unpowered
  /\ Continue(t, "initCard")
  /\ UNCHANGED <<cardType, isCardInserted, cardData, bounded>>

(* initController resets the whole controller, which takes the power from  *)
(* the card.  If that times out, setPowerState goes on all the same, while *)
(* handleCardChange gives up.                                              *)
initController(t) ==
  /\ At(t, "reset")
  /\ \/ /\ host' = HostReset /\ slot' = Unpowered
        /\ Continue(t, "initCard")
     \/ /\ "reset" \in Faults /\ UNCHANGED <<host, slot>>
        /\ Continue(t, IF t = "change" THEN "idle" ELSE "initCard")
  /\ UNCHANGED <<cardType, isCardInserted, cardData, bounded>>

Bug_Inserted == TRUE

Inserted == Present

initCard(t) ==
  /\ At(t, "initCard")
  /\ isCardInserted' = Inserted
  /\ IF Present THEN Continue(t, "powerUp") ELSE Return(t, FALSE)
  /\ UNCHANGED <<cardType, cardData, bounded, host, slot>>

(* The initialisation clock, then the power are switched on, unless there  *)
(* is no card any more; the card starts anew, and resetCard takes it for a *)
(* version 2 SD card.                                                      *)
powerUp(t) ==
  /\ At(t, "powerUp")
  /\ \/ /\ host' = [host EXCEPT !.clock = "init", !.power = Present]
        /\ slot' = IF Present THEN [Unpowered EXCEPT !.state = "idle"] ELSE slot
        /\ cardType' = "SD_200"
        /\ Continue(t, "goIdle")
     \/ /\ "clock" \in Faults
        /\ host' = [host EXCEPT !.clock = "off"]
        /\ UNCHANGED <<slot, cardType>>
        /\ Return(t, FALSE)
  /\ UNCHANGED <<isCardInserted, cardData, bounded>>

(* Silence tells the kinds of card apart: no answer to SEND_IF_COND is a   *)
(* legacy SD card or MMC, none to SEND_OP_COND an MMC.                     *)
TypeAfter(s, status) ==
  CASE status # "Timeout" -> cardType
    [] status = "Timeout" /\ s = "ifCond" -> "SD_Legacy"
    [] status = "Timeout" /\ s = "opCond" /\ cardType = "SD_Legacy" -> "MMC"
    [] OTHER -> cardType

NextReset ==
  [goIdle |-> "ifCond", ifCond |-> "opCond", opCond |-> "goIdleAgain",
   goIdleAgain |-> "mmcOpCond", mmcOpCond |-> "cid"]

(* An SD card answers SEND_OP_COND and is given up as unsupported.         *)
GoesOn(s, status) ==
  \/ status = "Success" /\ s # "opCond"
  \/ status = "Timeout" /\ s = "ifCond"
  \/ status = "Timeout" /\ s = "opCond" /\ cardType = "SD_Legacy"

(* resetCard.  Asking again a card that is still busy is part of the step. *)
resetCard(t) ==
  \E s \in ResetStep, status \in Statuses, after \in {slot} \cup {Taken(pc[t])} :
    /\ At(t, s) /\ doSyncCommand(s, status, after)
    /\ cardType' = TypeAfter(s, status)
    /\ IF GoesOn(s, status)
       THEN /\ Continue(t, NextReset[s]) /\ slot' = after
            /\ UNCHANGED <<host, isCardInserted>>
       ELSE GiveUp(t)
    /\ UNCHANGED <<cardData, bounded>>

(* probeCard: the card identifies itself, and is given its address, whether*)
(* or not it takes it.                                                     *)
probeCard(t) ==
  \E s \in {"cid", "rca"}, status \in Statuses, after \in {slot, Taken(pc[t])} :
    /\ At(t, s) /\ doSyncCommand(s, status, after)
    /\ IF s = "cid" /\ status # "Success" THEN GiveUp(t)
       ELSE /\ Continue(t, IF s = "cid" THEN "rca" ELSE "csd") /\ slot' = after
            /\ UNCHANGED <<host, isCardInserted>>
    /\ UNCHANGED <<cardType, cardData, bounded>>

(* probeCard is through: initCard sets the clock of standard speed.        *)
Probed(t) ==
  /\ Continue(t, "blockLength")
  /\ host' \in ClockSet(host, "standard")
  /\ UNCHANGED <<slot, isCardInserted>>

(* parseCSD, and whether the card has an extended CSD to be read.          *)
parseCSD(t) ==
  \E status \in Statuses :
    /\ At(t, "csd") /\ doSyncCommand("csd", status, slot)
    /\ IF status # "Success" THEN GiveUp(t) /\ UNCHANGED <<cardCSD, blockCount>>
       ELSE /\ cardCSD' = slot.kind /\ blockCount' = slot.id
            /\ IF isExtendedCSDSupported(slot.kind)
               THEN Continue(t, "extCSD") /\ UNCHANGED <<host, slot, isCardInserted>>
               ELSE Probed(t)
    /\ UNCHANGED <<cardType, isCardHighCapacity, hcTransferType, bounded>>

(* _isCardHighCapacity and _cardBlockCount after reading the extended CSD. *)
ExtendedCSDRead(status) ==
  IF status = "Success"
  THEN isCardHighCapacity' = TRUE /\ blockCount' = slot.id
  ELSE UNCHANGED <<isCardHighCapacity, blockCount>>

(* parseMMCExtendedCSD, called by probeCard.                               *)
parseMMCExtendedCSD(t) ==
  \E status \in Statuses :
    /\ At(t, "extCSD") /\ doSyncCommand("extCSD", status, slot)
    /\ ExtendedCSDRead(status)
    /\ IF status = "Success" THEN Probed(t) ELSE GiveUp(t)
    /\ UNCHANGED <<cardType, hcTransferType, cardCSD, bounded>>

(* SET_BLOCKLEN.  On failure the card is switched off, but _isCardInserted *)
(* stays.                                                                  *)
setBlockLength(t) ==
  \E status \in Statuses :
    /\ At(t, "blockLength") /\ doSyncCommand("blockLength", status, slot)
    /\ IF status # "Success" THEN PowerOff /\ Return(t, FALSE)
       ELSE /\ UNCHANGED <<host, slot>>
            /\ IF isExtendedCSDSupported(cardCSD) THEN Continue(t, "busWidth")
               ELSE Return(t, TRUE)
    /\ UNCHANGED <<cardType, isCardInserted, cardData, bounded>>

(* setCardBusWidth: the controller follows only a card that has switched.  *)
setCardBusWidth(t) ==
  \E status \in Statuses, after \in {slot, Taken("busWidth")} :
    /\ At(t, "busWidth") /\ doSyncCommand("busWidth", status, after)
    /\ slot' = after
    /\ host' = IF status = "Success" THEN [host EXCEPT !.width = 8] ELSE host
    /\ Continue(t, "speed")
    /\ UNCHANGED <<cardType, isCardInserted, cardData, bounded>>

(* setMMCSpeed, and the clock of HS200 whether or not it succeeded.        *)
setMMCSpeed(t) ==
  \E status \in Statuses, after \in {slot, Taken("speed")} :
    /\ At(t, "speed") /\ doSyncCommand("speed", status, after)
    /\ slot' = after
    /\ host' \in ClockSet(IF status = "Success" THEN [host EXCEPT !.timing = "HS200"]
                          ELSE host, "fast")
    /\ Continue(t, "tune")
    /\ UNCHANGED <<cardType, isCardInserted, cardData, bounded>>

Bug_DMAMode(type) == type

(* setControllerDMAMode(type)                                              *)
DMAMode(type) == IF type = "ADMA2" THEN "ADMA2" ELSE "SDMA"

(* tuneCard, whose result is ignored, and the choice of the DMA mode.      *)
tuneCard(t) ==
  \E status \in Statuses :
    /\ At(t, "tune") /\ doSyncCommand("tune", status, slot)
    /\ hcTransferType' = HostTransfer
    /\ host' = [host EXCEPT !.dma = DMAMode(HostTransfer)]
    /\ Continue(t, "extCSDAgain")
    /\ UNCHANGED <<cardType, isCardInserted, isCardHighCapacity, cardCSD,
                   blockCount, bounded, slot>>

(* The last step of switchMMCSpeed reads the extended CSD again; initCard  *)
(* returns true whether or not that succeeds.                              *)
switchMMCSpeedEnd(t) ==
  \E status \in Statuses :
    /\ At(t, "extCSDAgain") /\ doSyncCommand("extCSDAgain", status, slot)
    /\ ExtendedCSDRead(status)
    /\ Return(t, TRUE)
    /\ UNCHANGED <<cardType, isCardInserted, hcTransferType, cardCSD, bounded,
                   host, slot>>

(* doSyncCommand does not return.                                          *)
Hangs(t) ==
  /\ "hang" \in Faults /\ pc[t] \in CommandStep
  /\ Continue(t, "hung")
  /\ UNCHANGED <<cardType, isCardInserted, cardData, bounded, host, slot>>

Takes(t) ==
  \/ Hangs(t)
  \/ initController(t) \/ initCard(t) \/ powerUp(t) \/ resetCard(t) \/ probeCard(t)
  \/ parseCSD(t) \/ parseMMCExtendedCSD(t) \/ setBlockLength(t)
  \/ setCardBusWidth(t) \/ setMMCSpeed(t) \/ tuneCard(t) \/ switchMMCSpeedEnd(t)

------------------------------------------------------------------------------
(* What sets the threads going.                                            *)

(* The other thread is not taking up a card, or never goes on with it.     *)
OutOf(t) == pc[t] \in {"idle", "hung"}

(* The thread call runs handleCardChange, which does nothing if the card   *)
(* is there or not as before.                                              *)
handleCardChange ==
  /\ changePending /\ At("change", "idle")
  /\ Overlap \/ OutOf("main")
  /\ changePending' = FALSE
  /\ Continue("change", IF Present = isCardInserted THEN "idle" ELSE "reset")
  /\ UNCHANGED <<cardType, isCardInserted, cardData, host, slot, events, sleeps>>

(* setPowerState, case 0.                                                  *)
Sleep ==
  /\ At("main", "idle") /\ ~isMachineSleeping
  /\ sleeps < MaxSleeps /\ sleeps' = sleeps + 1
  /\ isMachineSleeping' = TRUE
  /\ UNCHANGED <<pc, cardType, isCardInserted, media, cardData, changePending,
                 events, host, slot>>

Bug_Wake ==
  /\ At("main", "idle") /\ isMachineSleeping
  /\ Return("main", TRUE)
  /\ host' = HostReset /\ slot' = Unpowered
  /\ UNCHANGED <<cardType, isCardInserted, cardData, bounded>>

(* setPowerState, case 1.  The controller may have lost its power.         *)
Wake ==
  /\ At("main", "idle") /\ isMachineSleeping
  /\ Overlap \/ OutOf("change")
  /\ Continue("main", "reset")
  /\ \/ UNCHANGED <<host, slot>>
     \/ host' = HostReset /\ slot' = Unpowered
  /\ UNCHANGED <<cardType, isCardInserted, cardData, bounded>>

(* The interrupt of a card change enters the thread call; one that comes   *)
(* while the machine sleeps, until the controller is reset, may be lost.   *)
Unheard == isMachineSleeping /\ pc["main"] \in {"idle", "reset"}

(* sendAsyncCommand, for a command of initCard or for the reads and writes *)
(* of the clients, wipes the status register before the interrupt is       *)
(* handled.                                                                *)
Wiped ==
  /\ "event" \in Faults
  /\ isCardInserted \/ \E t \in Thread : pc[t] \in CommandStep

Noticed ==
  /\ events < MaxEvents /\ events' = events + 1
  /\ changePending' = TRUE \/ ((Unheard \/ Wiped) /\ UNCHANGED changePending)
  /\ UNCHANGED <<pc, cardType, flags, cardData, sleeps>>

Insert ==
  /\ ~Present
  /\ \E kind \in Kinds : slot' = CardIn(events + 2, kind)
  /\ Noticed /\ UNCHANGED host

(* The controller switches power and clock off when the card leaves.       *)
Remove ==
  /\ Present
  /\ slot' = NoCard
  /\ host' = [host EXCEPT !.power = FALSE, !.clock = "off"]
  /\ Noticed

Next ==
  \/ \E t \in Thread : Takes(t)
  \/ handleCardChange
  \/ Sleep \/ Wake \/ Insert \/ Remove

(* A thread in initCard goes on, every command ends, with an answer, with  *)
(* the timeout or in a hang, and the thread call is run.  The loops of     *)
(* resetCard on a busy card and of tuneCard have no bound: the card is     *)
(* assumed to get ready, and the controller to end its tuning.  Nothing    *)
(* makes the machine sleep or wake, or a card come or go.                  *)
Fairness ==
  /\ \A t \in Thread : WF_vars(Takes(t))
  /\ WF_vars(handleCardChange)

Spec == Init /\ [][Next]_vars /\ Fairness

------------------------------------------------------------------------------
(* Properties.                                                             *)

(* Nothing is going on and no card change waits to be handled.             *)
Settled ==
  pc = [t \in Thread |-> "idle"] /\ ~changePending /\ ~isMachineSleeping

(* While the driver holds no card for inserted, the slot has neither power *)
(* nor clock: every way out of a failed initCard switches both off.  A wake*)
(* whose reset times out may leave the clock, never the power, to a slot   *)
(* that is empty by then.                                                  *)
OffWhenOut ==
  Settled /\ ~isCardInserted =>
    ~host.power /\ (sleeps = 0 => host.clock = "off")

(* The clients are not left believing in a card that the driver gave up:   *)
(* whatever initCard leaves behind, handleCardChange has told them, and a  *)
(* card they were told of has been probed and is powered and takes         *)
(* transfers, unless it was exchanged unseen; a card that SET_BLOCKLEN     *)
(* failed on, which stays marked as inserted, is not online.  What a wake  *)
(* finds is not told to anybody.                                           *)
OnlineIsIn ==
  Settled /\ sleeps = 0 /\ media =>
    /\ isCardInserted /\ blockCount # 0
    /\ blockCount = slot.id => host.power /\ slot.state = "stby"

(* The controller never uses a bus width or timing that the card in use    *)
(* has not been switched to, also after a wake, when the card starts over  *)
(* with one line and default timing.                                       *)
HostNeverAhead ==
  Present /\ slot.state # "off" =>
    /\ host.width = 8 => slot.width = 8
    /\ host.timing = "HS200" => slot.timing = "HS200"

(* The driver has probed the card that it holds for inserted: the capacity *)
(* it reports to the clients is that of the card in the slot.              *)
KnowsTheCard == Settled /\ isCardInserted => blockCount = slot.id

(* A card that was probed and is held for inserted is powered and takes    *)
(* transfers, also after sleeps and card changes during its initialisation;*)
(* an eMMC is addressed in sectors, and its transfers are prepared for the *)
(* DMA mode that the controller is in.                                     *)
UsableWhenIn ==
  Settled /\ isCardInserted /\ blockCount = slot.id =>
    /\ slot.state = "stby" /\ host.power
    /\ slot.kind = "eMMC" =>
         /\ isCardHighCapacity
         /\ hcTransferType = "ADMA2" <=> host.dma = "ADMA2"

(* A wake that has begun ends and releases the reads and writes that wait  *)
(* in doAsyncReadWrite, whatever card it finds and whichever of its steps  *)
(* fail, unless one of its commands never returns.                         *)
WakeEnds == (pc["main"] = "reset") ~> ~isMachineSleeping \/ At("main", "hung")

(* Once the slot is left alone, _isCardInserted ends up telling whether a  *)
(* card is there, however changes, sleep and initialisation interleave.    *)
(* This takes more than the driver does: the two threads must take turns,  *)
(* and no command may wipe the interrupt of a card change.                 *)
FlagFollowsSlot == <>[](~isMachineSleeping => (isCardInserted <=> Present))
=============================================================================
