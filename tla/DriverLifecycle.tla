--------------------------- MODULE DriverLifecycle ---------------------------
(***************************************************************************)
(* How the driver comes up and goes down: EmeraldSDHC ("nub" here) probes  *)
(* its card slots and hands their interrupts on, and for each slot I/O Kit *)
(* starts an EmeraldSDHCBlockStorageDevice, on a thread of its own, while  *)
(* further slots are probed.  The pointers a device has set are what the   *)
(* interrupt, the thread call of a card change, start and stop go through; *)
(* nullUses records each use of one that is not set.                       *)
(*                                                                         *)
(* A Bug_X is X with a plausible mistake; nothing here uses it.            *)
(***************************************************************************)
EXTENDS Naturals, Sequences, SequencesExt

CONSTANTS
  MaxSlots,        \* kSDHCMaximumSlotCount
  MemoryCounts,    \* memory ranges the controller may have, one per slot
  Failures,        \* the steps of both start functions that may fail
  MaxEvents        \* bound: card insertions and removals

(* The order in which start of the device sets its pointers ("commands" are*)
(* the elements of initialCommands, "cmdQueue" stands for the descriptors  *)
(* too), registers its interrupt action and initialises the controller.    *)
Bug_StartOrder ==
  <<"cardSlot", "timer", "cmdPool", "initialCommands", "commands", "cmdQueue",
    "syncCommandLock", "cardChangeThread", "interrupt", "controller", "cmdGate">>

StartOrder ==
  <<"cardSlot", "timer", "cmdPool", "initialCommands", "commands", "cmdQueue",
    "syncCommandLock", "cardChangeThread", "interrupt", "cmdGate", "controller">>

NubOrder == <<"workLoop", "intEventSource", "slotCount", "probe">>

ASSUME LifecycleAssumption ==
  /\ MaxSlots \in Nat \ {0} /\ MemoryCounts \subseteq Nat /\ MaxEvents \in Nat
  /\ Failures \subseteq (Range(StartOrder) \cup Range(NubOrder)) \ {"cmdQueue", "interrupt"}

VARIABLES
  nub,         \* where the nub is, its work loop and interrupt, its slots
  dev,         \* where the device of each slot is, and the pointers it has set
  actions,     \* the indexes of _cardSlotActions that are set
  signalled,   \* slots whose controller has its interrupts enabled
  raised,      \* slots whose controller raises an interrupt
  changes,     \* slots whose thread call has been entered, not yet run
  nullUses,    \* uses of pointers that were not set
  events       \* how often a card came or went

vars == <<nub, dev, actions, signalled, raised, changes, nullUses, events>>

SlotId == 1..MaxSlots

Pointer == Range(StartOrder) \ {"interrupt", "controller"}

Phase == {"none", "starting", "running", "failed", "stopped"}

TypeOK ==
  /\ nub \in [pc : Range(NubOrder) \cup {"up", "stopped"}, workLoop : BOOLEAN,
              enabled : BOOLEAN, slotCount : 0..MaxSlots, probed : 0..MaxSlots]
  /\ dev \in [SlotId -> [phase : Phase, step : 1..Len(StartOrder),
                         has : SUBSET Pointer]]
  /\ actions \subseteq 0..MaxSlots - 1
  /\ {signalled, raised, changes} \subseteq SUBSET SlotId
  /\ nullUses \subseteq [pointer : Pointer \cup {"workLoop"}, phase : Phase]
  /\ events \in 0..MaxEvents

Init ==
  /\ nub = [pc |-> "workLoop", workLoop |-> FALSE, enabled |-> FALSE,
            slotCount |-> 0, probed |-> 0]
  /\ dev = [s \in SlotId |-> [phase |-> "none", step |-> 1, has |-> {}]]
  /\ actions = {} /\ signalled = {} /\ raised = {} /\ changes = {}
  /\ nullUses = {} /\ events = 0

------------------------------------------------------------------------------
(* The nub.  stop, also called by a start that fails, gives up the work    *)
(* loop that the devices on its slots share.                               *)
NubStopped == [nub EXCEPT !.pc = "stopped", !.workLoop = FALSE, !.enabled = FALSE]

Bug_SlotCount(ranges) == ranges

SlotCount(ranges) == IF ranges > MaxSlots THEN MaxSlots ELSE ranges

(* Each step of start sets something, or ends start if it fails; a         *)
(* controller without memory ranges has no slots.                          *)
GoOn(step) ==
  CASE step = "workLoop" ->
         nub' = [nub EXCEPT !.pc = "intEventSource", !.workLoop = TRUE]
    [] step = "intEventSource" ->
         nub' = [nub EXCEPT !.pc = "slotCount", !.enabled = TRUE]
    [] step = "slotCount" ->
         \E n \in MemoryCounts :
           nub' = IF n = 0 THEN NubStopped
                  ELSE [nub EXCEPT !.pc = "probe", !.slotCount = SlotCount(n)]

start ==
  /\ nub.pc \in Range(NubOrder) \ {"probe"}
  /\ \/ GoOn(nub.pc)
     \/ nub.pc \in Failures /\ nub' = NubStopped
  /\ UNCHANGED <<dev, actions, signalled, raised, changes, nullUses, events>>

(* One turn of the loop of probeCardSlots: the nub of the slot registers   *)
(* itself, and the device on it is started.  A failure ends start; devices *)
(* on the slots before it are left to themselves.                          *)
probeCardSlots ==
  /\ nub.pc = "probe"
  /\ \/ LET s == nub.probed + 1
        IN /\ dev' = [dev EXCEPT ![s].phase = "starting"]
           /\ nub' = [nub EXCEPT !.probed = s,
                                 !.pc = IF s = nub.slotCount THEN "up" ELSE @]
     \/ "probe" \in Failures /\ nub' = NubStopped /\ UNCHANGED dev
  /\ UNCHANGED <<actions, signalled, raised, changes, nullUses, events>>

(* _cardSlotActions is indexed from 0, slots are numbered from 1.          *)
Bug_ActionIndex(s) == s

ActionIndex(s) == s - 1

------------------------------------------------------------------------------
(* The device.  Uses records which of the pointers it goes through are not *)
(* set, and in which phase of the device of slot s.                        *)
Set(s) == dev[s].has \cup IF nub.workLoop THEN {"workLoop"} ELSE {}

Uses(s, pointers) ==
  nullUses' = nullUses \cup
    {[pointer |-> p, phase |-> dev[s].phase] : p \in pointers \ Set(s)}

(* What a command, and so initCard, goes through.                          *)
CommandPointers ==
  {"cardSlot", "timer", "cmdPool", "initialCommands", "commands", "cmdQueue",
   "syncCommandLock", "cmdGate"}

StepPointers(step) ==
  CASE step \in {"timer", "cmdPool", "cmdGate"} -> {"workLoop"}
    [] step = "commands"   -> {"cmdPool", "initialCommands"}
    [] step = "interrupt"  -> {"cardSlot"}
    [] step = "controller" -> CommandPointers
    [] OTHER               -> {}

(* What stop goes through, and what it leaves set: the timer, still on the *)
(* work loop, the array and the descriptors.  The action stays registered. *)
StopPointers(s) ==
  {"initialCommands"} \cup IF "cmdGate" \in dev[s].has THEN {"workLoop"} ELSE {}

stop(s, phase) ==
  dev' = [dev EXCEPT ![s].phase = phase,
                     ![s].has = @ \cap {"timer", "initialCommands", "cmdQueue"}]

(* One step of start.  The last one has the controller signal interrupts,  *)
(* unless its reset fails.                                                 *)
StartStep(s) ==
  LET step == StartOrder[dev[s].step]
  IN /\ dev[s].phase = "starting"
     /\ Uses(s, StepPointers(step))
     /\ dev' = [dev EXCEPT
          ![s].has = IF step \in Pointer THEN @ \cup {step} ELSE @,
          ![s].phase = IF dev[s].step = Len(StartOrder) THEN "running" ELSE @,
          ![s].step = IF @ = Len(StartOrder) THEN @ ELSE @ + 1]
     /\ actions' = IF step = "interrupt" THEN actions \cup {ActionIndex(s)} ELSE actions
     /\ signalled' = IF step = "controller" THEN signalled \cup {s} ELSE signalled
     /\ UNCHANGED <<nub, raised, changes, events>>

StartFails(s) ==
  /\ dev[s].phase = "starting" /\ StartOrder[dev[s].step] \in Failures
  /\ Uses(s, StopPointers(s)) /\ stop(s, "failed")
  /\ UNCHANGED <<nub, actions, signalled, raised, changes, events>>

------------------------------------------------------------------------------
(* A card comes or goes: the controller raises its interrupt.              *)
CardComesOrGoes(s) ==
  /\ s \in signalled /\ events < MaxEvents
  /\ raised' = raised \cup {s} /\ events' = events + 1
  /\ UNCHANGED <<nub, dev, actions, signalled, changes, nullUses>>

(* The interrupt of the controller goes to the action at index 0, whichever*)
(* slot raised it; that device enters the thread call if the event is its  *)
(* own.  Without an action nothing happens, and the interrupt stays.       *)
handleInterrupt ==
  /\ nub.enabled /\ raised # {}
  /\ 0 \in actions
  /\ Uses(1, {"cardSlot", "timer", "cmdPool", "cmdQueue", "cardChangeThread"})
  /\ changes' = changes \cup (raised \cap {1})
  /\ raised' = raised \ {1}
  /\ UNCHANGED <<nub, dev, actions, signalled, events>>

handleCardChange(s) ==
  /\ s \in changes /\ changes' = changes \ {s}
  /\ Uses(s, CommandPointers)
  /\ UNCHANGED <<nub, dev, actions, signalled, raised, events>>

(* I/O Kit takes the driver down: the devices first, then the nub.         *)
StopDevice(s) ==
  /\ nub.pc = "up" /\ dev[s].phase = "running"
  /\ Uses(s, StopPointers(s)) /\ stop(s, "stopped")
  /\ UNCHANGED <<nub, actions, signalled, raised, changes, events>>

StopNub ==
  /\ nub.pc = "up"
  /\ \A s \in 1..nub.probed : dev[s].phase \in {"failed", "stopped"}
  /\ nub' = NubStopped
  /\ UNCHANGED <<dev, actions, signalled, raised, changes, nullUses, events>>

Next ==
  \/ start \/ probeCardSlots
  \/ \E s \in SlotId : StartStep(s) \/ StartFails(s) \/ CardComesOrGoes(s)
                       \/ handleCardChange(s) \/ StopDevice(s)
  \/ handleInterrupt
  \/ StopNub

(* The work loop runs an interrupt source that is enabled and signalled.   *)
Spec == Init /\ [][Next]_vars /\ WF_vars(handleInterrupt)

------------------------------------------------------------------------------
(* Properties.                                                             *)

(* The nub gave up the work loop, for a slot that could not be probed,     *)
(* after devices had begun to start on the slots before it.                *)
GivenUp == nub.pc = "stopped" /\ nub.probed < nub.slotCount

(* Whatever fails while the driver comes up, and whenever a card comes or  *)
(* goes meanwhile, a pointer that is not set is used in four cases only: by*)
(* the interrupts of a device that was stopped, which are still enabled; by*)
(* those of another slot, handed to the device of the first after that     *)
(* failed to start; by the stop of a start that failed before it had the   *)
(* array of commands; and by a start after the nub gave up the work loop.  *)
PointersAreSet ==
  \A u \in nullUses :
    \/ u.phase = "stopped"
    \/ u.phase = "failed" /\ nub.slotCount > 1
    \/ u = [pointer |-> "initialCommands", phase |-> "starting"]
    \/ u = [pointer |-> "workLoop", phase |-> "starting"] /\ GivenUp

(* A start that fails cleans up after itself: no pointer is used that is   *)
(* not set.  The stop that start calls breaks it.                          *)
NoNullUse == nullUses = {}

(* The controller of a device whose start failed does not signal: its      *)
(* action stays registered, but no interrupt of its own slot, and no card  *)
(* change, is waiting for the device.  Those of other slots still reach it.*)
FailedStartsAreQuiet ==
  \A s \in SlotId : dev[s].phase = "failed" => s \notin signalled \cup raised \cup changes

(* An interrupt of the first slot reaches its device before the driver is  *)
(* taken down, and does not keep the line of the controller asserted.      *)
InterruptsAreServed == 1 \in raised ~> 1 \notin raised \/ nub.pc = "stopped"

(* The same of every slot.  The interrupts of all slots are handed to the  *)
(* device of the first, which breaks it.                                   *)
EveryInterruptIsServed ==
  \A s \in SlotId : s \in raised ~> s \notin raised \/ nub.pc = "stopped"
=============================================================================
