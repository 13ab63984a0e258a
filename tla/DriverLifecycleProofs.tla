------------------------ MODULE DriverLifecycleProofs ------------------------
(***************************************************************************)
(* Theorems about DriverLifecycle, for any number of slots and of card     *)
(* changes, with their proofs.                                             *)
(***************************************************************************)
EXTENDS DriverLifecycle, TLAPS

------------------------------------------------------------------------------
(* The inductive invariant, whatever fails.                                *)

Early == {"workLoop", "intEventSource", "slotCount"}

(* The slots are probed in order, after they have been counted; only the   *)
(* devices on them have done anything.                                     *)
SlotsInOrder ==
  /\ nub.probed <= nub.slotCount
  /\ nub.pc = "probe" => nub.probed < nub.slotCount
  /\ nub.pc \in Early => nub.slotCount = 0 /\ nullUses = {}
  /\ \A s \in SlotId :
       /\ dev[s].phase # "none" => s <= nub.probed
       /\ dev[s].phase = "none" => dev[s].step = 1 /\ dev[s].has = {}

(* The controller of a slot signals interrupts from the last step of the   *)
(* start of its device on.                                                 *)
SignalledAreUp ==
  /\ \A s \in signalled : dev[s].phase \in {"running", "stopped"}
  /\ raised \subseteq signalled /\ changes \subseteq signalled

QuietInv == TypeOK /\ SlotsInOrder /\ SignalledAreUp

------------------------------------------------------------------------------
(* What it takes besides for the pointers to be set.                       *)

(* The devices that are up or coming up have a nub with a work loop, unless*)
(* a further slot could not be probed.                                     *)
WorkLoopIsThere ==
  /\ nub.pc \notin {"workLoop", "stopped"} => nub.workLoop
  /\ \A s \in SlotId :
       dev[s].phase \in {"starting", "running"} => nub.pc \in {"probe", "up"} \/ GivenUp

(* A device has the pointers of the steps that its start has been through, *)
(* and the action of the first slot belongs to a device that registered it.*)
PointersFollowSteps ==
  /\ \A s \in SlotId :
       /\ dev[s].phase = "starting" =>
            dev[s].has = {StartOrder[i] : i \in 1..(dev[s].step - 1)} \cap Pointer
       /\ dev[s].phase = "running" => dev[s].has = Pointer
  /\ 0 \in actions =>
       /\ dev[1].phase # "none"
       /\ dev[1].phase = "starting" => dev[1].step > 9

PointersInv ==
  QuietInv /\ WorkLoopIsThere /\ PointersFollowSteps /\ PointersAreSet

------------------------------------------------------------------------------
(* The orders of start, spelled out.                                       *)
LEMMA Order ==
  /\ Len(StartOrder) = 11
  /\ Range(StartOrder) = {"cardSlot", "timer", "cmdPool", "initialCommands",
       "commands", "cmdQueue", "syncCommandLock", "cardChangeThread", "interrupt",
       "cmdGate", "controller"}
  /\ Pointer = {"cardSlot", "timer", "cmdPool", "initialCommands",
       "commands", "cmdQueue", "syncCommandLock", "cardChangeThread", "cmdGate"}
  /\ Range(NubOrder) = Early \cup {"probe"}
<1>1. DOMAIN StartOrder = 1..11 /\ Len(StartOrder) = 11 /\ DOMAIN NubOrder = 1..4
  BY DEF StartOrder, NubOrder
<1>2. \A i \in 1..11 : i = 1 \/ i = 2 \/ i = 3 \/ i = 4 \/ i = 5 \/ i = 6 \/ i = 7
                       \/ i = 8 \/ i = 9 \/ i = 10 \/ i = 11
  OBVIOUS
<1>3. Range(StartOrder) = {"cardSlot", "timer", "cmdPool", "initialCommands",
       "commands", "cmdQueue", "syncCommandLock", "cardChangeThread", "interrupt",
       "cmdGate", "controller"}
  BY <1>1, <1>2 DEF StartOrder, Range
<1>4. Range(NubOrder) = Early \cup {"probe"}
  BY <1>1 DEF NubOrder, Early, Range
<1> QED BY <1>1, <1>3, <1>4 DEF Pointer

(* What start of the device comes to, step by step.                        *)
LEMMA Steps ==
  /\ StartOrder[1] = "cardSlot"
  /\ StartOrder[2] = "timer"
  /\ StartOrder[3] = "cmdPool"
  /\ StartOrder[4] = "initialCommands"
  /\ StartOrder[5] = "commands"
  /\ StartOrder[6] = "cmdQueue"
  /\ StartOrder[7] = "syncCommandLock"
  /\ StartOrder[8] = "cardChangeThread"
  /\ StartOrder[9] = "interrupt"
  /\ StartOrder[10] = "cmdGate"
  /\ StartOrder[11] = "controller"
  /\ \A i \in 1..11 : i = 1 \/ i = 2 \/ i = 3 \/ i = 4 \/ i = 5 \/ i = 6 \/ i = 7
                       \/ i = 8 \/ i = 9 \/ i = 10 \/ i = 11
BY DEF StartOrder

(* TypeOK with the orders spelled out, in this state and in the next.      *)
Nub == [pc : Early \cup {"probe", "up", "stopped"}, workLoop : BOOLEAN,
        enabled : BOOLEAN, slotCount : 0..MaxSlots, probed : 0..MaxSlots]

Device == [phase : Phase, step : 1..11, has : SUBSET Pointer]

Use == [pointer : Pointer \cup {"workLoop"}, phase : Phase]

TypesSpelledOut ==
  /\ nub \in Nub /\ dev \in [SlotId -> Device]
  /\ actions \subseteq 0..MaxSlots - 1
  /\ signalled \subseteq SlotId /\ raised \subseteq SlotId /\ changes \subseteq SlotId
  /\ nullUses \subseteq Use
  /\ events \in 0..MaxEvents

(* TypeOK, field by field, of this state and of the next.                  *)
LEMMA Types == (TypeOK <=> TypesSpelledOut) /\ (TypeOK' <=> TypesSpelledOut')
<1>1. Len(StartOrder) = 11 /\ Range(NubOrder) = Early \cup {"probe"}
  BY Order
<1>2. Range(NubOrder) \cup {"up", "stopped"} = Early \cup {"probe", "up", "stopped"}
  BY <1>1
<1> QED BY <1>1, <1>2 DEF TypeOK, TypesSpelledOut, Nub, Device, Use

(* Every pointer that a step, a command or a stop goes through is one that *)
(* start sets, or the work loop.                                           *)
LEMMA PointersUsed ==
  /\ CommandPointers \subseteq Pointer
  /\ \A step : StepPointers(step) \subseteq Pointer \cup {"workLoop"}
  /\ \A s : StopPointers(s) \subseteq Pointer \cup {"workLoop"}
BY Order DEF CommandPointers, StepPointers, StopPointers

(* A use keeps the record of uses a record of uses.                        *)
LEMMA UsesType ==
  ASSUME TypeOK, NEW s \in SlotId, NEW P, P \subseteq Pointer \cup {"workLoop"},
         Uses(s, P)
  PROVE  nullUses' \subseteq Use
<1>1. dev[s].phase \in Phase /\ nullUses \subseteq Use
  BY Types DEF TypesSpelledOut, Device
<1> QED BY <1>1 DEF Uses, Use

------------------------------------------------------------------------------
(* Initially nothing has been started.                                     *)
LEMMA InitQuiet == Init => QuietInv
<1> SUFFICES ASSUME Init PROVE QuietInv
  OBVIOUS
<1>1. nub \in Nub /\ dev \in [SlotId -> Device]
  BY LifecycleAssumption DEF Init, Nub, Early, Device, Phase
<1>2. TypeOK
  BY <1>1, Types, LifecycleAssumption DEF Init, TypesSpelledOut
<1> QED BY <1>2 DEF Init, QuietInv, SlotsInOrder, SignalledAreUp, Early

(* The steps of the nub before the slots are probed, when no device is up. *)
LEMMA StartQuiet == QuietInv /\ start => QuietInv'
<1> SUFFICES ASSUME QuietInv, start PROVE QuietInv'
  OBVIOUS
<1>1. /\ nub \in Nub /\ nub.pc \in Early /\ nub.slotCount = 0 /\ nub.probed = 0
      /\ nub' = NubStopped \/ GoOn(nub.pc)
  BY Order, Types DEF start, QuietInv, SlotsInOrder, TypesSpelledOut, Nub, Early
<1>2. \A n \in MemoryCounts : n # 0 => SlotCount(n) \in 1..MaxSlots /\ SlotCount(n) \in 0..MaxSlots
  BY LifecycleAssumption DEF SlotCount
<1>3. /\ nub' \in Nub /\ nub'.probed = 0
      /\ nub'.pc = "probe" => nub'.slotCount > 0
      /\ nub'.pc \in Early => nub'.slotCount = 0
  <2>1. CASE nub' = NubStopped
    <3>1. nub' \in Nub
      BY <1>1, <2>1 DEF NubStopped, Nub, Early
    <3> QED BY <1>1, <2>1, <3>1 DEF NubStopped, Nub, Early
  <2>2. CASE GoOn(nub.pc) /\ nub.pc = "workLoop"
    <3>1. nub' = [nub EXCEPT !.pc = "intEventSource", !.workLoop = TRUE]
      BY <2>2 DEF GoOn
    <3>2. nub' \in Nub
      BY <1>1, <3>1 DEF Nub, Early
    <3> QED BY <1>1, <3>1, <3>2 DEF Nub, Early
  <2>3. CASE GoOn(nub.pc) /\ nub.pc = "intEventSource"
    <3>1. nub' = [nub EXCEPT !.pc = "slotCount", !.enabled = TRUE]
      BY <2>3 DEF GoOn
    <3>2. nub' \in Nub
      BY <1>1, <3>1 DEF Nub, Early
    <3> QED BY <1>1, <3>1, <3>2 DEF Nub, Early
  <2>4. CASE GoOn(nub.pc) /\ nub.pc = "slotCount"
    <3>1. PICK n \in MemoryCounts :
            nub' = IF n = 0 THEN NubStopped
                   ELSE [nub EXCEPT !.pc = "probe", !.slotCount = SlotCount(n)]
      BY <2>4 DEF GoOn
    <3>2. CASE n # 0
      <4>1. nub' = [nub EXCEPT !.pc = "probe", !.slotCount = SlotCount(n)]
        BY <3>1, <3>2
      <4>2. nub' \in Nub
        BY <1>1, <1>2, <3>2, <4>1 DEF Nub
      <4> QED BY <1>1, <1>2, <3>2, <4>1, <4>2 DEF Nub, Early
    <3> QED BY <2>1, <3>1, <3>2
  <2> QED BY <1>1, <2>1, <2>2, <2>3, <2>4 DEF Early
<1>4. TypeOK'
  BY <1>3, Types DEF start, QuietInv, TypesSpelledOut
<1>5. SlotsInOrder'
  BY <1>1, <1>3 DEF start, QuietInv, SlotsInOrder, Early, Nub
<1> QED BY <1>4, <1>5 DEF start, QuietInv, SignalledAreUp

(* A slot is probed: the device on it, until then untouched, starts.       *)
LEMMA ProbeQuiet == QuietInv /\ probeCardSlots => QuietInv'
<1> SUFFICES ASSUME QuietInv, probeCardSlots PROVE QuietInv'
  OBVIOUS
<1>1. nub \in Nub /\ dev \in [SlotId -> Device] /\ nub.pc = "probe"
  BY Types DEF probeCardSlots, QuietInv, TypesSpelledOut
<1>2. CASE nub' = NubStopped /\ UNCHANGED dev
  <2>1. nub' \in Nub
    BY <1>1, <1>2 DEF NubStopped, Nub, Early
  <2>2. TypeOK'
    BY <1>2, <2>1, Types DEF probeCardSlots, QuietInv, TypesSpelledOut
  <2> QED BY <1>1, <1>2, <2>2
      DEF probeCardSlots, NubStopped, QuietInv, SlotsInOrder, SignalledAreUp, Early, Nub
<1>3. CASE ~(nub' = NubStopped /\ UNCHANGED dev)
  <2> DEFINE s == nub.probed + 1
  <2>1. /\ s \in SlotId /\ s \in 0..MaxSlots /\ s <= nub.slotCount /\ s - 1 = nub.probed
        /\ nub.slotCount \in Nat
        /\ dev' = [dev EXCEPT ![s].phase = "starting"]
        /\ nub' = [nub EXCEPT !.probed = s,
                              !.pc = IF s = nub.slotCount THEN "up" ELSE @]
        /\ UNCHANGED <<actions, signalled, raised, changes, nullUses, events>>
    BY <1>1, <1>3, LifecycleAssumption
    DEF probeCardSlots, SlotId, QuietInv, SlotsInOrder, Nub
  <2>2. dev[s].phase = "none"
    BY <2>1 DEF QuietInv, SlotsInOrder
  <2> HIDE DEF s
  <2>3. nub' \in Nub /\ dev' \in [SlotId -> Device]
    <3>1. nub' \in Nub
      BY <1>1, <2>1 DEF Nub
    <3>2. dev' \in [SlotId -> Device]
      BY <1>1, <2>1 DEF Device, Phase
    <3> QED BY <3>1, <3>2
  <2>4. TypeOK'
    BY <2>1, <2>3, Types DEF QuietInv, TypesSpelledOut
  <2>5. /\ nub'.probed = s /\ nub'.slotCount = nub.slotCount
        /\ nub'.pc = IF s = nub.slotCount THEN "up" ELSE "probe"
    BY <1>1, <2>1 DEF Nub
  <2>6. \A d \in SlotId : d # s => dev'[d] = dev[d]
    BY <1>1, <2>1
  <2>7. dev'[s].phase = "starting"
    BY <1>1, <2>1 DEF Device
  <2>8. SlotsInOrder'
    BY <1>1, <2>1, <2>5, <2>6, <2>7 DEF QuietInv, SlotsInOrder, SlotId, Nub, Early
  <2>9. SignalledAreUp'
    BY <2>1, <2>2, <2>6, Types DEF QuietInv, SignalledAreUp, TypesSpelledOut
  <2> QED BY <2>4, <2>8, <2>9 DEF QuietInv
<1> QED BY <1>2, <1>3

(* A step of a device that has begun to start, or the end of one, leaves   *)
(* the slots in order.                                                     *)
LEMMA DeviceQuiet ==
  ASSUME QuietInv, NEW s \in SlotId, dev[s].phase # "none",
         NEW d \in Device, d.phase # "none",
         dev' = [dev EXCEPT ![s] = d],
         nullUses' \subseteq Use, actions' \subseteq 0..MaxSlots - 1,
         signalled' \subseteq signalled \cup {s},
         signalled \subseteq signalled',
         s \in signalled' => d.phase \in {"running", "stopped"},
         UNCHANGED <<nub, raised, changes, events>>
  PROVE  QuietInv'
<1>1. dev \in [SlotId -> Device] /\ nub \in Nub
  BY Types DEF QuietInv, TypesSpelledOut
<1>2. TypeOK'
  BY <1>1, Types DEF QuietInv, TypesSpelledOut
<1>3. SlotsInOrder'
  BY <1>1 DEF QuietInv, SlotsInOrder, SlotId, Nub, Early
<1>4. SignalledAreUp'
  BY <1>1, Types DEF QuietInv, SignalledAreUp, TypesSpelledOut
<1> QED BY <1>2, <1>3, <1>4 DEF QuietInv

(* A step of the start of a device.                                        *)
LEMMA StartStepEffect ==
  ASSUME TypeOK, NEW s \in SlotId, StartStep(s)
  PROVE  LET i    == dev[s].step
             step == StartOrder[i]
             d    == [phase |-> IF i = 11 THEN "running" ELSE "starting",
                      step  |-> IF i = 11 THEN 11 ELSE i + 1,
                      has   |-> IF step \in Pointer THEN dev[s].has \cup {step}
                                ELSE dev[s].has]
         IN /\ i \in 1..11 /\ d \in Device /\ dev' = [dev EXCEPT ![s] = d]
            /\ dev[s].phase = "starting"
            /\ (step = "controller") <=> (i = 11)
            /\ Uses(s, StepPointers(step))
            /\ actions' = IF i = 9 THEN actions \cup {ActionIndex(s)} ELSE actions
            /\ signalled' = IF i = 11 THEN signalled \cup {s} ELSE signalled
            /\ UNCHANGED <<nub, raised, changes, events>>
<1> DEFINE i    == dev[s].step
           step == StartOrder[i]
           d    == [phase |-> IF i = 11 THEN "running" ELSE "starting",
                    step  |-> IF i = 11 THEN 11 ELSE i + 1,
                    has   |-> IF step \in Pointer THEN dev[s].has \cup {step}
                              ELSE dev[s].has]
<1>1. /\ dev \in [SlotId -> Device] /\ i \in 1..11 /\ dev[s].has \subseteq Pointer
      /\ dev[s].phase = "starting"
  BY Types DEF TypesSpelledOut, Device, StartStep
<1>2. /\ Uses(s, StepPointers(step))
      /\ dev' = [dev EXCEPT
           ![s].has = IF step \in Pointer THEN @ \cup {step} ELSE @,
           ![s].phase = IF i = 11 THEN "running" ELSE @,
           ![s].step = IF @ = 11 THEN @ ELSE @ + 1]
      /\ actions' = IF step = "interrupt" THEN actions \cup {ActionIndex(s)} ELSE actions
      /\ signalled' = IF step = "controller" THEN signalled \cup {s} ELSE signalled
      /\ UNCHANGED <<nub, raised, changes, events>>
  BY Order DEF StartStep
<1>3. /\ (step = "controller") <=> (i = 11)
      /\ (step = "interrupt") <=> (i = 9)
  BY <1>1, Steps
<1> HIDE DEF step
<1>4. dev[s] = [phase |-> "starting", step |-> i, has |-> dev[s].has]
  BY <1>1 DEF Device
<1>5. dev' = [dev EXCEPT ![s] = d]
  BY <1>1, <1>2, <1>4 DEF Device
<1>6. d \in Device
  BY <1>1 DEF Device, Phase
<1> HIDE DEF i, d
<1> QED BY <1>1, <1>2, <1>3, <1>5, <1>6 DEF i, d, step

(* A step of start that succeeds leaves a device that is starting or,      *)
(* after the last one, running; one that fails has stopped it.             *)
LEMMA StartStepQuiet ==
  ASSUME QuietInv, NEW s \in SlotId, StartStep(s)
  PROVE  QuietInv'
<1>1. TypeOK
  BY DEF QuietInv
<1>2. ActionIndex(s) \in 0..MaxSlots - 1
  BY LifecycleAssumption DEF ActionIndex, SlotId
<1>3. nullUses' \subseteq Use
  BY <1>1, StartStepEffect, PointersUsed, UsesType
<1>4. actions' \subseteq 0..MaxSlots - 1
  <2>1. actions \subseteq 0..MaxSlots - 1
    BY <1>1, Types DEF TypesSpelledOut
  <2>2. actions' = actions \cup {ActionIndex(s)} \/ actions' = actions
    BY <1>1, StartStepEffect
  <2> QED BY <1>2, <2>1, <2>2
<1>5. s \notin signalled
  BY <1>1, StartStepEffect DEF QuietInv, SignalledAreUp
<1> QED BY <1>1, <1>3, <1>4, <1>5, StartStepEffect, DeviceQuiet

(* A device that stops, or whose start fails.                              *)
LEMMA StopQuiet ==
  ASSUME QuietInv, NEW s \in SlotId, NEW phase \in {"failed", "stopped"},
         dev[s].phase # "none", s \in signalled => phase = "stopped",
         Uses(s, StopPointers(s)), stop(s, phase),
         UNCHANGED <<nub, actions, signalled, raised, changes, events>>
  PROVE  QuietInv'
<1> DEFINE d == [phase |-> phase, step |-> dev[s].step,
                 has |-> dev[s].has \cap {"timer", "initialCommands", "cmdQueue"}]
<1>1. TypeOK /\ dev \in [SlotId -> Device] /\ actions \subseteq 0..MaxSlots - 1
  BY Types DEF QuietInv, TypesSpelledOut
<1>2. dev' = [dev EXCEPT ![s] = d] /\ d \in Device
  <2>1. dev[s] = [phase |-> dev[s].phase, step |-> dev[s].step, has |-> dev[s].has]
        /\ dev[s].step \in 1..11 /\ dev[s].has \subseteq Pointer
    BY <1>1 DEF Device
  <2>2. d \in Device
    BY <2>1 DEF Device, Phase
  <2>3. dev' = [dev EXCEPT ![s] = d]
    <3>1. dev'[s] = d
      BY <1>1, <2>1 DEF stop
    <3>2. dev' = [dev EXCEPT ![s] = dev'[s]]
      BY <1>1 DEF stop
    <3> QED BY <3>1, <3>2
  <2> QED BY <2>2, <2>3
<1>3. nullUses' \subseteq Use
  BY <1>1, PointersUsed, UsesType
<1> QED BY <1>1, <1>2, <1>3, DeviceQuiet

(* An interrupt is handled, by the device of the first slot.               *)
LEMMA InterruptQuiet == QuietInv /\ handleInterrupt => QuietInv'
<1> SUFFICES ASSUME QuietInv, handleInterrupt PROVE QuietInv'
  OBVIOUS
<1>1. TypesSpelledOut /\ TypeOK /\ 1 \in SlotId
  BY Types, LifecycleAssumption DEF QuietInv, SlotId
<1>2. {"cardSlot", "timer", "cmdPool", "cmdQueue", "cardChangeThread"} \subseteq Pointer
  BY Order
<1>3. nullUses' \subseteq Use
  BY <1>1, <1>2, UsesType DEF handleInterrupt
<1>4. nub.pc \notin Early
  <2>1. PICK s \in raised : s \in SlotId /\ dev[s].phase # "none"
    BY <1>1 DEF handleInterrupt, TypesSpelledOut, QuietInv, SignalledAreUp
  <2>2. s >= 1 /\ s <= nub.probed /\ nub.probed <= nub.slotCount /\ nub.slotCount \in Nat
    BY <1>1, <2>1 DEF QuietInv, SlotsInOrder, SlotId, TypesSpelledOut, Nub
  <2> QED BY <2>1, <2>2, <1>1 DEF QuietInv, SlotsInOrder, SlotId, TypesSpelledOut, Nub
<1>5. TypeOK'
  BY <1>1, <1>3, Types DEF handleInterrupt, TypesSpelledOut
<1> QED BY <1>4, <1>5 DEF handleInterrupt, QuietInv, SlotsInOrder, SignalledAreUp

(* So is a card change.                                                    *)
LEMMA CardChangeQuiet ==
  ASSUME QuietInv, NEW s \in SlotId, handleCardChange(s)
  PROVE  QuietInv'
<1>1. TypesSpelledOut /\ TypeOK
  BY Types DEF QuietInv
<1>2. nullUses' \subseteq Use
  BY <1>1, PointersUsed, UsesType DEF handleCardChange
<1>3. dev[s].phase # "none"
  BY DEF handleCardChange, QuietInv, SignalledAreUp
<1>4. nub.pc \notin Early
  <2>1. s >= 1 /\ s <= nub.probed /\ nub.probed <= nub.slotCount /\ nub.slotCount \in Nat
    BY <1>1, <1>3 DEF QuietInv, SlotsInOrder, SlotId, TypesSpelledOut, Nub
  <2> QED BY <2>1, <1>1 DEF QuietInv, SlotsInOrder, SlotId, TypesSpelledOut, Nub
<1>5. TypeOK'
  BY <1>1, <1>2, Types DEF handleCardChange, TypesSpelledOut
<1> QED BY <1>4, <1>5 DEF handleCardChange, QuietInv, SlotsInOrder, SignalledAreUp

(* Every step keeps the invariant.                                         *)
LEMMA StepQuiet == QuietInv /\ [Next]_vars => QuietInv'
<1> SUFFICES ASSUME QuietInv, [Next]_vars PROVE QuietInv'
  OBVIOUS
<1>1. CASE start
  BY <1>1, StartQuiet
<1>2. CASE probeCardSlots
  BY <1>2, ProbeQuiet
<1>3. ASSUME NEW s \in SlotId, StartStep(s) PROVE QuietInv'
  BY <1>3, StartStepQuiet
<1>4. ASSUME NEW s \in SlotId, StartFails(s) PROVE QuietInv'
  BY <1>4, StopQuiet DEF StartFails, QuietInv, SignalledAreUp
<1>5. ASSUME NEW s \in SlotId, CardComesOrGoes(s) PROVE QuietInv'
  <2>1. TypeOK'
    BY <1>5, Types, LifecycleAssumption DEF CardComesOrGoes, QuietInv, TypesSpelledOut
  <2> QED BY <1>5, <2>1 DEF CardComesOrGoes, QuietInv, SlotsInOrder, SignalledAreUp
<1>6. ASSUME NEW s \in SlotId, handleCardChange(s) PROVE QuietInv'
  BY <1>6, CardChangeQuiet
<1>7. ASSUME NEW s \in SlotId, StopDevice(s) PROVE QuietInv'
  BY <1>7, StopQuiet DEF StopDevice
<1>8. CASE handleInterrupt
  BY <1>8, InterruptQuiet
<1>9. CASE StopNub
  <2>1. nub \in Nub /\ nub' = NubStopped
    BY <1>9, Types DEF StopNub, QuietInv, TypesSpelledOut
  <2>2. /\ nub' \in Nub /\ nub'.pc = "stopped"
        /\ nub'.probed = nub.probed /\ nub'.slotCount = nub.slotCount
    BY <2>1 DEF NubStopped, Nub
  <2>3. TypeOK'
    BY <1>9, <2>2, Types DEF StopNub, QuietInv, TypesSpelledOut
  <2> QED BY <1>9, <2>2, <2>3 DEF StopNub, QuietInv, SlotsInOrder, SignalledAreUp, Early
<1>10. CASE UNCHANGED vars
  BY <1>10 DEF vars, QuietInv, TypeOK, SlotsInOrder, SignalledAreUp
<1> QED BY <1>1, <1>2, <1>3, <1>4, <1>5, <1>6, <1>7, <1>8, <1>9, <1>10 DEF Next

(* What is signalled belongs to a device that was started, whatever fails. *)
THEOREM Quiet == Spec => []QuietInv
BY InitQuiet, StepQuiet, PTL DEF Spec

(* The fields of the driver keep their types.                              *)
THEOREM TypeCorrect == Spec => []TypeOK
<1>1. QuietInv => TypeOK
  BY DEF QuietInv
<1> QED BY <1>1, Quiet, PTL

(* The controller of a device whose start failed does not signal, however  *)
(* many slots there are and whatever failed.                               *)
THEOREM FailedStartsStayQuiet == Spec => []FailedStartsAreQuiet
<1>1. QuietInv => FailedStartsAreQuiet
  BY DEF QuietInv, SignalledAreUp, FailedStartsAreQuiet
<1> QED BY <1>1, Quiet, PTL

------------------------------------------------------------------------------
(* What start has set by the time a step of it needs it.                   *)
LEMMA SetBefore ==
  ASSUME NEW i \in 1..11
  PROVE  LET has == {StartOrder[j] : j \in 1..(i - 1)} \cap Pointer
         IN /\ StepPointers(StartOrder[i]) \subseteq has \cup {"workLoop"}
            /\ i > 4 => "initialCommands" \in has
            /\ i > 9 => {"cardSlot", "timer", "cmdPool", "cmdQueue",
                         "cardChangeThread"} \subseteq has
            /\ i = 11 => has = Pointer
            /\ (IF StartOrder[i] \in Pointer THEN has \cup {StartOrder[i]} ELSE has)
                 = {StartOrder[j] : j \in 1..i} \cap Pointer
<1> DEFINE has == {StartOrder[j] : j \in 1..(i - 1)} \cap Pointer
<1>1. \A j \in 1..11 : j < i /\ StartOrder[j] \in Pointer => StartOrder[j] \in has
  OBVIOUS
<1>2. (IF StartOrder[i] \in Pointer THEN has \cup {StartOrder[i]} ELSE has)
        = {StartOrder[j] : j \in 1..i} \cap Pointer
  OBVIOUS
<1>3. has \subseteq Pointer
  OBVIOUS
<1> HIDE DEF has
<1>4. i = 11 => has = Pointer
  <2>1. \A p \in Pointer : \E j \in 1..10 : StartOrder[j] = p
    BY Steps, Order
  <2>2. \A j \in 1..10 : j \in 1..11 /\ j < 11
    OBVIOUS
  <2> QED BY <1>1, <1>3, <2>1, <2>2
<1>5. StepPointers(StartOrder[i]) \subseteq has \cup {"workLoop"}
  BY <1>1, Steps, Order DEF StepPointers, CommandPointers
<1>6. i > 4 => "initialCommands" \in has
  BY <1>1, Steps, Order
<1>7. i > 9 => {"cardSlot", "timer", "cmdPool", "cmdQueue", "cardChangeThread"} \subseteq has
  BY <1>1, Steps, Order
<1> QED BY <1>2, <1>4, <1>5, <1>6, <1>7 DEF has

(* A use of pointers that are set leaves no trace, and one of the four     *)
(* others is one that PointersAreSet has.                                  *)
LEMMA RecordedUses ==
  ASSUME NEW s, NEW P, Uses(s, P),
         PointersAreSet, UNCHANGED nub,
         \/ P \subseteq dev[s].has
         \/ /\ dev[s].phase = "starting"
            /\ P \subseteq dev[s].has \cup {"initialCommands", "workLoop"}
            /\ nub.workLoop \/ GivenUp
         \/ P \subseteq dev[s].has \cup {"workLoop"} /\ nub.workLoop
         \/ dev[s].phase = "stopped"
         \/ dev[s].phase = "failed" /\ nub.slotCount > 1
  PROVE  PointersAreSet'
<1>1. PICK phase : phase = dev[s].phase
  OBVIOUS
<1>2. nullUses' = nullUses \cup {[pointer |-> p, phase |-> phase] : p \in P \ Set(s)}
  BY <1>1 DEF Uses
<1>3. GivenUp' = GivenUp /\ nub' = nub
  BY DEF GivenUp
<1>4. ASSUME NEW p \in P \ Set(s)
      PROVE  \/ phase = "stopped"
             \/ phase = "failed" /\ nub.slotCount > 1
             \/ p = "initialCommands" /\ phase = "starting"
             \/ p = "workLoop" /\ phase = "starting" /\ GivenUp
  BY <1>1 DEF Set
<1> QED BY <1>2, <1>3, <1>4 DEF PointersAreSet

(* No device is there to begin with, and none has pointers to miss.        *)
LEMMA InitPointers == Init => PointersInv
<1> SUFFICES ASSUME Init PROVE PointersInv
  OBVIOUS
<1>1. 1 \in SlotId
  BY LifecycleAssumption DEF SlotId
<1> QED BY <1>1, InitQuiet
    DEF Init, PointersInv, WorkLoopIsThere, PointersFollowSteps, PointersAreSet

(* The work loop comes first, and no device is up until the slots are      *)
(* probed.                                                                 *)
LEMMA StartPointers == PointersInv /\ start => PointersInv'
<1> SUFFICES ASSUME PointersInv, start PROVE PointersInv'
  OBVIOUS
<1>1. QuietInv' /\ nub \in Nub /\ nub.pc \in Early
  BY StartQuiet, Order, Types DEF PointersInv, QuietInv, TypesSpelledOut, start, Early
<1>2. nullUses = {} /\ nullUses' = {} /\ UNCHANGED <<dev, actions>>
  BY <1>1 DEF start, PointersInv, QuietInv, SlotsInOrder
<1>3. \A s \in SlotId : dev[s].phase \notin {"starting", "running"}
  BY <1>1 DEF PointersInv, WorkLoopIsThere, GivenUp, Early
<1>4. nub'.pc \notin {"workLoop", "stopped"} => nub'.workLoop
  <2>1. nub' = NubStopped \/ GoOn(nub.pc)
    BY DEF start
  <2>2. CASE nub' = NubStopped
    BY <1>1, <2>2 DEF NubStopped, Nub
  <2>3. CASE GoOn(nub.pc) /\ nub.pc = "workLoop"
    <3>1. nub' = [nub EXCEPT !.pc = "intEventSource", !.workLoop = TRUE]
      BY <2>3 DEF GoOn
    <3> QED BY <1>1, <3>1 DEF Nub
  <2>4. CASE GoOn(nub.pc) /\ nub.pc = "intEventSource"
    <3>1. nub' = [nub EXCEPT !.pc = "slotCount", !.enabled = TRUE]
      BY <2>4 DEF GoOn
    <3> QED BY <1>1, <2>4, <3>1 DEF Nub, PointersInv, WorkLoopIsThere
  <2>5. CASE GoOn(nub.pc) /\ nub.pc = "slotCount"
    <3>1. PICK n \in MemoryCounts :
            nub' = IF n = 0 THEN NubStopped
                   ELSE [nub EXCEPT !.pc = "probe", !.slotCount = SlotCount(n)]
      BY <2>5 DEF GoOn
    <3>2. CASE n # 0
      BY <1>1, <2>5, <3>1, <3>2 DEF Nub, PointersInv, WorkLoopIsThere
    <3> QED BY <2>2, <3>1, <3>2
  <2> QED BY <1>1, <2>1, <2>2, <2>3, <2>4, <2>5 DEF Early
<1>5. WorkLoopIsThere'
  BY <1>2, <1>3, <1>4 DEF WorkLoopIsThere
<1>6. PointersFollowSteps' /\ PointersAreSet'
  BY <1>2 DEF PointersInv, PointersFollowSteps, PointersAreSet
<1> QED BY <1>1, <1>5, <1>6 DEF PointersInv

(* A device begins to start under a nub that has its work loop, or the nub *)
(* gives that up with a slot left to probe.                                *)
LEMMA ProbePointers ==
  ASSUME PointersInv, probeCardSlots
  PROVE  PointersInv'
<1>1. /\ QuietInv' /\ nub \in Nub /\ dev \in [SlotId -> Device]
      /\ nub.pc = "probe" /\ nub.probed < nub.slotCount
  BY ProbeQuiet, Types
  DEF PointersInv, QuietInv, SlotsInOrder, TypesSpelledOut, probeCardSlots
<1>2. CASE nub' = NubStopped /\ UNCHANGED dev
  <2>1. GivenUp' /\ nub'.pc = "stopped" /\ nub'.slotCount = nub.slotCount
    BY <1>1, <1>2 DEF GivenUp, NubStopped, Nub
  <2>2. WorkLoopIsThere'
    BY <2>1 DEF WorkLoopIsThere
  <2>3. PointersFollowSteps'
    BY <1>2 DEF probeCardSlots, PointersInv, PointersFollowSteps
  <2>4. PointersAreSet'
    BY <1>1, <2>1 DEF probeCardSlots, PointersInv, PointersAreSet, GivenUp
  <2> QED BY <1>1, <2>2, <2>3, <2>4 DEF PointersInv
<1>3. CASE ~(nub' = NubStopped /\ UNCHANGED dev)
  <2> DEFINE s == nub.probed + 1
  <2>2. /\ dev' = [dev EXCEPT ![s].phase = "starting"]
        /\ nub' = [nub EXCEPT !.probed = s,
                              !.pc = IF s = nub.slotCount THEN "up" ELSE @]
        /\ UNCHANGED <<actions, signalled, raised, changes, nullUses, events>>
    BY <1>3 DEF probeCardSlots
  <2>3. s \in SlotId /\ s > nub.probed /\ nub.probed \in Nat
    BY <1>1, LifecycleAssumption DEF SlotId, Nub
  <2>4. dev[s].phase = "none" /\ dev[s].step = 1 /\ dev[s].has = {}
    BY <2>3 DEF PointersInv, QuietInv, SlotsInOrder
  <2> HIDE DEF s
  <2>5. /\ nub'.workLoop /\ nub'.pc \in {"probe", "up"} /\ nub'.slotCount = nub.slotCount
    BY <1>1, <2>2 DEF Nub, PointersInv, WorkLoopIsThere
  <2>6. /\ dev'[s].phase = "starting" /\ dev'[s].step = 1 /\ dev'[s].has = {}
        /\ \A d \in SlotId : d # s => dev'[d] = dev[d]
    BY <1>1, <2>2, <2>3, <2>4 DEF Device
  <2>7. WorkLoopIsThere'
    BY <2>5 DEF WorkLoopIsThere
  <2>8. PointersFollowSteps'
    <3>1. 0 \in actions' => 1 # s
      BY <2>2, <2>4 DEF PointersInv, PointersFollowSteps
    <3>2. 1 \in SlotId
      BY LifecycleAssumption DEF SlotId
    <3>3. {StartOrder[i] : i \in 1..0} = {}
      OBVIOUS
    <3> QED BY <2>2, <2>6, <3>1, <3>2, <3>3 DEF PointersInv, PointersFollowSteps
  <2>9. PointersAreSet'
    BY <1>1, <2>2, <2>5 DEF PointersInv, PointersAreSet, GivenUp
  <2> QED BY <1>1, <2>7, <2>8, <2>9 DEF PointersInv
<1> QED BY <1>2, <1>3

(* A step of start finds what the steps before it have set.                *)
LEMMA StartStepPointers ==
  ASSUME PointersInv, NEW s \in SlotId, StartStep(s)
  PROVE  PointersInv'
<1> DEFINE i    == dev[s].step
           step == StartOrder[i]
           d    == [phase |-> IF i = 11 THEN "running" ELSE "starting",
                    step  |-> IF i = 11 THEN 11 ELSE i + 1,
                    has   |-> IF step \in Pointer THEN dev[s].has \cup {step}
                              ELSE dev[s].has]
<1>1. /\ QuietInv' /\ TypeOK /\ dev \in [SlotId -> Device] /\ 1 \in SlotId
  BY StartStepQuiet, Types, LifecycleAssumption
  DEF PointersInv, QuietInv, TypesSpelledOut, SlotId
<1>2. /\ i \in 1..11 /\ d \in Device /\ dev' = [dev EXCEPT ![s] = d]
      /\ dev[s].phase = "starting"
      /\ Uses(s, StepPointers(step))
      /\ actions' = IF i = 9 THEN actions \cup {ActionIndex(s)} ELSE actions
      /\ UNCHANGED nub
  BY <1>1, StartStepEffect
<1>3. dev[s].has = {StartOrder[j] : j \in 1..(i - 1)} \cap Pointer
  BY <1>2 DEF PointersInv, PointersFollowSteps
<1>4. nub.workLoop \/ GivenUp
  BY <1>2 DEF PointersInv, WorkLoopIsThere
<1>5. PointersAreSet'
  <2>1. StepPointers(step) \subseteq dev[s].has \cup {"initialCommands", "workLoop"}
    BY <1>2, <1>3, SetBefore
  <2> QED BY <1>2, <1>4, <2>1, RecordedUses DEF PointersInv
<1>6. dev'[s] = d /\ \A e \in SlotId : e # s => dev'[e] = dev[e]
  BY <1>1, <1>2
<1>7. WorkLoopIsThere'
  BY <1>2, <1>6 DEF PointersInv, WorkLoopIsThere, GivenUp
<1>8. PointersFollowSteps'
  <2>1. d.phase = "starting" => d.has = {StartOrder[j] : j \in 1..(d.step - 1)} \cap Pointer
    <3>1. CASE i # 11
      <4>1. d.step - 1 = i
        BY <1>2, <3>1
      <4> QED BY <1>2, <1>3, <4>1, SetBefore
    <3> QED BY <3>1
  <2>2. d.phase = "running" => d.has = Pointer
    BY <1>2, <1>3, SetBefore, Steps, Order
  <2>3. d.phase \in {"starting", "running"} /\ (d.phase = "starting" => d.step = i + 1)
    BY <1>2
  <2>4. 0 \in actions' /\ s = 1 /\ d.phase = "starting" => d.step > 9
    BY <1>2, <2>3 DEF PointersInv, PointersFollowSteps
  <2>5. 0 \in actions' /\ s # 1 => 0 \in actions
    BY <1>2 DEF ActionIndex, SlotId
  <2> HIDE DEF d, i, step
  <2> QED BY <1>1, <1>6, <2>1, <2>2, <2>3, <2>4, <2>5 DEF PointersInv, PointersFollowSteps
<1> QED BY <1>1, <1>5, <1>7, <1>8 DEF PointersInv

(* stop finds the array it goes through, unless start failed before it had *)
(* it, and leaves a device that nothing is said of.                        *)
LEMMA StopPointersInv ==
  ASSUME PointersInv, QuietInv', NEW s \in SlotId, NEW phase \in {"failed", "stopped"},
         \/ dev[s].phase = "starting"
         \/ dev[s].phase = "running" /\ nub.pc = "up",
         Uses(s, StopPointers(s)), stop(s, phase), UNCHANGED <<nub, actions>>
  PROVE  PointersInv'
<1>1. dev \in [SlotId -> Device] /\ 1 \in SlotId
  BY Types, LifecycleAssumption DEF PointersInv, QuietInv, TypesSpelledOut, SlotId
<1>2. dev'[s].phase = phase /\ \A e \in SlotId : e # s => dev'[e] = dev[e]
  BY <1>1 DEF stop, Device
<1>3. StopPointers(s) \subseteq {"initialCommands", "workLoop"}
  BY DEF StopPointers
<1>4. PointersAreSet'
  <2>1. CASE dev[s].phase = "starting"
    <3>1. nub.workLoop \/ GivenUp
      BY <2>1 DEF PointersInv, WorkLoopIsThere
    <3> QED BY <1>3, <2>1, <3>1, RecordedUses DEF PointersInv
  <2>2. CASE dev[s].phase = "running" /\ nub.pc = "up"
    <3>1. nub.workLoop /\ "initialCommands" \in dev[s].has
      BY <2>2, Order DEF PointersInv, WorkLoopIsThere, PointersFollowSteps
    <3> QED BY <1>3, <3>1, RecordedUses DEF PointersInv
  <2> QED BY <2>1, <2>2
<1>5. WorkLoopIsThere'
  BY <1>2 DEF PointersInv, WorkLoopIsThere, GivenUp
<1>6. PointersFollowSteps'
  BY <1>1, <1>2 DEF PointersInv, PointersFollowSteps
<1> QED BY <1>4, <1>5, <1>6 DEF PointersInv

(* The interrupt finds a first device that has what it goes through, one   *)
(* that was stopped, or, if another slot raised it, one that failed.       *)
LEMMA InterruptPointers == PointersInv /\ handleInterrupt => PointersInv'
<1> SUFFICES ASSUME PointersInv, handleInterrupt PROVE PointersInv'
  OBVIOUS
<1> DEFINE P == {"cardSlot", "timer", "cmdPool", "cmdQueue", "cardChangeThread"}
<1>1. /\ QuietInv' /\ dev \in [SlotId -> Device] /\ nub \in Nub /\ 1 \in SlotId
      /\ raised \subseteq SlotId
  BY InterruptQuiet, Types, LifecycleAssumption
  DEF PointersInv, QuietInv, TypesSpelledOut, SlotId
<1>2. dev[1].phase \in {"starting", "running", "failed", "stopped"}
  BY <1>1 DEF handleInterrupt, PointersInv, PointersFollowSteps, Device, Phase
<1>3. dev[1].phase = "starting" => P \subseteq dev[1].has
  BY <1>1, SetBefore DEF handleInterrupt, PointersInv, PointersFollowSteps, Device
<1>4. dev[1].phase = "running" => P \subseteq dev[1].has
  BY <1>1, Order DEF PointersInv, PointersFollowSteps
<1>5. dev[1].phase = "failed" => nub.slotCount > 1
  <2> SUFFICES ASSUME dev[1].phase = "failed" PROVE nub.slotCount > 1
    OBVIOUS
  <2>1. PICK s \in raised : dev[s].phase \in {"running", "stopped"}
    BY DEF handleInterrupt, PointersInv, QuietInv, SignalledAreUp
  <2>2. s \in SlotId /\ s # 1
    BY <1>1, <2>1
  <2>3. s <= nub.probed /\ nub.probed <= nub.slotCount
    BY <2>1, <2>2 DEF PointersInv, QuietInv, SlotsInOrder
  <2> QED BY <1>1, <2>2, <2>3, LifecycleAssumption DEF SlotId, Nub
<1>6. PointersAreSet'
  <2>1. Uses(1, P) /\ UNCHANGED nub
    BY DEF handleInterrupt
  <2> HIDE DEF P
  <2> QED BY <1>2, <1>3, <1>4, <1>5, <2>1, RecordedUses DEF PointersInv
<1> QED BY <1>1, <1>6
    DEF handleInterrupt, PointersInv, WorkLoopIsThere, PointersFollowSteps, GivenUp

(* Every step keeps the invariant.                                         *)
LEMMA StepPointersInv ==
  ASSUME PointersInv, [Next]_vars
  PROVE  PointersInv'
<1>1. QuietInv /\ QuietInv' /\ dev \in [SlotId -> Device] /\ nub \in Nub
  BY StepQuiet, Types DEF PointersInv, QuietInv, TypesSpelledOut
<1>2. CASE start
  BY <1>2, StartPointers
<1>3. CASE probeCardSlots
  BY <1>3, ProbePointers
<1>4. ASSUME NEW s \in SlotId, StartStep(s) PROVE PointersInv'
  BY <1>4, StartStepPointers
<1>5. ASSUME NEW s \in SlotId, StartFails(s) PROVE PointersInv'
  BY <1>1, <1>5, StopPointersInv DEF StartFails
<1>6. ASSUME NEW s \in SlotId, CardComesOrGoes(s) PROVE PointersInv'
  BY <1>1, <1>6
  DEF CardComesOrGoes, PointersInv, WorkLoopIsThere, PointersFollowSteps, PointersAreSet,
      GivenUp
<1>7. ASSUME NEW s \in SlotId, handleCardChange(s) PROVE PointersInv'
  <2>1. dev[s].phase = "stopped" \/ CommandPointers \subseteq dev[s].has
    BY <1>7, PointersUsed
    DEF handleCardChange, PointersInv, QuietInv, SignalledAreUp, PointersFollowSteps
  <2>2. PointersAreSet'
    BY <1>7, <2>1, RecordedUses DEF handleCardChange, PointersInv
  <2> QED BY <1>1, <1>7, <2>2
      DEF handleCardChange, PointersInv, WorkLoopIsThere, PointersFollowSteps, GivenUp
<1>8. ASSUME NEW s \in SlotId, StopDevice(s) PROVE PointersInv'
  BY <1>1, <1>8, StopPointersInv DEF StopDevice
<1>9. CASE handleInterrupt
  BY <1>9, InterruptPointers
<1>10. CASE StopNub
  <2>1. nub'.pc = "stopped" /\ nub'.slotCount = nub.slotCount
    BY <1>1, <1>10 DEF StopNub, NubStopped, Nub
  <2>2. \A s \in SlotId : dev[s].phase \notin {"starting", "running"}
    BY <1>1, <1>10 DEF StopNub, QuietInv, SlotsInOrder, SlotId, Nub
  <2> QED BY <1>1, <1>10, <2>1, <2>2
      DEF StopNub, PointersInv, WorkLoopIsThere, PointersFollowSteps, PointersAreSet,
          GivenUp
<1>11. CASE UNCHANGED vars
  BY <1>1, <1>11
  DEF vars, PointersInv, WorkLoopIsThere, PointersFollowSteps, PointersAreSet, GivenUp
<1> QED BY <1>2, <1>3, <1>4, <1>5, <1>6, <1>7, <1>8, <1>9, <1>10, <1>11 DEF Next

(* Whatever fails, and whenever cards come and go, a pointer that is not   *)
(* set is used in the four cases of PointersAreSet only.                   *)
THEOREM PointersStaySet == Spec => []PointersAreSet
<1>1. PointersInv /\ [Next]_vars => PointersInv'
  BY StepPointersInv
<1>2. PointersInv => PointersAreSet
  BY DEF PointersInv
<1> QED BY <1>1, <1>2, InitPointers, PTL DEF Spec
=============================================================================
