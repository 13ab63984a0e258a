------------------------- MODULE CardLifecycleProofs -------------------------
(***************************************************************************)
(* Theorems about CardLifecycle, for any set of cards, any number of card  *)
(* changes and sleeps and any choice of faults, with their proofs.         *)
(***************************************************************************)
EXTENDS CardLifecycle, TLAPS

------------------------------------------------------------------------------
(* The inductive invariant.  Overlap = FALSE makes the threads take turns; *)
(* what is said of a card that is being taken up rests on it.              *)

TakeTurns == OutOf("main") \/ OutOf("change")

(* Insertions are numbered in the order they come, and an empty slot is off*)
Numbered ==
  /\ slot.id <= events + 1 /\ blockCount <= events + 1
  /\ ~Present => slot = NoCard
  /\ host.power => Present

WakesFollowSleeps ==
  /\ isMachineSleeping => sleeps > 0
  /\ pc["main"] = "reset" => isMachineSleeping
  /\ ~OutOf("main") /\ sleeps = 0 => ~media

Begun      == {"idle", "hung", "reset", "initCard"}
Identified == {"extCSD", "blockLength"} \cup SpeedStep
AsMMC      == {"goIdleAgain", "mmcOpCond", "cid", "rca", "csd"} \cup Identified

(* From the time its CSD was read on, the card is the one that was probed  *)
(* and takes transfers, or another one that was not powered yet.           *)
ProbedCard ==
  /\ blockCount # 0
  /\ slot.state # "off" => slot.id = blockCount
  /\ slot.id = blockCount =>
       /\ slot.state = "stby" /\ host.power /\ slot.kind = cardCSD
       /\ "clock" \notin Faults => host.clock # "off"

Probing ==
  \A t \in Thread :
    /\ pc[t] \notin Begun => isCardInserted
    /\ pc[t] \in AsMMC => cardType = "MMC"
    /\ pc[t] \in Identified => ProbedCard

Unused == ~host.power /\ (sleeps = 0 => host.clock = "off")

Off ==
  /\ (\A t \in Thread : pc[t] \in {"idle", "reset"}) /\ ~isCardInserted => Unused
  /\ \A t \in Thread : pc[t] = "initCard" /\ sleeps = 0 => host.clock = "off"

Online ==
  sleeps = 0 /\ media /\ pc["change"] \in {"idle", "reset"} =>
    /\ isCardInserted /\ blockCount # 0
    /\ blockCount = slot.id => host.power /\ slot.state = "stby"

TurnsInv ==
  /\ TypeOK /\ TakeTurns /\ Numbered /\ WakesFollowSleeps
  /\ Probing /\ Off /\ Online

------------------------------------------------------------------------------
(* Types.  They hold also when the threads do not take turns.              *)

(* The card's side keeps its type.                                         *)
LEMMA SlotTyped ==
  ASSUME slot \in Slot
  PROVE  /\ Unpowered \in Slot
         /\ [Unpowered EXCEPT !.state = "idle"] \in Slot
         /\ \A s : Taken(s) \in Slot
<1>1. Unpowered \in Slot
  BY DEF Unpowered, CardIn, Slot
<1>2. [Unpowered EXCEPT !.state = "idle"] \in Slot
  BY <1>1 DEF Slot
<1>3. ASSUME NEW s PROVE Taken(s) \in Slot
  <2>1. [CardIn(slot.id, slot.kind) EXCEPT !.state = "idle"] \in Slot
    BY DEF CardIn, Slot
  <2>2. /\ \A x \in {"ready", "ident", "stby"} : [slot EXCEPT !.state = x] \in Slot
        /\ [slot EXCEPT !.width = 8] \in Slot /\ [slot EXCEPT !.timing = "HS200"] \in Slot
    BY DEF Slot
  <2> QED BY <2>1, <2>2 DEF Taken
<1> QED BY <1>1, <1>2, <1>3

(* So does the controller's.                                               *)
LEMMA HostTyped ==
  ASSUME NEW h \in Host
  PROVE  /\ HostReset \in Host
         /\ \A p \in BOOLEAN, c \in {"off", "init", "standard", "fast"} :
              /\ [h EXCEPT !.clock = c] \in Host
              /\ [h EXCEPT !.power = p, !.clock = c] \in Host
              /\ [h EXCEPT !.clock = c, !.power = p] \in Host
         /\ [h EXCEPT !.width = 8] \in Host /\ [h EXCEPT !.timing = "HS200"] \in Host
         /\ [h EXCEPT !.dma = "SDMA"] \in Host /\ [h EXCEPT !.dma = "ADMA2"] \in Host
         /\ \A c \in {"standard", "fast"} : ClockSet(h, c) \subseteq Host
<1>1. HostReset \in Host
  BY DEF HostReset, Host
<1>2. \A p \in BOOLEAN, c \in {"off", "init", "standard", "fast"} :
        /\ [h EXCEPT !.clock = c] \in Host
        /\ [h EXCEPT !.power = p, !.clock = c] \in Host
        /\ [h EXCEPT !.clock = c, !.power = p] \in Host
  BY DEF Host
<1>3. /\ [h EXCEPT !.width = 8] \in Host /\ [h EXCEPT !.timing = "HS200"] \in Host
      /\ [h EXCEPT !.dma = "SDMA"] \in Host /\ [h EXCEPT !.dma = "ADMA2"] \in Host
  BY DEF Host
<1>4. \A c \in {"standard", "fast"} : ClockSet(h, c) \subseteq Host
  BY <1>2 DEF ClockSet
<1> QED BY <1>1, <1>2, <1>3, <1>4

(* And the thread, what it returns and what it gives up.                   *)
LEMMA ControlTyped ==
  ASSUME TypeOK, NEW t \in Thread
  PROVE  /\ \A x \in Step : Continue(t, x) =>
              /\ pc' \in [Thread -> Step] /\ {isMachineSleeping, media}' \subseteq BOOLEAN
         /\ \A b \in BOOLEAN : Return(t, b) =>
              /\ pc' \in [Thread -> Step] /\ {isMachineSleeping, media}' \subseteq BOOLEAN
         /\ PowerOff => host' \in Host /\ slot' \in Slot
         /\ GiveUp(t) =>
              /\ pc' \in [Thread -> Step] /\ host' \in Host /\ slot' \in Slot
              /\ {isCardInserted, isMachineSleeping, media}' \subseteq BOOLEAN
<1>1. "idle" \in Step
  BY DEF Step, CommandStep
<1>2. \A x \in Step : Continue(t, x) =>
        /\ pc' \in [Thread -> Step] /\ {isMachineSleeping, media}' \subseteq BOOLEAN
  BY DEF TypeOK, Continue
<1>3. \A b \in BOOLEAN : Return(t, b) =>
        /\ pc' \in [Thread -> Step] /\ {isMachineSleeping, media}' \subseteq BOOLEAN
  BY <1>1 DEF TypeOK, Return
<1>4. PowerOff => host' \in Host /\ slot' \in Slot
  BY HostTyped, SlotTyped DEF TypeOK, PowerOff
<1> QED BY <1>2, <1>3, <1>4 DEF GiveUp

(* Every step of a thread that takes up a card keeps the types.            *)
LEMMA TakesTyped ==
  ASSUME TypeOK, NEW t \in Thread, Takes(t)
  PROVE  TypeOK'
<1>1. /\ pc \in [Thread -> Step] /\ host \in Host /\ slot \in Slot
      /\ {isCardInserted, isMachineSleeping, isCardHighCapacity, media,
          changePending} \subseteq BOOLEAN
      /\ cardType \in {"SD_200", "SD_Legacy", "MMC"}
      /\ hcTransferType \in {"PIO", "SDMA", "ADMA2"}
      /\ slot.kind \in Kinds \cup {"none"} /\ slot.id \in 0..(MaxEvents + 1)
  BY DEF TypeOK, Slot
<1>2. /\ {"idle", "reset", "initCard", "powerUp", "cid", "rca", "csd", "extCSD",
           "blockLength", "busWidth", "speed", "tune", "extCSDAgain", "goIdle"} \subseteq Step
      /\ \A s \in ResetStep : NextReset[s] \in Step
  BY DEF Step, CommandStep, ResetStep, SpeedStep, NextReset
<1>3. CASE initController(t)
  BY <1>1, <1>2, <1>3, HostTyped, SlotTyped, ControlTyped
  DEF initController, TypeOK, cardData, bounded
<1>4. CASE initCard(t)
  BY <1>1, <1>2, <1>4, ControlTyped DEF initCard, Inserted, Present, TypeOK, cardData, bounded
<1>5. CASE powerUp(t)
  BY <1>1, <1>2, <1>5, HostTyped, SlotTyped, ControlTyped
  DEF powerUp, Present, TypeOK, cardData, bounded
<1>6. CASE resetCard(t)
  <2>1. PICK s \in ResetStep, status \in Statuses, after \in {slot} \cup {Taken(pc[t])} :
          /\ cardType' = TypeAfter(s, status)
          /\ IF GoesOn(s, status)
             THEN /\ Continue(t, NextReset[s]) /\ slot' = after
                  /\ UNCHANGED <<host, isCardInserted>>
             ELSE GiveUp(t)
          /\ UNCHANGED <<cardData, bounded>>
    BY <1>6 DEF resetCard
  <2>2. cardType' \in {"SD_200", "SD_Legacy", "MMC"}
    BY <1>1, <2>1 DEF TypeAfter
  <2> QED BY <1>1, <1>2, <2>1, <2>2, SlotTyped, ControlTyped DEF TypeOK, cardData, bounded
<1>7. CASE probeCard(t)
  BY <1>1, <1>2, <1>7, SlotTyped, ControlTyped DEF probeCard, TypeOK, cardData, bounded
<1>8. ASSUME Probed(t)
      PROVE  /\ pc' \in [Thread -> Step] /\ host' \in Host /\ slot' \in Slot
             /\ {isCardInserted, isMachineSleeping, media}' \subseteq BOOLEAN
  BY <1>1, <1>2, <1>8, HostTyped, ControlTyped DEF Probed
<1>9. CASE parseCSD(t)
  BY <1>1, <1>2, <1>8, <1>9, ControlTyped DEF parseCSD, TypeOK, bounded
<1>10. ASSUME NEW status, ExtendedCSDRead(status)
       PROVE  isCardHighCapacity' \in BOOLEAN /\ blockCount' \in 0..(MaxEvents + 1)
  BY <1>1, <1>10 DEF ExtendedCSDRead, TypeOK
<1>11. CASE parseMMCExtendedCSD(t)
  BY <1>1, <1>8, <1>10, <1>11, ControlTyped DEF parseMMCExtendedCSD, TypeOK, bounded
<1>12. CASE setBlockLength(t)
  BY <1>1, <1>2, <1>12, ControlTyped DEF setBlockLength, TypeOK, cardData, bounded
<1>13. CASE setCardBusWidth(t)
  BY <1>1, <1>2, <1>13, HostTyped, SlotTyped, ControlTyped
  DEF setCardBusWidth, TypeOK, cardData, bounded
<1>14. CASE setMMCSpeed(t)
  <2>1. \A h \in Host : ClockSet(h, "fast") \subseteq Host
    BY HostTyped
  <2>2. [host EXCEPT !.timing = "HS200"] \in Host
    BY <1>1, HostTyped
  <2> QED BY <1>1, <1>2, <1>14, <2>1, <2>2, SlotTyped, ControlTyped
      DEF setMMCSpeed, TypeOK, cardData, bounded
<1>15. CASE tuneCard(t)
  BY <1>1, <1>2, <1>15, HostTyped, ControlTyped, LifecycleAssumption
  DEF tuneCard, DMAMode, TypeOK, bounded
<1>16. CASE switchMMCSpeedEnd(t)
  BY <1>1, <1>10, <1>16, ControlTyped DEF switchMMCSpeedEnd, TypeOK, bounded
<1>17. CASE Hangs(t)
  <2>1. "hung" \in Step
    BY DEF Step
  <2> QED BY <1>1, <1>17, <2>1, ControlTyped DEF Hangs, TypeOK, cardData, bounded
<1> QED BY <1>3, <1>4, <1>5, <1>6, <1>7, <1>9, <1>11, <1>12, <1>13, <1>14, <1>15, <1>16, <1>17
    DEF Takes

(* What a card change does besides changing the card.                      *)
LEMMA NoticedEffect ==
  ASSUME TypeOK, Noticed
  PROVE  /\ events \in Nat /\ events < MaxEvents /\ events' = events + 1
         /\ events' \in 0..MaxEvents /\ changePending' \in BOOLEAN
         /\ UNCHANGED <<pc, cardType, flags, cardData, sleeps>>
<1>1. events \in 0..MaxEvents /\ changePending \in BOOLEAN
  BY DEF TypeOK
<1>2. /\ events < MaxEvents /\ events' = events + 1
      /\ changePending' = TRUE \/ changePending' = changePending
      /\ UNCHANGED <<pc, cardType, flags, cardData, sleeps>>
  BY DEF Noticed
<1>3. changePending' \in BOOLEAN
  BY <1>1, <1>2
<1> QED BY <1>1, <1>2, <1>3, LifecycleAssumption

(* TypeOK is inductive by itself.                                          *)
LEMMA StepTyped ==
  ASSUME TypeOK, [Next]_vars
  PROVE  TypeOK'
<1>1. CASE \E t \in Thread : Takes(t)
  BY <1>1, TakesTyped
<1>2. {"idle", "reset"} \subseteq Step /\ {"main", "change"} \subseteq Thread
  BY DEF Step, CommandStep, Thread
<1>3. CASE handleCardChange
  BY <1>2, <1>3, ControlTyped DEF handleCardChange, TypeOK, cardData
<1>4. CASE Sleep
  <2>1. sleeps' \in 0..MaxSleeps
    BY <1>4, LifecycleAssumption DEF Sleep, TypeOK
  <2> QED BY <1>4, <2>1 DEF Sleep, TypeOK, cardData
<1>5. CASE Wake
  BY <1>2, <1>5, HostTyped, SlotTyped, ControlTyped DEF Wake, TypeOK, cardData, bounded
<1>6. CASE Insert
  <2>1. PICK kind \in Kinds : slot' = CardIn(events + 2, kind)
    BY <1>6 DEF Insert
  <2>2. slot' \in Slot
    BY <1>6, <2>1, NoticedEffect, LifecycleAssumption DEF Insert, CardIn, Slot
  <2> QED BY <1>6, <2>2, NoticedEffect DEF Insert, TypeOK, flags, cardData
<1>7. CASE Remove
  <2>1. slot' \in Slot
    BY <1>7, LifecycleAssumption DEF Remove, NoCard, CardIn, Slot
  <2>2. host' \in Host
    BY <1>7, HostTyped DEF Remove, TypeOK
  <2> QED BY <1>7, <2>1, <2>2, NoticedEffect DEF Remove, TypeOK, flags, cardData
<1>8. CASE UNCHANGED vars
  BY <1>8 DEF vars, flags, cardData, bounded, TypeOK
<1> QED BY <1>1, <1>3, <1>4, <1>5, <1>6, <1>7, <1>8 DEF Next

(* Every field starts with its type.                                       *)
LEMMA InitTyped ==
  Init => TypeOK
<1> SUFFICES ASSUME Init PROVE TypeOK
  OBVIOUS
<1>1. 0 \in 0..MaxEvents /\ 0 \in 0..(MaxEvents + 1) /\ 0 \in 0..MaxSleeps
      /\ 1 \in 0..(MaxEvents + 1)
  BY LifecycleAssumption
<1>2. /\ cardType = "SD_200" /\ hcTransferType = "SDMA" /\ cardCSD = "none"
      /\ blockCount = 0 /\ events = 0 /\ sleeps = 0
      /\ isCardInserted = FALSE /\ isMachineSleeping = FALSE
      /\ isCardHighCapacity = FALSE /\ media = FALSE /\ changePending = FALSE
  BY DEF Init
<1>3. pc \in [Thread -> Step]
  BY DEF Init, Thread, Step, CommandStep
<1>4. host \in Host
  BY DEF Init, HostReset, Host
<1>5. slot \in Slot
  BY <1>1 DEF Init, Slot, NoCard, CardIn
<1> QED BY <1>1, <1>2, <1>3, <1>4, <1>5 DEF TypeOK

------------------------------------------------------------------------------
(* The card's side.                                                        *)

(* What a command does to a card: it stays the same card, and only a reset *)
(* takes it back in what it was switched to.                               *)
LEMMA TakenEffect ==
  ASSUME TypeOK, Numbered, NEW s
  PROVE  LET a == Taken(s)
         IN /\ a \in Slot /\ a.id = slot.id /\ a.kind = slot.kind
            /\ a.state = "off" <=> slot.state = "off"
            /\ s \notin Resets \cup {"mmcOpCond", "cid", "rca"} => a.state = slot.state
            /\ ~Present => a = slot
            /\ s \notin Resets =>
                 /\ slot.width = 8 => a.width = 8
                 /\ slot.timing = "HS200" => a.timing = "HS200"
            /\ s = "busWidth" /\ Listens /\ Answers(s) => a.width = 8
            /\ s = "speed" /\ Listens /\ Answers(s) => a.timing = "HS200"
<1>1. slot \in Slot
  BY DEF TypeOK
<1>2. CASE ~(Listens /\ Answers(s))
  BY <1>1, <1>2 DEF Taken
<1>3. CASE Listens /\ Answers(s)
  <2>1. Present /\ slot.state # "off"
    BY <1>3 DEF Listens, Numbered
  <2>2. CASE s \in Resets
    BY <1>1, <1>3, <2>1, <2>2 DEF Taken, Slot, CardIn, Resets
  <2>3. CASE s \notin Resets
    BY <1>1, <1>3, <2>1, <2>3 DEF Taken, Slot
  <2> QED BY <2>2, <2>3
<1> QED BY <1>2, <1>3

(* What a synchronous command comes to.                                    *)
LEMMA SyncEffect ==
  ASSUME TypeOK, Numbered, NEW s, NEW status, NEW after, doSyncCommand(s, status, after)
  PROVE  /\ after \in Slot /\ after.id = slot.id /\ after.kind = slot.kind
         /\ after.state = "off" <=> slot.state = "off"
         /\ s \notin Resets \cup {"mmcOpCond", "cid", "rca"} => after.state = slot.state
         /\ ~Present => after = slot
         /\ s \notin Resets =>
              /\ slot.width = 8 => after.width = 8
              /\ slot.timing = "HS200" => after.timing = "HS200"
         /\ status = "Success" /\ (s # "speed" \/ "busy" \notin Faults) =>
              /\ Present
              /\ s \notin Resets => host.power /\ host.clock # "off" /\ slot.state # "off"
              /\ s \in {"csd"} \cup Identified => slot.state = "stby"
              /\ s \in {"extCSD"} \cup SpeedStep => slot.kind = "eMMC"
              /\ s = "busWidth" => after.width = 8
              /\ s = "speed" => after.timing = "HS200"
         /\ status = "Timeout" /\ "command" \notin Faults => ~Present \/ ~Answers(s)
         /\ status = "Aborted" => ~Present \/ slot.state = "off"
         /\ status = "NoMedia" => ~Present
<1>1. slot \in Slot
  BY DEF TypeOK
<1>2. /\ after \in {slot, Taken(s)}
      /\ status = "Success" /\ (s # "speed" \/ "busy" \notin Faults) =>
           Present /\ Answers(s) /\ after = Taken(s)
  BY DEF doSyncCommand
<1>3. Answers(s) /\ s \notin Resets => Listens
  BY DEF Answers
<1>4. Answers(s) /\ s \in {"csd"} \cup Identified => slot.state = "stby"
  BY DEF Answers, Identified, SpeedStep, Resets
<1>5. Answers(s) /\ s \in {"extCSD"} \cup SpeedStep => slot.kind = "eMMC"
  BY DEF Answers, SpeedStep, Resets
<1>6. "busWidth" \notin Resets /\ "speed" \notin Resets
  BY DEF Resets
<1>7. /\ status = "Timeout" /\ "command" \notin Faults => ~Present \/ ~Answers(s)
      /\ status = "Aborted" => ~Present \/ slot.state = "off"
      /\ status = "NoMedia" => ~Present
      /\ ~Present => after = slot
  BY DEF doSyncCommand
<1> QED BY <1>1, <1>2, <1>3, <1>4, <1>5, <1>6, <1>7, TakenEffect DEF Listens

(* Without its power the card in the slot is the same, but off.            *)
LEMMA UnpoweredEffect ==
  ASSUME TypeOK, Numbered
  PROVE  /\ Unpowered \in Slot /\ Unpowered.state = "off"
         /\ Unpowered.id = slot.id /\ Unpowered.kind = slot.kind
         /\ ~Present => Unpowered = NoCard
BY DEF TypeOK, Numbered, Unpowered, NoCard, CardIn, Slot

(* What moves a thread that is in initCard leaves the other one out of it. *)
LEMMA Moved ==
  ASSUME TypeOK, TakeTurns, NEW t \in Thread, pc[t] \notin {"idle", "hung"},
         NEW x \in Step, pc' = [pc EXCEPT ![t] = x]
  PROVE  /\ pc'[t] = x /\ pc' \in [Thread -> Step] /\ TakeTurns'
         /\ \A u \in Thread : u # t => pc[u] \in {"idle", "hung"} /\ pc'[u] = pc[u]
BY DEF TypeOK, TakeTurns, OutOf, Thread

(* What a thread has to see to for the invariant when it goes on to x: the *)
(* part of it that is about where it then is.                              *)
Reaches(t, x) ==
  /\ pc' = [pc EXCEPT ![t] = x]
  /\ x \notin Begun => isCardInserted'
  /\ x \in AsMMC => cardType' = "MMC"
  /\ x \in Identified => ProbedCard'
  /\ x = "idle" /\ ~isCardInserted' /\ (t = "change" => pc["main"] = "idle")
       => Unused'
  /\ x = "initCard" /\ sleeps = 0 => host'.clock = "off"
  /\ x = "idle" /\ t = "change" /\ sleeps = 0 /\ media' =>
       /\ isCardInserted' /\ blockCount' # 0
       /\ blockCount' = slot'.id => host'.power /\ slot'.state = "stby"

(* Whether initCard and the functions it calls go on or return.            *)
GoesOnOrReturns(t, x) ==
  \/ x # "idle" /\ UNCHANGED <<isMachineSleeping, media>>
  \/ x = "idle" /\ t = "main" /\ ~isMachineSleeping' /\ media' = media
  \/ x = "idle" /\ t = "change" /\ UNCHANGED isMachineSleeping

(* When a thread goes on to x and sees to what is asked of it there, the   *)
(* invariant holds again: the other thread is not in initCard, or hangs.   *)
LEMMA TurnsMoved ==
  ASSUME TurnsInv, TypeOK', Numbered', NEW t \in Thread, pc[t] \notin {"idle", "hung"},
         NEW x \in Step, x # "reset", Reaches(t, x), GoesOnOrReturns(t, x),
         sleeps' = sleeps
  PROVE  TurnsInv'
<1>1. /\ pc'[t] = x /\ TakeTurns'
      /\ \A u \in Thread : u # t => pc[u] \in {"idle", "hung"} /\ pc'[u] = pc[u]
  BY Moved DEF TurnsInv, Reaches
<1>2. WakesFollowSleeps'
  BY <1>1 DEF TurnsInv, WakesFollowSleeps, OutOf, GoesOnOrReturns, Thread
<1>3. Probing'
  BY <1>1 DEF Reaches, Probing, Begun, AsMMC, Identified, SpeedStep
<1>4. Off'
  BY <1>1 DEF Reaches, Off, Thread
<1>5. Online'
  BY <1>1 DEF TurnsInv, WakesFollowSleeps, OutOf, Reaches, GoesOnOrReturns, Online, Thread
<1> QED BY <1>1, <1>2, <1>3, <1>4, <1>5 DEF TurnsInv

(* A thread that returns has come to an end.                               *)
LEMMA Returns ==
  ASSUME NEW t \in Thread, NEW result, Return(t, result)
  PROVE  GoesOnOrReturns(t, "idle") /\ pc' = [pc EXCEPT ![t] = "idle"]
BY DEF Return, GoesOnOrReturns, Thread

(* A thread that goes on leaves sleep and clients as they are.             *)
LEMMA Continues ==
  ASSUME NEW t \in Thread, NEW x, x # "idle", Continue(t, x)
  PROVE  GoesOnOrReturns(t, x) /\ pc' = [pc EXCEPT ![t] = x]
BY DEF Continue, GoesOnOrReturns

(* A thread that gives up leaves the slot without power and clock.         *)
LEMMA GiveUpTurns ==
  ASSUME TurnsInv, NEW t \in Thread, pc[t] \notin {"idle", "hung"}, GiveUp(t),
         cardType' \in {"SD_200", "SD_Legacy", "MMC"},
         cardCSD' \in Kinds \cup {"none"}, blockCount' = blockCount,
         UNCHANGED <<isCardHighCapacity, hcTransferType, bounded>>
  PROVE  TurnsInv'
<1>1. /\ GoesOnOrReturns(t, "idle") /\ pc' = [pc EXCEPT ![t] = "idle"]
      /\ host' = [host EXCEPT !.power = FALSE, !.clock = "off"] /\ slot' = Unpowered
      /\ isCardInserted' = FALSE /\ media' \in BOOLEAN /\ isMachineSleeping' \in BOOLEAN
      /\ t = "change" => ~media'
  BY Returns DEF GiveUp, PowerOff, Return, TurnsInv, TypeOK, Thread
<1>2. /\ host' \in Host /\ ~host'.power /\ host'.clock = "off"
  BY <1>1 DEF TurnsInv, TypeOK, Host
<1>3. /\ slot' \in Slot /\ slot'.id = slot.id /\ slot'.state = "off"
      /\ ~Present => slot' = NoCard
  BY <1>1, UnpoweredEffect DEF TurnsInv
<1>4. TypeOK'
  <2>1. "idle" \in Step /\ pc' \in [Thread -> Step]
    BY <1>1 DEF TurnsInv, TypeOK, Step, CommandStep
  <2> QED BY <1>1, <1>2, <1>3, <2>1 DEF TurnsInv, TypeOK, bounded
<1>5. Numbered'
  BY <1>2, <1>3 DEF TurnsInv, Numbered, Present, bounded
<1>6. Reaches(t, "idle")
  BY <1>1, <1>2 DEF Reaches, Begun, AsMMC, Identified, SpeedStep, Unused
<1> QED BY <1>1, <1>4, <1>5, <1>6, TurnsMoved DEF Step, CommandStep, bounded

------------------------------------------------------------------------------
(* The steps of the threads.                                               *)

(* A thread that goes to a step is at a step.                              *)
LEMMA PcType ==
  ASSUME TypeOK, NEW t, NEW x \in Step, pc' = [pc EXCEPT ![t] = x]
  PROVE  pc' \in [Thread -> Step]
BY DEF TypeOK

(* The reset of the controller leaves it without power and clock; one that *)
(* fails leaves a wake to go on, which sleeps tells.                       *)
LEMMA initControllerTurns ==
  ASSUME TurnsInv, NEW t \in Thread, initController(t)
  PROVE  TurnsInv'
<1>1. /\ pc[t] = "reset" /\ pc[t] \notin {"idle", "hung"}
      /\ UNCHANGED <<cardType, isCardInserted, cardData, bounded, isMachineSleeping, media>>
  BY DEF initController, At, Continue
<1>2. CASE host' = HostReset /\ slot' = Unpowered /\ Continue(t, "initCard")
  <2>1. GoesOnOrReturns(t, "initCard") /\ pc' = [pc EXCEPT ![t] = "initCard"]
    BY <1>2, Continues
  <2>2. "initCard" \in Step /\ pc' \in [Thread -> Step]
    BY <2>1, PcType DEF Step, CommandStep, TurnsInv
  <2>3. host' \in Host /\ host'.clock = "off" /\ ~host'.power
    BY <1>2 DEF HostReset, Host
  <2>4. slot' \in Slot /\ slot'.id = slot.id /\ (~Present => slot' = NoCard)
    BY <1>2, UnpoweredEffect DEF TurnsInv
  <2>5. TypeOK'
    BY <1>1, <2>2, <2>3, <2>4 DEF TurnsInv, TypeOK, cardData, bounded
  <2>6. Numbered'
    BY <1>1, <2>3, <2>4 DEF TurnsInv, Numbered, Present, cardData, bounded
  <2>7. Reaches(t, "initCard")
    BY <2>1, <2>3 DEF Reaches, Begun, AsMMC, Identified, SpeedStep
  <2> QED BY <1>1, <2>1, <2>2, <2>5, <2>6, <2>7, TurnsMoved DEF bounded
<1>3. CASE /\ UNCHANGED <<host, slot>>
           /\ Continue(t, IF t = "change" THEN "idle" ELSE "initCard")
  <2> DEFINE x == IF t = "change" THEN "idle" ELSE "initCard"
  <2>1. GoesOnOrReturns(t, x) /\ pc' = [pc EXCEPT ![t] = x] /\ x \in Step /\ x # "reset"
    BY <1>3 DEF Continue, GoesOnOrReturns, Thread, Step, CommandStep
  <2>2. TypeOK' /\ Numbered'
    BY <1>1, <1>3, <2>1, PcType
    DEF TurnsInv, TypeOK, Numbered, Present, cardData, bounded
  <2>3. t = "change" => pc["main"] \in {"idle", "hung"}
    BY <1>1 DEF TurnsInv, TakeTurns, OutOf
  <2>4. t = "main" => sleeps > 0
    BY <1>1 DEF TurnsInv, WakesFollowSleeps, OutOf
  <2>5. Reaches(t, x)
    BY <1>1, <1>3, <2>1, <2>3, <2>4
    DEF Reaches, Begun, AsMMC, Identified, SpeedStep, TurnsInv, Off, Online, Thread,
        cardData, bounded, Unused
  <2> QED BY <1>1, <2>1, <2>2, <2>5, TurnsMoved DEF bounded
<1> QED BY <1>2, <1>3 DEF initController

(* initCard marks the card as inserted and goes on, or has found the slot  *)
(* empty and off.                                                          *)
LEMMA initCardTurns ==
  ASSUME TurnsInv, NEW t \in Thread, initCard(t)
  PROVE  TurnsInv'
<1> DEFINE x == IF Present THEN "powerUp" ELSE "idle"
<1>1. /\ pc[t] = "initCard" /\ isCardInserted' = Present
      /\ UNCHANGED <<cardType, cardData, bounded, host, slot>>
      /\ GoesOnOrReturns(t, x) /\ pc' = [pc EXCEPT ![t] = x]
      /\ isMachineSleeping' \in BOOLEAN /\ media' \in BOOLEAN
      /\ x = "idle" /\ t = "change" => ~media'
  BY DEF initCard, At, Inserted, Return, Continue, GoesOnOrReturns, Thread, TurnsInv, TypeOK
<1>2. x \in Step /\ x # "reset" /\ Present \in BOOLEAN
  BY DEF Step, CommandStep, Present
<1>3. TypeOK' /\ Numbered'
  BY <1>1, <1>2, PcType DEF TurnsInv, TypeOK, Numbered, Present, cardData, bounded
<1>4. Reaches(t, x)
  BY <1>1 DEF Reaches, Begun, AsMMC, Identified, SpeedStep, TurnsInv, Off, Unused,
              Numbered, bounded
<1> QED BY <1>1, <1>2, <1>3, <1>4, TurnsMoved DEF bounded

(* From power-up on, the card is marked as inserted.                       *)
LEMMA powerUpTurns ==
  ASSUME TurnsInv, NEW t \in Thread, powerUp(t)
  PROVE  TurnsInv'
<1>1. /\ pc[t] = "powerUp" /\ isCardInserted' = isCardInserted /\ isCardInserted
      /\ UNCHANGED <<cardData, bounded>>
  BY DEF powerUp, At, TurnsInv, Probing, Begun
<1>2. CASE /\ host' = [host EXCEPT !.clock = "init", !.power = Present]
           /\ slot' = IF Present THEN [Unpowered EXCEPT !.state = "idle"] ELSE slot
           /\ cardType' = "SD_200"
           /\ Continue(t, "goIdle")
  <2>1. GoesOnOrReturns(t, "goIdle") /\ pc' = [pc EXCEPT ![t] = "goIdle"]
        /\ "goIdle" \in Step /\ UNCHANGED <<isMachineSleeping, media>>
    BY <1>2, Continues DEF Step, CommandStep, ResetStep, Continue
  <2>2. host' \in Host /\ host'.power = Present
    BY <1>2 DEF Host, TurnsInv, TypeOK, Present
  <2>3. slot' \in Slot /\ slot'.id = slot.id /\ (~Present => slot' = slot)
    BY <1>2, UnpoweredEffect DEF TurnsInv, TypeOK, Slot
  <2>4. TypeOK'
    BY <1>1, <1>2, <2>1, <2>2, <2>3, PcType DEF TurnsInv, TypeOK, cardData, bounded
  <2>5. Numbered'
    BY <1>1, <2>2, <2>3 DEF TurnsInv, Numbered, Present, cardData, bounded
  <2>6. Reaches(t, "goIdle")
    BY <1>1, <2>1 DEF Reaches, Begun, AsMMC, Identified, SpeedStep
  <2> QED BY <1>1, <2>1, <2>4, <2>5, <2>6, TurnsMoved DEF bounded
<1>3. CASE /\ host' = [host EXCEPT !.clock = "off"]
           /\ UNCHANGED <<slot, cardType>>
           /\ Return(t, FALSE)
  <2>1. /\ GoesOnOrReturns(t, "idle") /\ pc' = [pc EXCEPT ![t] = "idle"]
        /\ "idle" \in Step /\ isMachineSleeping' \in BOOLEAN /\ media' \in BOOLEAN
        /\ t = "change" => ~media'
    BY <1>3, Returns DEF Step, CommandStep, Return, TurnsInv, TypeOK
  <2>2. host' \in Host /\ host'.power = host.power
    BY <1>3 DEF Host, TurnsInv, TypeOK
  <2>3. TypeOK' /\ Numbered'
    BY <1>1, <1>3, <2>1, <2>2, PcType
    DEF TurnsInv, TypeOK, Numbered, Present, cardData, bounded
  <2>4. Reaches(t, "idle")
    BY <1>1, <2>1 DEF Reaches, Begun, AsMMC, Identified, SpeedStep
  <2> QED BY <1>1, <2>1, <2>3, <2>4, TurnsMoved DEF bounded
<1> QED BY <1>2, <1>3 DEF powerUp

(* resetCard and probeCard, which go on with the card as the command left  *)
(* it, or give up.                                                         *)
LEMMA GoesOnTurns ==
  ASSUME TurnsInv, NEW t \in Thread, pc[t] \notin Begun,
         NEW x \in Step, x \notin {"idle", "reset", "initCard"} \cup Identified,
         Continue(t, x),
         slot' \in Slot, slot'.id = slot.id, ~Present => slot' = slot,
         cardType' \in {"SD_200", "SD_Legacy", "MMC"},
         x \in AsMMC => cardType' = "MMC",
         UNCHANGED <<host, isCardInserted, cardData, bounded>>
  PROVE  TurnsInv'
<1>1. /\ GoesOnOrReturns(t, x) /\ pc' = [pc EXCEPT ![t] = x] /\ pc[t] \notin {"idle", "hung"}
      /\ UNCHANGED <<isMachineSleeping, media>> /\ isCardInserted
  BY Continues DEF Continue, Begun, TurnsInv, Probing
<1>2. TypeOK'
  BY <1>1, PcType DEF TurnsInv, TypeOK, cardData, bounded
<1>3. Numbered'
  BY DEF TurnsInv, Numbered, Present, cardData, bounded
<1>4. Reaches(t, x)
  BY <1>1 DEF Reaches, TurnsInv
<1> QED BY <1>1, <1>2, <1>3, <1>4, TurnsMoved DEF bounded

(* resetCard goes beyond SEND_OP_COND only with an MMC.                    *)
LEMMA resetCardTurns ==
  ASSUME TurnsInv, NEW t \in Thread, resetCard(t)
  PROVE  TurnsInv'
<1>1. PICK s \in ResetStep, status \in Statuses, after \in {slot} \cup {Taken(pc[t])} :
        /\ pc[t] = s /\ doSyncCommand(s, status, after)
        /\ cardType' = TypeAfter(s, status)
        /\ IF GoesOn(s, status)
           THEN /\ Continue(t, NextReset[s]) /\ slot' = after
                /\ UNCHANGED <<host, isCardInserted>>
           ELSE GiveUp(t)
        /\ UNCHANGED <<cardData, bounded>>
  BY DEF resetCard, At
<1>2. cardType' \in {"SD_200", "SD_Legacy", "MMC"}
  BY <1>1 DEF TypeAfter, TurnsInv, TypeOK
<1>3. pc[t] \notin Begun
  BY <1>1 DEF ResetStep, Begun
<1>4. CASE GoesOn(s, status)
  <2>1. /\ after \in Slot /\ after.id = slot.id /\ (~Present => after = slot)
    BY <1>1, SyncEffect DEF TurnsInv
  <2>2. /\ NextReset[s] \in {"ifCond", "opCond", "goIdleAgain", "mmcOpCond", "cid"}
        /\ NextReset[s] \in AsMMC => s \in {"opCond", "goIdleAgain", "mmcOpCond"}
    BY <1>1 DEF NextReset, ResetStep, AsMMC, Identified, SpeedStep
  <2>3. /\ NextReset[s] \in Step
        /\ NextReset[s] \notin {"idle", "reset", "initCard"} \cup Identified
    BY <2>2 DEF Step, CommandStep, ResetStep, Identified, SpeedStep
  <2>4. s = "opCond" => cardType' = "MMC"
    BY <1>1, <1>4 DEF GoesOn, TypeAfter
  <2>5. s \in {"goIdleAgain", "mmcOpCond"} => cardType' = "MMC"
    BY <1>1, <1>4 DEF GoesOn, TypeAfter, TurnsInv, Probing, AsMMC
  <2> QED BY <1>1, <1>2, <1>3, <1>4, <2>1, <2>2, <2>3, <2>4, <2>5, GoesOnTurns
<1>5. CASE ~GoesOn(s, status)
  BY <1>1, <1>2, <1>3, <1>5, GiveUpTurns DEF cardData, Begun, TurnsInv, TypeOK
<1> QED BY <1>4, <1>5

(* Identification says nothing of the card that was probed before.         *)
LEMMA probeCardTurns ==
  ASSUME TurnsInv, NEW t \in Thread, probeCard(t)
  PROVE  TurnsInv'
<1>1. PICK s \in {"cid", "rca"}, status \in Statuses, after \in {slot, Taken(pc[t])} :
        /\ pc[t] = s /\ doSyncCommand(s, status, after)
        /\ IF s = "cid" /\ status # "Success" THEN GiveUp(t)
           ELSE /\ Continue(t, IF s = "cid" THEN "rca" ELSE "csd") /\ slot' = after
                /\ UNCHANGED <<host, isCardInserted>>
        /\ UNCHANGED <<cardType, cardData, bounded>>
  BY DEF probeCard, At
<1>2. /\ pc[t] \notin Begun /\ cardType' \in {"SD_200", "SD_Legacy", "MMC"}
      /\ cardType' = "MMC"
  BY <1>1 DEF Begun, AsMMC, TurnsInv, Probing
<1>3. CASE s = "cid" /\ status # "Success"
  BY <1>1, <1>2, <1>3, GiveUpTurns DEF cardData, Begun, TurnsInv, TypeOK
<1>4. CASE ~(s = "cid" /\ status # "Success")
  <2> DEFINE x == IF s = "cid" THEN "rca" ELSE "csd"
  <2>1. /\ after \in Slot /\ after.id = slot.id /\ (~Present => after = slot)
    BY <1>1, SyncEffect DEF TurnsInv
  <2>2. x \in Step /\ x \notin {"idle", "reset", "initCard"} \cup Identified
    BY DEF Step, CommandStep, Identified, SpeedStep
  <2> QED BY <1>1, <1>2, <1>4, <2>1, <2>2, GoesOnTurns
<1> QED BY <1>3, <1>4

(* The later steps keep the card that was probed, and the controller as it *)
(* is or with another clock, width, timing or DMA mode.                    *)
LEMMA IdentifiedTurns ==
  ASSUME TurnsInv, NEW t \in Thread, pc[t] \notin Begun, cardType = "MMC",
         NEW x \in {"blockLength"} \cup Identified, Continue(t, x),
         slot' \in Slot, slot'.id = slot.id, slot'.state = slot.state,
         slot'.kind = slot.kind, ~Present => slot' = slot,
         host' \in Host, host'.power = host.power,
         "clock" \notin Faults /\ host.clock # "off" => host'.clock # "off",
         ProbedCard \/ (slot.state = "stby" /\ host.power /\ Present
                          /\ host.clock # "off"
                          /\ blockCount' = slot.id /\ cardCSD' = slot.kind),
         cardCSD' \in Kinds \cup {"none"}, blockCount' \in {blockCount, slot.id},
         (blockCount' = blockCount /\ cardCSD' = cardCSD)
           \/ (blockCount' = slot.id /\ cardCSD' = slot.kind /\ slot.state = "stby"
                 /\ host.power /\ Present /\ host.clock # "off"),
         isCardHighCapacity' \in BOOLEAN, hcTransferType' \in {"PIO", "SDMA", "ADMA2"},
         UNCHANGED <<cardType, isCardInserted, bounded>>
  PROVE  TurnsInv'
<1>1. /\ x \in Step /\ x \notin {"idle", "reset"} /\ x \notin Begun /\ x \in AsMMC
  BY DEF Identified, SpeedStep, Step, CommandStep, Begun, AsMMC
<1>2. /\ GoesOnOrReturns(t, x) /\ pc' = [pc EXCEPT ![t] = x] /\ pc[t] \notin {"idle", "hung"}
      /\ UNCHANGED <<isMachineSleeping, media>> /\ isCardInserted
  BY <1>1, Continues DEF Continue, Begun, TurnsInv, Probing
<1>3. TypeOK'
  BY <1>1, <1>2, PcType DEF TurnsInv, TypeOK, bounded, Slot
<1>4. Numbered'
  BY DEF TurnsInv, Numbered, Present, bounded
<1>5. ProbedCard'
  BY DEF ProbedCard, Present
<1>6. Reaches(t, x)
  <2>1. x # "initCard" /\ x # "idle" /\ isCardInserted' /\ cardType' = "MMC"
    BY <1>1, <1>2 DEF Begun
  <2> QED BY <1>2, <1>5, <2>1 DEF Reaches
<1> QED BY <1>1, <1>2, <1>3, <1>4, <1>6, TurnsMoved DEF bounded

(* Setting the clock changes nothing else, and can leave it off only if it *)
(* may fail.                                                               *)
LEMMA ClockSetEffect ==
  ASSUME NEW h \in Host, NEW speed \in {"off", "init", "standard", "fast"},
         speed # "off", NEW g \in ClockSet(h, speed)
  PROVE  /\ g \in Host /\ g.power = h.power /\ g.width = h.width /\ g.timing = h.timing
         /\ g.dma = h.dma /\ ("clock" \notin Faults => g.clock # "off")
<1>1. g = [h EXCEPT !.clock = speed] \/ ("clock" \in Faults /\ g = [h EXCEPT !.clock = "off"])
  BY DEF ClockSet
<1> QED BY <1>1 DEF Host

(* Once its CSD was read, the card in the slot is the one that was probed. *)
LEMMA parseCSDTurns ==
  ASSUME TurnsInv, NEW t \in Thread, parseCSD(t)
  PROVE  TurnsInv'
<1>1. PICK status \in Statuses :
        /\ pc[t] = "csd" /\ doSyncCommand("csd", status, slot)
        /\ IF status # "Success" THEN GiveUp(t) /\ UNCHANGED <<cardCSD, blockCount>>
           ELSE /\ cardCSD' = slot.kind /\ blockCount' = slot.id
                /\ IF isExtendedCSDSupported(slot.kind)
                   THEN Continue(t, "extCSD") /\ UNCHANGED <<host, slot, isCardInserted>>
                   ELSE Probed(t)
        /\ UNCHANGED <<cardType, isCardHighCapacity, hcTransferType, bounded>>
  BY DEF parseCSD, At
<1>2. pc[t] \notin Begun /\ cardType = "MMC"
  BY <1>1 DEF Begun, AsMMC, TurnsInv, Probing
<1>3. CASE status # "Success"
  BY <1>1, <1>2, <1>3, GiveUpTurns DEF Begun, TurnsInv, TypeOK
<1>4. CASE status = "Success"
  <2>1. Present /\ host.power /\ host.clock # "off" /\ slot.state = "stby"
    BY <1>1, <1>4, SyncEffect DEF TurnsInv, Resets
  <2>2. PICK x \in {"blockLength"} \cup Identified :
          Continue(t, x) /\ (host' = host \/ host' \in ClockSet(host, "standard"))
    BY <1>1, <1>4 DEF Probed, Identified
  <2>3. UNCHANGED <<slot, isCardInserted>>
    BY <1>1, <1>4 DEF Probed
  <2>4. /\ host' \in Host /\ host'.power = host.power
        /\ "clock" \notin Faults => host'.clock # "off"
    BY <2>1, <2>2, ClockSetEffect DEF TurnsInv, TypeOK
  <2>5. slot \in Slot /\ slot.kind \in Kinds \cup {"none"}
    BY DEF TurnsInv, TypeOK, Slot
  <2> QED BY <1>1, <1>2, <1>4, <2>1, <2>2, <2>3, <2>4, <2>5, IdentifiedTurns
      DEF TurnsInv, TypeOK
<1> QED BY <1>3, <1>4

(* The extended CSD is read from the card whose CSD was.                   *)
LEMMA parseMMCExtendedCSDTurns ==
  ASSUME TurnsInv, NEW t \in Thread, parseMMCExtendedCSD(t)
  PROVE  TurnsInv'
<1>1. PICK status \in Statuses :
        /\ pc[t] = "extCSD" /\ doSyncCommand("extCSD", status, slot)
        /\ ExtendedCSDRead(status)
        /\ IF status = "Success" THEN Probed(t) ELSE GiveUp(t)
        /\ UNCHANGED <<cardType, hcTransferType, cardCSD, bounded>>
  BY DEF parseMMCExtendedCSD, At
<1>2. pc[t] \notin Begun /\ cardType = "MMC" /\ ProbedCard
  BY <1>1 DEF Begun, AsMMC, Identified, TurnsInv, Probing
<1>3. CASE status # "Success"
  BY <1>1, <1>2, <1>3, GiveUpTurns DEF Begun, TurnsInv, TypeOK, ExtendedCSDRead
<1>4. CASE status = "Success"
  <2>1. /\ Present /\ host.power /\ host.clock # "off" /\ slot.state = "stby"
        /\ slot.id = blockCount /\ cardCSD = slot.kind
    BY <1>1, <1>2, <1>4, SyncEffect DEF TurnsInv, Resets, Identified, ProbedCard
  <2>2. /\ Continue(t, "blockLength") /\ host' \in ClockSet(host, "standard")
        /\ UNCHANGED <<slot, isCardInserted>> /\ "blockLength" \in Identified
        /\ isCardHighCapacity' = TRUE /\ blockCount' = slot.id
    BY <1>1, <1>4 DEF Probed, Identified, ExtendedCSDRead
  <2>3. /\ host' \in Host /\ host'.power = host.power
        /\ "clock" \notin Faults => host'.clock # "off"
    BY <2>2, ClockSetEffect DEF TurnsInv, TypeOK
  <2> QED BY <1>1, <1>2, <1>4, <2>1, <2>2, <2>3, IdentifiedTurns DEF TurnsInv, TypeOK
<1> QED BY <1>3, <1>4

(* initCard returns true with a card that was probed.                      *)
LEMMA ReturnsTrueTurns ==
  ASSUME TurnsInv, NEW t \in Thread, pc[t] \notin Begun, Return(t, TRUE),
         blockCount' # 0, blockCount' \in {blockCount, slot.id},
         slot.id = blockCount' => slot.state = "stby" /\ host.power,
         isCardHighCapacity' \in BOOLEAN,
         UNCHANGED <<cardType, isCardInserted, hcTransferType, cardCSD, bounded,
                     host, slot>>
  PROVE  TurnsInv'
<1>1. /\ GoesOnOrReturns(t, "idle") /\ pc' = [pc EXCEPT ![t] = "idle"]
      /\ pc[t] \notin {"idle", "hung"} /\ "idle" \in Step /\ isCardInserted
      /\ isMachineSleeping' \in BOOLEAN /\ media' \in BOOLEAN
  BY Returns DEF Begun, Step, CommandStep, Return, TurnsInv, TypeOK, Probing
<1>2. TypeOK' /\ Numbered'
  BY <1>1, PcType DEF TurnsInv, TypeOK, Numbered, Present, bounded, Slot
<1>3. Reaches(t, "idle")
  BY <1>1 DEF Reaches, Begun, AsMMC, Identified, SpeedStep
<1> QED BY <1>1, <1>2, <1>3, TurnsMoved DEF bounded

(* A card on which SET_BLOCKLEN fails is off, marked as inserted, and not  *)
(* online.                                                                 *)
LEMMA setBlockLengthTurns ==
  ASSUME TurnsInv, NEW t \in Thread, setBlockLength(t)
  PROVE  TurnsInv'
<1>1. PICK status \in Statuses :
        /\ pc[t] = "blockLength" /\ doSyncCommand("blockLength", status, slot)
        /\ IF status # "Success" THEN PowerOff /\ Return(t, FALSE)
           ELSE /\ UNCHANGED <<host, slot>>
                /\ IF isExtendedCSDSupported(cardCSD) THEN Continue(t, "busWidth")
                   ELSE Return(t, TRUE)
        /\ UNCHANGED <<cardType, isCardInserted, cardData, bounded>>
  BY DEF setBlockLength, At
<1>2. pc[t] \notin Begun /\ cardType = "MMC" /\ ProbedCard /\ isCardInserted
  BY <1>1 DEF Begun, AsMMC, Identified, TurnsInv, Probing
<1>3. CASE status # "Success"
  <2>1. /\ GoesOnOrReturns(t, "idle") /\ pc' = [pc EXCEPT ![t] = "idle"]
        /\ "idle" \in Step /\ isMachineSleeping' \in BOOLEAN /\ media' \in BOOLEAN
        /\ t = "change" => ~media'
        /\ host' = [host EXCEPT !.power = FALSE, !.clock = "off"] /\ slot' = Unpowered
    BY <1>1, <1>3, Returns DEF Step, CommandStep, Return, PowerOff, TurnsInv, TypeOK
  <2>2. host' \in Host /\ ~host'.power
    BY <2>1 DEF Host, TurnsInv, TypeOK
  <2>3. slot' \in Slot /\ slot'.id = slot.id /\ (~Present => slot' = NoCard)
    BY <2>1, UnpoweredEffect DEF TurnsInv
  <2>4. TypeOK'
    BY <1>1, <2>1, <2>2, <2>3, PcType DEF TurnsInv, TypeOK, cardData, bounded
  <2>5. Numbered'
    BY <1>1, <2>2, <2>3 DEF TurnsInv, Numbered, Present, cardData, bounded
  <2>6. Reaches(t, "idle")
    BY <1>1, <1>2, <2>1 DEF Reaches, Begun, AsMMC, Identified, SpeedStep
  <2> QED BY <1>1, <2>1, <2>4, <2>5, <2>6, TurnsMoved DEF bounded
<1>4. CASE status = "Success" /\ isExtendedCSDSupported(cardCSD)
  <2>1. "busWidth" \in Identified /\ slot \in Slot /\ host \in Host
    BY DEF Identified, SpeedStep, TurnsInv, TypeOK
  <2> QED BY <1>1, <1>2, <1>4, <2>1, IdentifiedTurns DEF TurnsInv, TypeOK, cardData
<1>5. CASE status = "Success" /\ ~isExtendedCSDSupported(cardCSD)
  BY <1>1, <1>2, <1>5, ReturnsTrueTurns DEF TurnsInv, TypeOK, cardData, ProbedCard
<1> QED BY <1>3, <1>4, <1>5

(* Switching the bus width keeps the card that was probed.                 *)
LEMMA setCardBusWidthTurns ==
  ASSUME TurnsInv, NEW t \in Thread, setCardBusWidth(t)
  PROVE  TurnsInv'
<1>1. PICK status \in Statuses, after \in {slot, Taken("busWidth")} :
        /\ pc[t] = "busWidth" /\ doSyncCommand("busWidth", status, after)
        /\ slot' = after
        /\ host' = IF status = "Success" THEN [host EXCEPT !.width = 8] ELSE host
        /\ Continue(t, "speed")
        /\ UNCHANGED <<cardType, isCardInserted, cardData, bounded>>
  BY DEF setCardBusWidth, At
<1>2. pc[t] \notin Begun /\ cardType = "MMC" /\ ProbedCard
  BY <1>1 DEF Begun, AsMMC, Identified, SpeedStep, TurnsInv, Probing
<1>3. /\ slot' \in Slot /\ slot'.id = slot.id /\ slot'.kind = slot.kind
      /\ slot'.state = slot.state /\ (~Present => slot' = slot)
  BY <1>1, SyncEffect DEF TurnsInv, Resets
<1>4. host' \in Host /\ host'.power = host.power /\ host'.clock = host.clock
  BY <1>1 DEF TurnsInv, TypeOK, Host
<1>5. "speed" \in Identified
  BY DEF Identified, SpeedStep
<1> QED BY <1>1, <1>2, <1>3, <1>4, <1>5, IdentifiedTurns DEF TurnsInv, TypeOK, cardData

(* So does switching the speed, also when the clock fails.                 *)
LEMMA setMMCSpeedTurns ==
  ASSUME TurnsInv, NEW t \in Thread, setMMCSpeed(t)
  PROVE  TurnsInv'
<1>1. PICK status \in Statuses, after \in {slot, Taken("speed")} :
        /\ pc[t] = "speed" /\ doSyncCommand("speed", status, after)
        /\ slot' = after
        /\ host' \in ClockSet(IF status = "Success" THEN [host EXCEPT !.timing = "HS200"]
                              ELSE host, "fast")
        /\ Continue(t, "tune")
        /\ UNCHANGED <<cardType, isCardInserted, cardData, bounded>>
  BY DEF setMMCSpeed, At
<1>2. pc[t] \notin Begun /\ cardType = "MMC" /\ ProbedCard
  BY <1>1 DEF Begun, AsMMC, Identified, SpeedStep, TurnsInv, Probing
<1>3. /\ slot' \in Slot /\ slot'.id = slot.id /\ slot'.kind = slot.kind
      /\ slot'.state = slot.state /\ (~Present => slot' = slot)
  BY <1>1, SyncEffect DEF TurnsInv, Resets
<1>4. /\ host' \in Host /\ host'.power = host.power
      /\ "clock" \notin Faults => host'.clock # "off"
  <2> DEFINE h == IF status = "Success" THEN [host EXCEPT !.timing = "HS200"] ELSE host
  <2>1. h \in Host /\ h.power = host.power
    BY DEF TurnsInv, TypeOK, Host
  <2> HIDE DEF h
  <2>2. host' \in ClockSet(h, "fast")
    BY <1>1 DEF h
  <2> QED BY <2>1, <2>2, ClockSetEffect
<1>5. "tune" \in Identified
  BY DEF Identified, SpeedStep
<1> QED BY <1>1, <1>2, <1>3, <1>4, <1>5, IdentifiedTurns DEF TurnsInv, TypeOK, cardData

(* So does tuning.                                                         *)
LEMMA tuneCardTurns ==
  ASSUME TurnsInv, NEW t \in Thread, tuneCard(t)
  PROVE  TurnsInv'
<1>1. /\ pc[t] = "tune"
      /\ hcTransferType' = HostTransfer
      /\ host' = [host EXCEPT !.dma = DMAMode(HostTransfer)]
      /\ Continue(t, "extCSDAgain")
      /\ UNCHANGED <<cardType, isCardInserted, isCardHighCapacity, cardCSD,
                     blockCount, bounded, slot>>
  BY DEF tuneCard, At
<1>2. pc[t] \notin Begun /\ cardType = "MMC" /\ ProbedCard
  BY <1>1 DEF Begun, AsMMC, Identified, SpeedStep, TurnsInv, Probing
<1>3. host' \in Host /\ host'.power = host.power /\ host'.clock = host.clock
  BY <1>1 DEF TurnsInv, TypeOK, Host, DMAMode
<1>4. "extCSDAgain" \in Identified /\ slot \in Slot
  BY DEF Identified, SpeedStep, TurnsInv, TypeOK
<1> QED BY <1>1, <1>2, <1>3, <1>4, IdentifiedTurns, LifecycleAssumption DEF TurnsInv, TypeOK

(* The last reading of the extended CSD finds the card that was probed, or *)
(* fails.                                                                  *)
LEMMA switchMMCSpeedEndTurns ==
  ASSUME TurnsInv, NEW t \in Thread, switchMMCSpeedEnd(t)
  PROVE  TurnsInv'
<1>1. PICK status \in Statuses :
        /\ pc[t] = "extCSDAgain" /\ doSyncCommand("extCSDAgain", status, slot)
        /\ ExtendedCSDRead(status)
        /\ Return(t, TRUE)
        /\ UNCHANGED <<cardType, isCardInserted, hcTransferType, cardCSD, bounded,
                       host, slot>>
  BY DEF switchMMCSpeedEnd, At
<1>2. pc[t] \notin Begun /\ cardType = "MMC" /\ ProbedCard
  BY <1>1 DEF Begun, AsMMC, Identified, SpeedStep, TurnsInv, Probing
<1>3. CASE status = "Success"
  <2>1. Present /\ host.power /\ slot.state = "stby"
    BY <1>1, <1>3, SyncEffect DEF TurnsInv, Resets, Identified, SpeedStep
  <2> QED BY <1>1, <1>2, <1>3, <2>1, ReturnsTrueTurns DEF ExtendedCSDRead, Present
<1>4. CASE status # "Success"
  BY <1>1, <1>2, <1>4, ReturnsTrueTurns DEF ExtendedCSDRead, ProbedCard, TurnsInv, TypeOK
<1> QED BY <1>3, <1>4

(* Of a thread that never goes on nothing is asked.                        *)
LEMMA HangsTurns ==
  ASSUME TurnsInv, NEW t \in Thread, Hangs(t)
  PROVE  TurnsInv'
<1>1. /\ pc[t] \in CommandStep /\ Continue(t, "hung")
      /\ UNCHANGED <<cardType, isCardInserted, cardData, bounded, host, slot>>
  BY DEF Hangs
<1>2. /\ "hung" \in Step /\ pc[t] \notin {"idle", "hung"}
      /\ GoesOnOrReturns(t, "hung") /\ pc' = [pc EXCEPT ![t] = "hung"]
      /\ UNCHANGED <<isMachineSleeping, media>>
  BY <1>1, Continues DEF Step, CommandStep, ResetStep, SpeedStep, Continue
<1>3. TypeOK' /\ Numbered'
  BY <1>1, <1>2, PcType DEF TurnsInv, TypeOK, Numbered, Present, cardData, bounded
<1>4. Reaches(t, "hung")
  BY <1>2 DEF Reaches, Begun, AsMMC, Identified, SpeedStep
<1> QED BY <1>1, <1>2, <1>3, <1>4, TurnsMoved DEF bounded

(* No step of a thread that takes up a card breaks the invariant.          *)
LEMMA TakesTurns ==
  ASSUME TurnsInv, NEW t \in Thread, Takes(t)
  PROVE  TurnsInv'
BY HangsTurns, initControllerTurns, initCardTurns, powerUpTurns, resetCardTurns, probeCardTurns,
   parseCSDTurns, parseMMCExtendedCSDTurns, setBlockLengthTurns, setCardBusWidthTurns,
   setMMCSpeedTurns, tuneCardTurns, switchMMCSpeedEndTurns DEF Takes

(* The other steps.                                                        *)
LEMMA InitTurns ==
  Init => TurnsInv
<1> SUFFICES ASSUME Init PROVE TurnsInv
  OBVIOUS
<1>1. \A t \in Thread : pc[t] \notin Begun \ {"idle", "initCard"}
  BY DEF Init, Thread, Begun
<1>4. (~Present => slot = NoCard) /\ slot.id <= 1
  BY DEF Init, Present, NoCard, CardIn
<1>5. TypeOK
  BY InitTyped
<1>6. Numbered
  BY <1>4 DEF Init, Numbered, HostReset
<1>7. TakeTurns /\ WakesFollowSleeps /\ Online
  BY DEF Init, TakeTurns, OutOf, WakesFollowSleeps, Online
<1>8. Probing
  BY DEF Init, Probing, Thread, Begun, AsMMC, Identified, SpeedStep
<1>9. Off
  BY DEF Init, Off, Unused, HostReset, Thread
<1> QED BY <1>5, <1>6, <1>7, <1>8, <1>9 DEF TurnsInv

(* The thread call starts only when the other thread is not in initCard.   *)
LEMMA handleCardChangeTurns ==
  ASSUME TurnsInv, Overlap = FALSE, handleCardChange
  PROVE  TurnsInv'
<1> DEFINE x == IF Present = isCardInserted THEN "idle" ELSE "reset"
<1>1. /\ pc["change"] = "idle" /\ pc["main"] \in {"idle", "hung"}
      /\ changePending' = FALSE /\ pc' = [pc EXCEPT !["change"] = x]
      /\ x \in Step /\ x \in {"idle", "reset"} /\ "change" \in Thread
      /\ UNCHANGED <<cardType, flags, cardData, host, slot, events, sleeps>>
  BY DEF handleCardChange, OutOf, At, Continue, flags, Step, CommandStep, Thread
<1>2. /\ pc' \in [Thread -> Step]
      /\ pc'["main"] = pc["main"] /\ pc'["change"] \in {"idle", "reset"}
  BY <1>1, PcType DEF TurnsInv, TypeOK, Thread
<1>3. TypeOK'
  BY StepTyped DEF Next, TurnsInv
<1>4. Numbered' /\ TakeTurns' /\ WakesFollowSleeps'
  BY <1>1, <1>2
  DEF TurnsInv, Numbered, TakeTurns, OutOf, WakesFollowSleeps, flags, cardData, Present
<1>5. Probing'
  BY <1>1, <1>2 DEF Probing, Thread, Begun, AsMMC, Identified, SpeedStep
<1>6. Off'
  BY <1>1, <1>2 DEF TurnsInv, Off, Unused, Thread, flags
<1>7. Online'
  BY <1>1, <1>2 DEF TurnsInv, Online, flags, cardData
<1> QED BY <1>3, <1>4, <1>5, <1>6, <1>7 DEF TurnsInv

(* A sleep is counted, and then OnlineIsIn says no more.                   *)
LEMMA SleepTurns ==
  ASSUME TurnsInv, Sleep
  PROVE  TurnsInv'
<1>1. /\ pc["main"] = "idle" /\ sleeps < MaxSleeps /\ sleeps' = sleeps + 1
      /\ isMachineSleeping' = TRUE /\ sleeps \in 0..MaxSleeps
      /\ UNCHANGED <<pc, cardType, isCardInserted, media, cardData, changePending,
                     events, host, slot>>
  BY DEF Sleep, At, TurnsInv, TypeOK
<1>2. sleeps' \in 0..MaxSleeps /\ sleeps' > 0 /\ sleeps' # 0
  BY <1>1, LifecycleAssumption
<1>3. TypeOK' /\ Numbered' /\ TakeTurns' /\ WakesFollowSleeps' /\ Online'
  BY <1>1, <1>2
  DEF TurnsInv, TypeOK, Numbered, TakeTurns, OutOf, WakesFollowSleeps, Online, Present, cardData
<1>4. Probing' /\ Off'
  BY <1>1, <1>2 DEF TurnsInv, Probing, ProbedCard, Off, Unused, cardData
<1> QED BY <1>3, <1>4 DEF TurnsInv

(* When the machine wakes, sleeps is no longer zero.                       *)
LEMMA WakeTurns ==
  ASSUME TurnsInv, Overlap = FALSE, Wake
  PROVE  TurnsInv'
<1>1. /\ pc["main"] = "idle" /\ pc["change"] \in {"idle", "hung"} /\ isMachineSleeping
      /\ pc' = [pc EXCEPT !["main"] = "reset"]
      /\ UNCHANGED <<cardType, flags, cardData, bounded>>
      /\ UNCHANGED <<host, slot>> \/ (host' = HostReset /\ slot' = Unpowered)
  BY DEF Wake, OutOf, At, Continue, flags
<1>2. /\ pc' \in [Thread -> Step] /\ pc'["main"] = "reset" /\ pc'["change"] = pc["change"]
      /\ sleeps # 0
  BY <1>1 DEF TurnsInv, TypeOK, Thread, Step, CommandStep, WakesFollowSleeps, OutOf
<1>3. /\ host' \in Host /\ (host'.power => host.power) /\ (host'.power => Present')
      /\ slot' \in Slot /\ slot'.id = slot.id /\ (~Present => slot' = NoCard)
  <2>1. CASE UNCHANGED <<host, slot>>
    BY <2>1 DEF TurnsInv, TypeOK, Numbered, Present
  <2>2. CASE host' = HostReset /\ slot' = Unpowered
    <3>1. host' \in Host /\ ~host'.power
      BY <2>2 DEF Host, HostReset
    <3> QED BY <2>2, <3>1, UnpoweredEffect DEF TurnsInv
  <2> QED BY <1>1, <2>1, <2>2
<1>4. TypeOK'
  BY StepTyped DEF Next, TurnsInv
<1>5. Numbered' /\ TakeTurns' /\ WakesFollowSleeps'
  BY <1>1, <1>2, <1>3
  DEF TurnsInv, Numbered, TakeTurns, OutOf, WakesFollowSleeps, flags, cardData, bounded, Present
<1>6. Probing'
  BY <1>1, <1>2 DEF Probing, Thread, Begun, AsMMC, Identified, SpeedStep
<1>7. Off' /\ Online'
  BY <1>1, <1>2, <1>3 DEF TurnsInv, Off, Unused, Online, Thread, flags, bounded
<1> QED BY <1>4, <1>5, <1>6, <1>7 DEF TurnsInv

(* A card that comes is another one than any that was probed, and is off.  *)
LEMMA InsertTurns ==
  ASSUME TurnsInv, Insert
  PROVE  TurnsInv'
<1>1. PICK kind \in Kinds : slot' = CardIn(events + 2, kind)
  BY DEF Insert
<1>2. /\ ~Present /\ ~host.power /\ slot.state = "off" /\ slot.id = 0
      /\ events \in Nat /\ events < MaxEvents /\ events' = events + 1
      /\ events' \in 0..MaxEvents
      /\ UNCHANGED <<pc, cardType, flags, cardData, sleeps, host>>
      /\ changePending' \in BOOLEAN
  <2>1. /\ ~Present /\ Noticed /\ UNCHANGED host
    BY DEF Insert
  <2>2. ~host.power /\ slot.state = "off" /\ slot.id = 0
    BY <2>1 DEF TurnsInv, Numbered, NoCard, CardIn, Present
  <2> QED BY <2>1, <2>2, NoticedEffect DEF TurnsInv
<1>3. /\ slot' \in Slot /\ slot'.id = events + 2 /\ slot'.state = "off"
      /\ blockCount' # slot'.id /\ blockCount' <= events + 1 /\ slot'.id # 0
  BY <1>1, <1>2, LifecycleAssumption DEF CardIn, Slot, TurnsInv, Numbered, TypeOK, cardData
<1>4. TypeOK'
  BY StepTyped DEF Next, TurnsInv
<1>5. Numbered' /\ TakeTurns' /\ WakesFollowSleeps'
  BY <1>2, <1>3
  DEF TurnsInv, TypeOK, Numbered, TakeTurns, OutOf, WakesFollowSleeps, flags, cardData, Present
<1>6. Probing'
  BY <1>2, <1>3 DEF TurnsInv, Probing, ProbedCard, flags, cardData
<1>7. Off' /\ Online'
  BY <1>2, <1>3 DEF TurnsInv, Off, Unused, Online, flags, cardData
<1> QED BY <1>4, <1>5, <1>6, <1>7 DEF TurnsInv

(* A card that goes leaves the slot off, and no card in it that was probed.*)
LEMMA RemoveTurns ==
  ASSUME TurnsInv, Remove
  PROVE  TurnsInv'
<1>1. /\ slot' = NoCard /\ host' = [host EXCEPT !.power = FALSE, !.clock = "off"]
      /\ events \in Nat /\ events < MaxEvents /\ events' = events + 1
      /\ events' \in 0..MaxEvents
      /\ UNCHANGED <<pc, cardType, flags, cardData, sleeps>>
      /\ changePending' \in BOOLEAN
  BY NoticedEffect DEF Remove, TurnsInv
<1>2. slot' \in Slot /\ slot'.id = 0 /\ slot'.state = "off"
  BY <1>1, LifecycleAssumption DEF NoCard, CardIn, Slot
<1>3. host' \in Host /\ ~host'.power /\ host'.clock = "off"
  BY <1>1 DEF TurnsInv, TypeOK, Host
<1>4. TypeOK'
  BY StepTyped DEF Next, TurnsInv
<1>5. Numbered' /\ TakeTurns' /\ WakesFollowSleeps'
  BY <1>1, <1>2, <1>3
  DEF TurnsInv, TypeOK, Numbered, TakeTurns, OutOf, WakesFollowSleeps, flags, cardData, Present,
      NoCard
<1>6. Probing'
  BY <1>1, <1>2 DEF TurnsInv, Probing, ProbedCard, flags, cardData
<1>7. Off' /\ Online'
  BY <1>1, <1>2, <1>3 DEF TurnsInv, Off, Unused, Online, flags, cardData
<1> QED BY <1>4, <1>5, <1>6, <1>7 DEF TurnsInv

(* The invariant is inductive as long as the threads take turns.           *)
LEMMA StepTurns ==
  ASSUME Overlap = FALSE, TurnsInv, [Next]_vars
  PROVE  TurnsInv'
<1>1. CASE Next
  BY <1>1, TakesTurns, handleCardChangeTurns, SleepTurns, WakeTurns, InsertTurns,
     RemoveTurns DEF Next
<1>2. CASE UNCHANGED vars
  <2>1. UNCHANGED <<pc, cardType, isCardInserted, isMachineSleeping, media,
                    isCardHighCapacity, hcTransferType, cardCSD, blockCount,
                    changePending, events, sleeps, host, slot>>
    BY <1>2 DEF vars, flags, cardData, bounded
  <2>2. TypeOK' /\ TakeTurns' /\ Numbered' /\ WakesFollowSleeps'
    BY <2>1 DEF TurnsInv, TypeOK, TakeTurns, OutOf, Numbered, WakesFollowSleeps, Present
  <2>3. Probing' /\ Off' /\ Online'
    BY <2>1 DEF TurnsInv, Probing, ProbedCard, Off, Unused, Online
  <2> QED BY <2>2, <2>3 DEF TurnsInv
<1> QED BY <1>1, <1>2

(* The threads take turns, and what TurnsInv says of the card in the slot  *)
(* holds, whatever may fail.                                               *)
THEOREM Turns ==
  ASSUME Overlap = FALSE
  PROVE  Spec => []TurnsInv
<1>1. TurnsInv /\ [Next]_vars => TurnsInv'
  BY StepTurns
<1> QED BY <1>1, InitTurns, PTL DEF Spec

(* Every field keeps its type, also when the threads overlap.              *)
THEOREM TypeCorrect == Spec => []TypeOK
<1>1. TypeOK /\ [Next]_vars => TypeOK'
  BY StepTyped
<1> QED BY <1>1, InitTyped, PTL DEF Spec

(* While the driver holds no card for inserted, the slot has neither power *)
(* nor clock, whatever fails on the way through initCard.                  *)
THEOREM OffWhenOutAlways ==
  ASSUME Overlap = FALSE
  PROVE  Spec => []OffWhenOut
<1>1. TurnsInv => OffWhenOut
  BY DEF TurnsInv, Off, Unused, OffWhenOut, Settled
<1> QED BY <1>1, Turns, PTL

(* The clients are not left believing in a card that the driver gave up.   *)
THEOREM OnlineIsInAlways ==
  ASSUME Overlap = FALSE
  PROVE  Spec => []OnlineIsIn
<1>1. TurnsInv => OnlineIsIn
  BY DEF TurnsInv, Online, OnlineIsIn, Settled, Thread
<1> QED BY <1>1, Turns, PTL

------------------------------------------------------------------------------
(* The bus of the controller.  initCard comes to each step with the width  *)
(* and the timing of a controller that was just reset, up to the steps that*)
(* switch the card first and then the controller.                          *)

Narrow == Step \ {"idle", "hung", "reset", "speed", "tune", "extCSDAgain"}
Slow   == Step \ {"idle", "hung", "reset", "tune", "extCSDAgain"}

AheadInv ==
  /\ HostNeverAhead
  /\ \A t \in Thread : /\ pc[t] \in Narrow => host.width = 1
                       /\ pc[t] \in Slow => host.timing = "default"

(* What a thread that goes on to x has to see to.                          *)
LEMMA AheadMoved ==
  ASSUME TypeOK, TakeTurns, AheadInv, NEW t \in Thread, pc[t] \notin {"idle", "hung"},
         NEW x \in Step, pc' = [pc EXCEPT ![t] = x], HostNeverAhead',
         x \in Narrow => host'.width = 1, x \in Slow => host'.timing = "default"
  PROVE  AheadInv'
BY Moved DEF AheadInv, Narrow, Slow

(* The steps before the card is switched leave width and timing alone.     *)
LEMMA PlainSteps ==
  ASSUME TypeOK, NEW t \in Thread,
         \/ initCard(t) \/ powerUp(t) \/ resetCard(t) \/ probeCard(t)
         \/ parseCSD(t) \/ parseMMCExtendedCSD(t) \/ setBlockLength(t)
  PROVE  /\ host'.width = host.width /\ host'.timing = host.timing
         /\ pc[t] \in Narrow /\ pc[t] \in Slow /\ pc[t] \notin {"idle", "hung"}
         /\ \E x \in Step : pc' = [pc EXCEPT ![t] = x]
<1>1. host \in Host
  BY DEF TypeOK
<1>2. /\ pc[t] \in {"initCard", "powerUp", "cid", "rca", "csd", "extCSD", "blockLength"}
           \cup ResetStep
  BY DEF initCard, powerUp, resetCard, probeCard, parseCSD, parseMMCExtendedCSD,
         setBlockLength, At
<1>3. pc[t] \in Narrow /\ pc[t] \in Slow /\ pc[t] \notin {"idle", "hung"}
  BY <1>2 DEF Narrow, Slow, ResetStep, Step, CommandStep
<1>4. /\ \/ host' = host
         \/ \E p, c : host' = [host EXCEPT !.power = p, !.clock = c]
         \/ \E p, c : host' = [host EXCEPT !.clock = c, !.power = p]
         \/ \E c : host' = [host EXCEPT !.clock = c]
      /\ \E x \in Step : pc' = [pc EXCEPT ![t] = x]
  <2>1. CASE initCard(t)
    BY <2>1 DEF initCard, Return, Continue, Step, CommandStep
  <2>2. CASE powerUp(t)
    <3>1. /\ \/ host' = [host EXCEPT !.clock = "init", !.power = Present]
             \/ host' = [host EXCEPT !.clock = "off"]
          /\ \/ pc' = [pc EXCEPT ![t] = "goIdle"] \/ pc' = [pc EXCEPT ![t] = "idle"]
      BY <2>2 DEF powerUp, Return, Continue
    <3> QED BY <3>1 DEF Step, CommandStep, ResetStep
  <2>3. CASE resetCard(t)
    <3>1. PICK s \in ResetStep :
            (Continue(t, NextReset[s]) /\ UNCHANGED host) \/ GiveUp(t)
      BY <2>3 DEF resetCard
    <3>2. NextReset[s] \in Step
      BY DEF NextReset, ResetStep, Step, CommandStep
    <3> QED BY <3>1, <3>2 DEF GiveUp, PowerOff, Return, Continue, Step, CommandStep
  <2>4. CASE probeCard(t)
    BY <2>4 DEF probeCard, GiveUp, PowerOff, Return, Continue, Step, CommandStep
  <2>5. CASE parseCSD(t)
    BY <2>5 DEF parseCSD, Probed, ClockSet, GiveUp, PowerOff, Return, Continue, Step, CommandStep
  <2>6. CASE parseMMCExtendedCSD(t)
    BY <2>6
    DEF parseMMCExtendedCSD, Probed, ClockSet, GiveUp, PowerOff, Return, Continue, Step,
        CommandStep
  <2>7. CASE setBlockLength(t)
    BY <2>7 DEF setBlockLength, PowerOff, Return, Continue, Step, CommandStep, SpeedStep
  <2> QED BY <2>1, <2>2, <2>3, <2>4, <2>5, <2>6, <2>7
<1> QED BY <1>1, <1>3, <1>4 DEF Host

(* A controller with one line and default timing is not ahead of any card. *)
LEMMA PlainIsNotAhead ==
  ASSUME host.width = 1, host.timing = "default"
  PROVE  HostNeverAhead
BY DEF HostNeverAhead

(* The same of the next state.                                             *)
LEMMA PlainIsNotAheadNext ==
  ASSUME host'.width = 1, host'.timing = "default"
  PROVE  HostNeverAhead'
BY DEF HostNeverAhead

(* The card is switched before the controller, and one that does not answer*)
(* leaves the controller as it is.                                         *)
LEMMA TakesAhead ==
  ASSUME Faults \cap {"reset", "busy"} = {}, TurnsInv, AheadInv, NEW t \in Thread, Takes(t)
  PROVE  AheadInv'
<1> USE DEF TurnsInv
<1>0. slot \in Slot /\ host \in Host /\ HostNeverAhead
  BY DEF TypeOK, AheadInv
<1>1. CASE initController(t)
  <2>1. pc[t] = "reset" /\ host' = HostReset /\ pc' = [pc EXCEPT ![t] = "initCard"]
    BY <1>1 DEF initController, At, Continue
  <2>2. host'.width = 1 /\ host'.timing = "default" /\ "initCard" \in Step
    BY <2>1 DEF HostReset, Step, CommandStep
  <2> QED BY <2>1, <2>2, AheadMoved, PlainIsNotAheadNext
<1>2. CASE \/ initCard(t) \/ powerUp(t) \/ resetCard(t) \/ probeCard(t)
           \/ parseCSD(t) \/ parseMMCExtendedCSD(t) \/ setBlockLength(t)
  <2>1. /\ host'.width = host.width /\ host'.timing = host.timing
        /\ pc[t] \in Narrow /\ pc[t] \in Slow /\ pc[t] \notin {"idle", "hung"}
    BY <1>2, PlainSteps
  <2>2. PICK x \in Step : pc' = [pc EXCEPT ![t] = x]
    BY <1>2, PlainSteps
  <2>3. host'.width = 1 /\ host'.timing = "default"
    BY <2>1 DEF AheadInv
  <2> QED BY <2>1, <2>2, <2>3, AheadMoved, PlainIsNotAheadNext
<1>3. CASE setCardBusWidth(t)
  <2>1. PICK status \in Statuses, after \in {slot, Taken("busWidth")} :
          /\ pc[t] = "busWidth" /\ doSyncCommand("busWidth", status, after)
          /\ slot' = after
          /\ host' = IF status = "Success" THEN [host EXCEPT !.width = 8] ELSE host
          /\ Continue(t, "speed")
    BY <1>3 DEF setCardBusWidth, At
  <2>2. /\ pc[t] \in Narrow /\ pc[t] \in Slow /\ "speed" \notin Narrow /\ "speed" \in Step
        /\ pc[t] \notin {"idle", "hung"}
    BY <2>1 DEF Narrow, Slow, Step, CommandStep, SpeedStep
  <2>3. /\ after.state = slot.state /\ after.id = slot.id
        /\ slot.timing = "HS200" => after.timing = "HS200"
        /\ status = "Success" => after.width = 8
    BY <2>1, SyncEffect DEF Resets
  <2>4. /\ host'.timing = "default"
        /\ IF status = "Success" THEN host'.width = 8 ELSE host'.width = 1
    BY <1>0, <2>1, <2>2 DEF Host, AheadInv
  <2>5. HostNeverAhead'
    BY <2>1, <2>3, <2>4 DEF HostNeverAhead
  <2> QED BY <2>1, <2>2, <2>4, <2>5, AheadMoved DEF Continue
<1>4. CASE setMMCSpeed(t)
  <2>1. PICK status \in Statuses, after \in {slot, Taken("speed")} :
          /\ pc[t] = "speed" /\ doSyncCommand("speed", status, after)
          /\ slot' = after
          /\ host' \in ClockSet(IF status = "Success" THEN [host EXCEPT !.timing = "HS200"]
                                ELSE host, "fast")
          /\ Continue(t, "tune")
    BY <1>4 DEF setMMCSpeed, At
  <2>2. /\ pc[t] \in Slow /\ "tune" \notin Narrow \cup Slow /\ "tune" \in Step
        /\ pc[t] \notin {"idle", "hung"}
    BY <2>1 DEF Narrow, Slow, Step, CommandStep, SpeedStep
  <2>3. /\ after.state = slot.state /\ after.id = slot.id
        /\ slot.width = 8 => after.width = 8
        /\ status = "Success" => after.timing = "HS200"
    BY <2>1, SyncEffect DEF Resets
  <2>4. /\ host'.width = host.width
        /\ host'.timing = IF status = "Success" THEN "HS200" ELSE host.timing
    <3> DEFINE h == IF status = "Success" THEN [host EXCEPT !.timing = "HS200"] ELSE host
    <3>1. /\ h \in Host /\ h.width = host.width
          /\ h.timing = IF status = "Success" THEN "HS200" ELSE host.timing
      BY <1>0 DEF Host
    <3> HIDE DEF h
    <3>2. host' \in ClockSet(h, "fast")
      BY <2>1 DEF h
    <3> QED BY <3>1, <3>2, ClockSetEffect
  <2>5. host.timing = "default"
    BY <2>2 DEF AheadInv
  <2>6. HostNeverAhead'
    BY <1>0, <2>1, <2>3, <2>4, <2>5 DEF HostNeverAhead, Present
  <2> QED BY <2>1, <2>2, <2>6, AheadMoved DEF Continue
<1>5. CASE tuneCard(t)
  <2>1. /\ pc[t] = "tune" /\ pc' = [pc EXCEPT ![t] = "extCSDAgain"] /\ slot' = slot
        /\ host' = [host EXCEPT !.dma = DMAMode(HostTransfer)]
    BY <1>5 DEF tuneCard, At, Continue
  <2>2. host'.width = host.width /\ host'.timing = host.timing
    BY <1>0, <2>1 DEF Host
  <2>3. "extCSDAgain" \in Step /\ "extCSDAgain" \notin Narrow \cup Slow
    BY DEF Step, CommandStep, SpeedStep, Narrow, Slow
  <2>4. HostNeverAhead'
    BY <1>0, <2>1, <2>2 DEF HostNeverAhead, Present
  <2> QED BY <2>1, <2>3, <2>4, AheadMoved
<1>6. CASE switchMMCSpeedEnd(t)
  <2>1. /\ pc[t] = "extCSDAgain" /\ pc' = [pc EXCEPT ![t] = "idle"]
        /\ slot' = slot /\ host' = host
    BY <1>6 DEF switchMMCSpeedEnd, At, Return
  <2>2. "idle" \in Step /\ "idle" \notin Narrow \cup Slow
    BY DEF Step, CommandStep, Narrow, Slow
  <2>3. HostNeverAhead'
    BY <1>0, <2>1 DEF HostNeverAhead, Present
  <2> QED BY <2>1, <2>2, <2>3, AheadMoved
<1>7. CASE Hangs(t)
  <2>1. /\ pc[t] \in CommandStep /\ pc' = [pc EXCEPT ![t] = "hung"]
        /\ slot' = slot /\ host' = host
    BY <1>7 DEF Hangs, Continue
  <2>2. /\ "hung" \in Step /\ "hung" \notin Narrow \cup Slow
        /\ pc[t] \notin {"idle", "hung"}
    BY <2>1 DEF Step, CommandStep, ResetStep, SpeedStep, Narrow, Slow
  <2>3. HostNeverAhead'
    BY <1>0, <2>1 DEF HostNeverAhead, Present
  <2> QED BY <2>1, <2>2, <2>3, AheadMoved
<1> QED BY <1>1, <1>2, <1>3, <1>4, <1>5, <1>6, <1>7 DEF Takes

(* AheadInv is inductive if the reset of the controller does not fail and  *)
(* no leftover interrupt answers a SWITCH.                                 *)
LEMMA StepAhead ==
  ASSUME Overlap = FALSE, Faults \cap {"reset", "busy"} = {}, TurnsInv, AheadInv, [Next]_vars
  PROVE  AheadInv'
<1> USE DEF TurnsInv
<1>1. CASE \E t \in Thread : Takes(t)
  BY <1>1, TakesAhead
<1>2. CASE handleCardChange
  <2>1. /\ pc["main"] \in {"idle", "hung"} /\ UNCHANGED <<host, slot>>
        /\ pc' = [pc EXCEPT !["change"] = "idle"] \/ pc' = [pc EXCEPT !["change"] = "reset"]
    BY <1>2 DEF handleCardChange, OutOf, At, Continue
  <2>2. pc'["main"] \in {"idle", "hung"} /\ pc'["change"] \in {"idle", "reset"}
    BY <2>1 DEF TypeOK, Thread
  <2> QED BY <2>1, <2>2 DEF AheadInv, HostNeverAhead, Present, Narrow, Slow, Thread
<1>3. CASE Sleep
  BY <1>3 DEF Sleep, AheadInv, HostNeverAhead, Present
<1>4. CASE Wake
  <2>1. /\ pc["change"] \in {"idle", "hung"}
        /\ pc' = [pc EXCEPT !["main"] = "reset"]
        /\ UNCHANGED <<host, slot>> \/ host' = HostReset
    BY <1>4 DEF Wake, OutOf, At, Continue
  <2>2. pc'["main"] = "reset" /\ pc'["change"] \in {"idle", "hung"}
    BY <2>1 DEF TypeOK, Thread
  <2>3. HostNeverAhead'
    BY <2>1 DEF AheadInv, HostNeverAhead, Present, HostReset
  <2> QED BY <2>2, <2>3 DEF AheadInv, Narrow, Slow, Thread
<1>5. CASE Insert
  <2>1. pc' = pc /\ host' = host /\ slot'.state = "off"
    BY <1>5 DEF Insert, Noticed, CardIn
  <2> QED BY <2>1 DEF AheadInv, HostNeverAhead
<1>6. CASE Remove
  <2>1. /\ pc' = pc /\ slot'.state = "off"
        /\ host' = [host EXCEPT !.power = FALSE, !.clock = "off"]
    BY <1>6 DEF Remove, Noticed, NoCard, CardIn
  <2>2. host'.width = host.width /\ host'.timing = host.timing
    BY <2>1 DEF TypeOK, Host
  <2> QED BY <2>1, <2>2 DEF AheadInv, HostNeverAhead
<1>7. CASE UNCHANGED vars
  BY <1>7 DEF vars, AheadInv, HostNeverAhead, Present
<1> QED BY <1>1, <1>2, <1>3, <1>4, <1>5, <1>6, <1>7 DEF Next

(* Unless the reset of the controller fails, or the second SWITCH is       *)
(* answered by an interrupt of the first, the controller never uses a bus  *)
(* width or timing that the card has not been switched to, whatever else   *)
(* fails.                                                                  *)
THEOREM HostNeverAheadAlways ==
  ASSUME Overlap = FALSE, Faults \cap {"reset", "busy"} = {}
  PROVE  Spec => []HostNeverAhead
<1>1. Init => AheadInv
  <2> SUFFICES ASSUME Init PROVE AheadInv
    OBVIOUS
  <2>1. host.width = 1 /\ host.timing = "default"
    BY DEF Init, HostReset
  <2> QED BY <2>1, PlainIsNotAhead DEF AheadInv
<1>2. TurnsInv /\ AheadInv /\ [Next]_vars => AheadInv'
  BY StepAhead
<1>3. AheadInv => HostNeverAhead
  BY DEF AheadInv
<1> QED BY <1>1, <1>2, <1>3, Turns, PTL DEF Spec

------------------------------------------------------------------------------
(* The card in use.  When a command that ends fails only if it must, it    *)
(* fails only if the card was taken out.                                   *)

(* The driver can use the card that it probed.                             *)
UsableCard ==
  /\ blockCount # 0
  /\ slot.id = blockCount =>
       /\ slot.state = "stby" /\ host.power
       /\ slot.kind = "eMMC" =>
            /\ isCardHighCapacity
            /\ hcTransferType = "ADMA2" <=> host.dma = "ADMA2"

(* What is known of an eMMC on the way there.                              *)
OnTheWay(s) ==
  /\ s = "extCSD" => cardCSD = "eMMC"
  /\ s \in SpeedStep => cardCSD = "eMMC"
  /\ s \in SpeedStep \cup {"blockLength"} /\ cardCSD = "eMMC" => isCardHighCapacity
  /\ s = "extCSDAgain" => (hcTransferType = "ADMA2" <=> host.dma = "ADMA2")

Early == Step \ ({"extCSD", "blockLength"} \cup SpeedStep)

UsableInv ==
  /\ \A t \in Thread : OnTheWay(pc[t])
  /\ pc["main"] = "idle" /\ pc["change"] \in {"idle", "reset"} /\ isCardInserted
       => UsableCard

(* Before the CSD was read, nothing is known of the card on the way.       *)
LEMMA EarlySteps ==
  ASSUME NEW s \in Early
  PROVE  OnTheWay(s) /\ OnTheWay(s)'
BY DEF Early, OnTheWay, SpeedStep

(* What a thread that goes on to x has to see to.                          *)
LEMMA UsableMoved ==
  ASSUME TypeOK, TakeTurns, UsableInv, NEW t \in Thread, pc[t] \notin {"idle", "hung"},
         NEW x \in Step, x # "reset", pc' = [pc EXCEPT ![t] = x], OnTheWay(x)',
         x = "idle" /\ isCardInserted' /\ (t = "change" => pc["main"] = "idle")
           => UsableCard'
  PROVE  UsableInv'
<1>1. /\ pc'[t] = x
      /\ \A u \in Thread : u # t => pc'[u] \in {"idle", "hung"} /\ pc'[u] = pc[u]
  BY Moved
<1>2. {"idle", "hung"} \subseteq Early
  BY DEF Early, Step, CommandStep, SpeedStep
<1>3. \A u \in Thread : OnTheWay(pc[u])'
  BY <1>1, <1>2, EarlySteps DEF OnTheWay
<1>4. (pc["main"] = "idle" /\ pc["change"] \in {"idle", "reset"} /\ isCardInserted)'
        => UsableCard'
  BY <1>1 DEF Thread
<1> QED BY <1>3, <1>4 DEF UsableInv

(* Up to the CSD no step depends on what the card in use was.              *)
LEMMA EarlyStepsUsable ==
  ASSUME Faults \subseteq {"reset", "hang", "event"}, TurnsInv, UsableInv, NEW t \in Thread,
         \/ initController(t) \/ initCard(t) \/ powerUp(t) \/ resetCard(t) \/ probeCard(t)
  PROVE  UsableInv'
<1> USE DEF TurnsInv
<1> DEFINE Goes(x) == pc' = [pc EXCEPT ![t] = x]
<1>1. pc[t] \notin {"idle", "hung"}
  BY DEF initController, initCard, powerUp, resetCard, probeCard, At, ResetStep
<1>2. \/ \E x \in Early : x # "idle" /\ x # "reset" /\ Goes(x)
      \/ Goes("idle") /\ isCardInserted' = FALSE
      \/ /\ Goes("idle") /\ t = "change" /\ pc[t] = "reset"
         /\ UNCHANGED <<isCardInserted, cardData, host, slot>>
  <2>1. /\ "initCard" \in Early /\ "powerUp" \in Early /\ "goIdle" \in Early
        /\ "rca" \in Early /\ "csd" \in Early
    BY DEF Early, Step, CommandStep, ResetStep, SpeedStep
  <2>2. CASE initController(t)
    BY <2>1, <2>2 DEF initController, At, Continue
  <2>3. CASE initCard(t)
    BY <2>1, <2>3 DEF initCard, Return, Continue, Inserted
  <2>4. CASE powerUp(t)
    BY <2>1, <2>4 DEF powerUp, Continue
  <2>5. CASE resetCard(t)
    <3>1. PICK s \in ResetStep : Goes(NextReset[s]) \/ GiveUp(t)
      BY <2>5 DEF resetCard, Continue
    <3>2. NextReset[s] \in Early /\ NextReset[s] # "idle" /\ NextReset[s] # "reset"
      BY DEF NextReset, ResetStep, Early, Step, CommandStep, SpeedStep
    <3> QED BY <3>1, <3>2 DEF GiveUp, Return
  <2>6. CASE probeCard(t)
    BY <2>1, <2>6 DEF probeCard, Continue, GiveUp, Return
  <2> QED BY <2>2, <2>3, <2>4, <2>5, <2>6
<1>3. CASE \E x \in Early : x # "idle" /\ x # "reset" /\ Goes(x)
  BY <1>1, <1>3, UsableMoved, EarlySteps DEF Early
<1>4. "idle" \in Early /\ "idle" \in Step
  BY DEF Early, Step, CommandStep, SpeedStep
<1>5. CASE Goes("idle") /\ isCardInserted' = FALSE
  BY <1>1, <1>4, <1>5, UsableMoved, EarlySteps
<1>6. CASE /\ Goes("idle") /\ t = "change" /\ pc[t] = "reset"
           /\ UNCHANGED <<isCardInserted, cardData, host, slot>>
  <2>2. isCardInserted' /\ pc["main"] = "idle" => UsableCard'
    BY <1>6 DEF UsableInv, UsableCard, cardData
  <2> QED BY <1>1, <1>4, <1>6, <2>2, UsableMoved, EarlySteps
<1> QED BY <1>2, <1>3, <1>5, <1>6

(* An eMMC goes on to its extended CSD, which says that it has high        *)
(* capacity.                                                               *)
LEMMA CSDStepsUsable ==
  ASSUME TurnsInv, UsableInv, NEW t \in Thread, parseCSD(t) \/ parseMMCExtendedCSD(t)
  PROVE  UsableInv'
<1> USE DEF TurnsInv
<1>1. pc[t] \notin {"idle", "hung"} /\ cardType = "MMC"
  BY DEF parseCSD, parseMMCExtendedCSD, At, Probing, AsMMC, Identified
<1>2. /\ "extCSD" \in Step \ {"idle", "reset"} /\ "blockLength" \in Step \ {"idle", "reset"}
      /\ "idle" \in Early /\ "idle" \in Step
      /\ "extCSD" \notin SpeedStep /\ "blockLength" \notin SpeedStep
  BY DEF Step, CommandStep, Early, SpeedStep
<1>3. CASE GiveUp(t)
  <2>1. pc' = [pc EXCEPT ![t] = "idle"] /\ isCardInserted' = FALSE
    BY <1>3 DEF GiveUp, Return
  <2> QED BY <1>1, <1>2, <2>1, UsableMoved, EarlySteps
<1>4. CASE parseCSD(t) /\ ~GiveUp(t)
  <2>1. /\ cardCSD' = slot.kind
        /\ IF slot.kind = "eMMC" THEN pc' = [pc EXCEPT ![t] = "extCSD"]
           ELSE pc' = [pc EXCEPT ![t] = "blockLength"]
    BY <1>1, <1>4
    DEF parseCSD, isExtendedCSDSupported, isSDCard, Continue, Probed
  <2>2. CASE slot.kind = "eMMC"
    <3>1. OnTheWay("extCSD")'
      BY <1>2, <2>1, <2>2 DEF OnTheWay
    <3> QED BY <1>1, <1>2, <2>1, <2>2, <3>1, UsableMoved
  <2>3. CASE slot.kind # "eMMC"
    <3>1. OnTheWay("blockLength")'
      BY <1>2, <2>1, <2>3 DEF OnTheWay
    <3> QED BY <1>1, <1>2, <2>1, <2>3, <3>1, UsableMoved
  <2> QED BY <2>2, <2>3
<1>5. CASE parseMMCExtendedCSD(t) /\ ~GiveUp(t)
  <2>1. /\ isCardHighCapacity' = TRUE /\ pc' = [pc EXCEPT ![t] = "blockLength"]
    BY <1>5 DEF parseMMCExtendedCSD, ExtendedCSDRead, Continue, Probed
  <2>2. OnTheWay("blockLength")'
    BY <1>2, <2>1 DEF OnTheWay
  <2> QED BY <1>1, <1>2, <2>1, <2>2, UsableMoved
<1> QED BY <1>3, <1>4, <1>5

(* SET_BLOCKLEN fails only if the card is not the one that was probed.     *)
LEMMA setBlockLengthUsable ==
  ASSUME Faults \subseteq {"reset", "hang", "event"}, TurnsInv, UsableInv, NEW t \in Thread,
         setBlockLength(t)
  PROVE  UsableInv'
<1> USE DEF TurnsInv
<1>1. PICK status \in Statuses :
        /\ pc[t] = "blockLength" /\ doSyncCommand("blockLength", status, slot)
        /\ IF status # "Success" THEN PowerOff /\ Return(t, FALSE)
           ELSE /\ UNCHANGED <<host, slot>>
                /\ IF isExtendedCSDSupported(cardCSD) THEN Continue(t, "busWidth")
                   ELSE Return(t, TRUE)
        /\ UNCHANGED <<cardType, isCardInserted, cardData, bounded>>
  BY DEF setBlockLength, At
<1>2. /\ ProbedCard /\ cardType = "MMC" /\ OnTheWay("blockLength") /\ pc[t] \notin {"idle", "hung"}
      /\ isCardInserted
  BY <1>1 DEF Probing, AsMMC, Identified, UsableInv, Begun
<1>3. /\ "busWidth" \in Step /\ "busWidth" \in SpeedStep /\ "busWidth" # "extCSDAgain"
      /\ "idle" \in Early /\ "idle" \in Step
  BY DEF Step, CommandStep, SpeedStep, Early
<1>4. CASE status # "Success"
  <2>1. /\ status = "NoMedia" => slot.id = 0
        /\ status = "Timeout" => slot.id = 0 \/ ~Answers("blockLength")
        /\ status = "Aborted" => slot.id = 0 \/ slot.state = "off"
        /\ status \in {"NoMedia", "Timeout", "Aborted"}
    BY <1>1, <1>4, SyncEffect DEF Statuses, Present
  <2>2. slot.state = "stby" /\ host.power /\ host.clock # "off" => Answers("blockLength")
    BY DEF Answers, Listens
  <2>3. slot.id # blockCount /\ blockCount # 0
    BY <1>2, <2>1, <2>2 DEF ProbedCard
  <2>4. pc' = [pc EXCEPT ![t] = "idle"] /\ slot'.id = slot.id /\ blockCount' = blockCount
    BY <1>1, <1>4, UnpoweredEffect DEF PowerOff, Return, cardData
  <2>5. UsableCard'
    BY <2>3, <2>4 DEF UsableCard
  <2> QED BY <1>2, <1>3, <2>4, <2>5, UsableMoved, EarlySteps
<1>5. CASE status = "Success" /\ isExtendedCSDSupported(cardCSD)
  <2>1. /\ pc' = [pc EXCEPT ![t] = "busWidth"] /\ cardCSD = "eMMC"
        /\ UNCHANGED <<cardData, host, slot>>
    BY <1>1, <1>5 DEF Continue, isExtendedCSDSupported
  <2>2. OnTheWay("busWidth")'
    BY <1>2, <1>3, <2>1 DEF OnTheWay, cardData
  <2> QED BY <1>2, <1>3, <2>1, <2>2, UsableMoved
<1>6. CASE status = "Success" /\ ~isExtendedCSDSupported(cardCSD)
  <2>1. /\ pc' = [pc EXCEPT ![t] = "idle"] /\ cardCSD # "eMMC"
        /\ UNCHANGED <<cardData, host, slot>>
    BY <1>1, <1>2, <1>6 DEF Return, isExtendedCSDSupported, isSDCard
  <2>2. UsableCard'
    BY <1>2, <2>1 DEF UsableCard, ProbedCard, cardData
  <2> QED BY <1>2, <1>3, <2>1, <2>2, UsableMoved, EarlySteps
<1> QED BY <1>4, <1>5, <1>6

(* switchMMCSpeed, which an eMMC only comes to, ends with the transfer type*)
(* and the DMA mode in agreement.                                          *)
LEMMA SpeedStepsUsable ==
  ASSUME TurnsInv, UsableInv, NEW t \in Thread,
         \/ setCardBusWidth(t) \/ setMMCSpeed(t) \/ tuneCard(t) \/ switchMMCSpeedEnd(t)
  PROVE  UsableInv'
<1> USE DEF TurnsInv
<1>1. pc[t] \in SpeedStep /\ pc[t] \notin {"idle", "hung"} /\ host \in Host
  BY DEF setCardBusWidth, setMMCSpeed, tuneCard, switchMMCSpeedEnd, At, SpeedStep, TypeOK
<1>2. ProbedCard /\ cardCSD = "eMMC" /\ isCardHighCapacity
  BY <1>1 DEF Probing, Identified, UsableInv, OnTheWay
<1>3. CASE setCardBusWidth(t) \/ setMMCSpeed(t)
  <2>1. PICK x \in {"speed", "tune"} : pc' = [pc EXCEPT ![t] = x]
    BY <1>3 DEF setCardBusWidth, setMMCSpeed, Continue
  <2>2. x \in Step /\ x # "idle" /\ x # "reset" /\ x # "extCSD" /\ x # "extCSDAgain"
    BY DEF Step, CommandStep, SpeedStep
  <2>3. UNCHANGED cardData
    BY <1>3 DEF setCardBusWidth, setMMCSpeed
  <2>4. OnTheWay(x)'
    BY <1>2, <2>2, <2>3 DEF OnTheWay, cardData
  <2> QED BY <1>1, <2>1, <2>2, <2>4, UsableMoved
<1>4. CASE tuneCard(t)
  <2>1. /\ pc' = [pc EXCEPT ![t] = "extCSDAgain"] /\ hcTransferType' = HostTransfer
        /\ host' = [host EXCEPT !.dma = DMAMode(HostTransfer)]
        /\ UNCHANGED <<cardCSD, isCardHighCapacity>>
    BY <1>4 DEF tuneCard, Continue
  <2>2. hcTransferType' = "ADMA2" <=> host'.dma = "ADMA2"
    BY <1>1, <2>1 DEF Host, DMAMode
  <2>3. "extCSDAgain" \in Step
    BY DEF Step, CommandStep, SpeedStep
  <2>4. OnTheWay("extCSDAgain")'
    BY <1>2, <2>1, <2>2 DEF OnTheWay
  <2> QED BY <1>1, <2>1, <2>3, <2>4, UsableMoved
<1>5. CASE switchMMCSpeedEnd(t)
  <2>1. PICK status \in Statuses :
          /\ pc[t] = "extCSDAgain" /\ doSyncCommand("extCSDAgain", status, slot)
          /\ ExtendedCSDRead(status)
          /\ pc' = [pc EXCEPT ![t] = "idle"]
          /\ UNCHANGED <<hcTransferType, host, slot>>
    BY <1>5 DEF switchMMCSpeedEnd, At, Return
  <2>2. hcTransferType = "ADMA2" <=> host.dma = "ADMA2"
    BY <2>1 DEF UsableInv, OnTheWay
  <2>3. status = "Success" => Present /\ slot.state = "stby"
    BY <2>1, SyncEffect DEF Identified, SpeedStep
  <2>4. isCardHighCapacity' /\ blockCount' = blockCount
    BY <1>2, <2>1, <2>3 DEF ExtendedCSDRead, ProbedCard
  <2>5. UsableCard'
    BY <1>2, <2>1, <2>2, <2>4 DEF UsableCard, ProbedCard
  <2>6. "idle" \in Step /\ "idle" \in Early
    BY DEF Step, CommandStep, Early, SpeedStep
  <2> QED BY <1>1, <2>1, <2>5, <2>6, UsableMoved, EarlySteps
<1> QED BY <1>3, <1>4, <1>5

(* UsableInv is inductive if no command fails that need not, and no clock. *)
LEMMA StepUsable ==
  ASSUME Overlap = FALSE, Faults \subseteq {"reset", "hang", "event"}, TurnsInv, UsableInv,
         [Next]_vars
  PROVE  UsableInv'
<1> USE DEF TurnsInv
<1>1. CASE \E t \in Thread : Takes(t)
  <2>1. ASSUME NEW t \in Thread, Hangs(t) PROVE UsableInv'
    <3>1. pc[t] \in CommandStep /\ pc' = [pc EXCEPT ![t] = "hung"]
      BY <2>1 DEF Hangs, Continue
    <3>2. "hung" \in Step /\ "hung" \in Early /\ pc[t] \notin {"idle", "hung"}
      BY <3>1 DEF Early, Step, CommandStep, ResetStep, SpeedStep
    <3> QED BY <3>1, <3>2, UsableMoved, EarlySteps
  <2> QED BY <1>1, <2>1, EarlyStepsUsable, CSDStepsUsable, setBlockLengthUsable,
             SpeedStepsUsable DEF Takes
<1>2. {"idle", "hung", "reset"} \subseteq Early
  BY DEF Early, Step, CommandStep, SpeedStep
<1>3. CASE handleCardChange
  <2>1. /\ pc["main"] \in {"idle", "hung"} /\ pc["change"] = "idle"
        /\ pc' = [pc EXCEPT !["change"] = "idle"] \/ pc' = [pc EXCEPT !["change"] = "reset"]
        /\ UNCHANGED <<isCardInserted, cardData, host, slot>>
    BY <1>3 DEF handleCardChange, OutOf, At, Continue
  <2>2. pc'["main"] = pc["main"] /\ pc'["change"] \in {"idle", "reset"}
    BY <2>1 DEF TypeOK, Thread
  <2>3. \A t \in Thread : pc'[t] \in Early
    BY <1>2, <2>1, <2>2 DEF Thread
  <2>4. \A t \in Thread : OnTheWay(pc[t])'
    BY <2>3, EarlySteps DEF OnTheWay
  <2>5. pc["main"] = "idle" /\ isCardInserted' => UsableCard'
    BY <2>1 DEF UsableInv, UsableCard, cardData
  <2> QED BY <2>2, <2>4, <2>5 DEF UsableInv
<1>4. CASE Sleep
  BY <1>4 DEF Sleep, UsableInv, OnTheWay, UsableCard, cardData
<1>5. CASE Wake
  <2>1. /\ pc["main"] = "idle" /\ pc["change"] \in {"idle", "hung"}
        /\ pc' = [pc EXCEPT !["main"] = "reset"]
    BY <1>5 DEF Wake, OutOf, At, Continue
  <2>2. pc'["main"] = "reset" /\ pc'["change"] \in {"idle", "hung"}
    BY <2>1 DEF TypeOK, Thread
  <2>3. \A t \in Thread : pc'[t] \in Early
    BY <1>2, <2>2 DEF Thread
  <2>4. \A t \in Thread : OnTheWay(pc[t])'
    BY <2>3, EarlySteps DEF OnTheWay
  <2> QED BY <2>2, <2>4 DEF UsableInv
<1>6. CASE Insert
  <2>1. PICK kind \in Kinds : slot' = CardIn(events + 2, kind)
    BY <1>6 DEF Insert
  <2>2. UNCHANGED <<pc, flags, cardData, host>> /\ events \in Nat
    BY <1>6, NoticedEffect DEF Insert
  <2>3. slot'.id # blockCount
    BY <2>1, <2>2 DEF CardIn, Numbered, TypeOK
  <2> QED BY <2>2, <2>3 DEF UsableInv, OnTheWay, UsableCard, flags, cardData
<1>7. CASE Remove
  <2>1. /\ UNCHANGED <<pc, flags, cardData>> /\ slot'.id = 0
        /\ host' = [host EXCEPT !.power = FALSE, !.clock = "off"]
    BY <1>7, NoticedEffect DEF Remove, NoCard, CardIn
  <2>2. host'.dma = host.dma
    BY <2>1 DEF TypeOK, Host
  <2> QED BY <2>1, <2>2 DEF UsableInv, OnTheWay, UsableCard, flags, cardData
<1>8. CASE UNCHANGED vars
  BY <1>8 DEF vars, UsableInv, OnTheWay, UsableCard, flags, cardData
<1> QED BY <1>1, <1>3, <1>4, <1>5, <1>6, <1>7, <1>8 DEF Next

(* A card that was probed and is held for inserted takes transfers, and an *)
(* eMMC is addressed in sectors and served in the controller's DMA mode,   *)
(* however often cards were changed and the machine slept, also when the   *)
(* controller cannot be reset, a command never returns or a card change    *)
(* goes unnoticed.                                                         *)
THEOREM UsableWhenInAlways ==
  ASSUME Overlap = FALSE, Faults \subseteq {"reset", "hang", "event"}
  PROVE  Spec => []UsableWhenIn
<1>1. Init => UsableInv
  <2> SUFFICES ASSUME Init PROVE UsableInv
    OBVIOUS
  <2>1. pc["main"] = "initCard" /\ \A t \in Thread : pc[t] \in Early
    BY DEF Init, Thread, Early, Step, CommandStep, SpeedStep
  <2> QED BY <2>1, EarlySteps DEF UsableInv
<1>2. TurnsInv /\ UsableInv /\ [Next]_vars => UsableInv'
  BY StepUsable
<1>3. UsableInv => UsableWhenIn
  BY DEF UsableInv, UsableCard, UsableWhenIn, Settled, Thread
<1> QED BY <1>1, <1>2, <1>3, Turns, PTL DEF Spec
=============================================================================
