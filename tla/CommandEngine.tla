---------------------------- MODULE CommandEngine ----------------------------
(***************************************************************************)
(* The command engine of EmeraldSDHCBlockStorageDevice: the pool and queue *)
(* of commands, the state machine doAsyncIO that takes one command at a    *)
(* time through selection, application prefix, issue and data transfer,    *)
(* the interrupt and timeout handlers that drive it, and the flush on card *)
(* removal.  The host controller and the card are the environment: they    *)
(* answer, move data, raise interrupts, fail, go away and come back.       *)
(*                                                                         *)
(* doAsyncCommandGated, handleInterrupt and handleIOTimeout run under the  *)
(* gate of the work loop, so each is one step up to the point where        *)
(* sendAsyncCommand waits for the command and data lines: it spins with    *)
(* the gate held while the hardware goes on.  sending names the command it *)
(* waits to write to the Command register.  A caller that finds the pool   *)
(* empty sleeps in getCommand with the gate open until a command is        *)
(* returned; a completion callback that does so sleeps on the thread of    *)
(* the work loop, in the middle of the handler that called it.             *)
(*                                                                         *)
(* An operator Bug_X is X with a mistake that its code could well contain; *)
(* nothing here uses it.                                                   *)
(***************************************************************************)
EXTENDS Naturals, Sequences, FiniteSets, Functions, CommandTables

CONSTANTS
  Cmd,               \* the command objects of the pool
  Request,           \* the requests the callers may make
  None,              \* no command, no request, no table entry
  IsSDCard,          \* isSDCard(): an SD card, else an MMC
  Entries,           \* the commands the callers issue
  CallbackEntries,   \* the commands a completion callback may issue
  TransferTypes,     \* the values of _hcTransferType considered
  Chunks,            \* length of a multiple block transfer, in host chunks
  PrepareOutcomes,   \* whether IODMACommand accepts the buffer
  Outstanding,       \* bound: requests unanswered at the same time
  CardMayFail,       \* the card may answer nothing, or stop in mid transfer
  ResetMayFail,      \* the resets of handleIOTimeout may time out
  TimerMayRace,      \* the timeout may expire while the command progresses
  MaxEvents,         \* bound: card insertions and removals
  MaxResets          \* bound: runs of initController after the first

Table == CommandTable(IsSDCard)

ASSUME CmdAssumption ==
  IsFiniteSet(Cmd) /\ Cmd # {} /\ None \notin Cmd \cup Request \cup Entries

ASSUME EntriesAssumption ==
  /\ IsSDCard \in BOOLEAN
  /\ Entries \subseteq DOMAIN Table \ {"SelectDeselectCard", "AppCommand"}
  /\ CallbackEntries
       \subseteq Entries \cap {"ReadMultipleBlock", "WriteMultipleBlock"}
  /\ TransferTypes \subseteq {"PIO", "SDMA", "ADMA2"}
  /\ PrepareOutcomes \subseteq BOOLEAN /\ TRUE \in PrepareOutcomes

ASSUME BoundsAssumption ==
  /\ Chunks \in Nat \ {0} /\ Outstanding \in Nat
  /\ MaxEvents \in Nat /\ MaxResets \in Nat
  /\ {CardMayFail, ResetMayFail, TimerMayRace} \subseteq BOOLEAN

VARIABLES
  pool,             \* _cmdPool: the free commands
  queue,            \* _cmdQueue
  cmd,              \* the fields of each command object
  current,          \* _currentCommand
  answer,           \* what the caller of each request has been told
  sending,          \* what sendAsyncCommand waits to send; "no": gate is free;
                    \* "asleep": a callback sleeps in getCommand
  timer,            \* _timerEventSourceTimeouts is armed
  isCardSelected,   \* _isCardSelected
  hcTransferType,   \* _hcTransferType
  dmaMode,          \* the DMA mode in the Host Control register
  cleared,          \* a reset cleared the registers of a data transfer
                    \* since a command was last prepared
  initStep,         \* how far initController has come
  cardChange,       \* handleCardChange has been requested of its thread
  hw,               \* the operation on the command and data lines
  status,           \* Normal Interrupt Status register
  pendingInt,       \* an interrupt the work loop has yet to handle
  cardPresent,      \* a card is in the slot
  cardSelected,     \* the card takes itself for selected
  cardPrefixed,     \* the card takes the next command for an application one
  ran,              \* requests whose command or transfer came to its end
  served,           \* those of them whose transfer was set up as prepared
  events, resets    \* how often the bounded environment actions happened

work   == <<pool, queue, cmd, current, answer, sending, timer>>
mode   == <<hcTransferType, dmaMode, initStep>>
driver == <<work, isCardSelected, cleared, mode, cardChange>>
card   == <<cardPresent, cardSelected, cardPrefixed, ran, served>>
vars   == <<driver, hw, status, pendingInt, card, events, resets>>

------------------------------------------------------------------------------
(* The command table, as doAsyncIO and sendAsyncCommand consult it.        *)

Has(e, flag) == flag \in Table[e].flags
HasData(e)   == Table[e].direction # "None"
MovesData(e) == HasData(e) /\ ~Has(e, "IgnoreTransferComplete")

Total(e) ==
  IF e \in {"ReadMultipleBlock", "WriteMultipleBlock"} THEN Chunks ELSE 1

Wire(send, e) ==
  CASE send = "select"   -> "SelectDeselectCard"
    [] send = "deselect" -> "SelectDeselectCard"
    [] send = "app"      -> "AppCommand"
    [] OTHER             -> e

(* sendAsyncCommand expects no response to a deselection (argument 0).     *)
Response(send, e) ==
  IF send = "deselect" THEN "R0" ELSE Table[Wire(send, e)].response

------------------------------------------------------------------------------
(* Types.                                                                  *)

CommandComplete  == "CommandComplete"
TransferComplete == "TransferComplete"
CardBits  == {"CardInsertion", "CardRemoval"}
DataBits  == {TransferComplete, "DMAInterrupt", "BufferReady"}
StatusBit == CardBits \cup DataBits \cup {CommandComplete}

State == {"Start", "CardSelectionSent", "AppCommandSent", "DataTransfer", "Done"}
Send  == {"select", "deselect", "app", "entry"}

Command == [req    : Request \cup {None},
            entry  : Entries \cup {None},
            state  : State,
            newSel : BOOLEAN,      \* newCardSelectionState
            off    : 0..Chunks]    \* currentDataOffset, in chunks

Idle == [phase |-> "idle", send |-> "entry", entry |-> None, req |-> None,
         left |-> 0, fed |-> FALSE, own |-> FALSE]

(* own: the host's mode and registers were those this command prepared.    *)
(* fed: the host has the buffer space its next chunk needs.                *)
Operation == [phase : {"idle", "cmd", "data", "busy", "stuck"},
              send  : Send,
              entry : Entries \cup {None},
              req   : Request \cup {None},
              left  : 0..Chunks,
              fed   : BOOLEAN,
              own   : BOOLEAN]

(* waiting: the caller sleeps in getCommand; pending: a command holds the  *)
(* request.                                                                *)
Unanswered == {"waiting", "pending"}
Answer == {"none", "NoMedia", "Success", "Timeout", "Aborted"} \cup Unanswered

TypeOK ==
  /\ pool \subseteq Cmd /\ queue \in Seq(Cmd) /\ current \in Cmd \cup {None}
  /\ cmd \in [Cmd -> Command]
  /\ answer \in [Request -> Answer]
  /\ sending \in Send \cup {"no", "hung", "asleep"}
  /\ {timer, isCardSelected, cleared, cardChange, pendingInt, cardPresent,
      cardSelected, cardPrefixed} \subseteq BOOLEAN
  /\ hcTransferType \in TransferTypes /\ dmaMode \in {"SDMA", "ADMA2"}
  /\ initStep \in {"reset", "failed", "done"}
  /\ hw \in Operation /\ status \subseteq StatusBit
  /\ ran \subseteq Request /\ served \subseteq ran
  /\ events \in 0..MaxEvents /\ resets \in 0..MaxResets

(* zeroCommand, and the state a command has in the pool: the other fields  *)
(* are set again before they are read.                                     *)
Zeroed == [req |-> None, entry |-> None, state |-> "Done",
           newSel |-> FALSE, off |-> 0]

(* setControllerDMAMode: the mode it sets for a transfer type.             *)
ModeFor(type) == IF type = "ADMA2" THEN "ADMA2" ELSE "SDMA"

Init ==
  /\ pool = Cmd /\ queue = <<>> /\ current = None
  /\ cmd = [c \in Cmd |-> Zeroed]
  /\ answer = [r \in Request |-> "none"]
  /\ sending = "no" /\ timer = FALSE
  /\ isCardSelected = FALSE /\ cardSelected = FALSE /\ cardPrefixed = FALSE
  /\ hcTransferType \in TransferTypes /\ dmaMode = ModeFor(hcTransferType)
  /\ cleared = FALSE /\ initStep = "done"
  /\ cardChange = FALSE
  /\ hw = Idle /\ status = {} /\ pendingInt = FALSE
  /\ cardPresent \in BOOLEAN
  /\ ran = {} /\ served = {}
  /\ events = 0 /\ resets = 0

------------------------------------------------------------------------------
(* The pool, the queue and the answers, as one value: the handlers below   *)
(* pass it along from the state they find to the state they leave.         *)

Work == [pool |-> pool, queue |-> queue, cmd |-> cmd, answer |-> answer]

Leave(w) ==
  /\ pool' = w.pool /\ queue' = w.queue /\ cmd' = w.cmd /\ answer' = w.answer

(* The part of doAsyncCommandGated before the queue is looked at: there is *)
(* no card, or the caller sleeps in getCommand for want of a command, or a *)
(* zeroed command of the pool is filled in for the request and queued.     *)
NoCommandFor(w) == ~cardPresent \/ w.pool = {}

Bug_NotQueued(w, r) == [w EXCEPT !.answer = [@ EXCEPT ![r] = "waiting"]]

NotQueued(w, r) ==
  [w EXCEPT !.answer = [@ EXCEPT ![r] =
                         IF cardPresent THEN "waiting" ELSE "NoMedia"]]

(* Without the completion that was passed in.                              *)
Bug_Filled(r, e) == [Zeroed EXCEPT !.entry = e, !.state = "Start"]

Filled(r, e) == [Zeroed EXCEPT !.req = r, !.entry = e, !.state = "Start"]

addCommandToQueue(q, c) == Append(q, c)

Queued(w, r, e, c) ==
  [w EXCEPT !.pool   = @ \ {c},
            !.queue  = addCommandToQueue(@, c),
            !.cmd    = [@ EXCEPT ![c] = Filled(r, e)],
            !.answer = [@ EXCEPT ![r] = "pending"]]

MaySubmit(w, r) ==
  /\ w.answer[r] = "none"
  /\ Cardinality({q \in Request : w.answer[q] \in Unanswered}) < Outstanding

(* doAsyncIO from kEmeraldSDHCStateStart on: what the command must send    *)
(* next, given whether the driver takes the card for selected.             *)
Bug_NeedsSelect(e, sel) == FALSE

NeedsSelect(e, sel) ==
  /\ ~Has(e, "IgnoreSelectionState") /\ Has(e, NeedsSelection) /\ ~sel

NeedsDeselect(e, sel) ==
  /\ ~Has(e, "IgnoreSelectionState") /\ ~Has(e, NeedsSelection) /\ sel
  /\ e # "SelectDeselectCard"

Bug_NeedsPrefixNever(e, state) == FALSE

Bug_NeedsPrefixAlways(e, state) == IsSDCard /\ Has(e, "IsApplicationCmd")

NeedsPrefix(e, state) ==
  /\ IsSDCard /\ state # "AppCommandSent" /\ Has(e, "IsApplicationCmd")

NextSend(r, sel) ==
  IF NeedsSelect(r.entry, sel) THEN "select"
  ELSE IF NeedsDeselect(r.entry, sel) THEN "deselect"
  ELSE IF NeedsPrefix(r.entry, r.state) THEN "app"
  ELSE "entry"

Bug_StateAfterSelect(send) ==
  CASE send = "app" -> "AppCommandSent" [] send = "entry" -> "DataTransfer"
    [] OTHER -> "Start"

Bug_StateAfterDeselect(send) ==
  CASE send = "app"    -> "AppCommandSent"
    [] send = "select" -> "CardSelectionSent"
    [] OTHER           -> "DataTransfer"

StateAfter(send) ==
  CASE send = "app"   -> "AppCommandSent"
    [] send = "entry" -> "DataTransfer"
    [] OTHER          -> "CardSelectionSent"

(* prepareAsyncDataTransfer: ADMA2 describes the whole buffer, SDMA its    *)
(* first segment, PIO nothing.  A failure is reported to nobody.           *)
Bug_Prepared(r, ok) ==
  IF ~HasData(r.entry) \/ ~ok THEN r.off ELSE Total(r.entry) + 1

Prepared(r, ok) ==
  IF ~HasData(r.entry) \/ ~ok \/ hcTransferType = "PIO" THEN r.off
  ELSE IF hcTransferType = "SDMA" THEN 1 ELSE Total(r.entry)

(* It sets the block, DMA and transfer mode registers up unless it fails.  *)
SetsUp(r, sel, ok) ==
  /\ NextSend(r, sel) = "entry" /\ HasData(r.entry)
  /\ hcTransferType = "PIO" \/ ok

Sent(r, sel, ok) ==
  LET send == NextSend(r, sel)
  IN [r EXCEPT !.state  = StateAfter(send),
               !.newSel = IF send = "select" THEN TRUE
                          ELSE IF send = "deselect" THEN FALSE ELSE sel,
               !.off    = IF send = "entry" THEN Prepared(r, ok) ELSE @]

(* The command c becomes, or stays, the current one and reaches the next   *)
(* call of sendAsyncCommand.                                               *)
Launch(w, c, sel) ==
  \E ok \in PrepareOutcomes :
    /\ current' = c
    /\ sending' = NextSend(w.cmd[c], sel)
    /\ Leave([w EXCEPT !.cmd = [@ EXCEPT ![c] = Sent(w.cmd[c], sel, ok)]])
    /\ isCardSelected' = sel
    /\ cleared' = (cleared /\ ~SetsUp(w.cmd[c], sel, ok))

(* getNextCommandQueue and the recursive doAsyncIO of a completion.        *)
StartNext(w, sel) ==
  IF w.queue = <<>>
  THEN /\ current' = None /\ sending' = "no"
       /\ Leave(w)
       /\ isCardSelected' = sel /\ cleared' = cleared
  ELSE Launch([w EXCEPT !.queue = Tail(@)], Head(w.queue), sel)

(* kEmeraldSDHCStateComplete: the caller is told, by a callback that may   *)
(* submit another request while the command is still the current one; the  *)
(* timer is cancelled, the command returns to the pool and the next starts.*)
(* When the pool is empty the callback sleeps in getCommand, and with it   *)
(* the thread that would have done the rest.                               *)
Bug_Freed(w, c) == [w EXCEPT !.cmd = [@ EXCEPT ![c] = Zeroed]]

Freed(w, c) ==
  [w EXCEPT !.pool = @ \cup {c}, !.cmd = [@ EXCEPT ![c] = Zeroed]]

Bug_Told(w, c, result) == w

Told(w, c, result) ==
  [w EXCEPT !.answer = [@ EXCEPT ![w.cmd[c].req] = result]]

Bug_CompleteTimerKept(w, result) ==
  /\ timer' = timer
  /\ StartNext(Freed(Told(w, current, result), current), isCardSelected)

Bug_CompleteTwice(w, result) ==
  /\ Leave(Told(w, current, result))
  /\ timer' = FALSE /\ sending' = "no"
  /\ UNCHANGED <<current, isCardSelected, cleared>>

Complete(w, result) ==
  LET told      == Told(w, current, result)
      callsBack == w.cmd[current].entry \in CallbackEntries
  IN \/ /\ timer' = FALSE
        /\ \/ StartNext(Freed(told, current), isCardSelected)
           \/ /\ callsBack
              /\ \E r \in Request, e \in CallbackEntries :
                   /\ MaySubmit(told, r)
                   /\ \/ /\ ~cardPresent
                         /\ StartNext(Freed(NotQueued(told, r), current),
                                      isCardSelected)
                      \/ /\ cardPresent
                         /\ \E c \in told.pool :
                              StartNext(Freed(Queued(told, r, e, c), current),
                                        isCardSelected)
     \/ /\ callsBack /\ cardPresent /\ told.pool = {}
        /\ \E r \in Request : MaySubmit(told, r) /\ Leave(NotQueued(told, r))
        /\ sending' = "asleep"
        /\ UNCHANGED <<current, timer, isCardSelected, cleared>>

------------------------------------------------------------------------------
(* executeAsyncDataTransfer, for the interrupt bits st.                    *)

DataSeen(r, st) == st \cap DataBits # {} \/ Has(r.entry, "IgnoreTransferComplete")

AllMoved(r) == r.off >= Total(r.entry)

TransferDone(r, st) ==
  /\ DataSeen(r, st) /\ AllMoved(r)
  /\ TransferComplete \in st \/ Has(r.entry, "IgnoreTransferComplete")

(* A block is copied (PIO) or the next segment is handed to the host       *)
(* (SDMA; there is none if the buffer was not prepared).                   *)
Bug_MovesChunk(r, st) ==
  DataSeen(r, st) /\ ~AllMoved(r) /\ hcTransferType = "PIO"

MovesChunk(r, st) ==
  /\ DataSeen(r, st) /\ ~AllMoved(r)
  /\ hcTransferType = "PIO" \/ (hcTransferType = "SDMA" /\ r.off > 0)

(* kEmeraldSDHCStateDataTransfer and what follows it, h being the          *)
(* operation on the lines.                                                 *)
Transfer(st, h) ==
  LET r == cmd[current]
  IN IF HasData(r.entry) /\ ~TransferDone(r, st)
     THEN /\ IF MovesChunk(r, st)
             THEN /\ cmd' = [cmd EXCEPT ![current].off = @ + 1]
                  /\ hw' = [h EXCEPT !.fed = @ \/ h.phase = "data"]
             ELSE cmd' = cmd /\ hw' = h
          /\ sending' = "no"
          /\ UNCHANGED <<pool, queue, current, answer, timer, isCardSelected,
                         cleared>>
     ELSE Complete(Work, "Success") /\ hw' = h

doAsyncIO(st) ==
  \/ /\ current = None
     /\ UNCHANGED <<work, isCardSelected, cleared, hw>>
  \/ /\ current # None
     /\ cmd[current].state \in {"CardSelectionSent", "AppCommandSent"}
     /\ Launch(Work, current,
               IF cmd[current].state = "CardSelectionSent"
               THEN cmd[current].newSel ELSE isCardSelected)
     /\ UNCHANGED <<timer, hw>>
  \/ /\ current # None
     /\ cmd[current].state = "DataTransfer"
     /\ Transfer(st, hw)

------------------------------------------------------------------------------
(* The driver's handlers.  The thread of the work loop runs them when      *)
(* nothing is being sent and no callback sleeps.                           *)

GateFree == sending = "no"

(* The request r for e gets a command.  The timer is armed for it only     *)
(* when no command is current.                                             *)
Accept(r, e) ==
  \E c \in pool :
    LET w == Queued(Work, r, e, c)
    IN IF current = None
       THEN timer' = TRUE /\ StartNext(w, isCardSelected)
       ELSE /\ Leave(w)
            /\ UNCHANGED <<current, sending, timer, isCardSelected, cleared>>

(* A caller submits the command e as its request r.  The gate is open to   *)
(* it also while a callback sleeps.                                        *)
doAsyncCommandGated(r, e) ==
  /\ sending \in {"no", "asleep"} /\ MaySubmit(Work, r)
  /\ \/ /\ NoCommandFor(Work)
        /\ Leave(NotQueued(Work, r))
        /\ UNCHANGED <<current, sending, timer, isCardSelected, cleared>>
     \/ /\ ~NoCommandFor(Work)
        /\ Accept(r, e)
  /\ UNCHANGED <<mode, cardChange, hw, status, pendingInt, card, events, resets>>

(* A caller that sleeps in getCommand finds a command that was returned,   *)
(* and goes on; whether the card is still there is not asked again.        *)
getCommandWakes(r, e) ==
  /\ GateFree /\ answer[r] = "waiting"
  /\ Accept(r, e)
  /\ UNCHANGED <<mode, cardChange, hw, status, pendingInt, card, events, resets>>

(* flushCommandQueue: the commands go back to the pool; no completion is   *)
(* called.                                                                 *)
Flushed(w) ==
  [w EXCEPT !.queue = <<>>,
            !.pool  = @ \cup Range(w.queue),
            !.cmd   = [c \in Cmd |-> IF c \in Range(w.queue) THEN Zeroed
                                     ELSE w.cmd[c]]]

cancelForRemoval ==
  IF current = None
  THEN /\ Leave(Flushed(Work))
       /\ UNCHANGED <<current, sending, timer, isCardSelected, cleared>>
  ELSE Complete(Flushed(Work), "Aborted")

(* The interrupt source remembers that an interrupt came, not why: the     *)
(* bits may be gone from the status register by the time this runs.  The   *)
(* thread of handleCardChange is called last.                              *)
handleInterrupt ==
  /\ GateFree /\ pendingInt
  /\ pendingInt' = FALSE /\ status' = {}
  /\ IF "CardRemoval" \in status
     THEN cancelForRemoval /\ UNCHANGED hw
     ELSE doAsyncIO(status)
  /\ cardChange' = (cardChange \/ (status \cap CardBits # {} /\ sending' # "asleep"))
  /\ UNCHANGED <<mode, card, events, resets>>

(* Nothing the hardware or the driver has under way moves the command on.  *)
Stalled ==
  /\ \/ hw.phase \in {"idle", "stuck"} \/ (hw.phase = "data" /\ ~hw.fed)
     \/ initStep # "done"
  /\ ~pendingInt

(* resetController for the command and for the data line, which also clears*)
(* their status bits.  A reset that times out is not noticed.              *)
Bug_ResetLines == hw' = hw /\ status' = status

ResetLines == hw' = Idle /\ status' = status \cap CardBits

handleIOTimeout ==
  /\ GateFree /\ timer
  /\ TimerMayRace \/ Stalled
  /\ Complete(Work, "Timeout")
  /\ \/ ResetLines
     \/ ResetMayFail /\ UNCHANGED <<hw, status>>
  /\ UNCHANGED <<mode, cardChange, pendingInt, card, events, resets>>

(* Every bit is cleared, those of card insertion and removal among them.   *)
Bug_ClearStatus == status' = status

ClearStatus == status' = {}

(* sendAsyncCommand once the lines are free (CMD0 does not wait for them): *)
(* the whole status register is cleared and the command written.  One that *)
(* ignores command completion goes straight on to its data.                *)
sendAsyncCommand ==
  LET r    == cmd[current]
      wire == Wire(sending, r.entry)
      data == sending = "entry" /\ HasData(r.entry)
      op   == [phase |-> "cmd", send |-> sending, entry |-> r.entry,
               req |-> r.req, left |-> IF data THEN Total(r.entry) ELSE 0,
               fed |-> data,
               own |-> /\ ~cleared
                       /\ \/ hcTransferType = "PIO"
                          \/ r.off > 0 /\ dmaMode = ModeFor(hcTransferType)]
  IN /\ sending \in Send
     /\ hw.phase = "idle" \/ wire = "GoIdleState"
     /\ ClearStatus
     /\ IF Has(wire, "IgnoreCmdComplete")
        THEN Transfer({}, op)
        ELSE /\ sending' = "no" /\ hw' = op
             /\ UNCHANGED <<pool, queue, cmd, current, answer, timer,
                            isCardSelected, cleared>>
     /\ UNCHANGED <<mode, cardChange, pendingInt, card, events, resets>>

(* The lines never come free: sendAsyncCommand loops for ever, gate held.  *)
sendAsyncCommandHangs ==
  /\ sending \in Send
  /\ hw.phase = "stuck" /\ Wire(sending, cmd[current].entry) # "GoIdleState"
  /\ sending' = "hung"
  /\ UNCHANGED <<pool, queue, cmd, current, answer, timer, isCardSelected,
                 cleared, mode, cardChange, hw, status, pendingInt, card,
                 events, resets>>

(* initController, on the power or card change thread, outside the gate.   *)
(* The full reset puts the controller back into SDMA mode, clears the      *)
(* registers of a data transfer and disables every interrupt; it also      *)
(* takes the power from the card.                                          *)
Bug_initController ==
  /\ initStep # "reset" /\ resets < MaxResets /\ resets' = resets + 1
  /\ initStep' = "reset" /\ dmaMode' = "SDMA" /\ cleared' = TRUE
  /\ hw' = Idle /\ status' = {TransferComplete}
  /\ cardSelected' = FALSE /\ cardPrefixed' = FALSE
  /\ UNCHANGED <<work, isCardSelected, hcTransferType, cardChange, pendingInt,
                 cardPresent, ran, served, events>>

initController ==
  /\ initStep # "reset" /\ resets < MaxResets /\ resets' = resets + 1
  /\ initStep' = "reset" /\ dmaMode' = "SDMA" /\ cleared' = TRUE
  /\ hw' = Idle /\ status' = {}
  /\ cardSelected' = FALSE /\ cardPrefixed' = FALSE
  /\ UNCHANGED <<work, isCardSelected, hcTransferType, cardChange, pendingInt,
                 cardPresent, ran, served, events>>

(* The reset is over and interrupts are enabled again, or it timed out.    *)
initControllerEnds ==
  /\ initStep = "reset"
  /\ \/ initStep' = "done" /\ isCardSelected' = FALSE
     \/ initStep' = "failed" /\ isCardSelected' = isCardSelected
  /\ UNCHANGED <<work, cleared, hcTransferType, dmaMode, cardChange, hw, status,
                 pendingInt, card, events, resets>>

(* setControllerDMAMode, when the initialisation of a card comes so far.   *)
setControllerDMAMode ==
  /\ initStep = "done" /\ dmaMode # ModeFor(hcTransferType)
  /\ dmaMode' = ModeFor(hcTransferType)
  /\ UNCHANGED <<work, isCardSelected, cleared, hcTransferType, initStep,
                 cardChange, hw, status, pendingInt, card, events, resets>>

------------------------------------------------------------------------------
(* The host controller and the card.                                       *)

Raise(bits) ==
  IF initStep = "done"
  THEN status' = status \cup bits /\ pendingInt' = (pendingInt \/ bits # {})
  ELSE UNCHANGED <<status, pendingInt>>

CardAnswers ==
  \/ Response(hw.send, hw.entry) = "R0"
  \/ /\ cardPresent
     /\ hw.send = "entry" /\ Has(hw.entry, NeedsSelection) => cardSelected

CompletesCommand == hw.send # "entry" \/ ~Has(hw.entry, "IgnoreCmdComplete")

(* The response has come in: a busy signal or the data may follow.         *)
Respond ==
  /\ hw.phase = "cmd" /\ CardAnswers
  /\ hw' = IF hw.left > 0 THEN [hw EXCEPT !.phase = "data"]
           ELSE IF Response(hw.send, hw.entry) = "R1b"
           THEN [hw EXCEPT !.phase = "busy"] ELSE Idle
  /\ cardSelected' =
       (hw.send = "select" \/
        (cardSelected /\ hw.send # "deselect" /\ hw.entry # "GoIdleState"))
  /\ cardPrefixed' = (hw.send = "app")
  /\ Raise(IF CompletesCommand THEN {CommandComplete} ELSE {})
  /\ IF hw.send = "entry" /\ hw.left = 0
     THEN ran' = ran \cup {hw.req} /\ served' = served \cup {hw.req}
     ELSE UNCHANGED <<ran, served>>
  /\ UNCHANGED <<driver, cardPresent, events, resets>>

(* A chunk is moved.  PIO leaves each block to the driver, and SDMA stops  *)
(* at each segment but the last; a tuning block ends with its buffer.      *)
LastChunk ==
  \/ Has(hw.entry, "IgnoreTransferComplete")
  \/ hcTransferType = "PIO" /\ hw.left = 0
  \/ hcTransferType = "SDMA" /\ hw.left = 1
  \/ hcTransferType = "ADMA2"

(* A transfer that was not set up as prepared may stop or end anywhere.    *)
MoveData ==
  /\ hw.phase = "data" /\ hw.fed
  /\ \/ /\ hw.own => LastChunk
        /\ hw' = Idle
        /\ ran' = ran \cup {hw.req}
        /\ served' = IF hw.own THEN served \cup {hw.req} ELSE served
        /\ Raise(IF CompletesCommand THEN {TransferComplete} ELSE {"BufferReady"})
     \/ /\ hw.own => ~LastChunk
        /\ hw' = [hw EXCEPT !.left = IF hw.own THEN @ - 1 ELSE @, !.fed = FALSE]
        /\ UNCHANGED <<ran, served>>
        /\ \E b \in {"BufferReady", "DMAInterrupt"} :
             /\ hw.own => (b = "BufferReady" <=> hcTransferType = "PIO")
             /\ Raise({b})
  /\ UNCHANGED <<driver, cardPresent, cardSelected, cardPrefixed, events, resets>>

EndBusy ==
  /\ hw.phase = "busy"
  /\ hw' = Idle /\ Raise({TransferComplete})
  /\ UNCHANGED <<driver, card, events, resets>>

(* An operation that ends in an error leaves the lines free or inhibited.  *)
(* Its error bit raises no interrupt: initController enables none of them. *)
Broken == {Idle, [Idle EXCEPT !.phase = "stuck"]}

NoAnswer ==
  /\ hw.phase = "cmd" /\ ~CardAnswers
  /\ hw' \in Broken
  /\ UNCHANGED <<driver, status, pendingInt, card, events, resets>>

(* The card fails though it could answer; a selection may still have       *)
(* reached it.                                                             *)
Fault ==
  /\ CardMayFail
  /\ \/ hw.phase \in {"data", "busy"} /\ cardSelected' = cardSelected
     \/ /\ hw.phase = "cmd" /\ CardAnswers
        /\ Response(hw.send, hw.entry) # "R0"
        /\ cardSelected' \in {cardSelected, cardSelected \/ hw.send = "select"}
  /\ hw' \in Broken
  /\ UNCHANGED <<driver, status, pendingInt, cardPresent, cardPrefixed, ran,
                 served, events, resets>>

Remove ==
  /\ cardPresent /\ events < MaxEvents /\ events' = events + 1
  /\ cardPresent' = FALSE /\ cardSelected' = FALSE /\ cardPrefixed' = FALSE
  /\ IF hw.phase = "idle" THEN hw' = hw ELSE hw' \in Broken
  /\ Raise({"CardRemoval"})
  /\ UNCHANGED <<driver, ran, served, resets>>

Insert ==
  /\ ~cardPresent /\ events < MaxEvents /\ events' = events + 1
  /\ cardPresent' = TRUE
  /\ Raise({"CardInsertion"})
  /\ UNCHANGED <<driver, hw, cardSelected, cardPrefixed, ran, served, resets>>

------------------------------------------------------------------------------
Next ==
  \/ \E r \in Request, e \in Entries :
       doAsyncCommandGated(r, e) \/ getCommandWakes(r, e)
  \/ handleInterrupt \/ handleIOTimeout
  \/ sendAsyncCommand \/ sendAsyncCommandHangs
  \/ initController \/ initControllerEnds \/ setControllerDMAMode
  \/ Respond \/ MoveData \/ EndBusy \/ NoAnswer \/ Fault
  \/ Remove \/ Insert

Spec == Init /\ [][Next]_vars

(* The work loop's thread runs its sources, the timer expires, a thread    *)
(* that sleeps in getCommand is woken for a returned command, a loop that  *)
(* counts comes to its end, and the hardware ends what it began; nothing   *)
(* makes a card fail or come and go.                                       *)
Fairness ==
  /\ WF_vars(handleInterrupt) /\ WF_vars(handleIOTimeout)
  /\ \A r \in Request : WF_vars(\E e \in Entries : getCommandWakes(r, e))
  /\ WF_vars(sendAsyncCommand) /\ WF_vars(sendAsyncCommandHangs)
  /\ WF_vars(Respond \/ MoveData \/ EndBusy \/ NoAnswer)

FairSpec == Spec /\ Fairness
------------------------------------------------------------------------------
(* Safety.                                                                 *)

(* Every command object is in exactly one place: free in the pool, once in *)
(* the queue, or current.  A command completed twice, queued while it is   *)
(* current or dropped by the flush would break this.                       *)
EveryCommandAccountedFor ==
  /\ IsInjective(queue)
  /\ pool \cap Range(queue) = {}
  /\ current \notin pool \cup Range(queue)
  /\ pool \cup Range(queue) \cup ({current} \ {None}) = Cmd

(* The commands in use hold different requests, none of them answered yet: *)
(* a completion speaks to one caller, who is still waiting for it.  Only   *)
(* the command whose completion has fallen asleep is done with its own.    *)
InUse == Cmd \ pool
Held  == {c \in InUse : sending = "asleep" => c # current}

CommandsHoldPendingRequests ==
  /\ \A c \in Held : cmd[c].req \in Request /\ answer[cmd[c].req] = "pending"
  /\ \A c, d \in Held : cmd[c].req = cmd[d].req => c = d

(* The engine is never left with queued work, an armed timer or a held     *)
(* gate and no current command: handleIOTimeout, which uses _currentCommand*)
(* without looking, always finds one, and a queued command always has a    *)
(* completion ahead of it that will start it.  When a callback sleeps in   *)
(* getCommand there is no free command that it could have taken.           *)
NoStrandedWork ==
  /\ current = None => queue = <<>> /\ ~timer /\ sending = "no"
  /\ sending = "asleep" => pool = {}

(* The current command is in a state from which doAsyncIO knows how to go  *)
(* on, the one that fits what is being sent for it, and the queued ones    *)
(* have not started: the default branch of doAsyncIO is never taken.       *)
CommandStatesKnown ==
  /\ current # None =>
       cmd[current].state \in {"CardSelectionSent", "AppCommandSent", "DataTransfer"}
  /\ sending \in Send => cmd[current].state = StateAfter(sending)
  /\ \A c \in Range(queue) : cmd[c].state = "Start" /\ cmd[c].off = 0

(* While a data command waits for interrupts, the lines carry its own      *)
(* operation or none at all; and when all of the buffer is accounted for, a*)
(* transfer complete bit in the status register means that the hardware    *)
(* has come to the end of it.  As long as initController has not run again,*)
(* the operation is also set up for the command's own buffer, which it does*)
(* not miss.                                                               *)
TransfersAreOwn ==
  /\ hw.phase \in {"cmd", "data"} => hw.req \in Request
  /\ hw.phase = "data" /\ hcTransferType = "SDMA" => hw.left > 0
  /\ resets = 0 => ~cleared /\ dmaMode = ModeFor(hcTransferType)
  /\ GateFree /\ current # None =>
       LET r == cmd[current]
       IN r.state = "DataTransfer" /\ MovesData(r.entry) =>
            /\ hw.phase \in {"cmd", "data", "busy"} =>
                 /\ hw.req = r.req /\ hw.send = "entry" /\ hw.phase # "busy"
                 /\ hw.phase = "cmd" => hw.left > 0
                 /\ resets = 0 => hw.own \/ (r.off = 0 /\ hcTransferType # "PIO")
            /\ TransferComplete \in status /\ AllMoved(r) =>
                 r.req \in ran /\ (resets = 0 => r.req \in served)

(* Every request that waits for an answer is held by a command that will   *)
(* bring it.                                                               *)
PendingRequestsAreHeld ==
  \A r \in Request : answer[r] = "pending" => \E c \in InUse : cmd[c].req = r

(* What a caller has been told is final: no completion comes twice, or     *)
(* after a refusal.                                                        *)
AnsweredOnce ==
  [][\A r \in Request :
       answer[r] \notin {"none"} \cup Unanswered => answer'[r] = answer[r]]_vars

(* A transfer is reported a success only after the hardware has come to the*)
(* end of this very request's operation: whatever interrupts, timeouts,    *)
(* resets and card changes come before, no leftover status bit completes a *)
(* transfer.  As long as initController has not run again, the hardware has*)
(* moved all of it to or from the buffer of this request.                  *)
Succeeds(r) == answer[r] = "pending" /\ answer'[r] = "Success"

EntryFor(r) == cmd[CHOOSE c \in InUse : cmd[c].req = r].entry

DataSuccessIsReal ==
  [][\A r \in Request :
       Succeeds(r) /\ MovesData(EntryFor(r)) =>
         r \in ran /\ (resets = 0 => r \in served)]_vars

(* A transfer is reported a success only after the hardware has moved all  *)
(* of it to or from the buffer of this very request, in the mode for which *)
(* prepareAsyncDataTransfer generated its segments.                        *)
TransfersReachTheirBuffer ==
  [][\A r \in Request :
       Succeeds(r) /\ MovesData(EntryFor(r)) => r \in served]_vars

(* A command without data is reported a success only after the card has    *)
(* answered it, so that the response registers read are its own.           *)
ResponseIsReal ==
  [][\A r \in Request :
       Succeeds(r) /\ ~HasData(EntryFor(r)) => r \in ran]_vars

(* The command complete bit is never a leftover: when it is set as a       *)
(* command without data is reported a success, the card has answered this  *)
(* very command, although prefixes and selections set the same bit, a late *)
(* timeout may have ended the command before, and the register is cleared  *)
(* and read at other times than the hardware sets it.                      *)
CommandCompleteIsOwn ==
  [][\A r \in Request :
       Succeeds(r) /\ ~HasData(EntryFor(r)) /\ CommandComplete \in status =>
         r \in ran]_vars

(* No completion sleeps on the thread of the work loop: getCommand, called *)
(* there with an empty pool, would wait for a command that this thread     *)
(* alone can return.                                                       *)
WorkLoopNeverSleeps == sending # "asleep"

(* A command that needs the card selected reaches a card that is, and an   *)
(* application command a card that has just been sent the prefix: with a   *)
(* card that answers, _isCardSelected and the command state never run      *)
(* ahead of the card, whatever leftover interrupts advance them.           *)
IssuedInTheRightState ==
  hw.phase = "cmd" /\ hw.send = "entry" =>
    /\ Has(hw.entry, NeedsSelection) => cardSelected
    /\ Has(hw.entry, "IsApplicationCmd") => cardPrefixed

(* Requests are answered in the order in which they were given a command,  *)
(* one at a time, and one is kept waiting for a command only when every    *)
(* command is in use.                                                      *)
asleep == sending = "asleep"

held ==
  LET waiting == [i \in DOMAIN queue |-> cmd[queue[i]].req]
  IN IF current = None \/ asleep THEN waiting
     ELSE <<cmd[current].req>> \o waiting

Server == INSTANCE CommandServer
            WITH Capacity <- Cardinality(Cmd), outstanding <- held

ImplementsServer == Server!Spec

------------------------------------------------------------------------------
(* Liveness.                                                               *)

(* Every accepted request is answered in the end, those among them that    *)
(* first have to wait for a command.                                       *)
EveryRequestAnswered ==
  \A r \in Request : answer[r] \in Unanswered ~> answer[r] \notin Unanswered

(* The only way in which the request of a caller that is alone goes without*)
(* an answer is the loop in sendAsyncCommand that nothing ends: the timer  *)
(* covers every other silence of the card.                                 *)
AnsweredUnlessHung ==
  \A r \in Request : answer[r] \in Unanswered ~>
                        answer[r] \notin Unanswered \/ sending = "hung"

(* A card that comes or goes is looked at by handleCardChange in the end.  *)
EveryCardChangeNoticed == events > 0 ~> cardChange
=============================================================================
