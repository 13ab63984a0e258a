------------------------ MODULE CommandEngineResponse ------------------------
(***************************************************************************)
(* The command complete bit of CommandEngine is never a leftover: for every*)
(* card, pool and choice of the bounds, when it is set as a command without*)
(* data succeeds, the card has answered that very command.                 *)
(***************************************************************************)
EXTENDS CommandEngineSelection

------------------------------------------------------------------------------
(* The invariant.                                                          *)

(* r has no data and waits: what is on the lines is r itself, and a command*)
(* complete bit is its answer.                                             *)
OwnAnswer(r) ==
  /\ hw.phase = "cmd" => hw.send = "entry" /\ hw.req = r.req /\ hw.left = 0
  /\ CommandComplete \in status => r.req \in ran

AwaitsAnswer == Waits("DataTransfer") /\ ~HasData(cmd[current].entry)

AnswerInv ==
  /\ Parts /\ EntriesKnown /\ (sending = "app" => IsSDCard)
  /\ AwaitsAnswer => OwnAnswer(cmd[current])

(* A command that is not waited for has data.                              *)
LEMMA UnawaitedHasData ==
  ASSUME NEW e \in Entries, Has(e, "IgnoreCmdComplete")
  PROVE  HasData(e)
<1>1. e = "SendTuningBlock" /\ ~IsSDCard
  BY RowNames, MMCFlags, SDFlags DEF Has, NeedsSelection
<1>2. Table["SendTuningBlock"].direction # "None"
  BY <1>1 DEF Table, CommandTable, MMCCommandTable, Row
<1> QED BY <1>1, <1>2 DEF HasData

(* When a handler launches a command or falls asleep, nothing is awaited.  *)
LEMMA LaunchedAwaits ==
  ASSUME Launched', Parts', EntriesKnown', SendingFits'
  PROVE  AnswerInv'
<1>1. ~AwaitsAnswer'
  BY DEF Launched, AwaitsAnswer, Waits, GateFree, Send
<1>2. sending' = "app" => current' # None
  BY DEF Parts, EngineOK
<1>3. sending' = "app" => IsSDCard
  BY <1>2, Rows DEF EntriesKnown, SendingFits
<1> QED BY <1>1, <1>3 DEF AnswerInv

(* A step that leaves alone what is awaited keeps the invariant, if what it*)
(* does to the lines and the status register is right.                     *)
LEMMA AwaitingKept ==
  ASSUME AnswerInv, Parts', EntriesKnown',
         current' = current, sending' \in {sending, "no", "hung"},
         current # None /\ sending' = "no" =>
           sending = "no" /\ cmd'[current] = cmd[current],
         ran \subseteq ran',
         hw'.phase = "cmd" => hw' = hw,
         CommandComplete \in status' =>
           \/ CommandComplete \in status
           \/ hw.phase = "cmd" /\ (hw.send = "entry" /\ hw.left = 0 => hw.req \in ran')
  PROVE  AnswerInv'
<1>1. AwaitsAnswer' => AwaitsAnswer /\ cmd'[current'] = cmd[current]
  BY DEF AwaitsAnswer, Waits, GateFree
<1>2. AwaitsAnswer' => OwnAnswer(cmd[current])'
  BY <1>1 DEF AnswerInv, OwnAnswer
<1> QED BY <1>2 DEF AnswerInv

------------------------------------------------------------------------------
(* The steps of the driver.                                                *)

(* A caller that enters queues its request, or launches it.                *)
LEMMA EnterAwaits ==
  ASSUME AnswerInv, NEW r \in Request, NEW e \in Entries, Enters(r, e), Parts'
  PROVE  AnswerInv'
<1>1. EngineOK /\ EnvType /\ EntriesKnown /\ UNCHANGED <<hw, status, ran>>
  BY DEF AnswerInv, Parts, Enters, doAsyncCommandGated, getCommandWakes, card
<1>2. /\ EntriesKnown'
      /\ \/ /\ current' = current /\ sending' = sending
            /\ current # None => cmd'[current] = cmd[current]
         \/ Launched' /\ SendingFits'
  BY <1>1, EnterFits
<1>3. CASE Launched' /\ SendingFits'
  BY <1>2, <1>3, LaunchedAwaits
<1>4. CASE /\ current' = current /\ sending' = sending
           /\ current # None => cmd'[current] = cmd[current]
  BY <1>1, <1>2, <1>4, AwaitingKept
<1> QED BY <1>2, <1>3, <1>4

(* The current command ends, after its queue was, perhaps, flushed.        *)
LEMMA CompletionAwaits ==
  ASSUME AnswerInv, current # None, sending # "asleep", NEW w,
         w = Work \/ w = Flushed(Work), NEW result \in {"Timeout", "Aborted"},
         Complete(w, result), Parts'
  PROVE  AnswerInv'
<1>1. EngineOK /\ EnvType /\ EntriesKnown
  BY DEF AnswerInv, Parts
<1>2. Launched'
  BY <1>1, CompletionOK DEF Verdicts
<1>3. /\ current \in Cmd /\ InOrder(Work, current) /\ CurrentOK(Work, current)
      /\ isCardSelected \in BOOLEAN
  BY <1>1 DEF EngineOK
<1>4. EntriesKnown' /\ SendingFits'
  <2>1. CASE w = Work
    BY <1>1, <1>3, <2>1, WorkFields, CompleteFits
    DEF EntriesKnown, QueueKnown, Verdicts
  <2>2. CASE w = Flushed(Work)
    <3>1. InOrder(w, current)
      BY <1>3, <2>2, FlushedInOrder
    <3>2. w.queue = <<>> /\ w.answer = answer /\ w.cmd[current] = cmd[current]
      BY <1>3, <2>2, FlushedReqs, WorkFields
    <3>3. CurrentOK(w, current) /\ QueueKnown(w) /\ w.cmd[current].entry \in Entries
      BY <1>1, <1>3, <3>2, EmptyQueue, WorkFields DEF CurrentOK, QueueKnown, EntriesKnown
    <3> QED BY <1>3, <3>1, <3>3, CompleteFits DEF Verdicts
  <2> QED BY <2>1, <2>2
<1> QED BY <1>2, <1>4, LaunchedAwaits

(* An interrupt clears the status register.                                *)
LEMMA InterruptAwaits ==
  ASSUME AnswerInv, handleInterrupt, Parts'
  PROVE  AnswerInv'
<1>1. /\ EngineOK /\ EnvType /\ EntriesKnown /\ sending = "no" /\ status' = {}
      /\ ran' = ran /\ hw \in Operation
  BY DEF AnswerInv, Parts, handleInterrupt, GateFree, card, EnvType
<1>2. CASE cancelForRemoval /\ hw' = hw
  <2>1. CASE current # None
    BY <1>1, <1>2, <2>1, CompletionAwaits DEF cancelForRemoval
  <2>2. CASE current = None
    <3>1. Leave(Flushed(Work)) /\ UNCHANGED <<current, sending>>
      BY <1>2, <2>2 DEF cancelForRemoval
    <3>2. Flushed(Work).queue = <<>>
      BY <1>1, FlushedReqs DEF EngineOK
    <3>3. EntriesKnown'
      BY <2>2, <3>1, <3>2, EmptyQueue DEF Leave, EntriesKnown
    <3> QED BY <1>1, <1>2, <2>2, <3>1, <3>3, AwaitingKept
  <2> QED BY <2>1, <2>2
<1>3. CASE current = None /\ UNCHANGED <<work, isCardSelected, cleared, hw>>
  <2>1. UNCHANGED <<queue, cmd, current, sending, hw>>
    BY <1>3 DEF work
  <2>2. EntriesKnown'
    BY <1>1, <2>1 DEF EntriesKnown
  <2> QED BY <1>1, <2>1, <2>2, AwaitingKept
<1>4. CASE /\ current # None
           /\ cmd[current].state \in {"CardSelectionSent", "AppCommandSent"}
           /\ Launch(Work, current,
                     IF cmd[current].state = "CardSelectionSent"
                     THEN cmd[current].newSel ELSE isCardSelected)
           /\ UNCHANGED <<timer, hw>>
  <2>1. PICK sel : sel = IF cmd[current].state = "CardSelectionSent"
                         THEN cmd[current].newSel ELSE isCardSelected
    OBVIOUS
  <2>2. /\ current \in Cmd /\ Work \in WorkType /\ cmd[current] \in Command
        /\ InOrder(Work, current) /\ CurrentOK(Work, current)
        /\ isCardSelected \in BOOLEAN
    BY <1>1, <1>4, WorkFields DEF EngineOK, InOrder, WorkType
  <2>3. sel \in BOOLEAN
    BY <2>1, <2>2 DEF Command
  <2>4. /\ QueueKnown(Work) /\ Work.cmd[current].entry \in Entries
        /\ Launch(Work, current, sel)
    BY <1>1, <1>4, <2>1, WorkFields DEF EntriesKnown, QueueKnown
  <2>5. EntriesKnown' /\ SendingFits'
    BY <2>2, <2>3, <2>4, LaunchFits
  <2>6. Launched'
    BY <1>1, <1>4, <2>2, <2>3, <2>4, LaunchOK DEF EngineOK, EnvType
  <2> QED BY <2>5, <2>6, LaunchedAwaits
<1>5. CASE current # None /\ Transfer(status, hw)
  <2>1. /\ EntriesKnown'
        /\ \/ Launched' /\ SendingFits'
           \/ /\ current' = current /\ HasData(cmd[current].entry) /\ sending' = "no"
              /\ cmd'[current].entry = cmd[current].entry
    BY <1>1, <1>5, TransferFits
  <2>2. CASE Launched' /\ SendingFits'
    BY <2>1, <2>2, LaunchedAwaits
  <2>3. CASE /\ current' = current /\ HasData(cmd[current].entry) /\ sending' = "no"
             /\ cmd'[current].entry = cmd[current].entry
    BY <2>1, <2>3 DEF AnswerInv, AwaitsAnswer
  <2> QED BY <2>1, <2>2, <2>3
<1> QED BY <1>2, <1>3, <1>4, <1>5 DEF handleInterrupt, doAsyncIO

(* A command is written with an empty status register, and is waited for   *)
(* unless it has data.                                                     *)
LEMMA SendAwaits ==
  ASSUME AnswerInv, sendAsyncCommand, Parts'
  PROVE  AnswerInv' /\ (answer' = answer \/ HasData(cmd[current].entry))
<1>1. PICK r : r = cmd[current]
  OBVIOUS
<1>2. /\ EngineOK /\ EnvType /\ EntriesKnown /\ sending \in Send /\ current # None
      /\ sending # "asleep" /\ status' = {} /\ ran' = ran
      /\ r.state = StateAfter(sending) /\ r.entry \in Entries
  BY <1>1
  DEF AnswerInv, Parts, EngineOK, EntriesKnown, sendAsyncCommand, ClearStatus, Send, card
<1>3. CASE /\ ~Has(Wire(sending, r.entry), "IgnoreCmdComplete")
           /\ sending' = "no" /\ hw'.phase = "cmd" /\ hw'.send = sending
           /\ hw'.req = r.req
           /\ hw'.left = IF sending = "entry" /\ HasData(r.entry) THEN Total(r.entry) ELSE 0
           /\ UNCHANGED <<pool, queue, cmd, current, answer, timer, isCardSelected>>
  <2>1. r.state = "DataTransfer" => sending = "entry"
    BY <1>2 DEF StateAfter, Send
  <2>2. AwaitsAnswer' => OwnAnswer(cmd[current])'
    BY <1>1, <1>2, <1>3, <2>1 DEF AwaitsAnswer, Waits, OwnAnswer
  <2>3. EntriesKnown'
    BY <1>2, <1>3 DEF EntriesKnown
  <2> QED BY <1>3, <2>2, <2>3 DEF AnswerInv
<1>4. CASE /\ Has(Wire(sending, r.entry), "IgnoreCmdComplete")
           /\ \E op : Transfer({}, op)
  <2>1. PICK op : Transfer({}, op)
    BY <1>4
  <2>2. /\ EntriesKnown'
        /\ \/ Launched' /\ SendingFits'
           \/ /\ current' = current /\ HasData(cmd[current].entry) /\ sending' = "no"
              /\ cmd'[current].entry = cmd[current].entry
    BY <1>2, <2>1, TransferFits
  <2>3. Launched' /\ SendingFits' => AnswerInv'
    BY <2>2, LaunchedAwaits
  <2>4. CASE /\ current' = current /\ HasData(cmd[current].entry) /\ sending' = "no"
             /\ cmd'[current].entry = cmd[current].entry
    BY <2>2, <2>4 DEF AnswerInv, AwaitsAnswer
  <2>5. HasData(r.entry)
    <3>1. PICK e \in Entries : e = r.entry
      BY <1>2
    <3>2. CASE sending \in {"select", "deselect"}
      BY <1>4, <3>2, CompletionNotIgnored DEF Wire
    <3>3. CASE sending = "app"
      BY <1>4, <3>3, CompletionNotIgnored DEF Wire, AnswerInv
    <3>4. CASE sending = "entry"
      BY <1>4, <3>1, <3>4, UnawaitedHasData DEF Wire
    <3> QED BY <1>2, <3>2, <3>3, <3>4 DEF Send
  <2> QED BY <1>1, <2>2, <2>3, <2>4, <2>5
<1>5. \/ /\ Has(Wire(sending, r.entry), "IgnoreCmdComplete")
         /\ \E op : Transfer({}, op)
      \/ /\ ~Has(Wire(sending, r.entry), "IgnoreCmdComplete")
         /\ sending' = "no" /\ hw'.phase = "cmd" /\ hw'.send = sending
         /\ hw'.req = r.req
         /\ hw'.left = IF sending = "entry" /\ HasData(r.entry) THEN Total(r.entry) ELSE 0
         /\ UNCHANGED <<pool, queue, cmd, current, answer, timer, isCardSelected>>
  BY <1>1 DEF sendAsyncCommand
<1> QED BY <1>3, <1>4, <1>5
(* A timeout that races ends the current command.                          *)
LEMMA TimeoutAwaits ==
  ASSUME AnswerInv, handleIOTimeout, Parts'
  PROVE  AnswerInv'
<1>1. /\ current # None /\ sending # "asleep" /\ Complete(Work, "Timeout")
  BY DEF AnswerInv, Parts, EngineOK, handleIOTimeout, GateFree
<1> QED BY <1>1, CompletionAwaits

------------------------------------------------------------------------------
(* The hardware.                                                           *)

(* A command without data is over when the card has answered it.           *)
LEMMA RespondAwaits ==
  ASSUME AnswerInv, Respond, Parts'
  PROVE  AnswerInv'
<1>1. /\ hw.phase = "cmd" /\ hw \in Operation /\ UNCHANGED <<queue, cmd, current, sending>>
      /\ ran \subseteq ran' /\ (hw.send = "entry" /\ hw.left = 0 => hw.req \in ran')
  BY DEF Respond, AnswerInv, Parts, EnvType, driver, work
<1>2. hw'.phase # "cmd"
  BY <1>1, IdleFields DEF Respond, Operation
<1>3. EntriesKnown'
  BY <1>1 DEF AnswerInv, EntriesKnown
<1> QED BY <1>1, <1>2, <1>3, AwaitingKept

(* No other step of the hardware, or of a reset, sets the bit or puts a    *)
(* command on the lines.                                                   *)
LEMMA HardwareAwaits ==
  ASSUME AnswerInv, Parts',
         \/ MoveData \/ EndBusy \/ NoAnswer \/ Fault \/ Remove \/ Insert
         \/ initController \/ initControllerEnds \/ setControllerDMAMode
         \/ UNCHANGED vars
  PROVE  AnswerInv' /\ answer' = answer
<1>1. UNCHANGED <<queue, cmd, current, sending, answer>> /\ ran \subseteq ran'
  BY DEF MoveData, EndBusy, NoAnswer, Fault, Remove, Insert, initController,
         initControllerEnds, setControllerDMAMode, vars, driver, work, card
<1>2. hw'.phase = "cmd" => hw' = hw
  <2>1. hw' = hw \/ hw' \in Broken \/ hw'.phase \in {"idle", "data"}
    <3>1. CASE MoveData
      BY <3>1, IdleFields DEF MoveData, AnswerInv, Parts, EnvType, Operation
    <3> QED BY <3>1, IdleFields
            DEF EndBusy, NoAnswer, Fault, Remove, Insert, initController,
                initControllerEnds, setControllerDMAMode, vars
  <2> QED BY <2>1, BrokenType
<1>3. CommandComplete \in status' => CommandComplete \in status
  BY Bits
  DEF MoveData, EndBusy, NoAnswer, Fault, Remove, Insert, initController,
      initControllerEnds, setControllerDMAMode, vars, Raise, CommandComplete,
      TransferComplete
<1>4. EntriesKnown'
  BY <1>1 DEF AnswerInv, EntriesKnown
<1> QED BY <1>1, <1>2, <1>3, <1>4, AwaitingKept

(* Lines that never come free leave everything as it is.                   *)
LEMMA HangAwaits ==
  ASSUME AnswerInv, sendAsyncCommandHangs, Parts'
  PROVE  AnswerInv' /\ answer' = answer
<1>1. /\ sending' = "hung"
      /\ UNCHANGED <<queue, cmd, current, answer, hw, status, ran>>
  BY DEF sendAsyncCommandHangs, card
<1>2. EntriesKnown'
  BY <1>1 DEF AnswerInv, EntriesKnown
<1> QED BY <1>1, <1>2, AwaitingKept

------------------------------------------------------------------------------
(* The theorem.                                                            *)

(* Every step keeps the command complete bit with its command.             *)
LEMMA StepAwaits ==
  ASSUME AnswerInv, [Next]_vars
  PROVE  AnswerInv'
<1>1. Parts'
  BY StepParts DEF AnswerInv
<1>2. CASE \E r \in Request, e \in Entries :
             doAsyncCommandGated(r, e) \/ getCommandWakes(r, e)
  BY <1>1, <1>2, EnterAwaits DEF Enters
<1>3. CASE handleInterrupt
  BY <1>1, <1>3, InterruptAwaits
<1>4. CASE handleIOTimeout
  BY <1>1, <1>4, TimeoutAwaits
<1>5. CASE sendAsyncCommand
  BY <1>1, <1>5, SendAwaits
<1>6. CASE sendAsyncCommandHangs
  BY <1>1, <1>6, HangAwaits
<1>7. CASE Respond
  BY <1>1, <1>7, RespondAwaits
<1> QED BY <1>1, <1>2, <1>3, <1>4, <1>5, <1>6, <1>7, HardwareAwaits DEF Next

(* A step that reports the success of the current command, without data,   *)
(* handles an interrupt in the state of data transfer; a command complete  *)
(* bit it finds is then the command's own.                                 *)
LEMMA SuccessIsAnswered ==
  ASSUME AnswerInv, [Next]_vars, NEW r \in Request, AnswersCurrent(r),
         answer'[r] = "Success", ~HasData(cmd[current].entry),
         CommandComplete \in status
  PROVE  r \in ran
<1>1. /\ EngineOK /\ EnvType /\ answer[r] = "pending" /\ current # None
      /\ r = cmd[current].req /\ Parts'
  BY StepParts DEF AnswerInv, Parts, AnswersCurrent
<1>2. /\ current \in Cmd /\ InOrder(Work, current) /\ CurrentOK(Work, current)
      /\ isCardSelected \in BOOLEAN /\ cmd[current] \in Command
  BY <1>1, WorkFields DEF EngineOK, AnswersCurrent, InOrder, WorkType
<1>3. answer' # answer
  BY <1>1
<1>4. ASSUME NEW q \in Request, NEW e \in Entries, Enters(q, e)
      PROVE  FALSE
  <2>1. Server!Accept \/ Server!Resume
    BY <1>1, <1>4, SubmissionAccepts, WakingResumes DEF Enters
  <2>2. PICK p \in Request : /\ answer[p] \in {"none", "waiting"}
                             /\ \E v \in {"pending", "NoMedia", "waiting"} :
                                  answer' = [answer EXCEPT ![p] = v]
    BY <2>1 DEF Server!Accept, Server!Resume, Server!Submit, Server!Take
  <2> QED BY <1>1, <1>2, <2>2
<1>5. CASE handleInterrupt
  <2>1. CASE cancelForRemoval
    <3>1. Complete(Flushed(Work), "Aborted")
      BY <1>1, <2>1 DEF cancelForRemoval
    <3>2. /\ InOrder(Flushed(Work), current)
          /\ Flushed(Work).answer = answer /\ Flushed(Work).cmd[current] = cmd[current]
          /\ Flushed(Work).queue = <<>>
      BY <1>2, FlushedInOrder, FlushedReqs, WorkFields
    <3>3. CurrentOK(Flushed(Work), current) /\ cmd[current].state \in Waiting
      BY <1>1, <1>2, <3>2, EmptyQueue, WorkFields DEF CurrentOK, EngineOK
    <3>4. answer'[cmd[current].req] = "Aborted"
      BY <1>1, <1>2, <3>1, <3>2, <3>3, CompleteOK DEF EngineOK, EnvType
    <3> QED BY <1>1, <3>4
  <2>2. CASE Launch(Work, current,
                    IF cmd[current].state = "CardSelectionSent"
                    THEN cmd[current].newSel ELSE isCardSelected)
    <3>1. PICK sel : sel = IF cmd[current].state = "CardSelectionSent"
                           THEN cmd[current].newSel ELSE isCardSelected
      OBVIOUS
    <3>2. sel \in BOOLEAN /\ Launch(Work, current, sel)
      BY <1>2, <2>2, <3>1 DEF Command
    <3>3. answer' = answer
      BY <1>1, <1>2, <3>2, LaunchHeld, WorkFields DEF EnvType
    <3> QED BY <1>3, <3>3
  <2>3. CASE GateFree /\ cmd[current].state = "DataTransfer"
    <3>1. AwaitsAnswer
      BY <1>1, <2>3 DEF AwaitsAnswer, Waits
    <3> QED BY <1>1, <3>1 DEF AnswerInv, OwnAnswer
  <2> QED BY <1>1, <1>5, <2>1, <2>2, <2>3 DEF handleInterrupt, doAsyncIO
<1>6. CASE handleIOTimeout
  <2>1. Complete(Work, "Timeout")
    BY <1>6 DEF handleIOTimeout
  <2>2. cmd[current].state \in Waiting
    BY <1>1 DEF EngineOK
  <2>3. answer'[cmd[current].req] = "Timeout"
    BY <1>1, <1>2, <2>1, <2>2, CompleteOK, WorkFields DEF EngineOK, EnvType
  <2> QED BY <1>1, <2>3
<1>7. CASE sendAsyncCommand
  BY <1>1, <1>3, <1>7, SendAwaits
<1>8. CASE sendAsyncCommandHangs
  BY <1>1, <1>3, <1>8, HangAwaits
<1>9. CASE Respond
  BY <1>3, <1>9 DEF Respond, driver, work
<1> QED BY <1>1, <1>3, <1>4, <1>5, <1>6, <1>7, <1>8, <1>9, HardwareAwaits DEF Next, Enters

(* When the command complete bit is set as a command without data succeeds,*)
(* the card has answered that very command: whatever fails, races, comes   *)
(* and goes or is reset, the bit is never that of another command.         *)
THEOREM CommandCompletesAreOwn == Spec => CommandCompleteIsOwn
<1> DEFINE Own == \A r \in Request :
              Succeeds(r) /\ ~HasData(EntryFor(r)) /\ CommandComplete \in status
                => r \in ran
<1>1. Init => AnswerInv
  <2> SUFFICES ASSUME Init PROVE AnswerInv
    OBVIOUS
  <2>1. Parts /\ current = None /\ queue = <<>> /\ sending = "no"
    BY InitParts DEF Init
  <2> QED BY <2>1, EmptyQueue DEF AnswerInv, EntriesKnown, AwaitsAnswer, Waits
<1>2. AnswerInv /\ [Next]_vars => AnswerInv'
  BY StepAwaits
<1>3. AnswerInv /\ [Next]_vars => [Own]_vars
  <2> SUFFICES ASSUME AnswerInv, [Next]_vars, NEW r \in Request,
                      Succeeds(r), ~HasData(EntryFor(r)), CommandComplete \in status
               PROVE  r \in ran
    OBVIOUS
  <2>1. /\ answer[r] = "pending" /\ answer'[r] = "Success" /\ Parts
        /\ Untold(answer, answer', r) \/ AnswersCurrent(r)
    BY StepParts DEF Succeeds, AnswerStep, AnswerInv
  <2>2. AnswersCurrent(r)
    BY <2>1 DEF Untold
  <2>3. current \in InUse /\ cmd[current].req = r
    BY <2>1, <2>2, WorkFields DEF AnswersCurrent, Parts, EngineOK, InOrder, InUse
  <2>4. \A c \in InUse : cmd[c].req = r => c = current
    BY <2>1, <2>2, <2>3, PartsOfIInv
    DEF IInv, CommandsHoldPendingRequests, Held, AnswersCurrent
  <2>5. (CHOOSE c \in InUse : cmd[c].req = r) = current
    BY <2>3, <2>4
  <2>6. ~HasData(cmd[current].entry)
    BY <2>5 DEF EntryFor
  <2> QED BY <2>1, <2>2, <2>6, SuccessIsAnswered
<1>4. Spec => Init /\ [][Next]_vars
  BY PTL DEF Spec
<1>5. Spec => [][Own]_vars
  BY <1>1, <1>2, <1>3, <1>4, PTL
<1> QED BY <1>5 DEF CommandCompleteIsOwn
=============================================================================
