----------------------- MODULE CommandEngineSelection ------------------------
(***************************************************************************)
(* What CommandEngine and the card agree on while the card answers and     *)
(* stays: a command that needs the card selected, or prefixed, reaches a   *)
(* card that is.                                                           *)
(***************************************************************************)
EXTENDS CommandEngineRefinement

------------------------------------------------------------------------------
(* The command tables.                                                     *)

(* The names of the rows of both tables.                                   *)
LEMMA RowNames ==
  ASSUME NEW e \in Entries
  PROVE  IF IsSDCard
         THEN e \in {"GoIdleState", "AllSendCID", "SendRelativeAddress", "SendIfCond",
                     "SendCSD", "SetBlockLength", "ReadMultipleBlock",
                     "WriteMultipleBlock", "AppSetBusWidth", "AppSendOpCond"}
         ELSE e \in {"GoIdleState", "SendOpCond", "AllSendCID", "SetRelativeAddress",
                     "Switch", "SendExtCSD", "SendCSD", "SetBlockLength",
                     "ReadMultipleBlock", "SendTuningBlock", "WriteMultipleBlock"}
<1>1. e \in DOMAIN Table \ {"SelectDeselectCard", "AppCommand"}
  BY EntriesAssumption
<1>2. CASE IsSDCard
  BY <1>1, <1>2 DEF Table, CommandTable, SDCommandTable, SDAppCommandTable
<1>3. CASE ~IsSDCard
  BY <1>1, <1>3 DEF Table, CommandTable, MMCCommandTable
<1> QED BY <1>2, <1>3

(* The flags of the rows of an MMC.                                        *)
LEMMA MMCFlags ==
  ASSUME ~IsSDCard
  PROVE  /\ \A e \in {"GoIdleState", "SendOpCond", "AllSendCID", "SetRelativeAddress",
                      "SendCSD", "SelectDeselectCard"} : Table[e].flags = {}
         /\ \A e \in {"Switch", "SendExtCSD", "SetBlockLength", "ReadMultipleBlock",
                      "WriteMultipleBlock"} : Table[e].flags = {"NeedsSelection"}
         /\ Table["SendTuningBlock"].flags =
              {"NeedsSelection", "IgnoreCmdComplete", "IgnoreTransferComplete"}
BY DEF Table, CommandTable, MMCCommandTable, Row, Tuning, NeedsSelection

(* The flags of the rows of an SD card.                                    *)
LEMMA SDFlags ==
  ASSUME IsSDCard
  PROVE  /\ \A e \in {"GoIdleState", "AllSendCID", "SendRelativeAddress", "SendIfCond",
                      "SendCSD", "SelectDeselectCard"} : Table[e].flags = {}
         /\ \A e \in {"SetBlockLength", "ReadMultipleBlock", "WriteMultipleBlock"} :
              Table[e].flags = {"NeedsSelection"}
         /\ \A e \in {"AppSetBusWidth", "AppSendOpCond"} :
              Table[e].flags = {"IsApplicationCmd"}
         /\ Table["AppCommand"].flags = {"IgnoreSelectionState"}
BY DEF Table, CommandTable, SDCommandTable, SDAppCommandTable, Row, NeedsSelection

(* What the engine relies on of the commands that are issued.              *)
LEMMA Rows ==
  ASSUME NEW e \in Entries
  PROVE  /\ e # "SelectDeselectCard" /\ ~Has(e, "IgnoreSelectionState")
         /\ Has(e, "IsApplicationCmd") => IsSDCard /\ ~Has(e, NeedsSelection)
         /\ e = "GoIdleState" => ~Has(e, NeedsSelection) /\ ~Has(e, "IsApplicationCmd")
         /\ Has(e, "IgnoreTransferComplete") => Has(e, "IgnoreCmdComplete")
BY RowNames, MMCFlags, SDFlags DEF Has, NeedsSelection

(* Selections and prefixes are waited for.                                 *)
LEMMA CompletionNotIgnored ==
  /\ ~Has("SelectDeselectCard", "IgnoreCmdComplete")
  /\ IsSDCard => ~Has("AppCommand", "IgnoreCmdComplete")
BY MMCFlags, SDFlags DEF Has

------------------------------------------------------------------------------
(* What a handler leaves to be sent.                                       *)

QueueKnown(w) == \A c \in Range(w.queue) : w.cmd[c].entry \in Entries

(* The commands that wait or are current are some that the callers issue.  *)
EntriesKnown ==
  /\ current # None => cmd[current].entry \in Entries
  /\ \A c \in Range(queue) : cmd[c].entry \in Entries

(* What is about to be sent is what the command needs next, given that the *)
(* driver takes the card for selected or not.                              *)
SendingFits ==
  /\ sending = "deselect" => ~cmd[current].newSel
  /\ sending = "app" => Has(cmd[current].entry, "IsApplicationCmd")
  /\ sending = "entry" =>
       /\ Has(cmd[current].entry, NeedsSelection) => isCardSelected
       /\ cmd[current].entry = "GoIdleState" => ~isCardSelected

AppIsSent == sending = "entry" /\ Has(cmd[current].entry, "IsApplicationCmd")

(* doAsyncIO sends for a command what it needs; an application command     *)
(* goes out only for one that was in the state after the prefix.           *)
LEMMA LaunchFits ==
  ASSUME NEW w \in WorkType, NEW c \in Cmd, NEW sel \in BOOLEAN,
         w.cmd[c].entry \in Entries, QueueKnown(w), Launch(w, c, sel)
  PROVE  /\ EntriesKnown' /\ SendingFits' /\ isCardSelected' = sel
         /\ AppIsSent' => w.cmd[c].state = "AppCommandSent"
<1>1. PICK ok \in PrepareOutcomes :
        /\ current' = c
        /\ sending' = NextSend(w.cmd[c], sel)
        /\ Leave([w EXCEPT !.cmd = [@ EXCEPT ![c] = Sent(w.cmd[c], sel, ok)]])
        /\ isCardSelected' = sel
  BY DEF Launch
<1>2. PICK s : s = Sent(w.cmd[c], sel, ok)
  OBVIOUS
<1>3. PICK m : m = [w.cmd EXCEPT ![c] = s]
  OBVIOUS
<1>4. /\ w.cmd[c] \in Command /\ Range(w.queue) \subseteq Cmd
      /\ m[c] = s /\ \A d \in Cmd : d # c => m[d] = w.cmd[d]
  BY <1>3 DEF WorkType, Range
<1>5. cmd' = m /\ queue' = w.queue
  <2>1. Leave([w EXCEPT !.cmd = m])
    BY <1>1, <1>2, <1>3
  <2> QED BY <2>1 DEF Leave, WorkType
<1>6. /\ s.entry = w.cmd[c].entry
      /\ s.newSel = IF sending' = "select" THEN TRUE
                    ELSE IF sending' = "deselect" THEN FALSE ELSE sel
  BY <1>1, <1>2, <1>4 DEF Sent, Command
<1>7. EntriesKnown'
  BY <1>1, <1>4, <1>5, <1>6 DEF EntriesKnown, QueueKnown
<1>8. PICK e \in Entries : e = w.cmd[c].entry
  OBVIOUS
<1>9. cmd'[current'].entry = e /\ cmd'[current'].newSel = s.newSel
  BY <1>1, <1>4, <1>5, <1>6, <1>8
<1>10. /\ sending' = "app" => Has(e, "IsApplicationCmd")
       /\ sending' = "entry" =>
            /\ ~NeedsSelect(e, sel) /\ ~NeedsDeselect(e, sel)
            /\ ~NeedsPrefix(e, w.cmd[c].state)
  BY <1>1, <1>8 DEF NextSend, NeedsPrefix
<1>11. SendingFits'
  BY <1>1, <1>6, <1>8, <1>9, <1>10, Rows DEF SendingFits, NeedsSelect, NeedsDeselect
<1>12. AppIsSent' => w.cmd[c].state = "AppCommandSent"
  BY <1>8, <1>9, <1>10, Rows DEF AppIsSent, NeedsPrefix
<1> QED BY <1>1, <1>7, <1>11, <1>12

(* The next command of the queue starts at the beginning.                  *)
LEMMA StartNextFits ==
  ASSUME NEW w, InOrder(w, None), NEW sel \in BOOLEAN, QueueKnown(w), StartNext(w, sel)
  PROVE  EntriesKnown' /\ SendingFits' /\ isCardSelected' = sel /\ ~AppIsSent'
<1>1. CASE w.queue = <<>>
  <2>1. /\ current' = None /\ sending' = "no" /\ queue' = <<>> /\ isCardSelected' = sel
    BY <1>1 DEF StartNext, Leave
  <2> QED BY <2>1, EmptyQueue DEF EntriesKnown, SendingFits, AppIsSent
<1>2. CASE w.queue # <<>>
  <2>1. PICK v : v = [w EXCEPT !.queue = Tail(@)]
    OBVIOUS
  <2>2. PICK c : c = Head(w.queue)
    OBVIOUS
  <2>3. /\ c \in Cmd /\ Tail(w.queue) \in Seq(Cmd) /\ c \in Range(w.queue)
        /\ Range(Tail(w.queue)) = Range(w.queue) \ {c}
    BY <1>2, <2>2, RemoveFirst DEF InOrder, WorkType
  <2>4. v \in WorkType /\ v.queue = Tail(w.queue) /\ v.cmd = w.cmd
    BY <2>1, <2>3 DEF InOrder, WorkType
  <2>5. Launch(v, c, sel)
    BY <1>2, <2>1, <2>2 DEF StartNext
  <2>6. QueueKnown(v) /\ v.cmd[c].entry \in Entries /\ v.cmd[c].state = "Start"
    BY <2>3, <2>4 DEF QueueKnown, InOrder, QueuedOK
  <2> QED BY <2>3, <2>4, <2>5, <2>6, LaunchFits
<1> QED BY <1>1, <1>2
(* A command queued for a request is one that the callers issue.           *)
LEMMA QueuedKnown ==
  ASSUME NEW w, NEW cur, InOrder(w, cur), QueueKnown(w), NEW r \in Request,
         NEW e \in Entries, NEW c \in w.pool
  PROVE  /\ QueueKnown(Queued(w, r, e, c))
         /\ Queued(w, r, e, c).queue = Append(w.queue, c)
         /\ Range(Append(w.queue, c)) = Range(w.queue) \cup {c}
         /\ Queued(w, r, e, c).cmd = [w.cmd EXCEPT ![c] = Filled(r, e)]
<1>1. /\ w.queue \in Seq(Cmd) /\ w.cmd \in [Cmd -> Command] /\ c \in Cmd
      /\ c \notin Range(w.queue) /\ Range(w.queue) \subseteq Cmd /\ IsInjective(w.queue)
  BY DEF InOrder, WorkType
<1>2. Range(Append(w.queue, c)) = Range(w.queue) \cup {c}
  BY <1>1, AppendToQueue
<1>3. /\ Queued(w, r, e, c).queue = Append(w.queue, c)
      /\ Queued(w, r, e, c).cmd = [w.cmd EXCEPT ![c] = Filled(r, e)]
  BY DEF Queued, addCommandToQueue, InOrder, WorkType
<1>4. Filled(r, e).entry = e
  BY DEF Filled, Zeroed
<1>5. QueueKnown(Queued(w, r, e, c))
  BY <1>1, <1>2, <1>3, <1>4 DEF QueueKnown
<1> QED BY <1>2, <1>3, <1>5

(* So does what follows a completion, the request of its callback included.*)
LEMMA CompleteFits ==
  ASSUME NEW w, current \in Cmd, InOrder(w, current), CurrentOK(w, current), QueueKnown(w),
         w.cmd[current].entry \in Entries, isCardSelected \in BOOLEAN, NEW result \in Verdicts, Complete(w, result)
  PROVE  /\ EntriesKnown' /\ SendingFits' /\ ~AppIsSent'
         /\ isCardSelected' = isCardSelected
<1> DEFINE Goal == /\ EntriesKnown' /\ SendingFits' /\ ~AppIsSent'
                   /\ isCardSelected' = isCardSelected
<1>1. PICK told : told = Told(w, current, result)
  OBVIOUS
<1>2. InOrder(told, current) /\ QueueKnown(told) /\ told.cmd = w.cmd
  <2>1. result \in Answer
    BY DEF Verdicts, Answer
  <2>2. InOrder(told, current)
    BY <1>1, <2>1, ToldInOrder DEF CurrentOK
  <2>3. told.queue = w.queue /\ told.cmd = w.cmd
    BY <1>1 DEF Told, InOrder, WorkType
  <2> QED BY <2>2, <2>3 DEF QueueKnown
<1>3. ASSUME NEW v, InOrder(v, current), QueueKnown(v),
             StartNext(Freed(v, current), isCardSelected)
      PROVE  Goal
  <2>1. InOrder(Freed(v, current), None)
    BY <1>3, FreedInOrder
  <2>2. /\ Freed(v, current).queue = v.queue
        /\ Freed(v, current).cmd = [v.cmd EXCEPT ![current] = Zeroed]
    BY <1>3 DEF Freed, InOrder, WorkType
  <2>3. /\ current \notin Range(v.queue) /\ Range(v.queue) \subseteq Cmd
        /\ v.cmd \in [Cmd -> Command]
    BY <1>3 DEF InOrder, WorkType
  <2>4. QueueKnown(Freed(v, current))
    BY <1>3, <2>2, <2>3 DEF QueueKnown
  <2> QED BY <1>3, <2>1, <2>4, StartNextFits
<1>4. CASE StartNext(Freed(told, current), isCardSelected)
  BY <1>2, <1>3, <1>4
<1>5. ASSUME NEW r \in Request, told.answer[r] = "none"
      PROVE  /\ NotQueued(told, r).queue = told.queue /\ NotQueued(told, r).cmd = told.cmd
             /\ InOrder(NotQueued(told, r), current) /\ QueueKnown(NotQueued(told, r))
  <2>1. /\ NotQueued(told, r).queue = told.queue /\ NotQueued(told, r).cmd = told.cmd
        /\ InOrder(NotQueued(told, r), current)
    BY <1>2, <1>5, NotQueuedInOrder DEF NotQueued, InOrder, WorkType
  <2> QED BY <1>2, <2>1 DEF QueueKnown
<1>6. ASSUME NEW r \in Request, NEW e \in CallbackEntries, told.answer[r] = "none",
             \/ StartNext(Freed(NotQueued(told, r), current), isCardSelected)
             \/ \E c \in told.pool :
                  StartNext(Freed(Queued(told, r, e, c), current), isCardSelected)
      PROVE  Goal
  <2>1. CASE StartNext(Freed(NotQueued(told, r), current), isCardSelected)
    BY <1>3, <1>5, <1>6, <2>1
  <2>2. CASE \E c \in told.pool :
               StartNext(Freed(Queued(told, r, e, c), current), isCardSelected)
    <3>1. PICK c \in told.pool :
               StartNext(Freed(Queued(told, r, e, c), current), isCardSelected)
      BY <2>2
    <3>2. e \in Entries
      BY Constants
    <3>3. InOrder(Queued(told, r, e, c), current)
      BY <1>2, <1>6, <3>1, <3>2, QueuedInOrder
    <3>4. QueueKnown(Queued(told, r, e, c))
      BY <1>2, <3>1, <3>2, QueuedKnown
    <3> QED BY <1>3, <3>1, <3>3, <3>4
  <2> QED BY <1>6, <2>1, <2>2
<1>7. ASSUME NEW r \in Request, told.answer[r] = "none", Leave(NotQueued(told, r)),
             sending' = "asleep", UNCHANGED <<current, isCardSelected>>
      PROVE  Goal
  <2>1. queue' = told.queue /\ cmd' = w.cmd
    BY <1>2, <1>5, <1>7 DEF Leave
  <2>2. EntriesKnown'
    BY <1>2, <1>7, <2>1 DEF EntriesKnown, QueueKnown
  <2> QED BY <1>7, <2>2 DEF SendingFits, AppIsSent
<1> QED BY <1>1, <1>4, <1>6, <1>7 DEF Complete, MaySubmit

(* A request that gets a command leaves a current one as it was, or finds  *)
(* none and launches its own.                                              *)
LEMMA AcceptFits ==
  ASSUME EngineOK, EnvType, EntriesKnown, NEW r \in Request, NEW e \in Entries,
         answer[r] # "pending", Accept(r, e)
  PROVE  /\ EntriesKnown' /\ isCardSelected' = isCardSelected
         /\ \/ /\ current' = current /\ sending' = sending
               /\ current # None => cmd'[current] = cmd[current]
            \/ current = None /\ Launched' /\ SendingFits' /\ ~AppIsSent'
<1>1. /\ InOrder(Work, current) /\ current \in Cmd \cup {None}
      /\ isCardSelected \in BOOLEAN /\ hcTransferType \in TransferTypes
      /\ cleared \in BOOLEAN /\ QueueKnown(Work)
  BY WorkFields DEF EngineOK, EnvType, EntriesKnown, QueueKnown
<1>2. PICK c \in pool :
        IF current = None
        THEN timer' = TRUE /\ StartNext(Queued(Work, r, e, c), isCardSelected)
        ELSE /\ Leave(Queued(Work, r, e, c))
             /\ UNCHANGED <<current, sending, timer, isCardSelected, cleared>>
  BY DEF Accept
<1>3. PICK w : w = Queued(Work, r, e, c)
  OBVIOUS
<1>4. /\ InOrder(w, current) /\ QueueKnown(w) /\ c \in Cmd /\ c # current
      /\ w.queue = Append(queue, c) /\ w.cmd = [cmd EXCEPT ![c] = Filled(r, e)]
  BY <1>1, <1>2, <1>3, WorkFields, QueuedInOrder, QueuedKnown DEF InOrder, WorkType
<1>5. CASE current = None
  <2>1. timer' = TRUE /\ StartNext(w, isCardSelected) /\ InOrder(w, None)
    BY <1>2, <1>3, <1>4, <1>5
  <2>2. w.queue # <<>> /\ timer' \in BOOLEAN
    BY <1>1, <1>4, <2>1, WorkFields DEF InOrder, WorkType
  <2>3. Launched'
    BY <1>1, <2>1, <2>2, StartNextOK
  <2> QED BY <1>1, <1>4, <1>5, <2>1, <2>3, StartNextFits
<1>6. CASE current # None
  <2>1. /\ cmd' = [cmd EXCEPT ![c] = Filled(r, e)] /\ queue' = w.queue /\ cmd' = w.cmd
        /\ UNCHANGED <<current, sending, isCardSelected>>
    BY <1>2, <1>3, <1>4, <1>6 DEF Leave
  <2>2. cmd'[current] = cmd[current]
    BY <1>1, <1>4, <1>6, <2>1, WorkFields DEF InOrder, WorkType
  <2> QED BY <1>4, <1>6, <2>1, <2>2 DEF EntriesKnown, QueueKnown
<1> QED BY <1>5, <1>6

(* A caller enters the gate: it submits a request, or is woken for one.    *)
Enters(r, e) == doAsyncCommandGated(r, e) \/ getCommandWakes(r, e)

(* It leaves a current command as it was, or finds none and launches its   *)
(* own, for a card that was there when it asked.                           *)
LEMMA EnterFits ==
  ASSUME EngineOK, EnvType, EntriesKnown, NEW r \in Request, NEW e \in Entries,
         Enters(r, e)
  PROVE  /\ EntriesKnown' /\ isCardSelected' = isCardSelected
         /\ \/ /\ current' = current /\ sending' = sending
               /\ current # None => cmd'[current] = cmd[current]
            \/ /\ current = None /\ Launched' /\ SendingFits' /\ ~AppIsSent'
               /\ cardPresent \/ answer[r] = "waiting"
<1>1. InOrder(Work, current)
  BY DEF EngineOK
<1>2. CASE Accept(r, e) /\ answer[r] # "pending" /\ (cardPresent \/ answer[r] = "waiting")
  BY <1>2, AcceptFits
<1>3. CASE Leave(NotQueued(Work, r)) /\ UNCHANGED <<current, sending, isCardSelected>>
  <2>1. NotQueued(Work, r).queue = queue /\ NotQueued(Work, r).cmd = cmd
    BY <1>1, WorkFields DEF NotQueued, InOrder, WorkType
  <2>2. queue' = queue /\ cmd' = cmd
    BY <1>3, <2>1 DEF Leave
  <2> QED BY <1>3, <2>2 DEF EntriesKnown
<1> QED BY <1>2, <1>3, WorkFields
        DEF Enters, doAsyncCommandGated, getCommandWakes, MaySubmit, NoCommandFor

(* A transfer goes on with the command as it was, or completes it.         *)
LEMMA TransferFits ==
  ASSUME EngineOK, EnvType, EntriesKnown, current # None, sending # "asleep",
         NEW st, NEW h, Transfer(st, h)
  PROVE  /\ EntriesKnown' /\ isCardSelected' = isCardSelected
         /\ \/ /\ hw' = h /\ Launched' /\ SendingFits' /\ ~AppIsSent'
               /\ HasData(cmd[current].entry) => TransferDone(cmd[current], st)
            \/ /\ current' = current /\ sending' = "no"
               /\ HasData(cmd[current].entry) /\ ~TransferDone(cmd[current], st)
               /\ hw' = h \/ hw' = [h EXCEPT !.fed = @ \/ h.phase = "data"]
               /\ cmd'[current].entry = cmd[current].entry
               /\ cmd'[current].state = cmd[current].state
               /\ cmd'[current].newSel = cmd[current].newSel
<1>1. /\ current \in Cmd /\ InOrder(Work, current) /\ CurrentOK(Work, current)
      /\ isCardSelected \in BOOLEAN /\ hcTransferType \in TransferTypes
      /\ QueueKnown(Work) /\ cmd \in [Cmd -> Command]
      /\ Work.cmd[current].entry \in Entries /\ Work.cmd[current].state \in Waiting
      /\ timer \in BOOLEAN /\ cleared \in BOOLEAN
  BY WorkFields DEF EngineOK, EnvType, EntriesKnown, QueueKnown, InOrder, WorkType
<1>2. CASE Complete(Work, "Success") /\ hw' = h
           /\ (HasData(cmd[current].entry) => TransferDone(cmd[current], st))
  <2>1. Launched'
    BY <1>1, <1>2, CompleteOK
  <2> QED BY <1>1, <1>2, <2>1, CompleteFits DEF Verdicts
<1>3. CASE /\ HasData(cmd[current].entry) /\ ~TransferDone(cmd[current], st)
           /\ cmd' = [cmd EXCEPT ![current].off = @ + 1] \/ cmd' = cmd
           /\ hw' = h \/ hw' = [h EXCEPT !.fed = @ \/ h.phase = "data"]
           /\ sending' = "no"
           /\ UNCHANGED <<queue, current, isCardSelected>>
  <2>1. \A c \in Cmd : cmd'[c].entry = cmd[c].entry
    BY <1>1, <1>3 DEF Command
  <2>2. /\ cmd'[current].state = cmd[current].state
        /\ cmd'[current].newSel = cmd[current].newSel
    BY <1>1, <1>3 DEF Command
  <2>3. Range(queue) \subseteq Cmd
    BY <1>1, WorkFields DEF InOrder
  <2>4. EntriesKnown'
    BY <1>1, <1>3, <2>1, <2>3 DEF EntriesKnown
  <2> QED BY <1>1, <1>3, <2>1, <2>2, <2>4
<1> QED BY <1>2, <1>3 DEF Transfer

------------------------------------------------------------------------------
(* What driver and card agree on while the card answers and stays.         *)

Responsive == ~CardMayFail /\ ~TimerMayRace /\ MaxEvents = 0 /\ MaxResets = 0

(* Whether the card will take itself for selected, or prefixed, once it has*)
(* answered what is on the lines.                                          *)
Selected ==
  IF hw.phase = "cmd"
  THEN hw.send = "select" \/ (cardSelected /\ hw.send # "deselect" /\ hw.entry # "GoIdleState")
  ELSE cardSelected

Prefixed == IF hw.phase = "cmd" THEN hw.send = "app" ELSE cardPrefixed

Waits(s) == GateFree /\ current # None /\ cmd[current].state = s

CardStays ==
  /\ current # None \/ hw.phase # "idle" => cardPresent
  /\ hw.phase # "stuck" /\ "CardRemoval" \notin status /\ initStep = "done"

(* A selection or a prefix that is waited for is on the lines, or has been *)
(* answered and left its interrupt.                                        *)
SelectionAnswered ==
  Waits("CardSelectionSent") \/ Waits("AppCommandSent") =>
    pendingInt \/ (hw.phase = "cmd" /\ hw.send # "entry")

(* The driver takes the card for selected only if it is.                   *)
Believed ==
  IF Waits("CardSelectionSent") THEN cmd[current].newSel => Selected
  ELSE isCardSelected => Selected

PrefixFits == Waits("AppCommandSent") \/ AppIsSent => Prefixed

(* Callers sleep in getCommand only with a card in the slot.               *)
Admitted == \A r \in Request : answer[r] = "waiting" => cardPresent

SelectionInv ==
  /\ Parts /\ EntriesKnown /\ CardStays /\ SelectionAnswered /\ Believed
  /\ SendingFits /\ PrefixFits /\ IssuedInTheRightState

(* When a handler holds the gate for what it launched, nothing is waited   *)
(* for.                                                                    *)
LEMMA LaunchedSelects ==
  ASSUME Launched', Parts', EntriesKnown', CardStays', isCardSelected' => Selected',
         SendingFits', AppIsSent' => Prefixed', IssuedInTheRightState'
  PROVE  SelectionInv'
<1>1. ~Waits("CardSelectionSent")' /\ ~Waits("AppCommandSent")'
  BY DEF Launched, Waits, GateFree, Send
<1> QED BY <1>1 DEF SelectionInv, SelectionAnswered, Believed, PrefixFits

(* A caller enters: the lines go on with what they have.                   *)
LEMMA EnterSelects ==
  ASSUME SelectionInv, Admitted, NEW r \in Request, NEW e \in Entries, Enters(r, e),
         Parts'
  PROVE  SelectionInv'
<1>1. /\ EngineOK /\ EnvType /\ EntriesKnown /\ sending \notin Send
      /\ UNCHANGED <<hw, status, pendingInt, cardPresent, cardSelected, cardPrefixed,
                     initStep>>
  BY DEF SelectionInv, Parts, Enters, doAsyncCommandGated, getCommandWakes, GateFree,
         card, mode, Send
<1>2. /\ EntriesKnown' /\ isCardSelected' = isCardSelected
      /\ \/ /\ current' = current /\ sending' = sending
            /\ current # None => cmd'[current] = cmd[current]
         \/ current = None /\ cardPresent /\ Launched' /\ SendingFits' /\ ~AppIsSent'
  BY <1>1, EnterFits DEF Admitted
<1>3. (Selected' <=> Selected) /\ (Prefixed' <=> Prefixed) /\ IssuedInTheRightState'
  BY <1>1 DEF Selected, Prefixed, SelectionInv, IssuedInTheRightState
<1>4. CASE /\ current' = current /\ sending' = sending
           /\ current # None => cmd'[current] = cmd[current]
  <2>1. CardStays'
    BY <1>1, <1>4 DEF CardStays, SelectionInv
  <2>2. SendingFits' /\ ~AppIsSent' /\ ~AppIsSent
    BY <1>1, <1>4 DEF SendingFits, AppIsSent, Send
  <2>3. /\ Waits("CardSelectionSent")' <=> Waits("CardSelectionSent")
        /\ Waits("AppCommandSent")' <=> Waits("AppCommandSent")
    BY <1>4 DEF Waits, GateFree
  <2>4. Waits("CardSelectionSent") => cmd'[current'].newSel = cmd[current].newSel
    BY <1>4 DEF Waits
  <2> QED BY <1>1, <1>2, <1>3, <2>1, <2>2, <2>3, <2>4
          DEF SelectionInv, SelectionAnswered, Believed, PrefixFits
<1>5. CASE current = None /\ cardPresent /\ Launched' /\ SendingFits' /\ ~AppIsSent'
  <2>1. ~Waits("CardSelectionSent")
    BY <1>5 DEF Waits
  <2>2. isCardSelected' => Selected'
    BY <1>2, <1>3, <2>1 DEF SelectionInv, Believed
  <2>3. CardStays'
    BY <1>1, <1>5 DEF CardStays, SelectionInv
  <2> QED BY <1>2, <1>3, <1>5, <2>2, <2>3, LaunchedSelects
<1> QED BY <1>2, <1>4, <1>5

(* An interrupt: what was waited for has been answered, so that the card   *)
(* is, or will be, what the driver now takes it for.                       *)
LEMMA InterruptSelects ==
  ASSUME SelectionInv, handleInterrupt, Parts'
  PROVE  SelectionInv'
<1>1. /\ EngineOK /\ EnvType /\ EntriesKnown /\ GateFree /\ status' = {}
      /\ "CardRemoval" \notin status /\ doAsyncIO(status)
      /\ UNCHANGED <<cardPresent, cardSelected, cardPrefixed, initStep>>
      /\ hw \in Operation /\ sending # "asleep"
  BY DEF SelectionInv, Parts, CardStays, handleInterrupt, card, mode, EnvType, GateFree
<1>2. ASSUME hw' = hw \/ hw' = [hw EXCEPT !.fed = @ \/ hw.phase = "data"]
      PROVE  /\ (Selected' <=> Selected) /\ (Prefixed' <=> Prefixed)
             /\ IssuedInTheRightState' /\ hw'.phase = hw.phase /\ hw'.send = hw.send
  <2>1. /\ hw'.phase = hw.phase /\ hw'.send = hw.send /\ hw'.entry = hw.entry
    BY <1>1, <1>2 DEF Operation
  <2> QED BY <1>1, <2>1 DEF Selected, Prefixed, SelectionInv, IssuedInTheRightState
<1>3. CASE current = None /\ UNCHANGED <<work, isCardSelected, cleared, hw>>
  <2>1. /\ ~Waits("CardSelectionSent") /\ ~Waits("AppCommandSent") /\ sending = "no"
        /\ ~Waits("CardSelectionSent")' /\ ~Waits("AppCommandSent")'
        /\ UNCHANGED <<current, queue, cmd, sending, isCardSelected, hw>>
    BY <1>1, <1>3 DEF Waits, work, GateFree
  <2> QED BY <1>1, <1>2, <1>3, <2>1
          DEF SelectionInv, EntriesKnown, CardStays, SelectionAnswered, Believed,
              SendingFits, AppIsSent, PrefixFits
<1>4. CASE /\ current # None
           /\ cmd[current].state \in {"CardSelectionSent", "AppCommandSent"}
           /\ Launch(Work, current,
                     IF cmd[current].state = "CardSelectionSent"
                     THEN cmd[current].newSel ELSE isCardSelected)
           /\ UNCHANGED <<timer, hw>>
  <2>1. PICK sel : sel = IF cmd[current].state = "CardSelectionSent"
                         THEN cmd[current].newSel ELSE isCardSelected
    OBVIOUS
  <2>2. /\ current \in Cmd /\ Work \in WorkType /\ cmd[current] \in Command
        /\ InOrder(Work, current) /\ CurrentOK(Work, current)
        /\ isCardSelected \in BOOLEAN
    BY <1>1, <1>4, WorkFields DEF EngineOK, InOrder, WorkType
  <2>3. sel \in BOOLEAN
    BY <2>1, <2>2 DEF Command
  <2>4. /\ QueueKnown(Work) /\ Work.cmd[current].entry \in Entries
        /\ Launch(Work, current, sel)
    BY <1>1, <1>4, <2>1, WorkFields DEF EntriesKnown, QueueKnown
  <2>5. /\ EntriesKnown' /\ SendingFits' /\ isCardSelected' = sel
        /\ AppIsSent' => cmd[current].state = "AppCommandSent"
    BY <2>2, <2>3, <2>4, LaunchFits, WorkFields
  <2>6. Launched'
    BY <1>1, <1>4, <2>2, <2>3, <2>4, LaunchOK DEF EngineOK, EnvType
  <2>7. sel => Selected
    BY <1>1, <1>4, <2>1 DEF SelectionInv, Believed, Waits
  <2>8. cmd[current].state = "AppCommandSent" => Prefixed
    BY <1>1, <1>4 DEF SelectionInv, PrefixFits, Waits
  <2>9. CardStays'
    BY <1>1, <1>4 DEF SelectionInv, CardStays
  <2> QED BY <1>2, <1>4, <2>5, <2>6, <2>7, <2>8, <2>9, LaunchedSelects
<1>5. CASE current # None /\ cmd[current].state = "DataTransfer" /\ Transfer(status, hw)
  <2>1. /\ EntriesKnown' /\ isCardSelected' = isCardSelected
        /\ \/ /\ hw' = hw /\ Launched' /\ SendingFits' /\ ~AppIsSent'
           \/ /\ current' = current /\ sending' = "no"
              /\ hw' = hw \/ hw' = [hw EXCEPT !.fed = @ \/ hw.phase = "data"]
              /\ cmd'[current].state = cmd[current].state
    BY <1>1, <1>5, TransferFits
  <2>2. /\ (Selected' <=> Selected) /\ (Prefixed' <=> Prefixed)
        /\ IssuedInTheRightState' /\ hw'.phase = hw.phase
    BY <1>2, <2>1
  <2>3. ~Waits("CardSelectionSent")
    BY <1>5 DEF Waits
  <2>4. isCardSelected' => Selected'
    BY <2>1, <2>2, <2>3 DEF SelectionInv, Believed
  <2>5. CardStays'
    BY <1>1, <1>5, <2>2 DEF SelectionInv, CardStays
  <2>6. CASE Launched' /\ SendingFits' /\ ~AppIsSent'
    BY <2>1, <2>2, <2>4, <2>5, <2>6, LaunchedSelects
  <2>7. CASE /\ current' = current /\ sending' = "no"
             /\ cmd'[current].state = cmd[current].state
    <3>1. /\ ~Waits("CardSelectionSent")' /\ ~Waits("AppCommandSent")'
          /\ SendingFits' /\ ~AppIsSent'
      BY <1>5, <2>7 DEF Waits, SendingFits, AppIsSent
    <3> QED BY <2>1, <2>2, <2>4, <2>5, <3>1
            DEF SelectionInv, SelectionAnswered, Believed, PrefixFits
  <2> QED BY <2>1, <2>6, <2>7
<1> QED BY <1>1, <1>3, <1>4, <1>5 DEF doAsyncIO

(* A timeout that comes when nothing moves finds no selection waited for,  *)
(* and lines that carry no command.                                        *)
LEMMA TimeoutSelects ==
  ASSUME Responsive, SelectionInv, handleIOTimeout, Parts'
  PROVE  SelectionInv'
<1>1. /\ EngineOK /\ EnvType /\ EntriesKnown /\ GateFree /\ timer
      /\ hw' = Idle \/ hw' = hw
      /\ status' \subseteq status /\ Complete(Work, "Timeout")
      /\ hw.phase \in {"idle", "data"} /\ ~pendingInt
      /\ UNCHANGED <<pendingInt, cardPresent, cardSelected, cardPrefixed, initStep>>
  BY DEF Responsive, SelectionInv, Parts, handleIOTimeout, ResetLines, card, mode,
         Stalled, CardStays
<1>2. /\ current \in Cmd /\ current # None /\ InOrder(Work, current)
      /\ CurrentOK(Work, current) /\ isCardSelected \in BOOLEAN
      /\ QueueKnown(Work) /\ Work.cmd[current].entry \in Entries
  BY <1>1, WorkFields, Constants DEF EngineOK, EntriesKnown, QueueKnown, GateFree
<1>3. Launched'
  BY <1>1, <1>2, CompletionOK DEF Verdicts, GateFree
<1>4. /\ EntriesKnown' /\ SendingFits' /\ ~AppIsSent' /\ isCardSelected' = isCardSelected
  BY <1>1, <1>2, CompleteFits DEF Verdicts
<1>5. ~Waits("CardSelectionSent")
  BY <1>1 DEF SelectionInv, SelectionAnswered
<1>6. isCardSelected => cardSelected
  BY <1>1, <1>5 DEF SelectionInv, Believed, Selected
<1>7. hw'.phase \in {"idle", "data"}
  BY <1>1, IdleFields
<1>8. isCardSelected' => Selected'
  BY <1>1, <1>4, <1>6, <1>7 DEF Selected
<1>9. CardStays' /\ IssuedInTheRightState'
  BY <1>1, <1>2, <1>7 DEF SelectionInv, CardStays, IssuedInTheRightState
<1> QED BY <1>3, <1>4, <1>8, <1>9, LaunchedSelects

(* A command is written to the lines: a selection and a prefix are waited  *)
(* for from now on, and the entry finds the card as it needs it.           *)
LEMMA SendSelects ==
  ASSUME SelectionInv, sendAsyncCommand, Parts'
  PROVE  SelectionInv'
<1>1. PICK r : r = cmd[current]
  OBVIOUS
<1>2. PICK op :
        op = [phase |-> "cmd", send |-> sending, entry |-> r.entry, req |-> r.req,
              left  |-> IF sending = "entry" /\ HasData(r.entry) THEN Total(r.entry) ELSE 0,
              fed   |-> sending = "entry" /\ HasData(r.entry),
              own   |-> /\ ~cleared
                        /\ \/ hcTransferType = "PIO"
                           \/ r.off > 0 /\ dmaMode = ModeFor(hcTransferType)]
  OBVIOUS
<1>3. /\ op.phase = "cmd" /\ op.send = sending /\ op.entry = r.entry
  BY <1>2
<1>4. /\ EngineOK /\ EnvType /\ EntriesKnown /\ sending \in Send /\ current # None
      /\ status' = {} /\ cardPresent /\ initStep = "done" /\ sending # "asleep"
      /\ UNCHANGED <<pendingInt, cardPresent, cardSelected, cardPrefixed, initStep>>
      /\ hw.phase = "idle" \/ Wire(sending, r.entry) = "GoIdleState"
      /\ r.state = StateAfter(sending) /\ r.entry \in Entries
  BY <1>1
  DEF SelectionInv, Parts, EngineOK, EntriesKnown, CardStays, sendAsyncCommand, ClearStatus,
      card, mode, Send
<1>5. \/ Transfer({}, op) /\ Has(Wire(sending, r.entry), "IgnoreCmdComplete")
      \/ /\ sending' = "no" /\ hw' = op
         /\ UNCHANGED <<pool, queue, cmd, current, answer, timer, isCardSelected>>
  BY <1>1, <1>2 DEF sendAsyncCommand
<1>6. /\ sending = "select" => r.state = "CardSelectionSent"
      /\ sending = "deselect" => r.state = "CardSelectionSent" /\ ~r.newSel
      /\ sending = "app" =>
           r.state = "AppCommandSent" /\ hw.phase = "idle" /\ r.entry # "GoIdleState"
      /\ sending = "entry" =>
           /\ r.state = "DataTransfer"
           /\ Has(r.entry, NeedsSelection) => isCardSelected
           /\ r.entry = "GoIdleState" => ~isCardSelected
           /\ Has(r.entry, "IsApplicationCmd") => Prefixed
           /\ hw.phase # "idle" => r.entry = "GoIdleState"
  <2>1. /\ sending = "select" => r.state = "CardSelectionSent"
        /\ sending = "deselect" => r.state = "CardSelectionSent"
        /\ sending = "app" => r.state = "AppCommandSent"
        /\ sending = "entry" => r.state = "DataTransfer"
    BY <1>4 DEF StateAfter
  <2>2. /\ Wire("app", r.entry) = "AppCommand" /\ Wire("entry", r.entry) = r.entry
    BY DEF Wire
  <2>3. sending = "app" => Has(r.entry, "IsApplicationCmd")
    BY <1>1 DEF SelectionInv, SendingFits
  <2>4. sending = "deselect" => ~r.newSel
    BY <1>1 DEF SelectionInv, SendingFits
  <2>5. sending = "entry" =>
          /\ Has(r.entry, NeedsSelection) => isCardSelected
          /\ r.entry = "GoIdleState" => ~isCardSelected
          /\ Has(r.entry, "IsApplicationCmd") => Prefixed
    BY <1>1 DEF SelectionInv, SendingFits, PrefixFits, AppIsSent
  <2> QED BY <1>4, <2>1, <2>2, <2>3, <2>4, <2>5, Rows
<1>7. ~Waits("CardSelectionSent") /\ (isCardSelected => Selected)
  <2>1. ~Waits("CardSelectionSent")
    BY <1>4 DEF Waits, GateFree, Send
  <2> QED BY <2>1 DEF SelectionInv, Believed
<1>8. sending = "entry" =>
        /\ isCardSelected => cardSelected /\ r.entry # "GoIdleState"
        /\ Has(r.entry, NeedsSelection) => cardSelected
        /\ Has(r.entry, "IsApplicationCmd") => cardPrefixed
  BY <1>4, <1>6, <1>7, Rows DEF Selected, Prefixed
<1>9. ASSUME hw'.phase = "cmd", hw'.send = sending, hw'.entry = r.entry
      PROVE  /\ CardStays' /\ IssuedInTheRightState'
             /\ sending = "entry" /\ isCardSelected => Selected'
             /\ sending = "app" => (isCardSelected => Selected') /\ Prefixed'
             /\ sending = "select" => Selected'
  <2>1. CardStays'
    BY <1>4, <1>9 DEF CardStays
  <2>2. IssuedInTheRightState'
    BY <1>4, <1>8, <1>9 DEF IssuedInTheRightState
  <2>3. sending = "app" /\ isCardSelected => cardSelected
    BY <1>6, <1>7 DEF Selected
  <2> QED BY <1>4, <1>6, <1>8, <1>9, <2>1, <2>2, <2>3 DEF Selected, Prefixed
<1>10. CASE /\ sending' = "no" /\ hw' = op
            /\ UNCHANGED <<pool, queue, cmd, current, answer, timer, isCardSelected>>
  <2>1. /\ (Waits("CardSelectionSent"))' <=> sending \in {"select", "deselect"}
        /\ (Waits("AppCommandSent"))' <=> sending = "app"
    BY <1>1, <1>4, <1>6, <1>10 DEF Waits, GateFree, Send
  <2>2. /\ CardStays' /\ IssuedInTheRightState'
        /\ sending = "entry" /\ isCardSelected => Selected'
        /\ sending = "app" => (isCardSelected => Selected') /\ Prefixed'
        /\ sending = "select" => Selected'
    BY <1>3, <1>9, <1>10
  <2>3. SelectionAnswered'
    BY <1>3, <1>10, <2>1 DEF SelectionAnswered
  <2>4. Believed'
    BY <1>1, <1>4, <1>6, <1>10, <2>1, <2>2 DEF Believed, Send
  <2>5. SendingFits' /\ ~AppIsSent' /\ EntriesKnown'
    BY <1>4, <1>10 DEF SendingFits, AppIsSent, EntriesKnown
  <2>6. PrefixFits'
    BY <2>1, <2>2, <2>5 DEF PrefixFits
  <2> QED BY <2>2, <2>3, <2>4, <2>5, <2>6 DEF SelectionInv
<1>11. CASE Transfer({}, op) /\ sending = "entry"
  <2>1. /\ EntriesKnown' /\ isCardSelected' = isCardSelected
        /\ \/ hw' = op /\ Launched' /\ SendingFits' /\ ~AppIsSent'
           \/ /\ current' = current /\ sending' = "no"
              /\ hw' = op \/ hw' = [op EXCEPT !.fed = @ \/ op.phase = "data"]
              /\ cmd'[current].state = cmd[current].state
    BY <1>4, <1>11, TransferFits
  <2>2. hw'.phase = "cmd" /\ hw'.send = sending /\ hw'.entry = r.entry
    BY <1>2, <2>1
  <2>3. CardStays' /\ IssuedInTheRightState' /\ (isCardSelected' => Selected')
    BY <1>9, <1>11, <2>1, <2>2
  <2>4. CASE Launched' /\ SendingFits' /\ ~AppIsSent'
    BY <2>1, <2>3, <2>4, LaunchedSelects
  <2>5. CASE current' = current /\ sending' = "no" /\ cmd'[current].state = "DataTransfer"
    <3>1. /\ ~Waits("CardSelectionSent")' /\ ~Waits("AppCommandSent")'
          /\ SendingFits' /\ ~AppIsSent'
      BY <2>5 DEF Waits, SendingFits, AppIsSent
    <3> QED BY <2>1, <2>3, <3>1
            DEF SelectionInv, SelectionAnswered, Believed, PrefixFits
  <2> QED BY <1>1, <1>6, <1>11, <2>1, <2>4, <2>5
<1>12. Has(Wire(sending, r.entry), "IgnoreCmdComplete") => sending = "entry"
  <2>1. sending = "app" => IsSDCard
    BY <1>1, <1>4, Rows DEF SelectionInv, SendingFits
  <2>2. /\ sending \in {"select", "deselect"} => Wire(sending, r.entry) = "SelectDeselectCard"
        /\ sending = "app" => Wire(sending, r.entry) = "AppCommand"
    BY DEF Wire
  <2> QED BY <1>4, <2>1, <2>2, CompletionNotIgnored DEF Send
<1> QED BY <1>5, <1>10, <1>11, <1>12

(* The hardware's steps leave the driver alone.                            *)
LEMMA HardwareSelects ==
  ASSUME SelectionInv, UNCHANGED driver, Parts', CardStays', IssuedInTheRightState',
         Selected' <=> Selected, Prefixed' <=> Prefixed, pendingInt => pendingInt',
         hw.phase = "cmd" /\ hw.send # "entry" =>
           pendingInt' \/ (hw'.phase = "cmd" /\ hw'.send # "entry")
  PROVE  SelectionInv'
<1>1. /\ UNCHANGED <<queue, cmd, current, sending, isCardSelected>>
  BY DEF driver, work
<1>2. /\ (Waits("CardSelectionSent")' <=> Waits("CardSelectionSent"))
      /\ (Waits("AppCommandSent")' <=> Waits("AppCommandSent"))
  BY <1>1 DEF Waits, GateFree
<1>3. EntriesKnown' /\ SendingFits' /\ (AppIsSent' <=> AppIsSent)
  BY <1>1 DEF SelectionInv, EntriesKnown, SendingFits, AppIsSent
<1>4. SelectionAnswered'
  BY <1>2 DEF SelectionInv, SelectionAnswered
<1>5. Believed'
  BY <1>1, <1>2 DEF SelectionInv, Believed
<1>6. PrefixFits'
  BY <1>2, <1>3 DEF SelectionInv, PrefixFits
<1> QED BY <1>3, <1>4, <1>5, <1>6 DEF SelectionInv

(* The answer makes the card what it was going to be, and is noticed.      *)
LEMMA RespondSelects ==
  ASSUME SelectionInv, Respond, Parts'
  PROVE  SelectionInv'
<1>1. /\ hw.phase = "cmd" /\ hw \in Operation /\ UNCHANGED driver
      /\ cardPresent /\ "CardRemoval" \notin status
      /\ initStep = "done" /\ initStep' = initStep
      /\ cardSelected' = (hw.send = "select" \/
           (cardSelected /\ hw.send # "deselect" /\ hw.entry # "GoIdleState"))
      /\ cardPrefixed' = (hw.send = "app") /\ cardPresent' = cardPresent
      /\ Raise(IF CompletesCommand THEN {CommandComplete} ELSE {})
  BY DEF Respond, SelectionInv, CardStays, Parts, EnvType, driver, mode
<1>2. hw'.phase \in {"idle", "data", "busy"}
  BY <1>1, IdleFields DEF Respond, Operation
<1>3. "CardRemoval" \notin status'
  BY <1>1 DEF Raise, CommandComplete
<1>4. /\ pendingInt => pendingInt'
      /\ hw.send # "entry" => pendingInt'
  BY <1>1 DEF Raise, CompletesCommand
<1>5. CardStays' /\ IssuedInTheRightState'
  BY <1>1, <1>2, <1>3 DEF CardStays, IssuedInTheRightState
<1>6. (Selected' <=> Selected) /\ (Prefixed' <=> Prefixed)
  BY <1>1, <1>2 DEF Selected, Prefixed
<1> QED BY <1>1, <1>4, <1>5, <1>6, HardwareSelects

(* Data and busy signals say nothing of selections.                        *)
LEMMA DataSelects ==
  ASSUME SelectionInv, MoveData \/ EndBusy, Parts'
  PROVE  SelectionInv'
<1>1. /\ hw.phase \in {"data", "busy"} /\ hw \in Operation /\ UNCHANGED driver
      /\ cardPresent /\ "CardRemoval" \notin status
      /\ initStep = "done" /\ initStep' = initStep
      /\ UNCHANGED <<cardPresent, cardSelected, cardPrefixed>>
  BY DEF MoveData, EndBusy, card, SelectionInv, CardStays, Parts, EnvType, driver, mode
<1>2. hw'.phase \in {"idle", "data"}
  BY IdleFields DEF MoveData, EndBusy, SelectionInv, Parts, EnvType, Operation
<1>3. PICK bits : Raise(bits) /\ "CardRemoval" \notin bits
  BY DEF MoveData, EndBusy, TransferComplete
<1>4. "CardRemoval" \notin status' /\ (pendingInt => pendingInt')
  BY <1>1, <1>3 DEF Raise
<1>5. CardStays' /\ IssuedInTheRightState'
  BY <1>1, <1>2, <1>4 DEF CardStays, IssuedInTheRightState
<1>6. (Selected' <=> Selected) /\ (Prefixed' <=> Prefixed)
  BY <1>1, <1>2 DEF Selected, Prefixed
<1> QED BY <1>1, <1>4, <1>5, <1>6, HardwareSelects

(* Every command is answered: it reaches a card in the state it needs.     *)
LEMMA StepSelects ==
  ASSUME Responsive, SelectionInv, Admitted, [Next]_vars
  PROVE  SelectionInv'
<1>1. Parts'
  BY StepParts DEF SelectionInv
<1>2. CASE \E r \in Request, e \in Entries :
             doAsyncCommandGated(r, e) \/ getCommandWakes(r, e)
  BY <1>1, <1>2, EnterSelects DEF Enters
<1>3. CASE handleInterrupt
  BY <1>1, <1>3, InterruptSelects
<1>4. CASE handleIOTimeout
  BY <1>1, <1>4, TimeoutSelects
<1>5. CASE sendAsyncCommand
  BY <1>1, <1>5, SendSelects
<1>6. CASE Respond
  BY <1>1, <1>6, RespondSelects
<1>7. CASE MoveData \/ EndBusy
  BY <1>1, <1>7, DataSelects
<1>8. ~sendAsyncCommandHangs
  BY DEF sendAsyncCommandHangs, SelectionInv, CardStays
<1>9. ~NoAnswer
  BY DEF NoAnswer, CardAnswers, SelectionInv, CardStays, IssuedInTheRightState
<1>10. ~Fault /\ ~initController /\ ~initControllerEnds /\ ~Remove /\ ~Insert
  <2>1. events = 0 /\ resets = 0 /\ initStep = "done"
    BY DEF Responsive, SelectionInv, Parts, EnvType, CardStays
  <2> QED BY <2>1 DEF Responsive, Fault, initController, initControllerEnds, Remove, Insert
<1>11. ~setControllerDMAMode
  <2>1. resets = 0
    BY DEF Responsive, SelectionInv, Parts, EnvType
  <2> QED BY <2>1 DEF setControllerDMAMode, SelectionInv, Parts, SetUpOK
<1>12. CASE UNCHANGED vars
  <2>1. UNCHANGED <<driver, hw, status, pendingInt, cardPresent, cardSelected, cardPrefixed>>
    BY <1>12 DEF vars, card
  <2>2. /\ CardStays' /\ IssuedInTheRightState'
    <3>1. current' = current /\ initStep' = initStep
      BY <2>1 DEF driver, work, mode
    <3> QED BY <2>1, <3>1 DEF SelectionInv, CardStays, IssuedInTheRightState
  <2>3. (Selected' <=> Selected) /\ (Prefixed' <=> Prefixed)
    BY <2>1 DEF Selected, Prefixed
  <2> QED BY <1>1, <2>1, <2>2, <2>3, HardwareSelects
<1> QED BY <1>2, <1>3, <1>4, <1>5, <1>6, <1>7, <1>8, <1>9, <1>10, <1>11, <1>12 DEF Next

(* Without a card nothing is current, and a submission is refused.         *)
LEMMA StepAdmits ==
  ASSUME Responsive, SelectionInv, Admitted, [Next]_vars
  PROVE  Admitted'
<1>1. /\ EngineOK /\ EnvType /\ events = 0
      /\ cardPresent \/ (current = None /\ sending = "no" /\ ~timer /\ queue = <<>>)
  BY DEF Responsive, SelectionInv, Parts, EnvType, EngineOK, CardStays
<1>2. ~Remove /\ ~Insert
  BY <1>1 DEF Responsive, Remove, Insert
<1>3. CASE \E r \in Request, e \in Entries :
             doAsyncCommandGated(r, e) \/ getCommandWakes(r, e)
  <2>1. PICK r \in Request, e \in Entries :
          doAsyncCommandGated(r, e) \/ getCommandWakes(r, e)
    BY <1>3
  <2>2. cardPresent' = cardPresent
    BY <2>1 DEF doAsyncCommandGated, getCommandWakes, card
  <2>3. CASE ~cardPresent
    <3>1. Leave(NotQueued(Work, r)) /\ answer \in [Request -> Answer]
      BY <2>1, <2>3, WorkFields
      DEF doAsyncCommandGated, getCommandWakes, NoCommandFor, Admitted, SelectionInv,
          Parts, EngineOK, InOrder, WorkType
    <3>2. answer' = [answer EXCEPT ![r] = "NoMedia"]
      BY <1>1, <2>3, <3>1, WorkFields, NotQueuedReqs DEF Leave, EngineOK
    <3> QED BY <2>2, <2>3, <3>1, <3>2 DEF Admitted
  <2> QED BY <2>2, <2>3 DEF Admitted
<1>4. CASE handleInterrupt
  <2>1. /\ cardPresent' = cardPresent
        /\ ~cardPresent => answer' = answer
    BY <1>1, <1>4 DEF handleInterrupt, SelectionInv, CardStays, doAsyncIO, work, card
  <2> QED BY <2>1 DEF Admitted
<1>5. CASE handleIOTimeout \/ sendAsyncCommand
  <2>1. cardPresent' = cardPresent /\ cardPresent
    BY <1>1, <1>5 DEF handleIOTimeout, sendAsyncCommand, card, Send
  <2> QED BY <2>1 DEF Admitted
<1>6. CASE \/ sendAsyncCommandHangs \/ initController \/ initControllerEnds
           \/ setControllerDMAMode
  <2>1. answer' = answer /\ cardPresent' = cardPresent
    BY <1>6 DEF sendAsyncCommandHangs, initController, initControllerEnds,
                setControllerDMAMode, work, card
  <2> QED BY <2>1 DEF Admitted
<1>7. CASE \/ Respond \/ MoveData \/ EndBusy \/ NoAnswer \/ Fault \/ UNCHANGED vars
  <2>1. UNCHANGED driver /\ cardPresent' = cardPresent
    BY <1>7 DEF Respond, MoveData, EndBusy, NoAnswer, Fault, vars, card
  <2> QED BY <2>1 DEF driver, work, Admitted
<1> QED BY <1>2, <1>3, <1>4, <1>5, <1>6, <1>7 DEF Next

(* With a card that answers and stays, a command that needs the card       *)
(* selected reaches a card that is, and an application command a card that *)
(* was just sent the prefix, whatever the callers and the callbacks submit *)
(* and whatever interrupts are left over.                                  *)
THEOREM IssuedInTheRightStateAlways ==
  ASSUME Responsive
  PROVE  Spec => []IssuedInTheRightState
<1>1. Init => SelectionInv /\ Admitted
  <2> SUFFICES ASSUME Init PROVE SelectionInv /\ Admitted
    OBVIOUS
  <2>1. Parts /\ hw.phase = "idle"
    BY InitParts, IdleFields DEF Init
  <2>2. /\ current = None /\ queue = <<>> /\ sending = "no" /\ ~isCardSelected
        /\ status = {} /\ initStep = "done"
    BY DEF Init
  <2>3. EntriesKnown /\ CardStays /\ SendingFits /\ ~AppIsSent
    BY <2>1, <2>2, EmptyQueue DEF EntriesKnown, CardStays, SendingFits, AppIsSent
  <2>4. ~Waits("CardSelectionSent") /\ ~Waits("AppCommandSent")
    BY <2>2 DEF Waits
  <2>5. Admitted
    BY DEF Init, Admitted
  <2> QED BY <2>1, <2>2, <2>3, <2>4, <2>5
          DEF SelectionInv, SelectionAnswered, Believed, PrefixFits, IssuedInTheRightState
<1>2. SelectionInv /\ Admitted /\ [Next]_vars => SelectionInv' /\ Admitted'
  BY Responsive, StepSelects, StepAdmits
<1>3. SelectionInv => IssuedInTheRightState
  BY DEF SelectionInv
<1> QED BY <1>1, <1>2, <1>3, PTL DEF Spec
=============================================================================
