---------------------------- MODULE CommandTables ----------------------------
(***************************************************************************)
(* The rows of MMCCommandTable, SDCommandTable and SDAppCommandTable that  *)
(* the driver issues: the response a command asks for, the direction of    *)
(* its data and its flags.  A row is named after its enumerator without    *)
(* the kMMCCommand or kSDCommand prefix; SDAppCommandTable rows keep the   *)
(* prefix App, which stands for kSDAppCommandFlag in the command number.   *)
(***************************************************************************)

Row(response, direction, flags) ==
  [response |-> response, direction |-> direction, flags |-> flags]

NeedsSelection == "NeedsSelection"
Tuning == {NeedsSelection, "IgnoreCmdComplete", "IgnoreTransferComplete"}

MMCCommandTable ==
  [GoIdleState        |-> Row("R0",  "None", {}),
   SendOpCond         |-> Row("R3",  "None", {}),
   AllSendCID         |-> Row("R2",  "None", {}),
   SetRelativeAddress |-> Row("R1",  "None", {}),
   Switch             |-> Row("R1b", "None", {NeedsSelection}),
   SelectDeselectCard |-> Row("R1",  "None", {}),
   SendExtCSD         |-> Row("R1d", "CardToHost", {NeedsSelection}),
   SendCSD            |-> Row("R2",  "None", {}),
   SetBlockLength     |-> Row("R1",  "None", {NeedsSelection}),
   ReadMultipleBlock  |-> Row("R1d", "CardToHost", {NeedsSelection}),
   SendTuningBlock    |-> Row("R1d", "CardToHost", Tuning),
   WriteMultipleBlock |-> Row("R1d", "HostToCard", {NeedsSelection})]

SDAppCommandTable ==
  [AppSetBusWidth |-> Row("R1", "None", {"IsApplicationCmd"}),
   AppSendOpCond  |-> Row("R3", "None", {"IsApplicationCmd"})]

SDCommandTable ==
  [GoIdleState         |-> Row("R0",  "None", {}),
   AllSendCID          |-> Row("R2",  "None", {}),
   SendRelativeAddress |-> Row("R6",  "None", {}),
   SelectDeselectCard  |-> Row("R1b", "None", {}),
   SendIfCond          |-> Row("R7",  "None", {}),
   SendCSD             |-> Row("R2",  "None", {}),
   SetBlockLength      |-> Row("R1",  "None", {NeedsSelection}),
   ReadMultipleBlock   |-> Row("R1d", "CardToHost", {NeedsSelection}),
   WriteMultipleBlock  |-> Row("R1d", "HostToCard", {NeedsSelection}),
   AppCommand          |-> Row("R1",  "None", {"IgnoreSelectionState"})]

(* The row doAsyncCommandGated and sendAsyncCommand look a command up in:  *)
(* the application table for a command number with kSDAppCommandFlag.      *)
CommandTable(isSDCard) ==
  IF isSDCard
  THEN [e \in DOMAIN SDCommandTable \cup DOMAIN SDAppCommandTable |->
          IF e \in DOMAIN SDAppCommandTable THEN SDAppCommandTable[e]
          ELSE SDCommandTable[e]]
  ELSE MMCCommandTable
=============================================================================
