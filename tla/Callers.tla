------------------------------- MODULE Callers -------------------------------
(***************************************************************************)
(* The callers of the command engine: doSyncCommandWithData, with which the*)
(* threads of start and setPowerState ("main") and of handleCardChange     *)
(* ("change") wait for a command, and doAsyncReadWrite, which splits a read*)
(* or write of the storage family into commands.  The engine is its        *)
(* abstract specification, CommandServer, which CommandEngine implements.  *)
(*                                                                         *)
(* The threads share one flag and one result, and nothing keeps one of them*)
(* out of doSyncCommandWithData while the other is in it; Overlap = FALSE  *)
(* does.  Completions do not submit here, so the engine does not fall      *)
(* asleep; CommandEngine has the ones that do.  A Bug_X is X with a        *)
(* plausible mistake; nothing uses it.                                     *)
(***************************************************************************)
EXTENDS Naturals, Sequences

CONSTANTS
  Capacity,        \* commands in the pool
  MaxCalls,        \* bound: synchronous commands per thread
  Transfer,        \* the reads and writes the storage family issues
  Starts, Sizes,   \* their first blocks, and lengths in blocks
  MaxBlocks,       \* kSDAMaxBlocksPerTransfer
  BlockSize,       \* kSDABlockSize
  MaxTransfer,     \* UINT32_MAX, the most blocks that are accepted
  MaxPieces,       \* bound: commands a transfer may be split into
  Overlap,         \* both threads may be in doSyncCommandWithData
  MaxEvents,       \* bound: card removals and insertions
  MaxSleeps        \* bound: times the machine goes to sleep

Thread == {"main", "change"}

ASSUME CallersAssumption ==
  /\ {Capacity, MaxBlocks, BlockSize, MaxPieces} \subseteq Nat \ {0}
  /\ {MaxCalls, MaxTransfer, MaxEvents, MaxSleeps} \subseteq Nat
  /\ Starts \subseteq Nat /\ Sizes \subseteq Nat \ {0}
  /\ \A n \in Sizes : n <= MaxTransfer => n <= MaxPieces * MaxBlocks
  /\ Overlap \in BOOLEAN
  /\ Transfer \cap Thread = {}

VARIABLES
  outstanding, answer,      \* the engine, see CommandServer
  isSleepingSyncCommand,    \* _isSleepingSyncCommand
  syncCommandResult,        \* _syncCommandResult
  pc,                       \* where each thread is in doSyncCommandWithData
  returned,                 \* what its calls have returned, in order
  io,                       \* the local variables of each doAsyncReadWrite
  pieces,                   \* the commands it has issued
  told,                     \* the status its completion was called with
  isMachineSleeping,        \* _isMachineSleeping
  cardPresent,              \* isCardPresent()
  removal,                  \* a card removal bit the work loop has yet to see
  panicked,                 \* panic("error")
  events, sleeps            \* how often the bounded actions happened

engine == <<outstanding, answer>>
sync   == <<isSleepingSyncCommand, syncCommandResult, pc, returned>>
blocks == <<io, pieces>>
slot   == <<cardPresent, removal, events>>
power  == <<isMachineSleeping, sleeps>>
vars   == <<engine, sync, blocks, told, power, slot, panicked>>

(* The k-th synchronous command of a thread, the i-th piece of a transfer. *)
Request == (Thread \X (1..MaxCalls)) \cup (Transfer \X (1..MaxPieces))

Server == INSTANCE CommandServer WITH asleep <- FALSE

Verdict == Server!Verdict

(* What a command of a read or write was given: the first block, the       *)
(* number of blocks, where in the buffer, and whether it has a completion. *)
Piece == [start : Nat, count : Nat, offset : Nat, completion : BOOLEAN]

IO == [pc : {"new", "refused", "asleep", "timedOut", "splitting", "waiting",
             "accepted"},
       block : Starts \cup {0}, nblks : Sizes \cup {0},
       blockStart : Nat, remaining : Nat, offset : Nat]

(* Where a thread is in doSyncCommandWithData: "pool", it sleeps in the    *)
(* pool for a command; "awake" and "lowered", it holds the lock, having    *)
(* seen the flag down and having put it down itself.                       *)
Place == {"idle", "submit", "pool", "look", "asleep", "awake", "lowered"}

TypeOK ==
  /\ Server!TypeOK
  /\ {isSleepingSyncCommand, isMachineSleeping, cardPresent, removal, panicked}
       \subseteq BOOLEAN
  /\ syncCommandResult \in Verdict
  /\ pc \in [Thread -> Place]
  /\ returned \in [Thread -> Seq(Verdict \cup {"NoMedia"})]
  /\ io \in [Transfer -> IO] /\ pieces \in [Transfer -> Seq(Piece)]
  /\ told \in [Transfer -> Verdict \cup {"none"}]
  /\ events \in 0..MaxEvents /\ sleeps \in 0..MaxSleeps

Init ==
  /\ Server!Init
  /\ isSleepingSyncCommand = FALSE /\ syncCommandResult = "Success"
  /\ pc = [t \in Thread |-> "idle"] /\ returned = [t \in Thread |-> <<>>]
  /\ io = [x \in Transfer |-> [pc |-> "new", block |-> 0, nblks |-> 0,
                               blockStart |-> 0, remaining |-> 0, offset |-> 0]]
  /\ pieces = [x \in Transfer |-> <<>>]
  /\ told = [x \in Transfer |-> "none"]
  /\ isMachineSleeping = FALSE /\ cardPresent \in BOOLEAN /\ removal = FALSE
  /\ panicked = FALSE /\ events = 0 /\ sleeps = 0

------------------------------------------------------------------------------
(* doAsyncCommandWithData: the engine refuses the request for want of a    *)
(* card, or takes it, or has its caller wait for a command to be free.  The*)
(* card is looked at before the caller waits, and not again.               *)
doAsyncCommand(r) ==
  /\ Server!Submit(r, outstanding, Server!Room, answer)
  /\ (answer'[r] = "NoMedia") <=> ~cardPresent

(* The pool wakes up the caller of r, which gets the command.              *)
getCommandWakes(r) ==
  answer[r] = "waiting" /\ Server!Room /\ Server!Take(r, outstanding, answer)

Current(t) == <<t, Len(returned[t]) + 1>>

(* The flag is raised before the command is submitted, or its completion   *)
(* could come first; the lock is not held.                                 *)
Arm == isSleepingSyncCommand' = TRUE /\ syncCommandResult' = "Timeout"

ArmSync(t) ==
  /\ ~panicked
  /\ pc[t] = "idle" /\ Len(returned[t]) < MaxCalls
  /\ Overlap \/ \A u \in Thread : pc[u] = "idle"
  /\ Arm
  /\ pc' = [pc EXCEPT ![t] = "submit"]
  /\ UNCHANGED <<engine, returned, blocks, told, power, slot, panicked>>

ReturnSync(t, status) ==
  /\ pc' = [pc EXCEPT ![t] = "idle"]
  /\ returned' = [returned EXCEPT ![t] = Append(@, status)]

(* A caller that is refused leaves the flag raised.                        *)
SubmitSync(t) ==
  /\ ~panicked
  /\ pc[t] = "submit"
  /\ doAsyncCommand(Current(t))
  /\ CASE answer'[Current(t)] = "NoMedia" -> ReturnSync(t, "NoMedia")
       [] answer'[Current(t)] = "waiting" ->
            pc' = [pc EXCEPT ![t] = "pool"] /\ UNCHANGED returned
       [] OTHER -> pc' = [pc EXCEPT ![t] = "look"] /\ UNCHANGED returned
  /\ UNCHANGED <<isSleepingSyncCommand, syncCommandResult, blocks, told, power,
                 slot, panicked>>

SyncGetsCommand(t) ==
  /\ ~panicked
  /\ pc[t] = "pool" /\ getCommandWakes(Current(t))
  /\ pc' = [pc EXCEPT ![t] = "look"]
  /\ UNCHANGED <<isSleepingSyncCommand, syncCommandResult, returned, blocks, told,
                 power, slot, panicked>>

(* _syncCommandLock                                                        *)
Unlocked == \A t \in Thread : pc[t] \notin {"awake", "lowered"}

(* The caller takes the lock, and sleeps if the flag is up.                *)
LookAtFlag(t) ==
  /\ ~panicked
  /\ pc[t] = "look" /\ Unlocked
  /\ pc' = [pc EXCEPT ![t] = IF isSleepingSyncCommand THEN "asleep" ELSE "awake"]
  /\ UNCHANGED <<engine, isSleepingSyncCommand, syncCommandResult, returned, blocks,
                 told, power, slot, panicked>>

LowerFlag(t) ==
  /\ ~panicked
  /\ pc[t] = "awake"
  /\ isSleepingSyncCommand' = FALSE
  /\ pc' = [pc EXCEPT ![t] = "lowered"]
  /\ UNCHANGED <<engine, syncCommandResult, returned, blocks, told, power, slot,
                 panicked>>

EndSync(t) ==
  /\ ~panicked
  /\ pc[t] = "lowered"
  /\ ReturnSync(t, syncCommandResult)
  /\ UNCHANGED <<engine, isSleepingSyncCommand, syncCommandResult, blocks, told,
                 power, slot, panicked>>

------------------------------------------------------------------------------
(* doAsyncReadWrite: a transfer is refused or begins, waits for the end of *)
(* a sleep, and is split; each turn of the loop submits one command.       *)
BeginIO(x) ==
  /\ ~panicked
  /\ io[x].pc = "new"
  /\ \E b \in Starts, n \in Sizes :
       io' = [io EXCEPT ![x] =
                [pc |-> CASE n > MaxTransfer -> "refused"
                          [] n <= MaxTransfer /\ isMachineSleeping -> "asleep"
                          [] OTHER -> "splitting",
                 block |-> b, nblks |-> n,
                 blockStart |-> b, remaining |-> n, offset |-> 0]]
  /\ UNCHANGED <<engine, sync, pieces, told, power, slot, panicked>>

(* The machine has woken, or 30 seconds have passed.                       *)
Bug_StopWaiting(x) ==
  /\ ~panicked
  /\ io[x].pc = "asleep" /\ ~isMachineSleeping
  /\ io' = [io EXCEPT ![x].pc = "splitting"]
  /\ UNCHANGED <<engine, sync, pieces, told, power, slot, panicked>>

StopWaiting(x) ==
  /\ ~panicked
  /\ io[x].pc = "asleep"
  /\ io' = [io EXCEPT ![x].pc = IF isMachineSleeping THEN "timedOut" ELSE "splitting"]
  /\ UNCHANGED <<engine, sync, pieces, told, power, slot, panicked>>

Bug_PieceOfFull(remaining) == MaxBlocks

PieceOf(remaining) == IF remaining > MaxBlocks THEN MaxBlocks ELSE remaining

Bug_HasCompletion(remaining) == TRUE

HasCompletion(remaining) == remaining = 0

Bug_NextOffset(offset, count) == count * BlockSize

NextOffset(offset, count) == offset + count * BlockSize

(* The turn of the loop whose command the engine took.                     *)
Issue(x) ==
  LET f     == io[x]
      count == PieceOf(f.remaining)
      rest  == f.remaining - count
  IN /\ pieces' = [pieces EXCEPT ![x] = Append(@,
                     [start |-> f.blockStart, count |-> count, offset |-> f.offset,
                      completion |-> HasCompletion(rest)])]
     /\ io' = [io EXCEPT ![x] =
                 [f EXCEPT !.blockStart = @ + count, !.remaining = rest,
                           !.offset = NextOffset(@, count),
                           !.pc = IF rest > 0 THEN "splitting" ELSE "accepted"]]

NextPiece(x) == <<x, Len(pieces[x]) + 1>>

(* A command that is refused, for want of a card, is a panic.              *)
SubmitPiece(x) ==
  /\ ~panicked
  /\ io[x].pc = "splitting"
  /\ doAsyncCommand(NextPiece(x))
  /\ CASE answer'[NextPiece(x)] = "NoMedia" -> panicked' = TRUE /\ UNCHANGED blocks
       [] answer'[NextPiece(x)] = "waiting" ->
            /\ io' = [io EXCEPT ![x].pc = "waiting"]
            /\ UNCHANGED <<pieces, panicked>>
       [] OTHER -> Issue(x) /\ UNCHANGED panicked
  /\ UNCHANGED <<sync, told, power, slot>>

PieceGetsCommand(x) ==
  /\ ~panicked
  /\ io[x].pc = "waiting" /\ getCommandWakes(NextPiece(x))
  /\ Issue(x)
  /\ UNCHANGED <<sync, told, power, slot, panicked>>

------------------------------------------------------------------------------
(* The work loop answers the oldest command: handleSyncCommandCompletion   *)
(* takes the lock, stores the result and wakes up one sleeper, or the      *)
(* storage family is told of the end of a transfer.                        *)
StoreResult(v) == syncCommandResult' = v

Sleepers == {t \in Thread : pc[t] = "asleep"}

Bug_Awaken == isSleepingSyncCommand' = FALSE /\ UNCHANGED pc

Awaken ==
  /\ isSleepingSyncCommand' = FALSE
  /\ IF Sleepers = {} THEN UNCHANGED pc
     ELSE \E t \in Sleepers : pc' = [pc EXCEPT ![t] = "look"]

(* The storage family is told by the last command of a transfer only.      *)
Ends(r) == pieces[r[1]][r[2]].completion

Complete(r, v) ==
  IF r[1] \in Thread
  THEN Unlocked /\ Awaken /\ StoreResult(v) /\ UNCHANGED told
  ELSE /\ told' = IF Ends(r) THEN [told EXCEPT ![r[1]] = v] ELSE told
       /\ UNCHANGED <<isSleepingSyncCommand, syncCommandResult, pc>>

Reply(v, rest) ==
  /\ outstanding # <<>>
  /\ outstanding' = rest /\ answer' = Server!Told(v)
  /\ Complete(Head(outstanding), v)
  /\ UNCHANGED returned

Serve ==
  /\ ~panicked
  /\ \E v \in {"Success", "Timeout"} : Reply(v, Tail(outstanding))
  /\ UNCHANGED <<blocks, power, slot, panicked>>

(* The removal bit is handled, or wiped by sendAsyncCommand before it is.  *)
HandleRemoval ==
  /\ ~panicked
  /\ removal /\ removal' = FALSE
  /\ \/ Reply("Aborted", <<>>)
     \/ outstanding = <<>> /\ UNCHANGED <<engine, sync, told>>
  /\ UNCHANGED <<blocks, power, cardPresent, events, panicked>>

MissRemoval ==
  /\ ~panicked
  /\ removal /\ removal' = FALSE
  /\ outstanding # <<>>
  /\ UNCHANGED <<engine, sync, blocks, told, power, cardPresent, events, panicked>>

CardComesOrGoes ==
  /\ ~panicked
  /\ events < MaxEvents /\ events' = events + 1
  /\ cardPresent' = ~cardPresent /\ removal' = (removal \/ cardPresent)
  /\ UNCHANGED <<engine, sync, blocks, told, power, panicked>>

(* setPowerState: the machine goes to sleep, or ends a wake.               *)
setPowerState ==
  /\ ~panicked
  /\ pc["main"] = "idle"
  /\ isMachineSleeping' = ~isMachineSleeping
  /\ IF isMachineSleeping THEN UNCHANGED sleeps
     ELSE sleeps < MaxSleeps /\ sleeps' = sleeps + 1
  /\ UNCHANGED <<engine, sync, blocks, told, slot, panicked>>

Calls(t) ==
  \/ SubmitSync(t) \/ SyncGetsCommand(t) \/ LookAtFlag(t) \/ LowerFlag(t) \/ EndSync(t)

Splits(x) == StopWaiting(x) \/ SubmitPiece(x) \/ PieceGetsCommand(x)

Next ==
  \/ \E t \in Thread : ArmSync(t) \/ Calls(t)
  \/ \E x \in Transfer : BeginIO(x) \/ Splits(x)
  \/ Serve \/ HandleRemoval \/ MissRemoval \/ CardComesOrGoes \/ setPowerState

(* The threads run, get the gate and the lock, and wake up when there is a *)
(* free command; that the engine answers is what CommandEngine shows of a  *)
(* card that responds.  That the machine wakes up is not assumed.          *)
Fairness ==
  /\ \A t \in Thread : WF_vars(Calls(t))
  /\ \A x \in Transfer : WF_vars(Splits(x))
  /\ WF_vars(Serve)

Spec == Init /\ [][Next]_vars /\ Fairness

------------------------------------------------------------------------------
(* Properties.                                                             *)

(* Each call of doSyncCommandWithData returns what its own command came to:*)
(* neither the result of another command nor the initial one.  The flag and*)
(* the result are shared, and threads that overlap break it.               *)
ResultIsOwn ==
  \A t \in Thread : \A k \in DOMAIN returned[t] : returned[t][k] = answer[<<t, k>>]

(* The engine holds no command of a call that has returned: it would write *)
(* the response to a stack that is no longer there.                        *)
ResponsesAreFree ==
  \A i \in DOMAIN outstanding :
    LET r == outstanding[i]
    IN r[1] \in Thread => r[2] \notin DOMAIN returned[r[1]]

(* The engine holds no command of a transfer whose end the storage family  *)
(* has been told, and whose buffer it has back: neither an earlier piece   *)
(* nor one that waited for a command, also after a card was removed.       *)
BuffersAreFree ==
  \A i \in DOMAIN outstanding :
    LET r == outstanding[i] IN r[1] \in Transfer => told[r[1]] = "none"

(* The commands of a transfer follow each other without gap or overlap, on *)
(* the card and in the buffer, none is empty or too long, and when the loop*)
(* ends they cover it; only the last one has a completion.                 *)
PiecesTile ==
  \A x \in Transfer :
    LET p == pieces[x]
        After(i) == IF i = Len(p) THEN <<io[x].blockStart, io[x].offset>>
                    ELSE <<p[i + 1].start, p[i + 1].offset>>
    IN /\ p # <<>> => p[1].start = io[x].block /\ p[1].offset = 0
       /\ \A i \in DOMAIN p :
            /\ p[i].count \in 1..MaxBlocks
            /\ After(i) = <<p[i].start + p[i].count,
                            p[i].offset + p[i].count * BlockSize>>
            /\ p[i].completion <=> i = Len(p) /\ io[x].pc = "accepted"
       /\ io[x].pc = "accepted" => io[x].blockStart = io[x].block + io[x].nblks

(* A thread that has doSyncCommandWithData to itself wakes up and returns  *)
(* when its command has been answered, whatever else the engine has to do: *)
(* no completion is missed between the submission and the sleep.           *)
CompletedCallsReturn ==
  \A t \in Thread : (\A u \in Thread \ {t} : [](pc[u] = "idle")) =>
    \A k \in 1..MaxCalls :
      answer[<<t, k>>] \in Verdict ~> panicked \/ k \in DOMAIN returned[t]

(* The same beside the other thread, which may raise the flag again that it*)
(* waits for, and so keep it asleep.                                       *)
OverlappingCallsReturn ==
  \A t \in Thread : \A k \in 1..MaxCalls :
    answer[<<t, k>>] \in Verdict ~> panicked \/ k \in DOMAIN returned[t]

(* A read or write returns to the storage family, also when the machine    *)
(* does not wake, when its commands wait for room among those of others or *)
(* of its own, and when the card is taken out.                             *)
ReadWriteReturns ==
  \A x \in Transfer :
    io[x].pc # "new" ~>
      panicked \/ io[x].pc \in {"refused", "accepted", "timedOut"}
=============================================================================
