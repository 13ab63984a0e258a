------------------------ MODULE CommandEngineProofs ------------------------
(***************************************************************************)
(* Theorems about CommandEngine, for every pool, every set of requests and *)
(* every choice of the bounds, with their proofs.                          *)
(***************************************************************************)
EXTENDS CommandEngine, SequenceTheorems, TLAPS

(* The inductive invariant: the safety properties of CommandEngine taken   *)
(* together are inductive.                                                 *)
IInv == /\ TypeOK
        /\ EveryCommandAccountedFor
        /\ CommandsHoldPendingRequests
        /\ NoStrandedWork
        /\ CommandStatesKnown
        /\ TransfersAreOwn

------------------------------------------------------------------------------
(* Sequences as the queue uses them.                                       *)

(* Appending to the queue a command that is not in it adds the command to  *)
(* the queued ones and leaves every command in the queue once.             *)
LEMMA AppendToQueue ==
  ASSUME NEW S, NEW q \in Seq(S), NEW c \in S, c \notin Range(q), IsInjective(q)
  PROVE  /\ Append(q, c) \in Seq(S) /\ Append(q, c) # <<>>
         /\ Range(Append(q, c)) = Range(q) \cup {c}
         /\ IsInjective(Append(q, c))
<1> DEFINE a == Append(q, c)
<1>1. /\ a \in Seq(S) /\ a # <<>> /\ Len(a) = Len(q) + 1 /\ Len(q) \in Nat
      /\ \A i \in 1..Len(q) : a[i] = q[i]
      /\ a[Len(q) + 1] = c
  BY AppendProperties, LenProperties
<1>2. DOMAIN a = 1..(Len(q) + 1) /\ DOMAIN q = 1..Len(q)
  BY <1>1, LenProperties
<1>3. Range(a) = Range(q) \cup {c}
  <2>1. Range(a) = {a[i] : i \in 1..(Len(q) + 1)} /\ Range(q) = {q[i] : i \in 1..Len(q)}
    BY <1>2 DEF Range
  <2> HIDE DEF a
  <2>2. \A i \in 1..(Len(q) + 1) : i \in 1..Len(q) \/ i = Len(q) + 1
    BY <1>1
  <2>3. \A i \in 1..Len(q) : i \in 1..(Len(q) + 1)
    BY <1>1
  <2>4. Len(q) + 1 \in 1..(Len(q) + 1)
    BY <1>1
  <2> QED BY <2>1, <2>2, <2>3, <2>4, <1>1
<1>4. IsInjective(a)
  <2> SUFFICES ASSUME NEW i \in DOMAIN a, NEW j \in DOMAIN a, a[i] = a[j]
               PROVE  i = j
    BY DEF IsInjective
  <2> HIDE DEF a
  <2>1. \A k \in 1..Len(q) : q[k] \in Range(q)
    BY <1>2 DEF Range
  <2>2. CASE i \in 1..Len(q) /\ j \in 1..Len(q)
    BY <2>2, <1>1, <1>2 DEF IsInjective
  <2>3. CASE ~(i \in 1..Len(q) /\ j \in 1..Len(q))
    BY <2>1, <2>3, <1>1, <1>2
  <2> QED BY <2>2, <2>3
<1> QED BY <1>1, <1>3, <1>4

(* Taking the first command off the queue takes exactly that one.          *)
LEMMA RemoveFirst ==
  ASSUME NEW S, NEW q \in Seq(S), q # <<>>, IsInjective(q)
  PROVE  /\ Head(q) \in S /\ Tail(q) \in Seq(S)
         /\ Head(q) \in Range(q)
         /\ Range(Tail(q)) = Range(q) \ {Head(q)}
         /\ IsInjective(Tail(q))
<1> DEFINE t == Tail(q)
           h == Head(q)
<1>1. /\ h \in S /\ t \in Seq(S)
      /\ Len(q) \in Nat /\ Len(q) >= 1 /\ Len(t) = Len(q) - 1
      /\ \A i \in 1..Len(t) : t[i] = q[i + 1]
      /\ h = q[1]
  BY HeadTailProperties, LenProperties, EmptySeq
<1>2. DOMAIN t = 1..(Len(q) - 1) /\ DOMAIN q = 1..Len(q)
  BY <1>1, LenProperties
<1>3. /\ Range(t) = {t[i] : i \in 1..(Len(q) - 1)}
      /\ Range(q) = {q[i] : i \in 1..Len(q)}
  BY <1>2 DEF Range
<1> HIDE DEF t, h
<1>4. h \in Range(q)
  BY <1>1, <1>3
<1>5. \A i \in 1..Len(q), j \in 1..Len(q) : q[i] = q[j] => i = j
  BY <1>2 DEF IsInjective
<1>6. Range(t) = Range(q) \ {h}
  <2>1. ASSUME NEW x \in Range(t) PROVE x \in Range(q) \ {h}
    <3>1. PICK i \in 1..(Len(q) - 1) : x = q[i + 1]
      BY <1>1, <1>3
    <3>2. i + 1 \in 1..Len(q) /\ i + 1 # 1 /\ 1 \in 1..Len(q)
      BY <1>1
    <3> QED BY <3>1, <3>2, <1>1, <1>3, <1>5
  <2>2. ASSUME NEW x \in Range(q) \ {h} PROVE x \in Range(t)
    <3>1. PICK i \in 1..Len(q) : x = q[i]
      BY <1>3
    <3>2. i # 1
      BY <3>1, <1>1
    <3>3. i - 1 \in 1..(Len(q) - 1) /\ (i - 1) + 1 = i
      BY <3>2, <1>1
    <3> QED BY <3>1, <3>3, <1>1, <1>3
  <2> QED BY <2>1, <2>2
<1>7. IsInjective(t)
  BY <1>1, <1>2, <1>5 DEF IsInjective
<1> QED BY <1>1, <1>4, <1>6, <1>7 DEF t, h

(* An empty queue holds nothing.                                           *)
LEMMA EmptyQueue == Range(<<>>) = {} /\ IsInjective(<<>>)
  BY DEF Range, IsInjective

------------------------------------------------------------------------------
(* The constants and the command table.                                    *)

(* What the assumptions on the constants say, in the form the proofs use.  *)
LEMMA Constants ==
  /\ None \notin Cmd /\ None \notin Request /\ None \notin Entries
  /\ Chunks \in Nat /\ Chunks >= 1 /\ 0 \in 0..Chunks
  /\ CallbackEntries \subseteq Entries
  /\ PrepareOutcomes \subseteq BOOLEAN
  /\ MaxEvents \in Nat /\ MaxResets \in Nat
BY CmdAssumption, EntriesAssumption, BoundsAssumption

(* The length of a transfer is at least one chunk and at most Chunks.      *)
LEMMA Totals == \A e : Total(e) \in 1..Chunks
BY Constants DEF Total

(* A transfer of which nothing was moved is not all moved.                 *)
LEMMA MovedSome == \A r : AllMoved(r) => r.off # 0
<1> SUFFICES ASSUME NEW t \in 1..Chunks, 0 >= t PROVE FALSE
  BY Totals DEF AllMoved
<1> QED BY Constants

(* A command after zeroCommand is a command, and idle lines carry no       *)
(* operation.                                                              *)
LEMMA ZeroedType == Zeroed \in Command /\ Idle \in Operation
BY Constants DEF Zeroed, Command, State, Idle, Operation, Send

(* doAsyncCommandGated fills a command for the request it was given, to    *)
(* be started.                                                             *)
LEMMA FilledType ==
  \A r \in Request, e \in Entries :
    /\ Filled(r, e) \in Command
    /\ Filled(r, e).req = r /\ Filled(r, e).state = "Start" /\ Filled(r, e).off = 0
BY Constants DEF Filled, Zeroed, Command, State

(* Whatever doAsyncIO sends, it leaves the command in a state it can go    *)
(* on from.                                                                *)
LEMMA StateAfterType ==
  \A send \in Send :
    StateAfter(send) \in {"CardSelectionSent", "AppCommandSent", "DataTransfer"}
BY DEF StateAfter, Send

(* doAsyncIO always knows what to send next for a command.                 *)
LEMMA NextSendType == \A r, sel : NextSend(r, sel) \in Send
BY DEF NextSend, Send

(* Sending keeps the request of the command and sets the state that        *)
(* belongs to what was sent.                                               *)
LEMMA SentType ==
  ASSUME NEW r \in Command, NEW sel \in BOOLEAN, NEW ok \in BOOLEAN,
         hcTransferType \in TransferTypes
  PROVE  /\ Sent(r, sel, ok) \in Command
         /\ Sent(r, sel, ok).req = r.req
         /\ Sent(r, sel, ok).state = StateAfter(NextSend(r, sel))
<1>1. Prepared(r, ok) \in 0..Chunks
  BY Totals, Constants DEF Prepared, Command
<1>2. NextSend(r, sel) \in Send
  BY NextSendType
<1>3. StateAfter(NextSend(r, sel)) \in State
  BY <1>2, StateAfterType DEF State
<1> QED BY <1>1, <1>2, <1>3 DEF Sent, Command

------------------------------------------------------------------------------
(* The values the handlers pass along.                                     *)

WorkType == [pool : SUBSET Cmd, queue : Seq(Cmd), cmd : [Cmd -> Command],
             answer : [Request -> Answer]]

(* w is in order, cur being the current command: the commands are all      *)
(* accounted for, and the queued ones have not started and hold different  *)
(* pending requests.  Nothing is said of the request of cur.               *)
QueuedOK(w) ==
  /\ \A c \in Range(w.queue) :
       /\ w.cmd[c].state = "Start" /\ w.cmd[c].off = 0
       /\ w.cmd[c].req \in Request /\ w.answer[w.cmd[c].req] = "pending"
  /\ \A c, d \in Range(w.queue) : w.cmd[c].req = w.cmd[d].req => c = d

InOrder(w, cur) ==
  /\ w \in WorkType
  /\ IsInjective(w.queue)
  /\ w.pool \cap Range(w.queue) = {}
  /\ cur \notin w.pool \cup Range(w.queue)
  /\ w.pool \cup Range(w.queue) \cup ({cur} \ {None}) = Cmd
  /\ QueuedOK(w)

(* A completed command that goes back to the pool leaves pool and queue    *)
(* in order.                                                               *)
LEMMA FreedInOrder ==
  ASSUME NEW w, NEW cur \in Cmd, InOrder(w, cur)
  PROVE  InOrder(Freed(w, cur), None)
<1> DEFINE f == Freed(w, cur)
<1>1. /\ f.pool = w.pool \cup {cur} /\ f.queue = w.queue
      /\ f.cmd = [w.cmd EXCEPT ![cur] = Zeroed] /\ f.answer = w.answer
      /\ f \in WorkType
  BY ZeroedType DEF Freed, InOrder, WorkType
<1> HIDE DEF f
<1>2. Range(w.queue) \subseteq Cmd
  BY DEF InOrder
<1>3. \A c \in Range(w.queue) : f.cmd[c] = w.cmd[c]
  BY <1>1, <1>2 DEF InOrder, WorkType
<1>4. QueuedOK(f)
  BY <1>1, <1>3 DEF InOrder, QueuedOK
<1>5. None \notin f.pool \cup Range(f.queue)
  BY <1>1, <1>2, Constants DEF InOrder
<1>6. /\ f.pool \cap Range(f.queue) = {}
      /\ f.pool \cup Range(f.queue) \cup ({None} \ {None}) = Cmd
  BY <1>1, Constants DEF InOrder
<1> QED BY <1>1, <1>4, <1>5, <1>6 DEF InOrder, f

(* Refusing a request, or keeping it waiting, disturbs no command.         *)
LEMMA NotQueuedInOrder ==
  ASSUME NEW w, NEW cur, InOrder(w, cur), NEW r \in Request, w.answer[r] # "pending"
  PROVE  InOrder(NotQueued(w, r), cur)
<1> DEFINE f == NotQueued(w, r)
<1>1. w \in WorkType
  BY DEF InOrder
<1>2. PICK result \in Answer : f = [w EXCEPT !.answer = [w.answer EXCEPT ![r] = result]]
  BY <1>1 DEF NotQueued, WorkType, Answer, Unanswered
<1> HIDE DEF f
<1>3. /\ f.pool = w.pool /\ f.queue = w.queue /\ f.cmd = w.cmd
      /\ f.answer = [w.answer EXCEPT ![r] = result]
      /\ f \in WorkType
  BY <1>1, <1>2 DEF WorkType
<1>4. \A q \in Request : q # r => f.answer[q] = w.answer[q]
  BY <1>1, <1>3 DEF WorkType
<1>5. QueuedOK(f)
  BY <1>3, <1>4 DEF InOrder, QueuedOK
<1> QED BY <1>3, <1>5 DEF InOrder, f

(* A command taken from the pool for a new request and put into the queue  *)
(* leaves both in order.                                                   *)
LEMMA QueuedInOrder ==
  ASSUME NEW w, NEW cur, InOrder(w, cur), NEW r \in Request, w.answer[r] # "pending",
         NEW e \in Entries, NEW c \in w.pool
  PROVE  InOrder(Queued(w, r, e, c), cur)
<1> DEFINE f == Queued(w, r, e, c)
<1>0. c \in Cmd /\ c \notin Range(w.queue) /\ c # cur
  BY DEF InOrder, WorkType
<1>1. /\ Append(w.queue, c) \in Seq(Cmd)
      /\ Range(Append(w.queue, c)) = Range(w.queue) \cup {c}
      /\ IsInjective(Append(w.queue, c))
  BY <1>0, AppendToQueue DEF InOrder, WorkType
<1>2. /\ f.pool = w.pool \ {c} /\ f.queue = Append(w.queue, c)
      /\ f.cmd = [w.cmd EXCEPT ![c] = Filled(r, e)]
      /\ f.answer = [w.answer EXCEPT ![r] = "pending"]
      /\ f \in WorkType
  BY <1>0, <1>1, FilledType DEF Queued, addCommandToQueue, InOrder, WorkType, Answer, Unanswered
<1> HIDE DEF f
<1>3. Range(w.queue) \subseteq Cmd
  BY DEF InOrder
<1>4. /\ f.cmd[c] = Filled(r, e) /\ f.answer[r] = "pending"
      /\ \A d \in Range(w.queue) : f.cmd[d] = w.cmd[d]
      /\ \A q \in Request : w.answer[q] = "pending" => f.answer[q] = "pending"
  BY <1>0, <1>2, <1>3 DEF InOrder, WorkType
<1>5. \A d \in Range(w.queue) : w.cmd[d].req # r
  BY DEF InOrder, QueuedOK
<1>6. QueuedOK(f)
  BY <1>1, <1>2, <1>4, <1>5, FilledType DEF InOrder, QueuedOK
<1>7. /\ f.pool \cap Range(f.queue) = {}
      /\ cur \notin f.pool \cup Range(f.queue)
      /\ f.pool \cup Range(f.queue) \cup ({cur} \ {None}) = Cmd
  BY <1>0, <1>1, <1>2 DEF InOrder
<1> QED BY <1>1, <1>2, <1>6, <1>7 DEF InOrder, f

(* flushCommandQueue moves the queued commands to the pool and leaves      *)
(* both in order.                                                          *)
LEMMA FlushedInOrder ==
  ASSUME NEW w, NEW cur, InOrder(w, cur)
  PROVE  InOrder(Flushed(w), cur)
<1> DEFINE f == Flushed(w)
<1>1. Range(w.queue) \subseteq Cmd
  BY DEF InOrder
<1>2. /\ f.pool = w.pool \cup Range(w.queue) /\ f.queue = <<>>
      /\ f.answer = w.answer /\ f \in WorkType
  <2> DEFINE m == [c \in Cmd |-> IF c \in Range(w.queue) THEN Zeroed ELSE w.cmd[c]]
  <2>1. m \in [Cmd -> Command] /\ <<>> \in Seq(Cmd)
    BY ZeroedType, EmptySeq DEF InOrder, WorkType
  <2>2. f = [w EXCEPT !.queue = <<>>, !.pool = @ \cup Range(w.queue), !.cmd = m]
    BY DEF Flushed
  <2> HIDE DEF m, f
  <2> QED BY <1>1, <2>1, <2>2 DEF InOrder, WorkType
<1> HIDE DEF f
<1>3. QueuedOK(f)
  BY <1>2, EmptyQueue DEF QueuedOK
<1> QED BY <1>2, <1>3, EmptyQueue DEF InOrder, f

(* Answering the request of the current command disturbs no queued         *)
(* command.                                                                *)
LEMMA ToldInOrder ==
  ASSUME NEW w, NEW cur \in Cmd, InOrder(w, cur), w.cmd[cur].req \in Request,
         \A c \in Range(w.queue) : w.cmd[c].req # w.cmd[cur].req,
         NEW result \in Answer
  PROVE  InOrder(Told(w, cur, result), cur)
<1> DEFINE f == Told(w, cur, result)
<1>1. /\ f.pool = w.pool /\ f.queue = w.queue /\ f.cmd = w.cmd
      /\ f \in WorkType
      /\ \A q \in Request : q # w.cmd[cur].req => f.answer[q] = w.answer[q]
  BY DEF Told, InOrder, WorkType
<1> HIDE DEF f
<1>2. QueuedOK(f)
  BY <1>1 DEF InOrder, QueuedOK
<1> QED BY <1>1, <1>2 DEF InOrder, f
------------------------------------------------------------------------------
(* What every handler leaves behind.                                       *)

CurrentOK(w, cur) ==
  /\ w.cmd[cur].req \in Request /\ w.answer[w.cmd[cur].req] = "pending"
  /\ \A c \in Range(w.queue) : w.cmd[c].req # w.cmd[cur].req

Waiting == {"CardSelectionSent", "AppCommandSent", "DataTransfer"}

EngineOK ==
  /\ InOrder(Work, current)
  /\ current \in Cmd \cup {None}
  /\ current # None => cmd[current].state \in Waiting
  /\ current # None /\ sending # "asleep" => CurrentOK(Work, current)
  /\ sending \in Send \cup {"no", "hung", "asleep"}
  /\ sending \in Send => cmd[current].state = StateAfter(sending)
  /\ current = None => queue = <<>> /\ ~timer /\ sending = "no"
  /\ sending = "asleep" => pool = {}
  /\ {timer, isCardSelected, cleared} \subseteq BOOLEAN

(* A handler ends with the gate held for the command it launched, with a   *)
(* callback asleep, or with no current command.                            *)
Launched == sending \in Send \cup {"asleep"} \/ (sending = "no" /\ current = None)

(* What the steps of the driver leave behind: the engine in order, and the *)
(* registers of a data transfer no less set up than they were.             *)
EngineStep == EngineOK' /\ (cleared' => cleared)

(* Launching a command makes it current, holds the gate for what is to be  *)
(* sent and answers nobody.                                                *)
LEMMA LaunchOK ==
  ASSUME NEW w, NEW c \in Cmd, InOrder(w, c), CurrentOK(w, c),
         NEW sel \in BOOLEAN, Launch(w, c, sel),
         timer' \in BOOLEAN, cleared \in BOOLEAN, hcTransferType \in TransferTypes
  PROVE  EngineStep /\ Launched' /\ answer' = w.answer
<1>1. PICK ok \in PrepareOutcomes :
        /\ current' = c
        /\ sending' = NextSend(w.cmd[c], sel)
        /\ Leave([w EXCEPT !.cmd = [@ EXCEPT ![c] = Sent(w.cmd[c], sel, ok)]])
        /\ isCardSelected' = sel
        /\ cleared' = (cleared /\ ~SetsUp(w.cmd[c], sel, ok))
  BY DEF Launch
<1> DEFINE s == Sent(w.cmd[c], sel, ok)
<1>2. w.cmd[c] \in Command /\ ok \in BOOLEAN
  BY Constants DEF InOrder, WorkType
<1>3. s \in Command /\ s.req = w.cmd[c].req /\ s.state = StateAfter(sending')
  BY <1>1, <1>2, SentType
<1>4. sending' \in Send
  BY <1>1, NextSendType
<1>5. /\ pool' = w.pool /\ queue' = w.queue /\ answer' = w.answer
      /\ cmd' = [w.cmd EXCEPT ![c] = s]
  <2> DEFINE m == [w.cmd EXCEPT ![c] = s]
             v == [w EXCEPT !.cmd = m]
  <2>1. /\ pool' = v.pool /\ queue' = v.queue /\ cmd' = v.cmd
        /\ answer' = v.answer
    BY <1>1 DEF Leave
  <2> HIDE DEF m
  <2>2. v.pool = w.pool /\ v.queue = w.queue /\ v.cmd = m /\ v.answer = w.answer
    BY DEF InOrder, WorkType
  <2> HIDE DEF v
  <2> QED BY <2>1, <2>2 DEF m
<1> HIDE DEF s
<1>6. /\ cmd' \in [Cmd -> Command] /\ cmd'[c] = s
      /\ \A d \in Cmd : d # c => cmd'[d] = w.cmd[d]
  BY <1>3, <1>5 DEF InOrder, WorkType
<1>7. Range(w.queue) \subseteq Cmd /\ c \notin Range(w.queue)
  BY DEF InOrder
<1>8. Work' \in WorkType
  BY <1>5, <1>6 DEF Work, WorkType, InOrder
<1>9. QueuedOK(Work')
  BY <1>5, <1>6, <1>7 DEF Work, InOrder, QueuedOK
<1>10. InOrder(Work', current')
  BY <1>1, <1>5, <1>8, <1>9 DEF Work, InOrder
<1>11. CurrentOK(Work', current')
  BY <1>1, <1>3, <1>5, <1>6, <1>7 DEF Work, CurrentOK
<1>12. cmd'[current'].state = StateAfter(sending')
  BY <1>1, <1>3, <1>6
<1>13. cmd'[current'].state \in Waiting
  BY <1>4, <1>12, StateAfterType DEF Waiting
<1>14. current' # None
  BY <1>1, Constants
<1>15. cleared' \in BOOLEAN /\ (cleared' => cleared)
  <2> DEFINE set == SetsUp(w.cmd[c], sel, ok)
  <2>1. cleared' = (cleared /\ ~set)
    BY <1>1
  <2> HIDE DEF set
  <2> QED BY <2>1
<1>16. EngineOK'
  BY <1>1, <1>4, <1>10, <1>11, <1>12, <1>13, <1>14, <1>15 DEF EngineOK, Send
<1> QED BY <1>4, <1>5, <1>15, <1>16 DEF EngineStep, Launched

(* Taking the next command off the queue keeps the engine in order, also   *)
(* when there is none.                                                     *)
LEMMA StartNextOK ==
  ASSUME NEW w, InOrder(w, None), NEW sel \in BOOLEAN, StartNext(w, sel),
         timer' \in BOOLEAN, w.queue = <<>> => ~timer', cleared \in BOOLEAN,
         hcTransferType \in TransferTypes
  PROVE  EngineStep /\ Launched' /\ answer' = w.answer
<1>1. CASE w.queue = <<>>
  <2>1. /\ current' = None /\ sending' = "no" /\ isCardSelected' = sel
        /\ cleared' = cleared
        /\ pool' = w.pool /\ queue' = w.queue /\ cmd' = w.cmd /\ answer' = w.answer
    BY <1>1 DEF StartNext, Leave
  <2>2. Work' \in WorkType
    BY <2>1 DEF Work, WorkType, InOrder
  <2>3. QueuedOK(Work')
    BY <2>1 DEF Work, QueuedOK, InOrder
  <2>4. InOrder(Work', current')
    BY <2>1, <2>2, <2>3 DEF Work, InOrder
  <2> QED BY <1>1, <2>1, <2>4, Constants DEF EngineStep, EngineOK, Launched, Send
<1>2. CASE w.queue # <<>>
  <2> DEFINE v == [w EXCEPT !.queue = Tail(@)]
             c == Head(w.queue)
  <2>1. /\ c \in Cmd /\ Tail(w.queue) \in Seq(Cmd)
        /\ c \in Range(w.queue)
        /\ Range(Tail(w.queue)) = Range(w.queue) \ {c}
        /\ IsInjective(Tail(w.queue))
    BY <1>2, RemoveFirst DEF InOrder, WorkType
  <2>2. Launch(v, c, sel)
    BY <1>2 DEF StartNext
  <2>3. /\ v.pool = w.pool /\ v.queue = Tail(w.queue) /\ v.cmd = w.cmd
        /\ v.answer = w.answer /\ v \in WorkType
    BY <2>1 DEF InOrder, WorkType
  <2> HIDE DEF v, c
  <2>4. QueuedOK(v)
    BY <2>1, <2>3 DEF InOrder, QueuedOK
  <2>5. InOrder(v, c)
    BY <2>1, <2>3, <2>4, Constants DEF InOrder
  <2>6. CurrentOK(v, c)
    BY <2>1, <2>3 DEF InOrder, QueuedOK, CurrentOK
  <2> QED BY <2>1, <2>2, <2>3, <2>5, <2>6, LaunchOK
<1> QED BY <1>1, <1>2

(* What a handler may do to the answers, besides giving one to a request   *)
(* it completes.                                                           *)
Untold(a, b, r) ==
  \/ b[r] = a[r]
  \/ a[r] = "none" /\ b[r] \in {"pending", "NoMedia", "waiting"}
  \/ a[r] = "waiting" /\ b[r] = "pending"

(* A completion answers the request of the current command, and leaves the *)
(* engine in order.                                                        *)
LEMMA CompleteOK ==
  ASSUME NEW w, current \in Cmd, InOrder(w, current), CurrentOK(w, current),
         w.cmd[current].state \in Waiting,
         timer \in BOOLEAN, isCardSelected \in BOOLEAN, cleared \in BOOLEAN,
         hcTransferType \in TransferTypes,
         NEW result \in {"Success", "Timeout", "Aborted"}, Complete(w, result)
  PROVE  /\ EngineStep /\ Launched'
         /\ answer'[w.cmd[current].req] = result
         /\ \A r \in Request \ {w.cmd[current].req} : Untold(w.answer, answer', r)
<1> DEFINE told == Told(w, current, result)
           q    == w.cmd[current].req
<1>1. /\ InOrder(told, current)
      /\ told.answer = [w.answer EXCEPT ![q] = result]
      /\ told.answer[q] = result /\ q \in Request
      /\ \A r \in Request : r # q => told.answer[r] = w.answer[r]
  <2>1. result \in Answer
    BY DEF Answer
  <2>2. InOrder(told, current)
    BY <2>1, ToldInOrder DEF CurrentOK
  <2>3. told.answer = [w.answer EXCEPT ![q] = result]
    BY DEF Told, InOrder, WorkType
  <2> QED BY <2>2, <2>3 DEF InOrder, WorkType, CurrentOK
<1> HIDE DEF told
<1>3. ASSUME NEW v, InOrder(v, current), timer' = FALSE,
             StartNext(Freed(v, current), isCardSelected)
      PROVE  EngineStep /\ Launched' /\ answer' = v.answer
  <2>1. InOrder(Freed(v, current), None)
    BY <1>3, FreedInOrder
  <2>2. Freed(v, current).answer = v.answer
    BY <1>3 DEF Freed, InOrder, WorkType
  <2> QED BY <1>3, <2>1, <2>2, StartNextOK
<1>4. CASE timer' = FALSE /\ StartNext(Freed(told, current), isCardSelected)
  BY <1>1, <1>3, <1>4 DEF Untold
<1>6. ASSUME NEW r \in Request, MaySubmit(told, r)
      PROVE  /\ told.answer[r] = "none" /\ r # q
             /\ InOrder(NotQueued(told, r), current)
             /\ NotQueued(told, r).answer[r] \in {"NoMedia", "waiting"}
             /\ \A p \in Request : p # r => NotQueued(told, r).answer[p] = told.answer[p]
  <2>1. told.answer[r] = "none" /\ r # q
    BY <1>1, <1>6 DEF MaySubmit
  <2>2. NotQueued(told, r).answer = [told.answer EXCEPT ![r] =
                       IF cardPresent THEN "waiting" ELSE "NoMedia"]
    BY <1>1 DEF NotQueued, InOrder, WorkType
  <2>3. InOrder(NotQueued(told, r), current)
    BY <1>1, <2>1, NotQueuedInOrder
  <2> QED BY <1>1, <2>1, <2>2, <2>3 DEF InOrder, WorkType
<1>7. CASE \E r \in Request :
             /\ MaySubmit(told, r) /\ timer' = FALSE
             /\ StartNext(Freed(NotQueued(told, r), current), isCardSelected)
  <2>1. PICK r \in Request :
             /\ MaySubmit(told, r) /\ timer' = FALSE
             /\ StartNext(Freed(NotQueued(told, r), current), isCardSelected)
    BY <1>7
  <2>2. EngineStep /\ Launched' /\ answer' = NotQueued(told, r).answer
    BY <1>3, <1>6, <2>1
  <2> QED BY <1>1, <1>6, <2>1, <2>2 DEF Untold
<1>8. CASE \E r \in Request, e \in CallbackEntries, c \in told.pool :
             /\ MaySubmit(told, r) /\ timer' = FALSE
             /\ StartNext(Freed(Queued(told, r, e, c), current), isCardSelected)
  <2>1. PICK r \in Request, e \in CallbackEntries, c \in told.pool :
             /\ MaySubmit(told, r) /\ timer' = FALSE
             /\ StartNext(Freed(Queued(told, r, e, c), current), isCardSelected)
    BY <1>8
  <2>2. e \in Entries /\ told.answer[r] = "none" /\ r # q
    BY <1>6, <2>1, Constants
  <2>3. InOrder(Queued(told, r, e, c), current)
    BY <1>1, <2>2, QueuedInOrder
  <2>4. answer' = Queued(told, r, e, c).answer /\ EngineStep /\ Launched'
    BY <1>3, <2>1, <2>3
  <2>5. Queued(told, r, e, c).answer = [told.answer EXCEPT ![r] = "pending"]
    BY <1>1 DEF Queued, InOrder, WorkType
  <2>6. \A p \in Request : p # r => answer'[p] = told.answer[p]
    BY <1>1, <2>4, <2>5 DEF InOrder, WorkType
  <2>7. answer'[r] = "pending"
    BY <1>1, <2>4, <2>5 DEF InOrder, WorkType
  <2> QED BY <1>1, <2>2, <2>4, <2>6, <2>7 DEF Untold
<1>9. CASE /\ told.pool = {}
           /\ \E r \in Request : MaySubmit(told, r) /\ Leave(NotQueued(told, r))
           /\ sending' = "asleep"
           /\ UNCHANGED <<current, timer, isCardSelected, cleared>>
  <2>1. PICK r \in Request : MaySubmit(told, r) /\ Leave(NotQueued(told, r))
    BY <1>9
  <2> DEFINE v == NotQueued(told, r)
  <2>2. /\ InOrder(v, current) /\ v.pool = {} /\ v.cmd = w.cmd
    <3>1. v.pool = told.pool /\ v.cmd = told.cmd
      BY <1>1 DEF NotQueued, InOrder, WorkType
    <3>2. told.cmd = w.cmd
      BY DEF told, Told, InOrder, WorkType
    <3> QED BY <1>6, <1>9, <2>1, <3>1, <3>2
  <2> HIDE DEF v
  <2>3. pool' = v.pool /\ queue' = v.queue /\ cmd' = v.cmd /\ answer' = v.answer
    BY <2>1 DEF Leave, v
  <2>4. Work' \in WorkType
    BY <2>2, <2>3 DEF Work, WorkType, InOrder
  <2>5. QueuedOK(Work')
    BY <2>2, <2>3 DEF Work, QueuedOK, InOrder
  <2>6. InOrder(Work', current')
    BY <1>9, <2>2, <2>3, <2>4, <2>5 DEF Work, InOrder
  <2>7. EngineOK'
    BY <1>9, <2>2, <2>3, <2>6, Constants DEF EngineOK, Send
  <2> QED BY <1>1, <1>6, <1>9, <2>1, <2>3, <2>7 DEF EngineStep, Launched, Untold, v
<1> QED
  <2>1. Complete(w, result)
    OBVIOUS
  <2> QED BY <1>4, <1>7, <1>8, <1>9, <2>1 DEF Complete, told

------------------------------------------------------------------------------
(* The invariant, taken apart: the engine, the types of the environment,   *)
(* and what ties the operation on the lines to the current command.        *)

EnvType ==
  /\ {cardChange, pendingInt, cardPresent, cardSelected, cardPrefixed} \subseteq BOOLEAN
  /\ hcTransferType \in TransferTypes /\ dmaMode \in {"SDMA", "ADMA2"}
  /\ initStep \in {"reset", "failed", "done"}
  /\ hw \in Operation /\ status \subseteq StatusBit
  /\ ran \subseteq Request /\ served \subseteq ran
  /\ events \in 0..MaxEvents /\ resets \in 0..MaxResets

OperationOK ==
  /\ hw.phase \in {"cmd", "data"} => hw.req \in Request
  /\ hw.phase = "data" /\ hcTransferType = "SDMA" => hw.left > 0

SetUpOK == resets = 0 => ~cleared /\ dmaMode = ModeFor(hcTransferType)

(* The hardware has come to the end of the operation of request q.         *)
Real(q) == q \in ran /\ (resets = 0 => q \in served)

OwnOperation(r) ==
  /\ hw.phase \in {"cmd", "data", "busy"} =>
       /\ hw.req = r.req /\ hw.send = "entry" /\ hw.phase # "busy"
       /\ hw.phase = "cmd" => hw.left > 0
       /\ resets = 0 => hw.own \/ (r.off = 0 /\ hcTransferType # "PIO")
  /\ TransferComplete \in status /\ AllMoved(r) => Real(r.req)

Transferring ==
  /\ sending = "no" /\ current # None
  /\ cmd[current].state = "DataTransfer" /\ MovesData(cmd[current].entry)

Parts == /\ EngineOK /\ EnvType /\ OperationOK /\ SetUpOK
         /\ Transferring => OwnOperation(cmd[current])

(* The record Work is pool, queue, commands and answers.                   *)
LEMMA WorkFields ==
  Work.pool = pool /\ Work.queue = queue /\ Work.cmd = cmd /\ Work.answer = answer
BY DEF Work

(* The inductive invariant is the conjunction of the parts that the steps  *)
(* are proved for.                                                         *)
LEMMA PartsOfIInv == IInv <=> Parts
<1>1. TransfersAreOwn <=>
        OperationOK /\ SetUpOK /\ (Transferring => OwnOperation(cmd[current]))
  BY DEF TransfersAreOwn, OperationOK, SetUpOK, OwnOperation, Real, Transferring,
         GateFree
<1>2. ASSUME IInv PROVE EngineOK /\ EnvType
  <2>1. EnvType /\ {timer, isCardSelected, cleared} \subseteq BOOLEAN
    BY <1>2 DEF IInv, TypeOK, EnvType
  <2>2. Work \in WorkType
    BY <1>2 DEF IInv, TypeOK, Work, WorkType
  <2>3. /\ Range(queue) \subseteq Held
        /\ current # None /\ sending # "asleep" => current \in Held
    BY <1>2 DEF IInv, EveryCommandAccountedFor, InUse, Held
  <2>4. QueuedOK(Work)
    BY <1>2, <2>3, WorkFields
    DEF IInv, CommandsHoldPendingRequests, CommandStatesKnown, QueuedOK
  <2>5. InOrder(Work, current)
    BY <1>2, <2>2, <2>4, WorkFields DEF IInv, EveryCommandAccountedFor, InOrder
  <2>6. current # None /\ sending # "asleep" => CurrentOK(Work, current)
    BY <1>2, <2>3, WorkFields
    DEF IInv, EveryCommandAccountedFor, CommandsHoldPendingRequests, CurrentOK
  <2> QED BY <1>2, <2>1, <2>5, <2>6
          DEF IInv, TypeOK, CommandStatesKnown, NoStrandedWork, EngineOK, Waiting
<1>3. ASSUME EngineOK, EnvType
      PROVE  /\ TypeOK /\ EveryCommandAccountedFor /\ CommandsHoldPendingRequests
             /\ NoStrandedWork /\ CommandStatesKnown
  <2>1. /\ pool \subseteq Cmd /\ queue \in Seq(Cmd) /\ cmd \in [Cmd -> Command]
        /\ answer \in [Request -> Answer]
    BY <1>3, WorkFields DEF EngineOK, InOrder, WorkType
  <2>2. TypeOK
    BY <1>3, <2>1 DEF EngineOK, EnvType, TypeOK
  <2>3. EveryCommandAccountedFor
    BY <1>3, WorkFields DEF EngineOK, InOrder, EveryCommandAccountedFor
  <2>4. /\ sending # "asleep" => Held = Range(queue) \cup ({current} \ {None})
        /\ sending = "asleep" => Held = Range(queue)
    BY <1>3, <2>3 DEF InUse, Held, EveryCommandAccountedFor
  <2>5. CommandsHoldPendingRequests
    <3>1. CASE sending = "asleep"
      BY <1>3, <2>4, <3>1, WorkFields
      DEF EngineOK, InOrder, QueuedOK, CommandsHoldPendingRequests
    <3>2. CASE sending # "asleep"
      BY <1>3, <2>4, <3>2, WorkFields
      DEF EngineOK, InOrder, QueuedOK, CurrentOK, CommandsHoldPendingRequests
    <3> QED BY <3>1, <3>2
  <2>6. NoStrandedWork /\ CommandStatesKnown
    BY <1>3, WorkFields
    DEF EngineOK, InOrder, QueuedOK, NoStrandedWork, CommandStatesKnown, Waiting
  <2> QED BY <2>2, <2>3, <2>5, <2>6
<1> QED BY <1>1, <1>2, <1>3 DEF IInv, Parts

------------------------------------------------------------------------------
(* The handlers that run under the gate.                                   *)

(* What a step may do to the answers: besides refusing and accepting new   *)
(* requests, it may answer the current command's.                          *)
Verdicts == {"Success", "Timeout", "Aborted"}

AnswersCurrent(r) ==
  /\ current # None /\ sending # "asleep" /\ r = cmd[current].req
  /\ answer[r] = "pending" /\ answer'[r] \in Verdicts
  /\ answer'[r] = "Success" /\ MovesData(cmd[current].entry) => Real(r)

AnswerStep ==
  \A r \in Request : Untold(answer, answer', r) \/ AnswersCurrent(r)

(* A change of pool, queue, commands and answers that is in order and      *)
(* spares the current command keeps the engine in order.                   *)
LEMMA LeaveOK ==
  ASSUME EngineOK, NEW w, InOrder(w, current), Leave(w),
         UNCHANGED <<current, sending, timer, isCardSelected, cleared>>,
         current = None => w.queue = <<>>,
         sending = "asleep" => w.pool = {},
         current # None => w.cmd[current] = cmd[current],
         current # None /\ sending # "asleep" => CurrentOK(w, current)
  PROVE  EngineStep /\ answer' = w.answer
<1>1. pool' = w.pool /\ queue' = w.queue /\ cmd' = w.cmd /\ answer' = w.answer
  BY DEF Leave
<1>2. Work' \in WorkType
  BY <1>1 DEF Work, WorkType, InOrder
<1>3. QueuedOK(Work')
  BY <1>1 DEF Work, QueuedOK, InOrder
<1>4. InOrder(Work', current')
  BY <1>1, <1>2, <1>3 DEF Work, InOrder
<1>5. current # None /\ sending # "asleep" => CurrentOK(Work', current')
  BY <1>1 DEF Work, CurrentOK
<1>6. sending \in Send => current # None
  BY DEF EngineOK, Send
<1> QED BY <1>1, <1>4, <1>5, <1>6 DEF EngineStep, EngineOK

(* The current command completes after its queue was, perhaps, flushed.    *)
LEMMA CompletionOK ==
  ASSUME EngineOK, EnvType, current # None, sending # "asleep",
         NEW w, w = Work \/ w = Flushed(Work),
         NEW result \in Verdicts, Complete(w, result),
         result = "Success" /\ MovesData(cmd[current].entry) =>
           Real(cmd[current].req)
  PROVE  EngineStep /\ Launched' /\ AnswerStep
<1>1. current \in Cmd /\ InOrder(Work, current) /\ CurrentOK(Work, current)
  BY DEF EngineOK
<1>2. /\ InOrder(w, current) /\ CurrentOK(w, current)
      /\ w.cmd[current] = cmd[current] /\ w.answer = answer
  <2>1. CASE w = Work
    BY <1>1, <2>1, WorkFields
  <2>2. CASE w = Flushed(Work)
    <3>1. InOrder(w, current)
      BY <1>1, <2>2, FlushedInOrder
    <3> DEFINE m == [c \in Cmd |-> IF c \in Range(queue) THEN Zeroed ELSE cmd[c]]
    <3>2. current \notin Range(queue)
      BY <1>1, WorkFields DEF InOrder
    <3>3. m[current] = cmd[current]
      BY <1>1, <3>2
    <3>4. w = [Work EXCEPT !.queue = <<>>, !.pool = @ \cup Range(queue), !.cmd = m]
      BY <2>2, WorkFields DEF Flushed
    <3> HIDE DEF m
    <3>5. w.queue = <<>> /\ w.answer = answer /\ w.cmd = m
      BY <1>1, <3>4, WorkFields DEF InOrder, WorkType
    <3>6. CurrentOK(w, current)
      BY <1>1, <3>3, <3>5, EmptyQueue, WorkFields DEF CurrentOK
    <3> QED BY <3>1, <3>3, <3>5, <3>6
  <2> QED BY <2>1, <2>2
<1>3. /\ EngineStep /\ Launched'
      /\ answer'[cmd[current].req] = result
      /\ \A r \in Request \ {cmd[current].req} : Untold(answer, answer', r)
  BY <1>1, <1>2, CompleteOK DEF EngineOK, EnvType, Verdicts
<1>4. answer[cmd[current].req] = "pending"
  BY <1>1, WorkFields DEF CurrentOK
<1> QED BY <1>3, <1>4 DEF AnswerStep, AnswersCurrent

(* A request that gets a command is queued for it, or launched with it.    *)
LEMMA AcceptOK ==
  ASSUME EngineOK, EnvType, NEW r \in Request, NEW e \in Entries,
         sending = "no", answer[r] \in {"none", "waiting"}, Accept(r, e)
  PROVE  /\ EngineStep /\ AnswerStep
         /\ \/ Launched'
            \/ /\ sending' = sending /\ current' = current
               /\ current # None => cmd'[current] = cmd[current]
<1>1. InOrder(Work, current) /\ answer[r] # "pending" /\ sending = "no"
  BY DEF EngineOK
<1>2. answer \in [Request -> Answer]
  BY <1>1, WorkFields DEF InOrder, WorkType
<1>3. ASSUME NEW c \in pool,
             IF current = None
             THEN timer' = TRUE /\ StartNext(Queued(Work, r, e, c), isCardSelected)
             ELSE /\ Leave(Queued(Work, r, e, c))
                  /\ UNCHANGED <<current, sending, timer, isCardSelected, cleared>>
      PROVE  /\ EngineStep /\ AnswerStep
             /\ \/ Launched'
                \/ /\ sending' = sending /\ current' = current
                   /\ current # None => cmd'[current] = cmd[current]
  <2> DEFINE w == Queued(Work, r, e, c)
             q == Append(queue, c)
             a == [answer EXCEPT ![r] = "pending"]
             m == [cmd EXCEPT ![c] = Filled(r, e)]
  <2>1. InOrder(w, current) /\ c \in Cmd /\ c # current
    BY <1>1, <1>3, WorkFields, QueuedInOrder DEF InOrder, WorkType
  <2>2. w = [Work EXCEPT !.pool = @ \ {c}, !.queue = q, !.cmd = m, !.answer = a]
    BY WorkFields DEF Queued, addCommandToQueue
  <2> HIDE DEF q, a, m
  <2>3. w.queue = q /\ w.cmd = m /\ w.answer = a
    BY <1>1, <2>2, WorkFields DEF InOrder, WorkType
  <2>4. IF current = None
        THEN timer' = TRUE /\ StartNext(w, isCardSelected)
        ELSE Leave(w) /\ UNCHANGED <<current, sending, timer, isCardSelected, cleared>>
    BY <1>3
  <2> HIDE DEF w
  <2>5. /\ \A p \in Request : p # r => a[p] = answer[p]
        /\ a[r] = "pending"
    BY <1>2 DEF a
  <2>6. answer' = a => AnswerStep
    BY <1>1, <2>5 DEF AnswerStep, Untold
  <2>7. Range(q) = Range(queue) \cup {c} /\ q # <<>> /\ c \notin Range(queue)
    BY <1>1, <1>3, <2>1, WorkFields, AppendToQueue DEF InOrder, WorkType, q
  <2>8. CASE current = None
    <3>1. timer' = TRUE /\ StartNext(w, isCardSelected) /\ InOrder(w, None)
      BY <2>1, <2>4, <2>8
    <3>2. /\ w.queue # <<>> /\ hcTransferType \in TransferTypes
          /\ isCardSelected \in BOOLEAN /\ cleared \in BOOLEAN /\ timer' \in BOOLEAN
      BY <2>3, <2>7, <3>1 DEF EngineOK, EnvType
    <3>3. EngineStep /\ Launched' /\ answer' = w.answer
      BY <3>1, <3>2, StartNextOK
    <3> QED BY <2>3, <2>6, <3>3
  <2>9. CASE current # None
    <3>1. /\ m \in [Cmd -> Command] /\ m[c] = Filled(r, e)
          /\ \A d \in Cmd \ {c} : m[d] = cmd[d]
      BY <1>1, <2>1, WorkFields, FilledType DEF InOrder, WorkType, m
    <3>2. current \in Cmd /\ Range(queue) \subseteq Cmd
      BY <1>1, <2>9, WorkFields DEF EngineOK, InOrder
    <3>3. CurrentOK(Work, current)
      BY <1>1, <2>9 DEF EngineOK
    <3>4. m[current] = cmd[current] /\ cmd[current].req # r
      BY <1>1, <2>1, <3>1, <3>2, <3>3, WorkFields DEF CurrentOK
    <3>5. CurrentOK(w, current)
      <4>1. \A d \in Range(q) : m[d].req # m[current].req
        BY <2>7, <3>1, <3>2, <3>3, <3>4, WorkFields, FilledType DEF CurrentOK
      <4> QED BY <2>3, <2>5, <3>3, <3>4, <4>1, WorkFields DEF CurrentOK
    <3>6. Leave(w) /\ UNCHANGED <<current, sending, timer, isCardSelected, cleared>>
      BY <2>4, <2>9
    <3>7. EngineStep /\ answer' = a
      BY <2>1, <2>3, <2>9, <3>4, <3>5, <3>6, LeaveOK
    <3> QED BY <2>3, <2>6, <3>4, <3>6, <3>7 DEF Leave
  <2> QED BY <2>8, <2>9
<1> QED BY <1>3 DEF Accept

(* doAsyncCommandGated keeps the engine in order, whether it refuses, lets *)
(* the caller sleep, queues or launches.                                   *)
LEMMA SubmitOK ==
  ASSUME EngineOK, EnvType, NEW r \in Request, NEW e \in Entries,
         doAsyncCommandGated(r, e)
  PROVE  /\ EngineStep /\ AnswerStep
         /\ \/ Launched'
            \/ /\ sending' = sending /\ current' = current
               /\ current # None => cmd'[current] = cmd[current]
<1>1. InOrder(Work, current) /\ answer[r] = "none" /\ sending \in {"no", "asleep"}
  BY WorkFields DEF EngineOK, doAsyncCommandGated, MaySubmit
<1>2. answer \in [Request -> Answer]
  BY <1>1, WorkFields DEF InOrder, WorkType
<1>3. CASE Leave(NotQueued(Work, r)) /\ UNCHANGED <<current, sending, timer, isCardSelected, cleared>>
  <2> DEFINE w == NotQueued(Work, r)
             a == [answer EXCEPT ![r] =
                     IF cardPresent THEN "waiting" ELSE "NoMedia"]
  <2>1. InOrder(w, current)
    BY <1>1, WorkFields, NotQueuedInOrder
  <2>2. w = [Work EXCEPT !.answer = a]
    BY WorkFields DEF NotQueued
  <2> HIDE DEF a
  <2>3. w.pool = pool /\ w.queue = queue /\ w.cmd = cmd /\ w.answer = a
    BY <1>1, <2>2, WorkFields DEF InOrder, WorkType
  <2> HIDE DEF w
  <2>4. /\ \A q \in Request : q # r => a[q] = answer[q]
        /\ a[r] \in {"NoMedia", "waiting"}
    BY <1>2 DEF a
  <2>5. current # None /\ sending # "asleep" => CurrentOK(w, current)
    BY <1>1, <2>3, <2>4, WorkFields DEF EngineOK, CurrentOK
  <2>6. EngineStep /\ answer' = a
    <3>1. Leave(w) /\ UNCHANGED <<current, sending, timer, isCardSelected, cleared>>
      BY <1>3 DEF w
    <3>2. /\ current = None => w.queue = <<>>
          /\ sending = "asleep" => w.pool = {}
      BY <2>3 DEF EngineOK
    <3> QED BY <2>1, <2>3, <2>5, <3>1, <3>2, LeaveOK
  <2>7. AnswerStep
    BY <1>1, <2>4, <2>6 DEF AnswerStep, Untold
  <2>8. cmd' = cmd
    BY <1>3, <2>3 DEF Leave, w
  <2> QED BY <1>3, <2>6, <2>7, <2>8
<1>4. CASE ~NoCommandFor(Work) /\ Accept(r, e)
  <2>1. sending = "no"
    BY <1>1, <1>4, WorkFields DEF NoCommandFor, EngineOK
  <2> QED BY <1>1, <1>4, <2>1, AcceptOK
<1> QED BY <1>3, <1>4 DEF doAsyncCommandGated

(* A data transfer goes on, or the command completes.  st are the bits it  *)
(* goes by and h the operation on the lines.                               *)
LEMMA TransferOK ==
  ASSUME EngineOK, EnvType, current # None, sending # "asleep", NEW st, NEW h \in Operation,
         Transfer(st, h),
         MovesData(cmd[current].entry) /\ TransferDone(cmd[current], st)
           => Real(cmd[current].req)
  PROVE  /\ EngineStep /\ AnswerStep
         /\ \/ Launched' /\ hw' = h
            \/ /\ sending' = "no" /\ current' = current
               /\ hw' \in {h, [h EXCEPT !.fed = TRUE]}
               /\ cmd'[current].entry = cmd[current].entry
               /\ cmd'[current].req = cmd[current].req
               /\ cmd'[current].state = cmd[current].state
               /\ \/ cmd'[current].off = cmd[current].off
                  \/ /\ DataSeen(cmd[current], st)
                     /\ hcTransferType = "PIO" \/ cmd[current].off > 0
<1> DEFINE r == cmd[current]
<1>1. /\ current \in Cmd /\ InOrder(Work, current) /\ CurrentOK(Work, current)
      /\ cmd \in [Cmd -> Command] /\ r \in Command
  BY WorkFields DEF EngineOK, InOrder, WorkType
<1>2. CASE HasData(r.entry) /\ ~TransferDone(r, st)
  <2>1. /\ IF MovesChunk(r, st)
           THEN /\ cmd' = [cmd EXCEPT ![current].off = @ + 1]
                /\ hw' = [h EXCEPT !.fed = @ \/ h.phase = "data"]
           ELSE cmd' = cmd /\ hw' = h
        /\ sending' = "no"
        /\ UNCHANGED <<pool, queue, current, answer, timer, isCardSelected, cleared>>
    BY <1>2 DEF Transfer
  <2>2. hw' \in {h, [h EXCEPT !.fed = TRUE]}
    <3>1. CASE MovesChunk(r, st)
      <4>1. h.fed \in BOOLEAN /\ h = [h EXCEPT !.fed = h.fed]
        BY DEF Operation
      <4> QED BY <2>1, <3>1, <4>1
    <3> QED BY <2>1, <3>1
  <2>3. /\ cmd' \in [Cmd -> Command]
        /\ \A c \in Cmd : c # current => cmd'[c] = cmd[c]
        /\ cmd'[current].entry = r.entry /\ cmd'[current].req = r.req
        /\ cmd'[current].state = r.state
        /\ \/ cmd'[current].off = r.off
           \/ DataSeen(r, st) /\ (hcTransferType = "PIO" \/ r.off > 0)
    <3>1. CASE MovesChunk(r, st)
      <4>1. r.off + 1 \in 0..Chunks
        BY <1>1, <3>1, Totals, Constants DEF MovesChunk, AllMoved, Command
      <4>2. DataSeen(r, st) /\ (hcTransferType = "PIO" \/ r.off > 0)
        BY <3>1 DEF MovesChunk
      <4>3. cmd' = [cmd EXCEPT ![current] = [r EXCEPT !.off = r.off + 1]]
        BY <2>1, <3>1
      <4>4. [r EXCEPT !.off = r.off + 1] \in Command
        BY <1>1, <4>1 DEF Command
      <4> QED BY <1>1, <4>2, <4>3, <4>4 DEF Command
    <3>2. CASE ~MovesChunk(r, st)
      BY <1>1, <2>1, <3>2
    <3> QED BY <3>1, <3>2
  <2> DEFINE w == [Work EXCEPT !.cmd = cmd']
  <2>4. /\ w.pool = pool /\ w.queue = queue /\ w.cmd = cmd' /\ w.answer = answer
        /\ w \in WorkType
    BY <1>1, <2>3, WorkFields DEF InOrder, WorkType
  <2> HIDE DEF w
  <2>5. current \notin Range(queue) /\ Range(queue) \subseteq Cmd
    BY <1>1, WorkFields DEF InOrder
  <2>6. Work' \in WorkType
    BY <2>1, <2>4 DEF Work, WorkType
  <2>7. QueuedOK(Work')
    BY <1>1, <2>1, <2>3, <2>5, WorkFields DEF Work, QueuedOK, InOrder
  <2>8. InOrder(Work', current')
    BY <1>1, <2>1, <2>6, <2>7, WorkFields DEF Work, InOrder
  <2>9. CurrentOK(Work', current')
    BY <1>1, <2>1, <2>3, <2>5, WorkFields DEF Work, CurrentOK
  <2>10. EngineStep
    BY <2>1, <2>3, <2>8, <2>9 DEF EngineStep, EngineOK, Waiting, Send
  <2>11. AnswerStep
    BY <2>1 DEF AnswerStep, Untold
  <2> QED BY <2>1, <2>2, <2>3, <2>10, <2>11
<1>3. CASE ~(HasData(r.entry) /\ ~TransferDone(r, st))
  <2>1. Complete(Work, "Success") /\ hw' = h
    BY <1>3 DEF Transfer
  <2>2. MovesData(r.entry) => Real(r.req)
    BY <1>3 DEF MovesData
  <2> QED BY <2>1, <2>2, CompletionOK DEF Verdicts
<1> QED BY <1>2, <1>3

(* handleInterrupt keeps every part, with and without a card removal.      *)
LEMMA InterruptOK ==
  ASSUME Parts, handleInterrupt
  PROVE  Parts' /\ AnswerStep
<1>1. /\ sending = "no" /\ status' = {}
      /\ IF "CardRemoval" \in status
         THEN cancelForRemoval /\ hw' = hw
         ELSE doAsyncIO(status)
      /\ cardChange' \in BOOLEAN /\ pendingInt' \in BOOLEAN
      /\ UNCHANGED <<hcTransferType, dmaMode, initStep, cardPresent, cardSelected,
                     cardPrefixed, ran, served, events, resets>>
  BY DEF handleInterrupt, GateFree, Parts, EnvType, card, mode
<1>2. /\ EngineOK /\ EnvType /\ OperationOK /\ SetUpOK
      /\ Transferring => OwnOperation(cmd[current])
  BY DEF Parts
<1>3. ASSUME EngineStep, AnswerStep, Launched' \/ current' = None, hw' = hw
      PROVE  Parts' /\ AnswerStep
  <2>1. EnvType' /\ OperationOK' /\ SetUpOK'
    BY <1>1, <1>2, <1>3 DEF EnvType, OperationOK, SetUpOK, EngineStep
  <2>2. ~Transferring'
    BY <1>3 DEF Transferring, Launched, Send
  <2> QED BY <1>3, <2>1, <2>2 DEF Parts, EngineStep
<1>4. CASE "CardRemoval" \in status
  <2>1. CASE current = None
    <3>1. Leave(Flushed(Work)) /\ UNCHANGED <<current, sending, timer, isCardSelected, cleared>>
      BY <1>1, <1>4, <2>1 DEF cancelForRemoval
    <3>2. InOrder(Flushed(Work), current)
      BY <1>2, FlushedInOrder DEF EngineOK
    <3>3. Flushed(Work).queue = <<>> /\ Flushed(Work).answer = answer
      BY <1>2, WorkFields DEF Flushed, EngineOK, InOrder, WorkType
    <3>4. EngineStep /\ answer' = answer
      BY <1>1, <1>2, <2>1, <3>1, <3>2, <3>3, LeaveOK
    <3> QED BY <1>1, <1>3, <1>4, <2>1, <3>1, <3>4 DEF AnswerStep, Untold
  <2>2. CASE current # None
    <3>1. Complete(Flushed(Work), "Aborted") /\ hw' = hw
      BY <1>1, <1>4, <2>2 DEF cancelForRemoval
    <3> QED BY <1>1, <1>2, <1>3, <2>2, <3>1, CompletionOK DEF Verdicts
  <2> QED BY <2>1, <2>2
<1>5. CASE "CardRemoval" \notin status
  <2>1. doAsyncIO(status)
    BY <1>1, <1>5
  <2>2. CASE current = None /\ UNCHANGED <<work, isCardSelected, cleared, hw>>
    <3>1. UNCHANGED <<pool, queue, cmd, current, answer, sending, timer,
                      isCardSelected, cleared>>
      BY <2>2 DEF work
    <3>2. Work' = Work
      BY <3>1 DEF Work
    <3>3. EngineStep
      BY <1>2, <3>1, <3>2 DEF EngineStep, EngineOK
    <3> QED BY <1>3, <2>2, <3>1, <3>3 DEF AnswerStep, Untold
  <2>3. CASE /\ current # None
             /\ Launch(Work, current,
                       IF cmd[current].state = "CardSelectionSent"
                       THEN cmd[current].newSel ELSE isCardSelected)
             /\ UNCHANGED <<timer, hw>>
    <3> DEFINE sel == IF cmd[current].state = "CardSelectionSent"
                      THEN cmd[current].newSel ELSE isCardSelected
    <3>1. /\ current \in Cmd /\ InOrder(Work, current) /\ CurrentOK(Work, current)
          /\ cmd[current] \in Command /\ timer' \in BOOLEAN /\ cleared \in BOOLEAN
      BY <1>1, <1>2, <2>3, WorkFields DEF EngineOK, InOrder, WorkType
    <3>2. sel \in BOOLEAN
      BY <1>2, <3>1 DEF EngineOK, Command
    <3>3. Launch(Work, current, sel)
      BY <2>3
    <3> HIDE DEF sel
    <3>4. EngineStep /\ Launched' /\ answer' = answer
      BY <1>2, <3>1, <3>2, <3>3, WorkFields, LaunchOK DEF EnvType
    <3> QED BY <1>3, <2>3, <3>4 DEF AnswerStep, Untold
  <2>4. CASE /\ current # None /\ cmd[current].state = "DataTransfer"
             /\ Transfer(status, hw)
    <3> DEFINE r == cmd[current]
    <3>0. r \in Command
      BY <1>2, <2>4, WorkFields DEF EngineOK, InOrder, WorkType
    <3>1. MovesData(r.entry) => OwnOperation(r)
      BY <1>1, <1>2, <2>4 DEF Transferring
    <3>2. MovesData(r.entry) /\ TransferDone(r, status) => Real(r.req)
      BY <3>1 DEF OwnOperation, TransferDone, MovesData
    <3>3. hw \in Operation
      BY <1>2 DEF EnvType
    <3>4. /\ EngineStep /\ AnswerStep
          /\ \/ Launched' /\ hw' = hw
             \/ /\ sending' = "no" /\ current' = current
                /\ hw' \in {hw, [hw EXCEPT !.fed = TRUE]}
                /\ cmd'[current].entry = r.entry /\ cmd'[current].req = r.req
                /\ \/ cmd'[current].off = r.off
                   \/ /\ DataSeen(r, status)
                      /\ hcTransferType = "PIO" \/ r.off > 0
      BY <1>1, <1>2, <2>4, <3>2, <3>3, TransferOK
    <3>5. CASE Launched' /\ hw' = hw
      BY <1>3, <3>4, <3>5
    <3>6. CASE /\ sending' = "no" /\ current' = current
               /\ hw' \in {hw, [hw EXCEPT !.fed = TRUE]}
               /\ cmd'[current].entry = r.entry /\ cmd'[current].req = r.req
               /\ \/ cmd'[current].off = r.off
                  \/ hcTransferType = "PIO" \/ r.off > 0
      <4>1. /\ hw' \in Operation /\ hw'.phase = hw.phase /\ hw'.req = hw.req
            /\ hw'.send = hw.send /\ hw'.left = hw.left /\ hw'.own = hw.own
        BY <3>3, <3>6 DEF Operation
      <4>2. EnvType' /\ OperationOK' /\ SetUpOK'
        BY <1>1, <1>2, <3>4, <4>1 DEF EnvType, OperationOK, SetUpOK, EngineStep
      <4>3. MovesData(r.entry) => OwnOperation(cmd[current])'
        BY <1>1, <3>0, <3>1, <3>6, <4>1 DEF OwnOperation, Command
      <4>4. Transferring' => OwnOperation(cmd[current])'
        BY <3>6, <4>3 DEF Transferring
      <4> QED BY <3>4, <4>2, <4>4 DEF Parts, EngineStep
    <3> QED BY <3>4, <3>5, <3>6
  <2> QED BY <2>1, <2>2, <2>3, <2>4 DEF doAsyncIO
<1> QED BY <1>4, <1>5

(* handleIOTimeout keeps every part: it finds a current command and ends   *)
(* it.                                                                     *)
LEMMA TimeoutOK ==
  ASSUME Parts, handleIOTimeout
  PROVE  Parts' /\ AnswerStep
<1>1. /\ EngineOK /\ EnvType /\ OperationOK /\ SetUpOK /\ timer /\ sending = "no"
      /\ Complete(Work, "Timeout") /\ hw' \in {Idle, hw} /\ status' \subseteq status
      /\ UNCHANGED <<hcTransferType, dmaMode, initStep, cardChange, pendingInt,
                     cardPresent, cardSelected, cardPrefixed, ran, served, events,
                     resets>>
  BY DEF Parts, handleIOTimeout, ResetLines, GateFree, card, mode
<1>2. current # None
  BY <1>1 DEF EngineOK
<1>3. EngineStep /\ Launched' /\ AnswerStep
  BY <1>1, <1>2, CompletionOK DEF Verdicts
<1>4. /\ hw' \in Operation
      /\ hw'.phase \in {"cmd", "data"} => hw' = hw
  <2>1. Idle \in Operation /\ Idle.phase = "idle"
    BY ZeroedType DEF Idle
  <2>2. hw \in Operation /\ (hw' = Idle \/ hw' = hw)
    BY <1>1 DEF EnvType
  <2> QED BY <2>1, <2>2
<1>5. EnvType' /\ SetUpOK'
  BY <1>1, <1>3, <1>4 DEF EnvType, SetUpOK, EngineStep
<1>6. OperationOK'
  BY <1>1, <1>4 DEF OperationOK
<1>7. ~Transferring'
  BY <1>3 DEF Transferring, Launched, Send
<1> QED BY <1>3, <1>5, <1>6, <1>7 DEF Parts, EngineStep

(* sendAsyncCommand keeps every part, also when the command is not waited  *)
(* for.                                                                    *)
LEMMA SendOK ==
  ASSUME Parts, sendAsyncCommand
  PROVE  Parts' /\ AnswerStep
<1> DEFINE r    == cmd[current]
           data == sending = "entry" /\ HasData(r.entry)
           op   == [phase |-> "cmd", send |-> sending, entry |-> r.entry,
                    req |-> r.req, left |-> IF data THEN Total(r.entry) ELSE 0,
                    fed |-> data,
                    own |-> /\ ~cleared
                            /\ \/ hcTransferType = "PIO"
                               \/ r.off > 0 /\ dmaMode = ModeFor(hcTransferType)]
<1>1. /\ sending \in Send /\ status' = {}
      /\ \/ Transfer({}, op) /\ Has(Wire(sending, r.entry), "IgnoreCmdComplete")
         \/ /\ sending' = "no" /\ hw' = op
            /\ UNCHANGED <<pool, queue, cmd, current, answer, timer, isCardSelected,
                           cleared>>
      /\ UNCHANGED <<hcTransferType, dmaMode, initStep, cardChange, pendingInt,
                     cardPresent, cardSelected, cardPrefixed, ran, served, events,
                     resets>>
  BY DEF sendAsyncCommand, ClearStatus, card, mode
<1>2. /\ EngineOK /\ EnvType /\ SetUpOK /\ current # None /\ sending # "asleep"
  BY <1>1 DEF Parts, EngineOK, Send
<1>3. /\ current \in Cmd /\ r \in Command /\ r.req \in Request
      /\ r.state = StateAfter(sending)
  BY <1>1, <1>2, WorkFields DEF EngineOK, InOrder, WorkType, CurrentOK
<1>4. /\ op \in Operation /\ op.phase = "cmd" /\ op.req = r.req
      /\ op.send = sending
      /\ op.own = /\ ~cleared
                  /\ \/ hcTransferType = "PIO"
                     \/ r.off > 0 /\ dmaMode = ModeFor(hcTransferType)
      /\ op.left = IF data THEN Total(r.entry) ELSE 0
  <2>1. (IF data THEN Total(r.entry) ELSE 0) \in 0..Chunks
    BY Totals, Constants
  <2>2. r.entry \in Entries \cup {None} /\ data \in BOOLEAN
    BY <1>3 DEF Command
  <2> QED BY <1>1, <1>3, <2>1, <2>2 DEF Operation
<1> HIDE DEF op
<1>5. ASSUME r.state = "DataTransfer", MovesData(r.entry)
      PROVE  sending = "entry" /\ op.left > 0
  <2>1. sending = "entry"
    BY <1>1, <1>3, <1>5 DEF StateAfter, Send
  <2> QED BY <1>4, <1>5, <2>1, Totals, Constants DEF MovesData
<1>8. r.state = "DataTransfer" /\ MovesData(r.entry) =>
        /\ op.send = "entry" /\ op.left > 0
        /\ resets = 0 => op.own \/ (r.off = 0 /\ hcTransferType # "PIO")
  <2>1. r.off \in Nat
    BY <1>3, Constants DEF Command
  <2>2. resets = 0 => (op.own <=> hcTransferType = "PIO" \/ r.off > 0)
    BY <1>2, <1>4 DEF SetUpOK
  <2> QED BY <1>4, <1>5, <2>1, <2>2
<1>6. CASE /\ sending' = "no" /\ hw' = op
           /\ UNCHANGED <<pool, queue, cmd, current, answer, timer, isCardSelected,
                          cleared>>
  <2>1. Work' = Work
    BY <1>6 DEF Work
  <2>2. EngineOK' /\ AnswerStep
    BY <1>2, <1>6, <2>1 DEF EngineOK, AnswerStep, Untold, Send
  <2>3. EnvType' /\ OperationOK' /\ SetUpOK'
    BY <1>1, <1>2, <1>3, <1>4, <1>6 DEF EnvType, OperationOK, SetUpOK
  <2>4. Transferring' => OwnOperation(cmd[current])'
    <3>1. SUFFICES ASSUME r.state = "DataTransfer", MovesData(r.entry)
                   PROVE  OwnOperation(cmd[current])'
      BY <1>6 DEF Transferring
    <3> QED BY <1>1, <1>4, <1>6, <1>8, <3>1 DEF OwnOperation
  <2> QED BY <2>2, <2>3, <2>4 DEF Parts
<1>7. CASE Transfer({}, op) /\ Has(Wire(sending, r.entry), "IgnoreCmdComplete")
  <2>1. MovesData(r.entry) => ~DataSeen(r, {}) /\ ~TransferDone(r, {})
    BY DEF MovesData, TransferDone, DataSeen, DataBits
  <2>2. /\ EngineStep /\ AnswerStep
        /\ \/ Launched' /\ hw' = op
           \/ /\ sending' = "no" /\ current' = current
              /\ hw' \in {op, [op EXCEPT !.fed = TRUE]}
              /\ cmd'[current].entry = r.entry /\ cmd'[current].req = r.req
              /\ cmd'[current].state = r.state
              /\ \/ cmd'[current].off = r.off
                 \/ DataSeen(r, {}) /\ (hcTransferType = "PIO" \/ r.off > 0)
    BY <1>2, <1>4, <1>7, <2>1, TransferOK
  <2>3. /\ hw' \in Operation /\ hw'.phase = op.phase /\ hw'.req = op.req
        /\ hw'.send = op.send /\ hw'.left = op.left /\ hw'.own = op.own
    BY <1>4, <2>2 DEF Operation
  <2>4. EnvType' /\ OperationOK' /\ SetUpOK'
    BY <1>1, <1>2, <1>3, <1>4, <2>2, <2>3
    DEF EnvType, OperationOK, SetUpOK, EngineStep
  <2>5. CASE Launched' /\ hw' = op
    BY <2>2, <2>4, <2>5 DEF Parts, Transferring, Launched, Send, EngineStep
  <2>6. CASE /\ sending' = "no" /\ current' = current
             /\ cmd'[current].entry = r.entry /\ cmd'[current].req = r.req
             /\ cmd'[current].state = r.state
             /\ \/ cmd'[current].off = r.off
                \/ DataSeen(r, {})
    <3>1. r.state = "DataTransfer" /\ MovesData(r.entry) => OwnOperation(cmd[current])'
      BY <1>1, <1>4, <1>8, <2>1, <2>3, <2>6 DEF OwnOperation
    <3> QED BY <2>2, <2>4, <2>6, <3>1 DEF Parts, Transferring, EngineStep
  <2> QED BY <2>2, <2>5, <2>6
<1> QED BY <1>1, <1>6, <1>7

------------------------------------------------------------------------------
(* Steps of the rest of the driver, of the host controller and of the card.*)

Untouched == /\ UNCHANGED <<pool, queue, cmd, current, answer, timer,
                            hcTransferType, cardChange>>
             /\ {isCardSelected', cleared'} \subseteq BOOLEAN

(* A step that changes nothing of the engine keeps it in order.            *)
LEMMA UntouchedOK ==
  ASSUME EngineOK, Untouched, sending' = sending \/ (sending \in Send /\ sending' = "hung")
  PROVE  EngineOK' /\ AnswerStep
<1>1. Work' = Work
  BY DEF Work, Untouched
<1>2. sending \in Send => current # None
  BY DEF EngineOK, Send
<1> QED BY <1>1, <1>2 DEF Untouched, EngineOK, AnswerStep, Untold, Send

(* A sendAsyncCommand that spins for ever changes nothing else.            *)
LEMMA HangOK ==
  ASSUME Parts, sendAsyncCommandHangs
  PROVE  Parts' /\ AnswerStep
<1>1. Untouched /\ sending \in Send /\ sending' = "hung"
  BY DEF sendAsyncCommandHangs, Untouched, Parts, EngineOK, mode
<1>2. UNCHANGED <<cleared, hcTransferType, dmaMode, initStep, cardChange, pendingInt,
                  cardPresent, cardSelected, cardPrefixed, hw, status, ran, served,
                  events, resets>>
  BY DEF sendAsyncCommandHangs, card, mode
<1>3. EngineOK' /\ AnswerStep
  BY <1>1, UntouchedOK DEF Parts
<1>4. EnvType' /\ OperationOK' /\ SetUpOK' /\ ~Transferring'
  BY <1>1, <1>2 DEF Parts, EnvType, OperationOK, SetUpOK, Transferring
<1> QED BY <1>3, <1>4 DEF Parts

(* The mode of the controller and the registers of a transfer are as they  *)
(* were set up, or initController has run again.                           *)
HostKept ==
  /\ dmaMode' \in {"SDMA", "ADMA2"} /\ initStep' \in {"reset", "failed", "done"}
  /\ SetUpOK' /\ (resets' = 0 => resets = 0) /\ resets' \in 0..MaxResets

(* Any other step leaves the command engine alone, and is right when what  *)
(* it does to the operation and the status register is.                    *)
LEMMA HardwareOK ==
  ASSUME Parts, Untouched, sending' = sending,
         hw' \in Operation, status' \subseteq StatusBit,
         ran \subseteq ran', ran' \subseteq Request,
         served \subseteq served', served' \subseteq ran',
         HostKept,
         {cardPresent', cardSelected', cardPrefixed', pendingInt'} \subseteq BOOLEAN,
         events' \in 0..MaxEvents, OperationOK',
         \/ hw'.phase \in {"idle", "stuck"}
         \/ hw' = hw
         \/ /\ hw.phase = "cmd" /\ hw.left > 0 /\ hw' = [hw EXCEPT !.phase = "data"]
         \/ /\ hw.phase = "cmd" /\ ~(hw.left > 0)
         \/ /\ hw.phase = "data"
            /\ \E n \in 0..Chunks : hw' = [hw EXCEPT !.left = n, !.fed = FALSE],
         TransferComplete \in status' =>
           \/ TransferComplete \in status
           \/ hw.phase = "busy"
           \/ /\ hw.phase = "data" /\ hw.req \in ran'
              /\ hw.own => hw.req \in served'
  PROVE  Parts' /\ AnswerStep
<1>1. EngineOK' /\ AnswerStep
  BY UntouchedOK DEF Parts
<1>2. EnvType' /\ (resets' = 0 => resets = 0)
  BY DEF Parts, EnvType, Untouched, HostKept
<1>3. ASSUME Transferring PROVE OwnOperation(cmd[current])'
  <2> DEFINE r == cmd[current]
  <2>1. OwnOperation(r) /\ r \in Command /\ current \in Cmd /\ cmd' = cmd
        /\ current' = current /\ hcTransferType' = hcTransferType
    BY <1>3, WorkFields
    DEF Parts, Transferring, EngineOK, InOrder, WorkType, Untouched
  <2>2. hw.phase # "busy" /\ (hw.phase = "cmd" => hw.left > 0)
    BY <2>1 DEF OwnOperation
  <2>3. hw'.phase \in {"cmd", "data", "busy"} =>
          /\ hw'.req = hw.req /\ hw'.send = hw.send /\ hw'.own = hw.own
          /\ hw'.phase # "busy" /\ hw.phase \in {"cmd", "data", "busy"}
          /\ hw'.phase = "cmd" => hw'.left > 0
    BY <2>2 DEF Parts, EnvType, Operation
  <2>4. TransferComplete \in status' /\ AllMoved(r) => Real(r.req)'
    <3>1. CASE TransferComplete \in status /\ AllMoved(r)
      BY <1>2, <2>1, <3>1 DEF OwnOperation, Real
    <3>2. CASE /\ hw.phase = "data" /\ hw.req \in ran' /\ AllMoved(r)
               /\ hw.own => hw.req \in served'
      <4>1. r.off # 0
        BY <3>2, MovedSome
      <4>2. hw.req = r.req /\ (resets = 0 => hw.own)
        BY <2>1, <3>2, <4>1 DEF OwnOperation
      <4> QED BY <1>2, <3>2, <4>2, <2>1 DEF Real
    <3>3. AllMoved(r)' => AllMoved(r)
      BY <2>1 DEF AllMoved
    <3> QED BY <2>2, <3>1, <3>2
  <2> QED BY <1>2, <2>1, <2>3, <2>4 DEF OwnOperation, Real, AllMoved
<1>4. Transferring' => Transferring
  BY DEF Untouched, Transferring
<1> QED BY <1>1, <1>2, <1>3, <1>4 DEF Parts, HostKept

(* A step of the hardware leaves the engine untouched.                     *)
LEMMA DriverUntouched ==
  ASSUME Parts, UNCHANGED <<driver, resets>>
  PROVE  Untouched /\ sending' = sending /\ HostKept /\ hcTransferType' = hcTransferType
BY DEF driver, work, mode, Untouched, Parts, EngineOK, EnvType, SetUpOK, HostKept

(* The lines after a fault are idle or stuck.                              *)
LEMMA BrokenType ==
  \A h \in Broken : h \in Operation /\ h.phase \in {"idle", "stuck"}
BY ZeroedType DEF Broken, Idle, Operation

(* Raising status bits adds no transfer complete that is not among them.   *)
LEMMA RaiseType ==
  ASSUME NEW bits, bits \subseteq StatusBit, Raise(bits), EnvType
  PROVE  /\ status' \subseteq StatusBit /\ pendingInt' \in BOOLEAN
         /\ TransferComplete \in status' =>
              TransferComplete \in status \/ TransferComplete \in bits
BY DEF Raise, EnvType

(* The bits of the status register are there and differ.                   *)
LEMMA Bits ==
  /\ CommandComplete \in StatusBit /\ TransferComplete \in StatusBit
  /\ "BufferReady" \in StatusBit /\ "DMAInterrupt" \in StatusBit
  /\ "CardInsertion" \in StatusBit /\ "CardRemoval" \in StatusBit
  /\ CommandComplete # TransferComplete
  /\ TransferComplete \notin {"BufferReady", "DMAInterrupt",
                              "CardInsertion", "CardRemoval"}
BY DEF StatusBit, CardBits, DataBits, CommandComplete, TransferComplete

(* Idle lines carry an operation in phase idle.                            *)
LEMMA IdleFields ==
  Idle \in Operation /\ Idle.phase = "idle"
BY ZeroedType DEF Idle

(* initController and setControllerDMAMode keep every part, also with      *)
(* commands in flight.                                                     *)
LEMMA ResetOK ==
  ASSUME Parts, initController \/ initControllerEnds \/ setControllerDMAMode
  PROVE  Parts' /\ AnswerStep
<1>1. Untouched /\ sending' = sending
  BY DEF initController, initControllerEnds, setControllerDMAMode, work, Untouched,
         Parts, EngineOK
<1>2. /\ hw' \in {Idle, hw} /\ status' \subseteq status
      /\ ran' = ran /\ served' = served
      /\ cardPresent' = cardPresent /\ cardSelected' \in {FALSE, cardSelected}
      /\ cardPrefixed' \in {FALSE, cardPrefixed}
      /\ pendingInt' = pendingInt /\ events' = events
      /\ hcTransferType' = hcTransferType
  BY DEF initController, initControllerEnds, setControllerDMAMode, card
<1>3. OperationOK' /\ hw' \in Operation
  BY <1>2, IdleFields DEF OperationOK, Parts, EnvType
<1>4. HostKept
  <2>1. CASE initController
    <3>1. resets' = resets + 1 /\ resets < MaxResets /\ resets \in 0..MaxResets
      BY <2>1 DEF initController, Parts, EnvType
    <3>2. resets' \in 0..MaxResets /\ resets' # 0
      BY <3>1, Constants
    <3> QED BY <2>1, <3>2 DEF initController, HostKept, SetUpOK
  <2>2. CASE initControllerEnds
    BY <2>2 DEF initControllerEnds, HostKept, SetUpOK, Parts, EnvType
  <2>3. CASE setControllerDMAMode
    BY <2>3 DEF setControllerDMAMode, ModeFor, HostKept, SetUpOK, Parts, EnvType
  <2> QED BY <2>1, <2>2, <2>3
<1> QED BY <1>1, <1>2, <1>3, <1>4, IdleFields, HardwareOK DEF Parts, EnvType

(* The response of a card keeps every part; a transfer complete bit it     *)
(* raises is no data command's.                                            *)
LEMMA RespondOK ==
  ASSUME Parts, Respond
  PROVE  Parts' /\ AnswerStep
<1>1. /\ Untouched /\ sending' = sending /\ HostKept
      /\ hcTransferType' = hcTransferType
  BY DriverUntouched DEF Respond
<1> DEFINE bits == IF CompletesCommand THEN {CommandComplete} ELSE {}
<1>2. /\ hw.phase = "cmd" /\ hw.req \in Request /\ Raise(bits)
      /\ cardSelected' \in BOOLEAN /\ cardPrefixed' \in BOOLEAN
      /\ ran \subseteq ran' /\ ran' \subseteq Request
      /\ served \subseteq served' /\ served' \subseteq ran'
      /\ UNCHANGED <<cardPresent, events, resets>>
  BY DEF Respond, Parts, EnvType, OperationOK
<1>3. bits \subseteq StatusBit /\ TransferComplete \notin bits
  BY Bits
<1> HIDE DEF bits
<1>4. /\ status' \subseteq StatusBit /\ pendingInt' \in BOOLEAN
      /\ TransferComplete \in status' => TransferComplete \in status
  BY <1>2, <1>3, RaiseType DEF Parts
<1>5. hw' \in Operation /\ OperationOK'
      /\ \/ hw'.phase = "idle"
         \/ hw.left > 0 /\ hw' = [hw EXCEPT !.phase = "data"]
         \/ ~(hw.left > 0)
  <2>1. hw \in Operation
    BY DEF Parts, EnvType
  <2>2. CASE hw.left > 0
    <3>1. hw' = [hw EXCEPT !.phase = "data"]
      BY <2>2 DEF Respond
    <3> QED BY <1>2, <2>1, <2>2, <3>1 DEF Operation, OperationOK
  <2>3. CASE ~(hw.left > 0)
    <3>1. hw' = [hw EXCEPT !.phase = "busy"] \/ hw' = Idle
      BY <2>3 DEF Respond
    <3> QED BY <2>1, <2>3, <3>1, IdleFields DEF Operation, OperationOK
  <2> QED BY <2>2, <2>3
<1> QED BY <1>1, <1>2, <1>4, <1>5, HardwareOK DEF Parts, EnvType

(* Data moving between card and host keeps every part; the last chunk      *)
(* serves the request it belongs to.                                       *)
LEMMA MoveDataOK ==
  ASSUME Parts, MoveData
  PROVE  Parts' /\ AnswerStep
<1>1. /\ Untouched /\ sending' = sending /\ HostKept
      /\ hcTransferType' = hcTransferType
  BY DriverUntouched DEF MoveData
<1>2. /\ hw.phase = "data" /\ hw.req \in Request /\ hw \in Operation
      /\ hcTransferType = "SDMA" => hw.left > 0
      /\ hcTransferType \in {"PIO", "SDMA", "ADMA2"}
      /\ UNCHANGED <<cardPresent, cardSelected, cardPrefixed, events, resets>>
  BY EntriesAssumption DEF MoveData, Parts, EnvType, OperationOK
<1>3. ASSUME NEW bits, bits \subseteq StatusBit, hw' = Idle, Raise(bits),
             ran' = ran \cup {hw.req},
             served' = IF hw.own THEN served \cup {hw.req} ELSE served
      PROVE  Parts' /\ AnswerStep
  <2>1. status' \subseteq StatusBit /\ pendingInt' \in BOOLEAN
    BY <1>3, RaiseType DEF Parts
  <2>2. /\ ran \subseteq ran' /\ ran' \subseteq Request /\ hw.req \in ran'
        /\ served \subseteq served' /\ served' \subseteq ran'
        /\ hw.own => hw.req \in served'
    BY <1>2, <1>3 DEF Parts, EnvType
  <2>3. OperationOK'
    BY <1>3, IdleFields DEF OperationOK
  <2> QED BY <1>1, <1>2, <1>3, <2>1, <2>2, <2>3, IdleFields, HardwareOK
          DEF Parts, EnvType
<1>4. ASSUME NEW n, n = IF hw.own THEN hw.left - 1 ELSE hw.left, hw.own => ~LastChunk,
             hw' = [hw EXCEPT !.left = n, !.fed = FALSE],
             NEW b \in {"BufferReady", "DMAInterrupt"}, Raise({b}),
             ran' = ran, served' = served
      PROVE  Parts' /\ AnswerStep
  <2>1. /\ status' \subseteq StatusBit /\ pendingInt' \in BOOLEAN
        /\ TransferComplete \in status' => TransferComplete \in status
    BY <1>4, RaiseType, Bits DEF Parts
  <2>2. hw.left \in 0..Chunks /\ hw.own \in BOOLEAN
    BY <1>2 DEF Operation
  <2>3. hw.own => \/ hcTransferType = "PIO" /\ hw.left # 0
                  \/ hcTransferType = "SDMA" /\ hw.left # 1 /\ hw.left > 0
    BY <1>2, <1>4 DEF LastChunk
  <2>4. n \in 0..Chunks /\ (hcTransferType = "SDMA" => n > 0)
    BY <1>2, <1>4, <2>2, <2>3, Constants
  <2>5. hw' \in Operation /\ OperationOK'
    BY <1>1, <1>2, <1>4, <2>4 DEF Operation, OperationOK
  <2> QED BY <1>1, <1>2, <1>4, <2>1, <2>4, <2>5, HardwareOK DEF Parts, EnvType
<1>5. CASE /\ hw' = Idle
           /\ ran' = ran \cup {hw.req}
           /\ served' = IF hw.own THEN served \cup {hw.req} ELSE served
           /\ Raise(IF CompletesCommand THEN {TransferComplete} ELSE {"BufferReady"})
  <2> DEFINE bits == IF CompletesCommand THEN {TransferComplete} ELSE {"BufferReady"}
  <2>1. bits \subseteq StatusBit
    BY Bits
  <2>2. Raise(bits)
    BY <1>5
  <2> HIDE DEF bits
  <2> QED BY <1>3, <1>5, <2>1, <2>2
<1>6. CASE /\ hw.own => ~LastChunk
           /\ hw' = [hw EXCEPT !.left = IF hw.own THEN @ - 1 ELSE @, !.fed = FALSE]
           /\ UNCHANGED <<ran, served>>
           /\ \E b \in {"BufferReady", "DMAInterrupt"} : Raise({b})
  BY <1>4, <1>6
<1> QED BY <1>5, <1>6 DEF MoveData

(* The end of the busy signal keeps every part.                            *)
LEMMA EndBusyOK ==
  ASSUME Parts, EndBusy
  PROVE  Parts' /\ AnswerStep
<1>1. /\ Untouched /\ sending' = sending /\ HostKept
      /\ hcTransferType' = hcTransferType
  BY DriverUntouched DEF EndBusy
<1>2. /\ hw.phase = "busy" /\ hw' = Idle /\ Raise({TransferComplete})
      /\ UNCHANGED <<cardPresent, cardSelected, cardPrefixed, ran, served, events,
                     resets>>
  BY DEF EndBusy, card
<1>3. status' \subseteq StatusBit /\ pendingInt' \in BOOLEAN
  BY <1>2, RaiseType, Bits DEF Parts
<1>4. OperationOK'
  BY <1>2, IdleFields DEF OperationOK
<1> QED BY <1>1, <1>2, <1>3, <1>4, IdleFields, HardwareOK DEF Parts, EnvType

(* A card that does not answer, or fails in the middle, keeps every part.  *)
LEMMA BreakOK ==
  ASSUME Parts, NoAnswer \/ Fault
  PROVE  Parts' /\ AnswerStep
<1>1. /\ Untouched /\ sending' = sending /\ HostKept
      /\ hcTransferType' = hcTransferType
  BY DriverUntouched DEF NoAnswer, Fault
<1>2. /\ hw' \in Broken /\ cardSelected' \in BOOLEAN
      /\ UNCHANGED <<status, pendingInt, cardPresent, cardPrefixed, ran, served,
                     events, resets>>
  BY DEF NoAnswer, Fault, card, Parts, EnvType
<1>3. hw' \in Operation /\ hw'.phase \in {"idle", "stuck"} /\ OperationOK'
  BY <1>2, BrokenType DEF OperationOK
<1> QED BY <1>1, <1>2, <1>3, HardwareOK DEF Parts, EnvType

(* A card that comes or goes keeps every part.                             *)
LEMMA CardChangeOK ==
  ASSUME Parts, Remove \/ Insert
  PROVE  Parts' /\ AnswerStep
<1>1. /\ Untouched /\ sending' = sending /\ HostKept
      /\ hcTransferType' = hcTransferType
  BY DriverUntouched DEF Remove, Insert
<1>2. PICK b \in {"CardRemoval", "CardInsertion"} : Raise({b})
  BY DEF Remove, Insert
<1>3. /\ status' \subseteq StatusBit /\ pendingInt' \in BOOLEAN
      /\ TransferComplete \in status' => TransferComplete \in status
  BY <1>2, RaiseType, Bits DEF Parts
<1>4. events' \in 0..MaxEvents
  BY Constants DEF Remove, Insert, Parts, EnvType
<1>5. /\ cardPresent' \in BOOLEAN /\ cardSelected' \in BOOLEAN
      /\ cardPrefixed' \in BOOLEAN /\ ran' = ran /\ served' = served
  BY DEF Remove, Insert, Parts, EnvType
<1>6. CASE hw' = hw
  <2>1. hw' \in Operation /\ OperationOK'
    BY <1>1, <1>6 DEF Parts, EnvType, OperationOK, Untouched
  <2> QED BY <1>1, <1>3, <1>4, <1>5, <1>6, <2>1, HardwareOK DEF Parts, EnvType
<1>7. CASE hw' \in Broken
  <2>1. hw' \in Operation /\ hw'.phase \in {"idle", "stuck"} /\ OperationOK'
    BY <1>7, BrokenType DEF OperationOK
  <2> QED BY <1>1, <1>3, <1>4, <1>5, <2>1, HardwareOK DEF Parts, EnvType
<1> QED BY <1>6, <1>7 DEF Remove, Insert

------------------------------------------------------------------------------
(* The theorems.                                                           *)

(* Every part holds initially.                                             *)
LEMMA InitParts == Init => Parts
<1> SUFFICES ASSUME Init PROVE Parts
  OBVIOUS
<1>1. /\ Work = [pool |-> Cmd, queue |-> <<>>, cmd |-> [c \in Cmd |-> Zeroed],
                 answer |-> [r \in Request |-> "none"]]
      /\ current = None
  BY DEF Init, Work
<1>2. Work \in WorkType
  BY <1>1, ZeroedType, EmptySeq DEF WorkType, Answer, Unanswered
<1>3. InOrder(Work, current)
  BY <1>1, <1>2, EmptyQueue, Constants DEF InOrder, QueuedOK
<1>4. EngineOK
  BY <1>1, <1>3 DEF EngineOK, Init, Send
<1>5. EnvType /\ OperationOK /\ SetUpOK
  <2>1. 0 \in 0..MaxEvents /\ 0 \in 0..MaxResets
    BY Constants
  <2>2. OperationOK
    BY IdleFields DEF OperationOK, Init
  <2>3. EnvType
    BY <2>1, IdleFields DEF EnvType, Init, ModeFor
  <2>4. SetUpOK
    BY DEF SetUpOK, Init
  <2> QED BY <2>2, <2>3, <2>4
<1>6. ~Transferring
  BY <1>1 DEF Transferring
<1> QED BY <1>4, <1>5, <1>6 DEF Parts

(* Every step keeps every part, and changes answers only as AnswerStep     *)
(* allows.                                                                 *)
LEMMA StepParts == Parts /\ [Next]_vars => Parts' /\ AnswerStep
<1> SUFFICES ASSUME Parts, [Next]_vars PROVE Parts' /\ AnswerStep
  OBVIOUS
<1>1. CASE \E r \in Request, e \in Entries :
             doAsyncCommandGated(r, e) \/ getCommandWakes(r, e)
  <2>1. PICK r \in Request, e \in Entries :
             doAsyncCommandGated(r, e) \/ getCommandWakes(r, e)
    BY <1>1
  <2>2. /\ EngineStep /\ AnswerStep
        /\ \/ Launched'
           \/ /\ sending' = sending /\ current' = current
              /\ current # None => cmd'[current] = cmd[current]
    <3>1. CASE doAsyncCommandGated(r, e)
      BY <3>1, SubmitOK DEF Parts
    <3>2. CASE getCommandWakes(r, e)
      BY <3>2, AcceptOK DEF Parts, getCommandWakes, GateFree
    <3> QED BY <2>1, <3>1, <3>2
  <2>3. UNCHANGED <<hcTransferType, dmaMode, initStep, cardChange, hw, status,
                    pendingInt, cardPresent, cardSelected, cardPrefixed, ran, served,
                    events, resets>>
    BY <2>1 DEF doAsyncCommandGated, getCommandWakes, card, mode
  <2>4. EnvType' /\ OperationOK' /\ SetUpOK'
    BY <2>2, <2>3 DEF Parts, EnvType, OperationOK, SetUpOK, EngineStep
  <2>5. Transferring' => OwnOperation(cmd[current])'
    <3>1. CASE Launched'
      BY <3>1 DEF Launched, Transferring, Send
    <3>2. CASE /\ sending' = sending /\ current' = current
               /\ current # None => cmd'[current] = cmd[current]
      BY <2>3, <3>2 DEF Parts, Transferring, OwnOperation, AllMoved, Real
    <3> QED BY <2>2, <3>1, <3>2
  <2> QED BY <2>2, <2>4, <2>5 DEF Parts, EngineStep
<1>2. CASE handleInterrupt
  BY <1>2, InterruptOK
<1>3. CASE handleIOTimeout
  BY <1>3, TimeoutOK
<1>4. CASE sendAsyncCommand
  BY <1>4, SendOK
<1>5. CASE sendAsyncCommandHangs
  BY <1>5, HangOK
<1>6. CASE initController \/ initControllerEnds \/ setControllerDMAMode
  BY <1>6, ResetOK
<1>7. CASE Respond
  BY <1>7, RespondOK
<1>8. CASE MoveData
  BY <1>8, MoveDataOK
<1>9. CASE EndBusy
  BY <1>9, EndBusyOK
<1>10. CASE NoAnswer \/ Fault
  BY <1>10, BreakOK
<1>11. CASE Remove \/ Insert
  BY <1>11, CardChangeOK
<1>12. CASE UNCHANGED vars
  <2>1. /\ Untouched /\ sending' = sending /\ HostKept /\ hw' = hw
        /\ status' = status /\ ran' = ran /\ served' = served
        /\ UNCHANGED <<pendingInt, cardPresent, cardSelected, cardPrefixed,
                       events, resets>>
    BY <1>12, DriverUntouched DEF vars, card
  <2>2. OperationOK'
    BY <2>1 DEF Parts, OperationOK, Untouched
  <2> QED BY <2>1, <2>2, HardwareOK DEF Parts, EnvType
<1> QED BY <1>1, <1>2, <1>3, <1>4, <1>5, <1>6, <1>7, <1>8, <1>9, <1>10, <1>11, <1>12
        DEF Next

(* The inductive invariant holds in every reachable state, whatever the    *)
(* hardware does and in whatever order the handlers run.                   *)
THEOREM Invariant == Spec => []IInv
<1>1. Init => Parts
  BY InitParts
<1>2. Parts /\ [Next]_vars => Parts'
  BY StepParts
<1>3. Parts <=> IInv
  BY PartsOfIInv
<1> QED BY <1>1, <1>2, <1>3, PTL DEF Spec

(* Every variable keeps its type.                                          *)
THEOREM TypeCorrect == Spec => []TypeOK
<1>1. IInv => TypeOK
  BY DEF IInv
<1> QED BY <1>1, Invariant, PTL

(* No command object is ever lost, or in two places at once.               *)
THEOREM CommandsAccountedFor == Spec => []EveryCommandAccountedFor
<1>1. IInv => EveryCommandAccountedFor
  BY DEF IInv
<1> QED BY <1>1, Invariant, PTL

(* The commands in use hold different requests, all of them unanswered.    *)
THEOREM CommandsHoldTheirRequests == Spec => []CommandsHoldPendingRequests
<1>1. IInv => CommandsHoldPendingRequests
  BY DEF IInv
<1> QED BY <1>1, Invariant, PTL

(* handleIOTimeout always finds a current command, and so does queued work.*)
THEOREM WorkIsNotStranded == Spec => []NoStrandedWork
<1>1. IInv => NoStrandedWork
  BY DEF IInv
<1> QED BY <1>1, Invariant, PTL

(* doAsyncIO only meets command states it knows.                           *)
THEOREM StatesAreKnown == Spec => []CommandStatesKnown
<1>1. IInv => CommandStatesKnown
  BY DEF IInv
<1> QED BY <1>1, Invariant, PTL

(* A data command that waits finds its own operation on the lines or none. *)
THEOREM TransfersStayOwn == Spec => []TransfersAreOwn
<1>1. IInv => TransfersAreOwn
  BY DEF IInv
<1> QED BY <1>1, Invariant, PTL

(* No caller is told twice how its request ended.                          *)
THEOREM AnswersAreFinal == Spec => AnsweredOnce
<1> DEFINE Final == \A r \in Request :
              answer[r] \notin {"none"} \cup Unanswered => answer'[r] = answer[r]
<1>1. Parts /\ [Next]_vars => [Final]_vars
  BY StepParts DEF AnswerStep, Untold, AnswersCurrent, Unanswered
<1>2. Parts <=> IInv
  BY PartsOfIInv
<1>3. Spec => [][Next]_vars
  BY PTL DEF Spec
<1>4. Spec => [][Final]_vars
  BY <1>1, <1>2, <1>3, Invariant, PTL
<1> QED BY <1>4 DEF AnsweredOnce

(* A data transfer succeeds only once the hardware has come to the end of  *)
(* that very request's operation, set up for its own buffer as long as     *)
(* initController has not run again: no leftover status bit, late          *)
(* interrupt, timeout, reset or card change ever completes one.            *)
THEOREM DataSuccessesAreReal == Spec => DataSuccessIsReal
<1> DEFINE AllReal == \A r \in Request :
              Succeeds(r) /\ MovesData(EntryFor(r)) =>
                r \in ran /\ (resets = 0 => r \in served)
<1>1. Parts /\ [Next]_vars => [AllReal]_vars
  <2> SUFFICES ASSUME Parts, [Next]_vars, NEW r \in Request,
                      Succeeds(r), MovesData(EntryFor(r))
               PROVE  r \in ran /\ (resets = 0 => r \in served)
    OBVIOUS
  <2>1. /\ answer[r] = "pending" /\ answer'[r] = "Success"
        /\ Untold(answer, answer', r) \/ AnswersCurrent(r)
    BY StepParts DEF Succeeds, AnswerStep
  <2>2. AnswersCurrent(r)
    BY <2>1 DEF Untold
  <2>3. current \in InUse /\ cmd[current].req = r
    BY <2>2, WorkFields DEF AnswersCurrent, Parts, EngineOK, InOrder, InUse
  <2>4. \A c \in InUse : cmd[c].req = r => c = current
    BY <2>2, <2>3, PartsOfIInv
    DEF IInv, CommandsHoldPendingRequests, Held, AnswersCurrent
  <2>5. (CHOOSE c \in InUse : cmd[c].req = r) = current
    BY <2>3, <2>4
  <2>6. MovesData(cmd[current].entry)
    BY <2>5 DEF EntryFor
  <2> QED BY <2>1, <2>2, <2>6 DEF AnswersCurrent, Real
<1>2. Parts <=> IInv
  BY PartsOfIInv
<1>3. Spec => [][Next]_vars
  BY PTL DEF Spec
<1>4. Spec => [][AllReal]_vars
  BY <1>1, <1>2, <1>3, Invariant, PTL
<1> QED BY <1>4 DEF DataSuccessIsReal
=============================================================================
