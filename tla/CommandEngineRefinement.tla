---------------------- MODULE CommandEngineRefinement -----------------------
(***************************************************************************)
(* CommandEngine implements CommandServer, for every pool, every set of    *)
(* requests and every choice of the bounds: its callers cannot tell it from*)
(* a server that answers the requests it holds, the oldest first, that is  *)
(* full when every command is in use, and that a callback which submits a  *)
(* request to the full server puts to sleep.                               *)
(***************************************************************************)
EXTENDS CommandEngineProofs, FiniteSetTheorems

------------------------------------------------------------------------------
(* Sequences.                                                              *)

(* A sequence with one more element in front of it.                        *)
LEMMA Consed ==
  ASSUME NEW S, NEW s \in Seq(S), NEW x \in S
  PROVE  LET k == <<x>> \o s
         IN /\ k \in Seq(S) /\ k # <<>> /\ Len(k) = 1 + Len(s)
            /\ Head(k) = x /\ Tail(k) = s
OBVIOUS

(* It does not matter which end of it grows first.                         *)
LEMMA ConsedAppend ==
  ASSUME NEW S, NEW s \in Seq(S), NEW x \in S, NEW y \in S
  PROVE  <<x>> \o Append(s, y) = Append(<<x>> \o s, y)
OBVIOUS

(* A queue that holds nothing twice has as many elements as its length.    *)
LEMMA QueueCount ==
  ASSUME NEW S, NEW q \in Seq(S), IsInjective(q)
  PROVE  /\ IsFiniteSet(Range(q)) /\ Cardinality(Range(q)) = Len(q)
         /\ Len(q) \in Nat
<1>1. Len(q) \in Nat /\ DOMAIN q = 1..Len(q) /\ q \in [1..Len(q) -> Range(q)]
  BY DEF Range
<1>2. q \in Bijection(1..Len(q), Range(q))
  BY <1>1 DEF Bijection, Injection, Surjection, Range
<1>3. ExistsBijection(1..Len(q), Range(q))
  BY <1>2 DEF ExistsBijection
<1>4. IsFiniteSet(Range(q))
  BY <1>1, <1>3, FS_NatBijection
<1>5. Cardinality(Range(q)) = Len(q)
  BY <1>1, <1>3, FS_CountingElements
<1> QED BY <1>1, <1>4, <1>5

------------------------------------------------------------------------------
(* The requests that the queue holds, in order, and the current one.       *)

ReqsOf(w) == [i \in DOMAIN w.queue |-> w.cmd[w.queue[i]].req]

(* They are requests.                                                      *)
LEMMA ReqsType ==
  ASSUME NEW w, NEW cur, InOrder(w, cur)
  PROVE  /\ ReqsOf(w) \in Seq(Request) /\ Len(ReqsOf(w)) = Len(w.queue)
         /\ Len(w.queue) \in Nat
         /\ w.queue = <<>> <=> ReqsOf(w) = <<>>
<1>1. w.queue \in Seq(Cmd)
  BY DEF InOrder, WorkType
<1>2. DOMAIN w.queue = 1..Len(w.queue) /\ Len(w.queue) \in Nat
      /\ \A i \in DOMAIN w.queue : w.queue[i] \in Range(w.queue)
  BY <1>1 DEF Range
<1>3. \A i \in DOMAIN w.queue : w.cmd[w.queue[i]].req \in Request
  BY <1>2 DEF InOrder, QueuedOK
<1>4. ReqsOf(w) \in [1..Len(w.queue) -> Request]
  BY <1>2, <1>3 DEF ReqsOf
<1>5. ReqsOf(w) \in Seq(Request) /\ Len(ReqsOf(w)) = Len(w.queue)
  BY <1>2, <1>4
<1> QED BY <1>1, <1>2, <1>5

(* They stay while the queue stays and its commands keep their requests.   *)
LEMMA ReqsKept ==
  ASSUME NEW v, NEW w, v.queue = w.queue,
         \A c \in Range(w.queue) : v.cmd[c].req = w.cmd[c].req
  PROVE  ReqsOf(v) = ReqsOf(w)
<1>1. \A i \in DOMAIN w.queue : w.queue[i] \in Range(w.queue)
  BY DEF Range
<1> QED BY <1>1 DEF ReqsOf

(* A command that joins the queue brings its request.                      *)
LEMMA ReqsAppended ==
  ASSUME NEW v, NEW w, NEW cur, InOrder(w, cur), NEW c \in Cmd, NEW r \in Request,
         v.queue = Append(w.queue, c), v.cmd[c].req = r,
         \A d \in Range(w.queue) : v.cmd[d].req = w.cmd[d].req
  PROVE  ReqsOf(v) = Append(ReqsOf(w), r)
<1>1. w.queue \in Seq(Cmd) /\ ReqsOf(w) \in Seq(Request)
      /\ Len(ReqsOf(w)) = Len(w.queue) /\ Len(w.queue) \in Nat
  BY ReqsType DEF InOrder, WorkType
<1>2. PICK q : q = w.queue
  OBVIOUS
<1>3. /\ DOMAIN q = 1..Len(q) /\ DOMAIN Append(q, c) = 1..(Len(q) + 1)
      /\ \A i \in 1..Len(q) : Append(q, c)[i] = q[i] /\ q[i] \in Range(q)
      /\ Append(q, c)[Len(q) + 1] = c
  BY <1>1, <1>2 DEF Range
<1>4. \A i \in 1..Len(q) : v.cmd[Append(q, c)[i]].req = ReqsOf(w)[i]
  BY <1>2, <1>3 DEF ReqsOf
<1>5. PICK p : p = Append(ReqsOf(w), r)
  OBVIOUS
<1>6. /\ DOMAIN p = 1..(Len(q) + 1) /\ p[Len(q) + 1] = r /\ p \in Seq(Request)
      /\ \A i \in 1..Len(q) : p[i] = ReqsOf(w)[i]
  BY <1>1, <1>2, <1>5
<1>7. \A i \in 1..(Len(q) + 1) : i \in 1..Len(q) \/ i = Len(q) + 1
  BY <1>1, <1>2
<1>8. \A i \in 1..(Len(q) + 1) : v.cmd[Append(q, c)[i]].req = p[i]
  BY <1>3, <1>4, <1>6, <1>7
<1>9. ReqsOf(v) = [i \in 1..(Len(q) + 1) |-> p[i]]
  BY <1>2, <1>3, <1>8 DEF ReqsOf
<1>10. p = [i \in 1..(Len(q) + 1) |-> p[i]]
  BY <1>6
<1> QED BY <1>5, <1>9, <1>10

(* The first command of the queue takes its request with it.               *)
LEMMA ReqsRemoved ==
  ASSUME NEW v, NEW w, NEW cur, InOrder(w, cur), w.queue # <<>>,
         v.queue = Tail(w.queue),
         \A d \in Range(w.queue) : v.cmd[d].req = w.cmd[d].req
  PROVE  ReqsOf(w) = <<v.cmd[Head(w.queue)].req>> \o ReqsOf(v)
<1>1. PICK q : q = w.queue
  OBVIOUS
<1>2. PICK s : s = ReqsOf(w)
  OBVIOUS
<1>3. /\ q \in Seq(Cmd) /\ s \in Seq(Request) /\ Len(s) = Len(q) /\ q # <<>>
      /\ s # <<>>
  BY <1>1, <1>2, ReqsType DEF InOrder, WorkType
<1>4. /\ Len(q) \in Nat \ {0} /\ DOMAIN q = 1..Len(q) /\ DOMAIN Tail(q) = 1..(Len(q) - 1)
      /\ Head(q) = q[1] /\ \A i \in 1..(Len(q) - 1) : Tail(q)[i] = q[i + 1]
      /\ \A i \in 1..Len(q) : q[i] \in Range(q)
      /\ 1 \in 1..Len(q) /\ \A i \in 1..(Len(q) - 1) : i + 1 \in 1..Len(q)
  BY <1>3 DEF Range
<1>5. \A i \in 1..Len(q) : s[i] = v.cmd[q[i]].req
  BY <1>1, <1>2, <1>4 DEF ReqsOf
<1>6. Head(s) = v.cmd[Head(q)].req /\ Head(s) \in Request
  BY <1>3, <1>4, <1>5
<1>7. Tail(s) = ReqsOf(v)
  <2>0. PICK t : t = Tail(s)
    OBVIOUS
  <2>1. /\ t \in Seq(Request) /\ Len(t) = Len(q) - 1
        /\ \A i \in 1..(Len(q) - 1) : t[i] = s[i + 1]
    BY <1>3, <2>0
  <2>2. t \in [1..(Len(q) - 1) -> Request]
    BY <2>1, LenProperties
  <2>3. \A i \in 1..(Len(q) - 1) : t[i] = v.cmd[Tail(q)[i]].req
    BY <1>4, <1>5, <2>1
  <2>4. ReqsOf(v) = [i \in 1..(Len(q) - 1) |-> t[i]]
    BY <1>1, <1>4, <2>3 DEF ReqsOf
  <2> QED BY <2>0, <2>2, <2>4
<1>8. s = <<Head(s)>> \o Tail(s)
  BY <1>3
<1> QED BY <1>1, <1>2, <1>6, <1>7, <1>8

(* What the refinement mapping says the server holds.                      *)
LEMMA HeldIs ==
  /\ current = None \/ asleep => held = ReqsOf(Work)
  /\ current # None /\ ~asleep => held = <<cmd[current].req>> \o ReqsOf(Work)
  /\ current' = None \/ asleep' => held' = ReqsOf(Work')
  /\ current' # None /\ ~asleep' => held' = <<cmd'[current'].req>> \o ReqsOf(Work')
BY DEF held, ReqsOf, Work

(* Every command is in use exactly when the server is full.                *)
LEMMA FullWhenPoolEmpty ==
  ASSUME NEW w, NEW cur \in Cmd \cup {None}, InOrder(w, cur)
  PROVE  LET n == (IF cur = None THEN 0 ELSE 1) + Len(ReqsOf(w))
         IN /\ w.pool = {} => n = Cardinality(Cmd)
            /\ w.pool # {} => n < Cardinality(Cmd)
<1>1. PICK used : used = Range(w.queue) \cup ({cur} \ {None})
  OBVIOUS
<1>2. PICK n : n = (IF cur = None THEN 0 ELSE 1) + Len(ReqsOf(w))
  OBVIOUS
<1>3. /\ IsFiniteSet(Range(w.queue)) /\ Cardinality(Range(w.queue)) = Len(w.queue)
      /\ Len(w.queue) \in Nat /\ Len(ReqsOf(w)) = Len(w.queue)
  BY QueueCount, ReqsType DEF InOrder, WorkType
<1>4. cur \notin Range(w.queue) /\ cur \notin w.pool
  BY DEF InOrder
<1>5. Cardinality(used) = n
  <2>1. CASE cur = None
    <3>1. used = Range(w.queue)
      BY <1>1, <2>1
    <3> QED BY <1>2, <1>3, <2>1, <3>1
  <2>2. CASE cur # None
    <3>1. used = Range(w.queue) \cup {cur}
      BY <1>1, <2>2
    <3>2. Cardinality(Range(w.queue) \cup {cur}) = Len(w.queue) + 1
      BY <1>3, <1>4, FS_AddElement
    <3> QED BY <1>2, <1>3, <2>2, <3>1, <3>2
  <2> QED BY <2>1, <2>2
<1>6. /\ used \in SUBSET Cmd /\ w.pool \cup used = Cmd /\ w.pool \cap used = {}
  BY <1>1, <1>4 DEF InOrder
<1>7. IsFiniteSet(Cmd) /\ Cardinality(Cmd) \in Nat
  BY CmdAssumption, FS_CardinalityType
<1>8. /\ Cardinality(used) <= Cardinality(Cmd)
      /\ Cardinality(Cmd) = Cardinality(used) => Cmd = used
  BY <1>6, <1>7, FS_Subset
<1>9. n \in Nat
  <2>1. n = 0 + Len(w.queue) \/ n = 1 + Len(w.queue)
    BY <1>2, <1>3
  <2> QED BY <1>3, <2>1
<1>10. CASE w.pool = {}
  BY <1>2, <1>5, <1>6, <1>10
<1>11. CASE w.pool # {}
  BY <1>2, <1>5, <1>6, <1>7, <1>8, <1>9, <1>11
<1> QED BY <1>10, <1>11

------------------------------------------------------------------------------
(* What the handlers pass along, as the server sees it.                    *)

(* Launching a command answers nobody and puts its request first.          *)
LEMMA LaunchHeld ==
  ASSUME NEW w, NEW c \in Cmd, InOrder(w, c), NEW sel \in BOOLEAN, Launch(w, c, sel),
         hcTransferType \in TransferTypes
  PROVE  held' = <<w.cmd[c].req>> \o ReqsOf(w) /\ answer' = w.answer /\ ~asleep'
<1>1. PICK ok \in PrepareOutcomes :
        /\ current' = c /\ sending' = NextSend(w.cmd[c], sel)
        /\ Leave([w EXCEPT !.cmd = [@ EXCEPT ![c] = Sent(w.cmd[c], sel, ok)]])
  BY DEF Launch
<1>2. PICK s : s = Sent(w.cmd[c], sel, ok)
  OBVIOUS
<1>3. w.cmd[c] \in Command /\ ok \in BOOLEAN /\ w \in WorkType
  BY Constants DEF InOrder, WorkType
<1>4. s.req = w.cmd[c].req
  BY <1>2, <1>3, SentType
<1>5. queue' = w.queue /\ answer' = w.answer /\ cmd' = [w.cmd EXCEPT ![c] = s]
  BY <1>1, <1>2, <1>3 DEF Leave, WorkType
<1>6. cmd'[c].req = w.cmd[c].req /\ \A d \in Cmd \ {c} : cmd'[d] = w.cmd[d]
  BY <1>3, <1>4, <1>5 DEF WorkType
<1>7. Range(w.queue) \subseteq Cmd \ {c}
  BY DEF InOrder
<1>8. Work'.queue = w.queue /\ Work'.cmd = cmd'
  BY <1>5 DEF Work
<1>9. ReqsOf(Work') = ReqsOf(w)
  BY <1>6, <1>7, <1>8, ReqsKept
<1>10. ~asleep'
  BY <1>1, NextSendType DEF asleep, Send
<1> QED BY <1>1, <1>5, <1>6, <1>9, <1>10, HeldIs, Constants

(* Once the next command of the queue is current, or none is left, the     *)
(* server holds what the queue held.                                       *)
LEMMA StartNextHeld ==
  ASSUME NEW w, InOrder(w, None), NEW sel \in BOOLEAN, StartNext(w, sel),
         hcTransferType \in TransferTypes
  PROVE  held' = ReqsOf(w) /\ answer' = w.answer /\ ~asleep'
<1>1. CASE w.queue = <<>>
  <2>1. /\ current' = None /\ answer' = w.answer /\ ~asleep'
        /\ queue' = w.queue /\ cmd' = w.cmd
    BY <1>1 DEF StartNext, Leave, asleep
  <2>2. ReqsOf(Work') = ReqsOf(w)
    BY <2>1 DEF ReqsOf, Work
  <2> QED BY <2>1, <2>2, HeldIs
<1>2. CASE w.queue # <<>>
  <2>1. PICK v : v = [w EXCEPT !.queue = Tail(@)]
    OBVIOUS
  <2>2. PICK c : c = Head(w.queue)
    OBVIOUS
  <2>3. /\ c \in Cmd /\ c \in Range(w.queue) /\ Tail(w.queue) \in Seq(Cmd)
        /\ Range(Tail(w.queue)) = Range(w.queue) \ {c}
        /\ IsInjective(Tail(w.queue))
    BY <1>2, <2>2, RemoveFirst DEF InOrder, WorkType
  <2>4. Launch(v, c, sel)
    BY <1>2, <2>1, <2>2 DEF StartNext
  <2>5. /\ v.pool = w.pool /\ v.queue = Tail(w.queue) /\ v.cmd = w.cmd
        /\ v.answer = w.answer /\ v \in WorkType
    BY <2>1, <2>3 DEF InOrder, WorkType
  <2>6. QueuedOK(v)
    BY <2>3, <2>5 DEF InOrder, QueuedOK
  <2>7. InOrder(v, c)
    BY <2>3, <2>5, <2>6, Constants DEF InOrder
  <2>8. held' = <<v.cmd[c].req>> \o ReqsOf(v) /\ answer' = v.answer /\ ~asleep'
    BY <2>3, <2>4, <2>7, LaunchHeld
  <2>9. ReqsOf(w) = <<v.cmd[c].req>> \o ReqsOf(v)
    BY <1>2, <2>2, <2>5, ReqsRemoved
  <2> QED BY <2>5, <2>8, <2>9
<1> QED BY <1>1, <1>2

(* The same when a completed command goes back to the pool first.          *)
LEMMA FreedHeld ==
  ASSUME current \in Cmd, NEW w, InOrder(w, current),
         StartNext(Freed(w, current), isCardSelected),
         isCardSelected \in BOOLEAN, hcTransferType \in TransferTypes
  PROVE  held' = ReqsOf(w) /\ answer' = w.answer /\ ~asleep'
<1>1. PICK v : v = Freed(w, current)
  OBVIOUS
<1>2. InOrder(v, None) /\ StartNext(v, isCardSelected)
  BY <1>1, FreedInOrder
<1>3. v.queue = w.queue /\ v.answer = w.answer /\ v.cmd = [w.cmd EXCEPT ![current] = Zeroed]
  BY <1>1 DEF Freed, InOrder, WorkType
<1>4. \A d \in Range(w.queue) : v.cmd[d].req = w.cmd[d].req
  BY <1>3 DEF InOrder, WorkType
<1>5. ReqsOf(v) = ReqsOf(w)
  BY <1>3, <1>4, ReqsKept
<1> QED BY <1>2, <1>3, <1>5, StartNextHeld

(* A command filled in for a request joins the tail.                       *)
LEMMA QueuedReqs ==
  ASSUME NEW w, NEW cur, InOrder(w, cur), NEW r \in Request, NEW e \in Entries,
         NEW c \in w.pool
  PROVE  /\ ReqsOf(Queued(w, r, e, c)) = Append(ReqsOf(w), r)
         /\ Queued(w, r, e, c).answer = [w.answer EXCEPT ![r] = "pending"]
         /\ \A d \in Cmd \ {c} : Queued(w, r, e, c).cmd[d] = w.cmd[d]
<1>1. PICK v : v = Queued(w, r, e, c)
  OBVIOUS
<1>2. c \in Cmd /\ c \notin Range(w.queue) /\ w \in WorkType /\ Range(w.queue) \subseteq Cmd
  BY DEF InOrder, WorkType
<1>3. /\ v.queue = Append(w.queue, c) /\ v.answer = [w.answer EXCEPT ![r] = "pending"]
      /\ v.cmd = [w.cmd EXCEPT ![c] = Filled(r, e)]
  BY <1>1, <1>2 DEF Queued, addCommandToQueue, WorkType
<1>4. v.cmd[c].req = r /\ \A d \in Cmd \ {c} : v.cmd[d] = w.cmd[d]
  BY <1>2, <1>3, FilledType DEF WorkType
<1>5. \A d \in Range(w.queue) : v.cmd[d].req = w.cmd[d].req
  BY <1>2, <1>4
<1>6. v.queue = Append(w.queue, c) /\ v.cmd[c].req = r
  BY <1>3, <1>4
<1>7. ReqsOf(v) = Append(ReqsOf(w), r)
  BY <1>2, <1>5, <1>6, ReqsAppended
<1> QED BY <1>1, <1>3, <1>4, <1>7

(* A refusal, or a wait, leaves the queue alone.                           *)
LEMMA NotQueuedReqs ==
  ASSUME NEW w, NEW cur, InOrder(w, cur), NEW r \in Request
  PROVE  /\ ReqsOf(NotQueued(w, r)) = ReqsOf(w)
         /\ NotQueued(w, r).cmd = w.cmd
         /\ NotQueued(w, r).answer =
              [w.answer EXCEPT ![r] = IF cardPresent THEN "waiting" ELSE "NoMedia"]
<1>1. PICK v : v = NotQueued(w, r)
  OBVIOUS
<1>2. /\ v.queue = w.queue /\ v.cmd = w.cmd
      /\ v.answer = [w.answer EXCEPT ![r] = IF cardPresent THEN "waiting" ELSE "NoMedia"]
  BY <1>1 DEF NotQueued, InOrder, WorkType
<1> QED BY <1>1, <1>2, ReqsKept

(* A flush leaves nothing in the queue, tells nobody and spares the current*)
(* command.                                                                *)
LEMMA FlushedReqs ==
  ASSUME NEW w, NEW cur, InOrder(w, cur)
  PROVE  /\ ReqsOf(Flushed(w)) = <<>> /\ Flushed(w).queue = <<>>
         /\ Flushed(w).answer = w.answer
         /\ cur \in Cmd => Flushed(w).cmd[cur] = w.cmd[cur]
<1>1. PICK m : m = [c \in Cmd |-> IF c \in Range(w.queue) THEN Zeroed ELSE w.cmd[c]]
  OBVIOUS
<1>2. PICK v : v = Flushed(w)
  OBVIOUS
<1>3. v.queue = <<>> /\ v.answer = w.answer /\ v.cmd = m
  BY <1>1, <1>2 DEF Flushed, InOrder, WorkType
<1>4. cur \in Cmd => m[cur] = w.cmd[cur]
  BY <1>1 DEF InOrder
<1>5. InOrder(v, cur)
  BY <1>2, FlushedInOrder
<1>6. ReqsOf(v) = <<>>
  BY <1>3, <1>5, ReqsType
<1> QED BY <1>2, <1>3, <1>4, <1>6

------------------------------------------------------------------------------
(* The steps.                                                              *)

(* A completion is a reply, with the request that its callback submits.    *)
LEMMA CompleteReplies ==
  ASSUME current \in Cmd, ~asleep, NEW w, InOrder(w, current), CurrentOK(w, current),
         w.answer = answer, w.cmd[current] = cmd[current], InOrder(Work, current),
         isCardSelected \in BOOLEAN, hcTransferType \in TransferTypes,
         NEW result \in Verdicts, Complete(w, result)
  PROVE  Server!Reply(result, ReqsOf(w))
<1>1. PICK told : told = Told(w, current, result)
  OBVIOUS
<1>2. PICK q : q = cmd[current].req
  OBVIOUS
<1>3. q \in Request /\ current # None /\ result \in Answer
  BY <1>2, Constants DEF CurrentOK, Verdicts, Answer
<1>4. Head(held) = q
  <2>1. ReqsOf(Work) \in Seq(Request)
    BY ReqsType
  <2> QED BY <1>2, <1>3, <2>1, HeldIs, Consed
<1>5. InOrder(told, current)
  BY <1>1, <1>3, ToldInOrder DEF CurrentOK
<1>6. /\ told.answer = [answer EXCEPT ![q] = result] /\ told.queue = w.queue
      /\ told.cmd = w.cmd /\ told.pool = w.pool
  BY <1>1, <1>2 DEF Told, InOrder, WorkType
<1>7. told.answer = Server!Told(result) /\ ReqsOf(told) = ReqsOf(w)
  BY <1>4, <1>6, ReqsKept DEF Server!Told
<1>8. CASE StartNext(Freed(told, current), isCardSelected)
  <2>1. held' = ReqsOf(w) /\ answer' = told.answer /\ ~asleep'
    BY <1>5, <1>7, <1>8, FreedHeld
  <2>2. asleep' = FALSE
    BY <2>1 DEF asleep
  <2> QED BY <1>7, <2>1, <2>2 DEF Server!Reply
<1>9. PICK room : room = (1 + Len(ReqsOf(w)) < Cardinality(Cmd))
  OBVIOUS
<1>10. (told.pool # {}) = room
  <2>1. /\ told.pool = {} => 1 + Len(ReqsOf(w)) = Cardinality(Cmd)
        /\ told.pool # {} => 1 + Len(ReqsOf(w)) < Cardinality(Cmd)
    BY <1>3, <1>5, <1>7, FullWhenPoolEmpty
  <2>2. Cardinality(Cmd) \in Nat
    BY CmdAssumption, FS_CardinalityType
  <2> QED BY <1>9, <2>1, <2>2
<1>11. ASSUME NEW r \in Request, Server!Submit(r, ReqsOf(w), room, told.answer),
              asleep' = (answer'[r] = "waiting")
       PROVE  Server!Reply(result, ReqsOf(w))
  BY <1>7, <1>9, <1>11 DEF Server!Reply
<1>12. ASSUME NEW r \in Request, NEW e \in Entries, MaySubmit(told, r),
              \/ /\ ~cardPresent
                 /\ StartNext(Freed(NotQueued(told, r), current), isCardSelected)
              \/ \E c \in told.pool :
                   StartNext(Freed(Queued(told, r, e, c), current), isCardSelected)
       PROVE  Server!Reply(result, ReqsOf(w))
  <2>1. told.answer[r] = "none" /\ told.answer \in [Request -> Answer]
    BY <1>5, <1>12 DEF MaySubmit, InOrder, WorkType
  <2>2. CASE /\ ~cardPresent
             /\ StartNext(Freed(NotQueued(told, r), current), isCardSelected)
    <3>1. InOrder(NotQueued(told, r), current)
      BY <1>5, <2>1, NotQueuedInOrder
    <3>2. held' = ReqsOf(w) /\ answer' = NotQueued(told, r).answer /\ ~asleep'
      BY <1>5, <1>7, <2>2, <3>1, FreedHeld, NotQueuedReqs
    <3>3. answer' = [told.answer EXCEPT ![r] = "NoMedia"]
      BY <1>5, <2>2, <3>2, NotQueuedReqs
    <3>4. Server!Submit(r, ReqsOf(w), room, told.answer)
      BY <2>1, <3>2, <3>3 DEF Server!Submit
    <3>5. answer'[r] = "NoMedia"
      BY <2>1, <3>3
    <3>6. asleep' = (answer'[r] = "waiting")
      BY <3>2, <3>5 DEF asleep
    <3> QED BY <1>11, <3>4, <3>6
  <2>3. CASE \E c \in told.pool :
               StartNext(Freed(Queued(told, r, e, c), current), isCardSelected)
    <3>1. PICK c \in told.pool :
            StartNext(Freed(Queued(told, r, e, c), current), isCardSelected)
      BY <2>3
    <3>2. InOrder(Queued(told, r, e, c), current)
      BY <1>5, <2>1, QueuedInOrder
    <3>3. /\ held' = ReqsOf(Queued(told, r, e, c))
          /\ answer' = Queued(told, r, e, c).answer /\ ~asleep'
      BY <1>5, <3>1, <3>2, FreedHeld
    <3>4. /\ ReqsOf(Queued(told, r, e, c)) = Append(ReqsOf(told), r)
          /\ Queued(told, r, e, c).answer = [told.answer EXCEPT ![r] = "pending"]
      BY <1>5, <3>1, QueuedReqs
    <3>5. held' = Append(ReqsOf(w), r) /\ answer' = [told.answer EXCEPT ![r] = "pending"]
      BY <1>7, <3>3, <3>4
    <3>6. room
      BY <1>10
    <3>7. Server!Submit(r, ReqsOf(w), room, told.answer)
      BY <2>1, <3>5, <3>6 DEF Server!Submit, Server!Take
    <3>8. answer'[r] = "pending"
      BY <2>1, <3>5
    <3>9. asleep' = (answer'[r] = "waiting")
      BY <3>3, <3>8 DEF asleep
    <3> QED BY <1>11, <3>7, <3>9
  <2> QED BY <1>12, <2>2, <2>3
<1>13. ASSUME NEW r \in Request, MaySubmit(told, r), Leave(NotQueued(told, r)),
              cardPresent, told.pool = {}, sending' = "asleep", current' = current
       PROVE  Server!Reply(result, ReqsOf(w))
  <2>1. told.answer[r] = "none" /\ told.answer \in [Request -> Answer]
    BY <1>5, <1>13 DEF MaySubmit, InOrder, WorkType
  <2>2. /\ ReqsOf(NotQueued(told, r)) = ReqsOf(w)
        /\ NotQueued(told, r).answer = [told.answer EXCEPT ![r] = "waiting"]
    BY <1>5, <1>7, <1>13, NotQueuedReqs
  <2>3. /\ queue' = NotQueued(told, r).queue /\ cmd' = NotQueued(told, r).cmd
        /\ answer' = NotQueued(told, r).answer
    BY <1>13 DEF Leave
  <2>4. ReqsOf(Work') = ReqsOf(w)
    BY <2>2, <2>3 DEF ReqsOf, Work
  <2>5. held' = ReqsOf(w)
    BY <1>13, <2>4, HeldIs DEF asleep
  <2>6. Server!Submit(r, ReqsOf(w), room, told.answer)
    BY <1>10, <1>13, <2>1, <2>2, <2>3, <2>5 DEF Server!Submit
  <2>7. answer'[r] = "waiting"
    BY <2>1, <2>2, <2>3
  <2>8. asleep' = (answer'[r] = "waiting")
    BY <1>13, <2>7 DEF asleep
  <2> QED BY <1>11, <2>6, <2>8
<1> QED BY <1>1, <1>8, <1>12, <1>13, Constants DEF Complete

(* Nothing that the server knows of changes.                               *)
Stutter == held' = held /\ answer' = answer /\ asleep' = asleep

(* The commands in use keep their requests.                                *)
LEMMA HeldStays ==
  ASSUME EngineOK, UNCHANGED <<queue, current, answer>>, asleep' = asleep,
         \A c \in Cmd : cmd'[c].req = cmd[c].req
  PROVE  Stutter
<1>1. Work.queue = queue /\ Work.cmd = cmd /\ Work'.queue = queue /\ Work'.cmd = cmd'
  BY DEF Work
<1>2. Range(queue) \subseteq Cmd
  BY <1>1 DEF EngineOK, InOrder
<1>3. ReqsOf(Work') = ReqsOf(Work)
  BY <1>1, <1>2, ReqsKept
<1>4. current # None => cmd'[current].req = cmd[current].req
  BY DEF EngineOK
<1> QED BY <1>3, <1>4, HeldIs DEF Stutter

(* Success and timeout are answers to the oldest request, after which the  *)
(* others move up.                                                         *)
LEMMA CompletionServes ==
  ASSUME EngineOK, EnvType, current # None, ~asleep, NEW v \in {"Success", "Timeout"},
         Complete(Work, v)
  PROVE  Server!Serve
<1>1. current \in Cmd /\ InOrder(Work, current) /\ CurrentOK(Work, current)
      /\ isCardSelected \in BOOLEAN /\ hcTransferType \in TransferTypes
  BY DEF EngineOK, EnvType, asleep
<1>2. Server!Reply(v, ReqsOf(Work))
  BY <1>1, WorkFields, CompleteReplies DEF Verdicts
<1>3. cmd[current].req \in Request /\ ReqsOf(Work) \in Seq(Request)
  BY <1>1, WorkFields, ReqsType DEF CurrentOK
<1>4. held # <<>> /\ Tail(held) = ReqsOf(Work)
  BY <1>3, HeldIs, Consed
<1> QED BY <1>2, <1>4 DEF Server!Serve

(* A card removal aborts the oldest request and drops the others.          *)
LEMMA RemovalAborts ==
  ASSUME EngineOK, EnvType, ~asleep, cancelForRemoval
  PROVE  Server!Abort \/ Stutter
<1>1. InOrder(Work, current) /\ InOrder(Flushed(Work), current)
  BY FlushedInOrder DEF EngineOK
<1>2. /\ ReqsOf(Flushed(Work)) = <<>> /\ Flushed(Work).queue = <<>>
      /\ Flushed(Work).answer = answer
      /\ current \in Cmd => Flushed(Work).cmd[current] = cmd[current]
  BY <1>1, FlushedReqs, WorkFields
<1>3. CASE current = None
  <2>1. /\ answer' = answer /\ current' = None /\ asleep' = asleep
        /\ queue' = Flushed(Work).queue /\ cmd' = Flushed(Work).cmd
    BY <1>2, <1>3 DEF cancelForRemoval, Leave, asleep
  <2>2. ReqsOf(Work') = <<>>
    BY <1>2, <2>1 DEF ReqsOf, Work
  <2>3. ReqsOf(Work) = <<>>
    BY <1>1, <1>3, ReqsType, WorkFields DEF EngineOK
  <2> QED BY <1>3, <2>1, <2>2, <2>3, HeldIs DEF Stutter
<1>4. CASE current # None
  <2>1. /\ current \in Cmd /\ CurrentOK(Work, current)
        /\ isCardSelected \in BOOLEAN /\ hcTransferType \in TransferTypes
    BY <1>4 DEF EngineOK, EnvType, asleep
  <2>2. Complete(Flushed(Work), "Aborted") /\ "Aborted" \in Verdicts
    BY <1>4 DEF cancelForRemoval, Verdicts
  <2>3. CurrentOK(Flushed(Work), current)
    BY <1>2, <2>1, EmptyQueue, WorkFields DEF CurrentOK
  <2>4. Server!Reply("Aborted", <<>>)
    BY <1>1, <1>2, <2>1, <2>2, <2>3, CompleteReplies
  <2>5. held # <<>>
    <3>1. cmd[current].req \in Request /\ ReqsOf(Work) \in Seq(Request)
      BY <1>1, <2>1, WorkFields, ReqsType DEF CurrentOK
    <3> QED BY <1>4, <3>1, HeldIs, Consed
  <2> QED BY <2>4, <2>5 DEF Server!Abort
<1> QED BY <1>3, <1>4

(* The server has room exactly while a command is free.                    *)
LEMMA RoomWhenFree ==
  ASSUME EngineOK
  PROVE  /\ Server!Room <=> pool # {}
         /\ held \in Seq(Request) /\ answer \in [Request -> Answer]
<1>1. /\ InOrder(Work, current) /\ current \in Cmd \cup {None}
      /\ ReqsOf(Work) \in Seq(Request) /\ Work.pool = pool
      /\ answer \in [Request -> Answer]
      /\ current = None => ~asleep
      /\ Len(ReqsOf(Work)) \in Nat
  BY ReqsType, WorkFields, LenProperties DEF EngineOK, InOrder, WorkType, asleep
<1>2. PICK n : n = (IF current = None THEN 0 ELSE 1) + Len(ReqsOf(Work))
  OBVIOUS
<1>3. held \in Seq(Request) /\ Len(held) + (IF asleep THEN 1 ELSE 0) = n
  <2>1. CASE current = None
    BY <1>1, <1>2, <2>1, HeldIs
  <2>2. CASE current # None /\ asleep
    BY <1>1, <1>2, <2>2, HeldIs
  <2>3. CASE current # None /\ ~asleep
    <3>1. cmd[current].req \in Request
      BY <2>3, WorkFields DEF EngineOK, CurrentOK, asleep
    <3>2. held = <<cmd[current].req>> \o ReqsOf(Work)
      BY <2>3, HeldIs
    <3>3. held \in Seq(Request) /\ Len(held) = 1 + Len(ReqsOf(Work))
      BY <1>1, <3>1, <3>2, Consed
    <3> QED BY <1>1, <1>2, <2>3, <3>3
  <2> QED BY <2>1, <2>2, <2>3
<1>4. /\ pool = {} => n = Cardinality(Cmd)
      /\ pool # {} => n < Cardinality(Cmd)
  BY <1>1, <1>2, FullWhenPoolEmpty
<1>5. Cardinality(Cmd) \in Nat
  BY CmdAssumption, FS_CardinalityType
<1> QED BY <1>1, <1>3, <1>4, <1>5 DEF Server!Room

(* A request that gets a command joins the tail.                           *)
LEMMA AcceptTakes ==
  ASSUME EngineOK, EnvType, NEW r \in Request, NEW e \in Entries,
         answer[r] # "pending", Accept(r, e)
  PROVE  Server!Take(r, held, answer) /\ Server!Room /\ asleep' = asleep
<1>1. PICK c \in pool :
        IF current = None
        THEN timer' = TRUE /\ StartNext(Queued(Work, r, e, c), isCardSelected)
        ELSE /\ Leave(Queued(Work, r, e, c))
             /\ UNCHANGED <<current, sending, timer, isCardSelected, cleared>>
  BY DEF Accept
<1>2. /\ InOrder(Work, current) /\ current \in Cmd \cup {None} /\ ~asleep
      /\ isCardSelected \in BOOLEAN /\ hcTransferType \in TransferTypes
      /\ current = None => queue = <<>>
      /\ ReqsOf(Work) \in Seq(Request)
      /\ current # None => cmd[current].req \in Request
  BY <1>1, ReqsType, WorkFields DEF EngineOK, EnvType, CurrentOK, asleep
<1>3. PICK w : w = Queued(Work, r, e, c)
  OBVIOUS
<1>4. InOrder(w, current)
  BY <1>1, <1>2, <1>3, QueuedInOrder, WorkFields
<1>5. /\ ReqsOf(w) = Append(ReqsOf(Work), r) /\ w.answer = [answer EXCEPT ![r] = "pending"]
      /\ \A d \in Cmd \ {c} : w.cmd[d] = cmd[d]
  BY <1>1, <1>2, <1>3, QueuedReqs, WorkFields
<1>6. held' = Append(held, r) /\ answer' = w.answer /\ ~asleep'
  <2>1. CASE current = None
    <3>1. StartNext(w, isCardSelected) /\ InOrder(w, None)
      BY <1>1, <1>3, <1>4, <2>1
    <3>2. held' = ReqsOf(w) /\ answer' = w.answer /\ ~asleep'
      BY <1>2, <3>1, StartNextHeld
    <3> QED BY <1>5, <2>1, <3>2, HeldIs
  <2>2. CASE current # None
    <3>1. Leave(w) /\ current' = current /\ ~asleep'
      BY <1>1, <1>2, <1>3, <2>2 DEF asleep
    <3>2. queue' = w.queue /\ cmd' = w.cmd /\ answer' = w.answer
      BY <3>1 DEF Leave
    <3>3. ReqsOf(Work') = ReqsOf(w)
      BY <3>2 DEF ReqsOf, Work
    <3>4. current \in Cmd \ {c}
      BY <1>1, <1>2, <2>2, WorkFields DEF InOrder
    <3>5. held' = <<cmd[current].req>> \o Append(ReqsOf(Work), r)
      BY <1>5, <2>2, <3>1, <3>2, <3>3, <3>4, HeldIs
    <3>6. held = <<cmd[current].req>> \o ReqsOf(Work)
      BY <1>2, <2>2, HeldIs
    <3> QED BY <1>2, <2>2, <3>1, <3>2, <3>5, <3>6, ConsedAppend
  <2> QED BY <2>1, <2>2
<1>7. asleep' = asleep
  BY <1>2, <1>6 DEF asleep
<1> QED BY <1>1, <1>5, <1>6, <1>7, RoomWhenFree DEF Server!Take

(* A submission is accepted at the tail, or refused for want of a card, or *)
(* kept waiting only when every command is in use.                         *)
LEMMA SubmissionAccepts ==
  ASSUME EngineOK, EnvType, NEW r \in Request, NEW e \in Entries,
         doAsyncCommandGated(r, e)
  PROVE  Server!Accept
<1>1. InOrder(Work, current) /\ answer[r] = "none"
  BY WorkFields DEF EngineOK, doAsyncCommandGated, MaySubmit
<1>2. CASE Accept(r, e)
  <2>1. Server!Take(r, held, answer) /\ Server!Room /\ asleep' = asleep
    BY <1>1, <1>2, AcceptTakes
  <2>2. Server!Submit(r, held, Server!Room, answer)
    BY <1>1, <2>1 DEF Server!Submit
  <2> QED BY <2>1, <2>2 DEF Server!Accept
<1>3. CASE /\ NoCommandFor(Work) /\ Leave(NotQueued(Work, r))
           /\ UNCHANGED <<current, sending, timer, isCardSelected, cleared>>
  <2>1. /\ ReqsOf(NotQueued(Work, r)) = ReqsOf(Work) /\ NotQueued(Work, r).cmd = cmd
        /\ NotQueued(Work, r).answer =
             [answer EXCEPT ![r] = IF cardPresent THEN "waiting" ELSE "NoMedia"]
    BY <1>1, NotQueuedReqs, WorkFields
  <2>2. /\ queue' = NotQueued(Work, r).queue /\ cmd' = cmd
        /\ answer' = NotQueued(Work, r).answer /\ current' = current
        /\ asleep' = asleep
    BY <1>3, <2>1 DEF Leave, asleep
  <2>3. ReqsOf(Work') = ReqsOf(Work)
    BY <2>1, <2>2 DEF ReqsOf, Work
  <2>4. held' = held
    BY <2>2, <2>3, HeldIs
  <2>5. cardPresent => ~Server!Room
    BY <1>3, WorkFields, RoomWhenFree DEF NoCommandFor
  <2>6. Server!Submit(r, held, Server!Room, answer)
    BY <1>1, <2>1, <2>2, <2>4, <2>5 DEF Server!Submit
  <2> QED BY <2>2, <2>6 DEF Server!Accept
<1> QED BY <1>2, <1>3 DEF doAsyncCommandGated

(* A caller that is woken for a command is one that waited.                *)
LEMMA WakingResumes ==
  ASSUME EngineOK, EnvType, NEW r \in Request, NEW e \in Entries,
         getCommandWakes(r, e)
  PROVE  Server!Resume
<1>1. answer[r] = "waiting" /\ Accept(r, e)
  BY DEF getCommandWakes
<1>2. Server!Take(r, held, answer) /\ Server!Room /\ asleep' = asleep
  BY <1>1, AcceptTakes
<1> QED BY <1>1, <1>2 DEF Server!Resume

(* A data transfer goes on unseen, until its command completes.            *)
LEMMA TransferServes ==
  ASSUME EngineOK, EnvType, current # None, ~asleep, NEW st, NEW h, Transfer(st, h)
  PROVE  Server!Serve \/ Stutter
<1>1. CASE Complete(Work, "Success")
  BY <1>1, CompletionServes
<1>2. CASE /\ cmd' \in {cmd, [cmd EXCEPT ![current].off = @ + 1]}
           /\ UNCHANGED <<queue, current, answer>> /\ sending' = "no"
  <2>1. cmd \in [Cmd -> Command] /\ current \in Cmd
    BY WorkFields DEF EngineOK, InOrder, WorkType
  <2>2. cmd[current] \in Command
    BY <2>1
  <2>3. \A c \in Cmd : cmd'[c].req = cmd[c].req
    BY <1>2, <2>1, <2>2 DEF Command
  <2>4. asleep' = asleep
    BY <1>2 DEF asleep
  <2> QED BY <1>2, <2>3, <2>4, HeldStays
<1> QED BY <1>1, <1>2 DEF Transfer

(* An interrupt takes a step of the server, or none.                       *)
LEMMA InterruptServes ==
  ASSUME Parts, handleInterrupt
  PROVE  \/ "CardRemoval" \in status /\ Server!Abort
         \/ Server!Serve \/ Stutter
<1>1. EngineOK /\ EnvType /\ ~asleep
  BY DEF Parts, handleInterrupt, GateFree, asleep
<1>2. CASE "CardRemoval" \in status /\ cancelForRemoval
  BY <1>1, <1>2, RemovalAborts
<1>3. CASE doAsyncIO(status)
  <2>1. CASE UNCHANGED <<work, isCardSelected, cleared, hw>>
    BY <1>1, <2>1, HeldStays DEF work, asleep
  <2>2. CASE /\ current # None
             /\ Launch(Work, current,
                       IF cmd[current].state = "CardSelectionSent"
                       THEN cmd[current].newSel ELSE isCardSelected)
    <3>1. PICK sel : sel = IF cmd[current].state = "CardSelectionSent"
                           THEN cmd[current].newSel ELSE isCardSelected
      OBVIOUS
    <3>2. /\ current \in Cmd /\ InOrder(Work, current)
          /\ cmd[current] \in Command /\ hcTransferType \in TransferTypes
      BY <1>1, <2>2, WorkFields DEF EngineOK, EnvType, InOrder, WorkType
    <3>3. sel \in BOOLEAN
      BY <1>1, <3>1, <3>2 DEF EngineOK, Command
    <3>4. Launch(Work, current, sel)
      BY <2>2, <3>1
    <3>5. /\ held' = <<cmd[current].req>> \o ReqsOf(Work) /\ answer' = answer
          /\ asleep' = asleep
      BY <1>1, <3>2, <3>3, <3>4, LaunchHeld, WorkFields DEF asleep
    <3> QED BY <1>1, <2>2, <3>5, HeldIs DEF Stutter
  <2>3. CASE current # None /\ Transfer(status, hw)
    BY <1>1, <2>3, TransferServes
  <2> QED BY <1>3, <2>1, <2>2, <2>3 DEF doAsyncIO
<1> QED BY <1>2, <1>3 DEF handleInterrupt

(* So does a command that is written to the host controller.               *)
LEMMA SendServes ==
  ASSUME Parts, sendAsyncCommand
  PROVE  Server!Serve \/ Stutter
<1>1. PICK op : \/ Transfer({}, op)
                \/ UNCHANGED <<pool, queue, cmd, current, answer>> /\ sending' = "no"
  BY DEF sendAsyncCommand
<1>2. EngineOK /\ EnvType /\ current # None /\ ~asleep
  BY DEF sendAsyncCommand, Parts, EngineOK, Send, asleep
<1>3. CASE Transfer({}, op)
  BY <1>2, <1>3, TransferServes
<1>4. CASE UNCHANGED <<pool, queue, cmd, current, answer>> /\ sending' = "no"
  BY <1>2, <1>4, HeldStays DEF asleep
<1> QED BY <1>1, <1>3, <1>4

------------------------------------------------------------------------------
(* The theorems.                                                           *)

(* Every step of the engine is a step of the server, or changes nothing of *)
(* it; only a card removal in the status register makes it an abort.       *)
LEMMA StepServes ==
  ASSUME Parts, [Next]_vars
  PROVE  \/ "CardRemoval" \in status /\ Server!Abort
         \/ Server!Accept \/ Server!Resume \/ Server!Serve \/ Stutter
<1>1. EngineOK /\ EnvType
  BY DEF Parts
<1>2. CASE \E r \in Request, e \in Entries :
             doAsyncCommandGated(r, e) \/ getCommandWakes(r, e)
  BY <1>1, <1>2, SubmissionAccepts, WakingResumes
<1>3. CASE handleInterrupt
  BY <1>3, InterruptServes
<1>4. CASE handleIOTimeout
  <2>1. Complete(Work, "Timeout") /\ timer /\ ~asleep
    BY <1>4 DEF handleIOTimeout, GateFree, asleep
  <2>2. current # None
    BY <1>1, <2>1 DEF EngineOK
  <2> QED BY <1>1, <2>1, <2>2, CompletionServes
<1>5. CASE sendAsyncCommand
  BY <1>5, SendServes
<1>6. CASE UNCHANGED <<queue, cmd, current, answer>> /\ asleep' = asleep
  BY <1>1, <1>6, HeldStays
<1>7. CASE \/ sendAsyncCommandHangs \/ initController \/ initControllerEnds
           \/ setControllerDMAMode
  <2>1. asleep' = asleep
    BY <1>7 DEF sendAsyncCommandHangs, initController, initControllerEnds,
                setControllerDMAMode, work, asleep, Send
  <2> QED BY <1>6, <1>7, <2>1
          DEF sendAsyncCommandHangs, initController, initControllerEnds,
              setControllerDMAMode, work
<1>8. CASE \/ Respond \/ MoveData \/ EndBusy \/ NoAnswer \/ Fault
           \/ Remove \/ Insert \/ UNCHANGED vars
  <2>1. UNCHANGED driver
    BY <1>8 DEF Respond, MoveData, EndBusy, NoAnswer, Fault, Remove, Insert, vars
  <2> QED BY <1>6, <2>1 DEF driver, work, asleep
<1> QED BY <1>2, <1>3, <1>4, <1>5, <1>7, <1>8 DEF Next

(* The engine implements the server: a caller sees its request accepted at *)
(* the tail, refused without a card, kept waiting when every command is in *)
(* use, answered when it is the oldest, or dropped with the card; and one  *)
(* that is submitted by a callback and has to wait ends the service.       *)
THEOREM EngineImplementsServer == Spec => ImplementsServer
<1>1. Init => Server!Init
  <2> SUFFICES ASSUME Init PROVE Server!Init
    OBVIOUS
  <2>1. current = None /\ queue = <<>> /\ sending = "no"
    BY DEF Init
  <2>2. held = <<>>
    BY <2>1 DEF held
  <2> QED BY <2>1, <2>2 DEF Init, Server!Init, asleep
<1>2. Parts /\ [Next]_vars => [Server!Next]_(Server!vars)
  BY StepServes DEF Stutter, Server!vars, Server!Next
<1>3. Parts <=> IInv
  BY PartsOfIInv
<1>4. Spec => Init /\ [][Next]_vars
  BY PTL DEF Spec
<1>5. Spec => Server!Spec
  BY <1>1, <1>2, <1>3, <1>4, Invariant, PTL DEF Server!Spec
<1> QED BY <1>5 DEF ImplementsServer

(* While the card stays, the server holds every request that waits for an  *)
(* answer.                                                                 *)
AllHeld ==
  \A r \in Request : answer[r] = "pending" => \E i \in DOMAIN held : held[i] = r

NoCardEvents == status \cap CardBits = {}

HeldInv == Parts /\ AllHeld /\ NoCardEvents

(* A submission leaves no request pending that is not held.                *)
LEMMA SubmitHolds ==
  ASSUME NEW r \in Request, NEW rest \in Seq(Request), NEW n, NEW told \in [Request -> Answer],
         Server!Submit(r, rest, n, told) \/ Server!Take(r, rest, told),
         \A q \in Request : told[q] = "pending" => \E i \in DOMAIN rest : rest[i] = q
  PROVE  AllHeld'
<1>1. CASE held' = Append(rest, r) /\ answer' = [told EXCEPT ![r] = "pending"]
  <2>1. /\ \A i \in DOMAIN rest : i \in DOMAIN Append(rest, r) /\ Append(rest, r)[i] = rest[i]
        /\ Len(rest) + 1 \in DOMAIN Append(rest, r) /\ Append(rest, r)[Len(rest) + 1] = r
    OBVIOUS
  <2>2. \A q \in Request : q # r => answer'[q] = told[q]
    BY <1>1
  <2> QED BY <1>1, <2>1, <2>2 DEF AllHeld
<1>2. CASE /\ held' = rest
           /\ \/ answer' = [told EXCEPT ![r] = "NoMedia"]
              \/ answer' = [told EXCEPT ![r] = "waiting"]
  <2>1. \A q \in Request : answer'[q] = "pending" => told[q] = "pending"
    BY <1>2
  <2> QED BY <1>2, <2>1 DEF AllHeld
<1> QED BY <1>1, <1>2 DEF Server!Submit, Server!Take

(* Nor does the answer to the oldest.                                      *)
LEMMA ServeHolds ==
  ASSUME EngineOK, AllHeld, Server!Serve
  PROVE  AllHeld'
<1>1. held \in Seq(Request) /\ held # <<>> /\ answer \in [Request -> Answer]
  BY RoomWhenFree DEF Server!Serve
<1>2. PICK v \in {"Success", "Timeout"} : Server!Reply(v, Tail(held))
  BY DEF Server!Serve
<1>3. PICK rest : rest = Tail(held)
  OBVIOUS
<1>4. PICK told : told = Server!Told(v)
  OBVIOUS
<1>5. v \in Answer /\ v # "pending"
  BY DEF Answer
<1>6. /\ rest \in Seq(Request) /\ Head(held) = held[1] /\ Head(held) \in Request
      /\ \A i \in DOMAIN held : i # 1 => i - 1 \in DOMAIN rest /\ rest[i - 1] = held[i]
  BY <1>1, <1>3
<1>7. /\ told \in [Request -> Answer] /\ told[held[1]] # "pending"
      /\ \A q \in Request : q # held[1] => told[q] = answer[q]
  BY <1>1, <1>4, <1>5, <1>6 DEF Server!Told
<1>8. ASSUME NEW q \in Request, told[q] = "pending"
      PROVE  \E i \in DOMAIN rest : rest[i] = q
  <2>1. PICK i \in DOMAIN held : held[i] = q /\ i # 1
    BY <1>7, <1>8 DEF AllHeld
  <2> QED BY <1>6, <2>1
<1>9. CASE held' = rest /\ answer' = told
  BY <1>8, <1>9 DEF AllHeld
<1>10. ASSUME NEW n, NEW r \in Request, Server!Submit(r, rest, n, told)
       PROVE  AllHeld'
  BY <1>6, <1>7, <1>8, <1>10, SubmitHolds
<1> QED BY <1>2, <1>3, <1>4, <1>9, <1>10 DEF Server!Reply

(* Without card events, every step leaves every pending request held.      *)
LEMMA StepHolds ==
  ASSUME MaxEvents = 0, HeldInv, [Next]_vars
  PROVE  HeldInv'
<1>1. Parts' /\ EngineOK /\ events = 0
  BY StepParts DEF HeldInv, Parts, EnvType
<1>2. NoCardEvents'
  <2> DEFINE Kept == status' \subseteq status \cup DataBits \cup {CommandComplete}
  <2>1. \A r \in Request, e \in Entries :
          doAsyncCommandGated(r, e) \/ getCommandWakes(r, e) => Kept
    BY DEF doAsyncCommandGated, getCommandWakes
  <2>2. handleInterrupt \/ sendAsyncCommand \/ initController => Kept
    BY DEF handleInterrupt, sendAsyncCommand, ClearStatus, initController
  <2>3. handleIOTimeout => Kept
    BY DEF handleIOTimeout, ResetLines
  <2>4. (\/ sendAsyncCommandHangs \/ initControllerEnds \/ setControllerDMAMode
         \/ NoAnswer \/ Fault \/ UNCHANGED vars) => Kept
    BY DEF sendAsyncCommandHangs, initControllerEnds, setControllerDMAMode, NoAnswer,
           Fault, vars
  <2>5. Respond \/ MoveData \/ EndBusy => Kept
    BY DEF Respond, MoveData, EndBusy, Raise, DataBits, CommandComplete, TransferComplete
  <2>6. ~Remove /\ ~Insert
    BY <1>1 DEF Remove, Insert
  <2>7. Kept => NoCardEvents'
    BY DEF HeldInv, NoCardEvents, CardBits, DataBits, CommandComplete, TransferComplete
  <2> HIDE DEF Kept
  <2> QED BY <2>1, <2>2, <2>3, <2>4, <2>5, <2>6, <2>7 DEF Next
<1>3. AllHeld'
  <2>1. Server!Accept \/ Server!Resume \/ Server!Serve \/ Stutter
    BY StepServes DEF HeldInv, NoCardEvents, CardBits
  <2>2. CASE Server!Accept \/ Server!Resume
    BY <1>1, <2>2, RoomWhenFree, SubmitHolds
    DEF Server!Accept, Server!Resume, HeldInv, AllHeld
  <2>3. CASE Server!Serve
    BY <1>1, <2>3, ServeHolds DEF HeldInv
  <2>4. CASE Stutter
    BY <2>4 DEF HeldInv, AllHeld, Stutter
  <2> QED BY <2>1, <2>2, <2>3, <2>4
<1> QED BY <1>1, <1>2, <1>3 DEF HeldInv

(* While the card stays, every request that waits for an answer is held by *)
(* a command in use.  A card that goes takes the queued requests with it.  *)
THEOREM PendingRequestsStayHeld ==
  ASSUME MaxEvents = 0
  PROVE  Spec => []PendingRequestsAreHeld
<1>1. Init => HeldInv
  BY InitParts DEF Init, HeldInv, AllHeld, NoCardEvents
<1>2. HeldInv /\ [Next]_vars => HeldInv'
  BY StepHolds
<1>3. ASSUME HeldInv PROVE PendingRequestsAreHeld
  <2>1. ASSUME NEW i \in DOMAIN held PROVE \E c \in InUse : cmd[c].req = held[i]
    <3>1. /\ InOrder(Work, current) /\ queue \in Seq(Cmd) /\ pool \cap Range(queue) = {}
          /\ Range(queue) \subseteq Cmd /\ Len(queue) \in Nat
          /\ ReqsOf(Work) \in Seq(Request) /\ Len(ReqsOf(Work)) = Len(queue)
      BY <1>3, WorkFields, ReqsType DEF HeldInv, Parts, EngineOK, InOrder, WorkType
    <3>2. ASSUME NEW k \in 1..Len(queue)
          PROVE  \E c \in InUse : cmd[c].req = ReqsOf(Work)[k]
      <4>1. queue[k] \in Range(queue) /\ ReqsOf(Work)[k] = cmd[queue[k]].req
        BY <3>1, WorkFields DEF ReqsOf, Range
      <4> QED BY <3>1, <4>1 DEF InUse
    <3>3. CASE held = ReqsOf(Work)
      BY <2>1, <3>1, <3>2, <3>3
    <3>4. CASE held # ReqsOf(Work)
      <4>1. /\ current # None /\ ~asleep
            /\ held = <<cmd[current].req>> \o ReqsOf(Work)
        BY <3>4, HeldIs
      <4>2. current \in InUse /\ cmd[current].req \in Request
        BY <1>3, <4>1, WorkFields
        DEF HeldInv, Parts, EngineOK, InOrder, CurrentOK, InUse, asleep
      <4>3. /\ held[1] = cmd[current].req
            /\ i # 1 => i - 1 \in 1..Len(queue) /\ held[i] = ReqsOf(Work)[i - 1]
        BY <2>1, <3>1, <4>1, <4>2
      <4>4. CASE i = 1
        BY <4>2, <4>3, <4>4
      <4>5. CASE i # 1
        BY <3>2, <4>3, <4>5
      <4> QED BY <4>4, <4>5
    <3> QED BY <3>3, <3>4
  <2> QED BY <1>3, <2>1 DEF HeldInv, AllHeld, PendingRequestsAreHeld
<1> QED BY <1>1, <1>2, <1>3, PTL DEF Spec
=============================================================================
