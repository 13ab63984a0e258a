---------------------------- MODULE CallersProofs ----------------------------
(***************************************************************************)
(* Theorems about Callers, for any transfers, sizes, pool and number of    *)
(* calls, whether or not the threads overlap, with their proofs.           *)
(***************************************************************************)
EXTENDS Callers, SequenceTheorems, TLAPS

------------------------------------------------------------------------------
(* The inductive invariant.                                                *)

(* A call in progress is one of those that a thread may make.              *)
CallsAreCounted ==
  \A t \in Thread :
    /\ Len(returned[t]) <= MaxCalls
    /\ pc[t] # "idle" => Len(returned[t]) < MaxCalls

(* A call whose command the engine has taken.                              *)
Taken == {"look", "asleep", "awake", "lowered"}

(* The requests that each caller has come to.                              *)
Made(t) == Len(returned[t]) + (IF pc[t] \in Taken THEN 1 ELSE 0)

Issued(r) ==
  IF r[1] \in Thread THEN r[2] <= Made(r[1]) ELSE r[2] <= Len(pieces[r[1]])

(* The engine holds requests that were made and not answered, those of a   *)
(* caller in the order it made them.                                       *)
HeldInOrder ==
  /\ \A i \in DOMAIN outstanding :
       answer[outstanding[i]] = "pending" /\ Issued(outstanding[i])
  /\ \A i, k \in DOMAIN outstanding :
       i < k /\ outstanding[i][1] = outstanding[k][1] =>
         outstanding[i][2] < outstanding[k][2]

(* What is left of a transfer f follows its pieces p, all of them as long  *)
(* as may be but the last.                                                 *)
SplitOf(p, f) ==
  /\ f.pc \in {"new", "refused", "asleep", "timedOut"} => p = <<>>
  /\ f.pc \in {"asleep", "splitting", "waiting"} =>
       /\ f.nblks <= MaxTransfer
       /\ p = <<>> => f.blockStart = f.block /\ f.offset = 0
       /\ f.remaining > 0
       /\ f.blockStart + f.remaining = f.block + f.nblks
       /\ Len(p) * MaxBlocks + f.remaining = f.nblks

Splitting == \A x \in Transfer : SplitOf(pieces[x], io[x])

(* PiecesTile, of one transfer.                                            *)
TileOf(p, f) ==
  /\ p # <<>> => p[1].start = f.block /\ p[1].offset = 0
  /\ \A i \in DOMAIN p :
       /\ p[i].count \in 1..MaxBlocks
       /\ i = Len(p) => /\ f.blockStart = p[i].start + p[i].count
                        /\ f.offset = p[i].offset + p[i].count * BlockSize
       /\ i # Len(p) => /\ p[i + 1].start = p[i].start + p[i].count
                        /\ p[i + 1].offset = p[i].offset + p[i].count * BlockSize
       /\ p[i].completion <=> i = Len(p) /\ f.pc = "accepted"
  /\ f.pc = "accepted" => f.blockStart = f.block + f.nblks

Tiled == \A x \in Transfer : TileOf(pieces[x], io[x])

(* The family is told of a transfer once, when no command of it is left.   *)
ToldAtTheEnd ==
  \A x \in Transfer : told[x] # "none" =>
    /\ io[x].pc = "accepted"
    /\ \A i \in DOMAIN outstanding : outstanding[i][1] # x

TransferInv ==
  /\ TypeOK /\ CallsAreCounted /\ HeldInOrder /\ Splitting /\ Tiled
  /\ ToldAtTheEnd

------------------------------------------------------------------------------
(* The engine.                                                             *)

(* Joining the tail of a queue.                                            *)
LEMMA Joined ==
  ASSUME NEW S, NEW q \in Seq(S), NEW r \in S
  PROVE  LET a == Append(q, r)
         IN /\ a \in Seq(S) /\ Len(a) = Len(q) + 1
            /\ DOMAIN a = DOMAIN q \cup {Len(q) + 1} /\ DOMAIN q = 1..Len(q)
            /\ \A i \in DOMAIN q : a[i] = q[i]
            /\ a[Len(q) + 1] = r
OBVIOUS

(* A submission that is taken, and one that is refused or has to wait.     *)
LEMMA SubmitEffect ==
  ASSUME Server!TypeOK, NEW r \in Request,
         Server!Submit(r, outstanding, Server!Room, answer)
  PROVE  /\ Server!TypeOK' /\ answer[r] = "none"
         /\ \A q \in Request : q # r => answer'[q] = answer[q]
         /\ \/ answer'[r] = "pending" /\ outstanding' = Append(outstanding, r)
            \/ answer'[r] \in {"NoMedia", "waiting"} /\ outstanding' = outstanding
<1>1. outstanding \in Seq(Request) /\ answer \in [Request -> Server!Answer]
  BY DEF Server!TypeOK
<1>2. {"pending", "NoMedia", "waiting"} \subseteq Server!Answer
  BY DEF Server!Answer
<1>3. /\ answer[r] = "none"
      /\ \/ /\ outstanding' = Append(outstanding, r)
            /\ answer' = [answer EXCEPT ![r] = "pending"]
         \/ /\ outstanding' = outstanding
            /\ \/ answer' = [answer EXCEPT ![r] = "NoMedia"]
               \/ answer' = [answer EXCEPT ![r] = "waiting"]
  BY DEF Server!Submit, Server!Take
<1>4. Append(outstanding, r) \in Seq(Request)
  BY <1>1
<1> QED BY <1>1, <1>2, <1>3, <1>4 DEF Server!TypeOK

(* A request that is taken after it had to wait.                           *)
LEMMA WakesEffect ==
  ASSUME Server!TypeOK, NEW r \in Request, getCommandWakes(r)
  PROVE  /\ Server!TypeOK' /\ answer[r] = "waiting"
         /\ \A q \in Request : q # r => answer'[q] = answer[q]
         /\ answer'[r] = "pending" /\ outstanding' = Append(outstanding, r)
<1>1. outstanding \in Seq(Request) /\ answer \in [Request -> Server!Answer]
  BY DEF Server!TypeOK
<1>2. /\ answer[r] = "waiting" /\ outstanding' = Append(outstanding, r)
      /\ answer' = [answer EXCEPT ![r] = "pending"] /\ "pending" \in Server!Answer
  BY DEF getCommandWakes, Server!Take, Server!Answer
<1>3. Append(outstanding, r) \in Seq(Request)
  BY <1>1
<1> QED BY <1>1, <1>2, <1>3 DEF Server!TypeOK

(* An answer to the oldest request, after which the others are held or not.*)
Tells(v, rest) == outstanding' = rest /\ answer' = Server!Told(v)

LEMMA TellEffect ==
  ASSUME Server!TypeOK, outstanding # <<>>, NEW v \in Verdict,
         NEW rest \in {Tail(outstanding), <<>>}, Tells(v, rest)
  PROVE  /\ Server!TypeOK' /\ outstanding' = rest
         /\ Head(outstanding) \in Request /\ Head(outstanding) = outstanding[1]
         /\ 1 \in DOMAIN outstanding
         /\ answer'[Head(outstanding)] = v
         /\ \A q \in Request : q # Head(outstanding) => answer'[q] = answer[q]
         /\ \A i \in DOMAIN outstanding' :
              i + 1 \in DOMAIN outstanding /\ outstanding'[i] = outstanding[i + 1]
         /\ DOMAIN outstanding \subseteq Nat \ {0}
         /\ DOMAIN outstanding' \subseteq Nat \ {0}
<1>1. outstanding \in Seq(Request) /\ answer \in [Request -> Server!Answer]
  BY DEF Server!TypeOK
<1>2. v \in Server!Answer
  BY DEF Verdict, Server!Answer
<1>3. outstanding' = rest /\ answer' = [answer EXCEPT ![Head(outstanding)] = v]
  BY DEF Tells, Server!Told
<1>4. /\ Head(outstanding) \in Request /\ Head(outstanding) = outstanding[1]
      /\ 1 \in DOMAIN outstanding /\ Tail(outstanding) \in Seq(Request)
      /\ DOMAIN outstanding \subseteq Nat \ {0}
  BY <1>1
<1>5. /\ rest \in Seq(Request) /\ DOMAIN rest \subseteq Nat \ {0}
      /\ \A i \in DOMAIN rest :
          i + 1 \in DOMAIN outstanding /\ rest[i] = outstanding[i + 1]
  <2>1. CASE rest = Tail(outstanding)
    BY <1>1, <1>4, <2>1
  <2>2. CASE rest = <<>>
    BY <2>2
  <2> QED BY <2>1, <2>2
<1> QED BY <1>1, <1>2, <1>3, <1>4, <1>5 DEF Server!TypeOK

(* The requests, told apart by whose they are.                             *)
LEMMA Requests ==
  /\ \A r \in Request : r[2] \in Nat \ {0} /\ r[1] \in Thread \cup Transfer
                        /\ r = <<r[1], r[2]>>
  /\ \A t \in Thread : t \notin Transfer
  /\ \A t \in Thread, k \in 1..MaxCalls : <<t, k>> \in Request
  /\ \A x \in Transfer, k \in 1..MaxPieces : <<x, k>> \in Request
BY CallersAssumption DEF Request

(* A thread has made the calls that returned, and the one that waits.      *)
LEMMA MadeSpelledOut ==
  ASSUME NEW t
  PROVE  /\ pc[t] \in Taken => Made(t) = Len(returned[t]) + 1
         /\ pc[t] \notin Taken => Made(t) = Len(returned[t]) + 0
         /\ pc'[t] \in Taken => Made(t)' = Len(returned'[t]) + 1
         /\ pc'[t] \notin Taken => Made(t)' = Len(returned'[t]) + 0
BY DEF Made

(* What a thread has issued stays issued.                                  *)
LEMMA IssuedStays ==
  ASSUME UNCHANGED pieces,
         \A u \in Thread : Made(u) \in Nat /\ Made(u)' \in Nat /\ Made(u) <= Made(u)'
  PROVE  \A q \in Request : Issued(q) => Issued(q)'
BY Requests DEF Issued

(* A queue that stays.                                                     *)
LEMMA HeldKept ==
  ASSUME Server!TypeOK, HeldInOrder, outstanding' = outstanding,
         \A r \in Request : answer[r] = "pending" => answer'[r] = answer[r],
         \A r \in Request : Issued(r) => Issued(r)'
  PROVE  HeldInOrder'
<1>1. \A i \in DOMAIN outstanding : outstanding[i] \in Request
  BY DEF Server!TypeOK
<1> QED BY <1>1 DEF HeldInOrder, Issued

(* A queue that a request joins which its caller has not made before.      *)
LEMMA HeldJoined ==
  ASSUME Server!TypeOK, HeldInOrder, NEW r \in Request, answer[r] # "pending",
         outstanding' = Append(outstanding, r), answer'[r] = "pending",
         \A q \in Request : q # r => answer'[q] = answer[q],
         \A q \in Request : Issued(q) => Issued(q)', Issued(r)',
         \A q \in Request : Issued(q) /\ q[1] = r[1] => q[2] < r[2]
  PROVE  HeldInOrder'
<1>1. /\ outstanding \in Seq(Request)
      /\ \A i \in DOMAIN outstanding : outstanding[i] \in Request
  BY DEF Server!TypeOK
<1>2. /\ DOMAIN outstanding' = DOMAIN outstanding \cup {Len(outstanding) + 1}
      /\ DOMAIN outstanding = 1..Len(outstanding)
      /\ \A i \in DOMAIN outstanding : outstanding'[i] = outstanding[i]
      /\ outstanding'[Len(outstanding) + 1] = r /\ Len(outstanding) \in Nat
  BY <1>1, Joined
<1>3. ASSUME NEW i \in DOMAIN outstanding'
      PROVE  answer'[outstanding'[i]] = "pending" /\ Issued(outstanding[i])'
  <2>1. CASE i \in DOMAIN outstanding
    <3>1. /\ outstanding[i] # r /\ answer[outstanding[i]] = "pending"
          /\ Issued(outstanding[i])
      BY <2>1 DEF HeldInOrder
    <3> QED BY <1>1, <1>2, <2>1, <3>1 DEF Issued
  <2>2. CASE i = Len(outstanding) + 1
    BY <1>2, <2>2 DEF Issued
  <2> QED BY <1>2, <2>1, <2>2
<1>4. ASSUME NEW i \in DOMAIN outstanding', NEW k \in DOMAIN outstanding',
             i < k, outstanding'[i][1] = outstanding'[k][1]
      PROVE  outstanding'[i][2] < outstanding'[k][2]
  <2>1. i \in DOMAIN outstanding /\ outstanding'[i] = outstanding[i]
    BY <1>2, <1>4
  <2>2. CASE k \in DOMAIN outstanding
    BY <1>2, <1>4, <2>1, <2>2 DEF HeldInOrder
  <2>3. CASE k = Len(outstanding) + 1
    BY <1>1, <1>2, <1>4, <2>1, <2>3 DEF HeldInOrder
  <2> QED BY <1>2, <2>2, <2>3
<1> QED BY <1>3, <1>4 DEF HeldInOrder

(* A queue whose oldest request was answered.                              *)
LEMMA HeldTold ==
  ASSUME Server!TypeOK, HeldInOrder, outstanding # <<>>, NEW v \in Verdict,
         NEW rest \in {Tail(outstanding), <<>>}, Tells(v, rest),
         UNCHANGED <<returned, pieces>>, \A u \in Thread : Made(u)' = Made(u)
  PROVE  HeldInOrder'
<1>1. \A i \in DOMAIN outstanding : outstanding[i] \in Request
  BY DEF Server!TypeOK
<1>2. \A i \in DOMAIN outstanding' :
        /\ i \in Nat \ {0} /\ i + 1 \in DOMAIN outstanding
        /\ outstanding'[i] = outstanding[i + 1]
  BY TellEffect
<1>3. Head(outstanding) = outstanding[1] /\ 1 \in DOMAIN outstanding
  BY TellEffect
<1>4. ASSUME NEW i \in DOMAIN outstanding'
      PROVE  answer'[outstanding'[i]] = "pending" /\ Issued(outstanding[i])'
  <2>1. outstanding[i + 1] # outstanding[1]
    BY <1>1, <1>2, <1>3, Requests DEF HeldInOrder
  <2>2. answer'[outstanding[i + 1]] = answer[outstanding[i + 1]]
    BY <1>1, <1>2, <1>3, <2>1, TellEffect
  <2>3. PICK q \in Request : q = outstanding[i + 1] /\ Issued(q)
    BY <1>1, <1>2 DEF HeldInOrder
  <2>4. Issued(q)'
    BY <2>3, Requests DEF Issued
  <2>5. outstanding'[i] = q /\ answer[q] = "pending"
    BY <1>2, <2>3 DEF HeldInOrder
  <2> QED BY <2>2, <2>3, <2>4, <2>5 DEF Issued
<1>5. ASSUME NEW i \in DOMAIN outstanding', NEW k \in DOMAIN outstanding',
             i < k, outstanding'[i][1] = outstanding'[k][1]
      PROVE  outstanding'[i][2] < outstanding'[k][2]
  BY <1>2, <1>5 DEF HeldInOrder
<1> QED BY <1>4, <1>5 DEF HeldInOrder

------------------------------------------------------------------------------
(* Splitting a transfer.                                                   *)

(* Tiled is what PiecesTile says.                                          *)
LEMMA TiledIsPiecesTile == Tiled => PiecesTile
BY DEF Tiled, TileOf, PiecesTile

(* The types of the model's parts.                                         *)
LEMMA Constants ==
  /\ MaxBlocks \in Nat \ {0} /\ BlockSize \in Nat \ {0} /\ MaxPieces \in Nat \ {0}
  /\ Capacity \in Nat \ {0} /\ MaxCalls \in Nat /\ MaxEvents \in Nat /\ MaxSleeps \in Nat
  /\ \A b \in Starts \cup {0} : b \in Nat
  /\ \A n \in Sizes \cup {0} : n \in Nat
BY CallersAssumption

(* A transfer that is being split has a command left to it.                *)
LEMMA PieceLeft ==
  ASSUME NEW p \in Seq(Piece), NEW f \in IO, SplitOf(p, f),
         f.pc \in {"splitting", "waiting"}
  PROVE  Len(p) + 1 \in 1..MaxPieces
<1>1. Len(p) \in Nat /\ f.remaining \in Nat /\ f.remaining > 0
      /\ f.nblks \in Sizes \cup {0} /\ Len(p) * MaxBlocks + f.remaining = f.nblks
  BY DEF IO, SplitOf
<1>2. Len(p) * MaxBlocks \in Nat /\ MaxPieces * MaxBlocks \in Nat
  BY <1>1, Constants
<1>3. Len(p) * MaxBlocks < MaxPieces * MaxBlocks
  <2>1. f.nblks # 0
    BY <1>1, <1>2
  <2>2. f.nblks <= MaxPieces * MaxBlocks
    BY <1>1, <2>1, CallersAssumption DEF SplitOf
  <2> QED BY <1>1, <1>2, <2>2, Constants
<1>4. MaxPieces <= Len(p) => MaxPieces * MaxBlocks <= Len(p) * MaxBlocks
  BY <1>1, Constants
<1> QED BY <1>1, <1>2, <1>3, <1>4, Constants

(* The loop of doAsyncReadWrite: the piece that is issued, and what is     *)
(* left, follow what was issued before.                                    *)
LEMMA PieceFollows ==
  ASSUME NEW p \in Seq(Piece), NEW f \in IO, f.pc \in {"splitting", "waiting"},
         SplitOf(p, f), TileOf(p, f),
         NEW count \in 1..MaxBlocks, NEW rest \in Nat, count + rest = f.remaining,
         rest > 0 => count = MaxBlocks,
         NEW piece \in Piece, piece.start = f.blockStart, piece.count = count,
         piece.offset = f.offset, piece.completion <=> rest = 0,
         NEW g \in IO, g.blockStart = f.blockStart + count, g.remaining = rest,
         g.offset = f.offset + count * BlockSize, g.block = f.block, g.nblks = f.nblks,
         g.pc = IF rest > 0 THEN "splitting" ELSE "accepted",
         NEW q, q = Append(p, piece)
  PROVE  SplitOf(q, g) /\ TileOf(q, g)
<1>1. /\ f.remaining \in Nat /\ f.blockStart \in Nat /\ f.offset \in Nat
      /\ f.block \in Nat /\ f.nblks \in Nat /\ Len(p) \in Nat
      /\ f.remaining > 0 /\ f.blockStart + f.remaining = f.block + f.nblks
      /\ p = <<>> => f.blockStart = f.block /\ f.offset = 0
  <2>1. /\ f.remaining \in Nat /\ f.blockStart \in Nat /\ f.offset \in Nat
        /\ f.block \in Starts \cup {0} /\ f.nblks \in Sizes \cup {0}
    BY DEF IO
  <2>2. f.block \in Nat /\ f.nblks \in Nat /\ Len(p) \in Nat
    BY <2>1, Constants
  <2> QED BY <2>1, <2>2 DEF SplitOf
<1>2. /\ q \in Seq(Piece) /\ Len(q) = Len(p) + 1 /\ q # <<>>
      /\ DOMAIN q = DOMAIN p \cup {Len(p) + 1} /\ DOMAIN p = 1..Len(p)
      /\ \A i \in DOMAIN p : q[i] = p[i]
      /\ q[Len(p) + 1] = piece
  BY Joined
<1>3. SplitOf(q, g)
  <2>1. CASE rest = 0
    BY <1>2, <2>1 DEF SplitOf
  <2>2. CASE rest > 0
    <3>1. (Len(p) + 1) * MaxBlocks = Len(p) * MaxBlocks + MaxBlocks
          /\ Len(p) * MaxBlocks \in Nat
      BY <1>1, Constants
    <3>2. Len(p) * MaxBlocks + f.remaining = f.nblks
      BY DEF SplitOf
    <3>3. Len(q) * MaxBlocks + rest = f.nblks
      BY <1>1, <1>2, <2>2, <3>1, <3>2, Constants
    <3>4. g.blockStart + g.remaining = g.block + g.nblks
      BY <1>1
    <3>5. g.nblks <= MaxTransfer
      BY DEF SplitOf
    <3> QED BY <1>2, <2>2, <3>3, <3>4, <3>5 DEF SplitOf
  <2> QED BY <2>1, <2>2
<1>4. TileOf(q, g)
  <2>1. q[1].start = g.block /\ q[1].offset = 0
    <3>1. CASE p = <<>>
      BY <1>1, <1>2, <3>1
    <3>2. CASE p # <<>>
      BY <1>1, <1>2, <3>2 DEF TileOf
    <3> QED BY <3>1, <3>2
  <2>2. ASSUME NEW i \in DOMAIN p
        PROVE  /\ q[i].count \in 1..MaxBlocks /\ i # Len(q)
               /\ q[i + 1].start = q[i].start + q[i].count
               /\ q[i + 1].offset = q[i].offset + q[i].count * BlockSize
               /\ ~q[i].completion
    <3>1. CASE i = Len(p)
      <4>1. /\ p[i].count \in 1..MaxBlocks /\ f.blockStart = p[i].start + p[i].count
            /\ f.offset = p[i].offset + p[i].count * BlockSize /\ ~p[i].completion
        BY <3>1 DEF TileOf
      <4>2. q[i + 1] = piece /\ q[i] = p[i]
        BY <1>2, <3>1
      <4>3. Len(p) # Len(p) + 1
        BY <1>1
      <4>4. i # Len(q)
        BY <1>2, <3>1, <4>3, Zenon
      <4> QED BY <4>1, <4>2, <4>4
    <3>2. CASE i # Len(p)
      <4>1. i + 1 \in DOMAIN p /\ i # Len(q)
        BY <1>1, <1>2, <3>2
      <4> QED BY <1>2, <3>2, <4>1 DEF TileOf
    <3> QED BY <3>1, <3>2
  <2>3. LET i == Len(p) + 1
        IN /\ q[i].count \in 1..MaxBlocks /\ i = Len(q)
           /\ g.blockStart = q[i].start + q[i].count
           /\ g.offset = q[i].offset + q[i].count * BlockSize
           /\ q[i].completion <=> g.pc = "accepted"
    <3>1. piece.completion <=> g.pc = "accepted"
      OBVIOUS
    <3> QED BY <1>2, <3>1
  <2>4. g.pc = "accepted" => g.blockStart = g.block + g.nblks
    BY <1>1
  <2> QED BY <1>2, <2>1, <2>2, <2>3, <2>4 DEF TileOf
<1> QED BY <1>3, <1>4

------------------------------------------------------------------------------
(* The steps that the invariant has to survive, by what they touch.        *)

Done == Verdict \cup {"NoMedia"}

(* TypeOK, field by field, of this state and of the next.                  *)
LEMMA Types ==
  /\ TypeOK <=>
       /\ Server!TypeOK
       /\ isSleepingSyncCommand \in BOOLEAN /\ isMachineSleeping \in BOOLEAN
       /\ cardPresent \in BOOLEAN /\ removal \in BOOLEAN /\ panicked \in BOOLEAN
       /\ syncCommandResult \in Verdict /\ pc \in [Thread -> Place]
       /\ returned \in [Thread -> Seq(Done)]
       /\ io \in [Transfer -> IO] /\ pieces \in [Transfer -> Seq(Piece)]
       /\ told \in [Transfer -> Verdict \cup {"none"}]
       /\ events \in 0..MaxEvents /\ sleeps \in 0..MaxSleeps
  /\ TypeOK' <=>
       /\ Server!TypeOK'
       /\ isSleepingSyncCommand' \in BOOLEAN /\ isMachineSleeping' \in BOOLEAN
       /\ cardPresent' \in BOOLEAN /\ removal' \in BOOLEAN /\ panicked' \in BOOLEAN
       /\ syncCommandResult' \in Verdict /\ pc' \in [Thread -> Place]
       /\ returned' \in [Thread -> Seq(Done)]
       /\ io' \in [Transfer -> IO] /\ pieces' \in [Transfer -> Seq(Piece)]
       /\ told' \in [Transfer -> Verdict \cup {"none"}]
       /\ events' \in 0..MaxEvents /\ sleeps' \in 0..MaxSleeps
BY DEF TypeOK, Done

(* The engine unchanged.                                                   *)
LEMMA EngineKept ==
  ASSUME UNCHANGED engine, Server!TypeOK
  PROVE  Server!TypeOK'
BY DEF engine, Server!TypeOK

(* The transfers unchanged.                                                *)
LEMMA BlocksKept ==
  ASSUME Splitting, Tiled, UNCHANGED blocks
  PROVE  Splitting' /\ Tiled'
BY DEF blocks, Splitting, Tiled

(* ArmSync: the flag is raised, and the thread is about to submit.         *)
LEMMA ArmTransfer ==
  ASSUME TransferInv, NEW t \in Thread, ArmSync(t)
  PROVE  TransferInv'
<1>1. /\ pc[t] = "idle" /\ Len(returned[t]) < MaxCalls
      /\ isSleepingSyncCommand' = TRUE /\ syncCommandResult' = "Timeout"
      /\ pc' = [pc EXCEPT ![t] = "submit"]
      /\ UNCHANGED <<engine, returned, blocks, told, power, slot, panicked>>
  BY DEF ArmSync, Arm
<1>2. "submit" \in Place \ Taken /\ "idle" \notin Taken /\ pc \in [Thread -> Place] /\ "Timeout" \in Verdict
  BY Types DEF TransferInv, Verdict, Server!Verdict, Place, Taken
<1>3. TypeOK'
  BY <1>1, <1>2, EngineKept, Types DEF TransferInv, blocks, power, slot
<1>4. CallsAreCounted'
  BY <1>1, <1>2 DEF TransferInv, CallsAreCounted
<1>5. HeldInOrder'
  <2>1. \A r \in Request : Issued(r) => Issued(r)'
    BY <1>1, <1>2 DEF Issued, Made, blocks
  <2> QED BY <1>1, <2>1, HeldKept, Types DEF TransferInv, engine
<1>6. ToldAtTheEnd'
  BY <1>1 DEF TransferInv, ToldAtTheEnd, engine, blocks
<1> QED BY <1>1, <1>3, <1>4, <1>5, <1>6, BlocksKept DEF TransferInv

(* A call in progress makes the request after those that returned.         *)
LEMMA CallInProgress ==
  ASSUME TypeOK, CallsAreCounted, NEW t \in Thread, pc[t] # "idle"
  PROVE  /\ Len(returned[t]) \in Nat /\ Len(returned[t]) < MaxCalls
         /\ Current(t) \in Request /\ Current(t)[1] = t
         /\ Current(t)[2] = Len(returned[t]) + 1
         /\ Current(t) = <<t, Len(returned[t]) + 1>>
<1>1. returned[t] \in Seq(Done)
  BY Types
<1>2. Len(returned[t]) \in Nat
  BY <1>1
<1>3. Len(returned[t]) < MaxCalls
  BY <1>2, Constants DEF CallsAreCounted
<1>4. Len(returned[t]) + 1 \in 1..MaxCalls
  BY <1>2, <1>3, Constants
<1> QED BY <1>2, <1>3, <1>4, Requests DEF Current

(* A call that returns has one more result.                                *)
LEMMA ReturnEffect ==
  ASSUME TypeOK, CallsAreCounted, NEW t \in Thread, pc[t] # "idle",
         NEW status \in Done, ReturnSync(t, status)
  PROVE  /\ pc' \in [Thread -> Place] /\ pc'[t] = "idle" /\ "idle" \in Place \ Taken
         /\ returned' \in [Thread -> Seq(Done)]
         /\ returned'[t] = Append(returned[t], status)
         /\ Len(returned'[t]) = Len(returned[t]) + 1 /\ Len(returned[t]) \in Nat
         /\ \A u \in Thread : u # t => pc'[u] = pc[u] /\ returned'[u] = returned[u]
         /\ CallsAreCounted'
         /\ \A u \in Thread : Made(u) \in Nat /\ Made(u)' \in Nat /\ Made(u) <= Made(u)'
<1>1. /\ pc \in [Thread -> Place]
      /\ returned \in [Thread -> Seq(Done)] /\ returned[t] \in Seq(Done)
  BY Types
<1>2. /\ pc' = [pc EXCEPT ![t] = "idle"]
      /\ returned' = [returned EXCEPT ![t] = Append(returned[t], status)]
  BY DEF ReturnSync
<1>3. /\ Append(returned[t], status) \in Seq(Done) /\ Len(returned[t]) \in Nat
      /\ Len(Append(returned[t], status)) = Len(returned[t]) + 1
  BY <1>1
<1>4. /\ pc'[t] = "idle" /\ returned'[t] = Append(returned[t], status)
      /\ \A u \in Thread : u # t => pc'[u] = pc[u] /\ returned'[u] = returned[u]
  BY <1>1, <1>2
<1>5. CallsAreCounted'
  <2>1. Len(returned'[t]) <= MaxCalls
    BY <1>3, <1>4, CallInProgress, Constants
  <2> QED BY <1>4, <2>1 DEF CallsAreCounted
<1>6. \A u \in Thread : Made(u) \in Nat /\ Made(u)' \in Nat /\ Made(u) <= Made(u)'
  <2>1. Made(t) \in Nat /\ Made(t)' = Len(returned[t]) + 1 /\ Made(t) <= Len(returned[t]) + 1
    <3>1. Len(returned'[t]) = Len(returned[t]) + 1 /\ pc'[t] \notin Taken
      BY <1>3, <1>4 DEF Taken
    <3> QED BY <1>3, <3>1, MadeSpelledOut
  <2>2. ASSUME NEW u \in Thread PROVE Len(returned[u]) \in Nat
    BY <1>1
  <2>3. \A u \in Thread : u # t => Made(u) \in Nat /\ Made(u)' = Made(u)
    <3>1. ASSUME NEW u \in Thread, u # t PROVE Made(u)' = Made(u)
      BY <1>4, <3>1 DEF Made
    <3>2. \A u \in Thread : Made(u) \in Nat
      BY <2>2, MadeSpelledOut
    <3> QED BY <3>1, <3>2
  <2>4. ASSUME NEW u \in Thread
        PROVE  Made(u) \in Nat /\ Made(u)' \in Nat /\ Made(u) <= Made(u)'
    <3>1. CASE u = t
      BY <1>3, <2>1, <3>1
    <3>2. CASE u # t
      <4>1. Made(u) \in Nat /\ Made(u)' = Made(u)
        BY <2>3, <3>2
      <4> QED BY <4>1
    <3> QED BY <3>1, <3>2
  <2> QED BY <2>4
<1> QED BY <1>1, <1>2, <1>3, <1>4, <1>5, <1>6 DEF Place, Taken

(* The engine takes the command of a call, which then waits for its end.   *)
LEMMA TakenTransfer ==
  ASSUME TransferInv, NEW t \in Thread, pc[t] \in {"submit", "pool"},
         pc' = [pc EXCEPT ![t] = "look"],
         UNCHANGED <<isSleepingSyncCommand, syncCommandResult, returned, blocks, told,
                     power, slot, panicked>>,
         NEW r \in Request, r = Current(t), Server!TypeOK', answer[r] # "pending",
         \A q \in Request : q # r => answer'[q] = answer[q],
         answer'[r] = "pending", outstanding' = Append(outstanding, r)
  PROVE  TransferInv'
<1>1. /\ pc \in [Thread -> Place] /\ TypeOK /\ Server!TypeOK /\ pc[t] # "idle"
      /\ CallsAreCounted /\ Len(returned[t]) \in Nat /\ Len(returned[t]) < MaxCalls
      /\ "look" \in Place \cap Taken /\ pc[t] \notin Taken /\ "look" # "idle"
  BY CallInProgress, Types DEF TransferInv, Place, Taken
<1>2. r[1] = t /\ r[2] = Len(returned[t]) + 1 /\ t \notin Transfer
  BY <1>1, CallInProgress, Requests
<1>3. pc'[t] = "look" /\ \A u \in Thread : u # t => pc'[u] = pc[u]
  BY <1>1
<1>4. TypeOK'
  BY <1>1, Types DEF blocks, power, slot
<1>5. CallsAreCounted'
  BY <1>1, <1>3 DEF CallsAreCounted
<1>6. HeldInOrder'
  <2>1. /\ Made(t) = Len(returned[t]) /\ Made(t)' = Len(returned[t]) + 1
        /\ \A u \in Thread : Made(u) \in Nat
        /\ \A u \in Thread : u # t => Made(u)' = Made(u)
    BY <1>1, <1>3, Types DEF Made
  <2>2. \A q \in Request : Issued(q) => Issued(q)'
    BY <1>1, <2>1, IssuedStays DEF blocks
  <2>3. Issued(r)'
    BY <1>1, <1>2, <2>1 DEF Issued
  <2>4. \A q \in Request : Issued(q) /\ q[1] = r[1] => q[2] < r[2]
    BY <1>1, <1>2, <2>1, Requests DEF Issued
  <2> QED BY <1>1, <2>2, <2>3, <2>4, HeldJoined DEF TransferInv
<1>7. ToldAtTheEnd'
  BY <1>1, <1>2, Joined DEF TransferInv, ToldAtTheEnd, blocks, Server!TypeOK
<1> QED BY <1>4, <1>5, <1>6, <1>7, BlocksKept DEF TransferInv

(* SubmitSync: the engine takes the command of the call, has the call wait *)
(* for a command to be free, or refuses it, and the call returns.          *)
LEMMA SubmitTransfer ==
  ASSUME TransferInv, NEW t \in Thread, SubmitSync(t)
  PROVE  TransferInv'
<1>0. PICK r : r = Current(t)
  OBVIOUS
<1>1. /\ pc[t] = "submit"
      /\ Server!Submit(r, outstanding, Server!Room, answer)
      /\ CASE answer'[r] = "NoMedia" -> ReturnSync(t, "NoMedia")
           [] answer'[r] = "waiting" ->
                pc' = [pc EXCEPT ![t] = "pool"] /\ UNCHANGED returned
           [] OTHER -> pc' = [pc EXCEPT ![t] = "look"] /\ UNCHANGED returned
      /\ UNCHANGED <<isSleepingSyncCommand, syncCommandResult, blocks, told, power,
                     slot, panicked>>
  BY <1>0 DEF SubmitSync, doAsyncCommand
<1>2. /\ pc \in [Thread -> Place] /\ TypeOK /\ Server!TypeOK /\ pc[t] # "idle"
      /\ CallsAreCounted /\ r \in Request
  BY <1>0, <1>1, CallInProgress, Types DEF TransferInv
<1>3. /\ Server!TypeOK' /\ answer[r] = "none"
      /\ \A q \in Request : q # r => answer'[q] = answer[q]
      /\ \/ answer'[r] = "pending" /\ outstanding' = Append(outstanding, r)
         \/ answer'[r] \in {"NoMedia", "waiting"} /\ outstanding' = outstanding
  BY <1>1, <1>2, SubmitEffect
<1>4. \A q \in Request : answer[q] = "pending" => answer'[q] = answer[q]
  BY <1>3
<1>5. CASE answer'[r] = "pending" /\ outstanding' = Append(outstanding, r)
  <2>1. pc' = [pc EXCEPT ![t] = "look"] /\ UNCHANGED returned
    BY <1>1, <1>5
  <2> QED BY <1>0, <1>1, <1>2, <1>3, <1>5, <2>1, TakenTransfer
<1>6. CASE answer'[r] = "NoMedia" /\ outstanding' = outstanding
  <2>1. ReturnSync(t, "NoMedia") /\ "NoMedia" \in Done
    BY <1>1, <1>6 DEF Done
  <2>2. TypeOK' /\ CallsAreCounted'
    BY <1>1, <1>2, <1>3, <2>1, ReturnEffect, Types DEF blocks, power, slot
  <2>3. HeldInOrder'
    <3>1. \A q \in Request : Issued(q) => Issued(q)'
      BY <1>1, <1>2, <2>1, ReturnEffect, IssuedStays DEF blocks
    <3> QED BY <1>2, <1>4, <1>6, <3>1, HeldKept DEF TransferInv
  <2>4. ToldAtTheEnd'
    BY <1>1, <1>6 DEF TransferInv, ToldAtTheEnd, blocks
  <2> QED BY <1>1, <2>2, <2>3, <2>4, BlocksKept DEF TransferInv
<1>7. CASE answer'[r] = "waiting" /\ outstanding' = outstanding
  <2>1. pc' = [pc EXCEPT ![t] = "pool"] /\ returned' = returned
    BY <1>1, <1>7
  <2>2. "pool" \in Place \ Taken /\ "submit" \notin Taken
    BY DEF Place, Taken
  <2>3. TypeOK'
    BY <1>1, <1>2, <1>3, <2>1, <2>2, Types DEF blocks, power, slot
  <2>4. CallsAreCounted'
    BY <1>1, <1>2, <2>1 DEF CallsAreCounted
  <2>5. HeldInOrder'
    <3>1. \A q \in Request : Issued(q) => Issued(q)'
      BY <1>1, <1>2, <2>1, <2>2 DEF Issued, Made, blocks
    <3> QED BY <1>2, <1>4, <1>7, <3>1, HeldKept DEF TransferInv
  <2>6. ToldAtTheEnd'
    BY <1>1, <1>7 DEF TransferInv, ToldAtTheEnd, blocks
  <2> QED BY <1>1, <2>3, <2>4, <2>5, <2>6, BlocksKept DEF TransferInv
<1> QED BY <1>3, <1>5, <1>6, <1>7

(* SyncGetsCommand: the engine takes the command of a call that waited.    *)
LEMMA GetsCommandTransfer ==
  ASSUME TransferInv, NEW t \in Thread, SyncGetsCommand(t)
  PROVE  TransferInv'
<1>1. /\ pc[t] = "pool" /\ getCommandWakes(Current(t))
      /\ pc' = [pc EXCEPT ![t] = "look"]
      /\ UNCHANGED <<isSleepingSyncCommand, syncCommandResult, returned, blocks, told,
                     power, slot, panicked>>
  BY DEF SyncGetsCommand
<1>2. Server!TypeOK /\ Current(t) \in Request
  BY <1>1, CallInProgress, Types DEF TransferInv
<1>3. PICK r \in Request : r = Current(t)
  BY <1>2
<1>4. /\ Server!TypeOK' /\ answer[r] = "waiting"
      /\ \A q \in Request : q # r => answer'[q] = answer[q]
      /\ answer'[r] = "pending" /\ outstanding' = Append(outstanding, r)
  BY <1>1, <1>2, <1>3, WakesEffect
<1> QED BY <1>1, <1>3, <1>4, TakenTransfer

(* LookAtFlag, LowerFlag: a call that waits for the end of its command gets*)
(* further, and the engine is not touched.                                 *)
LEMMA FlagTransfer ==
  ASSUME TransferInv, NEW t \in Thread, LookAtFlag(t) \/ LowerFlag(t)
  PROVE  TransferInv'
<1>1. PICK place \in Taken :
        /\ pc[t] \in Taken /\ pc' = [pc EXCEPT ![t] = place]
        /\ isSleepingSyncCommand' \in {isSleepingSyncCommand, FALSE}
        /\ UNCHANGED <<engine, syncCommandResult, returned, blocks, told, power, slot,
                       panicked>>
  BY DEF LookAtFlag, LowerFlag, Taken
<1>2. /\ TypeOK /\ pc \in [Thread -> Place] /\ Taken \subseteq Place
      /\ "idle" \notin Taken
  BY Types DEF TransferInv, Place, Taken
<1>3. TypeOK'
  BY <1>1, <1>2, EngineKept, Types DEF blocks, power, slot
<1>4. CallsAreCounted'
  BY <1>1, <1>2 DEF TransferInv, CallsAreCounted
<1>5. HeldInOrder'
  <2>1. \A q \in Request : Issued(q) => Issued(q)'
    BY <1>1, <1>2 DEF Issued, Made, blocks
  <2> QED BY <1>1, <1>2, <2>1, HeldKept, Types DEF engine, TransferInv
<1>6. ToldAtTheEnd'
  BY <1>1 DEF TransferInv, ToldAtTheEnd, blocks, engine
<1> QED BY <1>1, <1>3, <1>4, <1>5, <1>6, BlocksKept DEF TransferInv

(* EndSync: a call returns; what its thread has issued stays issued.       *)
LEMMA EndTransfer ==
  ASSUME TransferInv, NEW t \in Thread, EndSync(t)
  PROVE  TransferInv'
<1>1. /\ pc[t] = "lowered" /\ ReturnSync(t, syncCommandResult)
      /\ UNCHANGED <<engine, isSleepingSyncCommand, syncCommandResult, blocks, told,
                     power, slot, panicked>>
  BY DEF EndSync
<1>2. /\ TypeOK /\ Server!TypeOK /\ CallsAreCounted /\ pc[t] # "idle"
      /\ syncCommandResult \in Done
  BY <1>1, Types DEF TransferInv, Done
<1>3. TypeOK' /\ CallsAreCounted'
  BY <1>1, <1>2, ReturnEffect, EngineKept, Types DEF blocks, power, slot
<1>4. HeldInOrder'
  <2>1. \A q \in Request : Issued(q) => Issued(q)'
    BY <1>1, <1>2, ReturnEffect, IssuedStays DEF blocks
  <2> QED BY <1>1, <1>2, <2>1, HeldKept DEF TransferInv, engine
<1>5. ToldAtTheEnd'
  BY <1>1 DEF TransferInv, ToldAtTheEnd, blocks, engine
<1> QED BY <1>1, <1>3, <1>4, <1>5, BlocksKept DEF TransferInv

(* BeginIO: nothing of the transfer is issued yet, and all of it is left.  *)
LEMMA BeginTransfer ==
  ASSUME TransferInv, NEW x \in Transfer, BeginIO(x)
  PROVE  TransferInv'
<1>1. PICK b \in Starts, n \in Sizes, place \in {"refused", "asleep", "splitting"} :
        /\ place # "refused" => n <= MaxTransfer
        /\ io' = [io EXCEPT ![x] =
                   [pc |-> place, block |-> b, nblks |-> n,
                    blockStart |-> b, remaining |-> n, offset |-> 0]]
  <2>1. PICK b \in Starts, n \in Sizes :
          io' = [io EXCEPT ![x] =
                   [pc |-> CASE n > MaxTransfer -> "refused"
                             [] n <= MaxTransfer /\ isMachineSleeping -> "asleep"
                             [] OTHER -> "splitting",
                    block |-> b, nblks |-> n,
                    blockStart |-> b, remaining |-> n, offset |-> 0]]
    BY DEF BeginIO
  <2>2. n \in Nat /\ MaxTransfer \in Nat
    BY CallersAssumption
  <2>3. PICK place : place = CASE n > MaxTransfer -> "refused"
                               [] n <= MaxTransfer /\ isMachineSleeping -> "asleep"
                               [] OTHER -> "splitting"
    OBVIOUS
  <2>4. /\ place \in {"refused", "asleep", "splitting"}
        /\ place # "refused" => n <= MaxTransfer
    BY <2>2, <2>3
  <2>5. io' = [io EXCEPT ![x] =
                 [pc |-> place, block |-> b, nblks |-> n,
                  blockStart |-> b, remaining |-> n, offset |-> 0]]
    BY <2>1, <2>3
  <2> QED BY <2>4, <2>5
<1>2. /\ io[x].pc = "new" /\ pieces[x] = <<>>
      /\ UNCHANGED <<engine, sync, pieces, told, power, slot, panicked>>
  BY DEF BeginIO, TransferInv, Splitting, SplitOf
<1>3. /\ b \in Nat /\ n \in Nat /\ n > 0 /\ MaxTransfer \in Nat
  BY CallersAssumption
<1>4. io'[x] \in IO /\ io \in [Transfer -> IO] /\ io' \in [Transfer -> IO]
      /\ \A y \in Transfer : y # x => io'[y] = io[y]
  <2> DEFINE f == [pc |-> place, block |-> b, nblks |-> n,
                   blockStart |-> b, remaining |-> n, offset |-> 0]
  <2>1. f \in IO
    BY <1>3 DEF IO
  <2> HIDE DEF f
  <2>2. io' = [io EXCEPT ![x] = f] /\ io \in [Transfer -> IO]
    BY <1>1, Types DEF f, TransferInv
  <2> QED BY <2>1, <2>2
<1>5. TypeOK'
  BY <1>2, <1>4, EngineKept, Types DEF TransferInv, sync, power, slot
<1>6. SplitOf(pieces'[x], io'[x]) /\ TileOf(pieces'[x], io'[x])
  <2>1. /\ io'[x].pc \in {"refused", "asleep", "splitting"}
        /\ io'[x].pc # "refused" => n <= MaxTransfer
        /\ io'[x].block = b /\ io'[x].nblks = n
        /\ io'[x].blockStart = b /\ io'[x].remaining = n /\ io'[x].offset = 0
    <3>1. io \in [Transfer -> IO]
      BY <1>4
    <3> QED BY <1>1, <3>1
  <2>2. pieces'[x] = <<>> /\ Len(<<>>) * MaxBlocks = 0 /\ DOMAIN pieces'[x] = {}
    BY <1>2, Constants
  <2>3. Len(<<>>) * MaxBlocks + n = n
    BY <1>3, <2>2
  <2> QED BY <1>3, <2>1, <2>2, <2>3 DEF SplitOf, TileOf
<1>7. Splitting' /\ Tiled'
  BY <1>2, <1>4, <1>6 DEF TransferInv, Splitting, Tiled
<1>8. CallsAreCounted' /\ HeldInOrder'
  BY <1>2 DEF TransferInv, CallsAreCounted, HeldInOrder, Issued, Made, engine, sync
<1>9. ToldAtTheEnd'
  BY <1>2, <1>4 DEF TransferInv, ToldAtTheEnd, engine
<1> QED BY <1>5, <1>7, <1>8, <1>9 DEF TransferInv

(* StopWaiting: the transfer is split from its first block, or given up.   *)
LEMMA StopWaitingTransfer ==
  ASSUME TransferInv, NEW x \in Transfer, StopWaiting(x)
  PROVE  TransferInv'
<1>1. /\ io[x].pc = "asleep"
      /\ io' = [io EXCEPT ![x].pc = IF isMachineSleeping THEN "timedOut" ELSE "splitting"]
      /\ UNCHANGED <<engine, sync, pieces, told, power, slot, panicked>>
  BY DEF StopWaiting
<1>2. /\ io'[x] \in IO /\ io \in [Transfer -> IO] /\ io' \in [Transfer -> IO]
      /\ \A y \in Transfer : y # x => io'[y] = io[y]
      /\ io'[x].pc \in {"timedOut", "splitting"}
      /\ io'[x].block = io[x].block /\ io'[x].nblks = io[x].nblks
      /\ io'[x].blockStart = io[x].blockStart /\ io'[x].remaining = io[x].remaining
      /\ io'[x].offset = io[x].offset
  <2> DEFINE g == [io[x] EXCEPT !.pc = IF isMachineSleeping THEN "timedOut" ELSE "splitting"]
  <2>1. io \in [Transfer -> IO] /\ io[x] \in IO
    BY Types DEF TransferInv
  <2>2. /\ g \in IO /\ g.pc \in {"timedOut", "splitting"}
        /\ g.block = io[x].block /\ g.nblks = io[x].nblks
        /\ g.blockStart = io[x].blockStart /\ g.remaining = io[x].remaining
        /\ g.offset = io[x].offset
    BY <2>1 DEF IO
  <2>3. io' = [io EXCEPT ![x] = g]
    BY <1>1, <2>1
  <2> HIDE DEF g
  <2> QED BY <2>1, <2>2, <2>3
<1>3. TypeOK'
  BY <1>1, <1>2, EngineKept, Types DEF TransferInv, sync, power, slot
<1>4. SplitOf(pieces'[x], io'[x]) /\ TileOf(pieces'[x], io'[x])
  <2>1. pieces'[x] = <<>> /\ pieces[x] = <<>> /\ DOMAIN pieces'[x] = {}
    BY <1>1 DEF TransferInv, Splitting, SplitOf
  <2>2. SplitOf(pieces[x], io[x])
    BY DEF TransferInv, Splitting
  <2> QED BY <1>1, <1>2, <2>1, <2>2 DEF SplitOf, TileOf
<1>5. Splitting' /\ Tiled'
  BY <1>1, <1>2, <1>4 DEF TransferInv, Splitting, Tiled
<1>6. CallsAreCounted' /\ HeldInOrder'
  BY <1>1 DEF TransferInv, CallsAreCounted, HeldInOrder, Issued, Made, engine, sync
<1>7. ToldAtTheEnd'
  BY <1>1, <1>2 DEF TransferInv, ToldAtTheEnd, engine
<1> QED BY <1>3, <1>5, <1>6, <1>7 DEF TransferInv

(* The next piece of a transfer joins those before it.                     *)
LEMMA IssueTransfer ==
  ASSUME TransferInv, NEW x \in Transfer, io[x].pc \in {"splitting", "waiting"},
         Issue(x), UNCHANGED <<sync, told, power, slot, panicked>>,
         NEW r \in Request, r = NextPiece(x), Server!TypeOK', answer[r] # "pending",
         \A q \in Request : q # r => answer'[q] = answer[q],
         answer'[r] = "pending", outstanding' = Append(outstanding, r)
  PROVE  TransferInv'
<1>0. PICK f, p, count, rest :
        /\ f = io[x] /\ p = pieces[x] /\ count = PieceOf(f.remaining)
        /\ rest = f.remaining - count /\ r = <<x, Len(p) + 1>>
  BY DEF NextPiece
<1>1. /\ f.pc \in {"splitting", "waiting"}
      /\ pieces' = [pieces EXCEPT ![x] = Append(p,
           [start |-> f.blockStart, count |-> count, offset |-> f.offset,
            completion |-> HasCompletion(rest)])]
      /\ io' = [io EXCEPT ![x] =
           [f EXCEPT !.blockStart = @ + count, !.remaining = rest,
                     !.offset = NextOffset(@, count),
                     !.pc = IF rest > 0 THEN "splitting" ELSE "accepted"]]
      /\ UNCHANGED <<sync, told, power, slot, panicked>>
  BY <1>0 DEF Issue
<1>2. /\ TypeOK /\ Server!TypeOK /\ p \in Seq(Piece) /\ f \in IO /\ Len(p) \in Nat
      /\ pieces \in [Transfer -> Seq(Piece)] /\ io \in [Transfer -> IO]
      /\ SplitOf(p, f) /\ TileOf(p, f)
  BY <1>0, Types DEF TransferInv, Splitting, Tiled
<1>3. r[1] = x /\ r[2] = Len(p) + 1 /\ x \notin Thread
  BY <1>0, Requests
<1>a. PICK piece : piece = [start |-> f.blockStart, count |-> count, offset |-> f.offset,
                            completion |-> HasCompletion(rest)]
  OBVIOUS
<1>b. PICK g : g = [f EXCEPT !.blockStart = @ + count, !.remaining = rest,
                             !.offset = NextOffset(@, count),
                             !.pc = IF rest > 0 THEN "splitting" ELSE "accepted"]
  OBVIOUS
<1>c. PICK q : q = Append(p, piece)
  OBVIOUS
<1>4. /\ pieces' = [pieces EXCEPT ![x] = q] /\ io' = [io EXCEPT ![x] = g]
      /\ UNCHANGED panicked
  BY <1>1, <1>a, <1>b, <1>c
<1>5. /\ f.remaining \in Nat /\ f.blockStart \in Nat /\ f.offset \in Nat
      /\ f.block \in Starts \cup {0} /\ f.nblks \in Sizes \cup {0} /\ f.remaining > 0
  BY <1>1, <1>2 DEF IO, SplitOf
<1>6. /\ count \in 1..MaxBlocks /\ count \in Nat /\ rest \in Nat
      /\ count + rest = f.remaining
      /\ rest > 0 => count = MaxBlocks
  <2>1. count = IF f.remaining > MaxBlocks THEN MaxBlocks ELSE f.remaining
    BY <1>0 DEF PieceOf
  <2>2. rest = f.remaining - count
    BY <1>0
  <2> QED BY <1>5, <2>1, <2>2, Constants
<1>7. count * BlockSize \in Nat /\ NextOffset(f.offset, count) = f.offset + count * BlockSize
  BY <1>6, Constants DEF NextOffset
<1>8. /\ piece \in Piece /\ piece.start = f.blockStart /\ piece.count = count
      /\ piece.offset = f.offset /\ (piece.completion <=> rest = 0)
  BY <1>a, <1>5, <1>6 DEF Piece, HasCompletion
<1>9. /\ g \in IO /\ g.blockStart = f.blockStart + count /\ g.remaining = rest
      /\ g.offset = f.offset + count * BlockSize /\ g.block = f.block /\ g.nblks = f.nblks
      /\ g.pc = IF rest > 0 THEN "splitting" ELSE "accepted"
  <2>1. PICK off : off = f.offset + count * BlockSize /\ off \in Nat
    BY <1>5, <1>7
  <2>2. g = [f EXCEPT !.blockStart = f.blockStart + count, !.remaining = rest,
                      !.offset = off, !.pc = IF rest > 0 THEN "splitting" ELSE "accepted"]
    BY <1>1, <1>b, <1>7, <2>1
  <2>3. f.blockStart + count \in Nat
    BY <1>5, <1>6
  <2>4. /\ g \in IO /\ g.blockStart = f.blockStart + count /\ g.remaining = rest
        /\ g.offset = off /\ g.block = f.block /\ g.nblks = f.nblks
        /\ g.pc = IF rest > 0 THEN "splitting" ELSE "accepted"
    BY <1>2, <1>6, <2>1, <2>2, <2>3 DEF IO
  <2> QED BY <2>1, <2>4
<1>10. q \in Seq(Piece) /\ Len(q) = Len(p) + 1 /\ SplitOf(q, g) /\ TileOf(q, g)
  <2>1. q \in Seq(Piece) /\ Len(q) = Len(p) + 1
    BY <1>2, <1>c, <1>8, Joined
  <2>2. SplitOf(q, g) /\ TileOf(q, g)
    <3>1. rest > 0 => count = MaxBlocks
      BY <1>6
    <3> QED BY <1>1, <1>2, <1>c, <1>6, <1>8, <1>9, <3>1, PieceFollows
  <2> QED BY <2>1, <2>2
<1>11. /\ pieces' \in [Transfer -> Seq(Piece)] /\ io' \in [Transfer -> IO]
      /\ pieces'[x] = q /\ io'[x] = g
      /\ \A y \in Transfer : y # x => pieces'[y] = pieces[y] /\ io'[y] = io[y]
  BY <1>2, <1>4, <1>9, <1>10
<1>12. TypeOK' /\ CallsAreCounted'
  BY <1>1, <1>2, <1>4, <1>11, Types
  DEF TransferInv, CallsAreCounted, sync, power, slot
<1>13. Splitting' /\ Tiled'
  BY <1>10, <1>11 DEF TransferInv, Splitting, Tiled
<1>14. HeldInOrder'
  <2>1. \A y \in Request : Issued(y) => Issued(y)'
    <3>1. \A y \in Transfer : Len(pieces[y]) \in Nat /\ Len(pieces'[y]) \in Nat
                              /\ Len(pieces[y]) <= Len(pieces'[y])
      <4>1. \A y \in Transfer : Len(pieces[y]) \in Nat
        BY <1>2
      <4>2. Len(pieces'[x]) = Len(pieces[x]) + 1
        BY <1>0, <1>10, <1>11
      <4>3. \A y \in Transfer : y # x => Len(pieces'[y]) = Len(pieces[y])
        BY <1>11
      <4> QED BY <4>1, <4>2, <4>3
    <3>2. \A u \in Thread : Made(u)' = Made(u)
      BY <1>1 DEF Made, sync
    <3>3. ASSUME NEW y \in Request, Issued(y) PROVE Issued(y)'
      <4>1. CASE y[1] \in Thread
        BY <3>2, <3>3, <4>1 DEF Issued
      <4>2. CASE y[1] \notin Thread
        <5>1. y[1] \in Transfer /\ y[2] \in Nat /\ y[2] <= Len(pieces[y[1]])
          BY <3>3, <4>2, Requests DEF Issued
        <5> QED BY <3>1, <4>2, <5>1 DEF Issued
      <4> QED BY <4>1, <4>2
    <3> QED BY <3>3
  <2>2. Issued(r)'
    BY <1>2, <1>3, <1>10, <1>11 DEF Issued
  <2>3. \A y \in Request : Issued(y) /\ y[1] = r[1] => y[2] < r[2]
    BY <1>0, <1>2, <1>3, Requests DEF Issued
  <2> QED BY <1>2, <1>3, <2>1, <2>2, <2>3, HeldJoined DEF TransferInv
<1>15. ToldAtTheEnd'
  <2>1. told[x] = "none" /\ told' = told
    BY <1>0, <1>1 DEF TransferInv, ToldAtTheEnd
  <2>2. \A i \in DOMAIN outstanding' : outstanding'[i] = r
           \/ (i \in DOMAIN outstanding /\ outstanding'[i] = outstanding[i])
    <3>1. outstanding \in Seq(Request)
      BY <1>2 DEF Server!TypeOK
    <3>2. /\ DOMAIN outstanding' = DOMAIN outstanding \cup {Len(outstanding) + 1}
          /\ \A i \in DOMAIN outstanding : outstanding'[i] = outstanding[i]
          /\ outstanding'[Len(outstanding) + 1] = r
      BY <1>3, <3>1, Joined
    <3> QED BY <3>2, Zenon
  <2>3. ASSUME NEW y \in Transfer, told'[y] # "none"
        PROVE  io'[y].pc = "accepted" /\ \A i \in DOMAIN outstanding' : outstanding'[i][1] # y
    <3>1. /\ y # x /\ io[y].pc = "accepted"
          /\ \A i \in DOMAIN outstanding : outstanding[i][1] # y
      BY <2>1, <2>3 DEF TransferInv, ToldAtTheEnd
    <3> QED BY <1>3, <1>11, <2>2, <3>1
  <2> QED BY <2>3 DEF ToldAtTheEnd
<1> QED BY <1>12, <1>13, <1>14, <1>15 DEF TransferInv

(* SubmitPiece: the engine takes the next piece, has it wait for a command *)
(* to be free, or refuses it; in these cases nothing is issued.            *)
LEMMA SubmitPieceTransfer ==
  ASSUME TransferInv, NEW x \in Transfer, SubmitPiece(x)
  PROVE  TransferInv'
<1>0. PICK r : r = NextPiece(x)
  OBVIOUS
<1>1. /\ io[x].pc = "splitting"
      /\ Server!Submit(r, outstanding, Server!Room, answer)
      /\ CASE answer'[r] = "NoMedia" -> panicked' = TRUE /\ UNCHANGED blocks
           [] answer'[r] = "waiting" ->
                /\ io' = [io EXCEPT ![x].pc = "waiting"]
                /\ UNCHANGED <<pieces, panicked>>
           [] OTHER -> Issue(x) /\ UNCHANGED panicked
      /\ UNCHANGED <<sync, told, power, slot>>
  BY <1>0 DEF SubmitPiece, doAsyncCommand
<1>2. /\ TypeOK /\ Server!TypeOK /\ pieces[x] \in Seq(Piece) /\ io[x] \in IO
      /\ io \in [Transfer -> IO] /\ SplitOf(pieces[x], io[x])
      /\ TileOf(pieces[x], io[x])
  BY Types DEF TransferInv, Splitting, Tiled
<1>3. r \in Request
  BY <1>0, <1>1, <1>2, PieceLeft, Requests DEF NextPiece
<1>4. /\ Server!TypeOK' /\ answer[r] = "none"
      /\ \A q \in Request : q # r => answer'[q] = answer[q]
      /\ \/ answer'[r] = "pending" /\ outstanding' = Append(outstanding, r)
         \/ answer'[r] \in {"NoMedia", "waiting"} /\ outstanding' = outstanding
  BY <1>1, <1>2, <1>3, SubmitEffect
<1>5. CASE answer'[r] = "pending" /\ outstanding' = Append(outstanding, r)
  <2>1. Issue(x) /\ UNCHANGED panicked
    BY <1>1, <1>5
  <2> QED BY <1>0, <1>1, <1>3, <1>4, <1>5, <2>1, IssueTransfer
<1>6. ASSUME outstanding' = outstanding, UNCHANGED pieces PROVE HeldInOrder'
  <2>1. \A q \in Request : Issued(q) => Issued(q)'
    BY <1>1, <1>6 DEF Issued, Made, sync
  <2>2. \A q \in Request : answer[q] = "pending" => answer'[q] = answer[q]
    BY <1>4
  <2> QED BY <1>2, <1>6, <2>1, <2>2, HeldKept DEF TransferInv
<1>7. CASE answer'[r] = "NoMedia" /\ outstanding' = outstanding
  <2>1. panicked' = TRUE /\ UNCHANGED blocks
    BY <1>1, <1>7
  <2>2. TypeOK' /\ CallsAreCounted' /\ ToldAtTheEnd'
    BY <1>1, <1>2, <1>4, <1>7, <2>1, Types
    DEF TransferInv, CallsAreCounted, ToldAtTheEnd, sync, power, slot, blocks
  <2> QED BY <1>6, <1>7, <2>1, <2>2, BlocksKept DEF TransferInv, blocks
<1>8. CASE answer'[r] = "waiting" /\ outstanding' = outstanding
  <2>1. io' = [io EXCEPT ![x].pc = "waiting"] /\ UNCHANGED <<pieces, panicked>>
    BY <1>1, <1>8
  <2>2. /\ io'[x] \in IO /\ io' \in [Transfer -> IO] /\ io'[x].pc = "waiting"
        /\ io'[x].block = io[x].block /\ io'[x].nblks = io[x].nblks
        /\ io'[x].blockStart = io[x].blockStart /\ io'[x].remaining = io[x].remaining
        /\ io'[x].offset = io[x].offset
        /\ \A y \in Transfer : y # x => io'[y] = io[y]
    <3> DEFINE g == [io[x] EXCEPT !.pc = "waiting"]
    <3>1. /\ g \in IO /\ g.pc = "waiting"
          /\ g.block = io[x].block /\ g.nblks = io[x].nblks
          /\ g.blockStart = io[x].blockStart /\ g.remaining = io[x].remaining
          /\ g.offset = io[x].offset
      BY <1>2 DEF IO
    <3>2. io' = [io EXCEPT ![x] = g]
      BY <1>2, <2>1
    <3> HIDE DEF g
    <3> QED BY <1>2, <3>1, <3>2
  <2>3. TypeOK' /\ CallsAreCounted'
    BY <1>1, <1>2, <1>4, <2>1, <2>2, Types
    DEF TransferInv, CallsAreCounted, sync, power, slot
  <2>4. SplitOf(pieces[x], io'[x])
    BY <1>1, <1>2, <2>2 DEF SplitOf
  <2>5. TileOf(pieces[x], io'[x])
    BY <1>1, <1>2, <2>2 DEF TileOf
  <2>6. Splitting' /\ Tiled'
    BY <2>1, <2>2, <2>4, <2>5 DEF TransferInv, Splitting, Tiled
  <2>7. ToldAtTheEnd'
    BY <1>1, <1>8, <2>2 DEF TransferInv, ToldAtTheEnd
  <2> QED BY <1>6, <1>8, <2>1, <2>3, <2>6, <2>7 DEF TransferInv
<1> QED BY <1>4, <1>5, <1>7, <1>8

(* PieceGetsCommand: the engine takes a piece that had to wait.            *)
LEMMA PieceGetsCommandTransfer ==
  ASSUME TransferInv, NEW x \in Transfer, PieceGetsCommand(x)
  PROVE  TransferInv'
<1>1. /\ io[x].pc = "waiting" /\ getCommandWakes(NextPiece(x)) /\ Issue(x)
      /\ UNCHANGED <<sync, told, power, slot, panicked>>
  BY DEF PieceGetsCommand
<1>2. /\ Server!TypeOK /\ pieces[x] \in Seq(Piece) /\ io[x] \in IO
      /\ SplitOf(pieces[x], io[x])
  BY Types DEF TransferInv, Splitting
<1>3. PICK r \in Request : r = NextPiece(x)
  BY <1>1, <1>2, PieceLeft, Requests DEF NextPiece
<1>4. /\ Server!TypeOK' /\ answer[r] = "waiting"
      /\ \A q \in Request : q # r => answer'[q] = answer[q]
      /\ answer'[r] = "pending" /\ outstanding' = Append(outstanding, r)
  BY <1>1, <1>2, <1>3, WakesEffect
<1> QED BY <1>1, <1>3, <1>4, IssueTransfer

(* The storage family is told of a transfer by its last command, which no  *)
(* other command of the transfer follows.                                  *)
LEMMA ReplyTransfer ==
  ASSUME TransferInv, NEW v \in Verdict, NEW rest \in {Tail(outstanding), <<>>},
         Reply(v, rest), UNCHANGED blocks,
         isMachineSleeping' \in BOOLEAN, cardPresent' \in BOOLEAN, removal' \in BOOLEAN,
         panicked' \in BOOLEAN, events' \in 0..MaxEvents, sleeps' \in 0..MaxSleeps
  PROVE  TransferInv'
<1>0. PICK r : r = Head(outstanding)
  OBVIOUS
<1>1. /\ outstanding # <<>> /\ Tells(v, rest) /\ UNCHANGED <<returned, pieces, io>>
      /\ IF r[1] \in Thread
         THEN Awaken /\ syncCommandResult' = v /\ told' = told
         ELSE /\ UNCHANGED <<isSleepingSyncCommand, syncCommandResult, pc>>
              /\ told' = IF pieces[r[1]][r[2]].completion
                         THEN [told EXCEPT ![r[1]] = v] ELSE told
  BY <1>0 DEF Reply, Complete, StoreResult, Ends, Tells, blocks
<1>a. /\ pc' \in [Thread -> Place] /\ isSleepingSyncCommand' \in BOOLEAN
      /\ \A u \in Thread : \/ pc'[u] = pc[u]
                           \/ {pc[u], pc'[u]} \subseteq Taken \ {"idle"}
  <2>1. /\ pc \in [Thread -> Place] /\ {"asleep", "look"} \subseteq Taken \ {"idle"}
        /\ "look" \in Place /\ isSleepingSyncCommand \in BOOLEAN
    BY Types DEF TransferInv, Taken, Place
  <2>2. CASE UNCHANGED pc
    BY <1>1, <2>1, <2>2 DEF Awaken
  <2>3. CASE \E t \in Sleepers : pc' = [pc EXCEPT ![t] = "look"]
    <3>1. PICK t \in Thread : pc[t] = "asleep" /\ pc' = [pc EXCEPT ![t] = "look"]
      BY <2>3 DEF Sleepers
    <3>2. isSleepingSyncCommand' \in BOOLEAN
      BY <1>1, <2>1 DEF Awaken
    <3> QED BY <2>1, <3>1, <3>2
  <2> QED BY <1>1, <2>2, <2>3 DEF Awaken
<1>b. \A u \in Thread : Made(u)' = Made(u)
  BY <1>1, <1>a DEF Made
<1>2. /\ Server!TypeOK /\ Server!TypeOK' /\ r \in Request /\ r = outstanding[1]
      /\ 1 \in DOMAIN outstanding
      /\ \A i \in DOMAIN outstanding' :
           /\ i \in Nat \ {0} /\ i + 1 \in DOMAIN outstanding
           /\ outstanding'[i] = outstanding[i + 1]
      /\ \A i \in DOMAIN outstanding : outstanding[i] \in Request
  <2>1. Server!TypeOK
    BY Types DEF TransferInv
  <2>2. /\ Server!TypeOK' /\ r \in Request /\ r = outstanding[1]
        /\ 1 \in DOMAIN outstanding
        /\ \A i \in DOMAIN outstanding' :
             i + 1 \in DOMAIN outstanding /\ outstanding'[i] = outstanding[i + 1]
        /\ DOMAIN outstanding' \subseteq Nat \ {0}
    BY <1>0, <1>1, <2>1, TellEffect
  <2>3. \A i \in DOMAIN outstanding : outstanding[i] \in Request
    BY <2>1 DEF Server!TypeOK
  <2> QED BY <2>1, <2>2, <2>3
<1>3. HeldInOrder'
  BY <1>1, <1>2, <1>b, HeldTold DEF TransferInv
<1>4. told \in [Transfer -> Verdict \cup {"none"}] /\ pieces \in [Transfer -> Seq(Piece)]
  BY Types DEF TransferInv
<1>5. told' \in [Transfer -> Verdict \cup {"none"}]
  BY <1>1, <1>2, <1>4, Requests
<1>6. TypeOK' /\ CallsAreCounted'
  <2>1. syncCommandResult' \in Verdict
    BY <1>1, Types DEF TransferInv
  <2>2. TypeOK'
    BY <1>1, <1>2, <1>a, <1>5, <2>1, Types DEF TransferInv, blocks
  <2>3. CallsAreCounted'
    BY <1>1, <1>a DEF TransferInv, CallsAreCounted
  <2> QED BY <2>2, <2>3
<1>7. ToldAtTheEnd'
  <2>1. ASSUME NEW x \in Transfer, told'[x] # "none"
        PROVE  io[x].pc = "accepted" /\ \A i \in DOMAIN outstanding' : outstanding'[i][1] # x
    <3>1. CASE told[x] # "none"
      BY <1>2, <3>1 DEF TransferInv, ToldAtTheEnd
    <3>2. CASE told[x] = "none"
      <4>1. r[1] = x /\ pieces[x][r[2]].completion
        BY <1>1, <1>4, <2>1, <3>2
      <4>2. r[2] \in DOMAIN pieces[x] /\ Len(pieces[x]) \in Nat
        <5>1. Issued(r) /\ r[1] \notin Thread /\ r[2] \in Nat \ {0}
          BY <1>2, <4>1, Requests DEF TransferInv, HeldInOrder
        <5>2. pieces[x] \in Seq(Piece)
          BY <1>4
        <5> QED BY <4>1, <5>1, <5>2 DEF Issued
      <4>3. r[2] = Len(pieces[x]) /\ io[x].pc = "accepted"
        BY <4>1, <4>2 DEF TransferInv, Tiled, TileOf
      <4>4. ASSUME NEW i \in DOMAIN outstanding', outstanding'[i][1] = x PROVE FALSE
        <5>1. PICK q \in Request : q = outstanding[i + 1] /\ q[1] = x /\ Issued(q)
          BY <1>2, <4>4 DEF TransferInv, HeldInOrder
        <5>2. r[2] < q[2]
          BY <1>2, <4>1, <5>1 DEF TransferInv, HeldInOrder
        <5>3. q[2] <= Len(pieces[x]) /\ q[2] \in Nat
          BY <4>1, <5>1, Requests DEF Issued
        <5> QED BY <4>2, <4>3, <5>2, <5>3
      <4> QED BY <4>3, <4>4
    <3> QED BY <3>1, <3>2
  <2> QED BY <1>1, <2>1 DEF ToldAtTheEnd
<1> QED BY <1>3, <1>6, <1>7, BlocksKept DEF TransferInv

(* The invariant starts out true, and no step breaks it.                   *)
LEMMA InitTransfer ==
  Init => TransferInv
<1> SUFFICES ASSUME Init PROVE TransferInv
  OBVIOUS
<1>1. Server!TypeOK /\ outstanding = <<>> /\ DOMAIN outstanding = {}
  BY DEF Init, Server!Init, Server!TypeOK, Server!Answer
<1>2. TypeOK
  <2>1. 0 \in 0..MaxEvents /\ 0 \in 0..MaxSleeps
    BY Constants
  <2>2. "Success" \in Verdict
    BY DEF Verdict, Server!Verdict
  <2>3. [pc |-> "new", block |-> 0, nblks |-> 0,
         blockStart |-> 0, remaining |-> 0, offset |-> 0] \in IO
    BY DEF IO
  <2>4. /\ io \in [Transfer -> IO] /\ pieces \in [Transfer -> Seq(Piece)]
        /\ told \in [Transfer -> Verdict \cup {"none"}]
        /\ pc \in [Thread -> Place] /\ returned \in [Thread -> Seq(Done)]
    BY <2>3 DEF Init, Place
  <2>5. /\ isSleepingSyncCommand = FALSE /\ isMachineSleeping = FALSE
        /\ cardPresent \in BOOLEAN /\ removal = FALSE /\ panicked = FALSE
        /\ syncCommandResult = "Success" /\ events = 0 /\ sleeps = 0
    BY DEF Init
  <2> QED BY <1>1, <2>1, <2>2, <2>4, <2>5, Types
<1>3. CallsAreCounted
  <2>1. \A t \in Thread : pc[t] = "idle" /\ returned[t] = <<>>
    BY DEF Init
  <2> QED BY <2>1, Constants DEF CallsAreCounted
<1>4. HeldInOrder /\ ToldAtTheEnd
  BY <1>1 DEF Init, HeldInOrder, ToldAtTheEnd
<1>5. Splitting /\ Tiled
  BY DEF Init, Splitting, SplitOf, Tiled, TileOf
<1> QED BY <1>2, <1>3, <1>4, <1>5 DEF TransferInv

(* Every step keeps the invariant, whether or not the threads overlap.     *)
LEMMA StepTransfer ==
  ASSUME TransferInv, [Next]_vars
  PROVE  TransferInv'
<1>1. CASE \E t \in Thread : ArmSync(t) \/ Calls(t)
  BY <1>1, ArmTransfer, SubmitTransfer, GetsCommandTransfer, FlagTransfer, EndTransfer
  DEF Calls
<1>2. CASE \E x \in Transfer : BeginIO(x) \/ Splits(x)
  BY <1>2, BeginTransfer, StopWaitingTransfer, SubmitPieceTransfer,
     PieceGetsCommandTransfer
  DEF Splits
<1>3. {"Success", "Timeout", "Aborted"} \subseteq Verdict
  BY DEF Verdict, Server!Verdict
<1>4. CASE Serve
  <2>1. PICK v \in {"Success", "Timeout"} : Reply(v, Tail(outstanding))
    BY <1>4 DEF Serve
  <2> QED BY <1>3, <1>4, <2>1, ReplyTransfer, Types DEF Serve, power, slot, TransferInv
<1>5. ASSUME UNCHANGED <<engine, blocks, told, pc, returned>>, TypeOK' PROVE TransferInv'
  BY <1>5, BlocksKept
  DEF TransferInv, CallsAreCounted, HeldInOrder, Issued, Made, ToldAtTheEnd, engine, blocks
<1>6. CASE HandleRemoval
  <2>1. CASE Reply("Aborted", <<>>)
    BY <1>3, <1>6, <2>1, ReplyTransfer, Types DEF HandleRemoval, power, TransferInv
  <2>2. CASE UNCHANGED <<engine, sync, told>>
    <3>1. TypeOK'
      BY <1>6, <2>2, EngineKept, Types DEF HandleRemoval, TransferInv, sync, blocks, power
    <3> QED BY <1>5, <1>6, <2>2, <3>1 DEF HandleRemoval, sync
  <2> QED BY <1>6, <2>1, <2>2 DEF HandleRemoval
<1>7. CASE MissRemoval
  <2>1. TypeOK'
    BY <1>7, EngineKept, Types DEF MissRemoval, TransferInv, sync, blocks, power
  <2> QED BY <1>5, <1>7, <2>1 DEF MissRemoval, sync
<1>8. CASE CardComesOrGoes
  <2>1. /\ events' \in 0..MaxEvents /\ cardPresent' \in BOOLEAN /\ removal' \in BOOLEAN
        /\ UNCHANGED <<engine, sync, blocks, told, power, panicked>>
    BY <1>8, Constants, Types DEF CardComesOrGoes, TransferInv
  <2>2. TypeOK'
    BY <2>1, EngineKept, Types DEF TransferInv, sync, blocks, power
  <2> QED BY <1>5, <2>1, <2>2 DEF sync
<1>9. CASE setPowerState
  <2>1. /\ sleeps' \in 0..MaxSleeps /\ isMachineSleeping' \in BOOLEAN
        /\ UNCHANGED <<engine, sync, blocks, told, slot, panicked>>
    BY <1>9, Constants, Types DEF setPowerState, TransferInv
  <2>2. TypeOK'
    BY <2>1, EngineKept, Types DEF TransferInv, sync, blocks, slot
  <2> QED BY <1>5, <2>1, <2>2 DEF sync
<1>10. CASE UNCHANGED vars
  <2>1. TypeOK'
    BY <1>10, EngineKept, Types DEF vars, TransferInv, sync, blocks, power, slot
  <2> QED BY <1>5, <1>10, <2>1 DEF vars, sync
<1> QED BY <1>1, <1>2, <1>4, <1>6, <1>7, <1>8, <1>9, <1>10 DEF Next

------------------------------------------------------------------------------
(* The theorems.                                                           *)

(* What the engine holds of the transfers, and what was issued of them.    *)
THEOREM Transfers == Spec => []TransferInv
<1>1. TransferInv /\ [Next]_vars => TransferInv'
  BY StepTransfer
<1> QED BY <1>1, InitTransfer, PTL DEF Spec

(* Every field keeps its type, also when the threads overlap.              *)
THEOREM TypeCorrect == Spec => []TypeOK
<1>1. TransferInv => TypeOK
  BY DEF TransferInv
<1> QED BY <1>1, Transfers, PTL

(* doAsyncReadWrite splits every transfer into commands that tile it, on   *)
(* the card and in the buffer, with one completion, whatever its length,   *)
(* also when cards go and threads overlap.                                 *)
THEOREM PiecesTileAlways == Spec => []PiecesTile
<1>1. TransferInv => PiecesTile
  BY TiledIsPiecesTile DEF TransferInv
<1> QED BY <1>1, Transfers, PTL

(* The engine holds no command of a transfer that the storage family was   *)
(* told the end of: the buffer is free, also after removals.               *)
THEOREM BuffersAreFreeAlways == Spec => []BuffersAreFree
<1>1. ASSUME TransferInv PROVE BuffersAreFree
  <2>1. \A i \in DOMAIN outstanding : outstanding[i] \in Request
    BY <1>1, Types DEF TransferInv, Server!TypeOK
  <2> QED BY <1>1, <2>1 DEF TransferInv, ToldAtTheEnd, BuffersAreFree
<1> QED BY <1>1, Transfers, PTL
=============================================================================
