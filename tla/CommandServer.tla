---------------------------- MODULE CommandServer ----------------------------
(***************************************************************************)
(* What the command engine of EmeraldSDHCBlockStorageDevice promises to    *)
(* its callers: a server of bounded capacity that answers the requests it  *)
(* has taken one at a time, in the order it took them, each at most once,  *)
(* and keeps a request waiting only while it is full.  A caller that       *)
(* submits a request from inside an answer can put the server itself to    *)
(* sleep, for good.  CommandEngine implements it.                          *)
(***************************************************************************)
EXTENDS Naturals, Sequences

CONSTANTS Request,    \* the requests the callers may make
          Capacity    \* requests the server holds at the same time

VARIABLES outstanding,   \* requests taken and not answered, oldest first
          answer,        \* what the caller of each request has been told
          asleep         \* the server waits for itself to have room

vars == <<outstanding, answer, asleep>>

Verdict == {"Success", "Timeout", "Aborted"}
Answer  == {"none", "waiting", "pending", "NoMedia"} \cup Verdict

TypeOK == /\ outstanding \in Seq(Request)
          /\ answer \in [Request -> Answer]
          /\ asleep \in BOOLEAN

Init == /\ outstanding = <<>>
        /\ answer = [r \in Request |-> "none"]
        /\ asleep = FALSE

(* The request in whose answer the server fell asleep still takes its room.*)
Room == Len(outstanding) + (IF asleep THEN 1 ELSE 0) < Capacity

Take(r, rest, told) ==
  outstanding' = Append(rest, r) /\ answer' = [told EXCEPT ![r] = "pending"]

(* A new request joins the tail of the requests in rest, or is refused, or *)
(* has to wait when there is no room.  told is what the callers know.      *)
Submit(r, rest, room, told) ==
  /\ told[r] = "none"
  /\ \/ room /\ Take(r, rest, told)
     \/ /\ outstanding' = rest
        /\ answer' = [told EXCEPT ![r] = "NoMedia"]
     \/ /\ ~room
        /\ outstanding' = rest
        /\ answer' = [told EXCEPT ![r] = "waiting"]

Accept == /\ \E r \in Request : Submit(r, outstanding, Room, answer)
          /\ asleep' = asleep

(* A request that waited is taken.                                         *)
Resume == /\ Room
          /\ \E r \in Request : answer[r] = "waiting" /\ Take(r, outstanding, answer)
          /\ asleep' = asleep

(* The oldest request is answered, and the requests in rest are left.      *)
Told(v) == [answer EXCEPT ![Head(outstanding)] = v]

(* The completion callback may submit one more request before the server   *)
(* lets go of the one it answered and moves on to the requests in rest;    *)
(* it never does if that request has to wait.                              *)
Reply(v, rest) ==
  \/ outstanding' = rest /\ answer' = Told(v) /\ asleep' = FALSE
  \/ \E r \in Request : /\ Submit(r, rest, 1 + Len(rest) < Capacity, Told(v))
                        /\ asleep' = (answer'[r] = "waiting")

Serve == /\ outstanding # <<>> /\ ~asleep
         /\ \E v \in {"Success", "Timeout"} : Reply(v, Tail(outstanding))

(* The card is gone: the oldest request is aborted and the others are      *)
(* dropped, which leaves their callers without an answer.                  *)
Abort == /\ outstanding # <<>> /\ ~asleep
         /\ Reply("Aborted", <<>>)

Next == Accept \/ Resume \/ Serve \/ Abort

Spec == Init /\ [][Next]_vars
=============================================================================
