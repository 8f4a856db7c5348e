---------------------------- MODULE MCMessenger -----------------------------
(* Constants of the runs of module Messenger.                              *)
EXTENDS Messenger, TLC

CONSTANTS t1, t2, p1, m1

Threads == {t1, t2}
Sym == Permutations(Threads)

TwoNames == {1, 2}
NoUsers == [u \in TwoNames |-> None]
BothUsers == [u \in TwoNames |-> p1]
NoMessages == <<>>

\* 1 has written to 2, who has not looked yet.
Letter(u, v) ==
  [sender |-> u, receiver |-> v, message |-> m1, read |-> 0, replyId |-> NoReply]
OneUnread == <<Letter(1, 2)>>

\* Three users and two conversations, which have been read.
ThreeNames == {1, 2, 3}
AllUsers == [u \in ThreeNames |-> p1]
Seen(m) == [m EXCEPT !.read = 1]
TwoTalks == <<Seen(Letter(2, 1)), Seen(Letter(1, 3))>>

\* A bound: 1 uses the client t1 and 3 the client t2, they log in before all else,
\* and leave only between two requests; 3 talks to 1 only.
Talking ==
  /\ client[t2].peer # 2
  /\ \A t \in Thread :
       LET u == IF t = t1 THEN 1 ELSE 3
       IN  /\ client[t].view \in {"off", "first"} \/ client[t].user = u
           /\ client[t].view = "off" => request[t] = Idle
           /\ client[t].view = "first" =>
                request[t] = Idle \/ (request[t].command = "Login" /\ request[t].user = u)
=============================================================================
