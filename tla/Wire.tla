-------------------------------- MODULE Wire ---------------------------------
(***************************************************************************)
(* How requests and replies travel (SendRequest of client.c, treat of      *)
(* server.c).  Both ends send a text with one send() and take whatever ONE *)
(* recv() returns for a whole text, although TCP carries bytes, and a page *)
(* of ten messages of up to 999 characters does not fit in the buffer of   *)
(* 8192.  What the texts say is in the modules Messenger and Tokenizer;    *)
(* here a reply is a sequence of pieces, and Buffer pieces fill a buffer.  *)
(***************************************************************************)
EXTENDS Integers, Sequences

CONSTANTS
  Client,
  Buffer,       \* sizeof serverResponse, in pieces
  Lengths,      \* how long replies are, in pieces
  Split,        \* the clients whose connection may deliver a text in parts
  MayBeKilled,  \* TRUE: a client may be killed while it waits for a reply
  MaxRequests   \* bound: the requests of one client

ASSUME WireAssumption ==
  /\ Buffer \in Nat \ {0}
  /\ Lengths \subseteq Nat \ {0}
  /\ Split \subseteq Client
  /\ MayBeKilled \in BOOLEAN
  /\ MaxRequests \in Nat

VARIABLES
  client,     \* client[c]: "menu" waits for a key, "recv" for a reply; "quit", "killed"
  asked,      \* asked[c]: the number of requests sent, which numbers them
  answer,     \* answer[c]: what the last request was given as its reply, <<>> for nothing
  toServer,   \* toServer[c]: the requests in the socket of the server
  treat,      \* treat[c]: the next call of the thread of c, "failed" after a recv error
  taken,      \* taken[c]: the requests in clientRequest; the first one is answered
  toClient,   \* toClient[c]: the pieces in the socket of the client, or on the way
  line,       \* line[c]: "open", or at the server's end "closed" by the client,
              \* "reset" (an error not yet reported) or "broken"
  down,       \* the server process was killed by SIGPIPE
  long        \* history: long[c], a reply was sent that one recv may not take whole

vars == <<client, asked, answer, toServer, treat, taken, toClient, line, down, long>>

clientVars == <<client, asked, answer>>
serverVars == <<treat, taken, down, long>>

\* Piece i of n of the reply to a request; a reply is all its pieces.
Piece == [of : Nat, part : Nat, total : Nat]
Reply(request, n) == [i \in 1 .. n |-> [of |-> request, part |-> i, total |-> n]]

\* The longest reply that client c is sure to take whole.
Limit(c) == IF c \in Split THEN 1 ELSE Buffer

\* The type of every variable.  A thread has requests in its buffer just when it
\* owes a reply: the buffer is cleared with every answer.
TypeOK ==
  /\ client \in [Client -> {"menu", "recv", "quit", "killed"}]
  /\ asked \in [Client -> 0 .. MaxRequests]
  /\ answer \in [Client -> Seq(Piece)]
  /\ toServer \in [Client -> Seq(Nat)]
  /\ treat \in [Client -> {"recv", "send", "failed", "off"}]
  /\ taken \in [Client -> Seq(Nat)]
  /\ toClient \in [Client -> Seq(Piece)]
  /\ line \in [Client -> {"open", "closed", "reset", "broken"}]
  /\ down \in BOOLEAN
  /\ long \in [Client -> BOOLEAN]
  /\ \A c \in Client : treat[c] = "send" <=> taken[c] # <<>>

Init ==
  /\ client = [c \in Client |-> "menu"]
  /\ asked = [c \in Client |-> 0]
  /\ answer = [c \in Client |-> <<>>]
  /\ toServer = [c \in Client |-> <<>>]
  /\ treat = [c \in Client |-> "recv"]
  /\ taken = [c \in Client |-> <<>>]
  /\ toClient = [c \in Client |-> <<>>]
  /\ line = [c \in Client |-> "open"]
  /\ down = FALSE
  /\ long = [c \in Client |-> FALSE]

-----------------------------------------------------------------------------
(* The client: SendRequest, and the ends of the program.                   *)

\* send(): a request is short, and the bytes stay in order.
SendRequest(c) ==
  /\ client[c] = "menu"
  /\ asked[c] < MaxRequests
  /\ client' = [client EXCEPT ![c] = "recv"]
  /\ asked' = [asked EXCEPT ![c] = @ + 1]
  /\ answer' = [answer EXCEPT ![c] = <<>>]
  /\ toServer' = [toServer EXCEPT ![c] = Append(@, asked[c] + 1)]
  /\ UNCHANGED <<serverVars, toClient, line>>

\* Mutant of Takes: recv(..., sizeof serverResponse - 1), to keep room for a NUL.
TakesLess(c) ==
  LET full == IF Len(toClient[c]) < Buffer THEN Len(toClient[c]) ELSE Buffer - 1
  IN  IF c \in Split THEN 1 .. full ELSE {full}

\* How many pieces one recv() of client c may return.
Takes(c) ==
  LET full == IF Len(toClient[c]) < Buffer THEN Len(toClient[c]) ELSE Buffer
  IN  IF c \in Split THEN 1 .. full ELSE {full}

\* recv(), and whatever it returns is parsed as the reply.
ReceiveReply(c) ==
  /\ client[c] = "recv"
  /\ toClient[c] # <<>>
  /\ \E n \in Takes(c) :
       /\ answer' = [answer EXCEPT ![c] = SubSeq(toClient[c], 1, n)]
       /\ toClient' = [toClient EXCEPT ![c] = SubSeq(@, n + 1, Len(@))]
  /\ client' = [client EXCEPT ![c] = "menu"]
  /\ UNCHANGED <<serverVars, asked, toServer, line>>

\* The socket is closed.  With bytes in it that nobody has read, TCP resets the
\* connection; bytes that are still on the way do not count.
Hangup(c, how) ==
  /\ client' = [client EXCEPT ![c] = how]
  /\ \/ toClient[c] # <<>> /\ line' = [line EXCEPT ![c] = "reset"]
     \/ (toClient[c] = <<>> \/ c \in Split) /\ line' = [line EXCEPT ![c] = "closed"]
  /\ UNCHANGED <<serverVars, asked, answer, toServer, toClient>>

Quit(c) == client[c] = "menu" /\ Hangup(c, "quit")

Kill(c) == MayBeKilled /\ client[c] = "recv" /\ Hangup(c, "killed")

\* The server has died: recv() returns 0, and the client exits.
ServerGone(c) ==
  /\ down
  /\ client[c] = "recv"
  /\ toClient[c] = <<>>
  /\ Hangup(c, "quit")

-----------------------------------------------------------------------------
(* The thread of client c: treat().                                        *)

\* Mutant of ReceiveRequest: what holds more than one request is thrown away.
OneAtATime(c) ==
  /\ treat[c] = "recv" /\ ~down
  /\ toServer[c] # <<>>
  /\ taken' = [taken EXCEPT ![c] = IF Len(toServer[c]) = 1 THEN toServer[c] ELSE <<>>]
  /\ toServer' = [toServer EXCEPT ![c] = <<>>]
  /\ treat' = [treat EXCEPT ![c] = IF Len(toServer[c]) = 1 THEN "send" ELSE "recv"]
  /\ UNCHANGED <<clientVars, toClient, line, down, long>>

\* recv(): all requests that have arrived; the parser looks at the first.
ReceiveRequest(c) ==
  /\ treat[c] = "recv" /\ ~down
  /\ toServer[c] # <<>>
  /\ \E n \in 1 .. Len(toServer[c]) :
       /\ n = Len(toServer[c]) \/ c \in Split
       /\ taken' = [taken EXCEPT ![c] = SubSeq(toServer[c], 1, n)]
       /\ toServer' = [toServer EXCEPT ![c] = SubSeq(@, n + 1, Len(@))]
  /\ treat' = [treat EXCEPT ![c] = "send"]
  /\ UNCHANGED <<clientVars, toClient, line, down, long>>

\* Mutant of ReceiveEnd: 0 is handled like -1.
EndIsError(c) ==
  /\ treat[c] = "recv" /\ ~down
  /\ toServer[c] = <<>>
  /\ line[c] \in {"closed", "broken"}
  /\ treat' = [treat EXCEPT ![c] = "failed"]
  /\ line' = [line EXCEPT ![c] = "broken"]
  /\ UNCHANGED <<clientVars, toServer, taken, toClient, down, long>>

\* recv() returns 0.
ReceiveEnd(c) ==
  /\ treat[c] = "recv" /\ ~down
  /\ toServer[c] = <<>>
  /\ line[c] \in {"closed", "broken"}
  /\ treat' = [treat EXCEPT ![c] = "off"]
  /\ UNCHANGED <<clientVars, toServer, taken, toClient, line, down, long>>

\* recv() returns -1: the reset is reported once, and a 500 is to be sent.
ReceiveFails(c) ==
  /\ treat[c] = "recv" /\ ~down
  /\ toServer[c] = <<>>
  /\ line[c] = "reset"
  /\ treat' = [treat EXCEPT ![c] = "failed"]
  /\ line' = [line EXCEPT ![c] = "broken"]
  /\ UNCHANGED <<clientVars, toServer, taken, toClient, down, long>>

\* Mutant of Answered: without memset of clientRequest.
Uncleared(c) ==
  /\ treat[c] = "send" /\ ~down
  /\ treat' = [treat EXCEPT ![c] = "recv"]
  /\ UNCHANGED <<clientVars, toServer, taken, down>>

\* The end of the round: clientRequest is cleared.
Answered(c) ==
  /\ treat[c] = "send" /\ ~down
  /\ treat' = [treat EXCEPT ![c] = "recv"]
  /\ taken' = [taken EXCEPT ![c] = <<>>]
  /\ UNCHANGED <<clientVars, toServer, down>>

SendReply(c) ==
  /\ line[c] = "open"
  /\ Answered(c)
  /\ \E n \in Lengths :
       /\ toClient' = [toClient EXCEPT ![c] = @ \o Reply(Head(taken[c]), n)]
       /\ long' = [long EXCEPT ![c] = @ \/ n > Limit(c)]
  /\ UNCHANGED line

\* send() to a client that has gone is answered with a reset; one that meets a
\* reset not yet reported fails with it, which is only printed.
SendLost(c) ==
  /\ line[c] \in {"closed", "reset"}
  /\ Answered(c)
  /\ line' = [line EXCEPT ![c] = "broken"]
  /\ UNCHANGED <<toClient, long>>

\* send(), also of the 500 for a recv error, on a connection that is known to be
\* dead: SIGPIPE, which nobody handles, ends the process with all its threads.
SendKills(c) ==
  /\ treat[c] \in {"send", "failed"} /\ ~down
  /\ line[c] = "broken"
  /\ down' = TRUE
  /\ UNCHANGED <<clientVars, toServer, treat, taken, toClient, line, long>>

-----------------------------------------------------------------------------
Waits(c) == ReceiveReply(c) \/ ServerGone(c)

Serves(c) ==
  \/ ReceiveRequest(c) \/ ReceiveEnd(c) \/ ReceiveFails(c)
  \/ SendReply(c) \/ SendLost(c) \/ SendKills(c)

Next == \E c \in Client : SendRequest(c) \/ Quit(c) \/ Kill(c) \/ Waits(c) \/ Serves(c)

\* Threads run and TCP delivers; nobody has to press a key.
Spec == Init /\ [][Next]_vars /\ \A c \in Client : WF_vars(Waits(c)) /\ WF_vars(Serves(c))

-----------------------------------------------------------------------------
(* Properties.                                                             *)

Understood(c) ==
  answer[c] # <<>> => \E n \in Lengths : answer[c] = Reply(asked[c], n)

\* What a client takes for a reply is the whole reply to its last request.
WholeReply == \A c \in Client : Understood(c)

\* As long as every reply on a connection fits in one recv, its client and its
\* thread stay in step: each answer is the whole reply to the last request, and
\* no two requests are ever run together.
InStepWhileShort ==
  \A c \in Client : ~long[c] => Understood(c) /\ Len(taken[c]) <= 1

\* A client that leaves ends its own thread and nothing else.
ServerOutlivesClients == ~down

\* The server is only ended after some client was killed while it waited, or some
\* client (not necessarily that one) was sent more than one recv takes.
KilledOrLong == down => \E c \in Client : client[c] = "killed" \/ long[c]

\* A client that waits for a reply goes on, whatever has been cut and merged before.
\* (LogEvent, which a request passes several times, is taken to return here.)
WaitEnds == \A c \in Client : client[c] = "recv" ~> client[c] # "recv"
=============================================================================
