----------------------------- MODULE WireProofs -----------------------------
(***************************************************************************)
(* Theorems about module Wire, for all constants: any number of clients,   *)
(* of requests and of lengths, over connections of both kinds.             *)
(***************************************************************************)
EXTENDS Wire, SequenceTheorems, TLAPS

\* A client that has not left has an open connection.
Connected(c) == client[c] \in {"menu", "recv"} <=> line[c] = "open"

\* A connection whose replies were all short has one request under way, or its
\* reply, or neither.
InStep(c) ==
  /\ Understood(c)
  /\ Len(toServer[c]) + Len(taken[c]) <= 1
  /\ client[c] = "menu" => toServer[c] = <<>> /\ taken[c] = <<>> /\ toClient[c] = <<>>
  /\ client[c] = "recv" =>
       /\ answer[c] = <<>>
       /\ toServer[c] \in {<<>>, <<asked[c]>>}
       /\ taken[c] \in {<<>>, <<asked[c]>>}
       /\ toClient[c] # <<>> =>
            /\ toServer[c] = <<>> /\ taken[c] = <<>>
            /\ \E n \in Lengths : n <= Limit(c) /\ toClient[c] = Reply(asked[c], n)

\* Such a connection, when its client was not killed, is closed with nothing
\* on it.
EndsWell(c) ==
  /\ line[c] \in {"open", "closed"}
  /\ treat[c] # "failed"
  /\ client[c] = "quit" => toServer[c] = <<>> /\ taken[c] = <<>>

Inv ==
  /\ TypeOK
  /\ \A c \in Client : Connected(c)
  /\ \A c \in Client : ~long[c] => InStep(c)
  /\ \A c \in Client : ~long[c] /\ client[c] # "killed" /\ ~down => EndsWell(c)
  /\ KilledOrLong

-----------------------------------------------------------------------------
(* Replies and recv().                                                     *)

LEMMA ReplyTyping ==
  ASSUME NEW r \in Nat, NEW n \in Nat
  PROVE  Reply(r, n) \in Seq(Piece) /\ Len(Reply(r, n)) = n
BY DEF Reply, Piece

\* What recv() leaves and takes are sequences, and a whole reply is taken whole.
LEMMA TakesTyping ==
  ASSUME TypeOK, NEW c \in Client, toClient[c] # <<>>, NEW n \in Takes(c)
  PROVE  /\ n \in 1 .. Len(toClient[c])
         /\ SubSeq(toClient[c], 1, n) \in Seq(Piece)
         /\ SubSeq(toClient[c], n + 1, Len(toClient[c])) \in Seq(Piece)
<1>1. toClient[c] \in Seq(Piece) /\ Len(toClient[c]) \in Nat \ {0}
  BY DEF TypeOK
<1>2. n \in 1 .. Len(toClient[c])
  BY <1>1, WireAssumption DEF Takes, WireAssumption
<1>3. QED
  BY <1>1, <1>2

LEMMA TakesWhole ==
  ASSUME NEW c \in Client, NEW r \in Nat, NEW n \in Lengths, n <= Limit(c),
         toClient[c] = Reply(r, n), NEW k \in Takes(c)
  PROVE  /\ SubSeq(toClient[c], 1, k) = Reply(r, n)
         /\ SubSeq(toClient[c], k + 1, Len(toClient[c])) = <<>>
<1>1. n \in Nat \ {0}
  BY WireAssumption DEF WireAssumption
<1>2. Len(toClient[c]) = n /\ toClient[c] \in Seq(Piece)
  BY <1>1, ReplyTyping
<1>3. k = n
  BY <1>1, <1>2, WireAssumption DEF Takes, Limit, WireAssumption
<1>4. QED
  BY <1>1, <1>2, <1>3

LEMMA Lengthy ==
  ASSUME NEW s \in Seq(Nat)
  PROVE  Len(s) \in Nat /\ (s = <<>> <=> Len(s) = 0)
BY EmptySeq, LenProperties

LEMMA AtMostOne ==
  ASSUME NEW m \in Nat, NEW n \in Nat, m + n <= 1
  PROVE  n <= 1 /\ (n = 0 /\ m # 0 => m = 1)
OBVIOUS

\* The two parts into which a recv() divides the texts in a socket.
LEMMA Parts ==
  ASSUME NEW S, NEW s \in Seq(S), NEW n \in 1 .. Len(s)
  PROVE  /\ SubSeq(s, 1, n) \in Seq(S) /\ Len(SubSeq(s, 1, n)) = n
         /\ SubSeq(s, n + 1, Len(s)) \in Seq(S)
         /\ Len(SubSeq(s, n + 1, Len(s))) = Len(s) - n
BY SubSeqProperties

-----------------------------------------------------------------------------
(* The types.                                                              *)

LEMMA InitTypes == Init => TypeOK
<1>1. <<>> \in Seq(Nat) /\ <<>> \in Seq(Piece) /\ 0 \in 0 .. MaxRequests
  BY WireAssumption DEF WireAssumption
<1>2. SUFFICES ASSUME Init PROVE TypeOK
  OBVIOUS
<1>3. /\ answer \in [Client -> Seq(Piece)] /\ toClient \in [Client -> Seq(Piece)]
      /\ toServer \in [Client -> Seq(Nat)] /\ taken \in [Client -> Seq(Nat)]
  BY <1>1, <1>2 DEF Init
<1>4. \A c \in Client : treat[c] = "send" <=> taken[c] # <<>>
  BY <1>2 DEF Init
<1>5. QED
  BY <1>1, <1>2, <1>3, <1>4 DEF Init, TypeOK

LEMMA ClientTypes ==
  ASSUME TypeOK, NEW c \in Client,
         SendRequest(c) \/ Quit(c) \/ Kill(c) \/ Waits(c)
  PROVE  TypeOK'
<1>1. CASE SendRequest(c)
  <2>1. asked[c] + 1 \in 0 .. MaxRequests /\ asked[c] + 1 \in Nat
    BY <1>1, WireAssumption DEF SendRequest, TypeOK, WireAssumption
  <2>2. Append(toServer[c], asked[c] + 1) \in Seq(Nat)
    BY <2>1 DEF TypeOK
  <2>3. QED
    BY <1>1, <2>1, <2>2 DEF SendRequest, serverVars, TypeOK
<1>2. CASE Quit(c) \/ Kill(c) \/ ServerGone(c)
  BY <1>2 DEF Quit, Kill, ServerGone, Hangup, serverVars, TypeOK
<1>3. CASE ReceiveReply(c)
  BY <1>3, TakesTyping DEF ReceiveReply, serverVars, TypeOK
<1>4. QED
  BY <1>1, <1>2, <1>3 DEF Waits

LEMMA ServerTypes ==
  ASSUME TypeOK, NEW c \in Client, Serves(c)
  PROVE  TypeOK'
<1>1. CASE ReceiveRequest(c)
  <2>1. toServer[c] \in Seq(Nat) /\ taken \in [Client -> Seq(Nat)] /\ toServer \in [Client -> Seq(Nat)]
    BY DEF TypeOK
  <2>2. PICK n \in 1 .. Len(toServer[c]) :
          /\ taken' = [taken EXCEPT ![c] = SubSeq(toServer[c], 1, n)]
          /\ toServer' = [toServer EXCEPT ![c] = SubSeq(toServer[c], n + 1, Len(toServer[c]))]
    BY <1>1 DEF ReceiveRequest
  <2>3. /\ SubSeq(toServer[c], 1, n) \in Seq(Nat) /\ Len(SubSeq(toServer[c], 1, n)) = n
        /\ SubSeq(toServer[c], n + 1, Len(toServer[c])) \in Seq(Nat)
    BY <2>1, <2>2, Parts
  <2>4. SubSeq(toServer[c], 1, n) # <<>>
    BY <2>2, <2>3
  <2>5. /\ taken' \in [Client -> Seq(Nat)] /\ toServer' \in [Client -> Seq(Nat)]
        /\ taken'[c] # <<>> /\ \A d \in Client \ {c} : taken'[d] = taken[d]
    BY <2>1, <2>2, <2>3, <2>4
  <2>6. QED
    BY <1>1, <2>5 DEF ReceiveRequest, clientVars, TypeOK
<1>2. CASE ReceiveEnd(c) \/ ReceiveFails(c)
  BY <1>2 DEF ReceiveEnd, ReceiveFails, clientVars, TypeOK
<1>3. CASE SendReply(c)
  <2>1. taken[c] \in Seq(Nat) /\ taken[c] # <<>>
    BY <1>3 DEF SendReply, Answered, TypeOK
  <2>2. Head(taken[c]) \in Nat
    BY <2>1
  <2>3. \A n \in Lengths : toClient[c] \o Reply(Head(taken[c]), n) \in Seq(Piece)
    <3>1. TAKE n \in Lengths
    <3>2. Reply(Head(taken[c]), n) \in Seq(Piece)
      BY <2>2, ReplyTyping, WireAssumption DEF WireAssumption
    <3>3. toClient[c] \in Seq(Piece)
      BY DEF TypeOK
    <3>4. QED
      BY <3>2, <3>3
  <2>4. \A n \in Lengths : (long[c] \/ n > Limit(c)) \in BOOLEAN
    BY DEF TypeOK
  <2>5. QED
    BY <1>3, <2>3, <2>4 DEF SendReply, Answered, clientVars, TypeOK
<1>4. CASE SendLost(c)
  BY <1>4 DEF SendLost, Answered, clientVars, TypeOK
<1>5. CASE SendKills(c)
  BY <1>5 DEF SendKills, clientVars, TypeOK
<1>6. QED
  BY <1>1, <1>2, <1>3, <1>4, <1>5 DEF Serves

-----------------------------------------------------------------------------
(* One connection.                                                         *)

\* Everything of connection d is as it was.
Same(d) ==
  /\ client'[d] = client[d] /\ asked'[d] = asked[d] /\ answer'[d] = answer[d]
  /\ toServer'[d] = toServer[d] /\ treat'[d] = treat[d] /\ taken'[d] = taken[d]
  /\ toClient'[d] = toClient[d] /\ line'[d] = line[d] /\ long'[d] = long[d]

\* A step of one connection leaves the others alone, and only SendKills ends the
\* server.
LEMMA OthersSame ==
  ASSUME TypeOK, NEW c \in Client,
         SendRequest(c) \/ Quit(c) \/ Kill(c) \/ Waits(c) \/ Serves(c)
  PROVE  /\ \A d \in Client \ {c} : Same(d)
         /\ SendKills(c) \/ down' = down
<1>1. CASE SendRequest(c) \/ Quit(c) \/ Kill(c) \/ Waits(c)
  BY <1>1 DEF SendRequest, Quit, Kill, Waits, ReceiveReply, ServerGone, Hangup,
              serverVars, TypeOK, Same
<1>2. CASE ReceiveRequest(c) \/ ReceiveEnd(c) \/ ReceiveFails(c)
  BY <1>2 DEF ReceiveRequest, ReceiveEnd, ReceiveFails, clientVars, TypeOK, Same
<1>3. CASE SendReply(c) \/ SendLost(c) \/ SendKills(c)
  BY <1>3 DEF SendReply, SendLost, SendKills, Answered, clientVars, TypeOK, Same
<1>4. QED
  BY <1>1, <1>2, <1>3 DEF Serves

\* Connections stay in step, as long as they were sent short replies.
LEMMA ClientKeepsStep ==
  ASSUME Inv, TypeOK', NEW c \in Client, ~long'[c],
         SendRequest(c) \/ Quit(c) \/ Kill(c) \/ Waits(c)
  PROVE  InStep(c)' /\ Connected(c)'
<1>1. long[c] = FALSE /\ InStep(c) /\ Connected(c)
  BY DEF Inv, TypeOK, SendRequest, Quit, Kill, Waits, ReceiveReply, ServerGone, Hangup, serverVars
<1>2. CASE SendRequest(c)
  <2>1. /\ toServer'[c] = <<asked'[c]>> /\ taken'[c] = <<>> /\ toClient'[c] = <<>>
        /\ answer'[c] = <<>> /\ client'[c] = "recv" /\ line'[c] = "open"
    BY <1>1, <1>2 DEF SendRequest, serverVars, InStep, Connected, Inv, TypeOK
  <2>2. QED
    BY <2>1 DEF InStep, Understood, Connected
<1>3. CASE Quit(c) \/ Kill(c) \/ ServerGone(c)
  BY <1>1, <1>3
  DEF Quit, Kill, ServerGone, Hangup, serverVars, InStep, Understood, Connected, Inv, TypeOK
<1>4. CASE ReceiveReply(c)
  <2>1. PICK n \in Lengths : n <= Limit(c) /\ toClient[c] = Reply(asked[c], n)
    BY <1>1, <1>4 DEF ReceiveReply, InStep
  <2>2. PICK k \in Takes(c) :
          /\ answer'[c] = SubSeq(toClient[c], 1, k)
          /\ toClient'[c] = SubSeq(toClient[c], k + 1, Len(toClient[c]))
    BY <1>4 DEF ReceiveReply, Inv, TypeOK
  <2>3. asked[c] \in Nat
    BY WireAssumption DEF Inv, TypeOK, WireAssumption
  <2>4. answer'[c] = Reply(asked[c], n) /\ toClient'[c] = <<>>
    BY <2>1, <2>2, <2>3, TakesWhole
  <2>5. /\ client'[c] = "menu" /\ toServer'[c] = <<>> /\ taken'[c] = <<>>
        /\ asked'[c] = asked[c] /\ line'[c] = line[c]
    BY <1>1, <1>4 DEF ReceiveReply, serverVars, InStep, Inv, TypeOK
  <2>6. QED
    BY <1>1, <1>4, <2>4, <2>5 DEF ReceiveReply, InStep, Understood, Connected
<1>5. QED
  BY <1>2, <1>3, <1>4 DEF Waits

LEMMA ServerKeepsStep ==
  ASSUME Inv, TypeOK', NEW c \in Client, ~long'[c], Serves(c)
  PROVE  InStep(c)' /\ Connected(c)'
<1>0. long[c] => long'[c]
  <2>1. CASE SendReply(c)
    BY <2>1 DEF SendReply, Inv, TypeOK
  <2>2. CASE ~SendReply(c)
    BY <2>2 DEF Serves, ReceiveRequest, ReceiveEnd, ReceiveFails, SendLost, SendKills
  <2>3. QED
    BY <2>1, <2>2
<1>1. long[c] = FALSE /\ InStep(c) /\ Connected(c)
  BY <1>0 DEF Inv, TypeOK
<1>2. UNCHANGED clientVars
  BY DEF Serves, ReceiveRequest, ReceiveEnd, ReceiveFails, SendReply, SendLost,
         SendKills, Answered
<1>3. CASE ReceiveRequest(c)
  <2>1. taken[c] = <<>> /\ Len(toServer[c]) = 1 /\ toServer[c] \in Seq(Nat)
    <3>1. taken[c] = <<>> /\ toServer[c] # <<>> /\ toServer[c] \in Seq(Nat)
      BY <1>3 DEF ReceiveRequest, Inv, TypeOK
    <3>2. Len(toServer[c]) + Len(taken[c]) <= 1
      BY <1>1 DEF InStep
    <3>3. /\ Len(taken[c]) = 0 /\ Len(taken[c]) \in Nat
          /\ Len(toServer[c]) # 0 /\ Len(toServer[c]) \in Nat
      BY <3>1, Lengthy
    <3>4. Len(toServer[c]) = 1
      BY <3>2, <3>3, AtMostOne
    <3>5. QED
      BY <3>1, <3>4
  <2>2. /\ SubSeq(toServer[c], 1, 1) = toServer[c]
        /\ SubSeq(toServer[c], 2, 1) = <<>>
    BY <2>1
  <2>3. taken'[c] = toServer[c] /\ toServer'[c] = <<>> /\ toClient' = toClient /\ line' = line
    BY <1>3, <2>1, <2>2 DEF ReceiveRequest, Inv, TypeOK
  <2>4. Connected(c)' /\ Understood(c)'
    BY <1>1, <1>2, <2>3 DEF clientVars, InStep, Understood, Connected
  <2>5. Len(toServer'[c]) + Len(taken'[c]) <= 1
    <3>1. Len(toServer'[c]) = 0 /\ Len(taken'[c]) = 1
      BY <2>1, <2>3, Lengthy
    <3>2. QED
      BY <3>1
  <2>6. client[c] # "menu"
    BY <1>1, <2>1 DEF InStep
  <2>7. client[c] = "recv" => toClient[c] = <<>> /\ toServer[c] = <<asked[c]>>
    BY <1>1, <2>1 DEF InStep
  <2>8. QED
    BY <1>1, <1>2, <2>3, <2>4, <2>5, <2>6, <2>7 DEF clientVars, InStep
<1>4. CASE ReceiveEnd(c) \/ ReceiveFails(c) \/ SendKills(c)
  BY <1>1, <1>2, <1>4
  DEF ReceiveEnd, ReceiveFails, SendKills, clientVars, InStep, Understood, Connected, Inv, TypeOK
<1>5. CASE SendReply(c)
  <2>1. taken[c] # <<>> /\ client[c] = "recv"
    BY <1>1, <1>5 DEF SendReply, Answered, Connected, InStep, Inv, TypeOK
  <2>2. taken[c] = <<asked[c]>> /\ toServer[c] = <<>> /\ toClient[c] = <<>>
    BY <1>1, <2>1 DEF InStep, Inv, TypeOK
  <2>3. PICK n \in Lengths : /\ toClient'[c] = toClient[c] \o Reply(Head(taken[c]), n)
                             /\ long'[c] = (long[c] \/ n > Limit(c))
    BY <1>5 DEF SendReply, Inv, TypeOK
  <2>4. n \in Nat /\ Limit(c) \in Nat /\ asked[c] \in Nat
    BY WireAssumption DEF Limit, Inv, TypeOK, WireAssumption
  <2>5. n <= Limit(c)
    <3>1. ~(n > Limit(c))
      BY <2>3
    <3>2. QED
      BY <2>4, <3>1
  <2>6. toClient'[c] = Reply(asked[c], n)
    BY <2>2, <2>3, <2>4, ReplyTyping
  <2>7. /\ taken'[c] = <<>> /\ toServer'[c] = <<>> /\ line' = line
    BY <1>2, <1>5, <2>2 DEF SendReply, Answered, Inv, TypeOK
  <2>8. Limit(c)' = Limit(c)
    BY DEF Limit
  <2>9. QED
    BY <1>1, <1>2, <2>1, <2>5, <2>6, <2>7, <2>8 DEF clientVars, InStep, Understood, Connected
<1>6. CASE SendLost(c)
  BY <1>1, <1>2, <1>6 DEF SendLost, Answered, clientVars, InStep, Understood, Connected, Inv, TypeOK
<1>7. QED
  BY <1>3, <1>4, <1>5, <1>6 DEF Serves

\* A connection that was sent short replies, whose client was not killed, ends
\* without a reset.
LEMMA ClientEndsWell ==
  ASSUME Inv, NEW c \in Client, ~long'[c], client'[c] # "killed", ~down',
         SendRequest(c) \/ Quit(c) \/ Kill(c) \/ Waits(c)
  PROVE  EndsWell(c)'
<1>1. ~long[c] /\ ~down
  BY DEF SendRequest, Quit, Kill, Waits, ReceiveReply, ServerGone, Hangup, serverVars
<1>2. client[c] \in {"menu", "recv"}
  BY DEF SendRequest, Quit, Kill, Waits, ReceiveReply, ServerGone
<1>3. EndsWell(c) /\ InStep(c)
  BY <1>1, <1>2 DEF Inv
<1>4. CASE SendRequest(c) \/ ReceiveReply(c)
  BY <1>3, <1>4 DEF SendRequest, ReceiveReply, serverVars, EndsWell, Inv, TypeOK
<1>5. CASE Quit(c)
  BY <1>3, <1>5 DEF Quit, Hangup, serverVars, EndsWell, InStep, Inv, TypeOK
<1>6. CASE Kill(c)
  BY <1>6 DEF Kill, Hangup, Inv, TypeOK
<1>7. CASE ServerGone(c)
  BY <1>1, <1>7 DEF ServerGone
<1>8. QED
  BY <1>4, <1>5, <1>6, <1>7 DEF Waits

LEMMA ServerEndsWell ==
  ASSUME Inv, NEW c \in Client, ~long'[c], client'[c] # "killed", ~down', Serves(c)
  PROVE  EndsWell(c)'
<1>1. client'[c] = client[c] /\ (long[c] => long'[c]) /\ (down => down')
  <2>1. CASE SendReply(c)
    BY <2>1 DEF SendReply, Answered, clientVars, Inv, TypeOK
  <2>2. CASE ~SendReply(c)
    BY <2>2 DEF Serves, ReceiveRequest, ReceiveEnd, ReceiveFails, SendLost, SendKills,
                Answered, clientVars
  <2>3. QED
    BY <2>1, <2>2
<1>2. EndsWell(c) /\ Connected(c)
  BY <1>1 DEF Inv
<1>3. client[c] = "quit" => ~ReceiveRequest(c) /\ ~SendLost(c)
  BY <1>2 DEF EndsWell, ReceiveRequest, SendLost, Answered, Inv, TypeOK
<1>4. client[c] \in {"menu", "recv", "quit"}
  BY <1>1 DEF Inv, TypeOK
<1>5. CASE ReceiveRequest(c)
  BY <1>1, <1>2, <1>3, <1>5 DEF ReceiveRequest, EndsWell, Inv, TypeOK
<1>6. CASE ReceiveEnd(c)
  BY <1>1, <1>2, <1>6 DEF ReceiveEnd, EndsWell, Inv, TypeOK
<1>7. CASE SendReply(c)
  BY <1>1, <1>2, <1>7 DEF SendReply, Answered, EndsWell, Inv, TypeOK
<1>8. CASE ReceiveFails(c) \/ SendLost(c) \/ SendKills(c)
  BY <1>2, <1>3, <1>4, <1>8
  DEF ReceiveFails, SendLost, SendKills, EndsWell, Connected
<1>9. QED
  BY <1>5, <1>6, <1>7, <1>8 DEF Serves

\* SIGPIPE needs a connection that did not end well.
LEMMA KillsOnlyBroken ==
  ASSUME Inv, NEW c \in Client, SendKills(c)
  PROVE  client[c] = "killed" \/ long[c]
BY DEF Inv, SendKills, EndsWell

-----------------------------------------------------------------------------
(* The invariant.                                                          *)

LEMMA InitInv == Init => Inv
<1>1. SUFFICES ASSUME Init PROVE Inv
  OBVIOUS
<1>2. TypeOK /\ KilledOrLong
  BY <1>1, InitTypes DEF Init, KilledOrLong
<1>3. \A c \in Client : Connected(c) /\ InStep(c) /\ EndsWell(c)
  <2>1. TAKE c \in Client
  <2>2. Connected(c) /\ EndsWell(c) /\ Understood(c)
    BY <1>1 DEF Init, Connected, Understood, EndsWell
  <2>3. toServer[c] = <<>> /\ taken[c] = <<>> /\ toClient[c] = <<>> /\ client[c] = "menu"
    BY <1>1 DEF Init
  <2>4. Len(toServer[c]) + Len(taken[c]) <= 1
    <3>1. Len(toServer[c]) = 0 /\ Len(taken[c]) = 0
      BY <2>3, Lengthy
    <3>2. QED
      BY <3>1
  <2>5. QED
    BY <2>2, <2>3, <2>4 DEF InStep
<1>4. QED
  BY <1>2, <1>3 DEF Inv

LEMMA NextKeepsInv == Inv /\ [Next]_vars => Inv'
<1>1. CASE Inv /\ UNCHANGED vars
  BY <1>1 DEF vars, Inv, TypeOK, Connected, InStep, Understood, EndsWell, KilledOrLong, Limit
<1>2. ASSUME Inv, NEW c \in Client,
             SendRequest(c) \/ Quit(c) \/ Kill(c) \/ Waits(c) \/ Serves(c)
      PROVE  Inv'
  <2>1. TypeOK /\ TypeOK'
    BY <1>2, ClientTypes, ServerTypes DEF Inv
  <2>2. (\A d \in Client \ {c} : Same(d)) /\ (SendKills(c) \/ down' = down)
    BY <1>2, <2>1, OthersSame
  <2>3. ASSUME NEW d \in Client \ {c}
        PROVE  /\ Connected(d)' /\ (~long'[d] => InStep(d)')
               /\ ~long'[d] /\ client'[d] # "killed" /\ ~down' => EndsWell(d)'
    <3>1. Same(d) /\ (down => down') /\ Limit(d)' = Limit(d)
      BY <2>2 DEF SendKills, Limit
    <3>2. QED
      BY <1>2, <3>1 DEF Same, Inv, Connected, InStep, Understood, EndsWell
  <2>4. ~long'[c] => InStep(c)'
    BY <1>2, <2>1, ClientKeepsStep, ServerKeepsStep
  <2>5. Connected(c)'
    <3>1. Connected(c)
      BY <1>2 DEF Inv
    <3>2. CASE SendRequest(c) \/ ReceiveReply(c)
      BY <2>1, <3>1, <3>2 DEF SendRequest, ReceiveReply, TypeOK, Connected
    <3>3. CASE Quit(c) \/ Kill(c) \/ ServerGone(c)
      BY <2>1, <3>3 DEF Quit, Kill, ServerGone, Hangup, TypeOK, Connected
    <3>4. CASE Serves(c)
      <4>1. client'[c] = client[c]
        BY <3>4 DEF Serves, ReceiveRequest, ReceiveEnd, ReceiveFails, SendReply, SendLost,
                    SendKills, Answered, clientVars
      <4>2. line'[c] = "open" <=> line[c] = "open"
        BY <2>1, <3>4 DEF Serves, ReceiveRequest, ReceiveEnd, ReceiveFails, SendReply,
                          SendLost, SendKills, TypeOK
      <4>3. QED
        BY <3>1, <4>1, <4>2 DEF Connected
    <3>5. QED
      BY <1>2, <3>2, <3>3, <3>4 DEF Waits
  <2>6. ~long'[c] /\ client'[c] # "killed" /\ ~down' => EndsWell(c)'
    BY <1>2, ClientEndsWell, ServerEndsWell
  <2>7. \A d \in Client : (client[d] = "killed" => client'[d] = "killed") /\ (long[d] => long'[d])
    <3>1. \A d \in Client \ {c} : (client[d] = "killed" => client'[d] = "killed") /\ (long[d] => long'[d])
      BY <2>2 DEF Same
    <3>2. CASE SendReply(c)
      BY <2>1, <3>1, <3>2 DEF SendReply, Answered, clientVars, TypeOK
    <3>3. CASE ~SendReply(c)
      BY <1>2, <3>1, <3>3
      DEF SendRequest, Quit, Kill, Waits, ReceiveReply, ServerGone, Hangup, Serves,
          ReceiveRequest, ReceiveEnd, ReceiveFails, SendLost, SendKills, Answered,
          clientVars, serverVars
    <3>4. QED
      BY <3>2, <3>3
  <2>8. KilledOrLong'
    BY <1>2, <2>2, <2>7, KillsOnlyBroken DEF Inv, KilledOrLong
  <2>9. QED
    BY <2>1, <2>3, <2>4, <2>5, <2>6, <2>8 DEF Inv
<1>3. QED
  BY <1>1, <1>2 DEF Next

LEMMA AlwaysInv == Spec => []Inv
<1>1. Init /\ [][Next]_vars => []Inv
  BY InitInv, NextKeepsInv, PTL
<1>2. QED
  BY <1>1, PTL DEF Spec

\* As long as every reply to a client fits in one recv() of client.c, each answer
\* it takes is the whole reply to its last request, and treat() never has two
\* requests in one buffer: for all clients, lengths and kinds of delivery.
THEOREM ShortRepliesStayInStep == Spec => []InStepWhileShort
<1>1. Inv => InStepWhileShort
  <2>1. ASSUME Inv, NEW c \in Client, ~long[c] PROVE Understood(c) /\ Len(taken[c]) <= 1
    <3>1. InStep(c) /\ taken[c] \in Seq(Nat) /\ toServer[c] \in Seq(Nat)
      BY <2>1 DEF Inv, TypeOK
    <3>2. Len(taken[c]) \in Nat /\ Len(toServer[c]) \in Nat
      BY <3>1, Lengthy
    <3>3. Understood(c) /\ Len(toServer[c]) + Len(taken[c]) <= 1
      BY <3>1 DEF InStep
    <3>4. Len(taken[c]) <= 1
      BY <3>2, <3>3, AtMostOne
    <3>5. QED
      BY <3>3, <3>4
  <2>2. QED
    BY <2>1 DEF InStepWhileShort
<1>2. QED
  BY <1>1, AlwaysInv, PTL

\* The SIGPIPE that ends the server comes from the connection of a client that was
\* killed while it waited, or that was sent more than one recv() takes.
THEOREM ServerEndNeedsCause == Spec => []KilledOrLong
<1>1. Inv => KilledOrLong
  BY DEF Inv
<1>2. QED
  BY <1>1, AlwaysInv, PTL

\* The buffers and sockets keep their types, and treat() owes a reply just when
\* there is a request in its buffer.
THEOREM WireTypeCorrect == Spec => []TypeOK
<1>1. Inv => TypeOK
  BY DEF Inv
<1>2. QED
  BY <1>1, AlwaysInv, PTL
=============================================================================
