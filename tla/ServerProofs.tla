---------------------------- MODULE ServerProofs ----------------------------
(* Theorems about module Server, for all constants and all requests.       *)
EXTENDS Server, FiniteSetTheorems, TLAPS

-----------------------------------------------------------------------------
(* Typing.                                                                 *)

\* A set of row ids is finite, so that every COUNT(*) is a number.
LEMMA RowSetFinite ==
  ASSUME messages \in Seq(Message), NEW S, S \subseteq DOMAIN messages
  PROVE  Cardinality(S) \in Nat
<1>1. IsFiniteSet(1 .. Len(messages))
  BY FS_Interval
<1>2. IsFiniteSet(S)
  BY <1>1, FS_Subset
<1>3. QED
  BY <1>2, FS_CardinalityType

\* The counts of database_utils.c are numbers.
LEMMA CountsAreNat ==
  ASSUME DatabaseTypeOK
  PROVE  /\ \A u \in Username : GetUsersCountByUsername(u) \in Nat
         /\ GetUsersCount \in Nat
         /\ \A a, b \in Username : GetMessagesCountBetweenUsers(a, b) \in Nat
         /\ \A a, b \in Username : GetUnreadMessagesCountBetweenUsers(a, b) \in Nat
<1>1. GetUsersCount \in Nat
  <2>1. IsFiniteSet({u \in Username : users[u] # None})
    BY FS_Subset, DatabaseAssumption DEF DatabaseAssumption
  <2>2. QED
    BY <2>1, FS_CardinalityType DEF GetUsersCount
<1>2. messages \in Seq(Message)
  BY DEF DatabaseTypeOK
<1>3. QED
  BY <1>1, <1>2, RowSetFinite
  DEF GetUsersCountByUsername, GetMessagesCountBetweenUsers, Conversation,
      GetUnreadMessagesCountBetweenUsers

\* The tables keep their type under every operator of the connection.
LEMMA DatabaseTyping ==
  ASSUME DatabaseTypeOK
  PROVE  /\ BeginTransaction => DatabaseTypeOK'
         /\ EndTransaction => DatabaseTypeOK'
         /\ Rollback => DatabaseTypeOK'
         /\ UNCHANGED dbVars => DatabaseTypeOK'
         /\ \A u \in Username, p \in Password :
              InsertUserRow(u, p) => DatabaseTypeOK'
         /\ \A a, b \in Username, m \in Text, id \in Nat \cup {NoReply} :
              InsertMessageRow(a, b, m, id) => DatabaseTypeOK'
         /\ \A id : UpdateMessageRow(id) => DatabaseTypeOK'
<1> USE DEF DatabaseTypeOK, Tables
<1>1. BeginTransaction => DatabaseTypeOK'
  BY DEF BeginTransaction
<1>2. EndTransaction => DatabaseTypeOK'
  <2>1. Working \in Tables
    BY DEF Working
  <2>2. QED
    BY <2>1 DEF EndTransaction
<1>3. Rollback => DatabaseTypeOK'
  BY DEF Rollback
<1>4. UNCHANGED dbVars => DatabaseTypeOK'
  BY DEF dbVars
<1>5. ASSUME NEW U \in Users, NEW M \in Seq(Message), Write(U, M)
      PROVE  DatabaseTypeOK'
  BY <1>5 DEF Write
<1>6. ASSUME NEW u \in Username, NEW p \in Password, InsertUserRow(u, p)
      PROVE  DatabaseTypeOK'
  <2>1. [users EXCEPT ![u] = p] \in Users
    BY DEF Users
  <2>2. QED
    BY <1>5, <1>6, <2>1 DEF InsertUserRow
<1>7. ASSUME NEW a \in Username, NEW b \in Username, NEW m \in Text,
             NEW id \in Nat \cup {NoReply}, InsertMessageRow(a, b, m, id)
      PROVE  DatabaseTypeOK'
  <2>1. [sender |-> a, receiver |-> b, message |-> m, read |-> 0, replyId |-> id]
          \in Message
    BY DEF Message
  <2>2. Append(messages, [sender |-> a, receiver |-> b, message |-> m, read |-> 0,
                          replyId |-> id]) \in Seq(Message)
    BY <2>1
  <2>3. QED
    BY <1>5, <1>7, <2>2 DEF InsertMessageRow
<1>8. ASSUME NEW id, UpdateMessageRow(id)
      PROVE  DatabaseTypeOK'
  <2> DEFINE M == [i \in DOMAIN messages |->
                     IF i = id THEN [messages[i] EXCEPT !.read = 1] ELSE messages[i]]
  <2>1. \A i \in DOMAIN messages : [messages[i] EXCEPT !.read = 1] \in Message
    <3>1. \A i \in DOMAIN messages : messages[i] \in Message
      OBVIOUS
    <3>2. \A m \in Message : [m EXCEPT !.read = 1] \in Message
      BY DEF Message
    <3>3. QED
      BY <3>1, <3>2
  <2>2. M \in Seq(Message)
    <3>1. DOMAIN messages = 1 .. Len(messages) /\ Len(messages) \in Nat
      OBVIOUS
    <3>2. M \in [1 .. Len(messages) -> Message]
      BY <2>1, <3>1
    <3>3. QED
      BY <3>1, <3>2
  <2>3. QED
    BY <1>5, <1>8, <2>2 DEF UpdateMessageRow
<1>9. QED
  BY <1>1, <1>2, <1>3, <1>4, <1>6, <1>7, <1>8

\* A reply stays one when a field of it is filled in.
LEMMA ReplyTyping ==
  ASSUME NEW a \in Reply
  PROVE  /\ \A code \in StatusCode : [a EXCEPT !.status = code] \in Reply
         /\ \A n \in Nat : [a EXCEPT !.count = n] \in Reply
         /\ \A n \in Nat : [a EXCEPT !.unread = Append(@, n)] \in Reply
         /\ \A u \in Username : [a EXCEPT !.names = Append(@, u)] \in Reply
         /\ \A x \in Row : [a EXCEPT !.rows = Append(@, x)] \in Reply
         /\ \A n \in Nat : [a EXCEPT !.id = n] \in Reply
<1>1. \A code \in StatusCode : [a EXCEPT !.status = code] \in Reply
  BY DEF Reply
<1>2. \A n \in Nat : [a EXCEPT !.count = n] \in Reply
  BY DEF Reply
<1>3. ASSUME NEW n \in Nat
      PROVE  [a EXCEPT !.unread = Append(@, n)] \in Reply
  <2>1. Append(a.unread, n) \in Seq(Nat)
    BY DEF Reply
  <2>2. QED
    BY <2>1 DEF Reply
<1>4. ASSUME NEW u \in Username
      PROVE  [a EXCEPT !.names = Append(@, u)] \in Reply
  <2>1. Append(a.names, u) \in Seq(Username)
    BY DEF Reply
  <2>2. QED
    BY <2>1 DEF Reply
<1>5. ASSUME NEW x \in Row
      PROVE  [a EXCEPT !.rows = Append(@, x)] \in Reply
  <2>1. Append(a.rows, x) \in Seq(Row)
    BY DEF Reply
  <2>2. QED
    BY <2>1 DEF Reply
<1>6. \A n \in Nat : [a EXCEPT !.id = n] \in Reply
  BY DEF Reply
<1>7. QED
  BY <1>1, <1>2, <1>3, <1>4, <1>5, <1>6

\* Constants of the protocol have their types.
LEMMA ConstantTyping ==
  /\ Idle \notin Request /\ Idle.command = "Idle"
  /\ Blank \in Reply
  /\ \A code \in StatusCode : Status(code) \in Reply
  /\ \A c \in DOMAIN Handler : Handler[c] \in Stage \ {"off", "recv"}
  /\ \A c \in DOMAIN AfterCheck : AfterCheck[c] \in Stage \ {"off", "recv"}
<1>1. Idle \notin Request /\ Idle.command = "Idle"
  BY DEF Idle, Request, Command, Handler
<1>2. /\ <<>> \in Seq(Username) /\ <<>> \in Seq(Nat) /\ <<>> \in Seq(Row)
  OBVIOUS
<1>3. Blank \in Reply
  BY <1>2 DEF Blank, Reply, StatusCode
<1>4. \A code \in StatusCode : Status(code) \in Reply
  BY <1>3, ReplyTyping DEF Status
<1>5. \A c \in DOMAIN Handler : Handler[c] \in Stage \ {"off", "recv"}
  BY DEF Handler, Stage
<1>6. \A c \in DOMAIN AfterCheck : AfterCheck[c] \in Stage \ {"off", "recv"}
  BY DEF AfterCheck, Stage
<1>7. QED
  BY <1>1, <1>3, <1>4, <1>5, <1>6

\* Which commands a thread can be serving at each call.
StageFits ==
  \A t \in Thread :
    /\ pc[t] = "name" => request[t].command = "Register"
    /\ pc[t] = "exists" => request[t].command \in DOMAIN AfterCheck
    /\ pc[t] \in {"begin", "exec", "end"} =>
         request[t].command \in {"Register", "Insert_Message", "Update_Message_Read"}

\* Moving to another call keeps the types.
LEMMA ContinueTyping ==
  ASSUME ServerTypeOK, NEW t \in Thread, NEW next \in Stage,
         request[t] \in Request, Continue(t, next)
  PROVE  ServerTypeOK'
BY DatabaseTyping DEF ServerTypeOK, Continue, historyVars, boundVars

\* Building a reply keeps the types.
LEMMA AnswerTyping ==
  ASSUME ServerTypeOK, NEW t \in Thread, NEW answer \in Reply,
         request[t] \in Request, Answer(t, answer)
  PROVE  ServerTypeOK'
<1>1. "send" \in Stage
  BY DEF Stage
<1>2. QED
  BY <1>1, DatabaseTyping DEF ServerTypeOK, Answer, historyVars, boundVars

\* Receiving a request, or answering it without the database.
LEMMA ReceiveTyping ==
  ASSUME ServerTypeOK, NEW t \in Thread, Receive(t)
  PROVE  ServerTypeOK'
<1>1. request[t] \in Request
  BY DEF Receive, ServerTypeOK
<1> DEFINE r == request[t]
<1>2. r.command \in Command /\ r.authorized \in BOOLEAN
  BY <1>1 DEF Request
<1>3. Refusal(r) \in StatusCode /\ 200 \in StatusCode
  BY DEF Refusal, StatusCode
<1>4. Refusal(r) = 0 => r.command \in DOMAIN Handler
  BY <1>2 DEF Refusal, Command
<1>5. CASE Refusal(r) # 0 /\ Answer(t, Status(Refusal(r)))
  <2>1. Status(Refusal(r)) \in Reply
    BY <1>3, <1>5, ConstantTyping
  <2>2. QED
    BY <1>1, <1>5, <2>1, AnswerTyping
<1>6. CASE Answer(t, Status(200))
  BY <1>1, <1>3, <1>6, ConstantTyping, AnswerTyping
<1>7. CASE Refusal(r) = 0 /\ Continue(t, Handler[r.command])
  <2>1. Handler[r.command] \in Stage
    BY <1>4, <1>7, ConstantTyping
  <2>2. QED
    BY <1>1, <1>7, <2>1, ContinueTyping
<1>8. QED
  BY <1>5, <1>6, <1>7 DEF Receive

\* A thread that adds something to its reply and goes on.
LEMMA FillTyping ==
  ASSUME ServerTypeOK, NEW t \in Thread, NEW a \in Reply,
         reply' = [reply EXCEPT ![t] = a],
         UNCHANGED <<dbVars, pc, request, historyVars, boundVars>>
  PROVE  ServerTypeOK'
BY DatabaseTyping DEF ServerTypeOK, historyVars, boundVars

\* The queries.
LEMMA QueryTyping ==
  ASSUME ServerTypeOK, StageFits, NEW t \in Thread,
         \/ Login(t) \/ CheckName(t) \/ CheckUser(t) \/ CountUsers(t)
         \/ CountMessages(t) \/ ScanUsers(t) \/ CountUnread(t) \/ ScanMessages(t)
  PROVE  ServerTypeOK'
<1> DEFINE r == request[t]
<1>1. pc[t] \notin {"off", "recv"}
  BY DEF Login, CheckName, CheckUser, CountUsers, CountMessages, ScanUsers,
         CountUnread, ScanMessages
<1>2. r \in Request /\ reply[t] \in Reply /\ DatabaseTypeOK
  BY <1>1 DEF ServerTypeOK
<1>3. r.user \in Username /\ r.peer \in Username
  BY <1>2 DEF Request
<1>4. {"begin", "names", "unread"} \subseteq Stage
  BY DEF Stage
<1>5. {200, 400, 401, 409, 500} \subseteq StatusCode
  BY DEF StatusCode
<1>6. CASE Login(t)
  <2>1. Status(IF GetUsersCountByUsernameAndPassword(r.user, r.password) = 1
               THEN 200 ELSE 401) \in Reply
    BY <1>5, ConstantTyping
  <2>2. QED
    BY <1>2, <1>6, <2>1, AnswerTyping DEF Login
<1>7. CASE CheckName(t)
  <2>1. Status(409) \in Reply
    BY <1>5, ConstantTyping
  <2>2. QED
    BY <1>2, <1>4, <1>7, <2>1, AnswerTyping, ContinueTyping DEF CheckName
<1>8. CASE CheckUser(t)
  <2>1. Status(400) \in Reply /\ AfterCheck[r.command] \in Stage
    BY <1>5, <1>8, ConstantTyping DEF CheckUser, StageFits
  <2>2. QED
    BY <1>2, <1>8, <2>1, AnswerTyping, ContinueTyping DEF CheckUser
<1>9. CASE CountUsers(t)
  <2>1. GetUsersCount \in Nat
    BY <1>2, CountsAreNat
  <2>2. /\ Status(500) \in Reply
        /\ [Status(200) EXCEPT !.count = GetUsersCount] \in Reply
    BY <1>5, <2>1, ConstantTyping, ReplyTyping
  <2>3. \/ Answer(t, Status(500))
        \/ Answer(t, [Status(200) EXCEPT !.count = GetUsersCount])
        \/ Continue(t, "names")
    BY <1>9 DEF CountUsers
  <2>4. QED
    BY <1>2, <1>4, <2>2, <2>3, AnswerTyping, ContinueTyping
<1>10. CASE CountMessages(t)
  <2>1. GetMessagesCountBetweenUsers(r.user, r.peer) \in Nat
    BY <1>2, <1>3, CountsAreNat
  <2>2. [Status(200) EXCEPT !.count = GetMessagesCountBetweenUsers(r.user, r.peer)]
          \in Reply
    BY <1>5, <2>1, ConstantTyping, ReplyTyping
  <2>3. QED
    BY <1>2, <1>10, <2>2, AnswerTyping DEF CountMessages
<1>11. CASE ScanUsers(t)
  <2> DEFINE next == NextUsername(r.user, reply[t].names, r.page)
  <2>1. \A v \in next : v \in Username
    BY DEF NextUsername
  <2>2. \A v \in Username : [reply[t] EXCEPT !.names = Append(reply[t].names, v)] \in Reply
    BY <1>2, ReplyTyping
  <2>3. CASE Continue(t, "unread")
    BY <1>2, <1>4, <2>3, ContinueTyping
  <2>4. CASE Answer(t, Status(200))
    BY <1>2, <1>5, <2>4, ConstantTyping, AnswerTyping
  <2>5. ASSUME NEW v \in next,
               reply' = [reply EXCEPT ![t].names = Append(reply[t].names, v)],
               UNCHANGED <<dbVars, pc, request, historyVars, boundVars>>
        PROVE  ServerTypeOK'
    <3>1. reply' = [reply EXCEPT ![t] = [reply[t] EXCEPT !.names = Append(reply[t].names, v)]]
      BY <2>5
    <3>2. QED
      BY <2>1, <2>2, <2>5, <3>1, FillTyping
  <2>6. QED
    BY <1>11, <2>3, <2>4, <2>5 DEF ScanUsers
<1>12. CASE CountUnread(t)
  <2> DEFINE i == Len(reply[t].unread) + 1
             n == GetUnreadMessagesCountBetweenUsers(r.user, reply[t].names[i])
             filled == [reply[t] EXCEPT !.unread = Append(@, n)]
  <2>1. n \in Nat
    <3>1. messages \in Seq(Message)
      BY <1>2 DEF DatabaseTypeOK
    <3>2. QED
      BY <3>1, RowSetFinite DEF GetUnreadMessagesCountBetweenUsers
  <2>2. filled \in Reply /\ [filled EXCEPT !.status = 200] \in Reply
    BY <1>2, <1>5, <2>1, ReplyTyping
  <2>3. CASE Answer(t, [filled EXCEPT !.status = 200])
    BY <1>2, <2>2, <2>3, AnswerTyping
  <2>4. CASE /\ reply' = [reply EXCEPT ![t] = filled]
             /\ UNCHANGED <<dbVars, pc, request, historyVars, boundVars>>
    BY <2>2, <2>4, FillTyping
  <2>5. QED
    BY <1>12, <2>3, <2>4 DEF CountUnread
<1>13. CASE ScanMessages(t)
  <2> DEFINE next == NextMessage(r.user, r.peer, reply[t].rows, r.page)
             row(i) == [id |-> i, sender |-> messages[i].sender,
                        read |-> messages[i].read, replyId |-> messages[i].replyId]
  <2>1. \A i \in next : row(i) \in Row
    <3>1. \A i \in next : i \in DOMAIN messages
      BY DEF NextMessage, Conversation
    <3>2. \A i \in DOMAIN messages : i \in Nat /\ messages[i] \in Message
      BY <1>2 DEF DatabaseTypeOK
    <3>3. QED
      BY <3>1, <3>2 DEF Row, Message
  <2>2. \A x \in Row : [reply[t] EXCEPT !.rows = Append(reply[t].rows, x)] \in Reply
    BY <1>2, ReplyTyping
  <2>3. CASE Answer(t, [reply[t] EXCEPT !.status = 200])
    BY <1>2, <1>5, <2>3, AnswerTyping, ReplyTyping
  <2>4. ASSUME NEW i \in next,
               reply' = [reply EXCEPT ![t].rows = Append(reply[t].rows, row(i))],
               UNCHANGED <<dbVars, pc, request, historyVars, boundVars>>
        PROVE  ServerTypeOK'
    <3>1. reply' = [reply EXCEPT ![t] = [reply[t] EXCEPT !.rows = Append(reply[t].rows, row(i))]]
      BY <2>4
    <3>2. QED
      BY <2>1, <2>2, <2>4, <3>1, FillTyping
  <2>5. QED
    BY <1>13, <2>3, <2>4 DEF ScanMessages
<1>14. QED
  BY <1>6, <1>7, <1>8, <1>9, <1>10, <1>11, <1>12, <1>13

\* The three calls of a write, and their failures.
LEMMA WriteTyping ==
  ASSUME ServerTypeOK, StageFits, NEW t \in Thread,
         \/ Begin(t) \/ InsertUser(t) \/ InsertMessage(t) \/ UpdateMessage(t)
         \/ End(t) \/ Fault(t)
  PROVE  ServerTypeOK'
<1> DEFINE r == request[t]
<1>1. pc[t] \notin {"off", "recv"}
  BY DEF Begin, InsertUser, InsertMessage, UpdateMessage, End, Fault, ExecFails, CommitFails
<1>2. r \in Request /\ DatabaseTypeOK
  BY <1>1 DEF ServerTypeOK
<1>3. /\ r.user \in Username /\ r.peer \in Username /\ r.password \in Password
      /\ r.message \in Text /\ r.replyId \in Nat \cup {NoReply}
  BY <1>2 DEF Request
<1>4. {"begin", "exec", "end", "send"} \subseteq Stage
  BY DEF Stage
<1>5. Status(200) \in Reply /\ Status(201) \in Reply /\ Status(500) \in Reply
  BY ConstantTyping DEF StatusCode
\* A write keeps the tables typed; the rest is one thread's stage and reply.
<1>6. ASSUME DatabaseTypeOK', NEW a \in Reply,
             reply' = [reply EXCEPT ![t] = a], pc' = [pc EXCEPT ![t] = "end"],
             UNCHANGED <<request, historyVars>>,
             faults' \in 0 .. MaxFaults, crashes' = crashes
      PROVE  ServerTypeOK'
  BY <1>1, <1>4, <1>6 DEF ServerTypeOK, historyVars
<1>7. ASSUME DatabaseTypeOK', AfterEnd(t), faults' \in 0 .. MaxFaults, crashes' = crashes
      PROVE  ServerTypeOK'
  <2>1. Len(r.ids) > 1 => [r EXCEPT !.ids = Tail(@)] \in Request
    <3>1. r.ids \in Seq(Nat)
      BY <1>2 DEF Request
    <3>2. Len(r.ids) > 1 => Tail(r.ids) \in Seq(Nat)
      BY <3>1
    <3>3. QED
      BY <1>2, <3>2 DEF Request
  <2>2. request' \in [Thread -> Request \cup {Idle}] /\ request'[t] \in Request
    <3>1. CASE /\ Len(r.ids) > 1
               /\ request' = [request EXCEPT ![t].ids = Tail(@)]
      <4>1. request' = [request EXCEPT ![t] = [r EXCEPT !.ids = Tail(@)]]
        BY <3>1
      <4>2. QED
        BY <2>1, <3>1, <4>1 DEF ServerTypeOK
    <3>2. CASE UNCHANGED request
      BY <1>2, <3>2 DEF ServerTypeOK
    <3>3. QED
      BY <1>7, <3>1, <3>2 DEF AfterEnd
  <2>3. \A s \in Thread \ {t} : request'[s] = request[s] /\ pc'[s] = pc[s]
    BY <1>7 DEF AfterEnd, ServerTypeOK
  <2>4. pc' \in [Thread -> Stage]
    BY <1>4, <1>7 DEF AfterEnd, ServerTypeOK
  <2>5. UNCHANGED <<reply, registered, sent>>
    BY <1>7 DEF AfterEnd, historyVars
  <2>6. QED
    BY <1>7, <2>2, <2>3, <2>4, <2>5 DEF ServerTypeOK
<1>8. faults \in 0 .. MaxFaults /\ MaxFaults \in Nat
  BY ServerAssumption DEF ServerTypeOK, ServerAssumption
<1>9. CASE Begin(t)
  BY <1>1, <1>2, <1>4, <1>9, DatabaseTyping DEF Begin, ServerTypeOK, historyVars, boundVars
<1>10. CASE InsertUser(t)
  <2>1. DatabaseTypeOK'
    BY <1>2, <1>3, <1>10, DatabaseTyping DEF InsertUser
  <2>2. QED
    BY <1>5, <1>6, <1>8, <1>10, <2>1 DEF InsertUser, boundVars
<1>11. CASE InsertMessage(t)
  <2>1. DatabaseTypeOK'
    BY <1>2, <1>3, <1>11, DatabaseTyping DEF InsertMessage
  <2>2. [Status(201) EXCEPT !.id = Len(messages) + 1] \in Reply
    <3>1. Len(messages) + 1 \in Nat
      BY <1>2 DEF DatabaseTypeOK
    <3>2. QED
      BY <1>5, <3>1, ReplyTyping
  <2>3. QED
    BY <1>6, <1>8, <1>11, <2>1, <2>2 DEF InsertMessage, boundVars
<1>12. CASE UpdateMessage(t)
  <2>1. DatabaseTypeOK'
    BY <1>2, <1>12, DatabaseTyping DEF UpdateMessage
  <2>2. QED
    BY <1>5, <1>6, <1>8, <1>12, <2>1 DEF UpdateMessage, boundVars
<1>13. CASE End(t)
  <2>1. DatabaseTypeOK'
    BY <1>2, <1>13, DatabaseTyping DEF End
  <2>2. QED
    BY <1>7, <1>8, <1>13, <2>1 DEF End, boundVars
<1>14. CASE ExecFails(t)
  <2>1. DatabaseTypeOK'
    BY <1>2, <1>14, DatabaseTyping DEF ExecFails
  <2>2. Status(IF r.command = "Update_Message_Read" THEN 200 ELSE 500) \in Reply
    BY <1>5
  <2>3. faults' \in 0 .. MaxFaults
    BY <1>8, <1>14 DEF ExecFails
  <2>4. QED
    BY <1>6, <1>14, <2>1, <2>2, <2>3 DEF ExecFails
<1>15. CASE CommitFails(t)
  <2>1. DatabaseTypeOK'
    BY <1>2, <1>15, DatabaseTyping DEF CommitFails
  <2>2. faults' \in 0 .. MaxFaults
    BY <1>8, <1>15 DEF CommitFails
  <2>3. QED
    BY <1>7, <1>15, <2>1, <2>2 DEF CommitFails
<1>16. QED
  BY <1>9, <1>10, <1>11, <1>12, <1>13, <1>14, <1>15 DEF Fault

\* Connections, requests in and replies out.
LEMMA ConnectionTyping ==
  ASSUME ServerTypeOK, NEW t \in Thread,
         \/ Accept(t) \/ Disconnected(t) \/ SendLost(t)
         \/ \E r \in Request : Arrive(t, r)
         \/ \E next \in Request \cup {Idle} : Send(t, next)
  PROVE  ServerTypeOK'
<1>1. Blank \in Reply /\ {"off", "recv"} \subseteq Stage
  BY ConstantTyping DEF Stage
<1>2. DatabaseTypeOK
  BY DEF ServerTypeOK
<1>3. CASE Accept(t) \/ Disconnected(t) \/ SendLost(t) \/ \E r \in Request : Arrive(t, r)
  <2>1. DatabaseTypeOK'
    BY <1>2, <1>3, DatabaseTyping DEF Accept, Arrive, Disconnected, SendLost, dbVars
  <2>2. QED
    BY <1>1, <1>3, <2>1
    DEF Accept, Arrive, Disconnected, SendLost, ServerTypeOK, historyVars, boundVars
<1>4. ASSUME NEW next \in Request \cup {Idle}, Send(t, next)
      PROVE  ServerTypeOK'
  <2>1. DatabaseTypeOK'
    BY <1>2, <1>4, DatabaseTyping DEF Send
  <2>2. request[t] \in Request /\ reply[t] \in Reply
    BY <1>4 DEF Send, ServerTypeOK
  <2>3. registered' \subseteq Account /\ sent' \subseteq Sent
    BY <1>4, <2>2 DEF Send, Acknowledge, ServerTypeOK, Request, Reply, Account, Sent
  <2>4. QED
    BY <1>1, <1>4, <2>1, <2>3 DEF Send, ServerTypeOK, boundVars
<1>5. QED
  BY <1>3, <1>4

\* So does a restart.
LEMMA CrashTyping ==
  ASSUME ServerTypeOK, Crash
  PROVE  ServerTypeOK'
<1>1. Blank \in Reply /\ {"off", "recv"} \subseteq Stage
  BY ConstantTyping DEF Stage
<1>2. DatabaseTypeOK'
  BY DatabaseTyping DEF Crash, ServerTypeOK
<1>3. crashes' \in 0 .. MaxCrashes
  BY ServerAssumption DEF Crash, ServerTypeOK, ServerAssumption
<1>4. QED
  BY <1>1, <1>2, <1>3 DEF Crash, ServerTypeOK, historyVars

\* Every step of the server keeps the types.
LEMMA StepTyping ==
  ASSUME ServerTypeOK, StageFits, ServerStep(Request)
  PROVE  ServerTypeOK'
<1>1. CASE Crash
  BY <1>1, CrashTyping
<1>2. ASSUME NEW t \in Thread, ThreadStep(Request, t)
      PROVE  ServerTypeOK'
  <2>1. CASE Receive(t)
    BY <2>1, ReceiveTyping
  <2>2. CASE \/ Login(t) \/ CheckName(t) \/ CheckUser(t) \/ CountUsers(t)
             \/ CountMessages(t) \/ ScanUsers(t) \/ CountUnread(t) \/ ScanMessages(t)
    BY <2>2, QueryTyping
  <2>3. CASE \/ Begin(t) \/ InsertUser(t) \/ InsertMessage(t) \/ UpdateMessage(t)
             \/ End(t) \/ Fault(t)
    BY <2>3, WriteTyping
  <2>4. CASE \/ Accept(t) \/ Disconnected(t) \/ SendLost(t)
             \/ \E r \in Request : Arrive(t, r)
             \/ \E next \in Request \cup {Idle} : Send(t, next)
    BY <2>4, ConnectionTyping
  <2>5. QED
    BY <1>2, <2>1, <2>2, <2>3, <2>4 DEF ThreadStep, Process
<1>3. QED
  BY <1>1, <1>2 DEF ServerStep

\* The server is not asked anything but requests.
LEMMA NextIsStep ==
  ASSUME ServerNext
  PROVE  ServerStep(Request)
BY ServerAssumption DEF ServerAssumption, ServerNext, ServerStep, ThreadStep

-----------------------------------------------------------------------------
(* Control.                                                                *)

\* A thread touches its own stage, request and reply only.
LEMMA OthersUntouched ==
  ASSUME ServerTypeOK, NEW t \in Thread, ThreadStep(Request, t)
  PROVE  \A s \in Thread \ {t} : /\ pc'[s] = pc[s]
                                  /\ request'[s] = request[s]
                                  /\ reply'[s] = reply[s]
<1>1. CASE \/ Receive(t) \/ Login(t) \/ CheckName(t) \/ CheckUser(t)
           \/ CountUsers(t) \/ CountMessages(t)
  BY <1>1 DEF Receive, Login, CheckName, CheckUser, CountUsers, CountMessages,
              Answer, Continue, ServerTypeOK
<1>2. CASE ScanUsers(t) \/ CountUnread(t) \/ ScanMessages(t)
  BY <1>2 DEF ScanUsers, CountUnread, ScanMessages, Answer, Continue, ServerTypeOK
<1>3. CASE \/ Begin(t) \/ InsertUser(t) \/ InsertMessage(t) \/ UpdateMessage(t)
           \/ End(t) \/ Fault(t)
  BY <1>3 DEF Begin, InsertUser, InsertMessage, UpdateMessage, End, Fault,
              ExecFails, CommitFails, AfterEnd, ServerTypeOK
<1>4. CASE \/ Accept(t) \/ Disconnected(t) \/ SendLost(t)
           \/ \E r \in Request : Arrive(t, r)
           \/ \E next \in Request \cup {Idle} : Send(t, next)
  BY <1>4 DEF Accept, Disconnected, SendLost, Arrive, Send, ServerTypeOK
<1>5. QED
  BY <1>1, <1>2, <1>3, <1>4 DEF ThreadStep, Process

\* Handlers make only the calls of their command.
LEMMA StepStageFits ==
  ASSUME ServerTypeOK, StageFits, ServerStep(Request)
  PROVE  StageFits'
<1>1. CASE Crash
  BY <1>1 DEF Crash, StageFits
<1>2. ASSUME NEW t \in Thread, ThreadStep(Request, t)
      PROVE  StageFits'
  <2> DEFINE Fits(s) ==
        /\ pc[s] = "name" => request[s].command = "Register"
        /\ pc[s] = "exists" => request[s].command \in DOMAIN AfterCheck
        /\ pc[s] \in {"begin", "exec", "end"} =>
             request[s].command \in {"Register", "Insert_Message", "Update_Message_Read"}
  <2>1. \A s \in Thread \ {t} : Fits(s)'
    BY <1>2, OthersUntouched DEF StageFits
  <2> SUFFICES Fits(t)'
    BY <2>1 DEF StageFits
  <2>2. Fits(t)
    BY DEF StageFits
  <2>3. ASSUME pc'[t] \notin {"name", "exists", "begin", "exec", "end"}
        PROVE  Fits(t)'
    BY <2>3
  <2>4. ASSUME NEW a, Answer(t, a)
        PROVE  Fits(t)'
    <3>1. pc'[t] = "send"
      BY <2>4 DEF Answer, ServerTypeOK
    <3>2. QED
      BY <3>1
  <2>5. ASSUME NEW next, Continue(t, next)
        PROVE  pc'[t] = next /\ request'[t] = request[t]
    BY <2>5 DEF Continue, ServerTypeOK
  <2>6. CASE Receive(t)
    <3>1. CASE \E a : Answer(t, a)
      BY <2>4, <3>1
    <3>2. CASE /\ Refusal(request[t]) = 0
               /\ Continue(t, Handler[request[t].command])
      <4>1. request[t] \in Request
        BY <2>6 DEF Receive, ServerTypeOK
      <4>2. request[t].command \in DOMAIN Handler
        BY <3>2, <4>1 DEF Refusal, Request, Command
      <4>3. pc'[t] = Handler[request[t].command] /\ request'[t] = request[t]
        BY <2>5, <3>2
      <4>4. QED
        BY <4>2, <4>3 DEF Handler, AfterCheck
    <3>3. QED
      BY <2>6, <3>1, <3>2 DEF Receive
  <2>7. CASE Login(t) \/ CountUsers(t) \/ CountMessages(t)
    <3>1. CASE \E a : Answer(t, a)
      BY <2>4, <3>1
    <3>2. CASE Continue(t, "names")
      BY <2>5, <3>2
    <3>3. QED
      BY <2>7, <3>1, <3>2 DEF Login, CountUsers, CountMessages
  <2>8. CASE CheckName(t)
    BY <2>2, <2>4, <2>5, <2>8 DEF CheckName
  <2>9. CASE CheckUser(t)
    <3>1. CASE \E a : Answer(t, a)
      BY <2>4, <3>1
    <3>2. CASE Continue(t, AfterCheck[request[t].command])
      <4>1. request[t].command \in DOMAIN AfterCheck
        BY <2>2, <2>9 DEF CheckUser
      <4>2. QED
        BY <2>5, <3>2, <4>1 DEF AfterCheck
    <3>3. QED
      BY <2>9, <3>1, <3>2 DEF CheckUser
  <2>10. CASE ScanUsers(t) \/ CountUnread(t) \/ ScanMessages(t)
    <3>1. pc'[t] \in {"names", "unread", "rows", "send"}
      BY <2>10 DEF ScanUsers, CountUnread, ScanMessages, Answer, Continue, ServerTypeOK
    <3>2. QED
      BY <2>3, <3>1
  <2>11. CASE \/ Begin(t) \/ InsertUser(t) \/ InsertMessage(t) \/ UpdateMessage(t)
              \/ ExecFails(t)
    BY <2>2, <2>11
    DEF Begin, InsertUser, InsertMessage, UpdateMessage, ExecFails, ServerTypeOK
  <2>12. CASE End(t) \/ CommitFails(t)
    <3>1. AfterEnd(t) /\ pc[t] = "end"
      BY <2>12 DEF End, CommitFails
    <3>2. CASE pc'[t] = "send"
      BY <3>2
    <3>3. CASE /\ request' = [request EXCEPT ![t].ids = Tail(@)]
               /\ pc'[t] = "begin"
      <4>1. request[t] \in Request /\ request'[t] = [request[t] EXCEPT !.ids = Tail(@)]
        BY <3>1, <3>3 DEF ServerTypeOK
      <4>2. request'[t].command = request[t].command
        BY <4>1 DEF Request
      <4>3. QED
        BY <2>2, <3>1, <3>3, <4>2
    <3>4. QED
      BY <3>1, <3>2, <3>3 DEF AfterEnd, ServerTypeOK
  <2>13. CASE \/ Accept(t) \/ Disconnected(t) \/ SendLost(t)
              \/ \E r \in Request : Arrive(t, r)
              \/ \E next \in Request \cup {Idle} : Send(t, next)
    <3>1. pc'[t] \in {"off", "recv"}
      BY <2>13 DEF Accept, Disconnected, SendLost, Arrive, Send, ServerTypeOK
    <3>2. QED
      BY <2>3, <3>1
  <2>14. QED
    BY <1>2, <2>6, <2>7, <2>8, <2>9, <2>10, <2>11, <2>12, <2>13
    DEF ThreadStep, Process, Fault
<1>3. QED
  BY <1>1, <1>2 DEF ServerStep

\* What the steps below need of the state before them.
Typing == ServerTypeOK /\ StageFits

\* The server starts typed.
LEMMA InitTyping == ServerInit => Typing
<1>1. {"off"} \subseteq Stage /\ Blank \in Reply
  BY ConstantTyping DEF Stage
<1>2. StartUsers \in Users /\ StartMessages \in Seq(Message)
  BY ServerAssumption DEF ServerAssumption
<1>3. ServerInit => DatabaseTypeOK
  <2>1. [users |-> StartUsers, messages |-> StartMessages] \in Tables
    BY <1>2 DEF Tables
  <2>2. QED
    BY <1>2, <2>1 DEF ServerInit, DatabaseTypeOK
<1>4. 0 \in 0 .. MaxCrashes /\ 0 \in 0 .. MaxFaults
  BY ServerAssumption DEF ServerAssumption
<1>5. ServerInit => ServerTypeOK
  BY <1>1, <1>3, <1>4 DEF ServerInit, ServerTypeOK
<1>6. ServerInit => StageFits
  BY DEF ServerInit, StageFits
<1>7. QED
  BY <1>5, <1>6 DEF Typing

\* A step that changes nothing keeps the types.
LEMMA StutterTyping ==
  ASSUME Typing, UNCHANGED serverVars
  PROVE  Typing'
BY DEF Typing, serverVars, ServerTypeOK, StageFits, DatabaseTypeOK

\* Every variable has its type, in every state of the server.
THEOREM ServerTypeCorrect == ServerSpec => []ServerTypeOK
<1>1. Typing /\ [ServerNext]_serverVars => Typing'
  <2> SUFFICES ASSUME Typing, [ServerNext]_serverVars
               PROVE  Typing'
    OBVIOUS
  <2>1. CASE ServerNext
    BY <2>1, NextIsStep, StepTyping, StepStageFits DEF Typing
  <2>2. CASE UNCHANGED serverVars
    BY <2>2, StutterTyping
  <2>3. QED
    BY <2>1, <2>2
<1>2. Typing => ServerTypeOK
  BY DEF Typing
<1>3. QED
  BY InitTyping, <1>1, <1>2, PTL DEF ServerSpec

-----------------------------------------------------------------------------
(* Transactions.                                                           *)

\* A transaction belongs to a thread between BEGIN and END.
LEMMA StepHasWriter ==
  ASSUME ServerTypeOK, TransactionHasWriter, ServerStep(Request)
  PROVE  TransactionHasWriter'
<1>1. CASE Crash
  BY <1>1 DEF Crash, Rollback, TransactionHasWriter
<1>2. ASSUME NEW t \in Thread, ThreadStep(Request, t)
      PROVE  TransactionHasWriter'
  <2>1. CASE Begin(t) \/ InsertUser(t) \/ InsertMessage(t) \/ UpdateMessage(t)
    <3>1. pc'[t] \in {"exec", "end"}
      BY <2>1 DEF Begin, InsertUser, InsertMessage, UpdateMessage, ServerTypeOK
    <3>2. QED
      BY <3>1 DEF TransactionHasWriter, Writing
  <2>2. CASE End(t) \/ Fault(t)
    BY <2>2
    DEF End, Fault, ExecFails, CommitFails, EndTransaction, Rollback, TransactionHasWriter
  <2>3. CASE ~Writing(t) /\ inTransaction' = inTransaction
    <3>1. \A s \in Thread : Writing(s) => Writing(s)'
      BY <1>2, <2>3, OthersUntouched DEF Writing
    <3>2. QED
      BY <2>3, <3>1 DEF TransactionHasWriter
  <2>4. CASE \/ Receive(t) \/ Login(t) \/ CheckName(t) \/ CheckUser(t)
             \/ CountUsers(t) \/ CountMessages(t)
    BY <2>3, <2>4
    DEF Receive, Login, CheckName, CheckUser, CountUsers, CountMessages, Answer,
        Continue, dbVars, Writing
  <2>5. CASE ScanUsers(t) \/ CountUnread(t) \/ ScanMessages(t)
    BY <2>3, <2>5
    DEF ScanUsers, CountUnread, ScanMessages, Answer, Continue, dbVars, Writing
  <2>6. CASE \/ Accept(t) \/ Disconnected(t) \/ SendLost(t)
             \/ \E r \in Request : Arrive(t, r)
             \/ \E next \in Request \cup {Idle} : Send(t, next)
    BY <2>3, <2>6 DEF Accept, Disconnected, SendLost, Arrive, Send, dbVars, Writing
  <2>7. QED
    BY <1>2, <2>1, <2>2, <2>4, <2>5, <2>6 DEF ThreadStep, Process
<1>3. QED
  BY <1>1, <1>2 DEF ServerStep

\* Table images grow reflexively and transitively.
LEMMA GrowsOrder ==
  /\ \A T \in Tables : Grows(T, T)
  /\ \A T, S, U \in Tables : Grows(T, S) /\ Grows(S, U) => Grows(T, U)
<1>1. \A T \in Tables : T.messages \in Seq(Message) /\ T.users \in Users
  BY DEF Tables
<1>2. ASSUME NEW T \in Tables
      PROVE  Grows(T, T)
  BY <1>1 DEF Grows
<1>3. ASSUME NEW T \in Tables, NEW S \in Tables, NEW U \in Tables, Grows(T, S), Grows(S, U)
      PROVE  Grows(T, U)
  <2>1. \A u \in Username : T.users[u] # None => U.users[u] = T.users[u]
    BY <1>3 DEF Grows
  <2>2. Len(T.messages) <= Len(U.messages)
    BY <1>1, <1>3 DEF Grows
  <2>3. ASSUME NEW i \in DOMAIN T.messages
        PROVE  U.messages[i] \in {T.messages[i], [T.messages[i] EXCEPT !.read = 1]}
    <3>1. i \in DOMAIN S.messages
      BY <1>1, <1>3, <2>3 DEF Grows
    <3>2. /\ S.messages[i] \in {T.messages[i], [T.messages[i] EXCEPT !.read = 1]}
          /\ U.messages[i] \in {S.messages[i], [S.messages[i] EXCEPT !.read = 1]}
      BY <1>3, <2>3, <3>1 DEF Grows
    <3>3. T.messages[i] \in Message
      BY <1>1
    <3>4. \A m \in Message : [[m EXCEPT !.read = 1] EXCEPT !.read = 1] = [m EXCEPT !.read = 1]
      BY DEF Message
    <3>5. QED
      BY <3>2, <3>3, <3>4
  <2>4. QED
    BY <2>1, <2>2, <2>3 DEF Grows
<1>4. QED
  BY <1>2, <1>3

\* The three statements that write make the tables grow.
LEMMA WritesGrow ==
  ASSUME DatabaseTypeOK
  PROVE  /\ \A u \in Username, p \in Password :
              UserInsertable(u) => Grows(Working, [users |-> [users EXCEPT ![u] = p],
                                                   messages |-> messages])
         /\ \A m : Grows(Working, [users |-> users, messages |-> Append(messages, m)])
         /\ \A id : Grows(Working,
              [users |-> users,
               messages |-> [i \in DOMAIN messages |->
                  IF i = id THEN [messages[i] EXCEPT !.read = 1] ELSE messages[i]]])
<1>1. messages \in Seq(Message) /\ users \in Users
  BY DEF DatabaseTypeOK
<1>2. ASSUME NEW u \in Username, NEW p \in Password, UserInsertable(u)
      PROVE  Grows(Working, [users |-> [users EXCEPT ![u] = p], messages |-> messages])
  <2>1. \A v \in Username : users[v] # None => [users EXCEPT ![u] = p][v] = users[v]
    BY <1>1, <1>2 DEF UserInsertable, Users
  <2>2. QED
    BY <1>1, <2>1 DEF Grows, Working
<1>3. ASSUME NEW m
      PROVE  Grows(Working, [users |-> users, messages |-> Append(messages, m)])
  <2>1. Len(messages) <= Len(Append(messages, m))
    BY <1>1
  <2>2. \A i \in DOMAIN messages : Append(messages, m)[i] = messages[i]
    BY <1>1
  <2>3. QED
    BY <2>1, <2>2 DEF Grows, Working
<1>4. ASSUME NEW id
      PROVE  Grows(Working,
              [users |-> users,
               messages |-> [i \in DOMAIN messages |->
                  IF i = id THEN [messages[i] EXCEPT !.read = 1] ELSE messages[i]]])
  <2> DEFINE M == [i \in DOMAIN messages |->
                     IF i = id THEN [messages[i] EXCEPT !.read = 1] ELSE messages[i]]
  <2>1. DOMAIN M = 1 .. Len(messages)
    BY <1>1
  <2>2. Len(M) = Len(messages)
    BY <1>1, <2>1
  <2>3. \A i \in DOMAIN messages : M[i] \in {messages[i], [messages[i] EXCEPT !.read = 1]}
    OBVIOUS
  <2>4. QED
    BY <1>1, <2>2, <2>3 DEF Grows, Working
<1>5. QED
  BY <1>2, <1>3, <1>4

\* Outside a transaction the file is what statements see, inside one it is an
\* earlier image of it.
Committed == ~inTransaction => disk = Working
Storage == Committed /\ Grows(disk, Working)

\* What one operator of the connection does to the file and to the tables.
LEMMA ConnectionStorage ==
  ASSUME DatabaseTypeOK, Storage
  PROVE  /\ UNCHANGED dbVars \/ BeginTransaction \/ EndTransaction =>
              Storage' /\ Grows(disk, disk') /\ UNCHANGED Working
         /\ Rollback => Storage' /\ UNCHANGED disk
         /\ \A U \in Users, M \in Seq(Message) :
              Write(U, M) /\ Grows(Working, [users |-> U, messages |-> M]) =>
                /\ Storage' /\ Grows(disk, disk') /\ Grows(Working, Working')
                /\ Working' = [users |-> U, messages |-> M]
<1>1. disk \in Tables /\ Working \in Tables
  BY DEF DatabaseTypeOK, Working, Tables
<1>2. Grows(disk, disk) /\ Grows(Working, Working)
  BY <1>1, GrowsOrder
<1>3. ASSUME UNCHANGED dbVars \/ BeginTransaction \/ EndTransaction
      PROVE  Storage' /\ Grows(disk, disk') /\ UNCHANGED Working
  <2>1. UNCHANGED Working
    BY <1>3 DEF Working, dbVars, BeginTransaction, EndTransaction
  <2>2. CASE UNCHANGED dbVars \/ BeginTransaction
    <3>1. disk' = disk /\ (~inTransaction' => ~inTransaction)
      BY <2>2 DEF dbVars, BeginTransaction
    <3>2. QED
      BY <1>2, <2>1, <3>1 DEF Storage, Committed, Grows
  <2>3. CASE EndTransaction
    <3>1. disk' = Working
      BY <2>3 DEF EndTransaction, Storage, Committed
    <3>2. QED
      BY <1>2, <2>1, <3>1 DEF Storage, Committed, Grows
  <2>4. QED
    BY <1>3, <2>1, <2>2, <2>3
<1>4. ASSUME Rollback
      PROVE  Storage' /\ UNCHANGED disk
  <2>1. disk' = disk /\ Working' = [users |-> disk.users, messages |-> disk.messages]
    BY <1>4 DEF Rollback, Working
  <2>2. [users |-> disk.users, messages |-> disk.messages] = disk
    BY <1>1 DEF Tables
  <2>3. QED
    BY <1>2, <2>1, <2>2 DEF Storage, Committed, Grows
<1>5. ASSUME NEW U \in Users, NEW M \in Seq(Message), Write(U, M),
             Grows(Working, [users |-> U, messages |-> M])
      PROVE  /\ Storage' /\ Grows(disk, disk') /\ Grows(Working, Working')
             /\ Working' = [users |-> U, messages |-> M]
  <2> DEFINE W == [users |-> U, messages |-> M]
  <2>1. Working' = W /\ W \in Tables
    BY <1>5 DEF Write, Working, Tables
  <2>2. Grows(Working, Working')
    BY <1>5, <2>1 DEF Grows
  <2>3. CASE inTransaction
    <3>1. disk' = disk /\ inTransaction'
      BY <1>5, <2>3 DEF Write
    <3>2. Grows(disk, W)
      BY <1>1, <1>5, <2>1, GrowsOrder DEF Storage
    <3>3. QED
      BY <1>2, <2>1, <2>2, <3>1, <3>2 DEF Storage, Committed, Grows
  <2>4. CASE ~inTransaction
    <3>1. disk' = W /\ disk = Working
      BY <1>5, <2>4 DEF Write, Storage, Committed
    <3>2. Grows(W, W)
      BY <2>1, GrowsOrder
    <3>3. QED
      BY <1>5, <2>1, <2>2, <3>1, <3>2 DEF Storage, Committed, Grows
  <2>5. QED
    BY <2>1, <2>2, <2>3, <2>4
<1>6. QED
  BY <1>3, <1>4, <1>5

\* A step of a thread that meets no storage error loses nothing.
LEMMA ThreadStorage ==
  ASSUME ServerTypeOK, StageFits, Storage, NEW t \in Thread,
         ThreadStep(Request, t), ~Fault(t)
  PROVE  Storage' /\ Grows(disk, disk') /\ Grows(Working, Working')
<1>1. DatabaseTypeOK /\ Working \in Tables
  BY DEF ServerTypeOK, DatabaseTypeOK, Working, Tables
<1>2. Grows(Working, Working)
  BY <1>1, GrowsOrder
<1>3. ASSUME UNCHANGED dbVars \/ BeginTransaction \/ EndTransaction
      PROVE  Storage' /\ Grows(disk, disk') /\ Grows(Working, Working')
  <2>1. Storage' /\ Grows(disk, disk') /\ UNCHANGED Working
    BY <1>1, <1>3, ConnectionStorage
  <2>2. QED
    BY <1>2, <2>1 DEF Grows
<1>4. ASSUME pc[t] = "exec"
      PROVE  /\ request[t].user \in Username /\ request[t].password \in Password
             /\ request[t].peer \in Username /\ request[t].message \in Text
             /\ request[t].replyId \in Nat \cup {NoReply}
  BY <1>4 DEF ServerTypeOK, Request
<1>5. CASE InsertUser(t)
  <2>1. CASE UNCHANGED dbVars
    BY <1>3, <2>1
  <2>2. CASE /\ UserInsertable(request[t].user)
             /\ InsertUserRow(request[t].user, request[t].password)
    <3>1. [users EXCEPT ![request[t].user] = request[t].password] \in Users
      BY <1>1, <1>4, <1>5 DEF InsertUser, DatabaseTypeOK, Users
    <3>2. QED
      BY <1>1, <1>4, <1>5, <2>2, <3>1, WritesGrow, ConnectionStorage
      DEF InsertUser, InsertUserRow, DatabaseTypeOK
  <2>3. QED
    BY <1>5, <2>1, <2>2 DEF InsertUser
<1>6. CASE InsertMessage(t)
  <2> DEFINE r == request[t]
             m == [sender |-> r.user, receiver |-> r.peer, message |-> r.message,
                   read |-> 0, replyId |-> r.replyId]
  <2>1. m \in Message
    BY <1>4, <1>6 DEF InsertMessage, Message
  <2>2. Append(messages, m) \in Seq(Message)
    BY <1>1, <2>1 DEF DatabaseTypeOK
  <2>3. Write(users, Append(messages, m))
    BY <1>6 DEF InsertMessage, InsertMessageRow
  <2>4. QED
    BY <1>1, <2>2, <2>3, WritesGrow, ConnectionStorage DEF DatabaseTypeOK
<1>7. CASE UpdateMessage(t)
  <2> DEFINE id == Head(request[t].ids)
             M == [i \in DOMAIN messages |->
                     IF i = id THEN [messages[i] EXCEPT !.read = 1] ELSE messages[i]]
  <2>1. M \in Seq(Message)
    <3>1. DOMAIN messages = 1 .. Len(messages) /\ Len(messages) \in Nat
      BY <1>1 DEF DatabaseTypeOK
    <3>2. \A i \in DOMAIN messages : messages[i] \in Message
      BY <1>1 DEF DatabaseTypeOK
    <3>3. \A x \in Message : [x EXCEPT !.read = 1] \in Message
      BY DEF Message
    <3>4. M \in [1 .. Len(messages) -> Message]
      BY <3>1, <3>2, <3>3
    <3>5. QED
      BY <3>1, <3>4
  <2>2. Write(users, M)
    BY <1>7 DEF UpdateMessage, UpdateMessageRow
  <2>3. Grows(Working, [users |-> users, messages |-> M])
    BY <1>1, WritesGrow
  <2>4. QED
    BY <1>1, <2>1, <2>2, <2>3, ConnectionStorage DEF DatabaseTypeOK
<1>8. CASE Begin(t) \/ End(t)
  BY <1>3, <1>8 DEF Begin, End
<1>9. CASE \/ Receive(t) \/ Login(t) \/ CheckName(t) \/ CheckUser(t)
           \/ CountUsers(t) \/ CountMessages(t)
  BY <1>3, <1>9
  DEF Receive, Login, CheckName, CheckUser, CountUsers, CountMessages, Answer, Continue
<1>10. CASE ScanUsers(t) \/ CountUnread(t) \/ ScanMessages(t)
  BY <1>3, <1>10 DEF ScanUsers, CountUnread, ScanMessages, Answer, Continue
<1>11. CASE \/ Accept(t) \/ Disconnected(t) \/ SendLost(t)
            \/ \E r \in Request : Arrive(t, r)
            \/ \E next \in Request \cup {Idle} : Send(t, next)
  BY <1>3, <1>11 DEF Accept, Disconnected, SendLost, Arrive, Send
<1>12. QED
  BY <1>5, <1>6, <1>7, <1>8, <1>9, <1>10, <1>11 DEF ThreadStep, Process

\* No step at all takes anything out of the file.
LEMMA StepStorage ==
  ASSUME ServerTypeOK, StageFits, Storage, ServerStep(Request)
  PROVE  Storage' /\ Grows(disk, disk')
<1>1. CASE Rollback
  <2>1. Storage' /\ disk' = disk
    BY <1>1, ConnectionStorage DEF ServerTypeOK
  <2>2. Grows(disk, disk)
    BY GrowsOrder DEF ServerTypeOK, DatabaseTypeOK
  <2>3. QED
    BY <2>1, <2>2 DEF Grows
<1>2. ASSUME NEW t \in Thread, ThreadStep(Request, t)
      PROVE  Storage' /\ Grows(disk, disk')
  BY <1>1, <1>2, ThreadStorage DEF Fault, ExecFails, CommitFails
<1>3. QED
  BY <1>1, <1>2 DEF ServerStep, Crash

-----------------------------------------------------------------------------
(* Durability, when the storage does not fail.                             *)

\* The image T holds what request r was answered 201 (reply a) for.
Recorded(T, r, a) ==
  /\ r.command = "Register" => T.users[r.user] = r.password
  /\ r.command = "Insert_Message" =>
       /\ a.id \in DOMAIN T.messages
       /\ T.messages[a.id].sender = r.user
       /\ T.messages[a.id].receiver = r.peer
       /\ T.messages[a.id].message = r.message
       /\ T.messages[a.id].replyId = r.replyId

\* A 201 that is not sent yet stands for rows that statements see, and that are
\* in the file once the thread is past its END.
InFlight ==
  \A t \in Thread : reply[t].status = 201 =>
    /\ pc[t] = "end" => Recorded(Working, request[t], reply[t])
    /\ pc[t] = "send" => Recorded(disk, request[t], reply[t])

DurableInv ==
  ServerTypeOK /\ StageFits /\ Storage /\ InFlight /\ AcknowledgedIsDurable

\* What a file holds of an answered request, a file grown from it holds.
LEMMA RecordedGrows ==
  ASSUME NEW T \in Tables, NEW S \in Tables, Grows(T, S),
         NEW r \in Request, NEW a \in Reply, Recorded(T, r, a)
  PROVE  Recorded(S, r, a)
<1>1. r.user \in Username /\ r.password \in Password /\ None \notin Password
  BY DatabaseAssumption DEF Request, DatabaseAssumption
<1>2. ASSUME r.command = "Register"
      PROVE  S.users[r.user] = r.password
  BY <1>1, <1>2 DEF Recorded, Grows
<1>3. ASSUME r.command = "Insert_Message"
      PROVE  /\ a.id \in DOMAIN S.messages
             /\ S.messages[a.id].sender = T.messages[a.id].sender
             /\ S.messages[a.id].receiver = T.messages[a.id].receiver
             /\ S.messages[a.id].message = T.messages[a.id].message
             /\ S.messages[a.id].replyId = T.messages[a.id].replyId
  <2>1. T.messages \in Seq(Message) /\ S.messages \in Seq(Message)
    BY DEF Tables
  <2>2. a.id \in DOMAIN T.messages
    BY <1>3 DEF Recorded
  <2>3. a.id \in DOMAIN S.messages /\ T.messages[a.id] \in Message
    BY <2>1, <2>2 DEF Grows
  <2>4. S.messages[a.id] \in {T.messages[a.id], [T.messages[a.id] EXCEPT !.read = 1]}
    BY <2>2 DEF Grows
  <2>5. QED
    BY <2>3, <2>4 DEF Message
<1>4. QED
  BY <1>2, <1>3 DEF Recorded

\* A step that answers nobody and takes nothing out of the file keeps what
\* was acknowledged in it.
LEMMA AcknowledgedGrows ==
  ASSUME ServerTypeOK, AcknowledgedIsDurable, ServerTypeOK', Grows(disk, disk'),
         UNCHANGED <<registered, sent>>
  PROVE  AcknowledgedIsDurable'
<1>1. disk \in Tables /\ disk' \in Tables /\ None \notin Password
  BY DatabaseAssumption DEF ServerTypeOK, DatabaseTypeOK, DatabaseAssumption, Tables
<1>2. ASSUME NEW a \in registered
      PROVE  disk'.users[a.user] = a.password
  <2>1. a.user \in Username /\ a.password \in Password
    BY <1>2 DEF ServerTypeOK, Account
  <2>2. QED
    BY <1>1, <1>2, <2>1 DEF AcknowledgedIsDurable, Grows
<1>3. ASSUME NEW s \in sent
      PROVE  /\ s.id \in DOMAIN disk'.messages
             /\ disk'.messages[s.id].sender = s.sender
             /\ disk'.messages[s.id].receiver = s.receiver
             /\ disk'.messages[s.id].message = s.message
             /\ disk'.messages[s.id].replyId = s.replyId
  <2>1. disk.messages \in Seq(Message) /\ disk'.messages \in Seq(Message)
    BY <1>1 DEF Tables
  <2>2. s.id \in DOMAIN disk.messages
    BY <1>3 DEF AcknowledgedIsDurable
  <2>3. s.id \in DOMAIN disk'.messages /\ disk.messages[s.id] \in Message
    BY <2>1, <2>2 DEF Grows
  <2>4. disk'.messages[s.id] \in {disk.messages[s.id], [disk.messages[s.id] EXCEPT !.read = 1]}
    BY <2>2 DEF Grows
  <2>5. QED
    BY <1>3, <2>3, <2>4 DEF Message, AcknowledgedIsDurable
<1>4. QED
  BY <1>2, <1>3 DEF AcknowledgedIsDurable

\* The strengthened durability invariant is inductive.
LEMMA StepDurable ==
  ASSUME faults' = 0, DurableInv, ServerStep(Request)
  PROVE  DurableInv'
<1> USE DEF DurableInv
<1>1. ServerTypeOK' /\ StageFits' /\ Storage' /\ Grows(disk, disk')
  BY StepTyping, StepStageFits, StepStorage
<1>2. /\ disk \in Tables /\ disk' \in Tables
      /\ Working \in Tables /\ Working' \in Tables
  BY <1>1 DEF ServerTypeOK, DatabaseTypeOK, Working, Tables
<1>3. CASE Crash
  <2>1. InFlight'
    BY <1>3 DEF Crash, InFlight, Blank
  <2>2. AcknowledgedIsDurable'
    BY <1>1, <1>3, AcknowledgedGrows DEF Crash, historyVars
  <2>3. QED
    BY <1>1, <2>1, <2>2
<1>4. ASSUME NEW t \in Thread, ThreadStep(Request, t)
      PROVE  InFlight' /\ AcknowledgedIsDurable'
  <2>1. ~Fault(t)
    BY DEF Fault, ExecFails, CommitFails, ServerTypeOK
  <2>2. Grows(Working, Working')
    BY <1>4, <2>1, ThreadStorage
  <2> DEFINE Good(s) == reply[s].status = 201 =>
               /\ pc[s] = "end" => Recorded(Working, request[s], reply[s])
               /\ pc[s] = "send" => Recorded(disk, request[s], reply[s])
  <2>3. \A s \in Thread \ {t} : Good(s)'
    <3> SUFFICES ASSUME NEW s \in Thread \ {t}, reply[s].status = 201,
                        pc[s] \in {"end", "send"}
                 PROVE  Good(s)'
      BY <1>4, OthersUntouched
    <3>1. request[s] \in Request /\ reply[s] \in Reply
      BY DEF ServerTypeOK
    <3>2. Good(s)
      BY DEF InFlight
    <3>3. /\ pc[s] = "end" => Recorded(Working', request[s], reply[s])
          /\ pc[s] = "send" => Recorded(disk', request[s], reply[s])
      BY <1>1, <1>2, <2>2, <3>1, <3>2, RecordedGrows
    <3>4. QED
      BY <1>4, <3>3, OthersUntouched DEF Recorded
  <2>4. ASSUME Good(t)', UNCHANGED <<registered, sent>>
        PROVE  InFlight' /\ AcknowledgedIsDurable'
    <3>1. InFlight'
      BY <2>3, <2>4 DEF InFlight
    <3>2. QED
      BY <1>1, <2>4, <3>1, AcknowledgedGrows
  <2>5. ASSUME NEW a, Answer(t, a), a.status # 201
        PROVE  InFlight' /\ AcknowledgedIsDurable'
    <3>1. reply'[t] = a /\ UNCHANGED <<registered, sent>>
      BY <2>5 DEF Answer, historyVars, ServerTypeOK
    <3>2. QED
      BY <2>4, <2>5, <3>1
  <2>6. ASSUME pc'[t] \notin {"end", "send"}, UNCHANGED <<registered, sent>>
        PROVE  InFlight' /\ AcknowledgedIsDurable'
    BY <2>4, <2>6
  <2>8. CASE Receive(t)
    <3>1. \A code \in Nat : Status(code).status = code
      BY DEF Status, Blank
    <3>2. Refusal(request[t]) \in {0, 200, 401, 409}
      BY DEF Refusal
    <3>3. CASE \/ Answer(t, Status(Refusal(request[t])))
               \/ Answer(t, Status(200))
      BY <2>5, <3>1, <3>2, <3>3
    <3>4. CASE /\ Refusal(request[t]) = 0
               /\ Continue(t, Handler[request[t].command])
      <4>1. request[t].command \in DOMAIN Handler
        BY <2>8, <3>4 DEF Receive, Refusal, Request, Command, ServerTypeOK
      <4>2. pc'[t] \notin {"end", "send"} /\ UNCHANGED <<registered, sent>>
        BY <3>4, <4>1 DEF Continue, Handler, historyVars, ServerTypeOK
      <4>3. QED
        BY <2>6, <4>2
    <3>5. QED
      BY <2>8, <3>3, <3>4 DEF Receive
  <2>9. CASE Login(t) \/ CheckName(t) \/ CheckUser(t) \/ CountUsers(t) \/ CountMessages(t)
    <3>1. \A code \in Nat : Status(code).status = code
      BY DEF Status, Blank
    <3>3. CASE \E a : Answer(t, a) /\ a.status # 201
      BY <2>5, <3>3
    <3>4. CASE Continue(t, "begin") \/ Continue(t, "names")
      BY <2>6, <3>4 DEF Continue, historyVars, ServerTypeOK
    <3>5. CASE CheckUser(t) /\ Continue(t, AfterCheck[request[t].command])
      <4>1. request[t].command \in DOMAIN AfterCheck
        BY <3>5 DEF CheckUser, StageFits
      <4>2. pc'[t] \notin {"end", "send"} /\ UNCHANGED <<registered, sent>>
        BY <3>5, <4>1 DEF Continue, AfterCheck, historyVars, ServerTypeOK
      <4>3. QED
        BY <2>6, <4>2
    <3>6. CASE Login(t)
      BY <3>1, <3>3, <3>6 DEF Login
    <3>7. CASE CheckName(t)
      BY <3>1, <3>3, <3>4, <3>7 DEF CheckName
    <3>8. CASE CheckUser(t)
      BY <3>1, <3>3, <3>5, <3>8 DEF CheckUser
    <3>9. CASE CountUsers(t)
      <4> DEFINE a == [Status(200) EXCEPT !.count = GetUsersCount]
      <4>1. Answer(t, Status(500)) \/ Answer(t, a) \/ Continue(t, "names")
        BY <3>9 DEF CountUsers
      <4>2. a.status # 201 /\ Status(500).status # 201
        BY DEF Status, Blank
      <4> HIDE DEF a
      <4>3. QED
        BY <2>5, <3>4, <4>1, <4>2
    <3>10. CASE CountMessages(t)
      <4> DEFINE n == GetMessagesCountBetweenUsers(request[t].user, request[t].peer)
      <4> DEFINE a == [Status(200) EXCEPT !.count = n]
      <4>1. Answer(t, a)
        BY <3>10 DEF CountMessages
      <4>2. a.status # 201
        BY DEF Status, Blank
      <4> HIDE DEF a
      <4>3. QED
        BY <2>5, <4>1, <4>2
    <3>11. QED
      BY <2>9, <3>6, <3>7, <3>8, <3>9, <3>10
  <2>10. CASE ScanUsers(t) \/ CountUnread(t) \/ ScanMessages(t)
    <3>1. CASE \E a : Answer(t, a) /\ a.status # 201
      BY <2>5, <3>1
    <3>2. CASE pc'[t] \in {"names", "unread", "rows"} /\ UNCHANGED <<registered, sent>>
      BY <2>6, <3>2
    <3>3. reply[t] \in Reply
      BY DEF ServerTypeOK
    <3>4. \A a \in Reply : \A n :
                             /\ [a EXCEPT !.status = 200].status # 201
                             /\ [[a EXCEPT !.unread = Append(@, n)] EXCEPT !.status = 200].status # 201
      BY DEF Reply
    <3>5. Status(200).status # 201
      BY DEF Status, Blank
    <3>6. CASE ScanUsers(t)
      BY <3>1, <3>2, <3>5, <3>6 DEF ScanUsers, Continue, historyVars, ServerTypeOK
    <3>7. CASE CountUnread(t)
      <4> DEFINE n == GetUnreadMessagesCountBetweenUsers(request[t].user,
                        reply[t].names[Len(reply[t].unread) + 1])
                 filled == [reply[t] EXCEPT !.unread = Append(@, n)]
      <4>1. \/ Answer(t, [filled EXCEPT !.status = 200])
            \/ pc[t] = "unread" /\ UNCHANGED <<pc, historyVars>>
        BY <3>7 DEF CountUnread
      <4>2. [filled EXCEPT !.status = 200].status # 201
        BY <3>3, <3>4
      <4>3. QED
        BY <2>5, <3>2, <4>1, <4>2 DEF historyVars
    <3>8. CASE ScanMessages(t)
      <4>1. \/ Answer(t, [reply[t] EXCEPT !.status = 200])
            \/ pc[t] = "rows" /\ UNCHANGED <<pc, historyVars>>
        BY <3>8 DEF ScanMessages
      <4>2. [reply[t] EXCEPT !.status = 200].status # 201
        BY <3>3, <3>4
      <4>3. QED
        BY <2>5, <3>2, <4>1, <4>2 DEF historyVars
    <3>9. QED
      BY <2>10, <3>6, <3>7, <3>8
  <2>11. CASE Begin(t) \/ UpdateMessage(t)
    <3>1. Status(200).status # 201
      BY DEF Status, Blank
    <3>2. QED
      BY <2>4, <2>6, <2>11, <3>1 DEF Begin, UpdateMessage, historyVars, ServerTypeOK
  <2>12. CASE InsertUser(t)
    <3>1. /\ pc'[t] = "end" /\ UNCHANGED <<request, registered, sent>>
          /\ request[t] \in Request /\ request[t].command = "Register"
      BY <2>12 DEF InsertUser, historyVars, ServerTypeOK
    <3>2. CASE reply'[t].status = 201
      <4>1. InsertUserRow(request[t].user, request[t].password)
        BY <2>12, <3>2 DEF InsertUser, Status, Blank, ServerTypeOK
      <4>2. Working'.users[request[t].user] = request[t].password
        BY <3>1, <4>1 DEF InsertUserRow, Write, Working, ServerTypeOK, DatabaseTypeOK, Users, Request
      <4>3. Good(t)'
        BY <3>1, <4>2 DEF Recorded
      <4>4. QED
        BY <2>4, <3>1, <4>3
    <3>3. CASE reply'[t].status # 201
      BY <2>4, <3>1, <3>3
    <3>4. QED
      BY <3>2, <3>3
  <2>13. CASE InsertMessage(t)
    <3> DEFINE r == request[t]
               m == [sender |-> r.user, receiver |-> r.peer, message |-> r.message,
                     read |-> 0, replyId |-> r.replyId]
    <3>1. /\ pc'[t] = "end" /\ UNCHANGED <<request, registered, sent>>
          /\ r.command = "Insert_Message"
      BY <2>13 DEF InsertMessage, historyVars, ServerTypeOK
    <3>2. reply'[t].id = Len(messages) + 1
      BY <2>13 DEF InsertMessage, ServerTypeOK, Status, Blank
    <3>3. messages' = Append(messages, m) /\ messages \in Seq(Message)
      BY <2>13 DEF InsertMessage, InsertMessageRow, Write, ServerTypeOK, DatabaseTypeOK
    <3>4. /\ reply'[t].id \in DOMAIN Working'.messages
          /\ Working'.messages[reply'[t].id] = m
      BY <3>2, <3>3 DEF Working
    <3>5. Good(t)'
      BY <3>1, <3>4 DEF Recorded
    <3>6. QED
      BY <2>4, <3>1, <3>5
  <2>14. CASE End(t)
    <3>1. UNCHANGED <<reply, registered, sent>>
      BY <2>14 DEF End, AfterEnd, historyVars
    <3>2. CASE pc'[t] = "begin"
      BY <2>6, <3>1, <3>2
    <3>3. CASE pc'[t] = "send" /\ UNCHANGED request
      <4>1. disk' = Working
        BY <2>14 DEF End, EndTransaction, Storage, Committed
      <4>2. Good(t)'
        BY <2>14, <3>1, <3>3, <4>1 DEF End, InFlight, Recorded
      <4>3. QED
        BY <2>4, <3>1, <4>2
    <3>4. QED
      BY <2>14, <3>2, <3>3 DEF End, AfterEnd, ServerTypeOK
  <2>15. CASE Accept(t) \/ Disconnected(t) \/ SendLost(t) \/ \E r \in Request : Arrive(t, r)
    <3>1. pc'[t] \in {"off", "recv"} /\ UNCHANGED <<registered, sent>>
      BY <2>15 DEF Accept, Disconnected, SendLost, Arrive, historyVars, ServerTypeOK
    <3>2. QED
      BY <2>6, <3>1
  <2>16. ASSUME NEW next \in Request \cup {Idle}, Send(t, next)
         PROVE  InFlight' /\ AcknowledgedIsDurable'
    <3>1. disk' = disk /\ pc[t] = "send" /\ pc'[t] = "recv"
      BY <2>16 DEF Send, dbVars, ServerTypeOK
    <3>2. InFlight'
      BY <2>3, <3>1 DEF InFlight
    <3>3. reply[t].status = 201 => Recorded(disk, request[t], reply[t])
      BY <3>1 DEF InFlight
    <3>4. Acknowledge(request[t], reply[t])
      BY <2>16 DEF Send
    <3>5. ASSUME NEW a \in registered'
          PROVE  disk'.users[a.user] = a.password
      BY <3>1, <3>3, <3>4, <3>5 DEF Acknowledge, Recorded, AcknowledgedIsDurable
    <3>6. ASSUME NEW s \in sent'
          PROVE  /\ s.id \in DOMAIN disk'.messages
                 /\ disk'.messages[s.id].sender = s.sender
                 /\ disk'.messages[s.id].receiver = s.receiver
                 /\ disk'.messages[s.id].message = s.message
                 /\ disk'.messages[s.id].replyId = s.replyId
      BY <3>1, <3>3, <3>4, <3>6 DEF Acknowledge, Recorded, AcknowledgedIsDurable
    <3>7. QED
      BY <3>2, <3>5, <3>6 DEF AcknowledgedIsDurable
  <2>17. QED
    BY <1>4, <2>1, <2>8, <2>9, <2>10, <2>11, <2>12, <2>13, <2>14, <2>15, <2>16
    DEF ThreadStep, Process
<1>5. QED
  BY <1>1, <1>3, <1>4 DEF ServerStep

-----------------------------------------------------------------------------
(* No message without an addressee, when the storage does not fail.        *)

\* The part of NoOrphanMessage that a table image has.
Addressed(T) == \A i \in DOMAIN T.messages : T.users[T.messages[i].receiver] # None

\* An addressee that was checked is still there when the row is inserted.
PeerKnown ==
  \A t \in Thread :
    pc[t] \in {"begin", "exec"} /\ request[t].command = "Insert_Message" =>
      users[request[t].peer] # None

OrphanInv ==
  /\ ServerTypeOK /\ StageFits /\ Storage
  /\ PeerKnown /\ Addressed(Working) /\ Addressed(disk)

\* The file becomes what statements see, or stays.
LEMMA ThreadDisk ==
  ASSUME NEW t \in Thread, ThreadStep(Request, t), ~Fault(t)
  PROVE  disk' = disk \/ disk' = Working'
<1>1. ASSUME NEW U, NEW M, Write(U, M)
      PROVE  disk' = disk \/ disk' = Working'
  BY <1>1 DEF Write, Working
<1>2. CASE InsertUser(t) \/ InsertMessage(t) \/ UpdateMessage(t)
  BY <1>1, <1>2
  DEF InsertUser, InsertMessage, UpdateMessage, InsertUserRow, InsertMessageRow,
      UpdateMessageRow, dbVars
<1>3. CASE End(t)
  BY <1>3 DEF End, EndTransaction, Working
<1>4. CASE \/ Begin(t) \/ Receive(t) \/ Login(t) \/ CheckName(t) \/ CheckUser(t)
           \/ CountUsers(t) \/ CountMessages(t)
  BY <1>4
  DEF Begin, BeginTransaction, Receive, Login, CheckName, CheckUser, CountUsers,
      CountMessages, Answer, Continue, dbVars
<1>5. CASE ScanUsers(t) \/ CountUnread(t) \/ ScanMessages(t)
  BY <1>5 DEF ScanUsers, CountUnread, ScanMessages, Answer, Continue, dbVars
<1>6. CASE \/ Accept(t) \/ Disconnected(t) \/ SendLost(t)
           \/ \E r \in Request : Arrive(t, r)
           \/ \E next \in Request \cup {Idle} : Send(t, next)
  BY <1>6 DEF Accept, Disconnected, SendLost, Arrive, Send, dbVars
<1>7. QED
  BY <1>2, <1>3, <1>4, <1>5, <1>6 DEF ThreadStep, Process

\* Only InsertMessage adds a row, and it adds its own.
LEMMA ThreadRows ==
  ASSUME ServerTypeOK, NEW t \in Thread, ThreadStep(Request, t), ~Fault(t)
  PROVE  \/ Len(messages') = Len(messages)
         \/ /\ pc[t] = "exec" /\ request[t].command = "Insert_Message"
            /\ Len(messages') = Len(messages) + 1
            /\ messages'[Len(messages')].receiver = request[t].peer
<1>1. messages \in Seq(Message)
  BY DEF ServerTypeOK, DatabaseTypeOK
<1>2. CASE InsertMessage(t)
  <2> DEFINE r == request[t]
             m == [sender |-> r.user, receiver |-> r.peer, message |-> r.message,
                   read |-> 0, replyId |-> r.replyId]
  <2>1. messages' = Append(messages, m) /\ m.receiver = r.peer
    BY <1>2 DEF InsertMessage, InsertMessageRow, Write
  <2>2. QED
    BY <1>1, <1>2, <2>1 DEF InsertMessage
<1>3. CASE UpdateMessage(t)
  <2>1. DOMAIN messages' = DOMAIN messages
    BY <1>3 DEF UpdateMessage, UpdateMessageRow, Write
  <2>2. Len(messages') = Len(messages)
    BY <1>1, <2>1
  <2>3. QED
    BY <2>2
<1>4. CASE messages' = messages
  BY <1>4
<1>5. CASE InsertUser(t) \/ Begin(t) \/ End(t)
  BY <1>4, <1>5
  DEF InsertUser, InsertUserRow, Write, Begin, BeginTransaction, End, EndTransaction, dbVars
<1>6. CASE \/ Receive(t) \/ Login(t) \/ CheckName(t) \/ CheckUser(t)
           \/ CountUsers(t) \/ CountMessages(t)
  BY <1>4, <1>6
  DEF Receive, Login, CheckName, CheckUser, CountUsers, CountMessages, Answer, Continue, dbVars
<1>7. CASE ScanUsers(t) \/ CountUnread(t) \/ ScanMessages(t)
  BY <1>4, <1>7 DEF ScanUsers, CountUnread, ScanMessages, Answer, Continue, dbVars
<1>8. CASE \/ Accept(t) \/ Disconnected(t) \/ SendLost(t)
           \/ \E r \in Request : Arrive(t, r)
           \/ \E next \in Request \cup {Idle} : Send(t, next)
  BY <1>4, <1>8 DEF Accept, Disconnected, SendLost, Arrive, Send, dbVars
<1>9. QED
  BY <1>2, <1>3, <1>5, <1>6, <1>7, <1>8 DEF ThreadStep, Process

\* A thread starts to insert a message only after it has seen the addressee.
LEMMA ThreadChecksPeer ==
  ASSUME ServerTypeOK, StageFits, NEW t \in Thread, ThreadStep(Request, t), ~Fault(t),
         pc'[t] \in {"begin", "exec"}, request'[t].command = "Insert_Message"
  PROVE  /\ request'[t] = request[t] /\ users' = users
         /\ \/ pc[t] \in {"begin", "exec"}
            \/ users[request[t].peer] # None
<1>1. CASE Receive(t)
  <2>1. request'[t] = request[t] /\ request[t] \in Request
    BY <1>1 DEF Receive, Answer, Continue, ServerTypeOK
  <2>2. pc'[t] = "send" \/ pc'[t] = Handler["Insert_Message"]
    BY <1>1, <2>1 DEF Receive, Answer, Continue, ServerTypeOK
  <2>3. QED
    BY <2>2 DEF Handler
<1>2. CASE CheckUser(t)
  <2>1. request'[t] = request[t] /\ users' = users
    BY <1>2 DEF CheckUser, Answer, Continue, ServerTypeOK, dbVars
  <2>2. Checked(request[t]) = request[t].peer
    BY <2>1 DEF Checked
  <2>3. GetUsersCountByUsername(request[t].peer) = 1
    BY <1>2, <2>2 DEF CheckUser, Answer, ServerTypeOK
  <2>4. QED
    BY <2>1, <2>3 DEF GetUsersCountByUsername
<1>3. CASE CheckName(t)
  BY <1>3 DEF CheckName, Answer, Continue, ServerTypeOK, StageFits
<1>4. CASE Begin(t)
  BY <1>4 DEF Begin, BeginTransaction, ServerTypeOK
<1>5. CASE \/ InsertUser(t) \/ InsertMessage(t) \/ UpdateMessage(t)
  BY <1>5 DEF InsertUser, InsertMessage, UpdateMessage, ServerTypeOK
<1>6. CASE End(t)
  <2>1. CASE request[t].command = "Update_Message_Read"
    <3>1. request[t] \in Request
      BY <1>6 DEF End, ServerTypeOK
    <3>2. [request[t] EXCEPT !.ids = Tail(@)].command = request[t].command
      BY <3>1 DEF Request
    <3>3. \/ request'[t] = request[t]
          \/ request'[t] = [request[t] EXCEPT !.ids = Tail(@)]
      BY <1>6 DEF End, AfterEnd, ServerTypeOK
    <3>4. QED
      BY <2>1, <3>2, <3>3
  <2>2. CASE request[t].command # "Update_Message_Read"
    BY <1>6, <2>2 DEF End, AfterEnd, ServerTypeOK
  <2>3. QED
    BY <2>1, <2>2
<1>7. CASE \/ Login(t) \/ CountUsers(t) \/ CountMessages(t)
           \/ ScanUsers(t) \/ CountUnread(t) \/ ScanMessages(t)
  BY <1>7
  DEF Login, CountUsers, CountMessages, ScanUsers, CountUnread, ScanMessages, Answer,
      Continue, ServerTypeOK
<1>8. CASE \/ Accept(t) \/ Disconnected(t) \/ SendLost(t)
           \/ \E r \in Request : Arrive(t, r)
           \/ \E next \in Request \cup {Idle} : Send(t, next)
  BY <1>8 DEF Accept, Disconnected, SendLost, Arrive, Send, ServerTypeOK
<1>9. QED
  BY <1>1, <1>2, <1>3, <1>4, <1>5, <1>6, <1>7, <1>8 DEF ThreadStep, Process

\* The strengthened NoOrphanMessage is inductive.
LEMMA StepNoOrphan ==
  ASSUME faults' = 0, OrphanInv, ServerStep(Request)
  PROVE  OrphanInv'
<1> USE DEF OrphanInv
<1>1. ServerTypeOK' /\ StageFits' /\ Storage'
  BY StepTyping, StepStageFits, StepStorage
<1>2. CASE Crash
  BY <1>1, <1>2 DEF Crash, Rollback, PeerKnown, Addressed, Working
<1>3. ASSUME NEW t \in Thread, ThreadStep(Request, t)
      PROVE  PeerKnown' /\ Addressed(Working)' /\ Addressed(disk)'
  <2>1. ~Fault(t)
    BY DEF Fault, ExecFails, CommitFails, ServerTypeOK
  <2>2. Grows(Working, Working')
    BY <1>3, <2>1, ThreadStorage
  <2>3. \A u \in Username : users[u] # None => users'[u] # None
    BY <2>2 DEF Grows, Working
  <2>4. PeerKnown'
    <3>1. ASSUME NEW s \in Thread \ {t}, pc'[s] \in {"begin", "exec"},
                 request'[s].command = "Insert_Message"
          PROVE  users'[request'[s].peer] # None
      <4>1. pc[s] = pc'[s] /\ request[s] = request'[s]
        BY <1>3, OthersUntouched
      <4>2. request[s].peer \in Username /\ users[request[s].peer] # None
        BY <3>1, <4>1 DEF PeerKnown, ServerTypeOK, Request
      <4>3. QED
        BY <2>3, <4>1, <4>2
    <3>2. ASSUME pc'[t] \in {"begin", "exec"}, request'[t].command = "Insert_Message"
          PROVE  users'[request'[t].peer] # None
      BY <1>3, <2>1, <3>2, ThreadChecksPeer DEF PeerKnown
    <3>3. QED
      BY <3>1, <3>2 DEF PeerKnown
  <2>5. Addressed(Working)'
    <3>1. /\ messages \in Seq(Message) /\ messages' \in Seq(Message)
      BY <1>1 DEF ServerTypeOK, DatabaseTypeOK
    <3>2. ASSUME NEW i \in DOMAIN messages
          PROVE  users'[messages'[i].receiver] # None
      <4>1. messages[i] \in Message /\ users[messages[i].receiver] # None
        BY <3>1 DEF Addressed, Working
      <4>2. messages'[i] \in {messages[i], [messages[i] EXCEPT !.read = 1]}
        BY <2>2 DEF Grows, Working
      <4>3. messages'[i].receiver = messages[i].receiver /\ messages[i].receiver \in Username
        BY <4>1, <4>2 DEF Message
      <4>4. QED
        BY <2>3, <4>1, <4>3
    <3>3. ASSUME Len(messages') = Len(messages) + 1, pc[t] = "exec",
                 request[t].command = "Insert_Message",
                 messages'[Len(messages')].receiver = request[t].peer
          PROVE  users'[messages'[Len(messages')].receiver] # None
      <4>1. request[t].peer \in Username /\ users[request[t].peer] # None
        BY <3>3 DEF PeerKnown, ServerTypeOK, Request
      <4>2. QED
        BY <2>3, <3>3, <4>1
    <3>4. \A i \in DOMAIN messages' : users'[messages'[i].receiver] # None
      BY <1>3, <2>1, <3>1, <3>2, <3>3, ThreadRows
    <3>5. QED
      BY <3>4 DEF Addressed, Working
  <2>6. Addressed(disk)'
    BY <1>3, <2>1, <2>5, ThreadDisk DEF Addressed
  <2>7. QED
    BY <2>4, <2>5, <2>6
<1>4. QED
  BY <1>1, <1>2, <1>3 DEF ServerStep
-----------------------------------------------------------------------------
(* The theorems.                                                           *)

\* The connection is inside a transaction only while some thread is between its
\* BEGIN and its END, with storage errors and crashes too.
THEOREM ServerTransactionHasWriter == ServerSpec => []TransactionHasWriter
<1> DEFINE Inv == Typing /\ TransactionHasWriter
<1>1. ServerInit => Inv
  BY InitTyping DEF ServerInit, TransactionHasWriter
<1>2. Inv /\ [ServerNext]_serverVars => Inv'
  <2> SUFFICES ASSUME Inv, [ServerNext]_serverVars
               PROVE  Inv'
    OBVIOUS
  <2>1. CASE ServerNext
    BY <2>1, NextIsStep, StepTyping, StepStageFits, StepHasWriter DEF Typing
  <2>2. CASE UNCHANGED serverVars
    BY <2>2, StutterTyping DEF serverVars, TransactionHasWriter, Writing
  <2>3. QED
    BY <2>1, <2>2
<1>3. QED
  BY <1>1, <1>2, PTL DEF ServerSpec

\* The tables start as the file is, which is as it has been committed.
LEMMA InitStorage == ServerInit => Typing /\ Storage
<1>1. ServerInit => Working = disk /\ Working \in Tables
  BY InitTyping DEF ServerInit, Working, Typing, ServerTypeOK, DatabaseTypeOK, Tables
<1>2. QED
  BY <1>1, InitTyping, GrowsOrder DEF Storage, Committed

\* Steps and stuttering keep the relation of the tables to the file.
LEMMA NextStorage ==
  ASSUME Typing, Storage, [ServerNext]_serverVars
  PROVE  Typing' /\ Storage' /\ Grows(disk, disk')
<1>1. CASE ServerNext
  BY <1>1, NextIsStep, StepTyping, StepStageFits, StepStorage DEF Typing
<1>2. CASE UNCHANGED serverVars
  <2>1. UNCHANGED dbVars
    BY <1>2 DEF serverVars, dbVars
  <2>2. QED
    BY <1>2, <2>1, StutterTyping, ConnectionStorage DEF Typing, ServerTypeOK
<1>3. QED
  BY <1>1, <1>2

\* Once no thread is between BEGIN and END, everything written is committed.
THEOREM ServerQuietMeansDurable == ServerSpec => []QuietMeansDurable
<1>1. Typing /\ Storage /\ [ServerNext]_serverVars => (Typing /\ Storage)'
  BY NextStorage
<1>2. Storage /\ TransactionHasWriter => QuietMeansDurable
  BY DEF Storage, Committed, TransactionHasWriter, QuietMeansDurable
<1>3. QED
  BY InitStorage, <1>1, <1>2, ServerTransactionHasWriter, PTL DEF ServerSpec

\* Nothing that was ever committed changes or disappears from the file, but for
\* the mark of a message that is read.
THEOREM ServerFileOnlyGrows == ServerSpec => FileOnlyGrows
<1>1. Typing /\ Storage /\ [ServerNext]_serverVars => (Typing /\ Storage)'
  BY NextStorage
<1>2. Typing /\ Storage /\ [ServerNext]_serverVars => [Grows(disk, disk')]_disk
  BY NextStorage
<1>3. QED
  BY InitStorage, <1>1, <1>2, PTL DEF ServerSpec, FileOnlyGrows

\* A storage error is never forgotten.
LEMMA StepFaultsStay ==
  ASSUME ServerTypeOK, ServerStep(Request), faults' = 0
  PROVE  faults = 0
<1>1. CASE Crash
  BY <1>1 DEF Crash
<1>2. ASSUME NEW t \in Thread, ThreadStep(Request, t)
      PROVE  faults = 0
  <2>1. CASE Fault(t)
    BY <2>1 DEF Fault, ExecFails, CommitFails, ServerTypeOK
  <2>2. CASE \/ Receive(t) \/ Login(t) \/ CheckName(t) \/ CheckUser(t)
             \/ CountUsers(t) \/ CountMessages(t)
    BY <2>2 DEF Receive, Login, CheckName, CheckUser, CountUsers, CountMessages,
                Answer, Continue, boundVars
  <2>3. CASE ScanUsers(t) \/ CountUnread(t) \/ ScanMessages(t)
    BY <2>3 DEF ScanUsers, CountUnread, ScanMessages, Answer, Continue, boundVars
  <2>4. CASE Begin(t) \/ InsertUser(t) \/ InsertMessage(t) \/ UpdateMessage(t) \/ End(t)
    BY <2>4 DEF Begin, InsertUser, InsertMessage, UpdateMessage, End, boundVars
  <2>5. CASE \/ Accept(t) \/ Disconnected(t) \/ SendLost(t)
             \/ \E r \in Request : Arrive(t, r)
             \/ \E next \in Request \cup {Idle} : Send(t, next)
    BY <2>5 DEF Accept, Disconnected, SendLost, Arrive, Send, boundVars
  <2>6. QED
    BY <1>2, <2>1, <2>2, <2>3, <2>4, <2>5 DEF ThreadStep, Process
<1>3. QED
  BY <1>1, <1>2 DEF ServerStep

LEMMA FaultsStay ==
  ASSUME ServerTypeOK, [ServerNext]_serverVars, faults' = 0
  PROVE  faults = 0
BY StepFaultsStay, NextIsStep DEF serverVars

\* The inductive invariants of the two theorems below.
SafeUntilFault ==
  Typing /\ Storage /\ (faults = 0 => DurableInv) /\ (faults = 0 => OrphanInv)

LEMMA InitSafe == ServerInit => SafeUntilFault
<1>1. ServerInit => InFlight /\ AcknowledgedIsDurable
  BY DEF ServerInit, InFlight, AcknowledgedIsDurable, Blank
<1>2. ServerInit => PeerKnown /\ Addressed(Working) /\ Addressed(disk)
  BY ServerAssumption
  DEF ServerInit, PeerKnown, Addressed, Working, ServerAssumption
<1>3. QED
  BY <1>1, <1>2, InitStorage DEF SafeUntilFault, DurableInv, OrphanInv, Typing

LEMMA NextSafe ==
  ASSUME SafeUntilFault, [ServerNext]_serverVars
  PROVE  SafeUntilFault'
<1>1. Typing' /\ Storage'
  BY NextStorage DEF SafeUntilFault
<1>2. ASSUME faults' = 0
      PROVE  DurableInv /\ OrphanInv
  BY <1>2, FaultsStay DEF SafeUntilFault, Typing
<1>3. CASE ServerNext
  BY <1>1, <1>2, <1>3, NextIsStep, StepDurable, StepNoOrphan DEF SafeUntilFault
<1>4. CASE UNCHANGED serverVars
  <2>1. ASSUME DurableInv
        PROVE  InFlight' /\ AcknowledgedIsDurable'
    BY <1>4, <2>1
    DEF serverVars, DurableInv, InFlight, AcknowledgedIsDurable, Recorded, Working
  <2>2. ASSUME OrphanInv
        PROVE  PeerKnown' /\ Addressed(Working)' /\ Addressed(disk)'
    BY <1>4, <2>2 DEF serverVars, OrphanInv, PeerKnown, Addressed, Working
  <2>3. QED
    BY <1>1, <1>2, <2>1, <2>2 DEF SafeUntilFault, DurableInv, OrphanInv, Typing
<1>5. QED
  BY <1>3, <1>4

\* As long as the storage has not failed, whatever was answered 201 is in the
\* file, whichever thread's END put it there, and stays there across crashes.
THEOREM ServerAcknowledgedIsDurable == ServerSpec => []AcknowledgedUntilFault
<1>1. SafeUntilFault => AcknowledgedUntilFault
  BY DEF SafeUntilFault, DurableInv, AcknowledgedUntilFault
<1>2. QED
  BY InitSafe, NextSafe, <1>1, PTL DEF ServerSpec

\* As long as the storage has not failed, the file never holds a message to
\* somebody it holds no account of.
THEOREM ServerNoOrphanMessage == ServerSpec => []NoOrphanMessage
<1>1. SafeUntilFault => NoOrphanMessage
  BY DEF SafeUntilFault, OrphanInv, Addressed, NoOrphanMessage
<1>2. QED
  BY InitSafe, NextSafe, <1>1, PTL DEF ServerSpec
=============================================================================
