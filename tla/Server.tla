------------------------------- MODULE Server -------------------------------
(***************************************************************************)
(* The server (server.c): one thread per connection, each receiving a      *)
(* request, processing it with calls on the shared connection of module    *)
(* Database and sending the reply.  Every database call is one step, so    *)
(* the calls of different threads interleave in every order.               *)
(*                                                                         *)
(* The specification ServerSpec is open: clients send any request of       *)
(* Requests whenever a thread is ready for one, and leave at any time.     *)
(* Module Messenger replaces them by the real client.                      *)
(***************************************************************************)
EXTENDS Database

CONSTANTS
  Thread,         \* the connections that can be open at once
  Requests,       \* the requests clients send in ServerSpec
  StartUsers,     \* the database file the server opens when it starts
  StartMessages,
  MaxMessages,    \* bounds: rows of messages, crashes, storage faults
  MaxCrashes,
  MaxFaults

VARIABLES
  pc,             \* pc[t]: the next call of thread t, "off" when there is no thread
  request,        \* request[t]: what thread t received, or what waits in its socket
  reply,          \* reply[t]: what ProcessClientRequest has built so far
  registered,     \* history: the accounts whose registration was answered 201
  sent,           \* history: the messages whose insertion was answered 201
  crashes,
  faults

serverVars == <<users, messages, disk, inTransaction, pc, request, reply,
                registered, sent, crashes, faults>>

-----------------------------------------------------------------------------
(* Requests and replies.                                                   *)

\* The call that comes first in the handler of each command.
Handler == [Login |-> "lookup", Register |-> "name", View_Messages |-> "exists",
            View_Users |-> "exists", Get_Users_Count |-> "exists",
            Get_Messages_Count |-> "exists", Insert_Message |-> "exists",
            Update_Message_Read |-> "begin"]

\* The call that follows a successful "exists".
AfterCheck == [View_Messages |-> "rows", View_Users |-> "total",
               Get_Users_Count |-> "total", Get_Messages_Count |-> "count",
               Insert_Message |-> "begin"]

Command == DOMAIN Handler \cup {"Quit"}
Stage == {"off", "recv", "lookup", "name", "exists", "total", "count", "names",
          "unread", "rows", "begin", "exec", "end", "send"}

\* user is fields[0] and peer fields[1] of the content; a field that a command
\* does not send has any value.
Request == [command : Command, authorized : BOOLEAN, user : Username,
            password : Password, peer : Username, message : Text,
            replyId : Nat \cup {NoReply}, page : Nat, ids : Seq(Nat)]
Idle == [command |-> "Idle"]   \* nothing in the socket

Row == [id : Nat, sender : Username, read : {0, 1}, replyId : Nat \cup {NoReply}]
StatusCode == {0, 200, 201, 400, 401, 409, 500}   \* 0: no reply yet
Reply == [status : StatusCode, count : Nat,
          names : Seq(Username), unread : Seq(Nat), rows : Seq(Row), id : Nat]
Blank == [status |-> 0, count |-> 0, names |-> <<>>, unread |-> <<>>,
          rows |-> <<>>, id |-> 0]   \* id is history: the row just inserted

Account == [user : Username, password : Password]
Sent == [id : Nat, sender : Username, receiver : Username, message : Text,
         replyId : Nat \cup {NoReply}]

ASSUME ServerAssumption ==
  /\ Requests \subseteq Request
  /\ StartUsers \in Users
  /\ StartMessages \in Seq(Message)
  /\ \A i \in DOMAIN StartMessages : StartUsers[StartMessages[i].receiver] # None
  /\ {MaxMessages, MaxCrashes, MaxFaults} \subseteq Nat

\* The type of every variable of the server.
ServerTypeOK ==
  /\ DatabaseTypeOK
  /\ pc \in [Thread -> Stage]
  /\ request \in [Thread -> Request \cup {Idle}]
  /\ reply \in [Thread -> Reply]
  /\ \A t \in Thread : pc[t] \notin {"off", "recv"} => request[t] \in Request
  /\ registered \subseteq Account
  /\ sent \subseteq Sent
  /\ crashes \in 0 .. MaxCrashes
  /\ faults \in 0 .. MaxFaults

ServerInit ==
  /\ users = StartUsers
  /\ messages = StartMessages
  /\ disk = [users |-> StartUsers, messages |-> StartMessages]
  /\ inTransaction = FALSE
  /\ pc = [t \in Thread |-> "off"]
  /\ request = [t \in Thread |-> Idle]
  /\ reply = [t \in Thread |-> Blank]
  /\ registered = {}
  /\ sent = {}
  /\ crashes = 0
  /\ faults = 0

-----------------------------------------------------------------------------
(* The connections.                                                        *)

historyVars == <<registered, sent>>
boundVars == <<crashes, faults>>

\* accept() and pthread_create().
Accept(t) ==
  /\ pc[t] = "off"
  /\ pc' = [pc EXCEPT ![t] = "recv"]
  /\ UNCHANGED <<dbVars, request, reply, historyVars, boundVars>>

\* A row more for every insertion under way keeps the table within the bound.
Inserting == {t \in Thread : /\ request[t] # Idle
                             /\ request[t].command = "Insert_Message"
                             /\ pc[t] \in {"recv", "exists", "begin", "exec"}}
MayInsert == Len(messages) + Cardinality(Inserting) < MaxMessages

\* A request reaches the socket of a thread that has answered the last one.
Arrive(t, r) ==
  /\ pc[t] = "recv"
  /\ request[t] = Idle
  /\ r.command = "Insert_Message" => MayInsert
  /\ request' = [request EXCEPT ![t] = r]
  /\ UNCHANGED <<dbVars, pc, reply, historyVars, boundVars>>

\* recv() returns 0: the client has closed its end.
Disconnected(t) ==
  /\ pc[t] = "recv"
  /\ request[t] = Idle
  /\ pc' = [pc EXCEPT ![t] = "off"]
  /\ UNCHANGED <<dbVars, request, reply, historyVars, boundVars>>

\* The tail of a handler: control moves on, the reply may be filled in.
Continue(t, next) ==
  /\ pc' = [pc EXCEPT ![t] = next]
  /\ UNCHANGED <<dbVars, request, reply, historyVars, boundVars>>
Answer(t, answer) ==
  /\ pc' = [pc EXCEPT ![t] = "send"]
  /\ reply' = [reply EXCEPT ![t] = answer]
  /\ UNCHANGED <<dbVars, request, historyVars, boundVars>>
Status(code) == [Blank EXCEPT !.status = code]

\* The status of a request that reaches no handler, 0 for one that does.
Refusal(r) ==
  IF r.command = "Quit" THEN 200
  ELSE IF r.authorized /\ r.command \in {"Login", "Register"} THEN 409
  ELSE IF ~r.authorized /\ r.command \notin {"Login", "Register"} THEN 401
  ELSE 0

\* recv() and the dispatch of ProcessClientRequest.
Receive(t) ==
  /\ pc[t] = "recv"
  /\ request[t] # Idle
  /\ \/ /\ Refusal(request[t]) # 0
        /\ Answer(t, Status(Refusal(request[t])))
     \/ /\ Refusal(request[t]) = 0
        /\ request[t].command = "Update_Message_Read"
        /\ request[t].ids = <<>>
        /\ Answer(t, Status(200))
     \/ /\ Refusal(request[t]) = 0
        /\ request[t].command = "Update_Message_Read" => request[t].ids # <<>>
        /\ Continue(t, Handler[request[t].command])
-----------------------------------------------------------------------------
(* The queries of the handlers.                                            *)

\* ProccesLoginRequest.
Login(t) ==
  /\ pc[t] = "lookup"
  /\ LET found == GetUsersCountByUsernameAndPassword(request[t].user, request[t].password)
     IN  Answer(t, Status(IF found = 1 THEN 200 ELSE 401))

\* Mutant of CheckName: a name that is taken is not answered.
Unanswered(t) ==
  /\ pc[t] = "name"
  /\ Continue(t, IF GetUsersCountByUsername(request[t].user) > 0 THEN "recv" ELSE "begin")

\* ProccesRegisterRequest, up to InsertUser.
CheckName(t) ==
  /\ pc[t] = "name"
  /\ IF GetUsersCountByUsername(request[t].user) > 0
     THEN Answer(t, Status(409))
     ELSE Continue(t, "begin")

\* The user whose existence a handler checks first.
Checked(r) == IF r.command \in {"View_Users", "Get_Users_Count"} THEN r.user ELSE r.peer

\* Mutant of CheckUser: the check forgotten.
Unchecked(t) ==
  /\ pc[t] = "exists"
  /\ Continue(t, AfterCheck[request[t].command])

CheckUser(t) ==
  /\ pc[t] = "exists"
  /\ IF GetUsersCountByUsername(Checked(request[t])) # 1
     THEN Answer(t, Status(400))
     ELSE Continue(t, AfterCheck[request[t].command])

\* GetUsersCount in ProcessGetUsersCountRequest and ProcessViewUsersRequest.
CountUsers(t) ==
  /\ pc[t] = "total"
  /\ LET n == GetUsersCount
     IN  \/ n = 0 /\ Answer(t, Status(500))
         \/ /\ n > 0
            /\ request[t].command = "Get_Users_Count" \/ n = 1
            /\ Answer(t, [Status(200) EXCEPT !.count = n])
         \/ n > 1 /\ request[t].command = "View_Users" /\ Continue(t, "names")

\* ProcessGetMessagesCountRequest.
CountMessages(t) ==
  /\ pc[t] = "count"
  /\ LET n == GetMessagesCountBetweenUsers(request[t].user, request[t].peer)
     IN  Answer(t, [Status(200) EXCEPT !.count = n])

\* One sqlite3_step of GetUsernamesWhereNotEqualUsername.
ScanUsers(t) ==
  /\ pc[t] = "names"
  /\ LET r    == request[t]
         seen == reply[t].names
         next == NextUsername(r.user, seen, r.page)
     IN  \/ \E v \in next :
              /\ reply' = [reply EXCEPT ![t].names = Append(seen, v)]
              /\ UNCHANGED <<dbVars, pc, request, historyVars, boundVars>>
         \/ next = {} /\ seen # <<>> /\ Continue(t, "unread")
         \/ next = {} /\ seen = <<>> /\ Answer(t, Status(200))

\* One call of GetUnreadMessagesCountBetweenUsers in ProcessViewUsersRequest.
CountUnread(t) ==
  /\ pc[t] = "unread"
  /\ LET i      == Len(reply[t].unread) + 1
         n      == GetUnreadMessagesCountBetweenUsers(request[t].user, reply[t].names[i])
         filled == [reply[t] EXCEPT !.unread = Append(@, n)]
     IN  IF i = Len(reply[t].names)
         THEN Answer(t, [filled EXCEPT !.status = 200])
         ELSE /\ reply' = [reply EXCEPT ![t] = filled]
              /\ UNCHANGED <<dbVars, pc, request, historyVars, boundVars>>

\* One sqlite3_step of GetMessagesBetweenUsers.
ScanMessages(t) ==
  /\ pc[t] = "rows"
  /\ LET r    == request[t]
         seen == reply[t].rows
         next == NextMessage(r.user, r.peer, seen, r.page)
     IN  \/ \E i \in next :
              /\ reply' = [reply EXCEPT ![t].rows =
                             Append(seen, [id |-> i, sender |-> messages[i].sender,
                                           read |-> messages[i].read,
                                           replyId |-> messages[i].replyId])]
              /\ UNCHANGED <<dbVars, pc, request, historyVars, boundVars>>
         \/ next = {} /\ Answer(t, [reply[t] EXCEPT !.status = 200])

-----------------------------------------------------------------------------
(* InsertUser, InsertMessage and UpdateMessage: three calls each.          *)

Begin(t) ==
  /\ pc[t] = "begin"
  /\ BeginTransaction
  /\ pc' = [pc EXCEPT ![t] = "exec"]
  /\ UNCHANGED <<request, reply, historyVars, boundVars>>

\* Mutants of InsertUser, InsertMessage and UpdateMessage: a return without END,
\* on the error path or on the other one.
ErrorWithoutEnd(t) ==
  /\ pc[t] = "exec"
  /\ request[t].command = "Register"
  /\ IF UserInsertable(request[t].user)
     THEN /\ InsertUserRow(request[t].user, request[t].password)
          /\ reply' = [reply EXCEPT ![t] = Status(201)]
          /\ pc' = [pc EXCEPT ![t] = "end"]
     ELSE /\ UNCHANGED dbVars
          /\ reply' = [reply EXCEPT ![t] = Status(500)]
          /\ pc' = [pc EXCEPT ![t] = "send"]
  /\ UNCHANGED <<request, historyVars, boundVars>>
UserWithoutEnd(t) ==
  /\ pc[t] = "exec"
  /\ request[t].command = "Register"
  /\ IF UserInsertable(request[t].user)
     THEN /\ InsertUserRow(request[t].user, request[t].password)
          /\ reply' = [reply EXCEPT ![t] = Status(201)]
          /\ pc' = [pc EXCEPT ![t] = "send"]
     ELSE /\ UNCHANGED dbVars
          /\ reply' = [reply EXCEPT ![t] = Status(500)]
          /\ pc' = [pc EXCEPT ![t] = "end"]
  /\ UNCHANGED <<request, historyVars, boundVars>>
MarkWithoutEnd(t) ==
  /\ pc[t] = "exec"
  /\ request[t].command = "Update_Message_Read"
  /\ UpdateMessageRow(Head(request[t].ids))
  /\ reply' = [reply EXCEPT ![t] = Status(200)]
  /\ pc' = [pc EXCEPT ![t] = "send"]
  /\ UNCHANGED <<request, historyVars, boundVars>>

\* Mutant of InsertUser: a name that another thread has just taken counts as done.
ConflictAccepted(t) ==
  /\ pc[t] = "exec"
  /\ request[t].command = "Register"
  /\ IF UserInsertable(request[t].user)
     THEN InsertUserRow(request[t].user, request[t].password)
     ELSE UNCHANGED dbVars
  /\ reply' = [reply EXCEPT ![t] = Status(201)]
  /\ pc' = [pc EXCEPT ![t] = "end"]
  /\ UNCHANGED <<request, historyVars, boundVars>>

\* The INSERT into users fails on a name another thread registered since CheckName.
InsertUser(t) ==
  /\ pc[t] = "exec"
  /\ request[t].command = "Register"
  /\ IF UserInsertable(request[t].user)
     THEN /\ InsertUserRow(request[t].user, request[t].password)
          /\ reply' = [reply EXCEPT ![t] = Status(201)]
     ELSE /\ UNCHANGED dbVars
          /\ reply' = [reply EXCEPT ![t] = Status(500)]
  /\ pc' = [pc EXCEPT ![t] = "end"]
  /\ UNCHANGED <<request, historyVars, boundVars>>

InsertMessage(t) ==
  /\ pc[t] = "exec"
  /\ request[t].command = "Insert_Message"
  /\ LET r == request[t]
     IN  InsertMessageRow(r.user, r.peer, r.message, r.replyId)
  /\ reply' = [reply EXCEPT ![t] = [Status(201) EXCEPT !.id = Len(messages) + 1]]
  /\ pc' = [pc EXCEPT ![t] = "end"]
  /\ UNCHANGED <<request, historyVars, boundVars>>

UpdateMessage(t) ==
  /\ pc[t] = "exec"
  /\ request[t].command = "Update_Message_Read"
  /\ UpdateMessageRow(Head(request[t].ids))
  /\ reply' = [reply EXCEPT ![t] = Status(200)]
  /\ pc' = [pc EXCEPT ![t] = "end"]
  /\ UNCHANGED <<request, historyVars, boundVars>>

\* After END TRANSACTION: the next id of Update_Message_Read, or the reply.
AfterEnd(t) ==
  /\ \/ /\ request[t].command = "Update_Message_Read"
        /\ Len(request[t].ids) > 1
        /\ request' = [request EXCEPT ![t].ids = Tail(@)]
        /\ pc' = [pc EXCEPT ![t] = "begin"]
     \/ /\ request[t].command = "Update_Message_Read" => Len(request[t].ids) = 1
        /\ pc' = [pc EXCEPT ![t] = "send"]
        /\ UNCHANGED request
  /\ UNCHANGED <<reply, historyVars>>

End(t) ==
  /\ pc[t] = "end"
  /\ EndTransaction
  /\ AfterEnd(t)
  /\ UNCHANGED boundVars

\* A storage error in a statement or in a commit: SQLite rolls the transaction
\* back.  The statement's caller answers 500 (an update ignores it), the
\* commit's result is not looked at.
ExecFails(t) ==
  /\ faults < MaxFaults
  /\ pc[t] = "exec"
  /\ Rollback
  /\ faults' = faults + 1
  /\ reply' = [reply EXCEPT ![t] =
                 Status(IF request[t].command = "Update_Message_Read" THEN 200 ELSE 500)]
  /\ pc' = [pc EXCEPT ![t] = "end"]
  /\ UNCHANGED <<request, historyVars, crashes>>

CommitFails(t) ==
  /\ faults < MaxFaults
  /\ pc[t] = "end"
  /\ inTransaction
  /\ Rollback
  /\ faults' = faults + 1
  /\ AfterEnd(t)
  /\ UNCHANGED crashes

-----------------------------------------------------------------------------
(* The reply, and the end of the process.                                  *)

Acknowledge(r, a) ==
  /\ registered' = IF a.status = 201 /\ r.command = "Register"
                   THEN registered \cup {[user |-> r.user, password |-> r.password]}
                   ELSE registered
  /\ sent' = IF a.status = 201 /\ r.command = "Insert_Message"
             THEN sent \cup {[id |-> a.id, sender |-> r.user, receiver |-> r.peer,
                              message |-> r.message, replyId |-> r.replyId]}
             ELSE sent

\* send(); the client has the reply and may have sent its next request.
Send(t, next) ==
  /\ pc[t] = "send"
  /\ Acknowledge(request[t], reply[t])
  /\ next.command = "Insert_Message" => MayInsert
  /\ pc' = [pc EXCEPT ![t] = "recv"]
  /\ request' = [request EXCEPT ![t] = next]
  /\ reply' = [reply EXCEPT ![t] = Blank]
  /\ UNCHANGED <<dbVars, boundVars>>

\* send() to a client that has gone: the result is only logged.
SendLost(t) ==
  /\ pc[t] = "send"
  /\ pc' = [pc EXCEPT ![t] = "recv"]
  /\ request' = [request EXCEPT ![t] = Idle]
  /\ reply' = [reply EXCEPT ![t] = Blank]
  /\ UNCHANGED <<dbVars, historyVars, boundVars>>

\* The process dies and is started again on the same file.
Crash ==
  /\ crashes < MaxCrashes
  /\ crashes' = crashes + 1
  /\ Rollback
  /\ pc' = [t \in Thread |-> "off"]
  /\ request' = [t \in Thread |-> Idle]
  /\ reply' = [t \in Thread |-> Blank]
  /\ UNCHANGED <<historyVars, faults>>

\* What a thread does by itself once a request has arrived, up to the reply.
Process(t) ==
  \/ Receive(t) \/ Login(t) \/ CheckName(t) \/ CheckUser(t)
  \/ CountUsers(t) \/ CountMessages(t)
  \/ ScanUsers(t) \/ CountUnread(t) \/ ScanMessages(t)
  \/ Begin(t) \/ InsertUser(t) \/ InsertMessage(t) \/ UpdateMessage(t) \/ End(t)

Fault(t) == ExecFails(t) \/ CommitFails(t)

\* A step of thread t, and of its client, whose requests are in R.
ThreadStep(R, t) ==
  \/ Accept(t)
  \/ \E r \in R : Arrive(t, r)
  \/ Disconnected(t)
  \/ Process(t)
  \/ Fault(t)
  \/ \E next \in R \cup {Idle} : Send(t, next)
  \/ SendLost(t)

ServerStep(R) == Crash \/ \E t \in Thread : ThreadStep(R, t)

ServerNext == ServerStep(Requests)

ServerSpec == ServerInit /\ [][ServerNext]_serverVars

-----------------------------------------------------------------------------
(* Properties.                                                             *)

Writing(t) == pc[t] \in {"exec", "end"}

\* The connection is inside a transaction only while some thread is between
\* its BEGIN and its END: no interleaving of the three calls of InsertUser,
\* InsertMessage and UpdateMessage leaves a transaction open behind it.
TransactionHasWriter == inTransaction => \E t \in Thread : Writing(t)

\* Once no thread is between BEGIN and END, everything written is committed,
\* whichever thread's END committed it.
QuietMeansDurable == (\A t \in Thread : ~Writing(t)) => disk = Working

\* Every account and every message answered with 201 is in the database file,
\* with what its request said, from the answer on and across crashes, although
\* its own END may have failed because another thread's END came first.
AcknowledgedIsDurable ==
  /\ \A a \in registered : disk.users[a.user] = a.password
  /\ \A s \in sent : /\ s.id \in DOMAIN disk.messages
                     /\ disk.messages[s.id].sender = s.sender
                     /\ disk.messages[s.id].receiver = s.receiver
                     /\ disk.messages[s.id].message = s.message
                     /\ disk.messages[s.id].replyId = s.replyId

\* The same, as long as no statement and no commit has met a storage error.
AcknowledgedUntilFault == faults = 0 => AcknowledgedIsDurable

\* The file never holds a message to somebody it holds no account of: the
\* existence check of Insert_Message may see an uncommitted account, yet no
\* crash separates the two.  (A storage error does: it takes the account back,
\* and the message is then inserted.)
NoOrphanMessage ==
  faults = 0 =>
    \A i \in DOMAIN disk.messages : disk.users[disk.messages[i].receiver] # None

\* The server keeps the promise of WriteContract: each of its steps is one
\* commit, one acknowledgement of what is in the file and was not acknowledged
\* before (two clients that pass the check of ProccesRegisterRequest together
\* are never both told that the name is theirs), or nothing to the outside.
Contract == INSTANCE WriteContract WITH file <- disk, failed <- faults > 0
ImplementsContract == Contract!Spec

\* The rows of a View_Messages reply, read one sqlite3_step at a time while
\* other threads insert and mark, are consecutive in the conversation: none is
\* skipped, none comes twice, and a short page ends with the oldest message.  (A
\* rollback by a storage error may take back a row that is already on the page.)
PageHasNoGap ==
  \A t \in Thread :
    LET r == request[t]
        rows == reply[t].rows
    IN  faults = 0 /\ pc[t] = "send" /\ rows # <<>> =>
          /\ \A i \in DOMAIN rows : rows[i].id \in Conversation(r.user, r.peer)
          /\ \A i \in 1 .. Len(rows) - 1 :
               /\ rows[i + 1].id < rows[i].id
               /\ \A id \in Conversation(r.user, r.peer) :
                    ~(rows[i + 1].id < id /\ id < rows[i].id)
          /\ Len(rows) < PageSize =>
               \A id \in Conversation(r.user, r.peer) : id >= rows[Len(rows)].id

\* The users on a page are in order, registered, without the one who asks, and
\* each count is at most what that peer has sent so far.
UserPageIsSound ==
  \A t \in Thread :
    LET names == reply[t].names
    IN  faults = 0 /\ pc[t] = "send" /\ names # <<>> =>
          /\ \A i \in DOMAIN names : names[i] # request[t].user /\ users[names[i]] # None
          /\ \A i \in 1 .. Len(names) - 1 : names[i] < names[i + 1]
          /\ Len(reply[t].unread) = Len(names)
          /\ \A i \in DOMAIN names :
               reply[t].unread[i] <= Cardinality({k \in DOMAIN messages :
                 messages[k].sender = names[i] /\ messages[k].receiver = request[t].user})

\* Table image S is T after more rows, and more marks.
Grows(T, S) ==
  /\ \A u \in Username : T.users[u] # None => S.users[u] = T.users[u]
  /\ Len(T.messages) <= Len(S.messages)
  /\ \A i \in DOMAIN T.messages :
       S.messages[i] \in {T.messages[i], [T.messages[i] EXCEPT !.read = 1]}

\* A row of the file keeps its id, its sender, receiver, text and replyId for
\* ever, and is never unread again once it is read; an account keeps its
\* password.  No crash, failed commit or race takes anything out of the file.
FileOnlyGrows == [][Grows(disk, disk')]_disk

\* A transaction never stays open, however many threads write at once: some
\* END always comes and closes it.
TransactionEnds == inTransaction ~> ~inTransaction
=============================================================================
