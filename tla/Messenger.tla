----------------------------- MODULE Messenger ------------------------------
(***************************************************************************)
(* The whole program: the server of module Server and its real clients     *)
(* (client.c).  A client is a terminal UI that waits for a key, sends one  *)
(* request and blocks until the reply: its views, what each of them caches *)
(* (page counts, the rows on the screen) and the requests that follow from *)
(* a reply without a key being pressed are the state modelled here.        *)
(* client[t] is the client at the other end of the connection of thread t. *)
(***************************************************************************)
EXTENDS Server

VARIABLES
  client,   \* client[t]: view and cached data of the client of thread t
  shown     \* history: the messages that were rendered to their receiver

vars == <<serverVars, client, shown>>

\* Every row names a sender that has an account, and answers an older row of the
\* same two users or none.
Consistent(T) ==
  \A i \in DOMAIN T.messages :
    LET m == T.messages[i]
    IN  /\ T.users[m.sender] # None
        /\ m.replyId # NoReply =>
             /\ m.replyId \in 1 .. i - 1
             /\ Between(T.messages[m.replyId], m.sender, m.receiver)

\* Users can type a name, a password and a text.  The file is a new one or what
\* an earlier run has left, of which Consistent is an invariant.
ASSUME MessengerAssumption ==
  /\ Username # {} /\ Password # {} /\ Text # {}
  /\ Consistent([users |-> StartUsers, messages |-> StartMessages])

View == {"off", "first", "menu", "users", "talk"}

Client == [view : View,
           user : Username \cup {None},      \* loggedUsername; None: authorized is 0
           page : Nat, pages : Nat,          \* currentPage, usersPages
           names : SUBSET Username,          \* the users on the screen
           peer : Username \cup {None},      \* selectedUser
           mpage : Nat, mpages : Nat,        \* currentPage, messagesPages
           rows : SUBSET Nat]                \* the ids on the screen

Closed == [view |-> "off", user |-> None, page |-> 0, pages |-> 0, names |-> {},
           peer |-> None, mpage |-> 0, mpages |-> 0, rows |-> {}]
FirstPage == [Closed EXCEPT !.view = "first"]
Menu(c) == [FirstPage EXCEPT !.view = "menu", !.user = c.user]
UserList(c) == [c EXCEPT !.view = "users", !.peer = None, !.mpage = 0,
                         !.mpages = 0, !.rows = {}]

\* Mutant of PageCount: a page more when the last one is full.
PageCountTooLarge(n) == n \div PageSize + 1

PageCount(n) == IF n % PageSize = 0 THEN n \div PageSize ELSE n \div PageSize + 1

\* The client is in wgetch() or wgetnstr().
Waiting(t) == client[t].view # "off" /\ pc[t] = "recv" /\ request[t] = Idle

Init ==
  /\ ServerInit
  /\ client = [t \in Thread |-> Closed]
  /\ shown = {i \in DOMAIN StartMessages : StartMessages[i].read = 1}

-----------------------------------------------------------------------------
(* The requests of a client c.                                             *)

AnyName == CHOOSE u \in Username : TRUE

\* Before a login the content is "(null)"; the server does not look at it.
Ask(command, c) ==
  [command |-> command, authorized |-> c.user # None,
   user |-> IF c.user = None THEN AnyName ELSE c.user,
   password |-> CHOOSE p \in Password : TRUE,
   peer |-> IF c.peer = None THEN AnyName ELSE c.peer,
   message |-> CHOOSE m \in Text : TRUE, replyId |-> NoReply,
   page |-> 0, ids |-> <<>>]

Credentials(command, u, p) ==
  [Ask(command, FirstPage) EXCEPT !.user = u, !.password = p]
GetUsersCountRequest(c) == Ask("Get_Users_Count", c)
ViewUsers(c) == [Ask("View_Users", c) EXCEPT !.page = c.page]
GetMessagesCount(c) == Ask("Get_Messages_Count", c)
ViewMessages(c) == [Ask("View_Messages", c) EXCEPT !.page = c.mpage]
NewMessage(c, text, replyId) ==
  [Ask("Insert_Message", c) EXCEPT !.message = text, !.replyId = replyId]
\* The page of a conversation is fetched again, when there is one.
Refetch(c) == IF c.mpages > 0 THEN ViewMessages(c) ELSE Idle
UpdateRead(c, ids) == [Ask("Update_Message_Read", c) EXCEPT !.ids = ids]

\* Mutant of RedIds: the client's own messages count as unread ones.
RedOfAnyone(rows, user) ==
  LET ids[n \in 0 .. Len(rows)] ==
        IF n = 0 THEN <<>>
        ELSE IF rows[n].read = 0 THEN Append(ids[n - 1], rows[n].id)
        ELSE ids[n - 1]
  IN  ids[Len(rows)]

\* The ids of the rows drawn in red, the unread ones of the peer, in their order.
RedIds(rows, user) ==
  LET ids[n \in 0 .. Len(rows)] ==
        IF n = 0 THEN <<>>
        ELSE IF rows[n].read = 0 /\ rows[n].sender # user
             THEN Append(ids[n - 1], rows[n].id)
             ELSE ids[n - 1]
  IN  ids[Len(rows)]

-----------------------------------------------------------------------------
(* Keys.                                                                   *)

\* A request sent by a key, with what the client remembers when it waits.
Press(t, c, r) ==
  /\ Waiting(t)
  /\ Arrive(t, r)
  /\ client' = [client EXCEPT ![t] = c]
  /\ UNCHANGED shown

\* A key that only changes the view.
Turn(t, c) ==
  /\ Waiting(t)
  /\ client' = [client EXCEPT ![t] = c]
  /\ UNCHANGED <<serverVars, shown>>

Start(t) ==
  /\ client[t].view = "off"
  /\ Accept(t)
  /\ client' = [client EXCEPT ![t] = FirstPage]
  /\ UNCHANGED shown

\* RenderFirstPage.  A NUL key opens the second page without a login.
KeyFirst(t) ==
  /\ client[t].view = "first"
  /\ \/ \E command \in {"Login", "Register"}, u \in Username, p \in Password :
          Press(t, client[t], Credentials(command, u, p))
     \/ Turn(t, Menu(client[t]))

\* RenderSecondPage.
KeyMenu(t) ==
  /\ client[t].view = "menu"
  /\ \/ Press(t, client[t], GetUsersCountRequest(client[t]))
     \/ Turn(t, FirstPage)

\* RenderViewUsersView: select a user, change the page, refresh, back.
KeyUsers(t) ==
  /\ client[t].view = "users"
  /\ LET c == client[t]
     IN  \/ \E v \in c.names :
              LET picked == [c EXCEPT !.peer = v]
              IN  Press(t, picked, GetMessagesCount(picked))
         \/ \E p \in {c.page - 1, c.page + 1} \cap 1 .. c.pages :
              LET turned == [c EXCEPT !.page = p]
              IN  Press(t, turned, ViewUsers(turned))
         \/ Press(t, c, GetUsersCountRequest(c))
         \/ Turn(t, Menu(c))

\* Mutant of KeyTalk: the page keys without their bounds.
KeyTalkUnbounded(t) ==
  /\ client[t].view = "talk"
  /\ LET c == client[t]
     IN  \/ \E text \in Text, id \in c.rows \cup {NoReply} :
              Press(t, c, NewMessage(c, text, id))
         \/ \E p \in {c.mpage - 1, c.mpage + 1} :
              LET turned == [c EXCEPT !.mpage = p]
              IN  Press(t, turned, ViewMessages(turned))
         \/ Press(t, UserList(c), ViewUsers(c))

\* Mutant of KeyTalk: the number of the row on the screen is sent, not its id.
KeyTalkByRow(t) ==
  /\ client[t].view = "talk"
  /\ LET c == client[t]
     IN  \/ \E text \in Text :
              \/ Press(t, c, NewMessage(c, text, NoReply))
              \/ \E row \in 1 .. Cardinality(c.rows) :
                   Press(t, c, NewMessage(c, text, row))
         \/ Press(t, c, GetMessagesCount(c))
         \/ Press(t, UserList(c), ViewUsers(c))

\* RenderSelectUserView and RenderViewMessageView: write, reply to a row on the
\* screen, change the page, refresh, back to the list (which is fetched again).
\* A text that fails the client's own checks fetches the same page again.
KeyTalk(t) ==
  /\ client[t].view = "talk"
  /\ LET c == client[t]
     IN  \/ \E text \in Text, id \in c.rows \cup {NoReply} :
              Press(t, c, NewMessage(c, text, id))
         \/ \E p \in {c.mpage - 1, c.mpage, c.mpage + 1} \cap 1 .. c.mpages :
              LET turned == [c EXCEPT !.mpage = p]
              IN  Press(t, turned, ViewMessages(turned))
         \/ Press(t, c, GetMessagesCount(c))
         \/ Press(t, UserList(c), ViewUsers(c))

\* The client quits or is killed; a request it was about to send may be lost.
Close(t) ==
  /\ client[t].view # "off"
  /\ client' = [client EXCEPT ![t] = Closed]
  /\ \/ UNCHANGED request
     \/ pc[t] = "recv" /\ request' = [request EXCEPT ![t] = Idle]
  /\ UNCHANGED <<dbVars, pc, reply, historyVars, boundVars, shown>>

-----------------------------------------------------------------------------
(* Replies.  What the client does next without waiting for a key is part   *)
(* of the action: `next` is the request it sends at once, Idle for none.   *)

Deliver(t, c, next) ==
  /\ client[t].view # "off"
  /\ Send(t, next)
  /\ client' = [client EXCEPT ![t] = c]

Asked(t, command) == pc[t] = "send" /\ request[t].command = command

\* Mutant of Accessed: the status is not looked at.
AccessedAnyway(t) ==
  /\ Asked(t, "Login") \/ Asked(t, "Register")
  /\ Deliver(t, Menu([client[t] EXCEPT !.user = request[t].user]), Idle)
  /\ UNCHANGED shown

\* RenderLoginView, RenderRegisterView.
Accessed(t) ==
  /\ Asked(t, "Login") \/ Asked(t, "Register")
  /\ Deliver(t, IF reply[t].status \in {200, 201}
                THEN Menu([client[t] EXCEPT !.user = request[t].user])
                ELSE FirstPage, Idle)
  /\ UNCHANGED shown

UsersCounted(t) ==
  /\ Asked(t, "Get_Users_Count")
  /\ LET n     == PageCount(reply[t].count - 1)
         fresh == [Menu(client[t]) EXCEPT !.view = "users", !.pages = n,
                                          !.page = IF n = 0 THEN 0 ELSE 1]
     IN  \/ reply[t].status # 200 /\ Deliver(t, Menu(client[t]), Idle)
         \/ reply[t].status = 200 /\ n = 0 /\ Deliver(t, fresh, Idle)
         \/ reply[t].status = 200 /\ n > 0 /\ Deliver(t, fresh, ViewUsers(fresh))
  /\ UNCHANGED shown

\* An empty content does not parse and counts as status 500.
UsersViewed(t) ==
  /\ Asked(t, "View_Users")
  /\ LET names == {reply[t].names[i] : i \in DOMAIN reply[t].names}
     IN  Deliver(t, IF reply[t].status # 200 \/ names = {}
                    THEN Menu(client[t])
                    ELSE [client[t] EXCEPT !.names = names], Idle)
  /\ UNCHANGED shown

\* A failure returns to where the conversation was opened from: the list, or
\* for a refresh the conversation as it was; that is fetched again.
MessagesCounted(t) ==
  /\ Asked(t, "Get_Messages_Count")
  /\ LET c     == client[t]
         n     == PageCount(reply[t].count)
         fresh == [c EXCEPT !.view = "talk", !.mpages = n, !.mpage = 1, !.rows = {}]
     IN  \/ /\ reply[t].status # 200
            /\ IF c.view = "talk" THEN Deliver(t, c, Refetch(c))
                                  ELSE Deliver(t, UserList(c), ViewUsers(c))
         \/ reply[t].status = 200 /\ Deliver(t, fresh, Refetch(fresh))
  /\ UNCHANGED shown

\* The rows are rendered, the unread ones of the peer in red, and these are
\* marked at once by SendUpdateMessageReadRequest.  An error reply has no rows.
MessagesViewed(t) ==
  /\ Asked(t, "View_Messages")
  /\ LET c        == client[t]
         rows     == reply[t].rows
         failed   == reply[t].status # 200
         ids      == RedIds(rows, c.user)
         drawn    == [c EXCEPT !.rows = {rows[i].id : i \in DOMAIN rows}]
     IN  /\ Deliver(t, IF failed THEN UserList(c) ELSE drawn,
                       IF failed THEN ViewUsers(c)
                       ELSE IF ids = <<>> THEN Idle ELSE UpdateRead(c, ids))
         /\ shown' = shown \cup {rows[i].id : i \in {k \in DOMAIN rows :
                                                     rows[k].sender # c.user}}

MessagesMarked(t) ==
  /\ Asked(t, "Update_Message_Read")
  /\ Deliver(t, client[t], Idle)
  /\ UNCHANGED shown

\* RenderSendMessageComponent.  After a failed new message the page is fetched
\* again, otherwise the conversation is opened afresh.
MessageInserted(t) ==
  /\ Asked(t, "Insert_Message")
  /\ LET c      == client[t]
         failed == reply[t].status # 201 /\ request[t].replyId = NoReply
     IN  \/ ~failed /\ Deliver(t, c, GetMessagesCount(c))
         \/ failed /\ Deliver(t, c, Refetch(c))
  /\ UNCHANGED shown

-----------------------------------------------------------------------------
\* The server answers a client that is gone, or sees that it is gone.
Abandoned(t) ==
  /\ client[t].view = "off"
  /\ SendLost(t) \/ Disconnected(t)
  /\ UNCHANGED <<client, shown>>

\* A row that is rolled back is gone; its id will name another message.
Forget == shown' = shown \cap DOMAIN messages'

\* Clients do not reconnect: recv() returns 0 and they exit.
ServerCrash ==
  /\ Crash
  /\ client' = [t \in Thread |-> Closed]
  /\ Forget

StorageFault(t) == Fault(t) /\ Forget /\ UNCHANGED client

ServerWorks(t) == Process(t) /\ UNCHANGED <<client, shown>>

Key(t) == KeyFirst(t) \/ KeyMenu(t) \/ KeyUsers(t) \/ KeyTalk(t)

Replied(t) ==
  \/ Accessed(t) \/ UsersCounted(t) \/ UsersViewed(t) \/ MessagesCounted(t)
  \/ MessagesViewed(t) \/ MessagesMarked(t) \/ MessageInserted(t)

Next ==
  \/ \E t \in Thread :
       \/ Start(t) \/ Key(t) \/ Close(t) \/ Replied(t) \/ Abandoned(t)
       \/ ServerWorks(t) \/ StorageFault(t)
  \/ ServerCrash

\* Threads and the sockets make progress; users press keys when they like.
Fairness == \A t \in Thread : WF_vars(ServerWorks(t) \/ Replied(t) \/ Abandoned(t))

SafetySpec == Init /\ [][Next]_vars
Spec == SafetySpec /\ Fairness

-----------------------------------------------------------------------------
(* Properties.                                                             *)

\* The type of every variable.
TypeOK ==
  /\ ServerTypeOK
  /\ client \in [Thread -> Client]
  /\ shown \subseteq Nat

\* Until a storage error whoever is logged in has an account, and the file holds
\* an account of the sender of every message in it: a login may see an account
\* that is not committed yet, but what its owner then writes is not committed
\* before it.
SenderHasAccount ==
  faults = 0 =>
    /\ \A t \in Thread : client[t].user # None => users[client[t].user] # None
    /\ \A i \in DOMAIN disk.messages : disk.users[disk.messages[i].sender] # None

\* A message marked read was rendered by a client of its receiver before: ids
\* that a client remembers never come to mean another message.  (An error of the
\* storage takes rows back, and gives their ids to the next messages.)
ReadWasShown ==
  faults = 0 => \A i \in DOMAIN messages : messages[i].read = 1 => i \in shown

\* A reply names an older message of the same two users, in the file too, until
\* a storage error.
ReplyPointsBack ==
  faults = 0 =>
    \A table \in {messages, disk.messages} : \A i \in DOMAIN table :
      table[i].replyId # NoReply =>
        /\ table[i].replyId \in 1 .. i - 1
        /\ Between(table[table[i].replyId], table[i].sender, table[i].receiver)

\* No page a client can ask for is empty, although it computed the number of
\* pages from an earlier reply: PrepareViewContent, which returns memory it
\* has not written when there is no row, is never called without one.  (A storage
\* error may take back the only row of the last page.)
PageNeverEmpty ==
  faults = 0 =>
    \A t \in Thread :
      pc[t] = "send" /\ reply[t].status = 200 =>
        /\ request[t].command = "View_Users" => reply[t].names # <<>>
        /\ request[t].command = "View_Messages" => reply[t].rows # <<>>

\* What a client has drawn in red, and has asked the server to mark, is read in the
\* file in the end, unless the client leaves at any time or dies with the server, or
\* the storage fails.
RedIsMarked ==
  \A t \in Thread, i \in 1 .. MaxMessages :
    (request[t] # Idle /\ i \in {request[t].ids[k] : k \in DOMAIN request[t].ids})
      ~> (i \in DOMAIN disk.messages /\ disk.messages[i].read = 1)
           \/ client[t].view = "off" \/ faults > 0

\* A client that waits for a reply gets one, unless it leaves or the server dies: no
\* path of a handler ends without an answer.  (LogEvent is taken to return, which it
\* does until an fopen fails: module EventLog.)
Answered ==
  \A t \in Thread :
    client[t].view # "off" /\ request[t] # Idle
      ~> client[t].view = "off" \/ Waiting(t)
=============================================================================
