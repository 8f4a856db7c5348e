--------------------------- MODULE ContractProofs ---------------------------
(***************************************************************************)
(* The server implements WriteContract, for all constants: any number of   *)
(* threads and requests, with crashes and storage errors.                  *)
(***************************************************************************)
EXTENDS ServerProofs

\* Thread t is about to answer 201.
Holds(t) == reply[t].status = 201 /\ pc[t] \in {"end", "send"}
HoldsAccount(t) == Holds(t) /\ request[t].command = "Register"
HoldsMessage(t) == Holds(t) /\ request[t].command = "Insert_Message"

\* What a thread is about to acknowledge nobody has acknowledged, and no other
\* thread is about to.
Fresh ==
  /\ \A t \in Thread : HoldsAccount(t) =>
       /\ \A a \in registered : a.user # request[t].user
       /\ \A s \in Thread : HoldsAccount(s) /\ s # t => request[s].user # request[t].user
  /\ \A t \in Thread : HoldsMessage(t) =>
       /\ \A m \in sent : m.id # reply[t].id
       /\ \A s \in Thread : HoldsMessage(s) /\ s # t => reply[s].id # reply[t].id

ContractInv == SafeUntilFault /\ (faults = 0 => Fresh)

-----------------------------------------------------------------------------
(* Who changes what.                                                       *)

\* Only a reply that is sent acknowledges anything, and only a storage error
\* is counted as one.
LEMMA OnlySendAcknowledges ==
  ASSUME NEW t \in Thread, ThreadStep(Request, t)
  PROVE  \/ \E next \in Request \cup {Idle} : Send(t, next)
         \/ Fault(t)
         \/ UNCHANGED <<registered, sent, faults>>
<1>1. CASE \/ Receive(t) \/ Login(t) \/ CheckName(t) \/ CheckUser(t)
           \/ CountUsers(t) \/ CountMessages(t)
  BY <1>1 DEF Receive, Login, CheckName, CheckUser, CountUsers, CountMessages,
              Answer, Continue, historyVars, boundVars
<1>2. CASE ScanUsers(t) \/ CountUnread(t) \/ ScanMessages(t)
  BY <1>2 DEF ScanUsers, CountUnread, ScanMessages, Answer, Continue, historyVars, boundVars
<1>3. CASE Begin(t) \/ InsertUser(t) \/ InsertMessage(t) \/ UpdateMessage(t) \/ End(t)
  BY <1>3 DEF Begin, InsertUser, InsertMessage, UpdateMessage, End, AfterEnd,
              historyVars, boundVars
<1>4. CASE \/ Accept(t) \/ Disconnected(t) \/ SendLost(t)
           \/ \E r \in Request : Arrive(t, r)
  BY <1>4 DEF Accept, Disconnected, SendLost, Arrive, historyVars, boundVars
<1>5. QED
  BY <1>1, <1>2, <1>3, <1>4 DEF ThreadStep, Process

\* Queries do not answer 201.
LEMMA QueriesHoldNothing ==
  ASSUME Typing, NEW t \in Thread,
         \/ Receive(t) \/ Login(t) \/ CheckName(t) \/ CheckUser(t) \/ CountUsers(t)
         \/ CountMessages(t) \/ ScanUsers(t) \/ CountUnread(t) \/ ScanMessages(t)
  PROVE  ~Holds(t)'
<1> USE DEF Typing
<1>1. \A code \in Nat : Status(code).status = code
  BY DEF Status, Blank
<1>2. ASSUME NEW a, Answer(t, a), a.status # 201
      PROVE  ~Holds(t)'
  BY <1>2 DEF Answer, Holds, ServerTypeOK
<1>3. ASSUME NEW next, Continue(t, next), next \notin {"end", "send"}
      PROVE  ~Holds(t)'
  BY <1>3 DEF Continue, Holds, ServerTypeOK
<1>4. request[t] \in Request \cup {Idle} /\ reply[t] \in Reply
  BY DEF ServerTypeOK
<1>5. CASE Receive(t)
  <2>1. Refusal(request[t]) \in {0, 200, 401, 409}
    BY DEF Refusal
  <2>2. CASE \/ Answer(t, Status(Refusal(request[t])))
             \/ Answer(t, Status(200))
    BY <1>1, <1>2, <2>1, <2>2
  <2>3. CASE /\ Refusal(request[t]) = 0
             /\ Continue(t, Handler[request[t].command])
    <3>1. request[t].command \in DOMAIN Handler
      BY <1>4, <1>5, <2>3 DEF Receive, Refusal, Request, Command
    <3>2. Handler[request[t].command] \notin {"end", "send"}
      BY <3>1 DEF Handler
    <3>3. QED
      BY <1>3, <2>3, <3>2
  <2>4. QED
    BY <1>5, <2>2, <2>3 DEF Receive
<1>6. CASE Login(t)
  BY <1>1, <1>2, <1>6 DEF Login
<1>7. CASE CheckName(t)
  BY <1>1, <1>2, <1>3, <1>7 DEF CheckName
<1>8. CASE CheckUser(t)
  <2>1. request[t].command \in DOMAIN AfterCheck
    BY <1>8 DEF CheckUser, StageFits
  <2>2. AfterCheck[request[t].command] \notin {"end", "send"}
    BY <2>1 DEF AfterCheck
  <2>3. QED
    BY <1>1, <1>2, <1>3, <1>8, <2>2 DEF CheckUser
<1>9. CASE CountUsers(t)
  <2> DEFINE a == [Status(200) EXCEPT !.count = GetUsersCount]
  <2>1. Answer(t, Status(500)) \/ Answer(t, a) \/ Continue(t, "names")
    BY <1>9 DEF CountUsers
  <2>2. a.status # 201
    BY DEF Status, Blank
  <2> HIDE DEF a
  <2>3. QED
    BY <1>1, <1>2, <1>3, <2>1, <2>2
<1>10. CASE CountMessages(t)
  <2>1. \A n : [Status(200) EXCEPT !.count = n].status # 201
    BY DEF Status, Blank
  <2>2. QED
    BY <1>2, <1>10, <2>1 DEF CountMessages
<1>11. CASE ScanUsers(t)
  <2>1. CASE pc'[t] = "names"
    BY <2>1 DEF Holds
  <2>2. \/ Continue(t, "unread") \/ Answer(t, Status(200))
        \/ pc'[t] = "names"
    BY <1>11 DEF ScanUsers
  <2>3. QED
    BY <1>1, <1>2, <1>3, <2>1, <2>2
<1>12. CASE CountUnread(t)
  <2> DEFINE n == GetUnreadMessagesCountBetweenUsers(request[t].user,
                    reply[t].names[Len(reply[t].unread) + 1])
             filled == [reply[t] EXCEPT !.unread = Append(@, n)]
  <2>1. [filled EXCEPT !.status = 200].status # 201
    BY <1>4 DEF Reply
  <2>2. \/ Answer(t, [filled EXCEPT !.status = 200])
        \/ pc'[t] = "unread"
    BY <1>12 DEF CountUnread
  <2>3. QED
    BY <1>2, <2>1, <2>2 DEF Holds
<1>13. CASE ScanMessages(t)
  <2>1. [reply[t] EXCEPT !.status = 200].status # 201
    BY <1>4 DEF Reply
  <2>2. \/ Answer(t, [reply[t] EXCEPT !.status = 200])
        \/ pc'[t] = "rows"
    BY <1>13 DEF ScanMessages
  <2>3. QED
    BY <1>2, <2>1, <2>2 DEF Holds
<1>14. QED
  BY <1>5, <1>6, <1>7, <1>8, <1>9, <1>10, <1>11, <1>12, <1>13

\* Only the two insertions make a 201; END keeps it for the reply.
LEMMA OnlyInsertsHold ==
  ASSUME Typing, NEW t \in Thread, ThreadStep(Request, t),
         ~Fault(t), ~InsertUser(t), ~InsertMessage(t), Holds(t)'
  PROVE  Holds(t) /\ request'[t] = request[t] /\ reply'[t] = reply[t]
<1> USE DEF Typing
<1>1. CASE \/ Receive(t) \/ Login(t) \/ CheckName(t) \/ CheckUser(t) \/ CountUsers(t)
           \/ CountMessages(t) \/ ScanUsers(t) \/ CountUnread(t) \/ ScanMessages(t)
  BY <1>1, QueriesHoldNothing
<1>2. CASE Begin(t) \/ UpdateMessage(t)
  <2>1. Status(200).status # 201
    BY DEF Status, Blank
  <2>2. QED
    BY <1>2, <2>1 DEF Begin, UpdateMessage, Holds, ServerTypeOK
<1>3. CASE End(t)
  BY <1>3 DEF End, AfterEnd, Holds, ServerTypeOK
<1>4. CASE \/ Accept(t) \/ Disconnected(t) \/ SendLost(t)
           \/ \E r \in Request : Arrive(t, r)
           \/ \E next \in Request \cup {Idle} : Send(t, next)
  BY <1>4 DEF Accept, Disconnected, SendLost, Arrive, Send, Holds, ServerTypeOK
<1>5. QED
  BY <1>1, <1>2, <1>3, <1>4 DEF ThreadStep, Process
-----------------------------------------------------------------------------
(* What threads are about to acknowledge stays fresh.                      *)

\* What one thread is about to acknowledge is recorded, so that the next
\* insertion makes something else.
LEMMA HeldIsRecorded ==
  ASSUME DurableInv, NEW t \in Thread, Holds(t)
  PROVE  Recorded(Working, request[t], reply[t])
<1>1. request[t] \in Request /\ reply[t] \in Reply
  BY DEF DurableInv, ServerTypeOK, Holds
<1>2. disk \in Tables /\ Working \in Tables /\ Grows(disk, Working)
  BY DEF DurableInv, Storage, ServerTypeOK, DatabaseTypeOK, Working, Tables
<1>3. CASE pc[t] = "end"
  BY <1>3 DEF DurableInv, InFlight, Holds
<1>4. CASE pc[t] = "send"
  BY <1>1, <1>2, <1>4, RecordedGrows DEF DurableInv, InFlight, Holds
<1>5. QED
  BY <1>3, <1>4 DEF Holds

\* What was acknowledged is still seen by every statement.
LEMMA AcknowledgedIsSeen ==
  ASSUME DurableInv
  PROVE  /\ \A a \in registered : users[a.user] # None
         /\ \A m \in sent : m.id \in DOMAIN messages
<1>1. /\ \A u \in Username : disk.users[u] # None => users[u] = disk.users[u]
      /\ Len(disk.messages) <= Len(messages)
      /\ messages \in Seq(Message) /\ disk.messages \in Seq(Message)
  BY DEF DurableInv, Storage, Grows, Working, ServerTypeOK, DatabaseTypeOK, Tables
<1>2. ASSUME NEW a \in registered
      PROVE  users[a.user] # None
  <2>1. a.user \in Username /\ a.password # None
    BY <1>2, DatabaseAssumption DEF DurableInv, ServerTypeOK, Account, DatabaseAssumption
  <2>2. disk.users[a.user] = a.password
    BY <1>2 DEF DurableInv, AcknowledgedIsDurable
  <2>3. QED
    BY <1>1, <2>1, <2>2
<1>3. ASSUME NEW m \in sent
      PROVE  m.id \in DOMAIN messages
  BY <1>1, <1>3 DEF DurableInv, AcknowledgedIsDurable
<1>4. QED
  BY <1>2, <1>3

\* An insertion into users gives a name that nobody has or is about to get.
LEMMA NewAccountIsFresh ==
  ASSUME DurableInv, Fresh, NEW t \in Thread, InsertUser(t), ThreadStep(Request, t)
  PROVE  Fresh'
<1>1. /\ UNCHANGED <<registered, sent>> /\ request' = request
      /\ pc' = [pc EXCEPT ![t] = "end"] /\ request[t].command = "Register"
  BY DEF InsertUser, historyVars
<1>2. \A s \in Thread \ {t} : pc'[s] = pc[s] /\ reply'[s] = reply[s]
  BY OthersUntouched DEF DurableInv
<1>3. \A s \in Thread \ {t} : Holds(s)' => Holds(s)
  BY <1>2 DEF Holds
<1>4. ~HoldsMessage(t)'
  BY <1>1 DEF HoldsMessage
<1>5. CASE ~Holds(t)'
  BY <1>1, <1>2, <1>3, <1>4, <1>5 DEF Fresh, HoldsAccount, HoldsMessage
<1>6. CASE Holds(t)'
  <2>1. users[request[t].user] = None
    BY <1>6 DEF InsertUser, UserInsertable, Status, Blank, Holds, DurableInv, ServerTypeOK
  <2>2. \A s \in Thread \ {t} : HoldsAccount(s) => request[s].user # request[t].user
    <3> SUFFICES ASSUME NEW s \in Thread \ {t}, HoldsAccount(s)
                 PROVE  users[request[s].user] # None
      BY <2>1
    <3>1. users[request[s].user] = request[s].password
      BY HeldIsRecorded DEF HoldsAccount, Recorded, Working
    <3>2. request[s].password # None
      BY DatabaseAssumption
      DEF HoldsAccount, Holds, DurableInv, ServerTypeOK, Request, DatabaseAssumption
    <3>3. QED
      BY <3>1, <3>2
  <2>3. \A a \in registered : a.user # request[t].user
    BY <2>1, AcknowledgedIsSeen
  <2>4. QED
    BY <1>1, <1>2, <1>3, <1>4, <2>2, <2>3 DEF Fresh, HoldsAccount, HoldsMessage
<1>7. QED
  BY <1>5, <1>6

\* An insertion into messages gives an id that nobody has or is about to get.
LEMMA NewMessageIsFresh ==
  ASSUME DurableInv, Fresh, NEW t \in Thread, InsertMessage(t), ThreadStep(Request, t)
  PROVE  Fresh'
<1>1. /\ UNCHANGED <<registered, sent>> /\ request' = request
      /\ pc' = [pc EXCEPT ![t] = "end"] /\ request[t].command = "Insert_Message"
      /\ reply'[t].id = Len(messages) + 1
  BY DEF InsertMessage, historyVars, Status, Blank, DurableInv, ServerTypeOK
<1>2. \A s \in Thread \ {t} : pc'[s] = pc[s] /\ reply'[s] = reply[s]
  BY OthersUntouched DEF DurableInv
<1>3. \A s \in Thread \ {t} : Holds(s)' => Holds(s)
  BY <1>2 DEF Holds
<1>4. messages \in Seq(Message) /\ Len(messages) + 1 \notin DOMAIN messages
  BY DEF DurableInv, ServerTypeOK, DatabaseTypeOK
<1>5. \A s \in Thread \ {t} : HoldsMessage(s) => reply[s].id # reply'[t].id
  BY <1>1, <1>4, HeldIsRecorded DEF HoldsMessage, Recorded, Working
<1>6. \A m \in sent : m.id # reply'[t].id
  BY <1>1, <1>4, AcknowledgedIsSeen
<1>7. ~HoldsAccount(t)'
  BY <1>1 DEF HoldsAccount
<1>8. QED
  BY <1>1, <1>2, <1>3, <1>5, <1>6, <1>7 DEF Fresh, HoldsAccount, HoldsMessage

\* A reply that is sent takes what its thread held.
LEMMA SendKeepsFresh ==
  ASSUME Typing, Fresh, NEW t \in Thread, NEW next \in Request \cup {Idle}, Send(t, next),
         ThreadStep(Request, t)
  PROVE  Fresh'
<1>1. \A s \in Thread \ {t} : pc'[s] = pc[s] /\ request'[s] = request[s] /\ reply'[s] = reply[s]
  BY OthersUntouched DEF Typing
<1>2. ~Holds(t)' /\ pc[t] = "send"
  BY DEF Send, Holds, Typing, ServerTypeOK
<1>3. \A s \in Thread : Holds(s)' => s # t /\ Holds(s)
  BY <1>1, <1>2 DEF Holds
<1>4. \A a \in registered' : a \in registered \/ (HoldsAccount(t) /\ a.user = request[t].user)
  BY <1>2 DEF Send, Acknowledge, HoldsAccount, Holds
<1>5. \A m \in sent' : m \in sent \/ (HoldsMessage(t) /\ m.id = reply[t].id)
  BY <1>2 DEF Send, Acknowledge, HoldsMessage, Holds
<1>6. QED
  BY <1>1, <1>3, <1>4, <1>5 DEF Fresh, HoldsAccount, HoldsMessage

\* Every step keeps what threads are about to acknowledge fresh.
LEMMA NextKeepsFresh ==
  ASSUME SafeUntilFault, DurableInv, Fresh, ServerStep(Request), faults' = 0
  PROVE  Fresh'
<1>1. CASE Crash
  BY <1>1 DEF Crash, Fresh, HoldsAccount, HoldsMessage, Holds
<1>2. ASSUME NEW t \in Thread, ThreadStep(Request, t)
      PROVE  Fresh'
  <2>1. ~Fault(t)
    BY DEF Fault, ExecFails, CommitFails, DurableInv, ServerTypeOK
  <2>2. CASE InsertUser(t)
    BY <1>2, <2>2, NewAccountIsFresh
  <2>3. CASE InsertMessage(t)
    BY <1>2, <2>3, NewMessageIsFresh
  <2>4. CASE \E next \in Request \cup {Idle} : Send(t, next)
    BY <1>2, <2>4, SendKeepsFresh DEF SafeUntilFault
  <2>5. CASE /\ ~InsertUser(t) /\ ~InsertMessage(t)
             /\ UNCHANGED <<registered, sent>>
    <3>1. Holds(t)' => Holds(t) /\ request'[t] = request[t] /\ reply'[t] = reply[t]
      BY <1>2, <2>1, <2>5, OnlyInsertsHold DEF SafeUntilFault
    <3>2. \A s \in Thread : Holds(s)' => Holds(s) /\ request'[s] = request[s] /\ reply'[s] = reply[s]
      BY <1>2, <3>1, OthersUntouched DEF Holds, DurableInv
    <3>3. QED
      BY <2>5, <3>2 DEF Fresh, HoldsAccount, HoldsMessage
  <2>6. QED
    BY <1>2, <2>1, <2>2, <2>3, <2>4, <2>5, OnlySendAcknowledges
<1>3. QED
  BY <1>1, <1>2 DEF ServerStep

LEMMA NextContract ==
  ASSUME ContractInv, [ServerNext]_serverVars
  PROVE  ContractInv'
<1>1. SafeUntilFault'
  BY NextSafe DEF ContractInv
<1>2. ASSUME faults' = 0
      PROVE  Fresh'
  <2>1. faults = 0 /\ DurableInv /\ Fresh
    BY <1>2, FaultsStay DEF ContractInv, SafeUntilFault, Typing
  <2>2. CASE ServerNext
    BY <1>2, <2>1, <2>2, NextIsStep, NextKeepsFresh DEF ContractInv
  <2>3. CASE UNCHANGED serverVars
    BY <2>1, <2>3 DEF serverVars, Fresh, HoldsAccount, HoldsMessage, Holds
  <2>4. QED
    BY <2>2, <2>3
<1>3. QED
  BY <1>1, <1>2 DEF ContractInv

-----------------------------------------------------------------------------
(* The refinement.                                                         *)

\* A reply that is sent is an acknowledgement of the contract, or nothing.
LEMMA SendRefines ==
  ASSUME ContractInv, NEW t \in Thread, NEW next \in Request \cup {Idle}, Send(t, next)
  PROVE  Contract!Next \/ UNCHANGED Contract!vars
<1>1. disk' = disk /\ faults' = faults /\ pc[t] = "send"
      /\ Acknowledge(request[t], reply[t])
  BY DEF Send, dbVars, boundVars
<1>2. CASE faults # 0
  <2>1. faults > 0
    BY <1>2 DEF ContractInv, SafeUntilFault, Typing, ServerTypeOK
  <2>2. registered \subseteq registered' /\ sent \subseteq sent'
    BY <1>1 DEF Acknowledge
  <2>3. Contract!AcknowledgeAnything
    BY <1>1, <2>1, <2>2 DEF Contract!AcknowledgeAnything
  <2>4. QED
    BY <2>3 DEF Contract!Next
<1>3. CASE faults = 0
  <2> USE DEF ContractInv, SafeUntilFault
  <2>1. DurableInv /\ Fresh
    BY <1>3
  <2>2. CASE HoldsAccount(t)
    <3>1. request[t].user \in Username /\ request[t].password # None
      BY <2>2, DatabaseAssumption
      DEF HoldsAccount, Holds, Typing, ServerTypeOK, Request, DatabaseAssumption
    <3>2. disk.users[request[t].user] = request[t].password
      BY <1>1, <2>1, <2>2 DEF DurableInv, InFlight, Recorded, HoldsAccount, Holds
    <3>3. \A a \in registered : a.user # request[t].user
      BY <2>1, <2>2 DEF Fresh
    <3>4. /\ registered' = registered \cup {[user |-> request[t].user,
                                              password |-> disk.users[request[t].user]]}
          /\ sent' = sent
      BY <1>1, <2>2, <3>2 DEF Acknowledge, HoldsAccount, Holds
    <3>5. Contract!AcknowledgeAccount
      BY <1>1, <3>1, <3>2, <3>3, <3>4 DEF Contract!AcknowledgeAccount
    <3>6. QED
      BY <3>5 DEF Contract!Next
  <2>3. CASE HoldsMessage(t)
    <3> DEFINE i == reply[t].id
               row == disk.messages[i]
    <3>1. Recorded(disk, request[t], reply[t])
      BY <1>1, <2>1, <2>3 DEF DurableInv, InFlight, HoldsMessage, Holds
    <3>2. i \in DOMAIN disk.messages /\ \A m \in sent : m.id # i
      BY <2>1, <2>3, <3>1 DEF Recorded, HoldsMessage, Fresh
    <3>3. /\ sent' = sent \cup {[id |-> i, sender |-> row.sender, receiver |-> row.receiver,
                                 message |-> row.message, replyId |-> row.replyId]}
          /\ registered' = registered
      BY <1>1, <2>3, <3>1 DEF Acknowledge, Recorded, HoldsMessage, Holds
    <3>4. Contract!AcknowledgeMessage
      BY <1>1, <3>2, <3>3 DEF Contract!AcknowledgeMessage
    <3>5. QED
      BY <3>4 DEF Contract!Next
  <2>4. CASE ~HoldsAccount(t) /\ ~HoldsMessage(t)
    BY <1>1, <2>4 DEF Acknowledge, HoldsAccount, HoldsMessage, Holds, Contract!vars
  <2>5. QED
    BY <2>2, <2>3, <2>4
<1>4. QED
  BY <1>2, <1>3

LEMMA InitContract == ServerInit => ContractInv /\ Contract!Init
<1> SUFFICES ASSUME ServerInit PROVE ContractInv /\ Contract!Init
  OBVIOUS
<1>1. SafeUntilFault /\ faults = 0
  BY InitSafe DEF ServerInit
<1>2. Fresh
  BY DEF ServerInit, Fresh, HoldsAccount, HoldsMessage, Holds
<1>3. Contract!Addressed
  BY <1>1 DEF SafeUntilFault, OrphanInv, Addressed, Contract!Addressed
<1>4. QED
  BY <1>1, <1>2, <1>3 DEF ServerInit, ContractInv, Contract!Init

\* A step of the server is a step of the contract, or nothing to the outside.
LEMMA StepRefines ==
  ASSUME ContractInv, ContractInv', ServerStep(Request)
  PROVE  Contract!Next \/ UNCHANGED Contract!vars
<1>1. Contract!Grows
  BY StepStorage DEF Contract!Grows, Grows, ContractInv, SafeUntilFault, Typing
<1>2. faults' = 0 => Contract!Addressed'
  BY DEF ContractInv, SafeUntilFault, OrphanInv, Addressed, Contract!Addressed
<1>3. faults' \in Nat
  BY ServerAssumption DEF ContractInv, SafeUntilFault, Typing, ServerTypeOK, ServerAssumption
<1>4. CASE UNCHANGED <<registered, sent, faults>>
  <2>1. Contract!Commit
    BY <1>1, <1>2, <1>3, <1>4 DEF Contract!Commit
  <2>2. QED
    BY <2>1 DEF Contract!Next
<1>5. CASE Crash
  BY <1>4, <1>5 DEF Crash, historyVars
<1>6. ASSUME NEW t \in Thread, Fault(t)
      PROVE  Contract!Next
  <2>1. disk' = disk /\ faults' > 0 /\ UNCHANGED <<registered, sent>>
    BY <1>6 DEF Fault, ExecFails, CommitFails, Rollback, AfterEnd, historyVars,
                ContractInv, SafeUntilFault, Typing, ServerTypeOK
  <2>2. Contract!Fail
    BY <2>1 DEF Contract!Fail
  <2>3. QED
    BY <2>2 DEF Contract!Next
<1>7. ASSUME NEW t \in Thread, ThreadStep(Request, t)
      PROVE  Contract!Next \/ UNCHANGED Contract!vars
  BY <1>4, <1>6, <1>7, OnlySendAcknowledges, SendRefines
<1>8. QED
  BY <1>5, <1>7 DEF ServerStep

\* The server keeps the promise of WriteContract, whatever its threads do at
\* the same time, across crashes, and until the storage fails.
THEOREM ServerImplementsContract == ServerSpec => ImplementsContract
<1>1. ContractInv /\ ContractInv' /\ [ServerNext]_serverVars => [Contract!Next]_(Contract!vars)
  <2> SUFFICES ASSUME ContractInv, ContractInv', [ServerNext]_serverVars
               PROVE  Contract!Next \/ UNCHANGED Contract!vars
    OBVIOUS
  <2>1. CASE UNCHANGED serverVars
    BY <2>1 DEF serverVars, Contract!vars
  <2>2. CASE ServerNext
    BY <2>2, NextIsStep, StepRefines
  <2>3. QED
    BY <2>1, <2>2
<1>2. QED
  BY <1>1, InitContract, NextContract, PTL DEF ServerSpec, ImplementsContract, Contract!Spec
=============================================================================
