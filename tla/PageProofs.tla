----------------------------- MODULE PageProofs -----------------------------
(***************************************************************************)
(* The pages that View_Messages and View_Users build row by row are sound  *)
(* for all threads, tables and page sizes, whatever is written in between. *)
(***************************************************************************)
EXTENDS ServerProofs, WellFoundedInduction

-----------------------------------------------------------------------------
(* A page against a table, M for messages and U for users.                 *)

Talk(M, a, b) == {i \in DOMAIN M : Between(M[i], a, b)}
Letters(M, from, to) == {k \in DOMAIN M : M[k].sender = from /\ M[k].receiver = to}

\* Neighbours on the page are neighbours in the conversation.
RowsIn(M, r, rows) ==
  /\ \A i \in DOMAIN rows : rows[i].id \in Talk(M, r.user, r.peer)
  /\ \A i \in 1 .. Len(rows) - 1 :
       /\ rows[i + 1].id < rows[i].id
       /\ \A id \in Talk(M, r.user, r.peer) : ~(rows[i + 1].id < id /\ id < rows[i].id)

Oldest(M, r, rows) ==
  rows # <<>> => \A id \in Talk(M, r.user, r.peer) : id >= rows[Len(rows)].id

NamesIn(U, r, names) ==
  /\ \A i \in DOMAIN names : names[i] # r.user /\ U[names[i]] # None
  /\ \A i \in 1 .. Len(names) - 1 : names[i] < names[i + 1]

CountsIn(M, r, names, unread) ==
  /\ Len(unread) <= Len(names)
  /\ \A i \in DOMAIN unread : unread[i] <= Cardinality(Letters(M, names[i], r.user))

LEMMA FirstNumbersFinite ==
  ASSUME NEW n \in Nat
  PROVE  IsFiniteSet(1 .. n)
BY FS_Interval

\* What stays true of a page while the tables grow.
LEMMA PagesGrow ==
  ASSUME NEW T \in Tables, NEW S \in Tables, Grows(T, S), NEW r \in Request
  PROVE  /\ \A rows \in Seq(Row) :
              /\ RowsIn(T.messages, r, rows) => RowsIn(S.messages, r, rows)
              /\ RowsIn(T.messages, r, rows) /\ Oldest(T.messages, r, rows)
                   => Oldest(S.messages, r, rows)
         /\ \A names \in Seq(Username) :
              /\ NamesIn(T.users, r, names) => NamesIn(S.users, r, names)
              /\ \A unread \in Seq(Nat) :
                   CountsIn(T.messages, r, names, unread)
                     => CountsIn(S.messages, r, names, unread)
<1> DEFINE M == T.messages
           N == S.messages
           C == Talk(M, r.user, r.peer)
           D == Talk(N, r.user, r.peer)
<1>1. /\ M \in Seq(Message) /\ N \in Seq(Message)
      /\ DOMAIN M = 1 .. Len(M) /\ DOMAIN N = 1 .. Len(N)
      /\ Len(M) \in Nat /\ Len(N) \in Nat /\ Len(M) <= Len(N)
  BY DEF Tables, Grows
<1>2. \A i \in DOMAIN M : i \in DOMAIN N /\ N[i].sender = M[i].sender /\ N[i].receiver = M[i].receiver
  <2>1. TAKE i \in DOMAIN M
  <2>2. i \in DOMAIN N /\ M[i] \in Message /\ N[i] \in {M[i], [M[i] EXCEPT !.read = 1]}
    BY <1>1 DEF Grows
  <2>3. QED
    BY <2>2 DEF Message
<1>3. C \subseteq D /\ \A i \in D \ C : Len(M) < i
  BY <1>1, <1>2 DEF Talk, Between
<1>4. C \subseteq 1 .. Len(M) /\ D \subseteq Nat
  BY <1>1 DEF Talk
<1> HIDE DEF C, D
<1>5. ASSUME NEW rows \in Seq(Row), \A i \in DOMAIN rows : rows[i].id \in C
      PROVE  \A i \in DOMAIN rows, id \in D : id < rows[i].id => id \in C
  <2>1. SUFFICES ASSUME NEW i \in DOMAIN rows, NEW id \in D \ C, id < rows[i].id
                 PROVE  FALSE
    OBVIOUS
  <2>2. rows[i].id \in 1 .. Len(M) /\ id \in Nat /\ Len(M) < id
    BY <1>3, <1>4, <1>5
  <2>3. QED
    BY <1>1, <2>1, <2>2
<1>6. ASSUME NEW rows \in Seq(Row), RowsIn(M, r, rows)
      PROVE  RowsIn(N, r, rows)
  <2>1. /\ \A i \in DOMAIN rows : rows[i].id \in C
        /\ \A i \in 1 .. Len(rows) - 1 :
             /\ rows[i + 1].id < rows[i].id
             /\ \A id \in C : ~(rows[i + 1].id < id /\ id < rows[i].id)
    BY <1>6 DEF RowsIn, C
  <2>2. \A i \in 1 .. Len(rows) - 1 : i \in DOMAIN rows
    OBVIOUS
  <2>3. \A i \in 1 .. Len(rows) - 1 :
           \A id \in D : ~(rows[i + 1].id < id /\ id < rows[i].id)
    BY <1>5, <2>1, <2>2
  <2>4. QED
    BY <1>3, <2>1, <2>3 DEF RowsIn, D
<1>7. ASSUME NEW rows \in Seq(Row), RowsIn(M, r, rows), Oldest(M, r, rows), rows # <<>>
      PROVE  \A id \in D : id >= rows[Len(rows)].id
  <2>1. Len(rows) \in DOMAIN rows
    BY <1>7
  <2>2. (\A i \in DOMAIN rows : rows[i].id \in C) /\ \A id \in C : id >= rows[Len(rows)].id
    BY <1>7 DEF RowsIn, Oldest, C
  <2>3. rows[Len(rows)].id \in 1 .. Len(M)
    BY <1>4, <2>1, <2>2
  <2>4. QED
    BY <1>1, <1>3, <1>4, <2>2, <2>3
<1>8. ASSUME NEW names \in Seq(Username), NamesIn(T.users, r, names)
      PROVE  NamesIn(S.users, r, names)
  BY <1>8 DEF NamesIn, Grows
<1>9. ASSUME NEW names \in Seq(Username), NEW unread \in Seq(Nat),
             CountsIn(M, r, names, unread)
      PROVE  CountsIn(N, r, names, unread)
  <2>1. SUFFICES ASSUME NEW i \in DOMAIN unread
                 PROVE  unread[i] <= Cardinality(Letters(N, names[i], r.user))
    BY <1>9 DEF CountsIn
  <2>2. unread[i] <= Cardinality(Letters(M, names[i], r.user)) /\ unread[i] \in Nat
    BY <1>9 DEF CountsIn
  <2>3. Letters(M, names[i], r.user) \subseteq Letters(N, names[i], r.user)
    BY <1>2 DEF Letters
  <2>4. IsFiniteSet(Letters(N, names[i], r.user))
    <3>1. IsFiniteSet(1 .. Len(N))
      BY <1>1, FirstNumbersFinite
    <3>2. Letters(N, names[i], r.user) \subseteq 1 .. Len(N)
      BY <1>1 DEF Letters
    <3>3. QED
      BY <3>1, <3>2, FS_Subset
  <2>5. /\ Cardinality(Letters(M, names[i], r.user)) <= Cardinality(Letters(N, names[i], r.user))
        /\ Cardinality(Letters(M, names[i], r.user)) \in Nat
        /\ Cardinality(Letters(N, names[i], r.user)) \in Nat
    BY <2>3, <2>4, FS_Subset, FS_CardinalityType
  <2>6. QED
    BY <2>2, <2>5
<1>10. QED
  BY <1>6, <1>7, <1>8, <1>9 DEF Oldest, D

-----------------------------------------------------------------------------
(* The rows that the next sqlite3_step may return.                         *)

Less == {ss \in Nat \X Nat : ss[1] < ss[2]}

\* A set of numbers that has a bound has a largest one.
LEMMA LargestNumber ==
  ASSUME NEW n \in Nat, NEW S, S \subseteq 1 .. n, S # {}
  PROVE  \E i \in S : \A j \in S : j <= i
<1> DEFINE D == {n - i : i \in S}
<1>1. IsWellFoundedOn(Less, Nat)
  <2>1. OpToRel(<, Nat) = Less
    BY DEF OpToRel, Less
  <2>2. QED
    BY <2>1, NatLessThanWellFounded
<1>2. D \subseteq Nat /\ D # {}
  <2>1. \A i \in S : n - i \in Nat
    OBVIOUS
  <2>2. QED
    BY <2>1
<1>3. PICK d \in D : \A e \in D : <<e, d>> \notin Less
  BY <1>1, <1>2, WFMin
<1>4. PICK i \in S : d = n - i
  BY <1>3
<1>5. \A j \in S : ~(n - j < n - i)
  BY <1>2, <1>3, <1>4 DEF Less
<1>6. QED
  BY <1>5

\* Once a page has a row, the step returns the next older message of the
\* conversation, or nothing when there is none or the page is full.
LEMMA NextOlder ==
  ASSUME DatabaseTypeOK, NEW r \in Request, NEW rows \in Seq(Row), rows # <<>>
  PROVE  LET last == rows[Len(rows)].id
             C    == Talk(messages, r.user, r.peer)
             next == NextMessage(r.user, r.peer, rows, r.page)
         IN  /\ \A i \in next : i \in C /\ i < last /\ \A j \in C : ~(i < j /\ j < last)
             /\ next = {} /\ Len(rows) < PageSize => \A id \in C : id >= last
<1> DEFINE last == rows[Len(rows)].id
           C    == Talk(messages, r.user, r.peer)
           rest == {i \in C : i < last}
           next == NextMessage(r.user, r.peer, rows, r.page)
<1>1. messages \in Seq(Message) /\ Len(messages) \in Nat /\ DOMAIN messages = 1 .. Len(messages)
  BY DEF DatabaseTypeOK
<1>2. rest \subseteq 1 .. Len(messages) /\ C \subseteq 1 .. Len(messages)
  BY <1>1 DEF Talk
<1>3. last \in Nat
  <2>1. Len(rows) \in DOMAIN rows
    OBVIOUS
  <2>2. rows[Len(rows)] \in Row
    BY <2>1
  <2>3. QED
    BY <2>2 DEF Row
<1>4. next = IF Len(rows) = PageSize THEN {}
             ELSE {i \in rest : Cardinality({j \in rest : j > i}) = 0}
  BY DEF NextMessage, Conversation, Talk
<1> HIDE DEF rest, next, last, C
<1>5. \A i \in rest : Cardinality({j \in rest : j > i}) = 0 <=> \A j \in rest : ~(j > i)
  <2>1. TAKE i \in rest
  <2>2. IsFiniteSet(1 .. Len(messages))
    BY <1>1, FS_Interval
  <2>3. IsFiniteSet({j \in rest : j > i})
    BY <1>2, <2>2, FS_Subset
  <2>4. QED
    BY <2>3, FS_EmptySet
<1>6. ASSUME NEW i \in next
      PROVE  i \in C /\ i < last /\ \A j \in C : ~(i < j /\ j < last)
  <2>1. i \in rest /\ \A j \in rest : ~(j > i)
    BY <1>4, <1>5, <1>6
  <2>2. QED
    BY <1>2, <1>3, <2>1 DEF rest
<1>7. ASSUME next = {}, Len(rows) < PageSize, NEW id \in C
      PROVE  id >= last
  <2>1. rest = {}
    <3>1. SUFFICES ASSUME rest # {} PROVE FALSE
      OBVIOUS
    <3>2. PICK i \in rest : \A j \in rest : j <= i
      BY <1>1, <1>2, <3>1, LargestNumber
    <3>3. \A j \in rest : ~(j > i)
      BY <1>2, <3>2
    <3>4. Len(rows) # PageSize
      BY <1>7, DatabaseAssumption DEF DatabaseAssumption
    <3>5. i \in next
      BY <1>4, <1>5, <3>3, <3>4
    <3>6. QED
      BY <1>7, <3>5
  <2>2. QED
    BY <1>2, <1>3, <1>7, <2>1 DEF rest
<1>8. QED
  BY <1>6, <1>7 DEF next, last, C

\* The first row of a page is a message of the conversation.
LEMMA FirstRow ==
  ASSUME NEW r, NEW i \in NextMessage(r.user, r.peer, <<>>, r.page)
  PROVE  i \in Talk(messages, r.user, r.peer)
BY DEF NextMessage, Conversation, Talk

\* The name that a step returns is registered, another one than the asker's,
\* and behind the last one.
LEMMA NextName ==
  ASSUME NEW r, NEW names \in Seq(Username),
         NEW v \in NextUsername(r.user, names, r.page)
  PROVE  /\ v \in Username /\ v # r.user /\ users[v] # None
         /\ names # <<>> => names[Len(names)] < v
BY DatabaseAssumption DEF NextUsername, DatabaseAssumption

-----------------------------------------------------------------------------
(* The pages that the threads have under construction.                     *)

NoPage(a) == a.rows = <<>> /\ a.names = <<>> /\ a.unread = <<>>

\* A page is begun when the handler comes to it, ends with the reply, and is
\* sound against the tables as they are.
PageOf(t) ==
  LET a == reply[t]
  IN  /\ pc[t] \notin {"names", "unread", "rows", "send"} => NoPage(a)
      /\ pc[t] = "rows" => a.names = <<>> /\ a.unread = <<>>
      /\ pc[t] \in {"names", "unread"} => a.rows = <<>>
      /\ pc[t] = "names" => a.unread = <<>>
      /\ pc[t] = "unread" => Len(a.unread) < Len(a.names)
      /\ pc[t] = "send" => /\ Len(a.unread) = Len(a.names)
                           /\ Len(a.rows) < PageSize => Oldest(messages, request[t], a.rows)
      /\ RowsIn(messages, request[t], a.rows)
      /\ NamesIn(users, request[t], a.names)
      /\ CountsIn(messages, request[t], a.names, a.unread)

Pages == \A t \in Thread : PageOf(t)

LEMMA EmptyPage ==
  ASSUME NEW M, NEW U, NEW r
  PROVE  /\ RowsIn(M, r, <<>>) /\ Oldest(M, r, <<>>)
         /\ NamesIn(U, r, <<>>) /\ CountsIn(M, r, <<>>, <<>>)
BY DEF RowsIn, Oldest, NamesIn, CountsIn

LEMMA NoPageYet ==
  ASSUME NEW t \in Thread, NoPage(reply[t])', pc'[t] # "unread"
  PROVE  PageOf(t)'
BY EmptyPage DEF PageOf, NoPage

\* What a thread has read stays sound while others write.
LEMMA PageStays ==
  ASSUME ServerTypeOK, ServerTypeOK', Grows(Working, Working'), NEW t \in Thread, PageOf(t),
         pc'[t] = pc[t], request'[t] = request[t], reply'[t] = reply[t]
  PROVE  PageOf(t)'
<1>1. CASE pc[t] \in {"off", "recv"}
  BY <1>1, NoPageYet DEF PageOf, NoPage
<1>2. CASE pc[t] \notin {"off", "recv"}
  <2>1. request[t] \in Request /\ reply[t] \in Reply
    BY <1>2 DEF ServerTypeOK
  <2>2. /\ reply[t].rows \in Seq(Row) /\ reply[t].names \in Seq(Username)
        /\ reply[t].unread \in Seq(Nat)
    BY <2>1 DEF Reply
  <2>3. Working \in Tables /\ Working' \in Tables
    BY DEF ServerTypeOK, DatabaseTypeOK, Working, Tables
  <2>4. /\ RowsIn(messages, request[t], reply[t].rows)
        /\ NamesIn(users, request[t], reply[t].names)
        /\ CountsIn(messages, request[t], reply[t].names, reply[t].unread)
    BY DEF PageOf
  <2>5. /\ RowsIn(messages', request[t], reply[t].rows)
        /\ NamesIn(users', request[t], reply[t].names)
        /\ CountsIn(messages', request[t], reply[t].names, reply[t].unread)
        /\ Oldest(messages, request[t], reply[t].rows)
             => Oldest(messages', request[t], reply[t].rows)
    BY <2>1, <2>2, <2>3, <2>4, PagesGrow DEF Working
  <2>6. QED
    BY <2>5 DEF PageOf, NoPage
<1>3. QED
  BY <1>1, <1>2

\* One sqlite3_step of GetMessagesBetweenUsers.
LEMMA ScanMessagesKeepsPage ==
  ASSUME ServerTypeOK, NEW t \in Thread, PageOf(t), ScanMessages(t)
  PROVE  PageOf(t)'
<1> DEFINE r == request[t]
           a == reply[t]
           rows == a.rows
           C == Talk(messages, r.user, r.peer)
           next == NextMessage(r.user, r.peer, rows, r.page)
<1>1. /\ pc[t] = "rows" /\ r \in Request /\ a \in Reply /\ rows \in Seq(Row)
      /\ a.names = <<>> /\ a.unread = <<>> /\ RowsIn(messages, r, rows) /\ DatabaseTypeOK
  BY DEF ScanMessages, ServerTypeOK, Reply, PageOf
<1>2. ASSUME NEW i \in next,
             reply' = [reply EXCEPT ![t].rows =
                         Append(rows, [id |-> i, sender |-> messages[i].sender,
                                       read |-> messages[i].read,
                                       replyId |-> messages[i].replyId])],
             UNCHANGED <<dbVars, pc, request, historyVars, boundVars>>
      PROVE  PageOf(t)'
  <2> DEFINE x == [id |-> i, sender |-> messages[i].sender, read |-> messages[i].read,
                   replyId |-> messages[i].replyId]
             longer == Append(rows, x)
  <2>1. /\ reply'[t].rows = longer /\ reply'[t].names = <<>> /\ reply'[t].unread = <<>>
        /\ pc'[t] = "rows" /\ request'[t] = r /\ messages' = messages /\ users' = users
    BY <1>1, <1>2 DEF ServerTypeOK, Reply, dbVars
  <2>2. RowsIn(messages, r, longer)
    <3>1. i \in C /\ (rows # <<>> => /\ i < rows[Len(rows)].id
                                      /\ \A j \in C : ~(i < j /\ j < rows[Len(rows)].id))
      <4>1. CASE rows = <<>>
        BY <1>2, <4>1, FirstRow
      <4>2. CASE rows # <<>>
        BY <1>1, <1>2, <4>2, NextOlder
      <4>3. QED
        BY <4>1, <4>2
    <3>2. x.id = i
      OBVIOUS
    <3> HIDE DEF x, C, rows, next
    <3>3. /\ DOMAIN longer = 1 .. Len(rows) + 1 /\ Len(longer) = Len(rows) + 1
          /\ Len(rows) \in Nat /\ DOMAIN rows = 1 .. Len(rows)
          /\ \A k \in DOMAIN rows : longer[k] = rows[k]
          /\ longer[Len(rows) + 1] = x
          /\ Len(rows) # 0 => rows # <<>>
      BY <1>1
    <3> HIDE DEF longer
    <3>4. \A k \in DOMAIN longer : longer[k].id \in C
      BY <1>1, <3>1, <3>2, <3>3 DEF RowsIn, C
    <3>5. ASSUME NEW k \in 1 .. Len(longer) - 1
          PROVE  /\ longer[k + 1].id < longer[k].id
                 /\ \A id \in C : ~(longer[k + 1].id < id /\ id < longer[k].id)
      <4>1. CASE k = Len(rows)
        BY <3>1, <3>2, <3>3, <4>1
      <4>2. CASE k \in 1 .. Len(rows) - 1
        BY <1>1, <3>3, <4>2 DEF RowsIn, C
      <4>3. QED
        BY <3>3, <3>5, <4>1, <4>2
    <3>6. QED
      BY <3>4, <3>5 DEF RowsIn, C
  <2>3. QED
    BY <2>1, <2>2, EmptyPage DEF PageOf
<1>3. ASSUME next = {}, Answer(t, [a EXCEPT !.status = 200])
      PROVE  PageOf(t)'
  <2>1. /\ reply'[t].rows = rows /\ reply'[t].names = <<>> /\ reply'[t].unread = <<>>
        /\ pc'[t] = "send" /\ request'[t] = r /\ messages' = messages /\ users' = users
    BY <1>1, <1>3 DEF Answer, ServerTypeOK, Reply, dbVars
  <2>2. Len(rows) < PageSize => Oldest(messages, r, rows)
    BY <1>1, <1>3, NextOlder DEF Oldest
  <2>3. QED
    BY <1>1, <2>1, <2>2, EmptyPage DEF PageOf
<1>4. QED
  BY <1>2, <1>3 DEF ScanMessages

\* One sqlite3_step of GetUsernamesWhereNotEqualUsername.
LEMMA ScanUsersKeepsPage ==
  ASSUME ServerTypeOK, NEW t \in Thread, PageOf(t), ScanUsers(t)
  PROVE  PageOf(t)'
<1> DEFINE r == request[t]
           a == reply[t]
           names == a.names
           next == NextUsername(r.user, names, r.page)
<1>1. /\ pc[t] = "names" /\ r \in Request /\ a \in Reply /\ names \in Seq(Username)
      /\ a.rows = <<>> /\ a.unread = <<>> /\ NamesIn(users, r, names)
  BY DEF ScanUsers, ServerTypeOK, Reply, PageOf
<1>2. ASSUME NEW v \in next,
             reply' = [reply EXCEPT ![t].names = Append(names, v)],
             UNCHANGED <<dbVars, pc, request, historyVars, boundVars>>
      PROVE  PageOf(t)'
  <2> DEFINE longer == Append(names, v)
  <2>1. /\ reply'[t].names = longer /\ reply'[t].rows = <<>> /\ reply'[t].unread = <<>>
        /\ pc'[t] = "names" /\ request'[t] = r /\ messages' = messages /\ users' = users
    BY <1>1, <1>2 DEF ServerTypeOK, Reply, dbVars
  <2>2. /\ v \in Username /\ v # r.user /\ users[v] # None
        /\ names # <<>> => names[Len(names)] < v
    BY <1>1, <1>2, NextName
  <2> HIDE DEF names, next
  <2>3. /\ DOMAIN longer = 1 .. Len(names) + 1 /\ Len(longer) = Len(names) + 1
        /\ Len(names) \in Nat /\ DOMAIN names = 1 .. Len(names)
        /\ \A k \in DOMAIN names : longer[k] = names[k]
        /\ longer[Len(names) + 1] = v
        /\ Len(names) # 0 => names # <<>>
    BY <1>1, <2>2
  <2> HIDE DEF longer
  <2>4. \A k \in DOMAIN longer : longer[k] # r.user /\ users[longer[k]] # None
    BY <1>1, <2>2, <2>3 DEF NamesIn
  <2>5. ASSUME NEW k \in 1 .. Len(longer) - 1
        PROVE  longer[k] < longer[k + 1]
    <3>1. CASE k = Len(names)
      BY <2>2, <2>3, <3>1
    <3>2. CASE k \in 1 .. Len(names) - 1
      <4>1. k \in DOMAIN names /\ k + 1 \in DOMAIN names
        BY <2>3, <3>2
      <4>2. names[k] < names[k + 1]
        BY <1>1, <3>2 DEF NamesIn
      <4>3. longer[k] = names[k] /\ longer[k + 1] = names[k + 1]
        BY <2>3, <4>1
      <4>4. QED
        BY <4>2, <4>3
    <3>3. k = Len(names) \/ k \in 1 .. Len(names) - 1
      <4>1. Len(longer) - 1 = Len(names) /\ Len(names) \in Nat
        BY <2>3
      <4>2. k \in 1 .. Len(names)
        BY <2>5, <4>1
      <4>3. QED
        BY <4>1, <4>2
    <3>4. QED
      BY <3>1, <3>2, <3>3
  <2>6. NamesIn(users, r, longer)
    BY <2>4, <2>5 DEF NamesIn
  <2>7. CountsIn(messages, r, longer, <<>>)
    BY <2>3 DEF CountsIn
  <2>8. QED
    BY <2>1, <2>6, <2>7, EmptyPage DEF PageOf
<1>3. ASSUME names # <<>>, Continue(t, "unread")
      PROVE  PageOf(t)'
  <2>1. /\ reply' = reply /\ request' = request /\ messages' = messages /\ users' = users
        /\ pc'[t] = "unread"
    BY <1>3 DEF Continue, ServerTypeOK, dbVars
  <2>2. Len(a.unread) < Len(names)
    BY <1>1, <1>3
  <2>3. QED
    BY <1>1, <2>1, <2>2 DEF PageOf
<1>4. ASSUME Answer(t, Status(200))
      PROVE  PageOf(t)'
  <2>1. NoPage(reply[t])' /\ pc'[t] = "send"
    BY <1>4 DEF Answer, Status, Blank, NoPage, ServerTypeOK
  <2>2. QED
    BY <2>1, NoPageYet
<1>5. QED
  BY <1>2, <1>3, <1>4 DEF ScanUsers

\* One call of GetUnreadMessagesCountBetweenUsers.
LEMMA CountUnreadKeepsPage ==
  ASSUME ServerTypeOK, NEW t \in Thread, PageOf(t), CountUnread(t)
  PROVE  PageOf(t)'
<1> DEFINE r == request[t]
           a == reply[t]
           unread == a.unread
           i == Len(unread) + 1
           n == GetUnreadMessagesCountBetweenUsers(r.user, a.names[i])
           longer == Append(unread, n)
           filled == [a EXCEPT !.unread = longer]
<1>1. /\ pc[t] = "unread" /\ r \in Request /\ a \in Reply
      /\ a.names \in Seq(Username) /\ unread \in Seq(Nat)
      /\ a.rows = <<>> /\ Len(unread) < Len(a.names)
      /\ NamesIn(users, r, a.names) /\ CountsIn(messages, r, a.names, unread)
      /\ messages \in Seq(Message)
  BY DEF CountUnread, ServerTypeOK, DatabaseTypeOK, Reply, PageOf
<1>2. n \in Nat /\ n <= Cardinality(Letters(messages, a.names[i], r.user))
  <2> DEFINE S == {k \in DOMAIN messages :
                     /\ messages[k].receiver = r.user
                     /\ messages[k].sender = a.names[i]
                     /\ messages[k].read = 0}
             L == Letters(messages, a.names[i], r.user)
  <2>1. n = Cardinality(S)
    BY DEF GetUnreadMessagesCountBetweenUsers
  <2>2. S \subseteq L /\ L \subseteq 1 .. Len(messages) /\ Len(messages) \in Nat
    BY <1>1 DEF Letters
  <2>3. IsFiniteSet(L)
    BY <2>2, FirstNumbersFinite, FS_Subset
  <2>4. QED
    BY <2>1, <2>2, <2>3, FS_Subset, FS_CardinalityType
<1>3. CountsIn(messages, r, a.names, longer)
  <2> HIDE DEF n, unread
  <2>1. /\ DOMAIN longer = 1 .. Len(unread) + 1 /\ Len(longer) = Len(unread) + 1
        /\ Len(unread) \in Nat /\ DOMAIN unread = 1 .. Len(unread)
        /\ \A k \in DOMAIN unread : longer[k] = unread[k]
        /\ longer[i] = n
    BY <1>1, <1>2
  <2> HIDE DEF longer
  <2>2. Len(longer) <= Len(a.names)
    BY <1>1, <2>1
  <2>3. QED
    BY <1>1, <1>2, <2>1, <2>2 DEF CountsIn
<1>4. Len(longer) = i
  BY <1>1, <1>2
<1>5. ASSUME /\ \/ pc'[t] = "unread" /\ i # Len(a.names)
                \/ pc'[t] = "send" /\ i = Len(a.names)
             /\ reply'[t].unread = longer
             /\ reply'[t].names = a.names /\ reply'[t].rows = <<>>
             /\ UNCHANGED <<dbVars, request>>
      PROVE  PageOf(t)'
  <2>1. /\ pc'[t] = "unread" => Len(longer) < Len(a.names)
        /\ pc'[t] = "send" => Len(longer) = Len(a.names)
    BY <1>1, <1>4, <1>5
  <2>2. QED
    BY <1>1, <1>3, <1>5, <2>1, EmptyPage DEF PageOf, dbVars
<1>6. CASE i = Len(a.names) /\ Answer(t, [filled EXCEPT !.status = 200])
  BY <1>1, <1>5, <1>6 DEF Answer, ServerTypeOK, Reply
<1>7. CASE /\ i # Len(a.names)
           /\ reply' = [reply EXCEPT ![t] = filled]
           /\ UNCHANGED <<dbVars, pc, request, historyVars, boundVars>>
  BY <1>1, <1>5, <1>7 DEF ServerTypeOK, Reply
<1>8. QED
  BY <1>6, <1>7 DEF CountUnread

\* Every other step of a thread has no page before and none after it, or sends
\* the one it has.
LEMMA OtherStepsHaveNoPage ==
  ASSUME ServerTypeOK, StageFits, NEW t \in Thread, PageOf(t), ThreadStep(Request, t),
         ~Fault(t), ~ScanUsers(t), ~CountUnread(t), ~ScanMessages(t)
  PROVE  NoPage(reply[t])' /\ pc'[t] # "unread"
<1>1. NoPage(Blank) /\ \A c \in StatusCode : NoPage(Status(c))
  BY DEF NoPage, Blank, Status
<1>2. /\ \A c \in StatusCode, n \in Nat : NoPage([Status(c) EXCEPT !.count = n])
      /\ \A c \in StatusCode, n \in Nat : NoPage([Status(c) EXCEPT !.id = n])
  BY DEF NoPage, Blank, Status
<1>3. pc[t] \notin {"names", "unread", "rows", "send"} => NoPage(reply[t])
  BY DEF PageOf
<1>4. ASSUME NEW a, NoPage(a), Answer(t, a)
      PROVE  NoPage(reply[t])' /\ pc'[t] # "unread"
  BY <1>4 DEF Answer, ServerTypeOK, NoPage
<1>5. ASSUME NEW next, Continue(t, next), next # "unread",
             pc[t] \notin {"names", "unread", "rows", "send"}
      PROVE  NoPage(reply[t])' /\ pc'[t] # "unread"
  BY <1>3, <1>5 DEF Continue, ServerTypeOK, NoPage
<1>6. CASE Receive(t)
  <2>1. request[t] \in Request /\ pc[t] = "recv"
    BY <1>6 DEF Receive, ServerTypeOK
  <2>2. CASE Answer(t, Status(Refusal(request[t]))) \/ Answer(t, Status(200))
    <3>1. Refusal(request[t]) \in StatusCode /\ 200 \in StatusCode
      BY DEF Refusal, StatusCode
    <3>2. QED
      BY <1>1, <1>4, <2>2, <3>1
  <2>3. CASE Refusal(request[t]) = 0 /\ Continue(t, Handler[request[t].command])
    <3>1. request[t].command \in DOMAIN Handler
      BY <2>1, <2>3 DEF Refusal, Request, Command
    <3>2. Handler[request[t].command] # "unread"
      BY <3>1 DEF Handler
    <3>3. QED
      BY <1>5, <2>1, <2>3, <3>2
  <2>4. QED
    BY <1>6, <2>2, <2>3 DEF Receive
<1>7. CASE Login(t) \/ CheckName(t)
  <2>1. {200, 401, 409} \subseteq StatusCode
    BY DEF StatusCode
  <2>2. QED
    BY <1>1, <1>4, <1>5, <1>7, <2>1 DEF Login, CheckName
<1>8. CASE CheckUser(t)
  <2>1. 400 \in StatusCode
    BY DEF StatusCode
  <2>2. request[t].command \in DOMAIN AfterCheck
    BY <1>8 DEF CheckUser, StageFits
  <2>3. AfterCheck[request[t].command] # "unread"
    BY <2>2 DEF AfterCheck
  <2>4. QED
    BY <1>1, <1>4, <1>5, <1>8, <2>1, <2>3 DEF CheckUser
<1>9. CASE CountUsers(t) \/ CountMessages(t)
  <2>1. {200, 500} \subseteq StatusCode
    BY DEF StatusCode
  <2>2. GetUsersCount \in Nat
    BY CountsAreNat DEF ServerTypeOK
  <2>3. pc[t] \in {"total", "count"}
    BY <1>9 DEF CountUsers, CountMessages
  <2>4. request[t].user \in Username /\ request[t].peer \in Username
    BY <2>3 DEF ServerTypeOK, Request
  <2>5. GetMessagesCountBetweenUsers(request[t].user, request[t].peer) \in Nat
    BY <2>4, CountsAreNat DEF ServerTypeOK
  <2>6. QED
    BY <1>1, <1>2, <1>4, <1>5, <1>9, <2>1, <2>2, <2>3, <2>5 DEF CountUsers, CountMessages
<1>10. CASE InsertUser(t) \/ UpdateMessage(t)
  <2>1. {200, 201, 500} \subseteq StatusCode
    BY DEF StatusCode
  <2>2. QED
    BY <1>1, <1>10, <2>1 DEF InsertUser, UpdateMessage, ServerTypeOK, NoPage
<1>11. CASE InsertMessage(t)
  <2>1. 201 \in StatusCode /\ Len(messages) + 1 \in Nat
    BY DEF StatusCode, ServerTypeOK, DatabaseTypeOK
  <2>2. QED
    BY <1>2, <1>11, <2>1 DEF InsertMessage, ServerTypeOK, NoPage
<1>12. CASE \/ Accept(t) \/ Disconnected(t) \/ Begin(t) \/ End(t)
            \/ \E r \in Request : Arrive(t, r)
  <2>1. pc[t] \notin {"names", "unread", "rows", "send"} /\ reply' = reply
    BY <1>12 DEF Accept, Disconnected, Begin, End, AfterEnd, Arrive
  <2>2. pc'[t] # "unread"
    BY <1>12, <2>1 DEF Accept, Disconnected, Begin, End, AfterEnd, Arrive, ServerTypeOK
  <2>3. QED
    BY <1>3, <2>1, <2>2 DEF NoPage
<1>13. CASE SendLost(t) \/ \E next \in Request \cup {Idle} : Send(t, next)
  BY <1>1, <1>13 DEF SendLost, Send, ServerTypeOK, NoPage
<1>14. QED
  BY <1>6, <1>7, <1>8, <1>9, <1>10, <1>11, <1>12, <1>13 DEF ThreadStep, Process

-----------------------------------------------------------------------------
(* The theorems.                                                           *)

LEMMA StepPages ==
  ASSUME faults' = 0, Typing, Storage, Pages, ServerStep(Request)
  PROVE  Pages'
<1>1. ServerTypeOK /\ StageFits /\ ServerTypeOK'
  BY StepTyping DEF Typing
<1>2. CASE Crash
  <2>1. \A t \in Thread : NoPage(reply[t])' /\ pc'[t] # "unread"
    BY <1>2 DEF Crash, NoPage, Blank
  <2>2. QED
    BY <2>1, NoPageYet DEF Pages
<1>3. ASSUME NEW t \in Thread, ThreadStep(Request, t)
      PROVE  Pages'
  <2>1. ~Fault(t)
    BY <1>1 DEF Fault, ExecFails, CommitFails, ServerTypeOK
  <2>2. Grows(Working, Working')
    BY <1>1, <1>3, <2>1, ThreadStorage
  <2>3. \A s \in Thread \ {t} : PageOf(s)'
    BY <1>1, <1>3, <2>2, OthersUntouched, PageStays DEF Pages
  <2>4. PageOf(t)'
    <3>1. PageOf(t)
      BY DEF Pages
    <3>2. CASE ScanUsers(t) \/ CountUnread(t) \/ ScanMessages(t)
      BY <1>1, <3>1, <3>2, ScanUsersKeepsPage, CountUnreadKeepsPage, ScanMessagesKeepsPage
    <3>3. CASE ~ScanUsers(t) /\ ~CountUnread(t) /\ ~ScanMessages(t)
      BY <1>1, <1>3, <2>1, <3>1, <3>3, OtherStepsHaveNoPage, NoPageYet
    <3>4. QED
      BY <3>2, <3>3
  <2>5. QED
    BY <2>3, <2>4 DEF Pages
<1>4. QED
  BY <1>2, <1>3 DEF ServerStep

PageInv == Typing /\ Storage /\ (faults = 0 => Pages)

LEMMA InitPages == ServerInit => PageInv
<1>1. SUFFICES ASSUME ServerInit PROVE Pages
  BY InitStorage DEF PageInv
<1>2. \A t \in Thread : NoPage(reply[t]) /\ pc[t] = "off"
  BY <1>1 DEF ServerInit, NoPage, Blank
<1>3. QED
  BY <1>2, EmptyPage DEF Pages, PageOf, NoPage

LEMMA NextPages ==
  ASSUME PageInv, [ServerNext]_serverVars
  PROVE  PageInv'
<1>1. Typing' /\ Storage'
  BY NextStorage DEF PageInv
<1>2. ASSUME faults' = 0
      PROVE  Pages'
  <2>1. Pages
    BY <1>2, FaultsStay DEF PageInv, Typing
  <2>2. CASE ServerNext
    BY <1>2, <2>1, <2>2, NextIsStep, StepPages DEF PageInv
  <2>3. CASE UNCHANGED serverVars
    BY <2>1, <2>3 DEF serverVars, Pages, PageOf, NoPage
  <2>4. QED
    BY <2>2, <2>3
<1>3. QED
  BY <1>1, <1>2 DEF PageInv

LEMMA AlwaysPages == ServerSpec => []PageInv
<1>1. ServerInit /\ [][ServerNext]_serverVars => []PageInv
  BY InitPages, NextPages, PTL
<1>2. QED
  BY <1>1, PTL DEF ServerSpec

\* What the threads' pages amount to once they are answered.
LEMMA PagesAreSound ==
  ASSUME PageInv
  PROVE  PageHasNoGap /\ UserPageIsSound
<1>1. PageHasNoGap
  <2>1. SUFFICES ASSUME NEW t \in Thread, faults = 0, pc[t] = "send", reply[t].rows # <<>>
                 PROVE  /\ RowsIn(messages, request[t], reply[t].rows)
                        /\ Len(reply[t].rows) < PageSize
                             => Oldest(messages, request[t], reply[t].rows)
    BY DEF PageHasNoGap, RowsIn, Oldest, Conversation, Talk
  <2>2. QED
    BY <2>1 DEF PageInv, Pages, PageOf
<1>2. UserPageIsSound
  <2>1. SUFFICES ASSUME NEW t \in Thread, faults = 0, pc[t] = "send", reply[t].names # <<>>
                 PROVE  /\ NamesIn(users, request[t], reply[t].names)
                        /\ Len(reply[t].unread) = Len(reply[t].names)
                        /\ \A i \in DOMAIN reply[t].names :
                             reply[t].unread[i] <= Cardinality(
                               Letters(messages, reply[t].names[i], request[t].user))
    BY DEF UserPageIsSound, NamesIn, Letters
  <2>2. /\ NamesIn(users, request[t], reply[t].names)
        /\ Len(reply[t].unread) = Len(reply[t].names)
        /\ CountsIn(messages, request[t], reply[t].names, reply[t].unread)
    BY <2>1 DEF PageInv, Pages, PageOf
  <2>3. DOMAIN reply[t].unread = DOMAIN reply[t].names
    <3>1. reply[t].unread \in Seq(Nat) /\ reply[t].names \in Seq(Username)
      BY <2>1 DEF PageInv, Typing, ServerTypeOK, Reply
    <3>2. QED
      BY <2>2, <3>1
  <2>4. QED
    BY <2>2, <2>3 DEF CountsIn
<1>3. QED
  BY <1>1, <1>2

\* The page that View_Messages answers, read by one sqlite3_step after the other
\* while any number of threads insert and mark, has no gap and no duplicate, and a
\* short one ends with the oldest message.
THEOREM ServerPageHasNoGap == ServerSpec => []PageHasNoGap
<1>1. QED
  BY PagesAreSound, AlwaysPages, PTL

\* The users that View_Users answers are registered, in order and without the one
\* who asks, each with a count that its messages to that one account for, whoever
\* registers, writes and marks in between.
THEOREM ServerUserPageIsSound == ServerSpec => []UserPageIsSound
<1>1. QED
  BY PagesAreSound, AlwaysPages, PTL
=============================================================================
