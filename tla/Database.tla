------------------------------ MODULE Database ------------------------------
(***************************************************************************)
(* The database of the messenger: the tables `users` and `messages`, and   *)
(* the ONE SQLite connection (`sqlite3 *DB`, server.c) that every client   *)
(* thread uses.  utils/database_utils.c is the code modelled.  The         *)
(* connection is opened in SQLite's serialized mode, so one sqlite3_exec   *)
(* or sqlite3_step is atomic, but a transaction written as three calls     *)
(* (BEGIN, the statement, END) is not: calls of several threads interleave *)
(* and share the one auto-commit flag of the connection.                   *)
(*                                                                         *)
(* `users` and `messages` are what a statement on the connection sees;     *)
(* `disk` is what a crash would leave.  They differ only inside a          *)
(* transaction.                                                            *)
(***************************************************************************)
EXTENDS Integers, Sequences, FiniteSets

CONSTANTS
  Username,   \* the names clients use, numbered in the order of the index of users
  Password,
  Text,       \* message bodies
  None,       \* no password: the name is not registered
  PageSize    \* PAGE_SIZE, 10 in the code

ASSUME DatabaseAssumption ==
  /\ Username \subseteq Nat
  /\ IsFiniteSet(Username)   \* client.c reads at most 49 characters
  /\ None \notin Username
  /\ None \notin Password
  /\ PageSize \in Nat \ {0}

VARIABLES
  users,          \* table users: name -> password, None when there is no row
  messages,       \* table messages: the row with id i is messages[i]
  disk,           \* both tables as last committed
  inTransaction   \* the connection has left auto-commit mode

dbVars == <<users, messages, disk, inTransaction>>

NoReply == -1   \* replyId of a message that answers none (client.c passes -1)

Message == [sender : Username, receiver : Username, message : Text,
            read : {0, 1}, replyId : Nat \cup {NoReply}]

Users == [Username -> Password \cup {None}]
Tables == [users : Users, messages : Seq(Message)]

DatabaseTypeOK ==
  /\ users \in Users
  /\ messages \in Seq(Message)
  /\ disk \in Tables
  /\ inTransaction \in BOOLEAN

Working == [users |-> users, messages |-> messages]

-----------------------------------------------------------------------------
(* The connection.  An error of BEGIN or END is ignored by the code.       *)

\* "BEGIN TRANSACTION;": inside a transaction it fails, which changes nothing.
BeginTransaction ==
  /\ inTransaction' = TRUE
  /\ UNCHANGED <<users, messages, disk>>

\* "END TRANSACTION;": commits whatever any thread wrote since BEGIN; outside
\* a transaction it fails, which changes nothing.
EndTransaction ==
  /\ inTransaction' = FALSE
  /\ disk' = IF inTransaction THEN Working ELSE disk
  /\ UNCHANGED <<users, messages>>

\* A statement that writes: part of the open transaction, or committed at
\* once in auto-commit mode.
Write(newUsers, newMessages) ==
  /\ users' = newUsers
  /\ messages' = newMessages
  /\ disk' = IF inTransaction
             THEN disk
             ELSE [users |-> newUsers, messages |-> newMessages]
  /\ UNCHANGED inTransaction

\* What SQLite does when a commit or a statement meets a storage error, and
\* what the journal does after a crash: back to the last commit.
Rollback ==
  /\ users' = disk.users
  /\ messages' = disk.messages
  /\ inTransaction' = FALSE
  /\ UNCHANGED disk

-----------------------------------------------------------------------------
(* The statements of database_utils.c.                                     *)

GetUsersCountByUsername(u) == IF users[u] = None THEN 0 ELSE 1

GetUsersCountByUsernameAndPassword(u, p) == IF users[u] = p THEN 1 ELSE 0

GetUsersCount == Cardinality({u \in Username : users[u] # None})

Between(m, a, b) ==
  \/ m.receiver = a /\ m.sender = b
  \/ m.receiver = b /\ m.sender = a

Conversation(a, b) == {i \in DOMAIN messages : Between(messages[i], a, b)}

GetMessagesCountBetweenUsers(a, b) == Cardinality(Conversation(a, b))

GetUnreadMessagesCountBetweenUsers(logged, selected) ==
  Cardinality({i \in DOMAIN messages :
                 /\ messages[i].receiver = logged
                 /\ messages[i].sender = selected
                 /\ messages[i].read = 0})

Offset(page) == (page - 1) * PageSize

\* Mutant of NextUsername: without WHERE username <> ?.
NextOfAll(u, seen, page) ==
  LET all  == {v \in Username : users[v] # None}
      rest == IF seen = <<>> THEN all ELSE {v \in all : v > seen[Len(seen)]}
      skip == IF seen = <<>> THEN Offset(page) ELSE 0
  IN  IF Len(seen) = PageSize THEN {}
      ELSE {v \in rest : Cardinality({w \in rest : w < v}) = skip}

\* The next row of SELECT username ... LIMIT ? OFFSET ?: the index of users is
\* scanned upwards.  `seen` is what earlier sqlite3_step calls returned; the
\* first call also skips the OFFSET rows.  The set is empty at the end.
NextUsername(u, seen, page) ==
  LET others == {v \in Username \ {u} : users[v] # None}
      rest   == IF seen = <<>> THEN others
                ELSE {v \in others : v > seen[Len(seen)]}
      skip   == IF seen = <<>> THEN Offset(page) ELSE 0
  IN  IF Len(seen) = PageSize THEN {}
      ELSE {v \in rest : Cardinality({w \in rest : w < v}) = skip}

\* Mutant of NextMessage: a new query with a larger OFFSET for every row.
Requeried(a, b, seen, page) ==
  LET rest == Conversation(a, b)
  IN  IF Len(seen) = PageSize THEN {}
      ELSE {i \in rest : Cardinality({j \in rest : j > i}) = Offset(page) + Len(seen)}

\* The next row id of SELECT * FROM messages ... ORDER BY id DESC: the table is
\* scanned downwards, one row per sqlite3_step, not from a snapshot.
NextMessage(a, b, seen, page) ==
  LET rest == IF seen = <<>> THEN Conversation(a, b)
              ELSE {i \in Conversation(a, b) : i < seen[Len(seen)].id}
      skip == IF seen = <<>> THEN Offset(page) ELSE 0
  IN  IF Len(seen) = PageSize THEN {}
      ELSE {i \in rest : Cardinality({j \in rest : j > i}) = skip}

\* Mutant of UserInsertable: INSERT OR REPLACE.
Replaceable(u) == users[u] \in Password \cup {None}

\* INSERT INTO users: the primary key refuses a second row of the same name.
UserInsertable(u) == users[u] = None

InsertUserRow(u, p) == Write([users EXCEPT ![u] = p], messages)

\* Mutant of InsertMessageRow: two columns bound in the wrong order.
SwappedRow(from, to, text, replyId) ==
  Write(users, Append(messages, [sender |-> from, receiver |-> text,
                                 message |-> to, read |-> 0,
                                 replyId |-> replyId]))

\* INSERT INTO messages: id is max(id) + 1, and rows are never deleted.
InsertMessageRow(from, to, text, replyId) ==
  Write(users, Append(messages, [sender |-> from, receiver |-> to,
                                 message |-> text, read |-> 0,
                                 replyId |-> replyId]))

\* Mutant of UpdateMessageRow: read = 1 - read.
ToggledRow(id) ==
  Write(users, [i \in DOMAIN messages |->
                  IF i = id THEN [messages[i] EXCEPT !.read = 1 - @] ELSE messages[i]])

\* UPDATE messages SET read = 1 WHERE id = ?: no row, no effect.
UpdateMessageRow(id) ==
  Write(users, [i \in DOMAIN messages |->
                  IF i = id THEN [messages[i] EXCEPT !.read = 1] ELSE messages[i]])
=============================================================================
