------------------------------ MODULE Process -------------------------------
(***************************************************************************)
(* The process of the server (main of server.c): the start-up, which opens *)
(* or creates the database file and the log file, the loop that accepts    *)
(* connections and starts a thread for each, and the threads with the      *)
(* event log of module EventLog.  Sockets and the log file share the       *)
(* descriptors of the process; the file is what a crash leaves.            *)
(*                                                                         *)
(* Thread names the connections: conn[t] is the connection that thread t   *)
(* serves, or will serve.                                                  *)
(***************************************************************************)
EXTENDS EventLog

CONSTANTS
  Descriptors,   \* those left for connections and the log file
  Slots,         \* the length of threads, 100 in the code
  MaxCrashes,    \* bounds: crashes, and calls of the start-up,
  MaxErrors      \* pthread_create, and fopen for the log, that fail

ASSUME ProcessAssumption ==
  /\ {Descriptors, Slots} \subseteq Nat \ {0}
  /\ {MaxCrashes, MaxErrors} \subseteq Nat

VARIABLES
  exists,     \* the database file exists
  tables,     \* the tables it has
  main,       \* the next call of main, "off" when the process does not run
  clientId,   \* the number of connections accepted so far
  backlog,    \* connections that wait in the listening socket
  conn,       \* conn[t]: how far connection t is
  crashes,
  errors,
  interrupted \* history: CreateDatabase has not come to its end

mainVars == <<exists, tables, main, clientId, backlog, conn, crashes, errors,
              interrupted>>
vars == <<logVars, mainVars>>

Table == {"users", "messages"}

\* The type of every variable.  One connection is between accept and
\* pthread_create at most, and a thread logs for a connection that is its own.
TypeOK ==
  /\ LogTypeOK
  /\ exists \in BOOLEAN
  /\ tables \subseteq Table
  /\ main \in {"off", "users", "messages", "log", "accept", "create"}
  /\ clientId \in 0 .. Slots
  /\ backlog \in Seq(Thread)
  /\ conn \in [Thread -> {"none", "waiting", "accepted", "thread", "orphan"}]
  /\ crashes \in 0 .. MaxCrashes
  /\ errors \in 0 .. MaxErrors
  /\ interrupted \in BOOLEAN
  /\ \A t \in Thread : at[t] # "off" => conn[t] = "thread"
  /\ \A t, u \in Thread : conn[t] = "accepted" /\ conn[u] = "accepted" => t = u

Init ==
  /\ LogInit
  /\ exists = FALSE
  /\ tables = {}
  /\ main = "off"
  /\ clientId = 0
  /\ backlog = <<>>
  /\ conn = [t \in Thread |-> "none"]
  /\ crashes = 0
  /\ errors = 0
  /\ interrupted = FALSE

-----------------------------------------------------------------------------
(* The start-up.                                                           *)

\* FileExists, and then OpenDatabase or CreateDatabase, whose sqlite3_open
\* makes an empty file at once.
Boot ==
  /\ main = "off"
  /\ exists' = TRUE
  /\ main' = IF exists THEN "log" ELSE "users"
  /\ UNCHANGED <<logVars, tables, clientId, backlog, conn, crashes, errors, interrupted>>

\* Mutant of CreateTable: CreateDatabase returns after the first table.
CreateUsersOnly ==
  /\ main \in Table
  /\ tables' = tables \cup {main}
  /\ main' = "log"
  /\ UNCHANGED <<logVars, exists, clientId, backlog, conn, crashes, errors, interrupted>>

\* One CREATE TABLE of CreateDatabase, committed by itself.
CreateTable ==
  /\ main \in Table
  /\ tables' = tables \cup {main}
  /\ main' = IF main = "users" THEN "messages" ELSE "log"
  /\ UNCHANGED <<logVars, exists, clientId, backlog, conn, crashes, errors, interrupted>>

\* CreateDatabase returns -1, which main does not look at.
CreateTableFails ==
  /\ main \in Table
  /\ errors < MaxErrors
  /\ errors' = errors + 1
  /\ main' = "log"
  /\ interrupted' = TRUE
  /\ UNCHANGED <<logVars, exists, tables, clientId, backlog, conn, crashes>>

\* CreateFile, socket, bind and listen.
Listen ==
  /\ main = "log"
  /\ main' = "accept"
  /\ UNCHANGED <<logVars, exists, tables, clientId, backlog, conn, crashes, errors, interrupted>>

\* Any of these fails: main returns -1.
StartFails ==
  /\ main = "log"
  /\ errors < MaxErrors
  /\ errors' = errors + 1
  /\ main' = "off"
  /\ UNCHANGED <<logVars, exists, tables, clientId, backlog, conn, crashes, interrupted>>

-----------------------------------------------------------------------------
(* The connections.                                                        *)

\* A client connects.
Arrive(t) ==
  /\ main \in {"accept", "create"}
  /\ conn[t] = "none"
  /\ conn' = [conn EXCEPT ![t] = "waiting"]
  /\ backlog' = Append(backlog, t)
  /\ UNCHANGED <<logVars, exists, tables, main, clientId, crashes, errors, interrupted>>

\* A descriptor is open for every connection that was accepted and not closed,
\* also for one without a thread, and for the log file.
Connected == {t \in Thread : conn[t] \in {"accepted", "thread", "orphan"}}
DescriptorFree == Cardinality(Connected) + Cardinality(Writers) < Descriptors

\* Mutant of Accept: the next one is accepted when the last one has left.
AcceptAlone ==
  /\ main = "accept"
  /\ backlog # <<>>
  /\ DescriptorFree
  /\ \A t \in Thread : conn[t] # "thread"
  /\ conn' = [conn EXCEPT ![Head(backlog)] = "accepted"]
  /\ backlog' = Tail(backlog)
  /\ main' = "create"
  /\ UNCHANGED <<logVars, exists, tables, clientId, crashes, errors, interrupted>>

\* accept().  Without a descriptor it fails, and main tries again.
Accept ==
  /\ main = "accept"
  /\ backlog # <<>>
  /\ DescriptorFree
  /\ conn' = [conn EXCEPT ![Head(backlog)] = "accepted"]
  /\ backlog' = Tail(backlog)
  /\ main' = "create"
  /\ UNCHANGED <<logVars, exists, tables, clientId, crashes, errors, interrupted>>

\* The end of the round: back to accept(), the next slot of threads.
NextClient ==
  /\ main = "create"
  /\ clientId < Slots   \* beyond the array the behaviour is undefined
  /\ clientId' = clientId + 1
  /\ main' = "accept"

\* pthread_create: the thread starts with a line in the log.
CreateThread(t) ==
  /\ NextClient
  /\ conn[t] = "accepted"
  /\ conn' = [conn EXCEPT ![t] = "thread"]
  /\ Connect(t)
  /\ UNCHANGED <<exists, tables, backlog, crashes, errors, interrupted>>

\* It fails, which is printed: nobody will serve or close the connection.
CreateThreadFails(t) ==
  /\ NextClient
  /\ errors < MaxErrors
  /\ errors' = errors + 1
  /\ conn[t] = "accepted"
  /\ conn' = [conn EXCEPT ![t] = "orphan"]
  /\ UNCHANGED <<logVars, exists, tables, backlog, crashes, interrupted>>

\* The end of treat, after its last line in the log.
CloseConn(t) ==
  /\ conn[t] = "thread"
  /\ at[t] = "off"
  /\ conn' = [conn EXCEPT ![t] = "none"]
  /\ UNCHANGED <<logVars, exists, tables, main, clientId, backlog, crashes, errors, interrupted>>

-----------------------------------------------------------------------------
\* The process dies; the file stays.
Crash ==
  /\ main # "off"
  /\ crashes < MaxCrashes
  /\ crashes' = crashes + 1
  /\ main' = "off"
  /\ clientId' = 0
  /\ backlog' = <<>>
  /\ conn' = [t \in Thread |-> "none"]
  /\ at' = [t \in Thread |-> "off"]
  /\ left' = [t \in Thread |-> 0]
  /\ after' = [t \in Thread |-> "off"]
  /\ fileMutex' = Nobody
  /\ openFailed' = FALSE
  /\ interrupted' = (interrupted \/ main \in Table)
  /\ UNCHANGED <<exists, tables, errors>>

\* What main does by itself.
MainStep ==
  \/ CreateTable \/ Listen \/ Accept \/ \E t \in Thread : CreateThread(t)

\* What a thread does by itself once it is inside LogEvent, and its end.
\* fopen fails when there is no descriptor.
ThreadStep(t) ==
  \/ /\ \/ Lock(t) \/ Write(t) \/ Close(t) \/ Unlock(t)
        \/ DescriptorFree /\ Open(t)
        \/ ~DescriptorFree /\ OpenFails(t)
     /\ UNCHANGED mainVars
  \/ CloseConn(t)

\* It may fail once for another reason, when the folder logs/ is moved away.
LogFileGone(t) ==
  /\ errors < MaxErrors
  /\ errors' = errors + 1
  /\ OpenFails(t)
  /\ UNCHANGED <<exists, tables, main, clientId, backlog, conn, crashes, interrupted>>

\* What the clients make a thread do.
Client(t) ==
  \/ Arrive(t)
  \/ (Request(t) \/ Disconnect(t)) /\ UNCHANGED mainVars

Next ==
  \/ Boot \/ MainStep \/ Crash \/ CreateTableFails \/ StartFails
  \/ \E t \in Thread : Client(t) \/ ThreadStep(t) \/ CreateThreadFails(t) \/ LogFileGone(t)

\* The scheduler runs main and every thread; nobody has to start the server or
\* to connect.  Who gets the mutex next is not fair.
Spec ==
  /\ Init /\ [][Next]_vars
  /\ WF_vars(MainStep) /\ \A t \in Thread : WF_vars(ThreadStep(t))

-----------------------------------------------------------------------------
(* Properties.                                                             *)

\* A server takes connections only with both tables, unless some process died or
\* failed inside CreateDatabase: no other crash, failed start or restart on the file
\* leaves a table out.
TablesBeforeService ==
  main \in {"accept", "create"} /\ tables # Table => interrupted

\* Whenever threads wait for the log, one of them gets on: the file that all
\* requests go through never stops the server.
LogGoesOn == Waiting # {} ~> (\E t \in Thread : at[t] = "open") \/ main = "off"

\* The same, as long as fopen has not failed.
LogGoesOnWhileOpened ==
  Waiting # {} ~> (\E t \in Thread : at[t] = "open") \/ main = "off" \/ openFailed

\* Every client that connects is served in the end, however many others stay
\* connected, unless the descriptors or the slots are used up, pthread_create
\* fails or the server dies.
AcceptedInTheEnd ==
  \A t \in Thread :
    conn[t] = "waiting" ~>
      \/ conn[t] = "thread"
      \/ main = "off" \/ errors > 0 \/ clientId = Slots
      \/ Cardinality(Connected) + Cardinality(Writers) = Descriptors
=============================================================================
