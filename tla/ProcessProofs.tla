--------------------------- MODULE ProcessProofs ----------------------------
(* Theorems about module Process, for all constants.                       *)
EXTENDS Process, TLAPS

\* A thread has something left to log as long as it is inside LogEvent.
Logging == \A t \in Thread : at[t] \in Inside \cup {"lock"} => left[t] > 0

LogInv == LogTypeOK /\ Logging

-----------------------------------------------------------------------------
(* The event log.                                                          *)

\* What treat does keeps the invariant: it holds no mutex and takes none.
LEMMA CallersKeepInv ==
  ASSUME LogInv, NEW t \in Thread, Connect(t) \/ Request(t) \/ Disconnect(t)
  PROVE  LogInv'
<1>1. at[t] \notin Inside
  BY DEF Connect, Request, Disconnect, Inside
<1>2. PICK n \in 1 .. MaxEvents, next \in {"recv", "off"} : Log(t, n, next)
  BY EventLogAssumption DEF Connect, Request, Disconnect, EventLogAssumption
<1>3. QED
  BY <1>1, <1>2, EventLogAssumption
  DEF Log, LogInv, LogTypeOK, Logging, Inside, EventLogAssumption

\* Leaving LogEvent keeps the types; the mutex is free or still with t.
LEMMA ReturnKeepsInv ==
  ASSUME LogInv, NEW t \in Thread, at[t] \in Inside, Return(t),
         fileMutex' \in {Nobody, t}, openFailed' \in BOOLEAN
  PROVE  LogInv'
<1>1. left[t] \in 1 .. MaxEvents
  BY EventLogAssumption DEF LogInv, LogTypeOK, Logging, EventLogAssumption
<1>2. left' \in [Thread -> 0 .. MaxEvents]
  BY <1>1, EventLogAssumption DEF Return, LogInv, LogTypeOK, EventLogAssumption
<1>3. at'[t] \in {"lock", "recv", "off"}
  BY DEF Return, LogInv, LogTypeOK
<1>4. \A u \in Thread : u # t => at'[u] = at[u] /\ at[u] \notin Inside
  BY DEF Return, LogInv, LogTypeOK
<1>5. Logging'
  BY <1>1, <1>2, <1>4, EventLogAssumption
  DEF Return, LogInv, LogTypeOK, Logging, Inside, EventLogAssumption
<1>6. at' \in [Thread -> {"off", "recv", "lock"} \cup Inside] /\ after' = after
  BY DEF Return, LogInv, LogTypeOK
<1>7. QED
  BY <1>2, <1>3, <1>4, <1>5, <1>6 DEF LogInv, LogTypeOK, Inside

\* Every step of a thread inside LogEvent keeps the invariant.
LEMMA LogEventKeepsInv ==
  ASSUME LogInv, NEW t \in Thread,
         Lock(t) \/ Open(t) \/ Write(t) \/ Close(t) \/ Unlock(t) \/ OpenFails(t)
  PROVE  LogInv'
<1> USE EventLogAssumption DEF EventLogAssumption
<1>1. CASE Lock(t)
  BY <1>1 DEF Lock, LogInv, LogTypeOK, Logging, Inside
<1>2. CASE Open(t) \/ Write(t) \/ Close(t)
  BY <1>2 DEF Open, Write, Close, Goto, LogInv, LogTypeOK, Logging, Inside
<1>3. CASE Unlock(t)
  BY <1>3, ReturnKeepsInv DEF Unlock, LogInv, LogTypeOK, Inside
<1>4. CASE OpenFails(t)
  <2>1. fileMutex' = t /\ at[t] \in Inside /\ openFailed' \in BOOLEAN
    BY <1>4 DEF OpenFails, LogInv, LogTypeOK, Inside
  <2>2. QED
    BY <1>4, <2>1, ReturnKeepsInv DEF OpenFails
<1>5. QED
  BY <1>1, <1>2, <1>3, <1>4

\* A thread that logs stays a thread that logs, or is at its end.
LEMMA LogEventKeepsThreads ==
  ASSUME LogInv, NEW t \in Thread, at[t] # "off",
         \/ Request(t) \/ Disconnect(t)
         \/ Lock(t) \/ Open(t) \/ Write(t) \/ Close(t) \/ Unlock(t) \/ OpenFails(t)
  PROVE  \A u \in Thread : at'[u] # "off" => at[u] # "off"
BY DEF Request, Disconnect, Log, Lock, Open, Write, Close, Unlock, OpenFails, Goto,
       Return, LogInv, LogTypeOK

\* The types of the log when no thread runs.
LEMMA Idle ==
  /\ [t \in Thread |-> "off"] \in [Thread -> {"off", "recv", "lock"} \cup Inside]
  /\ [t \in Thread |-> 0] \in [Thread -> 0 .. MaxEvents]
  /\ [t \in Thread |-> "off"] \in [Thread -> {"recv", "off"}]
BY EventLogAssumption DEF Inside, EventLogAssumption

-----------------------------------------------------------------------------
(* The process.                                                            *)

\* The listening socket holds connections nobody has accepted, each one once,
\* and main goes on to pthread_create with every connection it accepts.
Queued ==
  /\ \A i \in DOMAIN backlog : conn[backlog[i]] = "waiting"
  /\ \A i, j \in DOMAIN backlog : backlog[i] = backlog[j] => i = j
Taken == \A t \in Thread : conn[t] = "accepted" => main = "create"

Inv == TypeOK /\ Logging /\ Queued /\ Taken

\* The start-up keeps the invariant.
LEMMA StartKeepsInv ==
  ASSUME Inv, Boot \/ CreateTable \/ CreateTableFails \/ Listen \/ StartFails
  PROVE  Inv'
<1>1. UNCHANGED logVars /\ UNCHANGED <<clientId, backlog, conn, crashes>>
  BY DEF Boot, CreateTable, CreateTableFails, Listen, StartFails
<1>2. LogTypeOK' /\ Logging'
  BY <1>1 DEF Inv, TypeOK, LogTypeOK, Logging, logVars
<1>3. errors' \in 0 .. MaxErrors
  BY ProcessAssumption
  DEF Inv, TypeOK, Boot, CreateTable, CreateTableFails, Listen, StartFails, ProcessAssumption
<1>4. /\ exists' \in BOOLEAN /\ interrupted' \in BOOLEAN /\ tables' \subseteq Table /\ main # "create"
      /\ main' \in {"off", "users", "messages", "log", "accept", "create"}
  BY DEF Inv, TypeOK, Table, Boot, CreateTable, CreateTableFails, Listen, StartFails
<1>5. QED
  BY <1>1, <1>2, <1>3, <1>4 DEF Inv, TypeOK, logVars, Queued, Taken

\* So does a crash, which leaves no thread and no connection.
LEMMA CrashKeepsInv ==
  ASSUME Inv, Crash
  PROVE  Inv'
<1>1. LogTypeOK' /\ Logging'
  <2>1. \A t \in Thread : at'[t] = "off"
    BY DEF Crash
  <2>2. Logging'
    BY <2>1 DEF Logging, Inside
  <2>3. QED
    BY <2>1, <2>2, Idle DEF Crash, LogTypeOK, Inside
<1>2. crashes' \in 0 .. MaxCrashes /\ clientId' \in 0 .. Slots
  BY ProcessAssumption DEF Crash, Inv, TypeOK, ProcessAssumption
<1>3. QED
  BY <1>1, <1>2 DEF Crash, Inv, TypeOK, Queued, Taken

\* What happens to connections keeps the invariant.
LEMMA ConnectionKeepsInv ==
  ASSUME Inv, NEW t \in Thread,
         Arrive(t) \/ Accept \/ CreateThreadFails(t) \/ CloseConn(t)
  PROVE  Inv'
<1>1. LogTypeOK' /\ Logging' /\ at' = at
  BY DEF Inv, TypeOK, LogTypeOK, Logging, logVars, Arrive, Accept, CreateThreadFails, CloseConn
<1> USE ProcessAssumption DEF ProcessAssumption, Inv
<1>2. CASE Arrive(t)
  <2>1. \A i \in DOMAIN backlog : backlog[i] # t
    BY <1>2 DEF Arrive, Queued
  <2>2. TypeOK' /\ Taken'
    BY <1>1, <1>2 DEF Arrive, TypeOK, Taken
  <2>3. Queued'
    BY <1>2, <2>1 DEF Arrive, TypeOK, Queued
  <2>4. QED
    BY <1>1, <2>2, <2>3
<1>3. CASE Accept
  <2>1. /\ Head(backlog) = backlog[1] /\ 1 \in DOMAIN backlog
        /\ Tail(backlog) \in Seq(Thread)
        /\ \A i \in DOMAIN Tail(backlog) : i + 1 \in DOMAIN backlog /\ Tail(backlog)[i] = backlog[i + 1]
    BY <1>3 DEF Accept, TypeOK
  <2>2. backlog[1] \in Thread /\ conn[backlog[1]] = "waiting"
    BY <2>1 DEF Queued, TypeOK
  <2>3. TypeOK' /\ Taken'
    BY <1>1, <1>3, <2>1, <2>2 DEF Accept, TypeOK, Taken
  <2>4. Queued'
    <3>1. \A i \in DOMAIN backlog' : backlog'[i] # backlog[1] /\ conn[backlog'[i]] = "waiting"
      BY <1>3, <2>1 DEF Accept, Queued
    <3>2. \A i, j \in DOMAIN backlog' : backlog'[i] = backlog'[j] => i = j
      <4> SUFFICES ASSUME NEW i \in DOMAIN backlog', NEW j \in DOMAIN backlog',
                          backlog'[i] = backlog'[j]
                   PROVE  i = j
        OBVIOUS
      <4>1. i + 1 = j + 1
        BY <1>3, <2>1 DEF Accept, Queued
      <4>2. i \in Nat /\ j \in Nat
        BY <1>3, <2>1 DEF Accept
      <4>3. QED
        BY <4>1, <4>2
    <3>3. \A i \in DOMAIN backlog' : backlog'[i] \in Thread
      BY <1>3, <2>1 DEF Accept
    <3>4. QED
      BY <1>3, <2>1, <3>1, <3>2, <3>3 DEF Accept, TypeOK, Queued
  <2>5. QED
    BY <1>1, <2>3, <2>4
<1>4. CASE CreateThreadFails(t)
  BY <1>1, <1>4 DEF CreateThreadFails, NextClient, TypeOK, Queued, Taken
<1>5. CASE CloseConn(t)
  BY <1>1, <1>5 DEF CloseConn, TypeOK, Queued, Taken
<1>6. QED
  BY <1>2, <1>3, <1>4, <1>5

\* The start of a thread keeps the invariant.
LEMMA CreateKeepsInv ==
  ASSUME Inv, NEW t \in Thread, CreateThread(t)
  PROVE  Inv'
<1>1. LogInv'
  BY CallersKeepInv DEF CreateThread, Inv, TypeOK, LogInv
<1>2. \A u \in Thread : u # t => at'[u] = at[u] /\ conn'[u] = conn[u] /\ conn'[u] # "accepted"
  BY DEF CreateThread, Connect, Log, Inv, TypeOK, LogTypeOK
<1>3. conn'[t] = "thread" /\ conn' \in [Thread -> {"none", "waiting", "accepted", "thread", "orphan"}]
  BY DEF CreateThread, Inv, TypeOK
<1>4. TypeOK'
  BY <1>1, <1>2, <1>3, ProcessAssumption
  DEF CreateThread, NextClient, Inv, TypeOK, LogInv, ProcessAssumption
<1>5. Queued'
  BY <1>2 DEF CreateThread, NextClient, Inv, TypeOK, Queued
<1>6. QED
  BY <1>1, <1>2, <1>3, <1>4, <1>5 DEF Inv, LogInv, Taken

\* What a thread logs keeps the invariant: main is not concerned.
LEMMA ThreadKeepsInv ==
  ASSUME Inv, NEW t \in Thread, UNCHANGED mainVars,
         \/ Request(t) \/ Disconnect(t)
         \/ Lock(t) \/ Open(t) \/ Write(t) \/ Close(t) \/ Unlock(t) \/ OpenFails(t)
  PROVE  Inv'
<1>1. LogInv'
  BY CallersKeepInv, LogEventKeepsInv DEF Inv, TypeOK, LogInv
<1>2. at[t] # "off"
  BY DEF Request, Disconnect, Lock, Open, Write, Close, Unlock, OpenFails, Goto
<1>3. \A u \in Thread : at'[u] # "off" => at[u] # "off"
  BY <1>2, LogEventKeepsThreads DEF Inv, TypeOK, LogInv
<1>4. QED
  BY <1>1, <1>3 DEF mainVars, Inv, TypeOK, LogInv, Queued, Taken

\* So does an fopen that fails for a reason of its own.
LEMMA LogFileGoneKeepsInv ==
  ASSUME Inv, NEW t \in Thread, LogFileGone(t)
  PROVE  Inv'
<1>1. LogInv'
  BY LogEventKeepsInv DEF LogFileGone, Inv, TypeOK, LogInv
<1>2. at[t] # "off"
  BY DEF LogFileGone, OpenFails
<1>3. \A u \in Thread : at'[u] # "off" => at[u] # "off"
  BY <1>2, LogEventKeepsThreads DEF LogFileGone, Inv, TypeOK, LogInv
<1>4. errors' \in 0 .. MaxErrors
  BY ProcessAssumption DEF LogFileGone, Inv, TypeOK, ProcessAssumption
<1>5. QED
  BY <1>1, <1>3, <1>4 DEF LogFileGone, Inv, TypeOK, LogInv, Queued, Taken

\* Every step keeps the invariant.
LEMMA NextKeepsInv ==
  ASSUME Inv, [Next]_vars
  PROVE  Inv'
<1>1. CASE UNCHANGED vars
  BY <1>1 DEF vars, logVars, mainVars, Inv, TypeOK, LogTypeOK, Logging, Queued, Taken
<1>2. CASE Boot \/ CreateTableFails \/ StartFails \/ CreateTable \/ Listen
  BY <1>2, StartKeepsInv
<1>3. CASE Crash
  BY <1>3, CrashKeepsInv
<1>4. ASSUME NEW t \in Thread, Arrive(t) \/ CreateThreadFails(t) \/ CloseConn(t)
      PROVE  Inv'
  BY <1>4, ConnectionKeepsInv
<1>5. CASE Accept
  <2>1. \E t : t \in Thread
    BY <1>5 DEF Accept, Inv, TypeOK
  <2>2. QED
    BY <1>5, <2>1, ConnectionKeepsInv
<1>6. ASSUME NEW t \in Thread, CreateThread(t)
      PROVE  Inv'
  BY <1>6, CreateKeepsInv
<1>7. ASSUME NEW t \in Thread, UNCHANGED mainVars,
             \/ Request(t) \/ Disconnect(t)
             \/ Lock(t) \/ Open(t) \/ Write(t) \/ Close(t) \/ Unlock(t) \/ OpenFails(t)
      PROVE  Inv'
  BY <1>7, ThreadKeepsInv
<1>8. ASSUME NEW t \in Thread, LogFileGone(t)
      PROVE  Inv'
  BY <1>8, LogFileGoneKeepsInv
<1>9. QED
  BY <1>1, <1>2, <1>3, <1>4, <1>5, <1>6, <1>7, <1>8 DEF Next, MainStep, Client, ThreadStep

LEMMA InitInv == Init => Inv
<1> SUFFICES ASSUME Init PROVE Inv
  OBVIOUS
<1>1. \A t \in Thread : at[t] = "off" /\ conn[t] = "none"
  BY DEF Init, LogInit
<1>2. LogTypeOK /\ Logging
  BY <1>1, Idle DEF Init, LogInit, LogTypeOK, Logging, Inside
<1>3. conn \in [Thread -> {"none", "waiting", "accepted", "thread", "orphan"}]
  BY DEF Init
<1>4. backlog \in Seq(Thread) /\ DOMAIN backlog = {}
  BY DEF Init
<1>5. TypeOK
  <2>1. 0 \in 0 .. Slots /\ 0 \in 0 .. MaxCrashes /\ 0 \in 0 .. MaxErrors
    BY ProcessAssumption DEF ProcessAssumption
  <2>2. clientId = 0 /\ crashes = 0 /\ errors = 0 /\ interrupted = FALSE /\ main = "off"
        /\ exists = FALSE /\ tables = {}
    BY DEF Init
  <2>3. QED
    BY <1>1, <1>2, <1>3, <1>4, <2>1, <2>2 DEF TypeOK
<1>6. QED
  BY <1>1, <1>2, <1>4, <1>5 DEF Inv, Queued, Taken

-----------------------------------------------------------------------------
(* The theorems.                                                           *)

\* Only the holder of the mutex is ever between fopen and fclose, so lines are
\* never mixed; main has one connection in hand at most, and only threads that
\* were started log, in any order of connections, errors and crashes.
THEOREM ProcessTypeCorrect == Spec => []TypeOK
<1>1. Inv => TypeOK
  BY DEF Inv
<1>2. QED
  BY InitInv, NextKeepsInv, <1>1, PTL DEF Spec

\* As long as CreateDatabase always came to its end, main is as far as the file is.
Orderly ==
  ~interrupted =>
    /\ ~exists => tables = {} /\ main = "off"
    /\ main = "off" /\ exists => tables = Table
    /\ main = "messages" => "users" \in tables
    /\ main \in {"log", "accept", "create"} => tables = Table

\* A server takes connections only with both tables, unless some process died or
\* failed inside CreateDatabase, however often it crashed or failed elsewhere.
THEOREM ServiceNeedsTables == Spec => []TablesBeforeService
<1>1. Init => Orderly
  BY DEF Init, Orderly
<1>2. Inv /\ Orderly /\ [Next]_vars => Orderly'
  <2> SUFFICES ASSUME Inv, Orderly, [Next]_vars PROVE Orderly'
    OBVIOUS
  <2> USE DEF Orderly
  <2>1. CASE UNCHANGED <<exists, tables, main, interrupted>>
    BY <2>1
  <2>2. CASE Boot \/ CreateTable \/ Listen
    BY <2>2 DEF Boot, CreateTable, Listen, Table, Inv, TypeOK
  <2>3. CASE CreateTableFails \/ StartFails
    BY <2>3 DEF CreateTableFails, StartFails, Inv, TypeOK
  <2>4. CASE Crash
    BY <2>4 DEF Crash, Table, Inv, TypeOK
  <2>5. CASE Accept
    BY <2>5 DEF Accept
  <2>6. ASSUME NEW t \in Thread, CreateThread(t)
        PROVE  Orderly'
    BY <2>6 DEF CreateThread, NextClient
  <2>7. ASSUME NEW t \in Thread, CreateThreadFails(t) \/ LogFileGone(t)
        PROVE  Orderly'
    BY <2>7 DEF CreateThreadFails, LogFileGone, NextClient, Inv, TypeOK
  <2>8. ASSUME NEW t \in Thread, Client(t) \/ ThreadStep(t)
        PROVE  UNCHANGED <<exists, tables, main, interrupted>>
    BY <2>8 DEF Client, ThreadStep, Arrive, CloseConn, mainVars
  <2>9. CASE UNCHANGED vars
    BY <2>1, <2>9 DEF vars, mainVars
  <2>10. QED
    BY <2>1, <2>2, <2>3, <2>4, <2>5, <2>6, <2>7, <2>8, <2>9 DEF Next, MainStep
<1>3. Inv /\ Orderly => TablesBeforeService
  BY DEF Inv, TypeOK, Orderly, TablesBeforeService
<1>4. QED
  BY InitInv, NextKeepsInv, <1>1, <1>2, <1>3, PTL DEF Spec
=============================================================================
