------------------------------ MODULE EventLog -------------------------------
(***************************************************************************)
(* The log file of the server (LogEvent of server.c) and its mutex.  Every *)
(* thread logs its connection, one or more events of each request, and its *)
(* end; what else it does for a request never waits for another thread and *)
(* is left out.  Module Process starts and ends the threads and says when  *)
(* the file can be opened.                                                 *)
(***************************************************************************)
EXTENDS Integers, Sequences, FiniteSets

CONSTANTS
  Thread,
  Nobody,
  MaxEvents   \* bound: the events of one request

ASSUME EventLogAssumption ==
  /\ Nobody \notin Thread
  /\ MaxEvents \in Nat \ {0}

VARIABLES
  at,          \* at[t]: the next call of thread t
  left,        \* left[t]: the events still to log before it goes on
  after,       \* after[t]: where it goes then, "recv" or "off"
  fileMutex,   \* who holds the mutex
  openFailed   \* an fopen of this process gave NULL

logVars == <<at, left, after, fileMutex, openFailed>>

Inside == {"open", "print", "close", "unlock"}

\* A thread that is inside LogEvent after the lock holds the mutex, so that no
\* two lines of the file are mixed.
LogTypeOK ==
  /\ at \in [Thread -> {"off", "recv", "lock"} \cup Inside]
  /\ left \in [Thread -> 0 .. MaxEvents]
  /\ after \in [Thread -> {"recv", "off"}]
  /\ fileMutex \in Thread \cup {Nobody}
  /\ openFailed \in BOOLEAN
  /\ \A t \in Thread : at[t] \in Inside => fileMutex = t

LogInit ==
  /\ at = [t \in Thread |-> "off"]
  /\ left = [t \in Thread |-> 0]
  /\ after = [t \in Thread |-> "off"]
  /\ fileMutex = Nobody
  /\ openFailed = FALSE

-----------------------------------------------------------------------------
(* The thread, treat().                                                    *)

\* n calls of LogEvent, and then on to `next`.
Log(t, n, next) ==
  /\ at' = [at EXCEPT ![t] = "lock"]
  /\ left' = [left EXCEPT ![t] = n]
  /\ after' = [after EXCEPT ![t] = next]
  /\ UNCHANGED <<fileMutex, openFailed>>

Connect(t) == at[t] = "off" /\ Log(t, 1, "recv")
Request(t) == at[t] = "recv" /\ \E n \in 1 .. MaxEvents : Log(t, n, "recv")
Disconnect(t) == at[t] = "recv" /\ Log(t, 1, "off")

-----------------------------------------------------------------------------
(* LogEvent.                                                               *)

\* Mutant of Lock: pthread_mutex_trylock, whose result is not looked at.
TryLock(t) ==
  /\ at[t] = "lock"
  /\ fileMutex' = IF fileMutex = Nobody THEN t ELSE fileMutex
  /\ at' = [at EXCEPT ![t] = "open"]
  /\ UNCHANGED <<left, after, openFailed>>

\* pthread_mutex_lock: waits, also for a thread that holds the mutex itself.
Lock(t) ==
  /\ at[t] = "lock"
  /\ fileMutex = Nobody
  /\ fileMutex' = t
  /\ at' = [at EXCEPT ![t] = "open"]
  /\ UNCHANGED <<left, after, openFailed>>

Goto(t, from, to) ==
  /\ at[t] = from
  /\ at' = [at EXCEPT ![t] = to]
  /\ UNCHANGED <<left, after, fileMutex, openFailed>>

Open(t) == Goto(t, "open", "print")
Write(t) == Goto(t, "print", "close")
Close(t) == Goto(t, "close", "unlock")

\* The end of the call: the next event, or back to the caller.
Return(t) ==
  /\ left' = [left EXCEPT ![t] = @ - 1]
  /\ at' = [at EXCEPT ![t] = IF left[t] > 1 THEN "lock" ELSE after[t]]
  /\ UNCHANGED after

\* Mutant of Unlock: the mutex is kept.
KeepLocked(t) ==
  /\ at[t] = "unlock"
  /\ Return(t)
  /\ UNCHANGED <<fileMutex, openFailed>>

Unlock(t) ==
  /\ at[t] = "unlock"
  /\ fileMutex' = Nobody
  /\ Return(t)
  /\ UNCHANGED openFailed

\* fopen gives NULL, and LogEvent returns at once, without the unlock.
OpenFails(t) ==
  /\ at[t] = "open"
  /\ openFailed' = TRUE
  /\ Return(t)
  /\ UNCHANGED fileMutex

\* The threads that wait for the log, and those that have the file open.
Waiting == {t \in Thread : at[t] = "lock"}
Writers == {t \in Thread : at[t] \in {"print", "close"}}
=============================================================================
