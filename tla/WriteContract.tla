--------------------------- MODULE WriteContract ----------------------------
(***************************************************************************)
(* What the server promises to whoever registers or writes, without its    *)
(* threads, its connection to the database or its transactions: the file   *)
(* only grows, a 201 is given for what is in the file, one name is given   *)
(* away once, and one row is acknowledged once.  Server implements it with *)
(* `file` the committed tables: a crash and a restart are a stutter here.  *)
(***************************************************************************)
EXTENDS Integers, Sequences

CONSTANTS Username, None

VARIABLES
  file,         \* the tables users and messages as a crash would leave them
  registered,   \* the accounts that were acknowledged
  sent,         \* the messages that were acknowledged
  failed        \* the storage has failed; from then on less is promised

vars == <<file, registered, sent, failed>>

\* Nobody is written to who has no account.
Addressed == \A i \in DOMAIN file.messages : file.users[file.messages[i].receiver] # None

Init ==
  /\ Addressed
  /\ registered = {}
  /\ sent = {}
  /\ failed = FALSE

\* More rows and more marks; nothing that is in the file is lost, not even
\* when the storage fails.
Grows ==
  /\ \A u \in Username : file.users[u] # None => file'.users[u] = file.users[u]
  /\ Len(file.messages) <= Len(file'.messages)
  /\ \A i \in DOMAIN file.messages :
       file'.messages[i] \in {file.messages[i], [file.messages[i] EXCEPT !.read = 1]}

Commit ==
  /\ Grows
  /\ failed \/ Addressed'
  /\ UNCHANGED <<registered, sent, failed>>

AcknowledgeAccount ==
  /\ \E u \in Username :
       LET account == [user |-> u, password |-> file.users[u]]
       IN  /\ file.users[u] # None
           /\ \A a \in registered : a.user # u
           /\ registered' = registered \cup {account}
  /\ UNCHANGED <<file, sent, failed>>

AcknowledgeMessage ==
  /\ \E i \in DOMAIN file.messages :
       LET row == file.messages[i]
       IN  /\ \A s \in sent : s.id # i
           /\ sent' = sent \cup {[id |-> i, sender |-> row.sender,
                                  receiver |-> row.receiver, message |-> row.message,
                                  replyId |-> row.replyId]}
  /\ UNCHANGED <<file, registered, failed>>

\* The storage fails.  What the server acknowledges afterwards is not
\* promised to be in the file.
Fail ==
  /\ failed' = TRUE
  /\ UNCHANGED <<file, registered, sent>>
AcknowledgeAnything ==
  /\ failed
  /\ registered \subseteq registered' /\ sent \subseteq sent'
  /\ UNCHANGED <<file, failed>>

Next == Commit \/ AcknowledgeAccount \/ AcknowledgeMessage \/ Fail \/ AcknowledgeAnything

Spec == Init /\ [][Next]_vars
=============================================================================
