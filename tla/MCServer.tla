------------------------------ MODULE MCServer ------------------------------
(* Constants of the runs of module Server.                                 *)
EXTENDS Server, TLC

CONSTANTS t1, t2, t3, p1, p2, m1

MCUsername == {1, 2}

Make(command, u, v) ==
  [command |-> command, authorized |-> command \notin {"Login", "Register"},
   user |-> u, password |-> p1, peer |-> v, message |-> m1,
   replyId |-> NoReply, page |-> 1, ids |-> <<>>]

NoUsers == [u \in MCUsername |-> None]
NoMessages == <<>>

\* A file with the accounts 1, 3 and 4: 1 and 3 have exchanged three messages, the
\* later ones replies, and 4 has written to 1 in between.  2 is still to register.
FourNames == 1 .. 4
SecondMissing == [u \in FourNames |-> IF u = 2 THEN None ELSE p1]
Letter(u, v, id) ==
  [sender |-> u, receiver |-> v, message |-> m1, read |-> 0, replyId |-> id]
SomeMessages ==
  <<Letter(1, 3, NoReply), Letter(3, 1, 1), Letter(4, 1, NoReply), Letter(1, 3, 2)>>

\* Two clients fight for the name 1 with different passwords, 2 registers, 1
\* writes to 2.
WriteRequests ==
  {[Make("Register", 1, 1) EXCEPT !.password = p] : p \in {p1, p2}}
    \cup {Make("Register", 2, 2), Make("Insert_Message", 1, 2)}

\* 1 and 3 read and write; 2 registers while the others page; 3 marks what it has
\* received; somebody who is logged in logs in; a mark of nothing.
ReadRequests ==
  {[Make("View_Messages", 1, 3) EXCEPT !.page = p] : p \in {1, 2}}
    \cup {[Make("View_Users", 1, 1) EXCEPT !.page = p] : p \in {1, 2}}
    \cup {Make("Insert_Message", 3, 1), Make("Register", 2, 2),
          Make("Get_Messages_Count", 1, 3), Make("Get_Users_Count", 1, 1),
          [Make("Update_Message_Read", 3, 3) EXCEPT !.ids = <<4, 1>>],
          [Make("Login", 1, 1) EXCEPT !.authorized = TRUE],
          Make("Login", 1, 1), Make("Update_Message_Read", 1, 1)}

Threads == {t1, t2, t3}

\* A run has one crash or one storage error.
OneFailure == crashes + faults <= 1
Sym == Permutations(Threads)
=============================================================================
