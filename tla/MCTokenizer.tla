---------------------------- MODULE MCTokenizer -----------------------------
(* Constants of the runs of module Tokenizer.                              *)
EXTENDS Tokenizer, TLC

CONSTANTS t1, t2

Words == {"alice", "bob", "text", "-1"}

Make(authorized, command, fields) ==
  [authorized |-> authorized, command |-> command, fields |-> fields]

LoginRequest == Make("0", "Login", <<"alice", "text">>)

\* Requests of three kinds, a long one first, so that the end of a line stays
\* behind the next: two fields, one, and a single name.
FewRequests ==
  {LoginRequest, Make("1", "Update_Message_Read", <<"-1">>),
   Make("1", "Get_Users_Count", <<"bob">>)}

\* The shortest and the longest list of fields to be split.
TwoRequests ==
  {LoginRequest, Make("1", "Insert_Message", <<"bob", "alice", "text", "-1">>)}

Threads == {t1, t2}
Sym == Permutations(Threads)
=============================================================================
