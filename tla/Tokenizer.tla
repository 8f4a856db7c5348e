------------------------------ MODULE Tokenizer ------------------------------
(***************************************************************************)
(* How the threads of the server take requests apart                       *)
(* (utils/communication_utils.c: ParseClientRequest, ParseContent).  Both  *)
(* use strtok, which remembers where it stopped in ONE variable of the     *)
(* process, so threads that parse at the same time go on in each other's   *)
(* text.  What a thread parses is what ONE recv() returned: a client that  *)
(* does not wait for its answer can have several requests in it, with      *)
(* nothing between the end of one and the flag of the next.                *)
(*                                                                         *)
(* Text is a sequence of cells, a cell being a word or a delimiter.  A     *)
(* call of strtok is two steps: it loads the remembered place, and later   *)
(* stores the new one together with the NUL that ends the token; copying   *)
(* the token (strdup, atoi) is part of the second step.  What handlers do  *)
(* with a parsed request is in module Server.                              *)
(***************************************************************************)
EXTENDS Integers, Sequences, FiniteSets

CONSTANTS
  Thread,
  Word,        \* names, passwords, texts and numbers
  Requests,    \* what clients send
  MaxRequests  \* bound: the requests of one connection

Colon == ":"
Hash  == "#"
Nul   == "NUL"

\* The commands that each half of the dispatch passes to a handler.
Unauthorized == {"Login", "Register"}
Authorized == {"View_Messages", "View_Users", "Get_Users_Count", "Get_Messages_Count",
               "Insert_Message", "Update_Message_Read"}
Command == Unauthorized \cup Authorized
Handled(authorized, command) ==
  command \in IF authorized = "1" THEN Authorized ELSE Unauthorized

Request == [authorized : {"0", "1"}, command : Command, fields : Seq(Word)]
Cell == Word \cup Command \cup {"0", "1", Colon, Hash, Nul}

\* ValidateUserInputs and SendInsertMessageRequest let no delimiter into a field, and
\* no empty one.  Every Send*Request has a field; that of the users' count has one.
ASSUME TokenizerAssumption ==
  /\ Requests \subseteq Request
  /\ \A r \in Requests :
       r.fields # <<>> /\ (r.command = "Get_Users_Count" => Len(r.fields) = 1)
  /\ {Colon, Hash, Nul} \cap Word = {}
  /\ MaxRequests \in Nat

VARIABLES
  pc,         \* pc[t]: the next call of strtok, or "recv", "done"
  sent,       \* sent[t]: how many requests the client of thread t has sent
  stream,     \* stream[t]: the text that has arrived for thread t
  waiting,    \* history: the requests that stream[t] is made of
  taken,      \* history: the requests that the last recv() of t returned
  memory,     \* memory[t]: the buffer clientRequest, then each content duplicated
  parsed,     \* parsed[t]: what thread t has made of the request
  place,      \* the place that strtok remembers
  cursor,     \* cursor[t]: the place that a call under way has loaded
  disturbed   \* history: another thread's strtok came between the calls of t

link == <<sent, stream, waiting, taken>>
vars == <<pc, link, memory, parsed, place, cursor, disturbed>>

Calling == {"auth", "command", "content", "first", "next"}
Stage == {"recv", "done"} \cup Calling
Nowhere == [thread |-> "none"]
Place == [thread : Thread, text : Nat \ {0}, at : Nat \ {0}]   \* memory[thread][text][at]

\* A token is the sequence of its cells; NULL, and what is not set, is <<>>.
Nothing == [authorized |-> "0", command |-> <<>>, inputs |-> 0, fields |-> <<>>]
Parsed == [authorized : {"0", "1"}, command : Seq(Cell), inputs : Nat,
           fields : Seq(Seq(Cell))]

Init ==
  /\ pc = [t \in Thread |-> "recv"]
  /\ sent = [t \in Thread |-> 0]
  /\ stream = [t \in Thread |-> <<>>]
  /\ waiting = [t \in Thread |-> <<>>]
  /\ taken = [t \in Thread |-> <<>>]
  /\ memory = [t \in Thread |-> << <<>> >>]
  /\ parsed = [t \in Thread |-> Nothing]
  /\ place = Nowhere
  /\ cursor = [t \in Thread |-> Nowhere]
  /\ disturbed = [t \in Thread |-> FALSE]

-----------------------------------------------------------------------------
(* What the client sends and the server receives.                          *)

\* Mutant of Content: hashes between the fields only.
HashesBetween(r) ==
  IF r.command = "Get_Users_Count" THEN r.fields
  ELSE [i \in 1 .. 2 * Len(r.fields) - 1 |->
          IF i % 2 = 1 THEN r.fields[(i + 1) \div 2] ELSE Hash]

\* "%s#%s#...": a hash behind every field; Get_Users_Count sends just the name.
Content(r) ==
  IF r.command = "Get_Users_Count" THEN r.fields
  ELSE [i \in 1 .. 2 * Len(r.fields) |->
          IF i % 2 = 1 THEN r.fields[(i + 1) \div 2] ELSE Hash]

\* "%d:%s:%s"
Line(r) == <<r.authorized, Colon, r.command, Colon>> \o Content(r)

\* Mutant of Received: without clientRequest[noOfBytesRead] = '\0'.
Unterminated(old, new) == new \o SubSeq(old, Len(new) + 1, Len(old))

\* recv() over what the buffer held, and the terminator.
Received(old, new) == new \o <<Nul>> \o SubSeq(old, Len(new) + 2, Len(old))

\* memset(clientRequest, 0, strlen(clientRequest))
Cleared(old) ==
  [i \in DOMAIN old |-> IF \A k \in 1 .. i : old[k] # Nul THEN Nul ELSE old[i]]

\* A request comes behind what has not been received yet.  One that comes while the
\* thread is busy is as good as one that comes when it waits in recv().
Send(t, r) ==
  /\ pc[t] = "recv"
  /\ sent[t] < MaxRequests
  /\ sent' = [sent EXCEPT ![t] = @ + 1]
  /\ stream' = [stream EXCEPT ![t] = @ \o Line(r)]
  /\ waiting' = [waiting EXCEPT ![t] = Append(@, r)]
  /\ UNCHANGED <<pc, taken, memory, parsed, place, cursor, disturbed>>

\* Mutant of Receive: a static clientRequest, one buffer for all threads.
StaticBuffer(t) ==
  /\ pc[t] = "recv"
  /\ stream[t] # <<>>
  /\ pc' = [pc EXCEPT ![t] = "auth"]
  /\ stream' = [stream EXCEPT ![t] = <<>>]
  /\ waiting' = [waiting EXCEPT ![t] = <<>>]
  /\ taken' = [taken EXCEPT ![t] = waiting[t]]
  /\ memory' = [u \in Thread |-> [memory[u] EXCEPT ![1] = Received(@, stream[t])]]
  /\ parsed' = [parsed EXCEPT ![t] = Nothing]
  /\ disturbed' = [disturbed EXCEPT ![t] = FALSE]
  /\ UNCHANGED <<sent, place, cursor>>

\* recv() takes all that has arrived, and the whole of it is parsed as one request.
Receive(t) ==
  /\ pc[t] = "recv"
  /\ stream[t] # <<>>
  /\ pc' = [pc EXCEPT ![t] = "auth"]
  /\ stream' = [stream EXCEPT ![t] = <<>>]
  /\ waiting' = [waiting EXCEPT ![t] = <<>>]
  /\ taken' = [taken EXCEPT ![t] = waiting[t]]
  /\ memory' = [memory EXCEPT ![t][1] = Received(@, stream[t])]
  /\ parsed' = [parsed EXCEPT ![t] = Nothing]
  /\ disturbed' = [disturbed EXCEPT ![t] = FALSE]
  /\ UNCHANGED <<sent, place, cursor>>

Answer(t) ==
  /\ pc[t] = "done"
  /\ pc' = [pc EXCEPT ![t] = "recv"]
  /\ memory' = [memory EXCEPT ![t][1] = Cleared(@)]
  /\ UNCHANGED <<link, parsed, place, cursor, disturbed>>

-----------------------------------------------------------------------------
(* strtok.                                                                 *)

CellAt(s, i) == IF i \in DOMAIN s THEN s[i] ELSE Nul

\* From i on: the first cell that is not the delimiter d, and the first one
\* from there that ends a token.
Start(s, i, d) ==
  CHOOSE j \in i .. Len(s) + i :
    CellAt(s, j) # d /\ \A k \in i .. j - 1 : CellAt(s, k) = d
Stop(s, i, d) ==
  CHOOSE j \in Start(s, i, d) .. Len(s) + i :
    /\ CellAt(s, j) \in {d, Nul}
    /\ \A k \in Start(s, i, d) .. j - 1 : CellAt(s, k) \notin {d, Nul}

\* The first half of a call: the text it is given, or the remembered place.
Load(t) ==
  /\ pc[t] \in Calling
  /\ cursor[t] = Nowhere
  /\ cursor' = [cursor EXCEPT ![t] =
       CASE pc[t] = "auth"  -> [thread |-> t, text |-> 1, at |-> 1]
         [] pc[t] = "first" -> [thread |-> t, text |-> Len(memory[t]), at |-> 1]
         [] OTHER           -> place]
  /\ UNCHANGED <<pc, link, memory, parsed, place, disturbed>>

Text(p) == memory[p.thread][p.text]

\* The token, <<>> for NULL.
Token(p, d) == SubSeq(Text(p), Start(Text(p), p.at, d), Stop(Text(p), p.at, d) - 1)

\* All of memory once the delimiter behind the token is a NUL.
Ended(p, d) ==
  LET j == Stop(Text(p), p.at, d)
  IN  IF CellAt(Text(p), j) = d THEN [memory EXCEPT ![p.thread][p.text][j] = Nul]
      ELSE memory

Behind(p, d) ==
  LET j == Stop(Text(p), p.at, d)
  IN  [p EXCEPT !.at = IF CellAt(Text(p), j) = d THEN j + 1 ELSE j]

\* The threads whose calls belong together: nobody should come between them.
Busy(u) == pc[u] \in Calling \ {"first"}

\* The second half of a call, but for memory.
Store(t, d) ==
  /\ cursor[t] # Nowhere
  /\ place' = Behind(cursor[t], d)
  /\ cursor' = [cursor EXCEPT ![t] = Nowhere]
  /\ disturbed' = [u \in Thread |-> disturbed[u] \/ (u # t /\ Busy(u))]
  /\ UNCHANGED link

-----------------------------------------------------------------------------
(* ParseClientRequest and the dispatch, then ParseContent.                 *)

Atoi(token) == IF Head(token) = "1" THEN "1" ELSE "0"

ParseAuthorized(t) ==
  /\ pc[t] = "auth"
  /\ Store(t, Colon)
  /\ memory' = Ended(cursor[t], Colon)
  /\ LET token == Token(cursor[t], Colon)
     IN  \/ /\ token = <<>>
            /\ pc' = [pc EXCEPT ![t] = "done"]
            /\ UNCHANGED parsed
         \/ /\ token # <<>>
            /\ pc' = [pc EXCEPT ![t] = "command"]
            /\ parsed' = [parsed EXCEPT ![t].authorized = Atoi(token)]

ParseCommand(t) ==
  /\ pc[t] = "command"
  /\ Store(t, Colon)
  /\ memory' = Ended(cursor[t], Colon)
  /\ LET token == Token(cursor[t], Colon)
     IN  \/ /\ token = <<>>
            /\ pc' = [pc EXCEPT ![t] = "done"]
            /\ parsed' = [parsed EXCEPT ![t].authorized = "0"]
         \/ /\ token # <<>>
            /\ pc' = [pc EXCEPT ![t] = "content"]
            /\ parsed' = [parsed EXCEPT ![t].command = token]

\* Mutant of ContentEnd: the content is all that is left of the line.
LineEnd == "newline"

\* What ends a content: the delimiter of the third strtok.
ContentEnd == Colon

\* The content is duplicated.  A handler that splits it counts the hashes first.
Dispatch(t) ==
  /\ pc[t] = "content"
  /\ Store(t, ContentEnd)
  /\ LET token   == Token(cursor[t], ContentEnd)
         p       == parsed[t]
         hashes  == Cardinality({i \in DOMAIN token : token[i] = Hash})
         handled == \E c \in Command : p.command = <<c>> /\ Handled(p.authorized, c)
         single  == p.command = <<"Get_Users_Count">>
     IN  \/ /\ token = <<>>
            /\ pc' = [pc EXCEPT ![t] = "done"]
            /\ parsed' = [parsed EXCEPT ![t] = Nothing]
            /\ memory' = Ended(cursor[t], ContentEnd)
         \/ /\ token # <<>>
            /\ memory' = [Ended(cursor[t], ContentEnd) EXCEPT ![t] = Append(@, Append(token, Nul))]
            /\ IF handled /\ ~single /\ hashes > 0
               THEN /\ pc' = [pc EXCEPT ![t] = "first"]
                    /\ parsed' = [parsed EXCEPT ![t].inputs = hashes]
               ELSE /\ pc' = [pc EXCEPT ![t] = "done"]
                    /\ parsed' = IF handled /\ single
                                 THEN [parsed EXCEPT ![t].inputs = 1, ![t].fields = <<token>>]
                                 ELSE parsed

\* One more element of result[].
ParseField(t) ==
  /\ pc[t] \in {"first", "next"}
  /\ Store(t, Hash)
  /\ memory' = Ended(cursor[t], Hash)
  /\ LET token == Token(cursor[t], Hash)
     IN  \/ /\ token = <<>>
            /\ pc' = [pc EXCEPT ![t] = "done"]
            /\ UNCHANGED parsed
         \/ /\ token # <<>>
            /\ pc' = [pc EXCEPT ![t] = IF Len(parsed[t].fields) < parsed[t].inputs
                                       THEN "next" ELSE "done"]
            /\ parsed' = [parsed EXCEPT ![t].fields = Append(@, token)]

\* No thread has written behind the end of its result[], as it does when another
\* thread's call, or the flag of a request received behind, makes one more token than
\* there are hashes.  That is undefined, and the model does not go on from there.
Defined == \A t \in Thread : Len(parsed[t].fields) <= parsed[t].inputs

Next ==
  Defined /\ \E t \in Thread :
    \/ \E r \in Requests : Send(t, r)
    \/ Receive(t)
    \/ Load(t) \/ ParseAuthorized(t) \/ ParseCommand(t) \/ Dispatch(t) \/ ParseField(t)
    \/ Answer(t)

Spec == Init /\ [][Next]_vars

-----------------------------------------------------------------------------
(* Properties.                                                             *)

\* The type of every variable.  strtok never remembers a place outside the text
\* it was given: every text it walks through ends with a NUL.
TypeOK ==
  /\ pc \in [Thread -> Stage]
  /\ sent \in [Thread -> 0 .. MaxRequests]
  /\ stream \in [Thread -> Seq(Cell)]
  /\ waiting \in [Thread -> Seq(Request)]
  /\ taken \in [Thread -> Seq(Request)]
  /\ memory \in [Thread -> Seq(Seq(Cell))]
  /\ parsed \in [Thread -> Parsed]
  /\ \A p \in {place} \cup {cursor[t] : t \in Thread} :
       p # Nowhere => p \in Place /\ p.text \in DOMAIN memory[p.thread] /\ p.at \in DOMAIN Text(p)
  /\ DOMAIN cursor = Thread
  /\ disturbed \in [Thread -> BOOLEAN]

\* The first request of those that thread t has received together, mostly the only one.
First(t) == taken[t][1]
Alone(t) == Len(taken[t]) = 1

\* What thread t has parsed is the request its client sent: the command, and the
\* fields, as many as the handler will look at.
Understood(t) ==
  LET r == First(t)
      p == parsed[t]
  IN  /\ p.authorized = r.authorized
      /\ p.command = <<r.command>>
      /\ Handled(r.authorized, r.command) =>
           /\ p.inputs = Len(r.fields)
           /\ p.fields = [i \in DOMAIN r.fields |-> <<r.fields[i]>>]

\* Every request that is received alone is understood as it was sent, whatever other
\* threads do.
ParsedAsSent == \A t \in Thread : pc[t] = "done" /\ Alone(t) => Understood(t)

\* A request that is received alone, and parsed while no other thread is inside
\* strtok, is understood as it was sent, whatever earlier and longer requests left in
\* the buffer.
UndisturbedParse ==
  \A t \in Thread : pc[t] = "done" /\ Alone(t) /\ ~disturbed[t] => Understood(t)

\* What thread t has parsed is the first request that it has received, with its fields
\* in front of whatever the text behind it has added to them.
Served(t) ==
  LET r == First(t)
      p == parsed[t]
  IN  /\ p.authorized = r.authorized
      /\ p.command = <<r.command>>
      /\ Handled(r.authorized, r.command) =>
           /\ p.inputs = Len(r.fields)
           /\ Len(p.fields) >= p.inputs
           /\ \A i \in DOMAIN r.fields : Head(p.fields[i]) = r.fields[i]

\* However many requests one recv() returns, a thread that nobody disturbs carries out
\* the first of them, under that one's flag and with its fields.  (The flag of the next
\* one may stick to the last field, or be taken for one field more.)
FirstIsServed == \A t \in Thread : pc[t] = "done" /\ ~disturbed[t] => Served(t)

\* No interleaving takes the authorized flag from another client's request, nor from
\* one that was received behind: the first token is looked for at the front of the
\* thread's own buffer.
AuthorizationIsOwn ==
  \A t \in Thread : parsed[t].authorized = "1" => First(t).authorized = "1"
=============================================================================
