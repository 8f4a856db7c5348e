----------------------------- MODULE MessengerProofs -----------------------------
(* Proofs about the whole program: the server and the clients of client.c.     *)
(* The inductive invariant is MessengerInv; README.md tells why each part of    *)
(* it is needed.                                                               *)
EXTENDS Messenger, PageProofs, ContractProofs

-----------------------------------------------------------------------------
(* Sets of numbers, and the ids that a client marks.                      *)

\* Induction, with the numbers for which a fact holds as a set.
LEMMA InductionSet ==
  ASSUME NEW S \in SUBSET Nat, 0 \in S, \A n \in S : n + 1 \in S
  PROVE  S = Nat
<1>1. SUFFICES ASSUME S # Nat PROVE FALSE
  OBVIOUS
<1>2. IsWellFoundedOn(Less, Nat)
  <2>1. OpToRel(<, Nat) = Less
    BY DEF OpToRel, Less
  <2>2. QED
    BY <2>1, NatLessThanWellFounded
<1>3. Nat \ S \subseteq Nat /\ Nat \ S # {}
  BY <1>1
<1>4. PICK n \in Nat \ S : \A m \in Nat \ S : <<m, n>> \notin Less
  BY <1>2, <1>3, WFMin
<1>5. n # 0 /\ n - 1 \in Nat /\ <<n - 1, n>> \in Less
  BY <1>4 DEF Less
<1>6. n - 1 \in S
  BY <1>4, <1>5
<1>7. QED
  BY <1>4, <1>5, <1>6

\* RedIds: the ids of the rows that are unread and of another sender.
LEMMA RedIdsAreOfRows ==
  ASSUME NEW rows \in Seq(Row), NEW user
  PROVE  /\ RedIds(rows, user) \in Seq(Nat)
         /\ \A k \in DOMAIN RedIds(rows, user) : \E i \in DOMAIN rows :
              /\ rows[i].id = RedIds(rows, user)[k]
              /\ rows[i].sender # user
<1> DEFINE Step(f, n) == IF n = 0 THEN <<>>
                         ELSE IF rows[n].read = 0 /\ rows[n].sender # user
                              THEN Append(f[n - 1], rows[n].id)
                              ELSE f[n - 1]
           Red(s) == /\ s \in Seq(Nat)
                     /\ \A k \in DOMAIN s : \E i \in DOMAIN rows :
                          rows[i].id = s[k] /\ rows[i].sender # user
           ids == CHOOSE f : f = [n \in 0 .. Len(rows) |-> Step(f, n)]
<1>1. \E f : f = [n \in 0 .. Len(rows) |-> Step(f, n)]
  <2> DEFINE S == {m \in Nat : \E f : f = [n \in 0 .. m |-> Step(f, n)]}
  <2>1. 0 \in S
    <3> DEFINE g == [n \in 0 .. 0 |-> <<>>]
    <3>1. g = [n \in 0 .. 0 |-> Step(g, n)]
      OBVIOUS
    <3>2. QED
      BY <3>1
  <2>2. ASSUME NEW m \in S
        PROVE  m + 1 \in S
    <3>1. PICK f : f = [n \in 0 .. m |-> Step(f, n)]
      OBVIOUS
    <3> DEFINE g == [n \in 0 .. m + 1 |-> IF n \in 0 .. m THEN f[n] ELSE Step(f, n)]
    <3>2. \A n \in 0 .. m + 1 : g[n] = Step(g, n)
      <4>1. TAKE n \in 0 .. m + 1
      <4>2. n # 0 => n - 1 \in 0 .. m /\ g[n - 1] = f[n - 1]
        OBVIOUS
      <4>3. g[n] = Step(f, n)
        BY <3>1
      <4>4. QED
        BY <4>2, <4>3
    <3>3. g = [n \in 0 .. m + 1 |-> Step(g, n)]
      BY <3>2
    <3>4. m + 1 \in Nat
      OBVIOUS
    <3>5. QED
      <4> HIDE DEF g, Step
      <4>1. QED
        BY <3>3, <3>4
  <2>3. S = Nat
    <3> HIDE DEF S
    <3>1. S \subseteq Nat
      BY DEF S
    <3>2. QED
      BY <2>1, <2>2, <3>1, InductionSet
  <2>4. QED
    BY <2>3
<1>2. ids = [n \in 0 .. Len(rows) |-> Step(ids, n)]
  BY <1>1
<1>3. RedIds(rows, user) = ids[Len(rows)]
  BY DEF RedIds
<1> HIDE DEF ids
<1>4. \A n \in 0 .. Len(rows) : Red(ids[n])
  <2> DEFINE S == {m \in Nat : m <= Len(rows) => Red(ids[m])}
  <2>1. 0 \in S
    BY <1>2
  <2>2. ASSUME NEW m \in S
        PROVE  m + 1 \in S
    <3>1. SUFFICES ASSUME m + 1 <= Len(rows) PROVE Red(ids[m + 1])
      OBVIOUS
    <3>2. Red(ids[m]) /\ m + 1 \in DOMAIN rows /\ rows[m + 1] \in Row
      BY <3>1
    <3>3. ids[m + 1] = Step(ids, m + 1)
      <4>1. m + 1 \in 0 .. Len(rows)
        BY <3>1
      <4> HIDE DEF Step
      <4>2. QED
        BY <1>2, <4>1
    <3>4. CASE ids[m + 1] = ids[m]
      BY <3>2, <3>4
    <3>5. CASE ids[m + 1] = Append(ids[m], rows[m + 1].id) /\ rows[m + 1].sender # user
      <4>1. rows[m + 1].id \in Nat
        BY <3>2 DEF Row
      <4>2. QED
        BY <3>2, <3>5, <4>1
    <3>6. QED
      BY <3>3, <3>4, <3>5
  <2>3. S = Nat
    <3> HIDE DEF S
    <3>1. S \subseteq Nat
      BY DEF S
    <3>2. QED
      BY <2>1, <2>2, <3>1, InductionSet
  <2>4. QED
    BY <2>3
<1>5. Len(rows) \in 0 .. Len(rows)
  OBVIOUS
<1>6. QED
  BY <1>3, <1>4, <1>5

-----------------------------------------------------------------------------
(* How many come before: a page that is counted is not empty.             *)

\* The members of S that R has before v.
Before(S, R, v) == {w \in S : <<w, v>> \in R}

\* In a finite set that R orders, there is a member behind exactly k others.
LEMMA NthMember ==
  ASSUME NEW S, IsFiniteSet(S), NEW R,
         \A x, y, z \in S : <<x, y>> \in R /\ <<y, z>> \in R => <<x, z>> \in R,
         \A x \in S : <<x, x>> \notin R,
         \A T \in SUBSET S : T # {} => \E x \in T : \A y \in T : y = x \/ <<x, y>> \in R,
         NEW k \in Nat, k < Cardinality(S)
  PROVE  \E v \in S : Cardinality(Before(S, R, v)) = k
<1> DEFINE Upto(v) == Before(S, R, v) \cup {v}
           N == {n \in Nat : n < Cardinality(S) => \E v \in S : Cardinality(Before(S, R, v)) = n}
<1>0. Cardinality(S) \in Nat
  BY FS_CardinalityType
<1>1. 0 \in N
  <2>1. SUFFICES ASSUME 0 < Cardinality(S)
                 PROVE  \E v \in S : Cardinality(Before(S, R, v)) = 0
    OBVIOUS
  <2>2. S # {}
    BY <2>1, FS_EmptySet
  <2>3. PICK x \in S : \A y \in S : y = x \/ <<x, y>> \in R
    BY <2>2
  <2>4. Before(S, R, x) = {}
    BY <2>3 DEF Before
  <2>5. QED
    BY <2>4, FS_EmptySet
<1>2. ASSUME NEW n \in N
      PROVE  n + 1 \in N
  <2>1. SUFFICES ASSUME n + 1 < Cardinality(S)
                 PROVE  \E v \in S : Cardinality(Before(S, R, v)) = n + 1
    OBVIOUS
  <2>2. PICK v \in S : Cardinality(Before(S, R, v)) = n
    BY <1>0, <2>1
  <2>3. IsFiniteSet(Before(S, R, v)) /\ v \notin Before(S, R, v)
    BY FS_Subset DEF Before
  <2>4. Cardinality(Upto(v)) = n + 1
    BY <2>2, <2>3, FS_AddElement
  <2>5. S \ Upto(v) # {}
    <3>1. SUFFICES ASSUME S \subseteq Upto(v) PROVE FALSE
      OBVIOUS
    <3>2. S = Upto(v)
      BY <3>1 DEF Before
    <3> HIDE DEF Upto
    <3>3. QED
      BY <1>0, <2>1, <2>4, <3>2
  <2>6. PICK u \in S \ Upto(v) : \A y \in S \ Upto(v) : y = u \/ <<u, y>> \in R
    <3>1. S \ Upto(v) \in SUBSET S
      OBVIOUS
    <3> HIDE DEF Upto
    <3>2. QED
      BY <2>5, <3>1
  <2>7. \A w \in S : w = v \/ <<v, w>> \in R \/ <<w, v>> \in R
    <3>1. TAKE w \in S
    <3>2. {v, w} \in SUBSET S /\ {v, w} # {}
      OBVIOUS
    <3>3. PICK x \in {v, w} : \A y \in {v, w} : y = x \/ <<x, y>> \in R
      BY <3>2
    <3>4. QED
      BY <3>3
  <2>8. Before(S, R, u) = Upto(v)
    <3>1. <<v, u>> \in R
      BY <2>6, <2>7 DEF Before
    <3>2. ASSUME NEW w \in Before(S, R, u)
          PROVE  w \in Upto(v)
      <4>1. SUFFICES ASSUME w \notin Upto(v) PROVE FALSE
        OBVIOUS
      <4>2. w \in S \ Upto(v) /\ <<w, u>> \in R
        BY <3>2, <4>1 DEF Before
      <4>3. w = u \/ <<u, w>> \in R
        BY <2>6, <4>2
      <4>4. QED
        BY <4>2, <4>3
    <3>3. ASSUME NEW w \in Upto(v)
          PROVE  w \in Before(S, R, u)
      BY <3>1, <3>3 DEF Before
    <3>4. QED
      BY <3>2, <3>3
  <2>9. QED
    BY <2>4, <2>8
<1>3. N = Nat
  <2> HIDE DEF N
  <2>1. N \in SUBSET Nat
    BY DEF N
  <2>2. QED
    BY <1>1, <1>2, <2>1, InductionSet
<1>4. QED
  BY <1>3

\* Those numbers of S before v, and those after it.
Below(S, v) == {w \in S : w < v}
Above(S, v) == {w \in S : w > v}

\* The same for numbers, counted from below and from above.
LEMMA NthNumber ==
  ASSUME NEW m \in Nat, NEW S, S \subseteq 0 .. m, NEW k \in Nat, k < Cardinality(S)
  PROVE  /\ \E v \in S : Cardinality(Below(S, v)) = k
         /\ \E v \in S : Cardinality(Above(S, v)) = k
<1>1. IsFiniteSet(S)
  <2>1. IsFiniteSet(0 .. m)
    BY FS_Interval
  <2>2. QED
    BY <2>1, FS_Subset
<1>2. \A T \in SUBSET S : T # {} => \E x \in T : \A y \in T : y = x \/ x < y
  <2>1. SUFFICES ASSUME NEW T \in SUBSET S, T # {}
                 PROVE  \E x \in T : \A y \in T : x <= y
    BY SMTT(20)
  <2> DEFINE D == {m + 1 - x : x \in T}
  <2>2. D \subseteq 1 .. m + 1 /\ D # {}
    <3>1. \A x \in T : x \in 0 .. m
      BY <2>1
    <3>2. \A x \in T : m + 1 - x \in 1 .. m + 1
      BY <3>1
    <3>3. QED
      BY <2>1, <3>2
  <2>3. PICK d \in D : \A e \in D : e <= d
    <3> HIDE DEF D
    <3>1. m + 1 \in Nat
      OBVIOUS
    <3>2. QED
      BY <2>2, <3>1, LargestNumber
  <2>4. PICK x \in T : d = m + 1 - x
    BY <2>3
  <2>5. \A y \in T : m + 1 - y <= m + 1 - x
    BY <2>3, <2>4
  <2>6. \A y \in T : y \in 0 .. m
    BY <2>1
  <2>7. QED
    BY <2>5, <2>6
<1>3. \A T \in SUBSET S : T # {} => \E x \in T : \A y \in T : y = x \/ x > y
  <2>1. SUFFICES ASSUME NEW T \in SUBSET S, T # {}
                 PROVE  \E x \in T : \A y \in T : y <= x
    BY SMTT(20)
  <2> DEFINE D == {x + 1 : x \in T}
  <2>2. D \subseteq 1 .. m + 1 /\ D # {}
    <3>1. \A x \in T : x \in 0 .. m
      BY <2>1
    <3>2. \A x \in T : x + 1 \in 1 .. m + 1
      BY <3>1
    <3>3. QED
      BY <2>1, <3>2
  <2>3. PICK d \in D : \A e \in D : e <= d
    <3> HIDE DEF D
    <3>1. m + 1 \in Nat
      OBVIOUS
    <3>2. QED
      BY <2>2, <3>1, LargestNumber
  <2>4. PICK x \in T : d = x + 1
    BY <2>3
  <2>5. \A y \in T : y + 1 <= x + 1
    BY <2>3, <2>4
  <2>6. \A y \in T : y \in 0 .. m
    BY <2>1
  <2>7. QED
    BY <2>5, <2>6
<1>4. \E v \in S : Cardinality(Below(S, v)) = k
  <2>1. S \subseteq Nat
    OBVIOUS
  <2> DEFINE R == Less
  <2>2. \A x, y \in S : <<x, y>> \in R <=> x < y
    BY <2>1 DEF Less
  <2> HIDE DEF R
  <2>3. PICK v \in S : Cardinality(Before(S, R, v)) = k
    <3>1. \A x, y, z \in S : <<x, y>> \in R /\ <<y, z>> \in R => <<x, z>> \in R
      BY <2>1, <2>2
    <3>2. \A x \in S : <<x, x>> \notin R
      BY <2>1, <2>2
    <3>3. \A T \in SUBSET S : T # {} => \E x \in T : \A y \in T : y = x \/ <<x, y>> \in R
      BY <1>2, <2>2
    <3>4. QED
      BY <1>1, <3>1, <3>2, <3>3, NthMember
  <2>4. Before(S, R, v) = Below(S, v)
    BY <2>2 DEF Before, Below
  <2>5. QED
    BY <2>3, <2>4
<1>5. \E v \in S : Cardinality(Above(S, v)) = k
  <2>1. S \subseteq Nat
    OBVIOUS
  <2> DEFINE R == {ss \in Nat \X Nat : ss[1] > ss[2]}
  <2>2. \A x, y \in S : <<x, y>> \in R <=> x > y
    BY <2>1
  <2> HIDE DEF R
  <2>3. PICK v \in S : Cardinality(Before(S, R, v)) = k
    <3>1. \A x, y, z \in S : <<x, y>> \in R /\ <<y, z>> \in R => <<x, z>> \in R
      BY <2>1, <2>2
    <3>2. \A x \in S : <<x, x>> \notin R
      BY <2>1, <2>2
    <3>3. \A T \in SUBSET S : T # {} => \E x \in T : \A y \in T : y = x \/ <<x, y>> \in R
      BY <1>3, <2>2
    <3>4. QED
      BY <1>1, <3>1, <3>2, <3>3, NthMember
  <2>4. Before(S, R, v) = Above(S, v)
    BY <2>2 DEF Before, Above
  <2>5. QED
    BY <2>3, <2>4
<1>6. QED
  BY <1>4, <1>5

\* Every page up to the number of pages has a row.
LEMMA PageCountIsTight ==
  ASSUME NEW n \in Nat
  PROVE  /\ PageCount(n) \in Nat
         /\ \A p \in 1 .. PageCount(n) : Offset(p) \in Nat /\ Offset(p) < n
<1> DEFINE q == n \div PageSize
           r == n % PageSize
<1>1. PageSize \in Nat \ {0}
  BY DatabaseAssumption DEF DatabaseAssumption
<1>2. q \in Nat /\ r \in Nat /\ n = PageSize * q + r
  BY <1>1, Z3
<1> HIDE DEF q, r
<1>3. PageCount(n) = IF r = 0 THEN q ELSE q + 1
  BY DEF PageCount, q, r
<1>4. ASSUME NEW p \in Nat, p > 0, p <= PageCount(n)
      PROVE  Offset(p) \in Nat /\ Offset(p) < n
  <2>1. \A a, b \in Nat : a <= b => a * PageSize \in Nat /\ a * PageSize <= b * PageSize
    BY <1>1
  <2>2. p - 1 \in Nat /\ q * PageSize = PageSize * q
    BY <1>1, <1>2, <1>4
  <2>3. CASE r = 0
    <3>1. q > 0 /\ p - 1 <= q - 1 /\ q - 1 \in Nat
      BY <1>2, <1>3, <1>4, <2>3
    <3>2. (q - 1) * PageSize = n - PageSize
      BY <1>1, <1>2, <2>3, <3>1
    <3>3. QED
      BY <1>1, <2>1, <2>2, <3>1, <3>2 DEF Offset
  <2>4. CASE r # 0
    <3>1. p - 1 <= q
      BY <1>2, <1>3, <1>4, <2>4
    <3>2. q * PageSize < n
      BY <1>1, <1>2, <2>2, <2>4
    <3>3. QED
      BY <1>1, <1>2, <2>1, <2>2, <3>1, <3>2 DEF Offset
  <2>5. QED
    BY <2>3, <2>4
<1>5. QED
  BY <1>2, <1>3, <1>4

-----------------------------------------------------------------------------
(* The inductive invariant.                                               *)

\* The commands that a client without an account may send.
Entry == {"Login", "Register"}

\* Which request each stage of a handler belongs to, and that all but a login
\* and a registration need one: this much no storage error changes.
Dispatched(t) ==
  LET r == request[t]
      a == reply[t]
  IN  /\ pc[t] = "off" => r = Idle
      /\ pc[t] = "lookup" => r.command = "Login"
      /\ pc[t] = "total" => r.command \in {"View_Users", "Get_Users_Count"}
      /\ pc[t] = "count" => r.command = "Get_Messages_Count"
      /\ pc[t] \in {"names", "unread"} => r.command = "View_Users"
      /\ pc[t] = "rows" => r.command = "View_Messages"
      /\ pc[t] = "unread" => a.names # <<>>
      /\ pc[t] \in {"begin", "exec", "end"} /\ r.command = "Update_Message_Read"
           => r.ids # <<>>
      /\ pc[t] \notin {"off", "recv", "send"} /\ r.command \notin Entry => r.authorized
      /\ pc[t] = "send" /\ a.status \in {200, 201} /\ r.command \notin Entry \cup {"Quit"}
           => r.authorized
      /\ pc[t] = "send" /\ a.status = 200 /\ r.command = "Get_Users_Count" => a.count > 0

\* Who has an account in U, and who of them is not u.
Accounts(U) == {v \in Username : U[v] # None}
Others(U, u) == Accounts(U) \ {u}

\* Page p of the rows S has a row.
Reaches(p, S) == p > 0 /\ Offset(p) < Cardinality(S)

\* What client.c takes care of in a request.  The tables are U and M, and S is
\* what was shown.
RequestFits(U, M, S, r) ==
  /\ r.command # "Quit"
  /\ r.command \in Entry => ~r.authorized
  /\ r.authorized => U[r.user] # None
  /\ r.command = "View_Users" => Reaches(r.page, Others(U, r.user))
  /\ r.command = "View_Messages" => Reaches(r.page, Talk(M, r.user, r.peer))
  /\ r.command = "Update_Message_Read" => \A k \in DOMAIN r.ids : r.ids[k] \in S
  /\ r.command = "Insert_Message" /\ r.replyId # NoReply =>
       r.replyId \in Talk(M, r.user, r.peer)

\* What a reply a that is about to be sent says is still so, or less than what is.
ReplyFits(U, M, r, a) ==
  /\ r.command \in Entry /\ a.status \in {200, 201} => U[r.user] # None
  /\ a.status = 200 =>
       /\ r.command = "Get_Users_Count" => a.count <= Cardinality(Accounts(U))
       /\ r.command = "Get_Messages_Count" => a.count <= Cardinality(Talk(M, r.user, r.peer))
       /\ r.command = "View_Users" => a.names # <<>>
       /\ r.command = "View_Messages" => a.rows # <<>>

\* What a client remembers.
ClientFits(U, M, c) ==
  /\ c.user # None => U[c.user] # None
  /\ c.view \in {"users", "talk"} => c.user # None
  /\ c.view = "talk" => c.peer # None
  /\ c.view # "talk" => c.mpages = 0 /\ c.rows = {}
  /\ c.peer # None \/ c.names # {} => c.pages > 0
  /\ c.pages > 0 => c.page \in 1 .. c.pages
  /\ c.mpages > 0 => c.mpage \in 1 .. c.mpages
  /\ \A p \in 1 .. c.pages : Reaches(p, Others(U, c.user))
  /\ \A p \in 1 .. c.mpages : Reaches(p, Talk(M, c.user, c.peer))
  /\ c.rows \subseteq Talk(M, c.user, c.peer)

\* A request under way is the last one of its client, who waits for the reply.
Asks(c, r) ==
  /\ r.command \notin Entry =>
       /\ r.authorized => c.user # None
       /\ c.user # None => r.user = c.user
       /\ c.peer # None => r.peer = c.peer
  /\ r.command = "View_Users" => c.pages > 0
  /\ r.command = "Get_Messages_Count" => c.peer # None /\ c.view \in {"users", "talk"}
  /\ r.command \in {"View_Messages", "Insert_Message", "Update_Message_Read"} =>
       c.view = "talk"

\* What thread t, its client and the request between them rely on.
ThreadFits(t) ==
  /\ ClientFits(users, messages, client[t])
  /\ request[t] # Idle =>
       /\ RequestFits(users, messages, shown, request[t])
       /\ client[t].view # "off" => Asks(client[t], request[t])
  /\ pc[t] = "end" /\ request[t].command = "Register" /\ reply[t].status \in {200, 201}
       => users[request[t].user] # None
  /\ pc[t] = "send" => ReplyFits(users, messages, request[t], reply[t])

\* The rows of T that are marked were shown.
MarksShown(T) == \A i \in DOMAIN T.messages : T.messages[i].read = 1 => i \in shown

\* The rows make sense and only shown ones are marked, in the file as well.
TablesFit == \A T \in {Working, disk} : Consistent(T) /\ MarksShown(T)

\* Until a storage error, all of it holds.
Fits == TablesFit /\ \A t \in Thread : ThreadFits(t)

\* The types of the variables that Messenger adds to the server.
ClientTypeOK == client \in [Thread -> Client] /\ shown \subseteq Nat

-----------------------------------------------------------------------------
(* What a thread, its client and its reply rely on stays true when the     *)
(* tables grow.                                                            *)

\* What is counted for the pages is finite.
LEMMA TablesAreFinite ==
  ASSUME NEW T \in Tables
  PROVE  /\ IsFiniteSet(Accounts(T.users))
         /\ \A u : IsFiniteSet(Others(T.users, u))
         /\ \A a, b : IsFiniteSet(Talk(T.messages, a, b)) /\ Talk(T.messages, a, b) \subseteq Nat
<1>1. IsFiniteSet(Username)
  BY DatabaseAssumption DEF DatabaseAssumption
<1>2. T.messages \in Seq(Message) /\ Len(T.messages) \in Nat
      /\ DOMAIN T.messages = 1 .. Len(T.messages)
  BY DEF Tables
<1>3. IsFiniteSet(1 .. Len(T.messages))
  BY <1>2, FS_Interval
<1>4. \A a, b : Talk(T.messages, a, b) \subseteq 1 .. Len(T.messages)
  BY <1>2 DEF Talk
<1>5. \A u : Others(T.users, u) \subseteq Username
  BY DEF Others, Accounts
<1>6. Accounts(T.users) \subseteq Username
  BY DEF Accounts
<1>7. QED
  BY <1>1, <1>3, <1>4, <1>5, <1>6, FS_Subset

\* A page that has a row keeps one when rows are added.
LEMMA ReachesGrows ==
  ASSUME NEW X, NEW Y, X \subseteq Y, IsFiniteSet(Y), NEW p \in Int, Reaches(p, X)
  PROVE  Reaches(p, Y)
<1>1. Cardinality(X) \in Nat /\ Cardinality(Y) \in Nat /\ Cardinality(X) <= Cardinality(Y)
  BY FS_Subset, FS_CardinalityType
<1>2. Offset(p) \in Int
  BY DatabaseAssumption DEF Offset, DatabaseAssumption
<1>3. QED
  BY <1>1, <1>2 DEF Reaches

\* In tables that grow nobody loses an account or a message.
LEMMA TablesGrow ==
  ASSUME NEW T \in Tables, NEW S \in Tables, Grows(T, S)
  PROVE  /\ Accounts(T.users) \subseteq Accounts(S.users)
         /\ \A u \in Username : T.users[u] # None => S.users[u] # None
         /\ \A u : Others(T.users, u) \subseteq Others(S.users, u)
         /\ \A a, b : Talk(T.messages, a, b) \subseteq Talk(S.messages, a, b)
<1>1. \A u \in Username : T.users[u] # None => S.users[u] # None
  BY DEF Grows
<1>2. \A i \in DOMAIN T.messages :
         /\ i \in DOMAIN S.messages
         /\ S.messages[i].sender = T.messages[i].sender
         /\ S.messages[i].receiver = T.messages[i].receiver
  <2>1. TAKE i \in DOMAIN T.messages
  <2>2. /\ T.messages \in Seq(Message) /\ S.messages \in Seq(Message)
        /\ Len(T.messages) <= Len(S.messages)
    BY DEF Tables, Grows
  <2>3. i \in DOMAIN S.messages /\ T.messages[i] \in Message
    BY <2>2
  <2>4. S.messages[i] \in {T.messages[i], [T.messages[i] EXCEPT !.read = 1]}
    BY DEF Grows
  <2>5. QED
    BY <2>3, <2>4 DEF Message
<1>3. \A a, b : Talk(T.messages, a, b) \subseteq Talk(S.messages, a, b)
  BY <1>2 DEF Talk, Between
<1>4. QED
  BY <1>1, <1>3 DEF Accounts, Others

\* What fits the tables fits the ones they grow to.
LEMMA FitsGrow ==
  ASSUME NEW T \in Tables, NEW S \in Tables, Grows(T, S), NEW A, NEW B, A \subseteq B
  PROVE  /\ \A r \in Request : RequestFits(T.users, T.messages, A, r)
                                 => RequestFits(S.users, S.messages, B, r)
         /\ \A r \in Request, a \in Reply : ReplyFits(T.users, T.messages, r, a)
                                             => ReplyFits(S.users, S.messages, r, a)
         /\ \A c \in Client : ClientFits(T.users, T.messages, c)
                                => ClientFits(S.users, S.messages, c)
<1>1. /\ Accounts(T.users) \subseteq Accounts(S.users)
      /\ \A u \in Username : T.users[u] # None => S.users[u] # None
      /\ \A u : Others(T.users, u) \subseteq Others(S.users, u)
      /\ \A a, b : Talk(T.messages, a, b) \subseteq Talk(S.messages, a, b)
  BY TablesGrow
<1>2. /\ IsFiniteSet(Accounts(S.users))
      /\ \A u : IsFiniteSet(Others(S.users, u))
      /\ \A a, b : IsFiniteSet(Talk(S.messages, a, b))
  BY TablesAreFinite
<1>3. /\ \A u, p : p \in Int /\ Reaches(p, Others(T.users, u)) => Reaches(p, Others(S.users, u))
      /\ \A a, b, p : p \in Int /\ Reaches(p, Talk(T.messages, a, b))
                        => Reaches(p, Talk(S.messages, a, b))
  BY <1>1, <1>2, ReachesGrows
<1>4. ASSUME NEW r \in Request, RequestFits(T.users, T.messages, A, r)
      PROVE  RequestFits(S.users, S.messages, B, r)
  <2>1. r.user \in Username /\ r.page \in Int
    BY DEF Request
  <2>2. QED
    BY <1>1, <1>3, <1>4, <2>1 DEF RequestFits
<1>5. ASSUME NEW r \in Request, NEW a \in Reply, ReplyFits(T.users, T.messages, r, a)
      PROVE  ReplyFits(S.users, S.messages, r, a)
  <2>1. r.user \in Username /\ a.count \in Nat
    BY DEF Request, Reply
  <2>2. /\ Cardinality(Accounts(T.users)) <= Cardinality(Accounts(S.users))
        /\ Cardinality(Accounts(T.users)) \in Nat /\ Cardinality(Accounts(S.users)) \in Nat
    BY <1>1, <1>2, FS_Subset, FS_CardinalityType
  <2>3. /\ Cardinality(Talk(T.messages, r.user, r.peer))
             <= Cardinality(Talk(S.messages, r.user, r.peer))
        /\ Cardinality(Talk(T.messages, r.user, r.peer)) \in Nat
        /\ Cardinality(Talk(S.messages, r.user, r.peer)) \in Nat
    BY <1>1, <1>2, FS_Subset, FS_CardinalityType
  <2>4. QED
    BY <1>1, <1>5, <2>1, <2>2, <2>3 DEF ReplyFits
<1>6. ASSUME NEW c \in Client, ClientFits(T.users, T.messages, c)
      PROVE  ClientFits(S.users, S.messages, c)
  <2>1. c.user \in Username \cup {None}
    BY DEF Client
  <2>2. /\ \A p \in 1 .. c.pages : Reaches(p, Others(S.users, c.user))
        /\ \A p \in 1 .. c.mpages : Reaches(p, Talk(S.messages, c.user, c.peer))
    BY <1>3, <1>6 DEF ClientFits
  <2>3. c.rows \subseteq Talk(S.messages, c.user, c.peer)
    BY <1>1, <1>6 DEF ClientFits
  <2>4. QED
    BY <1>1, <1>6, <2>1, <2>2, <2>3 DEF ClientFits
<1>7. QED
  BY <1>4, <1>5, <1>6

-----------------------------------------------------------------------------
(* The types of what clients send and remember.                            *)

\* What the functions Send*Request of client.c send is a request.
LEMMA RequestTyping ==
  ASSUME NEW c \in Client
  PROVE  /\ GetUsersCountRequest(c) \in Request /\ GetMessagesCount(c) \in Request
         /\ ViewUsers(c) \in Request /\ ViewMessages(c) \in Request
         /\ Refetch(c) \in Request \cup {Idle}
         /\ \A text \in Text, id \in Nat \cup {NoReply} : NewMessage(c, text, id) \in Request
         /\ \A ids \in Seq(Nat) : UpdateRead(c, ids) \in Request
<1>1. AnyName \in Username /\ (CHOOSE p \in Password : TRUE) \in Password
      /\ (CHOOSE m \in Text : TRUE) \in Text
  BY MessengerAssumption DEF MessengerAssumption, AnyName
<1>2. /\ c.user \in Username \cup {None} /\ c.peer \in Username \cup {None}
      /\ c.page \in Nat /\ c.mpage \in Nat
  BY DEF Client
<1>3. \A command \in Command : Ask(command, c) \in Request
  BY <1>1, <1>2 DEF Ask, Request
<1>4. {"Get_Users_Count", "View_Users", "Get_Messages_Count", "View_Messages",
       "Insert_Message", "Update_Message_Read"} \subseteq Command
  BY DEF Command, Handler
<1>5. \A r \in Request :
        /\ \A p \in Nat : [r EXCEPT !.page = p] \in Request
        /\ \A ids \in Seq(Nat) : [r EXCEPT !.ids = ids] \in Request
        /\ \A text \in Text, id \in Nat \cup {NoReply} :
             [r EXCEPT !.message = text, !.replyId = id] \in Request
  BY DEF Request
<1>6. QED
  BY <1>2, <1>3, <1>4, <1>5
  DEF GetUsersCountRequest, GetMessagesCount, ViewUsers, ViewMessages, Refetch, NewMessage,
      UpdateRead

\* A client that turns to another view remembers values of their types.
LEMMA ClientTyping ==
  /\ Closed \in Client /\ FirstPage \in Client
  /\ \A c \in Client :
       /\ Menu(c) \in Client /\ UserList(c) \in Client
       /\ \A u \in Username : [c EXCEPT !.user = u] \in Client
       /\ \A v \in Username : [c EXCEPT !.peer = v] \in Client
       /\ \A p \in Nat : [c EXCEPT !.page = p] \in Client /\ [c EXCEPT !.mpage = p] \in Client
       /\ \A S \in SUBSET Username : [c EXCEPT !.names = S] \in Client
       /\ \A S \in SUBSET Nat : [c EXCEPT !.rows = S] \in Client
<1>1. Closed \in Client
  BY DEF Closed, Client, View
<1>2. FirstPage \in Client
  BY <1>1 DEF FirstPage, Client, View
<1>3. ASSUME NEW c \in Client
      PROVE  Menu(c) \in Client /\ UserList(c) \in Client
  BY <1>2 DEF Menu, UserList, Client, View
<1>4. QED
  BY <1>1, <1>2, <1>3 DEF Client

\* So is what the form for the name and the password sends.
LEMMA CredentialsTyping ==
  ASSUME NEW command \in Entry, NEW u \in Username, NEW p \in Password
  PROVE  Credentials(command, u, p) \in Request
<1>1. AnyName \in Username /\ (CHOOSE m \in Text : TRUE) \in Text
      /\ (CHOOSE q \in Password : TRUE) \in Password
  BY MessengerAssumption DEF MessengerAssumption, AnyName
<1>2. FirstPage.user = None /\ FirstPage.peer = None
  BY DEF FirstPage, Closed
<1>3. command \in Command
  BY DEF Entry, Command, Handler
<1>4. Ask(command, FirstPage) \in Request
  BY <1>1, <1>2, <1>3 DEF Ask, Request
<1>5. QED
  BY <1>4 DEF Credentials, Request

\* A key that sends a request.
LEMMA PressTyping ==
  ASSUME ClientTypeOK, NEW t \in Thread, NEW c \in Client, NEW r \in Request, Press(t, c, r)
  PROVE  ClientTypeOK' /\ \E q \in Request : Arrive(t, q)
BY DEF Press, ClientTypeOK

\* A key makes a client wait, or send a request, or leave.
LEMMA KeyTyping ==
  ASSUME ClientTypeOK, NEW t \in Thread, Key(t)
  PROVE  ClientTypeOK' /\ (UNCHANGED serverVars \/ \E r \in Request : Arrive(t, r))
<1> DEFINE c == client[t]
<1>1. c \in Client
  BY DEF ClientTypeOK
<1>2. ASSUME NEW d \in Client, Turn(t, d)
      PROVE  ClientTypeOK' /\ UNCHANGED serverVars
  BY <1>2 DEF Turn, ClientTypeOK
<1>3. CASE KeyFirst(t)
  BY <1>1, <1>2, <1>3, PressTyping, ClientTyping, CredentialsTyping DEF KeyFirst, Entry
<1>4. CASE KeyMenu(t)
  BY <1>1, <1>2, <1>4, PressTyping, ClientTyping, RequestTyping DEF KeyMenu
<1>5. CASE KeyUsers(t)
  <2>1. c.names \subseteq Username /\ c.page \in Nat /\ c.pages \in Nat
    BY <1>1 DEF Client
  <2>2. \A v \in c.names : [c EXCEPT !.peer = v] \in Client
    BY <1>1, <2>1, ClientTyping
  <2>3. \A p \in {c.page - 1, c.page + 1} \cap 1 .. c.pages : [c EXCEPT !.page = p] \in Client
    <3>1. \A p \in 1 .. c.pages : p \in Nat
      OBVIOUS
    <3>2. QED
      BY <1>1, <3>1, ClientTyping
  <2>4. Menu(c) \in Client
    BY <1>1, ClientTyping
  <2> HIDE DEF c
  <2>5. QED
    BY <1>1, <1>2, <1>5, <2>2, <2>3, <2>4, PressTyping, RequestTyping DEF KeyUsers, c
<1>6. CASE KeyTalk(t)
  <2>1. c.rows \subseteq Nat /\ c.mpage \in Nat /\ c.mpages \in Nat
    BY <1>1 DEF Client
  <2>2. \A text \in Text, id \in c.rows \cup {NoReply} : NewMessage(c, text, id) \in Request
    BY <1>1, <2>1, RequestTyping
  <2>3. \A p \in {c.mpage - 1, c.mpage, c.mpage + 1} \cap 1 .. c.mpages :
           [c EXCEPT !.mpage = p] \in Client
    <3>1. \A p \in 1 .. c.mpages : p \in Nat
      OBVIOUS
    <3>2. QED
      BY <1>1, <3>1, ClientTyping
  <2>4. UserList(c) \in Client /\ ViewUsers(c) \in Request /\ GetMessagesCount(c) \in Request
    BY <1>1, ClientTyping, RequestTyping
  <2> HIDE DEF c
  <2>5. QED
    BY <1>1, <1>6, <2>2, <2>3, <2>4, PressTyping, RequestTyping DEF KeyTalk, c
<1>7. QED
  BY <1>3, <1>4, <1>5, <1>6 DEF Key

\* A reply that is handled, and what the client sends at once.
LEMMA DeliverTyping ==
  ASSUME ClientTypeOK, NEW t \in Thread, NEW c \in Client, NEW next \in Request \cup {Idle},
         Deliver(t, c, next)
  PROVE  client' \in [Thread -> Client] /\ \E r \in Request \cup {Idle} : Send(t, r)
BY DEF Deliver, ClientTypeOK

\* A reply is a step of the server, and what its client asks next is a request.
LEMMA ReplyStepTyping ==
  ASSUME Typing, ClientTypeOK, NEW t \in Thread, Dispatched(t), Replied(t)
  PROVE  ClientTypeOK' /\ \E r \in Request \cup {Idle} : Send(t, r)
<1> DEFINE c == client[t]
           r == request[t]
           a == reply[t]
           Typed(d, next) == d \in Client /\ next \in Request \cup {Idle}
<1>1. c \in Client /\ shown \subseteq Nat
  BY DEF ClientTypeOK
<1>2. pc[t] = "send" /\ r \in Request /\ a \in Reply
  BY DEF Replied, Accessed, UsersCounted, UsersViewed, MessagesCounted, MessagesViewed,
         MessagesMarked, MessageInserted, Asked, Typing, ServerTypeOK
<1>3. /\ r.user \in Username /\ a.count \in Nat /\ a.names \in Seq(Username)
      /\ a.rows \in Seq(Row)
  BY <1>2 DEF Request, Reply
<1>4. ASSUME NEW d, NEW next, Typed(d, next), Deliver(t, d, next)
      PROVE  client' \in [Thread -> Client] /\ \E q \in Request \cup {Idle} : Send(t, q)
  BY <1>4, DeliverTyping
<1>5. CASE Accessed(t)
  <2>1. Typed(Menu([c EXCEPT !.user = r.user]), Idle) /\ Typed(FirstPage, Idle)
    BY <1>1, <1>3, ClientTyping
  <2>2. QED
    BY <1>1, <1>4, <1>5, <2>1 DEF Accessed, ClientTypeOK
<1>6. CASE UsersCounted(t)
  <2> DEFINE n == PageCount(a.count - 1)
             fresh == [Menu(c) EXCEPT !.view = "users", !.pages = n,
                                      !.page = IF n = 0 THEN 0 ELSE 1]
  <2>1. Typed(Menu(c), Idle)
    BY <1>1, ClientTyping
  <2>2. ASSUME a.status = 200
        PROVE  Typed(fresh, Idle) /\ Typed(fresh, ViewUsers(fresh))
    <3>1. a.count > 0
      BY <1>2, <1>6, <2>2 DEF Dispatched, UsersCounted, Asked
    <3>2. n \in Nat
      <4>1. a.count - 1 \in Nat
        BY <1>3, <3>1
      <4>2. QED
        BY <4>1, PageCountIsTight
    <3>3. fresh \in Client
      <4> HIDE DEF n, c
      <4>1. QED
        BY <2>1, <3>2 DEF Client, View
    <3>4. QED
      BY <3>3, RequestTyping
  <2> HIDE DEF fresh, n, Typed
  <2>3. QED
    BY <1>1, <1>4, <1>6, <2>1, <2>2 DEF UsersCounted, ClientTypeOK, fresh, n
<1>7. CASE UsersViewed(t)
  <2> DEFINE names == {a.names[i] : i \in DOMAIN a.names}
  <2>1. names \subseteq Username
    BY <1>3
  <2>2. Typed(Menu(c), Idle) /\ Typed([c EXCEPT !.names = names], Idle)
    BY <1>1, <2>1, ClientTyping
  <2>3. QED
    BY <1>1, <1>4, <1>7, <2>2 DEF UsersViewed, ClientTypeOK
<1>8. CASE MessagesCounted(t)
  <2> DEFINE n == PageCount(a.count)
             fresh == [c EXCEPT !.view = "talk", !.mpages = n, !.mpage = 1, !.rows = {}]
  <2>1. n \in Nat
    BY <1>3, PageCountIsTight
  <2>2. fresh \in Client
    <3> HIDE DEF n, c
    <3>1. QED
      BY <1>1, <2>1 DEF Client, View
  <2>3. Typed(fresh, Refetch(fresh)) /\ Typed(c, Refetch(c)) /\ Typed(UserList(c), ViewUsers(c))
    BY <1>1, <2>2, ClientTyping, RequestTyping
  <2> HIDE DEF fresh, n, Typed
  <2>4. QED
    BY <1>1, <1>4, <1>8, <2>3 DEF MessagesCounted, ClientTypeOK, fresh, n
<1>9. CASE MessagesViewed(t)
  <2> DEFINE ids == RedIds(a.rows, c.user)
             drawn == [c EXCEPT !.rows = {a.rows[i].id : i \in DOMAIN a.rows}]
             seen == {a.rows[i].id : i \in {k \in DOMAIN a.rows : a.rows[k].sender # c.user}}
  <2>1. \A i \in DOMAIN a.rows : a.rows[i].id \in Nat
    <3>1. TAKE i \in DOMAIN a.rows
    <3>2. a.rows[i] \in Row
      BY <1>3
    <3>3. QED
      BY <3>2 DEF Row
  <2>2. drawn \in Client /\ seen \subseteq Nat
    <3>1. {a.rows[i].id : i \in DOMAIN a.rows} \in SUBSET Nat /\ seen \in SUBSET Nat
      BY <2>1
    <3>2. QED
      BY <1>1, <3>1, ClientTyping
  <2>3. ids \in Seq(Nat)
    BY <1>3, RedIdsAreOfRows
  <2>4. /\ Typed(UserList(c), ViewUsers(c)) /\ Typed(drawn, Idle) /\ Typed(drawn, UpdateRead(c, ids))
    BY <1>1, <2>2, <2>3, ClientTyping, RequestTyping
  <2> DEFINE D == IF a.status # 200 THEN UserList(c) ELSE drawn
             N == IF a.status # 200 THEN ViewUsers(c)
                  ELSE IF ids = <<>> THEN Idle ELSE UpdateRead(c, ids)
  <2>5. Deliver(t, D, N) /\ shown' = shown \cup seen
    BY <1>9 DEF MessagesViewed
  <2>6. Typed(D, N)
    BY <2>4
  <2> HIDE DEF D, N, Typed, seen
  <2>7. QED
    BY <1>1, <1>4, <2>2, <2>5, <2>6 DEF ClientTypeOK
<1>10. CASE MessagesMarked(t)
  <2>1. Typed(c, Idle)
    BY <1>1
  <2>2. QED
    BY <1>1, <1>4, <1>10, <2>1 DEF MessagesMarked, ClientTypeOK
<1>11. CASE MessageInserted(t)
  <2>1. Typed(c, GetMessagesCount(c)) /\ Typed(c, Refetch(c))
    BY <1>1, RequestTyping
  <2>2. QED
    BY <1>1, <1>4, <1>11, <2>1 DEF MessageInserted, ClientTypeOK
<1>12. QED
  BY <1>5, <1>6, <1>7, <1>8, <1>9, <1>10, <1>11 DEF Replied

-----------------------------------------------------------------------------
(* The server's part of the program.                                       *)

\* The request that a client was about to send is lost with the client.
Lost(t) ==
  /\ pc[t] = "recv"
  /\ request' = [request EXCEPT ![t] = Idle]
  /\ UNCHANGED <<dbVars, pc, reply, historyVars, boundVars>>

\* What a step of the program is to the server.
ServerPartStep == ServerStep(Request) \/ (\E t \in Thread : Lost(t)) \/ UNCHANGED serverVars

\* The program takes steps of the server, with requests of their type, and clients
\* keep the types of what they remember.
LEMMA NextTyping ==
  ASSUME Typing, ClientTypeOK, \A t \in Thread : Dispatched(t), [Next]_vars
  PROVE  ClientTypeOK' /\ ServerPartStep
<1>1. CASE UNCHANGED vars
  BY <1>1 DEF vars, serverVars, ClientTypeOK, ServerPartStep
<1>2. CASE ServerCrash
  BY <1>2, ClientTyping DEF ServerCrash, Forget, ClientTypeOK, ServerPartStep, ServerStep
<1>3. ASSUME NEW t \in Thread, Start(t) \/ Close(t)
      PROVE  ClientTypeOK' /\ (Lost(t) \/ ThreadStep(Request, t) \/ UNCHANGED serverVars)
  <2>1. ClientTypeOK'
    BY <1>3, ClientTyping DEF Start, Close, ClientTypeOK
  <2>2. CASE Start(t)
    BY <2>1, <2>2 DEF Start, ThreadStep
  <2>3. CASE Close(t)
    BY <2>1, <2>3 DEF Close, Lost, serverVars, dbVars, historyVars, boundVars
  <2>4. QED
    BY <1>3, <2>2, <2>3
<1>4. ASSUME NEW t \in Thread, Abandoned(t) \/ ServerWorks(t) \/ StorageFault(t)
      PROVE  ClientTypeOK' /\ ThreadStep(Request, t)
  BY <1>4 DEF Abandoned, ServerWorks, StorageFault, Forget, ClientTypeOK, ThreadStep
<1>5. ASSUME NEW t \in Thread, Key(t)
      PROVE  ClientTypeOK' /\ (ThreadStep(Request, t) \/ UNCHANGED serverVars)
  BY <1>5, KeyTyping DEF ThreadStep
<1>6. ASSUME NEW t \in Thread, Replied(t)
      PROVE  ClientTypeOK' /\ ThreadStep(Request, t)
  BY <1>6, ReplyStepTyping DEF ThreadStep
<1>7. QED
  BY <1>1, <1>2, <1>3, <1>4, <1>5, <1>6 DEF Next, ServerPartStep, ServerStep

\* What ServerProofs, PageProofs and ContractProofs keep until a storage error.
ServerUntilFault == DurableInv /\ OrphanInv /\ Fresh /\ Pages

\* The inductive invariant of the server.
ServerPart ==
  Typing /\ Storage /\ TransactionHasWriter /\ (faults = 0 => ServerUntilFault)

\* It holds when the program starts.
LEMMA InitServerPart == ServerInit => ServerPart
<1>1. ServerInit => TransactionHasWriter /\ Fresh /\ faults = 0
  BY DEF ServerInit, TransactionHasWriter, Fresh, HoldsAccount, HoldsMessage, Holds
<1>2. QED
  BY <1>1, InitSafe, InitPages DEF ServerPart, ServerUntilFault, SafeUntilFault, PageInv

\* A request that has not been received is in no invariant of the server.
LEMMA LostKeepsServerPart ==
  ASSUME ServerPart, NEW t \in Thread, Lost(t)
  PROVE  ServerPart'
<1>1. /\ UNCHANGED <<dbVars, pc, reply, registered, sent, crashes, faults>>
      /\ \A s \in Thread : s # t => request'[s] = request[s]
      /\ request'[t] = Idle /\ pc[t] = "recv"
  BY DEF Lost, historyVars, boundVars, ServerPart, Typing, ServerTypeOK
<1>2. Typing'
  BY <1>1 DEF Lost, ServerPart, Typing, ServerTypeOK, DatabaseTypeOK, StageFits, dbVars
<1>3. Storage' /\ TransactionHasWriter'
  <2>1. Storage'
    BY <1>1, ConnectionStorage DEF ServerPart, Typing, ServerTypeOK
  <2>2. QED
    BY <1>1, <2>1 DEF ServerPart, TransactionHasWriter, Writing, dbVars
<1>4. ASSUME faults' = 0
      PROVE  ServerUntilFault'
  <2>1. ServerUntilFault
    BY <1>1, <1>4 DEF ServerPart
  <2>2. InFlight' /\ AcknowledgedIsDurable'
    BY <1>1, <2>1 DEF ServerUntilFault, DurableInv, InFlight, AcknowledgedIsDurable, Recorded,
                      Working, dbVars
  <2>3. PeerKnown' /\ Addressed(Working)' /\ Addressed(disk)'
    BY <1>1, <2>1 DEF ServerUntilFault, OrphanInv, PeerKnown, Addressed, Working, dbVars
  <2>4. Fresh'
    BY <1>1, <2>1 DEF ServerUntilFault, Fresh, HoldsAccount, HoldsMessage, Holds
  <2>5. Pages'
    <3>1. \A s \in Thread : s # t => PageOf(s)'
      BY <1>1, <2>1 DEF ServerUntilFault, Pages, PageOf, NoPage, dbVars
    <3>2. PageOf(t)'
      BY <1>1, <2>1, NoPageYet DEF ServerUntilFault, Pages, PageOf, NoPage
    <3>3. QED
      BY <3>1, <3>2 DEF Pages
  <2>6. QED
    BY <1>2, <1>3, <2>2, <2>3, <2>4, <2>5
    DEF ServerUntilFault, DurableInv, OrphanInv, Typing
<1>5. QED
  BY <1>2, <1>3, <1>4 DEF ServerPart

\* Neither the server nor a client that leaves disturbs it.
LEMMA NextServerPart ==
  ASSUME ServerPart, ServerPartStep
  PROVE  ServerPart'
<1>1. CASE UNCHANGED serverVars
  <2>1. UNCHANGED <<dbVars, pc, request, reply, registered, sent, crashes, faults>>
    BY <1>1 DEF serverVars, dbVars
  <2>2. Typing' /\ Storage' /\ TransactionHasWriter'
    BY <1>1, <2>1, StutterTyping, ConnectionStorage
    DEF ServerPart, Typing, ServerTypeOK, TransactionHasWriter, Writing, dbVars
  <2>3. ASSUME ServerUntilFault
        PROVE  ServerUntilFault'
    <3>1. InFlight' /\ AcknowledgedIsDurable'
      BY <2>1, <2>3 DEF ServerUntilFault, DurableInv, InFlight, AcknowledgedIsDurable, Recorded,
                        Working, dbVars
    <3>2. PeerKnown' /\ Addressed(Working)' /\ Addressed(disk)'
      BY <2>1, <2>3 DEF ServerUntilFault, OrphanInv, PeerKnown, Addressed, Working, dbVars
    <3>3. Fresh' /\ Pages'
      BY <2>1, <2>3 DEF ServerUntilFault, Fresh, HoldsAccount, HoldsMessage, Holds,
                        Pages, PageOf, NoPage, dbVars
    <3>4. QED
      BY <2>2, <3>1, <3>2, <3>3 DEF ServerUntilFault, DurableInv, OrphanInv, Typing
  <2>4. QED
    BY <2>1, <2>2, <2>3 DEF ServerPart
<1>2. ASSUME ServerStep(Request)
      PROVE  ServerPart'
  <2>1. Typing' /\ Storage' /\ TransactionHasWriter'
    BY <1>2, StepTyping, StepStageFits, StepStorage, StepHasWriter DEF ServerPart, Typing
  <2>2. ASSUME faults' = 0
        PROVE  ServerUntilFault'
    <3>1. ServerUntilFault /\ SafeUntilFault
      BY <1>2, <2>2, StepFaultsStay
      DEF ServerPart, Typing, SafeUntilFault, ServerUntilFault
    <3>2. DurableInv' /\ OrphanInv' /\ Fresh' /\ Pages'
      BY <1>2, <2>2, <3>1, StepDurable, StepNoOrphan, NextKeepsFresh, StepPages
      DEF ServerPart, ServerUntilFault
    <3>3. QED
      BY <3>2 DEF ServerUntilFault
  <2>3. QED
    BY <2>1, <2>2 DEF ServerPart
<1>3. QED
  BY <1>1, <1>2, LostKeepsServerPart DEF ServerPartStep

-----------------------------------------------------------------------------
(* The stages of the handlers.                                             *)

\* What an update has left to mark after one id.
LEMMA TailIsLeft ==
  ASSUME NEW ids \in Seq(Nat), Len(ids) > 1
  PROVE  /\ Tail(ids) \in Seq(Nat) /\ Tail(ids) # <<>>
         /\ \A k \in DOMAIN Tail(ids) : k + 1 \in DOMAIN ids /\ Tail(ids)[k] = ids[k + 1]
<1> DEFINE n == Len(ids)
<1>1. Tail(ids) \in Seq(Nat) /\ Len(Tail(ids)) = n - 1 /\ n \in Nat /\ n > 1
  OBVIOUS
<1>2. \A k \in DOMAIN Tail(ids) : k + 1 \in DOMAIN ids /\ Tail(ids)[k] = ids[k + 1]
  OBVIOUS
<1> HIDE DEF n
<1>3. n - 1 # 0
  BY <1>1
<1>4. Len(Tail(ids)) # 0
  BY <1>1, <1>3
<1>5. \A s \in Seq(Nat) : s = <<>> => Len(s) = 0
  OBVIOUS
<1>6. Tail(ids) # <<>>
  BY <1>1, <1>4, <1>5
<1>7. QED
  BY <1>1, <1>2, <1>6

\* The steps of a handler keep to its request.
LEMMA ProcessDispatched ==
  ASSUME Typing, NEW t \in Thread, Dispatched(t), Process(t) \/ Fault(t)
  PROVE  Dispatched(t)'
<1> DEFINE r == request[t]
           a == reply[t]
<1>1. /\ pc \in [Thread -> Stage] /\ reply \in [Thread -> Reply]
      /\ request \in [Thread -> Request \cup {Idle}]
      /\ pc[t] \notin {"off", "recv"} => r \in Request
  BY DEF Typing, ServerTypeOK
<1>2. \A code : Status(code).status = code
  BY DEF Status, Blank
<1>3. CASE Receive(t)
  <2>1. r # Idle /\ r \in Request /\ r.command \in Command /\ r.authorized \in BOOLEAN
    BY <1>1, <1>3 DEF Receive, Request
  <2>2. CASE Refusal(r) # 0 /\ Answer(t, Status(Refusal(r)))
    BY <1>1, <1>2, <2>1, <2>2 DEF Answer, Refusal, Dispatched, Entry
  <2>3. CASE /\ Refusal(r) = 0 /\ r.command = "Update_Message_Read"
             /\ Answer(t, Status(200))
    BY <1>1, <1>2, <2>1, <2>3 DEF Answer, Refusal, Dispatched, Entry
  <2>4. CASE /\ Refusal(r) = 0
             /\ r.command = "Update_Message_Read" => r.ids # <<>>
             /\ Continue(t, Handler[r.command])
    BY <1>1, <2>1, <2>4 DEF Continue, Refusal, Dispatched, Entry, Command, Handler
  <2>5. QED
    BY <1>3, <2>2, <2>3, <2>4 DEF Receive
<1>4. CASE Login(t) \/ CheckName(t)
  BY <1>1, <1>2, <1>4 DEF Login, CheckName, Answer, Continue, Dispatched, Entry, Typing, StageFits
<1>5. CASE CheckUser(t)
  BY <1>1, <1>2, <1>5
  DEF CheckUser, Answer, Continue, Dispatched, Entry, Typing, StageFits, AfterCheck
<1>6. CASE CountUsers(t)
  <2>1. GetUsersCount \in Nat
    BY CountsAreNat DEF Typing, ServerTypeOK
  <2>2. \A n \in Nat : /\ [Status(200) EXCEPT !.count = n].count = n
                       /\ [Status(200) EXCEPT !.count = n].status = 200
    BY DEF Status, Blank
  <2>3. r.command \in {"View_Users", "Get_Users_Count"} /\ r.authorized /\ pc[t] = "total"
    BY <1>6 DEF CountUsers, Dispatched, Entry
  <2>4. CASE Continue(t, "names") /\ r.command = "View_Users"
    BY <1>1, <2>3, <2>4 DEF Continue, Dispatched, Entry
  <2>5. CASE Answer(t, Status(500))
    BY <1>1, <1>2, <2>3, <2>5 DEF Answer, Dispatched, Entry
  <2>6. CASE GetUsersCount > 0 /\ Answer(t, [Status(200) EXCEPT !.count = GetUsersCount])
    BY <1>1, <2>1, <2>2, <2>3, <2>6 DEF Answer, Dispatched, Entry
  <2>7. QED
    BY <1>6, <2>1, <2>4, <2>5, <2>6 DEF CountUsers
<1>7. CASE CountMessages(t)
  BY <1>1, <1>7 DEF CountMessages, Answer, Dispatched, Entry
<1>8. CASE ScanUsers(t)
  BY <1>1, <1>2, <1>8 DEF ScanUsers, Answer, Continue, Dispatched, Entry
<1>9. CASE CountUnread(t)
  <2>1. a \in Reply
    BY <1>1
  <2>2. QED
    BY <1>1, <1>9, <2>1 DEF CountUnread, Answer, Dispatched, Entry, Reply
<1>10. CASE ScanMessages(t)
  BY <1>1, <1>10 DEF ScanMessages, Answer, Dispatched, Entry
<1>11. CASE Begin(t) \/ InsertUser(t) \/ InsertMessage(t) \/ UpdateMessage(t) \/ ExecFails(t)
  BY <1>1, <1>11
  DEF Begin, InsertUser, InsertMessage, UpdateMessage, ExecFails, Dispatched, Entry
<1>12. CASE End(t) \/ CommitFails(t)
  <2>1. pc[t] = "end" /\ AfterEnd(t) /\ r \in Request
    BY <1>1, <1>12 DEF End, CommitFails
  <2>2. r.command \notin {"Login", "Register", "Get_Users_Count"} => r.authorized
    BY <2>1 DEF Dispatched, Entry
  <2>3. r.command \in {"Register", "Insert_Message", "Update_Message_Read"}
    BY <2>1 DEF Typing, StageFits
  <2>4. CASE request' = request /\ pc' = [pc EXCEPT ![t] = "send"]
    BY <1>1, <2>1, <2>2, <2>3, <2>4 DEF Dispatched, Entry
  <2>5. CASE /\ r.command = "Update_Message_Read"
             /\ Len(r.ids) > 1
             /\ request' = [request EXCEPT ![t].ids = Tail(@)]
             /\ pc' = [pc EXCEPT ![t] = "begin"]
    <3>1. /\ request'[t].command = r.command /\ request'[t].authorized = r.authorized
          /\ request'[t].ids = Tail(r.ids)
      BY <1>1, <2>1, <2>5 DEF Request
    <3>2. Tail(r.ids) # <<>>
      <4>1. r.ids \in Seq(Nat) /\ Len(r.ids) > 1
        BY <2>1, <2>5 DEF Request
      <4>2. QED
        BY <4>1, TailIsLeft
    <3>3. QED
      BY <1>1, <2>2, <2>5, <3>1, <3>2 DEF Dispatched, Entry
  <2>6. QED
    BY <2>1, <2>4, <2>5 DEF AfterEnd
<1>13. QED
  BY <1>3, <1>4, <1>5, <1>6, <1>7, <1>8, <1>9, <1>10, <1>11, <1>12 DEF Process, Fault

\* Every thread stays with the request it was dispatched for.
LEMMA NextDispatched ==
  ASSUME Typing, \A t \in Thread : Dispatched(t), ServerPartStep
  PROVE  \A t \in Thread : Dispatched(t)'
<1>1. \A s \in Thread : /\ pc'[s] = pc[s] /\ request'[s] = request[s] /\ reply'[s] = reply[s]
                          => Dispatched(s)'
  BY DEF Dispatched
<1>2. CASE Crash
  BY <1>2 DEF Crash, Dispatched
<1>3. ASSUME NEW t \in Thread, Lost(t) \/ ThreadStep(Request, t)
      PROVE  \A s \in Thread : Dispatched(s)'
  <2>1. \A s \in Thread \ {t} : Dispatched(s)'
    <3>1. CASE Lost(t)
      BY <1>1, <3>1 DEF Lost, Typing, ServerTypeOK
    <3>2. CASE ThreadStep(Request, t)
      BY <1>1, <3>2, OthersUntouched DEF Typing
    <3>3. QED
      BY <1>3, <3>1, <3>2
  <2>2. Dispatched(t)'
    <3>1. CASE Process(t) \/ Fault(t)
      BY <3>1, ProcessDispatched
    <3>2. CASE Accept(t) \/ Disconnected(t) \/ Lost(t)
      BY <3>2 DEF Accept, Disconnected, Lost, Dispatched, Typing, ServerTypeOK
    <3>3. CASE \/ SendLost(t)
               \/ \E r \in Request : Arrive(t, r)
               \/ \E next \in Request \cup {Idle} : Send(t, next)
      BY <3>3 DEF SendLost, Arrive, Send, Dispatched, Typing, ServerTypeOK
    <3>4. QED
      BY <1>3, <3>1, <3>2, <3>3 DEF ThreadStep
  <2>3. QED
    BY <2>1, <2>2
<1>4. CASE UNCHANGED serverVars
  BY <1>1, <1>4 DEF serverVars
<1>5. QED
  BY <1>2, <1>3, <1>4 DEF ServerPartStep, ServerStep

-----------------------------------------------------------------------------
(* Keys and replies: what clients remember, and what they ask for, fits.   *)

\* Request r of a client that then remembers c.
Asking(U, M, S, c, r) == r # Idle => RequestFits(U, M, S, r) /\ Asks(c, r)

\* Clients that remember nothing of the tables, or nothing of a conversation.
LEMMA NewClientsFit ==
  ASSUME NEW U, NEW M
  PROVE  /\ ClientFits(U, M, Closed) /\ ClientFits(U, M, FirstPage)
         /\ \A c \in Client : ClientFits(U, M, c) =>
              /\ ClientFits(U, M, Menu(c))
              /\ c.view \in {"users", "talk"} => ClientFits(U, M, UserList(c))
         /\ \A c \in Client, u \in Username :
              U[u] # None => ClientFits(U, M, Menu([c EXCEPT !.user = u]))
<1>1. ClientFits(U, M, Closed) /\ ClientFits(U, M, FirstPage)
  BY DEF ClientFits, Closed, FirstPage
<1>2. ASSUME NEW c, c.user # None => U[c.user] # None
      PROVE  ClientFits(U, M, Menu(c))
  BY <1>2 DEF ClientFits, Closed, FirstPage, Menu
<1>3. ASSUME NEW c \in Client, ClientFits(U, M, c), c.view \in {"users", "talk"}
      PROVE  ClientFits(U, M, UserList(c))
  BY <1>3 DEF ClientFits, UserList, Client
<1>4. \A c \in Client, u \in Username : [c EXCEPT !.user = u].user = u
  BY DEF Client
<1>5. QED
  BY <1>1, <1>2, <1>3, <1>4 DEF ClientFits

\* A login or a registration, and the number of the users, can always be asked.
LEMMA FreeRequestsFit ==
  ASSUME NEW U, NEW M, NEW S, NEW c \in Client, ClientFits(U, M, c)
  PROVE  /\ \A command \in Entry, u \in Username, p \in Password :
              Asking(U, M, S, c, Credentials(command, u, p))
         /\ Asking(U, M, S, c, GetUsersCountRequest(c))
<1>1. ASSUME NEW command \in Entry, NEW u \in Username, NEW p \in Password
      PROVE  Asking(U, M, S, c, Credentials(command, u, p))
  <2> DEFINE r == Credentials(command, u, p)
  <2>1. r.command = command /\ r.authorized = FALSE
    BY DEF Credentials, Ask, FirstPage, Closed
  <2> HIDE DEF r
  <2>2. QED
    BY <2>1 DEF Asking, RequestFits, Asks, Entry, r
<1>2. Asking(U, M, S, c, GetUsersCountRequest(c))
  <2> DEFINE r == GetUsersCountRequest(c)
  <2>1. /\ r.command = "Get_Users_Count" /\ r.authorized = (c.user # None)
        /\ c.user # None => r.user = c.user
        /\ c.peer # None => r.peer = c.peer
    BY DEF GetUsersCountRequest, Ask
  <2> HIDE DEF r
  <2>2. QED
    BY <2>1 DEF Asking, RequestFits, Asks, Entry, ClientFits, r
<1>3. QED
  BY <1>1, <1>2

\* A page of the users, which goes to the page the client is on.
LEMMA UsersRequestFits ==
  ASSUME NEW U, NEW M, NEW S, NEW c \in Client, ClientFits(U, M, c),
         c.user # None, c.pages > 0
  PROVE  /\ Asking(U, M, S, c, ViewUsers(c))
         /\ Asking(U, M, S, UserList(c), ViewUsers(c))
<1> DEFINE r == ViewUsers(c)
           l == UserList(c)
<1>1. /\ r.command = "View_Users" /\ r.authorized /\ r.user = c.user /\ r.page = c.page
      /\ c.peer # None => r.peer = c.peer
  BY DEF ViewUsers, Ask
<1>2. l.user = c.user /\ l.pages = c.pages /\ l.peer = None
  BY DEF UserList, Client
<1>3. c.page \in 1 .. c.pages /\ Reaches(c.page, Others(U, c.user)) /\ U[c.user] # None
  BY DEF ClientFits
<1> HIDE DEF r, l
<1>4. RequestFits(U, M, S, r)
  BY <1>1, <1>3 DEF RequestFits, Entry
<1>5. Asks(c, r) /\ Asks(l, r)
  BY <1>1, <1>2 DEF Asks, Entry
<1>6. QED
  BY <1>4, <1>5 DEF Asking, r, l

\* What is asked about a peer.
LEMMA TalkRequestsFit ==
  ASSUME NEW U, NEW M, NEW S, NEW c \in Client, ClientFits(U, M, c), c.peer # None
  PROVE  /\ c.view \in {"users", "talk"} => Asking(U, M, S, c, GetMessagesCount(c))
         /\ c.view = "talk" =>
              /\ Asking(U, M, S, c, Refetch(c))
              /\ c.mpages > 0 => Asking(U, M, S, c, ViewMessages(c))
              /\ \A text \in Text, id \in c.rows \cup {NoReply} :
                   Asking(U, M, S, c, NewMessage(c, text, id))
              /\ \A ids : (\A k \in DOMAIN ids : ids[k] \in S)
                            => Asking(U, M, S, c, UpdateRead(c, ids))
<1>1. ASSUME c.view \in {"users", "talk"}
      PROVE  Asking(U, M, S, c, GetMessagesCount(c))
  <2> DEFINE r == GetMessagesCount(c)
  <2>1. /\ r.command = "Get_Messages_Count" /\ r.authorized = (c.user # None)
        /\ c.user # None => r.user = c.user
        /\ r.peer = c.peer
    BY DEF GetMessagesCount, Ask
  <2> HIDE DEF r
  <2>2. QED
    BY <1>1, <2>1 DEF Asking, RequestFits, Asks, Entry, ClientFits, r
<1>2. ASSUME c.view = "talk"
      PROVE  c.user # None /\ U[c.user] # None
  BY <1>2 DEF ClientFits
<1>3. ASSUME c.view = "talk", c.mpages > 0
      PROVE  Asking(U, M, S, c, ViewMessages(c))
  <2> DEFINE r == ViewMessages(c)
  <2>1. /\ r.command = "View_Messages" /\ r.authorized /\ r.user = c.user
        /\ r.peer = c.peer /\ r.page = c.mpage
    BY <1>2, <1>3 DEF ViewMessages, Ask
  <2>2. Reaches(c.mpage, Talk(M, c.user, c.peer))
    BY <1>3 DEF ClientFits
  <2> HIDE DEF r
  <2>3. QED
    BY <1>2, <1>3, <2>1, <2>2 DEF Asking, RequestFits, Asks, Entry, r
<1>4. ASSUME c.view = "talk", NEW text \in Text, NEW id \in c.rows \cup {NoReply}
      PROVE  Asking(U, M, S, c, NewMessage(c, text, id))
  <2> DEFINE r == NewMessage(c, text, id)
  <2>1. /\ r.command = "Insert_Message" /\ r.authorized /\ r.user = c.user
        /\ r.peer = c.peer /\ r.replyId = id
    BY <1>2, <1>4 DEF NewMessage, Ask
  <2>2. id # NoReply => id \in Talk(M, c.user, c.peer)
    BY DEF ClientFits
  <2> HIDE DEF r
  <2>3. QED
    BY <1>2, <1>4, <2>1, <2>2 DEF Asking, RequestFits, Asks, Entry, r
<1>5. ASSUME c.view = "talk", NEW ids, \A k \in DOMAIN ids : ids[k] \in S
      PROVE  Asking(U, M, S, c, UpdateRead(c, ids))
  <2> DEFINE r == UpdateRead(c, ids)
  <2>1. /\ r.command = "Update_Message_Read" /\ r.authorized /\ r.user = c.user
        /\ r.peer = c.peer /\ r.ids = ids
    BY <1>2, <1>5 DEF UpdateRead, Ask
  <2> HIDE DEF r
  <2>3. QED
    BY <1>2, <1>5, <2>1 DEF Asking, RequestFits, Asks, Entry, r
<1>6. QED
  BY <1>1, <1>3, <1>4, <1>5 DEF Refetch, Asking

\* A thread that has received nothing relies on its client and its socket only.
LEMMA WaitingFits ==
  ASSUME NEW t \in Thread, UNCHANGED <<users, messages>>, pc'[t] \in {"off", "recv"},
         ClientFits(users, messages, client'[t]),
         Asking(users, messages, shown', client'[t], request'[t])
  PROVE  ThreadFits(t)'
BY DEF ThreadFits, Asking

\* A key that sends a request.
LEMMA PressFits ==
  ASSUME Typing, ClientTypeOK, NEW t \in Thread, NEW c, NEW r, Press(t, c, r),
         ClientFits(users, messages, c), Asking(users, messages, shown, c, r)
  PROVE  ThreadFits(t)'
<1>1. /\ UNCHANGED <<users, messages, shown>> /\ pc'[t] = "recv"
      /\ client'[t] = c /\ request'[t] = r
  BY DEF Press, Waiting, Arrive, dbVars, Typing, ServerTypeOK, ClientTypeOK
<1>2. Asking(users, messages, shown', client'[t], request'[t])
  BY <1>1
<1>3. QED
  BY <1>1, <1>2, WaitingFits

\* A key that shows another view.
LEMMA TurnFits ==
  ASSUME Typing, ClientTypeOK, NEW t \in Thread, NEW c, Turn(t, c),
         ClientFits(users, messages, c)
  PROVE  ThreadFits(t)'
<1>1. /\ UNCHANGED <<users, messages, shown>> /\ pc'[t] = "recv"
      /\ client'[t] = c /\ request'[t] = Idle
  BY DEF Turn, Waiting, serverVars, ClientTypeOK
<1>2. Asking(users, messages, shown', client'[t], request'[t])
  BY <1>1 DEF Asking
<1>3. QED
  BY <1>1, <1>2, WaitingFits

\* Whatever key is pressed, the request that leaves fits what the client is
\* allowed to rely on.
LEMMA KeyFits ==
  ASSUME Typing, ClientTypeOK, NEW t \in Thread, ThreadFits(t), Key(t)
  PROVE  ThreadFits(t)'
<1> DEFINE c == client[t]
           Good(d, r) == ClientFits(users, messages, d) /\ Asking(users, messages, shown, d, r)
<1>1. c \in Client /\ ClientFits(users, messages, c)
  BY DEF ClientTypeOK, ThreadFits
<1>2. ASSUME NEW d, NEW r, Good(d, r), Press(t, d, r)
      PROVE  ThreadFits(t)'
  BY <1>2, PressFits
<1> HIDE DEF Good
<1>3. CASE KeyFirst(t)
  <2>1. /\ ClientFits(users, messages, Menu(c))
        /\ \A command \in {"Login", "Register"}, u \in Username, p \in Password :
             Good(c, Credentials(command, u, p))
    BY <1>1, NewClientsFit, FreeRequestsFit DEF Entry, Good
  <2> HIDE DEF c
  <2>2. QED
    BY <1>2, <1>3, <2>1, TurnFits DEF KeyFirst, c
<1>4. CASE KeyMenu(t)
  <2>1. ClientFits(users, messages, FirstPage) /\ Good(c, GetUsersCountRequest(c))
    BY <1>1, NewClientsFit, FreeRequestsFit DEF Good
  <2> HIDE DEF c
  <2>2. QED
    BY <1>2, <1>4, <2>1, TurnFits DEF KeyMenu, c
<1>5. CASE KeyUsers(t)
  <2>1. c.view = "users" /\ c.user # None
    BY <1>1, <1>5 DEF KeyUsers, ClientFits
  <2>2. /\ c.names \subseteq Username /\ c.page \in Nat /\ c.pages \in Nat
        /\ c.mpages = 0 /\ c.rows = {}
    BY <1>1, <2>1 DEF Client, ClientFits
  <2>3. ASSUME NEW v \in c.names
        PROVE  LET picked == [c EXCEPT !.peer = v]
               IN  Good(picked, GetMessagesCount(picked))
    <3> DEFINE picked == [c EXCEPT !.peer = v]
    <3>1. picked \in Client /\ picked.peer # None
      <4>1. v \in Username /\ v # None
        BY <2>2, <2>3, DatabaseAssumption DEF DatabaseAssumption
      <4>2. picked \in Client
        BY <1>1, <4>1, ClientTyping
      <4>3. picked.peer = v
        BY <1>1 DEF Client
      <4>4. QED
        BY <4>1, <4>2, <4>3
    <3>2. ClientFits(users, messages, picked)
      <4>1. /\ picked.user = c.user /\ picked.view = c.view /\ picked.page = c.page
            /\ picked.pages = c.pages /\ picked.mpages = c.mpages /\ picked.rows = c.rows
            /\ picked.names = c.names
        BY <1>1 DEF Client
      <4> HIDE DEF picked
      <4>2. QED
        BY <1>1, <2>1, <2>2, <2>3, <4>1 DEF ClientFits
    <3>3. picked.view = "users"
      BY <1>1, <2>1 DEF Client
    <3> HIDE DEF picked
    <3>4. QED
      BY <3>1, <3>2, <3>3, TalkRequestsFit DEF Good, picked
  <2>4. ASSUME NEW p \in {c.page - 1, c.page + 1} \cap 1 .. c.pages
        PROVE  LET turned == [c EXCEPT !.page = p]
               IN  Good(turned, ViewUsers(turned))
    <3> DEFINE turned == [c EXCEPT !.page = p]
    <3>1. /\ turned \in Client /\ turned.page \in 1 .. turned.pages /\ turned.pages > 0
          /\ turned.user = c.user /\ turned.user # None
      <4>1. p \in 1 .. c.pages /\ p \in Nat /\ c.pages > 0
        BY <2>2
      <4>2. turned \in Client
        BY <1>1, <4>1, ClientTyping
      <4>3. QED
        BY <1>1, <2>1, <4>1, <4>2 DEF Client
    <3>2. ClientFits(users, messages, turned)
      <4>1. /\ turned.user = c.user /\ turned.view = c.view /\ turned.peer = c.peer
            /\ turned.pages = c.pages /\ turned.mpages = c.mpages /\ turned.rows = c.rows
            /\ turned.names = c.names /\ turned.mpage = c.mpage
        BY <1>1 DEF Client
      <4> HIDE DEF turned
      <4>2. QED
        BY <1>1, <3>1, <4>1 DEF ClientFits
    <3> HIDE DEF turned
    <3>3. QED
      BY <3>1, <3>2, UsersRequestFits DEF Good, turned
  <2>5. ClientFits(users, messages, Menu(c)) /\ Good(c, GetUsersCountRequest(c))
    BY <1>1, NewClientsFit, FreeRequestsFit DEF Good
  <2> HIDE DEF c
  <2>6. QED
    BY <1>2, <1>5, <2>3, <2>4, <2>5, TurnFits DEF KeyUsers, c
<1>6. CASE KeyTalk(t)
  <2>1. c.view = "talk" /\ c.user # None /\ c.peer # None /\ c.pages > 0
    BY <1>1, <1>6 DEF KeyTalk, ClientFits
  <2>2. /\ \A text \in Text, id \in c.rows \cup {NoReply} : Good(c, NewMessage(c, text, id))
        /\ Good(c, GetMessagesCount(c))
    BY <1>1, <2>1, TalkRequestsFit DEF Good
  <2>3. Good(UserList(c), ViewUsers(c))
    BY <1>1, <2>1, NewClientsFit, UsersRequestFits DEF Good
  <2>4. ASSUME NEW p \in {c.mpage - 1, c.mpage, c.mpage + 1} \cap 1 .. c.mpages
        PROVE  LET turned == [c EXCEPT !.mpage = p]
               IN  Good(turned, ViewMessages(turned))
    <3> DEFINE turned == [c EXCEPT !.mpage = p]
    <3>1. /\ turned \in Client /\ turned.mpage \in 1 .. turned.mpages /\ turned.mpages > 0
      <4>1. c.mpages \in Nat
        BY <1>1 DEF Client
      <4>2. p \in 1 .. c.mpages /\ p \in Nat /\ c.mpages > 0
        BY <4>1
      <4>3. turned \in Client
        BY <1>1, <4>2, ClientTyping
      <4>4. QED
        BY <1>1, <4>2, <4>3 DEF Client
    <3>2. /\ turned.user = c.user /\ turned.view = c.view /\ turned.peer = c.peer
          /\ turned.pages = c.pages /\ turned.mpages = c.mpages /\ turned.rows = c.rows
          /\ turned.names = c.names /\ turned.page = c.page
      BY <1>1 DEF Client
    <3> HIDE DEF turned
    <3>3. ClientFits(users, messages, turned)
      BY <1>1, <2>1, <3>1, <3>2 DEF ClientFits
    <3>4. QED
      BY <2>1, <3>1, <3>2, <3>3, TalkRequestsFit DEF Good, turned
  <2> HIDE DEF c
  <2>5. QED
    BY <1>2, <1>6, <2>2, <2>3, <2>4 DEF KeyTalk, c
<1>7. QED
  BY <1>3, <1>4, <1>5, <1>6 DEF Key

\* A reply that reaches its client.
LEMMA DeliverFits ==
  ASSUME Typing, ClientTypeOK, NEW t \in Thread, NEW c, NEW next, Deliver(t, c, next),
         ClientFits(users, messages, c), Asking(users, messages, shown', c, next)
  PROVE  ThreadFits(t)'
<1>1. /\ UNCHANGED <<users, messages>> /\ pc'[t] = "recv"
      /\ client'[t] = c /\ request'[t] = next
  BY DEF Deliver, Send, dbVars, Typing, ServerTypeOK, ClientTypeOK
<1>2. QED
  BY <1>1, WaitingFits

\* The pages that a client goes by have a row each.
LEMMA CountedPages ==
  ASSUME NEW n \in Nat, NEW S, IsFiniteSet(S), n <= Cardinality(S)
  PROVE  /\ PageCount(n) \in Nat
         /\ \A p \in 1 .. PageCount(n) : Reaches(p, S)
<1>1. PageCount(n) \in Nat /\ \A p \in 1 .. PageCount(n) : Offset(p) \in Nat /\ Offset(p) < n
  BY PageCountIsTight
<1>2. Cardinality(S) \in Nat
  BY FS_CardinalityType
<1>3. QED
  BY <1>1, <1>2 DEF Reaches

\* A reply that leaves the server with status 200 was asked for by somebody who
\* is logged in, and has what the client takes from it.
LEMMA ReplyIsSound ==
  ASSUME Typing, ClientTypeOK, NEW t \in Thread, Dispatched(t), ThreadFits(t), Replied(t)
  PROVE  /\ client[t] \in Client /\ ClientFits(users, messages, client[t])
         /\ request[t] \in Request /\ reply[t] \in Reply
         /\ pc[t] = "send"
         /\ RequestFits(users, messages, shown, request[t])
         /\ Asks(client[t], request[t]) /\ ReplyFits(users, messages, request[t], reply[t])
<1>1. pc[t] = "send" /\ client[t].view # "off" /\ request[t].command \in Command
  BY DEF Replied, Accessed, UsersCounted, UsersViewed, MessagesCounted, MessagesViewed,
         MessagesMarked, MessageInserted, Asked, Deliver, Command, Handler
<1>2. request[t] \in Request /\ reply[t] \in Reply
  BY <1>1 DEF Typing, ServerTypeOK
<1>3. request[t] # Idle
  BY <1>1 DEF Idle, Command, Handler
<1>4. QED
  BY <1>1, <1>2, <1>3 DEF ThreadFits, ClientTypeOK

\* The menu is shown to somebody who has an account.
LEMMA AccessedFits ==
  ASSUME Typing, ClientTypeOK, NEW t \in Thread, Dispatched(t), ThreadFits(t), Accessed(t)
  PROVE  ThreadFits(t)'
<1> DEFINE c == client[t]
           r == request[t]
           in == Menu([c EXCEPT !.user = r.user])
<1>1. /\ c \in Client /\ r \in Request /\ ReplyFits(users, messages, r, reply[t])
      /\ r.command \in Entry
  BY ReplyIsSound DEF Replied, Accessed, Asked, Entry
<1>2. r.user \in Username
  BY <1>1 DEF Request
<1>3. reply[t].status \in {200, 201} => ClientFits(users, messages, in)
  <2>1. reply[t].status \in {200, 201} => users[r.user] # None
    BY <1>1 DEF ReplyFits
  <2>2. users[r.user] # None => ClientFits(users, messages, in)
    BY <1>1, <1>2, NewClientsFit
  <2>3. QED
    BY <2>1, <2>2
<1>4. ClientFits(users, messages, FirstPage)
  BY NewClientsFit
<1>5. Deliver(t, IF reply[t].status \in {200, 201} THEN in ELSE FirstPage, Idle)
  BY DEF Accessed
<1> HIDE DEF in
<1>6. \A d : Asking(users, messages, shown', d, Idle)
  BY DEF Asking
<1>7. QED
  BY <1>3, <1>4, <1>5, <1>6, DeliverFits

\* The number of pages of users is computed from what the server counted.
LEMMA UsersCountedFits ==
  ASSUME Typing, ClientTypeOK, NEW t \in Thread, Dispatched(t), ThreadFits(t), UsersCounted(t)
  PROVE  ThreadFits(t)'
<1> DEFINE c == client[t]
           r == request[t]
           a == reply[t]
           n == PageCount(a.count - 1)
           fresh == [Menu(c) EXCEPT !.view = "users", !.pages = n,
                                    !.page = IF n = 0 THEN 0 ELSE 1]
           Good(d, q) == ClientFits(users, messages, d) /\ Asking(users, messages, shown', d, q)
<1>1. /\ c \in Client /\ ClientFits(users, messages, c) /\ r \in Request /\ a \in Reply
      /\ pc[t] = "send" /\ Asks(c, r) /\ ReplyFits(users, messages, r, a)
      /\ r.command = "Get_Users_Count"
  BY ReplyIsSound DEF Replied, UsersCounted, Asked
<1>2. Good(Menu(c), Idle)
  BY <1>1, NewClientsFit DEF Asking
<1>3. ASSUME a.status = 200
      PROVE  Good(fresh, Idle) /\ (n > 0 => Good(fresh, ViewUsers(fresh)))
  <2>1. c.user # None /\ r.user = c.user /\ users[c.user] # None
    BY <1>1, <1>3 DEF Dispatched, Asks, Entry, ClientFits
  <2>2. c.user \in Username /\ a.count \in Nat /\ a.count > 0
        /\ a.count <= Cardinality(Accounts(users))
    BY <1>1, <1>3, <2>1 DEF Dispatched, ReplyFits, Client, Reply
  <2>3. n \in Nat /\ \A p \in 1 .. n : Reaches(p, Others(users, c.user))
    <3>1. IsFiniteSet(Accounts(users)) /\ IsFiniteSet(Others(users, c.user))
      <4>1. Working \in Tables
        BY DEF Typing, ServerTypeOK, DatabaseTypeOK, Working, Tables
      <4>2. QED
        BY <4>1, TablesAreFinite DEF Working
    <3>2. c.user \in Accounts(users)
      BY <2>1, <2>2 DEF Accounts
    <3>3. Cardinality(Others(users, c.user)) = Cardinality(Accounts(users)) - 1
          /\ Cardinality(Accounts(users)) \in Nat
      BY <3>1, <3>2, FS_RemoveElement, FS_CardinalityType DEF Others
    <3>4. a.count - 1 \in Nat /\ a.count - 1 <= Cardinality(Others(users, c.user))
      BY <2>2, <3>3
    <3>5. QED
      BY <3>1, <3>4, CountedPages
  <2>4. Menu(c) \in Client
    BY <1>1, ClientTyping
  <2> HIDE DEF n, c
  <2>5. /\ fresh.view = "users" /\ fresh.user = c.user /\ fresh.pages = n
        /\ fresh.page = (IF n = 0 THEN 0 ELSE 1)
        /\ fresh.mpages = 0 /\ fresh.rows = {} /\ fresh.peer = None /\ fresh.names = {}
    BY DEF Menu, FirstPage, Closed
  <2>6. fresh \in Client
    BY <2>3, <2>4 DEF Client, View
  <2> HIDE DEF fresh
  <2>7. ClientFits(users, messages, fresh)
    BY <2>1, <2>3, <2>5 DEF ClientFits
  <2>8. n > 0 => Good(fresh, ViewUsers(fresh))
    BY <2>1, <2>5, <2>6, <2>7, UsersRequestFits
  <2>9. QED
    BY <2>7, <2>8 DEF Asking
<1>4. ASSUME NEW d, NEW q, Good(d, q), Deliver(t, d, q)
      PROVE  ThreadFits(t)'
  BY <1>4, DeliverFits
<1> HIDE DEF Good, fresh, n, c
<1>5. QED
  BY <1>2, <1>3, <1>4 DEF UsersCounted, fresh, n, c

\* The users that are listed can be selected.
LEMMA UsersViewedFits ==
  ASSUME Typing, ClientTypeOK, NEW t \in Thread, Dispatched(t), ThreadFits(t), UsersViewed(t)
  PROVE  ThreadFits(t)'
<1> DEFINE c == client[t]
           names == {reply[t].names[i] : i \in DOMAIN reply[t].names}
           listed == [c EXCEPT !.names = names]
<1>1. /\ c \in Client /\ ClientFits(users, messages, c) /\ Asks(c, request[t])
      /\ request[t].command = "View_Users"
  BY ReplyIsSound DEF Replied, UsersViewed, Asked
<1>2. ClientFits(users, messages, Menu(c))
  BY <1>1, NewClientsFit
<1>3. ClientFits(users, messages, listed)
  <2>1. /\ listed.user = c.user /\ listed.view = c.view /\ listed.peer = c.peer
        /\ listed.pages = c.pages /\ listed.mpages = c.mpages /\ listed.rows = c.rows
        /\ listed.page = c.page /\ listed.mpage = c.mpage /\ c.pages > 0
    BY <1>1 DEF Client, Asks
  <2> HIDE DEF listed
  <2>2. QED
    BY <1>1, <2>1 DEF ClientFits
<1>4. Deliver(t, IF reply[t].status # 200 \/ names = {} THEN Menu(c) ELSE listed, Idle)
  BY DEF UsersViewed
<1> HIDE DEF listed, names
<1>5. \A d : Asking(users, messages, shown', d, Idle)
  BY DEF Asking
<1>6. QED
  BY <1>2, <1>3, <1>4, <1>5, DeliverFits

\* The number of pages of a conversation is computed from what the server counted.
LEMMA MessagesCountedFits ==
  ASSUME Typing, ClientTypeOK, NEW t \in Thread, Dispatched(t), ThreadFits(t), MessagesCounted(t)
  PROVE  ThreadFits(t)'
<1> DEFINE c == client[t]
           r == request[t]
           a == reply[t]
           n == PageCount(a.count)
           fresh == [c EXCEPT !.view = "talk", !.mpages = n, !.mpage = 1, !.rows = {}]
           Good(d, q) == ClientFits(users, messages, d) /\ Asking(users, messages, shown', d, q)
<1>1. /\ c \in Client /\ ClientFits(users, messages, c) /\ r \in Request /\ a \in Reply
      /\ pc[t] = "send" /\ Asks(c, r) /\ ReplyFits(users, messages, r, a)
      /\ r.command = "Get_Messages_Count"
  BY ReplyIsSound DEF Replied, MessagesCounted, Asked
<1>2. /\ c.peer # None /\ c.view \in {"users", "talk"} /\ c.user # None /\ c.pages > 0
      /\ r.user = c.user /\ r.peer = c.peer
  BY <1>1 DEF Asks, ClientFits, Entry
<1>3. c.view = "talk" => Good(c, Refetch(c))
  BY <1>1, <1>2, TalkRequestsFit
<1>4. Good(UserList(c), ViewUsers(c))
  BY <1>1, <1>2, NewClientsFit, UsersRequestFits
<1>5. ASSUME a.status = 200
      PROVE  Good(fresh, Refetch(fresh))
  <2>1. a.count \in Nat /\ a.count <= Cardinality(Talk(messages, c.user, c.peer))
    BY <1>1, <1>2, <1>5 DEF ReplyFits, Reply
  <2>2. n \in Nat /\ \A p \in 1 .. n : Reaches(p, Talk(messages, c.user, c.peer))
    <3>1. Working \in Tables
      BY DEF Typing, ServerTypeOK, DatabaseTypeOK, Working, Tables
    <3>2. IsFiniteSet(Talk(messages, c.user, c.peer))
      BY <3>1, TablesAreFinite DEF Working
    <3>3. QED
      BY <2>1, <3>2, CountedPages
  <2> HIDE DEF n, c
  <2>3. fresh \in Client
    BY <1>1, <2>2 DEF Client, View
  <2>4. /\ fresh.view = "talk" /\ fresh.user = c.user /\ fresh.peer = c.peer
        /\ fresh.pages = c.pages /\ fresh.page = c.page /\ fresh.names = c.names
        /\ fresh.mpages = n /\ fresh.mpage = 1 /\ fresh.rows = {}
    BY <1>1 DEF Client
  <2> HIDE DEF fresh
  <2>5. ClientFits(users, messages, fresh)
    BY <1>1, <1>2, <2>2, <2>4 DEF ClientFits
  <2>6. QED
    BY <1>2, <2>3, <2>4, <2>5, TalkRequestsFit
<1>6. ASSUME NEW d, NEW q, Good(d, q), Deliver(t, d, q)
      PROVE  ThreadFits(t)'
  BY <1>6, DeliverFits
<1> HIDE DEF Good, fresh, n, c
<1>7. QED
  BY <1>3, <1>4, <1>5, <1>6 DEF MessagesCounted, fresh, n, c

\* The rows on the screen are messages of the conversation, and the ids that the
\* client sends back at once are on the screen.
LEMMA MessagesViewedFits ==
  ASSUME Typing, ClientTypeOK, Pages, NEW t \in Thread, Dispatched(t), ThreadFits(t),
         MessagesViewed(t)
  PROVE  ThreadFits(t)'
<1> DEFINE c == client[t]
           r == request[t]
           a == reply[t]
           ids == RedIds(a.rows, c.user)
           drawn == [c EXCEPT !.rows = {a.rows[i].id : i \in DOMAIN a.rows}]
           seen == {a.rows[i].id : i \in {k \in DOMAIN a.rows : a.rows[k].sender # c.user}}
           Good(d, q) == ClientFits(users, messages, d) /\ Asking(users, messages, shown', d, q)
<1>1. /\ c \in Client /\ ClientFits(users, messages, c) /\ r \in Request /\ a \in Reply
      /\ pc[t] = "send" /\ Asks(c, r) /\ r.command = "View_Messages"
  BY ReplyIsSound DEF Replied, MessagesViewed, Asked
<1>2. /\ c.view = "talk" /\ c.peer # None /\ c.user # None /\ c.pages > 0
      /\ r.user = c.user /\ r.peer = c.peer
  BY <1>1 DEF Asks, ClientFits, Entry
<1>3. shown' = shown \cup seen
  BY DEF MessagesViewed
<1>4. Good(UserList(c), ViewUsers(c))
  BY <1>1, <1>2, NewClientsFit, UsersRequestFits
<1>5. a.rows \in Seq(Row) /\ \A i \in DOMAIN a.rows : a.rows[i].id \in Talk(messages, c.user, c.peer)
  BY <1>1, <1>2 DEF Pages, PageOf, RowsIn, Reply
<1>6. \A k \in DOMAIN ids : ids[k] \in seen
  <2>1. \A k \in DOMAIN ids : \E i \in DOMAIN a.rows :
           a.rows[i].id = ids[k] /\ a.rows[i].sender # c.user
    BY <1>5, RedIdsAreOfRows
  <2> HIDE DEF ids
  <2>2. QED
    BY <2>1
<1>7. drawn \in Client
  <2>1. \A i \in DOMAIN a.rows : a.rows[i].id \in Nat
    <3>1. \A i \in DOMAIN a.rows : a.rows[i] \in Row
      BY <1>5
    <3>2. QED
      BY <3>1 DEF Row
  <2>2. {a.rows[i].id : i \in DOMAIN a.rows} \in SUBSET Nat
    BY <2>1
  <2>3. QED
    BY <1>1, <2>2, ClientTyping
<1>8. /\ drawn.user = c.user /\ drawn.view = c.view /\ drawn.peer = c.peer
      /\ drawn.pages = c.pages /\ drawn.mpages = c.mpages /\ drawn.names = c.names
      /\ drawn.page = c.page /\ drawn.mpage = c.mpage
      /\ drawn.rows \subseteq Talk(messages, c.user, c.peer)
  BY <1>1, <1>5 DEF Client
<1>9. \A k \in DOMAIN ids : ids[k] \in shown'
  BY <1>3, <1>6
<1> HIDE DEF drawn, ids, seen
<1>10. ClientFits(users, messages, drawn)
  BY <1>1, <1>2, <1>8 DEF ClientFits
<1>11. Good(drawn, Idle) /\ Good(drawn, UpdateRead(drawn, ids))
  BY <1>2, <1>7, <1>8, <1>9, <1>10, TalkRequestsFit DEF Asking
<1>12. UpdateRead(drawn, ids) = UpdateRead(c, ids)
  BY <1>8 DEF UpdateRead, Ask
<1> DEFINE D == IF a.status # 200 THEN UserList(c) ELSE drawn
           N == IF a.status # 200 THEN ViewUsers(c)
                ELSE IF ids = <<>> THEN Idle ELSE UpdateRead(c, ids)
<1>13. Deliver(t, D, N)
  BY DEF MessagesViewed, drawn, ids
<1> HIDE DEF Good
<1>14. Good(D, N)
  BY <1>4, <1>11, <1>12
<1> HIDE DEF D, N
<1>15. QED
  BY <1>13, <1>14, DeliverFits DEF Good

\* Whatever the reply is, client and request fit afterwards.
LEMMA ReplyStepFits ==
  ASSUME Typing, ClientTypeOK, Pages, NEW t \in Thread, Dispatched(t), ThreadFits(t), Replied(t)
  PROVE  ThreadFits(t)'
<1> DEFINE c == client[t]
<1>1. /\ c \in Client /\ ClientFits(users, messages, c) /\ Asks(c, request[t])
  BY ReplyIsSound
<1>2. CASE MessagesMarked(t)
  <2>1. Deliver(t, c, Idle)
    BY <1>2 DEF MessagesMarked
  <2>2. QED
    BY <1>1, <2>1, DeliverFits DEF Asking
<1>3. CASE MessageInserted(t)
  <2>1. c.view = "talk" /\ c.peer # None
    BY <1>1, <1>3 DEF MessageInserted, Asked, Asks, ClientFits
  <2>2. /\ Asking(users, messages, shown', c, GetMessagesCount(c))
        /\ Asking(users, messages, shown', c, Refetch(c))
    BY <1>1, <2>1, TalkRequestsFit
  <2>3. Deliver(t, c, GetMessagesCount(c)) \/ Deliver(t, c, Refetch(c))
    BY <1>3 DEF MessageInserted
  <2>4. QED
    BY <1>1, <2>2, <2>3, DeliverFits
<1>4. QED
  BY <1>2, <1>3, AccessedFits, UsersCountedFits, UsersViewedFits, MessagesCountedFits,
     MessagesViewedFits DEF Replied

-----------------------------------------------------------------------------
(* The handlers: what they answer fits what was asked.                     *)

\* A finite set of numbers has a bound.
LEMMA FiniteIsBounded ==
  ASSUME NEW S \in SUBSET Nat, IsFiniteSet(S)
  PROVE  \E m \in Nat : S \subseteq 0 .. m
<1> DEFINE Bounded(T) == \E m \in Nat : T \subseteq 0 .. m
           N == {n \in Nat : \A T \in SUBSET Nat : IsFiniteSet(T) /\ Cardinality(T) = n => Bounded(T)}
<1>1. 0 \in N
  <2>1. ASSUME NEW T \in SUBSET Nat, IsFiniteSet(T), Cardinality(T) = 0
        PROVE  Bounded(T)
    <3>1. T = {}
      BY <2>1, FS_EmptySet
    <3>2. T \subseteq 0 .. 0
      BY <3>1
    <3>3. QED
      BY <3>2
  <2> HIDE DEF Bounded
  <2>2. QED
    BY <2>1
<1>2. ASSUME NEW n \in N
      PROVE  n + 1 \in N
  <2>1. ASSUME NEW T \in SUBSET Nat, IsFiniteSet(T), Cardinality(T) = n + 1
        PROVE  Bounded(T)
    <3>1. T # {}
      BY <2>1, FS_EmptySet
    <3>2. PICK x : x \in T
      BY <3>1
    <3>3. IsFiniteSet(T \ {x}) /\ Cardinality(T \ {x}) = n /\ T \ {x} \in SUBSET Nat
      <4>1. IsFiniteSet(T \ {x}) /\ Cardinality(T \ {x}) = (n + 1) - 1
        BY <2>1, <3>2, FS_RemoveElement
      <4>2. n \in Nat
        OBVIOUS
      <4>3. (n + 1) - 1 = n
        BY <4>2
      <4>4. QED
        BY <4>1, <4>3
    <3>4. PICK m \in Nat : T \ {x} \subseteq 0 .. m
      BY <3>3
    <3>5. T \subseteq 0 .. (m + x) /\ m + x \in Nat
      <4>1. x \in Nat
        BY <3>2
      <4>2. 0 .. m \subseteq 0 .. (m + x) /\ x \in 0 .. (m + x)
        BY <4>1
      <4>3. QED
        BY <3>4, <4>1, <4>2
    <3>6. QED
      BY <3>5
  <2> HIDE DEF Bounded
  <2>2. QED
    BY <2>1
<1>3. N = Nat
  <2> HIDE DEF N
  <2>1. N \in SUBSET Nat
    BY DEF N
  <2>2. QED
    BY <1>1, <1>2, <2>1, InductionSet
<1>4. Cardinality(S) \in Nat
  BY FS_CardinalityType
<1>5. QED
  BY <1>3, <1>4

\* The first row of a page that is reached exists.
LEMMA FirstRowExists ==
  ASSUME DatabaseTypeOK, NEW r \in Request
  PROVE  /\ Reaches(r.page, Others(users, r.user)) => NextUsername(r.user, <<>>, r.page) # {}
         /\ Reaches(r.page, Talk(messages, r.user, r.peer))
              => NextMessage(r.user, r.peer, <<>>, r.page) # {}
<1>0. Working \in Tables
  BY DEF DatabaseTypeOK, Working, Tables
<1>1. PageSize \in Nat \ {0} /\ r.page \in Nat /\ Len(<<>>) # PageSize
  BY DatabaseAssumption DEF DatabaseAssumption, Request
<1>2. r.page > 0 => Offset(r.page) \in Nat
  BY <1>1 DEF Offset
<1>3. ASSUME NEW S \in SUBSET Nat, IsFiniteSet(S), Reaches(r.page, S)
      PROVE  /\ \E v \in S : Cardinality(Below(S, v)) = Offset(r.page)
             /\ \E v \in S : Cardinality(Above(S, v)) = Offset(r.page)
  <2>1. PICK m \in Nat : S \subseteq 0 .. m
    BY <1>3, FiniteIsBounded
  <2> DEFINE k == Offset(r.page)
  <2>2. k \in Nat /\ k < Cardinality(S)
    BY <1>2, <1>3 DEF Reaches
  <2> HIDE DEF k
  <2>3. QED
    BY <2>1, <2>2, NthNumber DEF k
<1>4. ASSUME Reaches(r.page, Others(users, r.user))
      PROVE  NextUsername(r.user, <<>>, r.page) # {}
  <2> DEFINE S == {v \in Username \ {r.user} : users[v] # None}
  <2>1. S = Others(users, r.user)
    BY DEF Others, Accounts
  <2>2. S \in SUBSET Nat /\ IsFiniteSet(S)
    BY <1>0, <2>1, TablesAreFinite, DatabaseAssumption DEF DatabaseAssumption, Working
  <2>3. PICK v \in S : Cardinality(Below(S, v)) = Offset(r.page)
    BY <1>3, <1>4, <2>1, <2>2
  <2>4. NextUsername(r.user, <<>>, r.page) = {x \in S : Cardinality(Below(S, x)) = Offset(r.page)}
    BY <1>1 DEF NextUsername, Below
  <2> HIDE DEF S
  <2>5. QED
    BY <2>3, <2>4
<1>5. ASSUME Reaches(r.page, Talk(messages, r.user, r.peer))
      PROVE  NextMessage(r.user, r.peer, <<>>, r.page) # {}
  <2> DEFINE S == Conversation(r.user, r.peer)
  <2>1. S = Talk(messages, r.user, r.peer)
    BY DEF Conversation, Talk
  <2>2. S \in SUBSET Nat /\ IsFiniteSet(S)
    BY <1>0, <2>1, TablesAreFinite DEF Working
  <2>3. PICK v \in S : Cardinality(Above(S, v)) = Offset(r.page)
    BY <1>3, <1>5, <2>1, <2>2
  <2>4. NextMessage(r.user, r.peer, <<>>, r.page)
          = {x \in S : Cardinality(Above(S, x)) = Offset(r.page)}
    BY <1>1 DEF NextMessage, Above
  <2> HIDE DEF S
  <2>5. QED
    BY <2>3, <2>4
<1>6. QED
  BY <1>4, <1>5

\* What a handler that is about to answer has to offer.
Offers(t) ==
  /\ pc[t] = "end" /\ request[t].command = "Register" /\ reply[t].status \in {200, 201}
       => users[request[t].user] # None
  /\ pc[t] = "send" => ReplyFits(users, messages, request[t], reply[t])

\* A list of users is counted for somebody who has an account, besides those on it.
LEMMA CountUsersOffers ==
  ASSUME Typing, NEW t \in Thread, Dispatched(t),
         RequestFits(users, messages, shown, request[t]), CountUsers(t)
  PROVE  Offers(t)'
<1> DEFINE r == request[t]
           A == Accounts(users)
<1>1. /\ pc[t] = "total" /\ r \in Request /\ r.authorized /\ users[r.user] # None
      /\ r.user \in Username /\ r.command \in {"View_Users", "Get_Users_Count"}
  BY DEF CountUsers, Dispatched, Entry, RequestFits, Typing, ServerTypeOK, Request
<1>2. GetUsersCount = Cardinality(A)
  BY DEF GetUsersCount, Accounts
<1>3. \A code : Status(code).status = code
  BY DEF Status, Blank
<1>4. \A k : [Status(200) EXCEPT !.count = k].count = k
  BY DEF Status, Blank
<1>5. r.command = "View_Users" => Cardinality(A) # 1
  <2>1. SUFFICES ASSUME r.command = "View_Users" PROVE Cardinality(A) # 1
    OBVIOUS
  <2>2. IsFiniteSet(A) /\ IsFiniteSet(Others(users, r.user))
    <3>1. Working \in Tables
      BY DEF Typing, ServerTypeOK, DatabaseTypeOK, Working, Tables
    <3>2. QED
      BY <3>1, TablesAreFinite DEF Working
  <2>3. r.user \in A
    BY <1>1 DEF Accounts
  <2>4. /\ Cardinality(Others(users, r.user)) = Cardinality(A) - 1
        /\ Cardinality(A) \in Nat /\ Cardinality(Others(users, r.user)) \in Nat
    BY <2>2, <2>3, FS_RemoveElement, FS_CardinalityType DEF Others
  <2>5. r.page > 0 /\ Offset(r.page) < Cardinality(Others(users, r.user))
    BY <2>1 DEF RequestFits, Reaches
  <2>6. Offset(r.page) >= 0 /\ Offset(r.page) \in Int
    BY <1>1, <2>5, DatabaseAssumption DEF Offset, DatabaseAssumption, Request
  <2>7. QED
    BY <2>4, <2>5, <2>6
<1>6. UNCHANGED <<users, messages, request>>
  BY DEF CountUsers, Answer, Continue, dbVars
<1>7. CASE Answer(t, Status(500))
  BY <1>1, <1>3, <1>6, <1>7 DEF Answer, Offers, ReplyFits, Entry, Typing, ServerTypeOK
<1>8. CASE Continue(t, "names")
  BY <1>8 DEF Continue, Offers, Typing, ServerTypeOK
<1>9. CASE /\ r.command = "Get_Users_Count" \/ GetUsersCount = 1
           /\ Answer(t, [Status(200) EXCEPT !.count = GetUsersCount])
  <2>1. r.command = "Get_Users_Count"
    BY <1>1, <1>2, <1>5, <1>9
  <2>2. pc'[t] = "send" /\ reply'[t].count = Cardinality(A)
    BY <1>2, <1>4, <1>9 DEF Answer, Typing, ServerTypeOK
  <2>3. Cardinality(A) \in Nat
    BY <1>2, CountsAreNat DEF Typing, ServerTypeOK
  <2> HIDE DEF A
  <2>4. QED
    BY <1>6, <2>1, <2>2, <2>3 DEF Offers, ReplyFits, Entry, A
<1>10. QED
  BY <1>7, <1>8, <1>9 DEF CountUsers

\* Every handler answers what fits its request.
LEMMA ProcessOffers ==
  ASSUME Typing, NEW t \in Thread, Dispatched(t), ThreadFits(t), Process(t)
  PROVE  Offers(t)'
<1> DEFINE r == request[t]
           a == reply[t]
<1>1. /\ pc \in [Thread -> Stage] /\ reply \in [Thread -> Reply]
      /\ request \in [Thread -> Request \cup {Idle}]
      /\ pc[t] \notin {"off", "recv"} => r \in Request
      /\ DatabaseTypeOK
  BY DEF Typing, ServerTypeOK
<1>2. \A code : Status(code).status = code
  BY DEF Status, Blank
<1>3. r \in Request => RequestFits(users, messages, shown, r)
  <2>1. r \in Request => r.command # "Idle"
    BY DEF Request, Command, Handler
  <2>2. QED
    BY <2>1 DEF ThreadFits, Idle
<1>4. CASE Receive(t)
  <2>1. r # Idle /\ r \in Request /\ r.command \in Command /\ r.authorized \in BOOLEAN
    BY <1>1, <1>4 DEF Receive, Request
  <2>2. r.command # "Quit"
    BY <1>3, <2>1 DEF RequestFits
  <2>3. UNCHANGED <<users, messages, request>>
    BY <1>4 DEF Receive, Answer, Continue, dbVars
  <2>4. CASE Refusal(r) # 0 /\ Answer(t, Status(Refusal(r)))
    <3>1. Refusal(r) \in {401, 409}
      BY <2>2, <2>4 DEF Refusal
    <3>2. QED
      BY <1>1, <1>2, <2>3, <2>4, <3>1 DEF Answer, Offers, ReplyFits
  <2>5. CASE r.command = "Update_Message_Read" /\ Answer(t, Status(200))
    BY <1>1, <1>2, <2>3, <2>5 DEF Answer, Offers, ReplyFits, Entry
  <2>6. CASE Continue(t, Handler[r.command])
    BY <1>1, <2>1, <2>2, <2>6 DEF Continue, Offers, Command, Handler
  <2>7. QED
    BY <1>4, <2>4, <2>5, <2>6 DEF Receive
<1>5. CASE Login(t)
  <2>1. r.command = "Login" /\ r \in Request /\ r.password \in Password /\ None \notin Password
    BY <1>1, <1>5, DatabaseAssumption DEF Login, Dispatched, Request, DatabaseAssumption
  <2>2. GetUsersCountByUsernameAndPassword(r.user, r.password) = 1 => users[r.user] # None
    BY <2>1 DEF GetUsersCountByUsernameAndPassword
  <2>3. UNCHANGED <<users, messages, request>>
    BY <1>5 DEF Login, Answer, dbVars
  <2>4. QED
    BY <1>1, <1>2, <1>5, <2>1, <2>2, <2>3 DEF Login, Answer, Offers, ReplyFits
<1>6. CASE CheckName(t) \/ CheckUser(t)
  <2>1. UNCHANGED <<users, messages, request>>
    BY <1>6 DEF CheckName, CheckUser, Answer, Continue, dbVars
  <2>2. AfterCheck[r.command] \notin {"end", "send"} \/ CheckName(t)
    BY <1>6 DEF CheckUser, AfterCheck, Typing, StageFits
  <2>3. QED
    BY <1>1, <1>2, <1>6, <2>1, <2>2
    DEF CheckName, CheckUser, Answer, Continue, Offers, ReplyFits
<1>7. CASE CountUsers(t)
  <2>1. r \in Request
    BY <1>1, <1>7 DEF CountUsers
  <2>2. QED
    BY <1>3, <1>7, <2>1, CountUsersOffers
<1>8. CASE CountMessages(t)
  <2> DEFINE n == GetMessagesCountBetweenUsers(r.user, r.peer)
  <2>1. n = Cardinality(Talk(messages, r.user, r.peer)) /\ n \in Nat
    <3>1. n \in Nat
      <4>1. r.user \in Username /\ r.peer \in Username
        BY <1>1, <1>8 DEF CountMessages, Request
      <4>2. QED
        BY <1>1, <4>1, CountsAreNat
    <3>2. n = Cardinality(Talk(messages, r.user, r.peer))
      BY DEF GetMessagesCountBetweenUsers, Conversation, Talk
    <3>3. QED
      BY <3>1, <3>2
  <2>2. r.command = "Get_Messages_Count"
    BY <1>8 DEF CountMessages, Dispatched
  <2>3. [Status(200) EXCEPT !.count = n].count = n
    BY DEF Status, Blank
  <2>4. /\ UNCHANGED <<users, messages, request>> /\ pc'[t] = "send"
        /\ reply'[t].count = n
    BY <1>1, <1>8, <2>3 DEF CountMessages, Answer, dbVars
  <2> HIDE DEF n
  <2>5. QED
    BY <2>1, <2>2, <2>4 DEF Offers, ReplyFits, Entry
<1>9. CASE ScanUsers(t)
  <2>1. pc[t] = "names" /\ r \in Request /\ r.command = "View_Users"
    BY <1>1, <1>9 DEF ScanUsers, Dispatched
  <2>2. NextUsername(r.user, <<>>, r.page) # {}
    BY <1>1, <1>3, <2>1, FirstRowExists DEF RequestFits
  <2>3. pc'[t] \in {"names", "unread"}
    BY <1>1, <1>9, <2>1, <2>2 DEF ScanUsers, Continue
  <2>4. QED
    BY <2>3 DEF Offers
<1>10. CASE CountUnread(t)
  <2>1. pc[t] = "unread" /\ r \in Request /\ r.command = "View_Users" /\ a.names # <<>>
    BY <1>1, <1>10 DEF CountUnread, Dispatched
  <2>2. UNCHANGED <<users, messages, request>>
    BY <1>10 DEF CountUnread, Answer, dbVars
  <2>3. reply'[t].names = a.names /\ pc'[t] \in {"unread", "send"}
    BY <1>1, <1>10, <2>1 DEF CountUnread, Answer, Reply
  <2>4. QED
    BY <2>1, <2>2, <2>3 DEF Offers, ReplyFits, Entry
<1>11. CASE ScanMessages(t)
  <2>1. pc[t] = "rows" /\ r \in Request /\ r.command = "View_Messages"
    BY <1>1, <1>11 DEF ScanMessages, Dispatched
  <2>2. NextMessage(r.user, r.peer, <<>>, r.page) # {}
    BY <1>1, <1>3, <2>1, FirstRowExists DEF RequestFits
  <2>3. UNCHANGED <<users, messages, request>>
    BY <1>11 DEF ScanMessages, Answer, dbVars
  <2>4. pc'[t] = "rows" \/ (pc'[t] = "send" /\ reply'[t].rows # <<>>)
    <3>1. CASE NextMessage(r.user, r.peer, a.rows, r.page) = {}
      BY <1>1, <1>11, <2>1, <2>2, <3>1 DEF ScanMessages, Answer, Reply
    <3>2. CASE NextMessage(r.user, r.peer, a.rows, r.page) # {}
      BY <1>1, <1>11, <2>1, <3>2 DEF ScanMessages
    <3>3. QED
      BY <3>1, <3>2
  <2>5. QED
    BY <2>1, <2>3, <2>4 DEF Offers, ReplyFits, Entry
<1>12. CASE Begin(t)
  BY <1>1, <1>12 DEF Begin, Offers
<1>13. CASE InsertUser(t)
  <2>1. /\ pc'[t] = "end" /\ UNCHANGED request /\ r \in Request
        /\ r.user \in Username /\ r.password \in Password /\ None \notin Password
    BY <1>1, <1>13, DatabaseAssumption DEF InsertUser, Request, DatabaseAssumption
  <2>2. CASE /\ InsertUserRow(r.user, r.password)
    <3>1. users'[r.user] = r.password
      BY <1>1, <2>1, <2>2 DEF InsertUserRow, Write, DatabaseTypeOK, Users
    <3>2. QED
      BY <2>1, <3>1 DEF Offers
  <2>3. CASE reply' = [reply EXCEPT ![t] = Status(500)]
    BY <1>1, <1>2, <2>1, <2>3 DEF Offers
  <2>4. QED
    BY <1>13, <2>2, <2>3 DEF InsertUser
<1>14. CASE InsertMessage(t) \/ UpdateMessage(t)
  BY <1>1, <1>14 DEF InsertMessage, UpdateMessage, Offers
<1>15. CASE End(t)
  <2>1. /\ pc[t] = "end" /\ AfterEnd(t) /\ UNCHANGED <<users, messages, reply>>
        /\ r.command \in {"Register", "Insert_Message", "Update_Message_Read"}
    BY <1>15 DEF End, EndTransaction, AfterEnd, Typing, StageFits
  <2>2. CASE pc' = [pc EXCEPT ![t] = "begin"]
    BY <1>1, <2>2 DEF Offers
  <2>3. CASE pc' = [pc EXCEPT ![t] = "send"] /\ UNCHANGED request
    <3>1. r.command = "Register" /\ a.status \in {200, 201} => users[r.user] # None
      BY <2>1 DEF ThreadFits
    <3>2. QED
      BY <1>1, <2>1, <2>3, <3>1 DEF Offers, ReplyFits, Entry
  <2>4. QED
    BY <2>1, <2>2, <2>3 DEF AfterEnd
<1>16. QED
  BY <1>4, <1>5, <1>6, <1>7, <1>8, <1>9, <1>10, <1>11, <1>12, <1>13, <1>14, <1>15 DEF Process

\* What a thread relies on, but for the answer it has ready, survives its handler.
LEMMA ProcessFits ==
  ASSUME Typing, Typing', ClientTypeOK, NEW t \in Thread, Dispatched(t), ThreadFits(t),
         Process(t), Grows(Working, Working'), UNCHANGED <<client, shown>>
  PROVE  ThreadFits(t)'
<1> DEFINE r == request[t]
           c == client[t]
<1>1. Working \in Tables /\ Working' \in Tables
  BY DEF Typing, ServerTypeOK, DatabaseTypeOK, Working, Tables
<1>2. c \in Client /\ ClientFits(users, messages, c) /\ client' = client /\ shown' = shown
  BY DEF ClientTypeOK, ThreadFits
<1>3. ClientFits(users', messages', c)
  BY <1>1, <1>2, FitsGrow DEF Working
<1>4. /\ r \in Request /\ r # Idle
      /\ request'[t] = r \/ (/\ r.command = "Update_Message_Read"
                             /\ Len(r.ids) > 1 /\ r.ids \in Seq(Nat)
                             /\ request'[t] = [r EXCEPT !.ids = Tail(r.ids)])
  <2>1. CASE End(t)
    <3>1. r \in Request /\ AfterEnd(t) /\ request \in [Thread -> Request \cup {Idle}]
      BY <2>1 DEF End, Typing, ServerTypeOK
    <3>2. r # Idle /\ r.ids \in Seq(Nat)
      BY <3>1 DEF Request, Idle, Command, Handler
    <3>3. QED
      BY <3>1, <3>2 DEF AfterEnd
  <2>2. CASE Receive(t)
    BY <2>2 DEF Receive, Answer, Continue, Typing, ServerTypeOK
  <2>3. ASSUME ~End(t), ~Receive(t)
        PROVE  pc[t] \notin {"off", "recv"} /\ UNCHANGED request
    <3>1. CASE \/ Login(t) \/ CheckName(t) \/ CheckUser(t) \/ CountUsers(t) \/ CountMessages(t)
      BY <3>1 DEF Login, CheckName, CheckUser, CountUsers, CountMessages, Answer, Continue
    <3>2. CASE ScanUsers(t) \/ CountUnread(t) \/ ScanMessages(t)
      BY <3>2 DEF ScanUsers, CountUnread, ScanMessages, Answer, Continue
    <3>3. CASE Begin(t) \/ InsertUser(t) \/ InsertMessage(t) \/ UpdateMessage(t)
      BY <3>3 DEF Begin, InsertUser, InsertMessage, UpdateMessage
    <3>4. QED
      BY <2>3, <3>1, <3>2, <3>3 DEF Process
  <2>4. pc[t] \notin {"off", "recv"} => r \in Request /\ r # Idle
    <3>1. pc[t] \notin {"off", "recv"} => r \in Request
      BY DEF Typing, ServerTypeOK
    <3>2. r \in Request => r # Idle
      BY DEF Request, Idle, Command, Handler
    <3>3. QED
      BY <3>1, <3>2
  <2>5. QED
    BY <2>1, <2>2, <2>3, <2>4
<1>5. RequestFits(users', messages', shown, r) /\ (c.view # "off" => Asks(c, r))
  BY <1>1, <1>4, FitsGrow DEF ThreadFits, Working
<1>6. /\ RequestFits(users', messages', shown, request'[t])
      /\ c.view # "off" => Asks(c, request'[t])
  <2>1. CASE request'[t] = r
    BY <1>5, <2>1
  <2>2. CASE /\ r.command = "Update_Message_Read"
             /\ Len(r.ids) > 1 /\ r.ids \in Seq(Nat)
             /\ request'[t] = [r EXCEPT !.ids = Tail(r.ids)]
    <3> DEFINE q == request'[t]
    <3>1. /\ q.command = "Update_Message_Read" /\ q.authorized = r.authorized
          /\ q.user = r.user /\ q.peer = r.peer /\ q.ids = Tail(r.ids)
      BY <1>4, <2>2 DEF Request
    <3>2. \A k \in DOMAIN Tail(r.ids) : Tail(r.ids)[k] \in shown
      <4>1. \A k \in DOMAIN Tail(r.ids) : k + 1 \in DOMAIN r.ids /\ Tail(r.ids)[k] = r.ids[k + 1]
        BY <2>2, TailIsLeft
      <4>2. QED
        BY <1>5, <2>2, <4>1 DEF RequestFits
    <3> HIDE DEF q
    <3>3. RequestFits(users', messages', shown, q)
      BY <1>5, <2>2, <3>1, <3>2 DEF RequestFits, Entry
    <3>4. c.view # "off" => Asks(c, q)
      BY <1>5, <2>2, <3>1 DEF Asks, Entry
    <3>5. QED
      BY <3>3, <3>4 DEF q
  <2>3. QED
    BY <1>4, <2>1, <2>2
<1>7. QED
  BY <1>2, <1>3, <1>6, ProcessOffers DEF ThreadFits, Offers

\* What a thread relies on survives what the others do.
LEMMA OthersFit ==
  ASSUME Typing, Typing', ClientTypeOK, NEW s \in Thread, ThreadFits(s),
         Grows(Working, Working'), shown \subseteq shown',
         pc'[s] = pc[s], request'[s] = request[s], reply'[s] = reply[s], client'[s] = client[s]
  PROVE  ThreadFits(s)'
<1>1. Working \in Tables /\ Working' \in Tables
  BY DEF Typing, ServerTypeOK, DatabaseTypeOK, Working, Tables
<1>2. client[s] \in Client /\ request[s] \in Request \cup {Idle}
      /\ (pc[s] \notin {"off", "recv"} => request[s] \in Request) /\ reply[s] \in Reply
  BY DEF ClientTypeOK, Typing, ServerTypeOK
<1>3. ClientFits(users', messages', client[s])
  BY <1>1, <1>2, FitsGrow DEF ThreadFits, Working
<1>4. request[s] # Idle =>
        /\ RequestFits(users', messages', shown', request[s])
        /\ client[s].view # "off" => Asks(client[s], request[s])
  BY <1>1, <1>2, FitsGrow DEF ThreadFits, Working
<1>5. pc[s] = "end" /\ request[s].command = "Register" /\ reply[s].status \in {200, 201}
        => users'[request[s].user] # None
  <2>1. \A u \in Username : users[u] # None => users'[u] # None
    BY DEF Grows, Working
  <2>2. pc[s] = "end" => request[s].user \in Username
    BY <1>2 DEF Request
  <2>3. QED
    BY <2>1, <2>2 DEF ThreadFits
<1>6. pc[s] = "send" => ReplyFits(users', messages', request[s], reply[s])
  BY <1>1, <1>2, FitsGrow DEF ThreadFits, Working
<1>7. QED
  BY <1>3, <1>4, <1>5, <1>6 DEF ThreadFits

-----------------------------------------------------------------------------
(* The tables.                                                             *)

\* A handler inserts the row of its request, or marks the message it names, or
\* leaves the table of messages alone.
LEMMA ProcessMessages ==
  ASSUME Typing, NEW t \in Thread, Process(t)
  PROVE  \/ messages' = messages
         \/ /\ pc[t] = "exec" /\ request[t].command = "Insert_Message"
            /\ LET r == request[t]
               IN  messages' = Append(messages, [sender |-> r.user, receiver |-> r.peer,
                                                 message |-> r.message, read |-> 0,
                                                 replyId |-> r.replyId])
         \/ /\ pc[t] = "exec" /\ request[t].command = "Update_Message_Read"
            /\ messages' = [i \in DOMAIN messages |->
                              IF i = Head(request[t].ids)
                              THEN [messages[i] EXCEPT !.read = 1] ELSE messages[i]]
<1>1. CASE InsertMessage(t)
  BY <1>1 DEF InsertMessage, InsertMessageRow, Write
<1>2. CASE UpdateMessage(t)
  BY <1>2 DEF UpdateMessage, UpdateMessageRow, Write
<1>3. CASE InsertUser(t) \/ Begin(t) \/ End(t)
  BY <1>3
  DEF InsertUser, InsertUserRow, Write, Begin, BeginTransaction, End, EndTransaction, dbVars
<1>4. CASE \/ Receive(t) \/ Login(t) \/ CheckName(t) \/ CheckUser(t)
           \/ CountUsers(t) \/ CountMessages(t)
  BY <1>4
  DEF Receive, Login, CheckName, CheckUser, CountUsers, CountMessages, Answer, Continue, dbVars
<1>5. CASE ScanUsers(t) \/ CountUnread(t) \/ ScanMessages(t)
  BY <1>5 DEF ScanUsers, CountUnread, ScanMessages, Answer, Continue, dbVars
<1>6. QED
  BY <1>1, <1>2, <1>3, <1>4, <1>5 DEF Process

\* What is written is written by somebody who has an account, answers a message
\* of the same two users, and marks what was shown.
LEMMA ProcessTables ==
  ASSUME Typing, Typing', NEW t \in Thread, Dispatched(t), ThreadFits(t), Process(t),
         Grows(Working, Working'), UNCHANGED shown, Consistent(Working), MarksShown(Working)
  PROVE  Consistent(Working)' /\ MarksShown(Working)'
<1> DEFINE r == request[t]
           Kept(i) == /\ users'[messages'[i].sender] # None
                      /\ messages'[i].replyId # NoReply =>
                           /\ messages'[i].replyId \in 1 .. i - 1
                           /\ Between(messages'[messages'[i].replyId], messages'[i].sender,
                                      messages'[i].receiver)
           Seen(i) == messages'[i].read = 1 => i \in shown
<1>1. /\ messages \in Seq(Message) /\ messages' \in Seq(Message)
      /\ Len(messages) \in Nat /\ DOMAIN messages = 1 .. Len(messages)
      /\ pc[t] = "exec" => r \in Request
  BY DEF Typing, ServerTypeOK, DatabaseTypeOK
<1>2. \A u \in Username : users[u] # None => users'[u] # None
  BY DEF Grows, Working
<1>3. pc[t] = "exec" => RequestFits(users, messages, shown, r)
  <2>1. r \in Request => r # Idle
    BY DEF Request, Idle, Command, Handler
  <2>2. QED
    BY <1>1, <2>1 DEF ThreadFits
<1>4. \A i \in DOMAIN messages :
        /\ users[messages[i].sender] # None
        /\ messages[i].replyId # NoReply =>
             /\ messages[i].replyId \in 1 .. i - 1
             /\ Between(messages[messages[i].replyId], messages[i].sender, messages[i].receiver)
        /\ messages[i].read = 1 => i \in shown
  BY DEF Consistent, MarksShown, Working
<1>5. \A i \in DOMAIN messages :
        /\ i \in DOMAIN messages' /\ messages[i].sender \in Username
        /\ messages'[i].sender = messages[i].sender
        /\ messages'[i].receiver = messages[i].receiver
        /\ messages'[i].replyId = messages[i].replyId
  <2>1. TAKE i \in DOMAIN messages
  <2>2. messages'[i] \in {messages[i], [messages[i] EXCEPT !.read = 1]}
        /\ messages[i] \in Message /\ Len(messages) <= Len(messages')
    BY <1>1 DEF Grows, Working
  <2>3. i \in DOMAIN messages'
    BY <1>1, <2>2
  <2>4. QED
    BY <2>2, <2>3 DEF Message
<1>6. \A i \in DOMAIN messages : Kept(i)
  <2>1. TAKE i \in DOMAIN messages
  <2>2. users'[messages'[i].sender] # None
    BY <1>2, <1>4, <1>5
  <2>3. ASSUME messages[i].replyId # NoReply
        PROVE  /\ messages'[i].replyId \in 1 .. i - 1
               /\ Between(messages'[messages'[i].replyId], messages'[i].sender,
                          messages'[i].receiver)
    <3> DEFINE j == messages[i].replyId
    <3>1. j \in 1 .. i - 1 /\ j \in DOMAIN messages
      BY <1>1, <1>4, <2>3
    <3>2. /\ messages'[j].sender = messages[j].sender
          /\ messages'[j].receiver = messages[j].receiver
      BY <1>5, <3>1
    <3>3. Between(messages[j], messages[i].sender, messages[i].receiver)
      BY <1>4, <2>3
    <3>4. QED
      BY <1>5, <3>1, <3>2, <3>3 DEF Between
  <2>4. QED
    BY <1>5, <2>2, <2>3
<1>7. CASE messages' = messages
  BY <1>4, <1>6, <1>7 DEF Consistent, MarksShown, Working
<1>8. CASE /\ pc[t] = "exec" /\ r.command = "Insert_Message"
           /\ messages' = Append(messages, [sender |-> r.user, receiver |-> r.peer,
                                            message |-> r.message, read |-> 0,
                                            replyId |-> r.replyId])
  <2> DEFINE m == [sender |-> r.user, receiver |-> r.peer, message |-> r.message,
                   read |-> 0, replyId |-> r.replyId]
             n == Len(messages) + 1
  <2>1. /\ r.user \in Username /\ r.authorized /\ users[r.user] # None
        /\ r.replyId # NoReply => r.replyId \in Talk(messages, r.user, r.peer)
    BY <1>1, <1>3, <1>8 DEF Request, RequestFits, Dispatched, Entry
  <2>2. m \in Message
    BY <1>1, <1>8 DEF Request, Message
  <2>3. messages' = Append(messages, m)
    BY <1>8
  <2>4. m.sender = r.user /\ m.receiver = r.peer /\ m.replyId = r.replyId /\ m.read = 0
    OBVIOUS
  <2> HIDE DEF m
  <2>5. /\ DOMAIN messages' = 1 .. n /\ messages'[n] = m
        /\ \A i \in DOMAIN messages : messages'[i] = messages[i]
    BY <1>1, <2>2, <2>3
  <2>6. Kept(n)
    <3>1. users'[m.sender] # None
      BY <1>2, <2>1, <2>4
    <3>2. ASSUME m.replyId # NoReply
          PROVE  /\ m.replyId \in 1 .. n - 1
                 /\ Between(messages'[m.replyId], m.sender, m.receiver)
      <4>1. m.replyId \in DOMAIN messages /\ Between(messages[m.replyId], r.user, r.peer)
        BY <2>1, <2>4, <3>2 DEF Talk
      <4>2. QED
        BY <1>1, <2>4, <2>5, <4>1
    <3>3. QED
      BY <2>5, <3>1, <3>2
  <2>7. Seen(n) /\ \A i \in DOMAIN messages : Seen(i)
    BY <1>4, <2>4, <2>5
  <2>8. \A i \in DOMAIN messages' : i = n \/ i \in DOMAIN messages
    BY <1>1, <2>5
  <2>9. \A i \in DOMAIN messages' : Kept(i) /\ Seen(i)
    <3> HIDE DEF Kept, Seen, n
    <3>1. QED
      BY <1>6, <2>6, <2>7, <2>8
  <2>10. QED
    BY <2>9 DEF Consistent, MarksShown, Working
<1>9. CASE /\ pc[t] = "exec" /\ r.command = "Update_Message_Read"
           /\ messages' = [i \in DOMAIN messages |->
                             IF i = Head(r.ids) THEN [messages[i] EXCEPT !.read = 1]
                             ELSE messages[i]]
  <2>1. Head(r.ids) \in shown
    <3>1. r.ids \in Seq(Nat) /\ r.ids # <<>>
      BY <1>1, <1>9 DEF Request, Dispatched
    <3>2. 1 \in DOMAIN r.ids /\ Head(r.ids) = r.ids[1]
      BY <3>1
    <3>3. QED
      BY <1>3, <1>9, <3>2 DEF RequestFits
  <2>2. DOMAIN messages' = DOMAIN messages
    BY <1>9
  <2>3. \A i \in DOMAIN messages : Seen(i)
    BY <1>4, <1>9, <2>1
  <2>4. \A i \in DOMAIN messages' : Kept(i) /\ Seen(i)
    <3> HIDE DEF Kept, Seen
    <3>1. QED
      BY <1>6, <2>2, <2>3
  <2>5. QED
    BY <2>4 DEF Consistent, MarksShown, Working
<1>10. QED
  BY <1>7, <1>8, <1>9, ProcessMessages

\* The tables fit as long as nobody writes.
LEMMA SameTables ==
  ASSUME TablesFit, UNCHANGED <<users, messages, disk>>, shown \subseteq shown'
  PROVE  TablesFit'
BY DEF TablesFit, Consistent, MarksShown, Working

-----------------------------------------------------------------------------
(* Every step of the program.                                              *)

\* What a client and its thread do concerns no other thread, and the tables only
\* when a handler writes.
Untouched(t) ==
  \A s \in Thread \ {t} : /\ pc'[s] = pc[s] /\ request'[s] = request[s]
                          /\ reply'[s] = reply[s] /\ client'[s] = client[s]

\* Clients, and the threads that wait for them, write nothing.
LEMMA ClientStepTouches ==
  ASSUME Typing, ClientTypeOK, NEW t \in Thread, Dispatched(t),
         Start(t) \/ Key(t) \/ Close(t) \/ Replied(t) \/ Abandoned(t)
  PROVE  Untouched(t) /\ UNCHANGED <<users, messages, disk>> /\ shown \subseteq shown'
<1>1. CASE Start(t) \/ Close(t)
  BY <1>1 DEF Start, Accept, Close, Untouched, dbVars, Typing, ServerTypeOK, ClientTypeOK
<1>2. CASE Abandoned(t)
  BY <1>2
  DEF Abandoned, SendLost, Disconnected, Untouched, dbVars, Typing, ServerTypeOK, ClientTypeOK
<1>3. CASE Key(t)
  <2>1. ASSUME NEW c, NEW r, Press(t, c, r)
        PROVE  Untouched(t) /\ UNCHANGED <<users, messages, disk, shown>>
    BY <2>1 DEF Press, Arrive, Untouched, dbVars, Typing, ServerTypeOK, ClientTypeOK
  <2>2. ASSUME NEW c, Turn(t, c)
        PROVE  Untouched(t) /\ UNCHANGED <<users, messages, disk, shown>>
    BY <2>2 DEF Turn, serverVars, Untouched, ClientTypeOK
  <2>3. QED
    BY <1>3, <2>1, <2>2 DEF Key, KeyFirst, KeyMenu, KeyUsers, KeyTalk
<1>4. CASE Replied(t)
  <2>1. ASSUME NEW c, NEW next, Deliver(t, c, next)
        PROVE  Untouched(t) /\ UNCHANGED <<users, messages, disk>>
    BY <2>1 DEF Deliver, Send, Untouched, dbVars, Typing, ServerTypeOK, ClientTypeOK
  <2>2. CASE Accessed(t) \/ UsersCounted(t) \/ UsersViewed(t) \/ MessagesCounted(t)
    BY <2>1, <2>2 DEF Accessed, UsersCounted, UsersViewed, MessagesCounted
  <2>3. CASE MessagesViewed(t)
    BY <2>1, <2>3 DEF MessagesViewed
  <2>4. CASE MessagesMarked(t) \/ MessageInserted(t)
    BY <2>1, <2>4 DEF MessagesMarked, MessageInserted
  <2>5. QED
    BY <1>4, <2>2, <2>3, <2>4 DEF Replied
<1>5. QED
  BY <1>1, <1>2, <1>3, <1>4

\* Arrivals and departures.
LEMMA ComingAndGoingFits ==
  ASSUME Typing, ClientTypeOK, NEW t \in Thread, Dispatched(t), ThreadFits(t),
         Start(t) \/ Close(t) \/ Abandoned(t)
  PROVE  ThreadFits(t)'
<1>1. ClientFits(users, messages, Closed) /\ ClientFits(users, messages, FirstPage)
  BY NewClientsFit
<1>2. CASE Start(t)
  <2>1. /\ UNCHANGED <<users, messages>> /\ pc'[t] = "recv" /\ client'[t] = FirstPage
        /\ request'[t] = Idle
    BY <1>2 DEF Start, Accept, dbVars, Dispatched, Typing, ServerTypeOK, ClientTypeOK
  <2>2. QED
    BY <1>1, <2>1, WaitingFits DEF Asking
<1>3. CASE Abandoned(t)
  <2>1. /\ UNCHANGED <<users, messages>> /\ pc'[t] \in {"off", "recv"} /\ client' = client
        /\ request'[t] = Idle
    BY <1>3 DEF Abandoned, SendLost, Disconnected, dbVars, Typing, ServerTypeOK
  <2>2. QED
    BY <2>1, WaitingFits DEF Asking, ThreadFits
<1>4. CASE Close(t)
  <2>1. /\ UNCHANGED <<users, messages, pc, reply, shown>> /\ client'[t] = Closed
        /\ request'[t] = request[t] \/ (pc[t] = "recv" /\ request'[t] = Idle)
    BY <1>4 DEF Close, dbVars, Typing, ServerTypeOK, ClientTypeOK
  <2>2. Closed.view = "off"
    BY DEF Closed
  <2>3. QED
    BY <1>1, <2>1, <2>2 DEF ThreadFits
<1>5. QED
  BY <1>2, <1>3, <1>4

\* The steps of one thread and its client keep what all of them rely on.
LEMMA ThreadKeepsFits ==
  ASSUME Typing, Typing', Storage, ClientTypeOK, Pages, \A s \in Thread : Dispatched(s),
         Fits, faults' = 0, NEW t \in Thread,
         \/ Start(t) \/ Key(t) \/ Close(t) \/ Replied(t) \/ Abandoned(t)
         \/ ServerWorks(t)
  PROVE  Fits'
<1>1. Working \in Tables /\ Working' \in Tables
  BY DEF Typing, ServerTypeOK, DatabaseTypeOK, Working, Tables
<1>2. ASSUME Untouched(t), Grows(Working, Working'), shown \subseteq shown', TablesFit',
             ThreadFits(t)'
      PROVE  Fits'
  <2>1. \A s \in Thread \ {t} : ThreadFits(s)'
    BY <1>2, OthersFit DEF Untouched, Fits
  <2>2. QED
    BY <1>2, <2>1 DEF Fits
<1>3. CASE Start(t) \/ Key(t) \/ Close(t) \/ Replied(t) \/ Abandoned(t)
  <2>1. Untouched(t) /\ UNCHANGED <<users, messages, disk>> /\ shown \subseteq shown'
    BY <1>3, ClientStepTouches
  <2>2. TablesFit'
    BY <2>1, SameTables DEF Fits
  <2>3. Grows(Working, Working')
    <3>1. Working' = Working
      BY <2>1 DEF Working
    <3>2. QED
      BY <1>1, <3>1, GrowsOrder
  <2>4. ThreadFits(t)'
    BY <1>3, ComingAndGoingFits, KeyFits, ReplyStepFits DEF Fits
  <2>5. QED
    BY <1>2, <2>1, <2>2, <2>3, <2>4
<1>4. CASE ServerWorks(t)
  <2>1. Process(t) /\ UNCHANGED <<client, shown>>
    BY <1>4 DEF ServerWorks
  <2>2. ThreadStep(Request, t) /\ ~Fault(t)
    <3>1. ~Fault(t)
      BY DEF Fault, ExecFails, CommitFails, Typing, ServerTypeOK
    <3>2. QED
      BY <2>1, <3>1 DEF ThreadStep
  <2>3. Grows(Working, Working')
    BY <2>2, ThreadStorage DEF Typing
  <2>4. Untouched(t)
    BY <2>1, <2>2, OthersUntouched DEF Untouched, Typing
  <2>5. ThreadFits(t)'
    BY <2>1, <2>3, ProcessFits DEF Fits
  <2>6. TablesFit'
    <3>1. /\ Consistent(Working) /\ MarksShown(Working)
          /\ Consistent(disk) /\ MarksShown(disk)
      BY DEF Fits, TablesFit
    <3>2. Consistent(Working)' /\ MarksShown(Working)'
      BY <2>1, <2>3, <3>1, ProcessTables DEF Fits
    <3>3. disk' = disk \/ disk' = Working'
      BY <2>2, ThreadDisk
    <3>4. Consistent(disk)' /\ MarksShown(disk)'
      BY <2>1, <3>1, <3>2, <3>3 DEF Consistent, MarksShown
    <3>5. QED
      BY <3>2, <3>4 DEF TablesFit
  <2>7. QED
    BY <1>2, <2>1, <2>3, <2>4, <2>5, <2>6
<1>5. QED
  BY <1>3, <1>4

\* A crash takes the clients and what was not committed.
LEMMA CrashKeepsFits ==
  ASSUME Fits, ServerCrash
  PROVE  Fits'
<1>1. /\ users' = disk.users /\ messages' = disk.messages /\ disk' = disk
      /\ pc' = [t \in Thread |-> "off"] /\ request' = [t \in Thread |-> Idle]
      /\ client' = [t \in Thread |-> Closed]
      /\ shown' = shown \cap DOMAIN disk.messages
  BY DEF ServerCrash, Crash, Rollback, Forget
<1>2. TablesFit'
  <2>1. Consistent(disk) /\ MarksShown(disk)
    BY DEF Fits, TablesFit
  <2>2. Consistent(disk)' /\ MarksShown(disk)'
    BY <1>1, <2>1 DEF Consistent, MarksShown
  <2>3. Consistent(Working)' /\ MarksShown(Working)'
    BY <1>1, <2>2 DEF Consistent, MarksShown, Working
  <2>4. QED
    BY <2>2, <2>3 DEF TablesFit
<1>3. \A t \in Thread : ThreadFits(t)'
  BY <1>1, NewClientsFit DEF ThreadFits
<1>4. QED
  BY <1>2, <1>3 DEF Fits

-----------------------------------------------------------------------------
(* The inductive invariant of the whole program.                           *)

\* The server's invariant and the types of the clients hold throughout.  Dispatched
\* survives storage errors as well; what relates caches to tables does not.
MessengerInv ==
  /\ ServerPart /\ ClientTypeOK
  /\ \A t \in Thread : Dispatched(t)
  /\ faults = 0 => Fits

\* Nobody is connected when the program starts.
LEMMA InitMessenger == Init => MessengerInv
<1> SUFFICES ASSUME Init PROVE MessengerInv
  OBVIOUS
<1>1. ServerPart
  BY InitServerPart DEF Init
<1>2. /\ users = StartUsers /\ messages = StartMessages
      /\ disk = [users |-> StartUsers, messages |-> StartMessages]
      /\ pc = [t \in Thread |-> "off"] /\ request = [t \in Thread |-> Idle]
      /\ client = [t \in Thread |-> Closed]
      /\ shown = {i \in DOMAIN StartMessages : StartMessages[i].read = 1}
  BY DEF Init, ServerInit
<1>3. ClientTypeOK
  <2>1. DOMAIN StartMessages \subseteq Nat
    BY ServerAssumption DEF ServerAssumption
  <2>2. QED
    BY <1>2, <2>1, ClientTyping DEF ClientTypeOK
<1>4. \A t \in Thread : Dispatched(t)
  BY <1>2 DEF Dispatched, Entry
<1>5. TablesFit
  <2>1. Consistent(disk) /\ MarksShown(disk)
    BY <1>2, MessengerAssumption DEF MessengerAssumption, MarksShown
  <2>2. Working = disk
    BY <1>2 DEF Working
  <2>3. QED
    BY <2>1, <2>2 DEF TablesFit
<1>6. \A t \in Thread : ThreadFits(t)
  BY <1>2, NewClientsFit DEF ThreadFits
<1>7. QED
  BY <1>1, <1>3, <1>4, <1>5, <1>6 DEF MessengerInv, Fits

\* Every step keeps the invariant.
LEMMA NextMessenger == MessengerInv /\ [Next]_vars => MessengerInv'
<1> SUFFICES ASSUME MessengerInv, [Next]_vars PROVE MessengerInv'
  OBVIOUS
<1>1. ClientTypeOK' /\ ServerPartStep
  BY NextTyping DEF MessengerInv, ServerPart
<1>2. ServerPart'
  BY <1>1, NextServerPart DEF MessengerInv
<1>3. \A t \in Thread : Dispatched(t)'
  BY <1>1, NextDispatched DEF MessengerInv, ServerPart
<1>4. ASSUME faults' = 0
      PROVE  Fits'
  <2>1. faults = 0
    <3>1. CASE ServerStep(Request)
      BY <1>4, <3>1, StepFaultsStay DEF MessengerInv, ServerPart, Typing
    <3>2. CASE (\E t \in Thread : Lost(t)) \/ UNCHANGED serverVars
      BY <1>4, <3>2 DEF Lost, boundVars, serverVars
    <3>3. QED
      BY <1>1, <3>1, <3>2 DEF ServerPartStep
  <2>2. Fits /\ Typing /\ Typing' /\ Storage /\ ClientTypeOK /\ Pages
        /\ \A s \in Thread : Dispatched(s)
    BY <1>2, <2>1 DEF MessengerInv, ServerPart, ServerUntilFault
  <2>3. CASE ServerCrash
    BY <2>2, <2>3, CrashKeepsFits
  <2>4. CASE UNCHANGED vars
    <3>1. UNCHANGED <<users, messages, disk, pc, request, reply, client, shown>>
      BY <2>4 DEF vars, serverVars
    <3>2. QED
      BY <2>2, <3>1
      DEF Fits, TablesFit, Consistent, MarksShown, Working, ThreadFits
  <2>5. ASSUME NEW t \in Thread, StorageFault(t)
        PROVE  FALSE
    BY <1>4, <2>1, <2>5 DEF StorageFault, Fault, ExecFails, CommitFails
  <2>6. ASSUME NEW t \in Thread,
               \/ Start(t) \/ Key(t) \/ Close(t) \/ Replied(t) \/ Abandoned(t)
               \/ ServerWorks(t)
        PROVE  Fits'
    BY <1>4, <2>2, <2>6, ThreadKeepsFits
  <2>7. QED
    BY <2>3, <2>4, <2>5, <2>6 DEF Next
<1>5. QED
  BY <1>1, <1>2, <1>3, <1>4 DEF MessengerInv

\* The invariant of the program always holds.
LEMMA AlwaysMessenger == SafetySpec => []MessengerInv
<1>1. QED
  BY InitMessenger, NextMessenger, PTL DEF SafetySpec

-----------------------------------------------------------------------------
(* The theorems.                                                           *)

\* Every variable of the program keeps its type: the page numbers a client goes
\* by, and those it asks for, stay natural numbers.
THEOREM MessengerTypeCorrect == SafetySpec => []TypeOK
<1>1. MessengerInv => TypeOK
  BY DEF MessengerInv, ServerPart, Typing, ClientTypeOK, TypeOK
<1>2. QED
  BY <1>1, AlwaysMessenger, PTL

\* Until a storage error, whoever is logged in has an account and so has, in the
\* file, the sender of every message of the file.
THEOREM MessengerSenderHasAccount == SafetySpec => []SenderHasAccount
<1>1. MessengerInv => SenderHasAccount
  <2>1. SUFFICES ASSUME Fits PROVE SenderHasAccount
    BY DEF MessengerInv, SenderHasAccount
  <2>2. \A t \in Thread : client[t].user # None => users[client[t].user] # None
    BY <2>1 DEF Fits, ThreadFits, ClientFits
  <2>3. \A i \in DOMAIN disk.messages : disk.users[disk.messages[i].sender] # None
    BY <2>1 DEF Fits, TablesFit, Consistent
  <2>4. QED
    BY <2>2, <2>3 DEF SenderHasAccount
<1>2. QED
  BY <1>1, AlwaysMessenger, PTL

\* Until a storage error, a message that is marked read was on the screen of its
\* receiver before: the ids in SendUpdateMessageReadRequest are those of the rows
\* drawn in red, and come to name no other messages.
THEOREM MessengerReadWasShown == SafetySpec => []ReadWasShown
<1>1. MessengerInv => ReadWasShown
  BY DEF MessengerInv, Fits, TablesFit, MarksShown, Working, ReadWasShown
<1>2. QED
  BY <1>1, AlwaysMessenger, PTL

\* Until a storage error, a reply names an older message of the same two users.
THEOREM MessengerReplyPointsBack == SafetySpec => []ReplyPointsBack
<1>1. MessengerInv => ReplyPointsBack
  <2>1. SUFFICES ASSUME Fits PROVE ReplyPointsBack
    BY DEF MessengerInv, ReplyPointsBack
  <2>2. Consistent(Working) /\ Consistent(disk)
    BY <2>1 DEF Fits, TablesFit
  <2>3. QED
    BY <2>2 DEF Consistent, Working, ReplyPointsBack
<1>2. QED
  BY <1>1, AlwaysMessenger, PTL

\* Until a storage error, no page a client asks for is empty, however long ago it
\* counted the pages: PrepareViewContent always has a row to print.
THEOREM MessengerPageNeverEmpty == SafetySpec => []PageNeverEmpty
<1>1. MessengerInv => PageNeverEmpty
  BY DEF MessengerInv, Fits, ThreadFits, ReplyFits, PageNeverEmpty
<1>2. QED
  BY <1>1, AlwaysMessenger, PTL

\* It contains what the theorems about the server rest on.
LEMMA SafeServerPart ==
  ASSUME MessengerInv
  PROVE  ContractInv /\ PageInv
BY DEF MessengerInv, ServerPart, ServerUntilFault, ContractInv, SafeUntilFault, PageInv

\* What was proved of the server with arbitrary clients holds with the real ones,
\* who may also take a request with them that is not received yet.
THEOREM MessengerServerIsSafe ==
  SafetySpec => [](/\ TransactionHasWriter /\ QuietMeansDurable
                   /\ AcknowledgedUntilFault /\ NoOrphanMessage
                   /\ PageHasNoGap /\ UserPageIsSound)
<1>1. ASSUME MessengerInv
      PROVE  /\ TransactionHasWriter /\ QuietMeansDurable
             /\ AcknowledgedUntilFault /\ NoOrphanMessage
             /\ PageHasNoGap /\ UserPageIsSound
  <2>1. TransactionHasWriter /\ QuietMeansDurable
    BY <1>1 DEF MessengerInv, ServerPart, Storage, Committed, TransactionHasWriter,
                QuietMeansDurable
  <2>2. AcknowledgedUntilFault /\ NoOrphanMessage
    BY <1>1, SafeServerPart
    DEF ContractInv, SafeUntilFault, DurableInv, OrphanInv, Addressed,
        AcknowledgedUntilFault, NoOrphanMessage
  <2>3. PageHasNoGap /\ UserPageIsSound
    BY <1>1, SafeServerPart, PagesAreSound
  <2>4. QED
    BY <2>1, <2>2, <2>3
<1>2. QED
  BY <1>1, AlwaysMessenger, PTL

\* Of the whole program as well: what was committed stays in the file as it is, but
\* for the mark of a message that is read, with storage errors and crashes.
THEOREM MessengerFileOnlyGrows == SafetySpec => FileOnlyGrows
<1>1. ASSUME MessengerInv, [Next]_vars
      PROVE  [Grows(disk, disk')]_disk
  <2>1. Typing /\ Storage /\ ServerPartStep
    BY <1>1, NextTyping DEF MessengerInv, ServerPart
  <2>2. CASE ServerStep(Request)
    BY <2>1, <2>2, StepStorage DEF Typing
  <2>3. CASE (\E t \in Thread : Lost(t)) \/ UNCHANGED serverVars
    BY <2>3 DEF Lost, dbVars, serverVars
  <2>4. QED
    BY <2>1, <2>2, <2>3 DEF ServerPartStep
<1>2. QED
  BY <1>1, AlwaysMessenger, PTL DEF SafetySpec, FileOnlyGrows

\* The whole program keeps the promise of WriteContract.
THEOREM MessengerImplementsContract == SafetySpec => ImplementsContract
<1>1. Init => Contract!Init
  BY InitContract DEF Init
<1>2. MessengerInv /\ MessengerInv' /\ [Next]_vars => [Contract!Next]_(Contract!vars)
  <2> SUFFICES ASSUME MessengerInv, MessengerInv', [Next]_vars
               PROVE  Contract!Next \/ UNCHANGED Contract!vars
    OBVIOUS
  <2>1. ContractInv /\ ContractInv'
    BY SafeServerPart DEF MessengerInv, ServerPart, ServerUntilFault, ContractInv, SafeUntilFault
  <2>2. ServerPartStep
    BY NextTyping DEF MessengerInv, ServerPart
  <2>3. CASE ServerStep(Request)
    BY <2>1, <2>3, StepRefines
  <2>4. CASE (\E t \in Thread : Lost(t)) \/ UNCHANGED serverVars
    BY <2>4 DEF Lost, dbVars, historyVars, boundVars, serverVars, Contract!vars
  <2>5. QED
    BY <2>2, <2>3, <2>4 DEF ServerPartStep
<1>3. QED
  BY <1>1, <1>2, AlwaysMessenger, PTL DEF SafetySpec, ImplementsContract, Contract!Spec

=============================================================================
