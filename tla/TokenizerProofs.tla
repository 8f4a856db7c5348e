--------------------------- MODULE TokenizerProofs ---------------------------
(* Theorems about module Tokenizer, for all threads and requests.          *)
EXTENDS Tokenizer, FiniteSetTheorems, SequenceTheorems, WellFoundedInduction, TLAPS

-----------------------------------------------------------------------------
(* strtok.  The positions it looks for exist: the least of a set of them.  *)

Less == {ss \in Nat \X Nat : ss[1] < ss[2]}

\* A set of numbers that is not empty has a least element.
LEMMA LeastNumber ==
  ASSUME NEW S, S \subseteq Nat, S # {}
  PROVE  \E n \in S : \A m \in S : n <= m
<1>1. OpToRel(<, Nat) = Less
  BY DEF OpToRel, Less
<1>2. IsWellFoundedOn(Less, Nat)
  BY <1>1, NatLessThanWellFounded
<1>3. PICK n \in S : \A m \in S : <<m, n>> \notin Less
  BY <1>2, WFMin
<1>4. \A m \in S : ~(m < n)
  BY <1>3 DEF Less
<1>5. QED
  BY <1>4

Delimiter == {Colon, Hash}

\* Behind its last cell a text reads as NUL, which is no delimiter.
LEMMA CellBehind ==
  ASSUME NEW s \in Seq(Cell), NEW i \in Nat \ {0}, NEW d \in Delimiter
  PROVE  CellAt(s, Len(s) + i) = Nul /\ Nul # d
<1>1. Len(s) + i \notin DOMAIN s
  OBVIOUS
<1>2. QED
  BY <1>1 DEF CellAt, Delimiter, Colon, Hash, Nul

\* Start skips exactly the delimiters.
LEMMA StartSkips ==
  ASSUME NEW s \in Seq(Cell), NEW i \in Nat \ {0}, NEW d \in Delimiter
  PROVE  /\ Start(s, i, d) \in i .. Len(s) + i
         /\ CellAt(s, Start(s, i, d)) # d
         /\ \A k \in i .. Start(s, i, d) - 1 : CellAt(s, k) = d
<1> DEFINE S == {j \in i .. Len(s) + i : CellAt(s, j) # d}
<1>1. Len(s) + i \in S
  BY CellBehind
<1>2. PICK n \in S : \A m \in S : n <= m
  <2>1. S \subseteq Nat /\ S # {}
    BY <1>1
  <2> HIDE DEF S
  <2>2. QED
    BY <2>1, LeastNumber
<1>3. \A k \in i .. n - 1 : CellAt(s, k) = d
  BY <1>2
<1>4. \E j \in i .. Len(s) + i :
        CellAt(s, j) # d /\ \A k \in i .. j - 1 : CellAt(s, k) = d
  BY <1>2, <1>3
<1>5. QED
  BY <1>4 DEF Start

\* Stop is the first end of a token from there on.
LEMMA StopEnds ==
  ASSUME NEW s \in Seq(Cell), NEW i \in Nat \ {0}, NEW d \in Delimiter
  PROVE  /\ Stop(s, i, d) \in Start(s, i, d) .. Len(s) + i
         /\ \A k \in Start(s, i, d) .. Stop(s, i, d) - 1 : CellAt(s, k) \notin {d, Nul}
<1> DEFINE a == Start(s, i, d)
           S == {j \in a .. Len(s) + i : CellAt(s, j) \in {d, Nul}}
<1>1. a \in i .. Len(s) + i
  BY StartSkips
<1>2. Len(s) + i \in S
  BY <1>1, CellBehind
<1>3. PICK n \in S : \A m \in S : n <= m
  <2>1. S \subseteq Nat /\ S # {}
    BY <1>1, <1>2
  <2> HIDE DEF S
  <2>2. QED
    BY <2>1, LeastNumber
<1>4. \A k \in a .. n - 1 : CellAt(s, k) \notin {d, Nul}
  BY <1>1, <1>3
<1>5. \E j \in a .. Len(s) + i :
        CellAt(s, j) \in {d, Nul} /\ \A k \in a .. j - 1 : CellAt(s, k) \notin {d, Nul}
  BY <1>1, <1>3, <1>4
<1>6. QED
  BY <1>5 DEF Stop

\* A token is a run of cells of its text.
LEMMA TokenCells ==
  ASSUME NEW s \in Seq(Cell), NEW i \in Nat \ {0}, NEW d \in Delimiter
  PROVE  SubSeq(s, Start(s, i, d), Stop(s, i, d) - 1) \in Seq(Cell)
<1> DEFINE a == Start(s, i, d)
           b == Stop(s, i, d)
<1>1. a \in i .. Len(s) + i
  BY StartSkips
<1>2. b \in a .. Len(s) + i /\ \A k \in a .. b - 1 : CellAt(s, k) # Nul
  BY StopEnds
<1> HIDE DEF a, b
<1>3. a \in Nat \ {0} /\ b \in Nat \ {0} /\ b >= a
  BY <1>1, <1>2
<1>4. ASSUME b = a PROVE SubSeq(s, a, b - 1) \in Seq(Cell)
  BY <1>3, <1>4
<1>5. ASSUME b > a PROVE SubSeq(s, a, b - 1) \in Seq(Cell)
  <2>1. CellAt(s, b - 1) # Nul
    BY <1>2, <1>3, <1>5
  <2>2. b - 1 \in DOMAIN s
    BY <2>1 DEF CellAt
  <2>3. QED
    BY <1>3, <2>2
<1>6. SubSeq(s, a, b - 1) \in Seq(Cell)
  BY <1>3, <1>4, <1>5
<1>7. QED
  BY <1>6 DEF a, b

\* The first token of a text that begins with a number begins with that number.
LEMMA FirstToken ==
  ASSUME NEW s \in Seq(Cell), s # <<>>, s[1] \in {"0", "1"},
         SubSeq(s, Start(s, 1, Colon), Stop(s, 1, Colon) - 1) # <<>>
  PROVE  Head(SubSeq(s, Start(s, 1, Colon), Stop(s, 1, Colon) - 1)) = s[1]
<1> DEFINE a == Start(s, 1, Colon)
           b == Stop(s, 1, Colon)
<1>1. /\ a \in 1 .. Len(s) + 1
      /\ \A k \in 1 .. a - 1 : CellAt(s, k) = Colon
  BY StartSkips DEF Delimiter
<1>2. b \in a .. Len(s) + 1
  BY StopEnds DEF Delimiter
<1>3. SubSeq(s, a, b - 1) # <<>>
  OBVIOUS
<1> HIDE DEF a, b
<1>4. CellAt(s, 1) # Colon
  BY DEF CellAt, Colon
<1>5. a = 1
  BY <1>1, <1>4
<1>6. b - 1 >= 1 /\ b - 1 <= Len(s)
  BY <1>1, <1>2, <1>3, <1>5
<1>7. Head(SubSeq(s, a, b - 1)) = s[1]
  <2> DEFINE x == SubSeq(s, 1, b - 1)
  <2>1. b - 1 \in 1 .. Len(s)
    BY <1>1, <1>2, <1>6
  <2>2. x \in Seq(Cell) /\ Len(x) = b - 1 /\ x[1] = s[1]
    BY <2>1
  <2> HIDE DEF x
  <2>3. Head(x) = x[1]
    BY <2>1, <2>2
  <2>4. QED
    BY <1>5, <2>2, <2>3 DEF x
<1>8. QED
  BY <1>7 DEF a, b

-----------------------------------------------------------------------------
(* Typing.                                                                 *)

\* What strtok remembers is a place of some text; a thread that is not parsing
\* has no call under way.
Typing ==
  /\ pc \in [Thread -> Stage]
  /\ sent \in [Thread -> 0 .. MaxRequests]
  /\ stream \in [Thread -> Seq(Cell)]
  /\ waiting \in [Thread -> Seq(Requests)]
  /\ taken \in [Thread -> Seq(Requests)]
  /\ memory \in [Thread -> Seq(Seq(Cell))]
  /\ \A t \in Thread : memory[t] # <<>>
  /\ parsed \in [Thread -> Parsed]
  /\ place # Nowhere => place \in Place /\ place.text \in DOMAIN memory[place.thread]
  /\ DOMAIN cursor = Thread
  /\ \A t \in Thread : cursor[t] # Nowhere =>
       /\ cursor[t] \in Place
       /\ cursor[t].text \in DOMAIN memory[cursor[t].thread]
       /\ pc[t] \in Calling

\* The number in front of a request is in the buffer of its thread until the
\* thread has read it, and strtok is given the beginning of that buffer.
Own ==
  \A t \in Thread :
    /\ pc[t] = "auth" =>
         /\ taken[t] # <<>>
         /\ memory[t][1] # <<>>
         /\ memory[t][1][1] = First(t).authorized
         /\ cursor[t] # Nowhere => cursor[t] = [thread |-> t, text |-> 1, at |-> 1]
    /\ parsed[t].authorized = "1" =>
         taken[t] # <<>> /\ First(t).authorized = "1"

\* The text s is that of the requests q: the line of the first, and behind it nothing,
\* or the flag of the second and what follows that.
Stands(s, q) ==
  IF q = <<>> THEN s = <<>>
  ELSE \E rest \in Seq(Cell) :
         /\ s = Line(q[1]) \o rest
         /\ Len(q) = 1 => rest = <<>>
         /\ Len(q) > 1 => Len(rest) >= 2 /\ rest[1] = q[2].authorized /\ rest[2] = Colon

\* What has arrived for a thread is what its client has sent.
Arriving == \A t \in Thread : Stands(stream[t], waiting[t])

Inv == Typing /\ Arriving /\ Own

\* Replacing one element keeps a sequence a sequence of the same length.
LEMMA Replaced ==
  ASSUME NEW S, NEW q \in Seq(S), NEW j \in DOMAIN q, NEW x \in S
  PROVE  /\ [q EXCEPT ![j] = x] \in Seq(S)
         /\ Len([q EXCEPT ![j] = x]) = Len(q)
         /\ DOMAIN [q EXCEPT ![j] = x] = DOMAIN q
<1>1. DOMAIN q = 1 .. Len(q) /\ Len(q) \in Nat
  OBVIOUS
<1>2. [q EXCEPT ![j] = x] \in [1 .. Len(q) -> S]
  BY <1>1
<1>3. QED
  BY <1>1, <1>2

\* strtok writes one NUL over a delimiter: texts stay texts of the same length,
\* and the number in front of a request is not touched.
LEMMA EndedKeeps ==
  ASSUME Typing, NEW p \in Place, p.text \in DOMAIN memory[p.thread],
         NEW d \in Delimiter
  PROVE  /\ Ended(p, d) \in [Thread -> Seq(Seq(Cell))]
         /\ \A u \in Thread : /\ Ended(p, d)[u] # <<>>
                             /\ DOMAIN Ended(p, d)[u] = DOMAIN memory[u]
         /\ \A u \in Thread :
              memory[u][1] # <<>> /\ memory[u][1][1] \in {"0", "1"} =>
                /\ Ended(p, d)[u][1] # <<>>
                /\ Ended(p, d)[u][1][1] = memory[u][1][1]
<1> DEFINE a == p.thread
           b == p.text
           s == memory[a][b]
           j == Stop(s, p.at, d)
           e == [s EXCEPT ![j] = Nul]
           m == [memory[a] EXCEPT ![b] = e]
<1>1. a \in Thread /\ b \in DOMAIN memory[a] /\ memory[a] \in Seq(Seq(Cell))
  BY DEF Place, Typing
<1>2. s \in Seq(Cell)
  BY <1>1
<1>3. CASE CellAt(s, j) # d
  BY <1>3 DEF Ended, Text, Typing
<1>4. CASE CellAt(s, j) = d
  <2>1. j \in DOMAIN s
    BY <1>4 DEF CellAt, Delimiter, Colon, Hash, Nul
  <2>2. s[j] = d
    BY <1>4, <2>1 DEF CellAt
  <2>3. Ended(p, d) = [memory EXCEPT ![a] = m]
    BY <1>4 DEF Ended, Text
  <2> HIDE DEF j
  <2>4. e \in Seq(Cell) /\ Len(e) = Len(s)
    BY <1>2, <2>1, Replaced DEF Cell
  <2> HIDE DEF e
  <2>5. m \in Seq(Seq(Cell)) /\ Len(m) = Len(memory[a]) /\ DOMAIN m = DOMAIN memory[a]
    BY <1>1, <2>4, Replaced
  <2>6. m # <<>>
    BY <1>1, <2>5 DEF Typing
  <2>7. ASSUME memory[a][1] # <<>>, memory[a][1][1] \in {"0", "1"}
        PROVE  m[1] # <<>> /\ m[1][1] = memory[a][1][1]
    <3>1. CASE b = 1
      <4>1. e # <<>>
        BY <1>2, <2>4, <2>7, <3>1
      <4>2. j # 1
        BY <2>2, <2>7, <3>1 DEF Delimiter, Colon, Hash
      <4>3. e[1] = s[1]
        BY <1>2, <2>7, <3>1, <4>2 DEF e
      <4>4. QED
        BY <1>1, <3>1, <4>1, <4>3
    <3>2. CASE b # 1
      BY <1>1, <2>7, <3>2
    <3>3. QED
      BY <3>1, <3>2
  <2> HIDE DEF m
  <2>8. QED
    BY <1>1, <2>3, <2>5, <2>6, <2>7 DEF Typing
<1>5. QED
  BY <1>3, <1>4

\* The place that is remembered after a call is one of the same text.
LEMMA BehindKeeps ==
  ASSUME NEW p \in Place, NEW d \in Delimiter, Text(p) \in Seq(Cell)
  PROVE  /\ Behind(p, d) \in Place
         /\ Behind(p, d).thread = p.thread
         /\ Behind(p, d).text = p.text
<1> DEFINE a == Start(Text(p), p.at, d)
           b == Stop(Text(p), p.at, d)
           n == Len(Text(p)) + p.at
<1>1. p.at \in Nat \ {0}
  BY DEF Place
<1>2. a \in p.at .. n
  BY <1>1, StartSkips
<1>3. b \in a .. n
  BY <1>1, StopEnds
<1>4. n \in Nat
  BY <1>1
<1> HIDE DEF a, n
<1>5. b \in Nat \ {0}
  <2> HIDE DEF b
  <2>1. QED
    BY <1>1, <1>2, <1>3, <1>4
<1>6. Behind(p, d) = [p EXCEPT !.at = IF CellAt(Text(p), b) = d THEN b + 1 ELSE b]
  BY DEF Behind
<1> HIDE DEF b
<1>7. QED
  BY <1>5, <1>6 DEF Place

-----------------------------------------------------------------------------
(* The steps.                                                              *)

\* What a step has made of memory: one NUL was stored, and perhaps thread t has
\* duplicated a content.
Stored(t, d) ==
  \/ memory' = Ended(cursor[t], d)
  \/ \E c \in Seq(Cell) : memory' = [Ended(cursor[t], d) EXCEPT ![t] = Append(@, c)]

\* Appending to a sequence that is not empty leaves its first element.
LEMMA Appended ==
  ASSUME NEW S, NEW q \in Seq(S), q # <<>>, NEW c \in S
  PROVE  /\ Append(q, c) \in Seq(S) /\ Append(q, c) # <<>>
         /\ DOMAIN q \subseteq DOMAIN Append(q, c)
         /\ Append(q, c)[1] = q[1]
<1>1. /\ Append(q, c) \in Seq(S)
      /\ Len(Append(q, c)) = Len(q) + 1
      /\ \A i \in 1 .. Len(q) : Append(q, c)[i] = q[i]
  OBVIOUS
<1>2. Len(q) \in Nat \ {0} /\ DOMAIN q = 1 .. Len(q)
  OBVIOUS
<1>3. DOMAIN Append(q, c) = 1 .. Len(q) + 1
  BY <1>1
<1>4. QED
  BY <1>1, <1>2, <1>3

\* Memory keeps its type, no text is lost, and the numbers in front stay.
LEMMA StoredKeeps ==
  ASSUME Typing, NEW t \in Thread, cursor[t] # Nowhere, NEW d \in Delimiter, Stored(t, d)
  PROVE  /\ memory' \in [Thread -> Seq(Seq(Cell))]
         /\ \A u \in Thread : memory'[u] # <<>> /\ DOMAIN memory[u] \subseteq DOMAIN memory'[u]
         /\ \A u \in Thread :
              memory[u][1] # <<>> /\ memory[u][1][1] \in {"0", "1"} =>
                memory'[u][1] # <<>> /\ memory'[u][1][1] = memory[u][1][1]
<1> DEFINE e == Ended(cursor[t], d)
<1>1. /\ e \in [Thread -> Seq(Seq(Cell))]
      /\ \A u \in Thread : e[u] # <<>> /\ DOMAIN e[u] = DOMAIN memory[u]
      /\ \A u \in Thread :
           memory[u][1] # <<>> /\ memory[u][1][1] \in {"0", "1"} =>
             e[u][1] # <<>> /\ e[u][1][1] = memory[u][1][1]
  BY EndedKeeps DEF Typing
<1>2. CASE memory' = e
  BY <1>1, <1>2
<1>3. ASSUME NEW c \in Seq(Cell), memory' = [e EXCEPT ![t] = Append(@, c)]
      PROVE  /\ memory'[t] \in Seq(Seq(Cell)) /\ memory'[t] # <<>>
             /\ DOMAIN e[t] \subseteq DOMAIN memory'[t]
             /\ memory'[t][1] = e[t][1]
             /\ memory' \in [Thread -> Seq(Seq(Cell))]
             /\ \A u \in Thread : u # t => memory'[u] = e[u]
  <2> HIDE DEF e
  <2> DEFINE q == e[t]
  <2>1. q \in Seq(Seq(Cell)) /\ q # <<>>
    BY <1>1
  <2>2. memory'[t] = Append(q, c)
    BY <1>1, <1>3
  <2>3. \A u \in Thread : u # t => memory'[u] = e[u]
    BY <1>1, <1>3
  <2> HIDE DEF q
  <2>4. /\ Append(q, c) \in Seq(Seq(Cell)) /\ Append(q, c) # <<>>
        /\ DOMAIN q \subseteq DOMAIN Append(q, c)
        /\ Append(q, c)[1] = q[1]
    BY <2>1, Appended
  <2>5. memory' \in [Thread -> Seq(Seq(Cell))]
    BY <1>1, <1>3, <2>2, <2>4
  <2>6. QED
    BY <2>2, <2>3, <2>4, <2>5 DEF q
<1> HIDE DEF e
<1>4. ASSUME NEW c \in Seq(Cell), memory' = [e EXCEPT ![t] = Append(@, c)]
      PROVE  /\ memory' \in [Thread -> Seq(Seq(Cell))]
             /\ \A u \in Thread : memory'[u] # <<>> /\ DOMAIN memory[u] \subseteq DOMAIN memory'[u]
             /\ \A u \in Thread : memory'[u][1] = e[u][1]
  BY <1>1, <1>3, <1>4
<1>5. CASE \E c \in Seq(Cell) : memory' = [e EXCEPT ![t] = Append(@, c)]
  BY <1>1, <1>4, <1>5
<1>6. QED
  BY <1>2, <1>5 DEF Stored, e

\* The first request that a thread has received is one that clients send.
LEMMA FirstIs ==
  ASSUME Typing, NEW t \in Thread, taken[t] # <<>>
  PROVE  First(t) \in Requests /\ First(t).authorized \in {"0", "1"}
<1>1. taken[t] \in Seq(Requests)
  BY DEF Typing
<1>2. First(t) \in Requests
  BY <1>1 DEF First
<1>3. QED
  BY <1>2, TokenizerAssumption DEF TokenizerAssumption, Request

\* A second half of a call keeps the invariant if it leaves a flag of its own.
LEMMA StoreKeepsInv ==
  ASSUME Inv, NEW t \in Thread, NEW d \in Delimiter, Store(t, d), Stored(t, d),
         NEW x \in Stage \ {"auth"}, pc' = [pc EXCEPT ![t] = x],
         NEW q \in Parsed, parsed' = [parsed EXCEPT ![t] = q],
         q.authorized = "1" => taken[t] # <<>> /\ First(t).authorized = "1"
  PROVE  Inv'
<1>1. /\ cursor[t] # Nowhere /\ cursor[t] \in Place
      /\ cursor[t].text \in DOMAIN memory[cursor[t].thread]
  BY DEF Store, Inv, Typing
<1>2. /\ memory' \in [Thread -> Seq(Seq(Cell))]
      /\ \A u \in Thread : memory'[u] # <<>> /\ DOMAIN memory[u] \subseteq DOMAIN memory'[u]
      /\ \A u \in Thread :
           memory[u][1] # <<>> /\ memory[u][1][1] \in {"0", "1"} =>
             memory'[u][1] # <<>> /\ memory'[u][1][1] = memory[u][1][1]
  BY <1>1, StoredKeeps DEF Inv
<1>3. Text(cursor[t]) \in Seq(Cell) /\ cursor[t].thread \in Thread
  BY <1>1 DEF Text, Place, Inv, Typing
<1>4. place' \in Place /\ place'.text \in DOMAIN memory'[place'.thread]
  BY <1>1, <1>2, <1>3, BehindKeeps DEF Store
<1>5. /\ DOMAIN cursor' = Thread /\ cursor'[t] = Nowhere
      /\ \A u \in Thread : u # t => cursor'[u] = cursor[u]
  BY DEF Store, Inv, Typing
<1>6. /\ pc' \in [Thread -> Stage] /\ pc'[t] = x
      /\ \A u \in Thread : u # t => pc'[u] = pc[u]
  BY DEF Inv, Typing
<1>7. /\ parsed' \in [Thread -> Parsed] /\ parsed'[t] = q
      /\ \A u \in Thread : u # t => parsed'[u] = parsed[u]
  BY DEF Inv, Typing
<1>8. UNCHANGED <<sent, stream, waiting, taken>>
  BY DEF Store, link
<1>9. ASSUME NEW u \in Thread, cursor'[u] # Nowhere
      PROVE  /\ cursor'[u] \in Place
             /\ cursor'[u].text \in DOMAIN memory'[cursor'[u].thread]
             /\ pc'[u] \in Calling
  BY <1>2, <1>5, <1>6, <1>9 DEF Inv, Typing, Place
<1>10. Typing'
  BY <1>2, <1>4, <1>5, <1>6, <1>7, <1>8, <1>9 DEF Inv, Typing
<1>11. ASSUME NEW u \in Thread, pc'[u] = "auth"
       PROVE  /\ taken[u] # <<>>
              /\ memory'[u][1] # <<>>
              /\ memory'[u][1][1] = First(u).authorized
              /\ cursor'[u] # Nowhere => cursor'[u] = [thread |-> u, text |-> 1, at |-> 1]
  <2>1. u # t /\ pc[u] = "auth" /\ cursor'[u] = cursor[u]
    BY <1>5, <1>6, <1>11
  <2>2. First(u).authorized \in {"0", "1"}
    BY <2>1, FirstIs DEF Inv, Own
  <2>3. QED
    BY <1>2, <2>1, <2>2 DEF Inv, Own
<1>12. Own'
  BY <1>7, <1>8, <1>11 DEF Inv, Own, First
<1>13. Arriving'
  BY <1>8 DEF Inv, Arriving
<1>14. QED
  BY <1>10, <1>12, <1>13 DEF Inv

\* A text behind another one leaves its first cell.
LEMMA Concatenated ==
  ASSUME NEW S, NEW q \in Seq(S), q # <<>>, NEW c \in Seq(S)
  PROVE  /\ q \o c \in Seq(S) /\ q \o c # <<>>
         /\ Len(q \o c) = Len(q) + Len(c)
         /\ (q \o c)[1] = q[1]
<1>1. Len(q) \in Nat \ {0} /\ Len(c) \in Nat /\ DOMAIN q = 1 .. Len(q)
  OBVIOUS
<1>2. q \o c \in Seq(S) /\ Len(q \o c) = Len(q) + Len(c)
  OBVIOUS
<1>3. \A i \in 1 .. Len(q) + Len(c) :
        (q \o c)[i] = IF i <= Len(q) THEN q[i] ELSE c[i - Len(q)]
  OBVIOUS
<1>4. QED
  BY <1>1, <1>2, <1>3

\* The elements of two sequences, one behind the other.
LEMMA ConcatenatedIs ==
  ASSUME NEW S, NEW q \in Seq(S), NEW c \in Seq(S)
  PROVE  /\ q \o c \in Seq(S) /\ Len(q \o c) = Len(q) + Len(c)
         /\ \A i \in 1 .. Len(q) + Len(c) :
              (q \o c)[i] = IF i <= Len(q) THEN q[i] ELSE c[i - Len(q)]
OBVIOUS

\* The last element of a sequence is the one appended to it.
LEMMA LastAppended ==
  ASSUME NEW S, NEW q \in Seq(S), NEW c \in S
  PROVE  /\ Append(q, c) \in Seq(S) /\ Append(q, c) # <<>>
         /\ Append(q, c)[Len(Append(q, c))] = c
<1>1. Append(q, c) \in Seq(S) /\ Len(Append(q, c)) = Len(q) + 1 /\ Len(q) \in Nat
  OBVIOUS
<1>2. Append(q, c)[Len(q) + 1] = c
  OBVIOUS
<1>3. QED
  BY <1>1, <1>2

\* A content has words and hashes only, and is not empty.
LEMMA ContentIs ==
  ASSUME NEW r \in Requests
  PROVE  /\ Content(r) \in Seq(Cell) /\ Len(Content(r)) \in Nat \ {0}
         /\ r.fields \in Seq(Word) /\ Len(r.fields) \in Nat \ {0}
         /\ \A k \in 1 .. Len(Content(r)) : Content(r)[k] \in Cell \ {Colon, Nul}
         /\ r.command = "Get_Users_Count" => Content(r) = r.fields /\ Len(r.fields) = 1
         /\ r.command # "Get_Users_Count" =>
              /\ Len(Content(r)) = 2 * Len(r.fields)
              /\ \A i \in 1 .. Len(r.fields) :
                   Content(r)[2 * i - 1] = r.fields[i] /\ Content(r)[2 * i] = Hash
<1> DEFINE f == r.fields
           n == Len(f)
<1>1. /\ f \in Seq(Word) /\ f # <<>> /\ (r.command = "Get_Users_Count" => n = 1)
      /\ {Colon, Hash, Nul} \cap Word = {}
  BY TokenizerAssumption DEF TokenizerAssumption, Request
<1>2. n \in Nat \ {0} /\ \A k \in 1 .. n : f[k] \in Word
  BY <1>1
<1>3. Word \subseteq Cell \ {Colon, Nul} /\ Hash \in Cell \ {Colon, Nul}
  BY <1>1 DEF Cell, Colon, Hash, Nul
<1>4. CASE r.command = "Get_Users_Count"
  <2>1. Content(r) = f
    BY <1>4 DEF Content
  <2>2. f \in Seq(Cell)
    BY <1>1, <1>3
  <2>3. QED
    BY <1>1, <1>2, <1>3, <1>4, <2>1, <2>2
<1>5. CASE r.command # "Get_Users_Count"
  <2> DEFINE m == 2 * n
             c == [i \in 1 .. m |-> IF i % 2 = 1 THEN f[(i + 1) \div 2] ELSE Hash]
  <2>1. Content(r) = c
    BY <1>5 DEF Content
  <2> HIDE DEF f, n
  <2>2. \A i \in 1 .. m : i % 2 = 1 => (i + 1) \div 2 \in 1 .. n
    BY <1>2
  <2>3. \A i \in 1 .. m : c[i] \in Cell \ {Colon, Nul}
    BY <1>2, <1>3, <2>2
  <2>4. \A i \in 1 .. n : /\ 2 * i - 1 \in 1 .. m /\ 2 * i \in 1 .. m
                          /\ (2 * i - 1) % 2 = 1 /\ (2 * i) % 2 # 1
                          /\ (2 * i - 1 + 1) \div 2 = i
    BY <1>2
  <2>5. \A i \in 1 .. n : c[2 * i - 1] = f[i] /\ c[2 * i] = Hash
    BY <2>4
  <2>6. m \in Nat \ {0}
    BY <1>2
  <2> HIDE DEF m
  <2>7. c \in [1 .. m -> Cell]
    BY <2>3
  <2>8. c \in Seq(Cell) /\ Len(c) = m
    BY <2>6, <2>7
  <2> HIDE DEF c
  <2>9. QED
    BY <1>1, <1>2, <1>5, <2>1, <2>3, <2>5, <2>6, <2>8 DEF f, n, m
<1>6. QED
  BY <1>4, <1>5

\* What a client sends, cell by cell.
LEMMA LineIs ==
  ASSUME NEW r \in Requests
  PROVE  /\ Line(r) \in Seq(Cell) /\ Len(Line(r)) = 4 + Len(Content(r))
         /\ Line(r)[1] = r.authorized /\ Line(r)[2] = Colon
         /\ Line(r)[3] = r.command /\ Line(r)[4] = Colon
         /\ \A k \in 1 .. Len(Content(r)) : Line(r)[4 + k] = Content(r)[k]
<1> DEFINE h == <<r.authorized, Colon, r.command, Colon>>
           c == Content(r)
           n == Len(c)
<1>1. r.authorized \in {"0", "1"} /\ r.command \in Command
  BY TokenizerAssumption DEF TokenizerAssumption, Request
<1>2. /\ h \in Seq(Cell) /\ Len(h) = 4
      /\ h[1] = r.authorized /\ h[2] = Colon /\ h[3] = r.command /\ h[4] = Colon
  BY <1>1 DEF Cell
<1>3. c \in Seq(Cell) /\ n \in Nat \ {0}
  BY ContentIs
<1> HIDE DEF h, c
<1>4. /\ h \o c \in Seq(Cell) /\ Len(h \o c) = 4 + n
      /\ \A i \in 1 .. 4 + n : (h \o c)[i] = IF i <= 4 THEN h[i] ELSE c[i - 4]
  <2>1. /\ h \o c \in Seq(Cell) /\ Len(h \o c) = Len(h) + Len(c)
        /\ \A i \in 1 .. Len(h) + Len(c) :
             (h \o c)[i] = IF i <= Len(h) THEN h[i] ELSE c[i - Len(h)]
    BY <1>2, <1>3, ConcatenatedIs
  <2>2. Len(h) = 4 /\ Len(c) = n
    BY <1>2
  <2>3. QED
    BY <2>1, <2>2, Zenon
<1> DEFINE x == h \o c
<1>5. /\ x \in Seq(Cell) /\ Len(x) = 4 + n
      /\ \A i \in 1 .. 4 + n : x[i] = IF i <= 4 THEN h[i] ELSE c[i - 4]
  BY <1>4
<1> HIDE DEF x, n
<1>6. x[1] = h[1] /\ x[2] = h[2] /\ x[3] = h[3] /\ x[4] = h[4]
  BY <1>3, <1>5
<1>7. \A k \in 1 .. n : x[4 + k] = c[k]
  BY <1>3, <1>5
<1>8. QED
  BY <1>2, <1>5, <1>6, <1>7 DEF Line, x, h, c, n

\* A request that arrives behind others leaves what stands there.
LEMMA Arrives ==
  ASSUME NEW s \in Seq(Cell), NEW q \in Seq(Requests), Stands(s, q), NEW r \in Requests
  PROVE  /\ s \o Line(r) \in Seq(Cell) /\ Append(q, r) \in Seq(Requests)
         /\ Stands(s \o Line(r), Append(q, r))
<1> DEFINE l == Line(r)
           a == Append(q, r)
<1>1. l \in Seq(Cell) /\ Len(l) \in Nat /\ Len(l) > 4 /\ l[1] = r.authorized /\ l[2] = Colon
  BY LineIs, ContentIs
<1>2. a \in Seq(Requests) /\ Len(a) = Len(q) + 1 /\ a[Len(q) + 1] = r /\ Len(q) \in Nat
      /\ a # <<>> /\ \A i \in 1 .. Len(q) : a[i] = q[i]
  BY LastAppended
<1> HIDE DEF l, a
<1>3. s \o l \in Seq(Cell)
  BY <1>1
<1>4. CASE q = <<>>
  <2>1. s = <<>> /\ Len(a) = 1 /\ a[1] = r
    BY <1>2, <1>4 DEF Stands
  <2>2. s \o l = l /\ l = l \o <<>> /\ <<>> \in Seq(Cell)
    BY <1>1, <2>1
  <2>3. QED
    BY <1>2, <1>3, <2>1, <2>2 DEF Stands, l, a
<1>5. CASE q # <<>>
  <2>1. PICK rest \in Seq(Cell) :
          /\ s = Line(q[1]) \o rest
          /\ Len(q) = 1 => rest = <<>>
          /\ Len(q) > 1 => Len(rest) >= 2 /\ rest[1] = q[2].authorized /\ rest[2] = Colon
    BY <1>5 DEF Stands
  <2>2. /\ q[1] \in Requests /\ a[1] = q[1] /\ Len(a) > 1 /\ Len(a) # 1
        /\ (Len(q) = 1 \/ Len(q) > 1)
    <3> DEFINE n == Len(q)
    <3>1. n \in Nat \ {0} /\ q[1] \in Requests /\ 1 \in 1 .. n
      BY <1>5
    <3> HIDE DEF n
    <3>2. Len(a) = n + 1 /\ a[1] = q[1]
      BY <1>2, <3>1 DEF n
    <3>3. n = 1 \/ n > 1
      BY <3>1
    <3>4. QED
      BY <3>1, <3>2, <3>3 DEF n
  <2> DEFINE f == Line(q[1])
             more == rest \o l
  <2>3. f \in Seq(Cell)
    BY <2>2, LineIs
  <2> HIDE DEF f
  <2>4. /\ more \in Seq(Cell) /\ Len(more) = Len(rest) + Len(l) /\ Len(rest) \in Nat
        /\ \A i \in 1 .. Len(rest) + Len(l) :
             more[i] = IF i <= Len(rest) THEN rest[i] ELSE l[i - Len(rest)]
    BY <1>1, ConcatenatedIs
  <2>5. s \o l = f \o more
    BY <1>1, <2>1, <2>3, ConcatAssociative DEF f
  <2> HIDE DEF more
  <2>6. Len(more) >= 2 /\ more[1] = a[2].authorized /\ more[2] = Colon
    <3>1. CASE Len(q) = 1
      <4>1. Len(rest) = 0 /\ a[2] = r
        BY <1>2, <2>1, <3>1
      <4>2. QED
        BY <1>1, <2>4, <4>1
    <3>2. CASE Len(q) > 1
      <4>1. a[2] = q[2]
        BY <1>2, <3>2
      <4>2. Len(rest) >= 2 /\ rest[1] = q[2].authorized /\ rest[2] = Colon
        BY <2>1, <3>2
      <4>3. more[1] = rest[1] /\ more[2] = rest[2] /\ Len(more) >= 2
        BY <1>1, <2>4, <4>2
      <4>4. QED
        BY <4>1, <4>2, <4>3
    <3>3. QED
      BY <2>2, <3>1, <3>2
  <2>7. Stands(s \o l, a)
    <3>1. s \o l = Line(a[1]) \o more
      BY <2>2, <2>5 DEF f
    <3>2. more \in Seq(Cell) /\ Len(a) # 1
      BY <2>2, <2>4
    <3>3. QED
      BY <1>2, <2>6, <3>1, <3>2 DEF Stands
  <2>8. QED
    BY <1>2, <1>3, <2>7 DEF l, a
<1>6. QED
  BY <1>4, <1>5

\* What has arrived begins with the number of the first request.
LEMMA StandsFirst ==
  ASSUME NEW s \in Seq(Cell), NEW q \in Seq(Requests), Stands(s, q), s # <<>>
  PROVE  q # <<>> /\ Len(s) \in Nat \ {0} /\ s[1] = q[1].authorized
<1>1. q # <<>>
  BY DEF Stands
<1>2. PICK rest \in Seq(Cell) : s = Line(q[1]) \o rest
  BY <1>1 DEF Stands
<1> DEFINE f == Line(q[1])
<1>3. q[1] \in Requests
  BY <1>1
<1>4. f \in Seq(Cell) /\ Len(f) \in Nat \ {0} /\ f[1] = q[1].authorized
  BY <1>3, LineIs, ContentIs
<1> HIDE DEF f
<1>5. f # <<>> /\ s = f \o rest
  BY <1>2, <1>4 DEF f
<1>6. s[1] = f[1]
  BY <1>4, <1>5, Concatenated
<1>7. QED
  BY <1>1, <1>4, <1>6

\* recv() puts it in front of what the buffer held.
LEMMA ReceivedIsText ==
  ASSUME NEW old \in Seq(Cell), NEW new \in Seq(Cell), Len(new) \in Nat \ {0}
  PROVE  Received(old, new) \in Seq(Cell) /\ Received(old, new) # <<>>
         /\ Received(old, new)[1] = new[1]
<1> DEFINE tail == SubSeq(old, Len(new) + 2, Len(old))
           front == new \o <<Nul>>
<1>1. tail \in Seq(Cell)
  <2>1. CASE Len(new) + 2 > Len(old)
    BY <2>1
  <2>2. CASE Len(new) + 2 <= Len(old)
    <3>1. \A i \in Len(new) + 2 .. Len(old) : old[i] \in Cell
      OBVIOUS
    <3>2. QED
      BY <2>2, <3>1
  <2>3. QED
    BY <2>1, <2>2
<1>2. Nul \in Cell
  BY DEF Cell
<1>3. new # <<>> /\ <<Nul>> \in Seq(Cell)
  BY <1>2
<1>4. front \in Seq(Cell) /\ front # <<>> /\ front[1] = new[1]
  BY <1>3, Concatenated
<1> HIDE DEF tail, front
<1>5. front \o tail \in Seq(Cell) /\ front \o tail # <<>> /\ (front \o tail)[1] = front[1]
  BY <1>1, <1>4, Concatenated
<1>6. Received(old, new) = front \o tail
  BY DEF Received, front, tail
<1>7. QED
  BY <1>4, <1>5, <1>6

\* Giving a thread another text in its buffer leaves everything else.
LEMMA BufferReplaced ==
  ASSUME Typing, NEW t \in Thread, NEW x \in Seq(Cell), memory' = [memory EXCEPT ![t][1] = x]
  PROVE  /\ memory' \in [Thread -> Seq(Seq(Cell))]
         /\ \A u \in Thread : memory'[u] # <<>> /\ DOMAIN memory'[u] = DOMAIN memory[u]
         /\ memory'[t][1] = x
         /\ \A u \in Thread : u # t => memory'[u] = memory[u]
<1> DEFINE q == memory[t]
           e == [q EXCEPT ![1] = x]
<1>1. q \in Seq(Seq(Cell)) /\ q # <<>> /\ 1 \in DOMAIN q
  BY DEF Typing
<1>2. memory' = [memory EXCEPT ![t] = e]
  OBVIOUS
<1> HIDE DEF q
<1>3. e \in Seq(Seq(Cell)) /\ DOMAIN e = DOMAIN q /\ e[1] = x /\ e # <<>>
  BY <1>1, Replaced
<1> HIDE DEF e
<1>4. QED
  BY <1>2, <1>3 DEF Typing, q

\* A request is sent: the threads do not notice.
LEMMA SendKeepsInv ==
  ASSUME Inv, NEW t \in Thread, NEW r \in Requests, Send(t, r)
  PROVE  Inv'
<1> DEFINE s == stream[t]
           q == waiting[t]
           x == s \o Line(r)
           a == Append(q, r)
<1>1. s \in Seq(Cell) /\ q \in Seq(Requests) /\ Stands(s, q)
  BY DEF Inv, Typing, Arriving
<1>2. stream' = [stream EXCEPT ![t] = x] /\ waiting' = [waiting EXCEPT ![t] = a]
      /\ sent' = [sent EXCEPT ![t] = @ + 1] /\ sent[t] < MaxRequests
      /\ UNCHANGED <<pc, taken, memory, parsed, place, cursor>>
  BY DEF Send
<1> HIDE DEF s, q
<1>3. x \in Seq(Cell) /\ a \in Seq(Requests) /\ Stands(x, a)
  BY <1>1, Arrives
<1> HIDE DEF x, a
<1>4. sent' \in [Thread -> 0 .. MaxRequests]
  <2>1. sent \in [Thread -> 0 .. MaxRequests] /\ MaxRequests \in Nat
    BY TokenizerAssumption DEF Inv, Typing, TokenizerAssumption
  <2>2. QED
    BY <1>2, <2>1
<1>5. Typing'
  BY <1>2, <1>3, <1>4 DEF Inv, Typing
<1>6. Arriving'
  BY <1>2, <1>3 DEF Inv, Typing, Arriving
<1>7. Own'
  BY <1>2 DEF Inv, Own, First
<1>8. QED
  BY <1>5, <1>6, <1>7 DEF Inv

\* What has arrived replaces the beginning of the buffer by its number, and the flag of
\* the request before is forgotten.
LEMMA ReceiveKeepsInv ==
  ASSUME Inv, NEW t \in Thread, Receive(t)
  PROVE  Inv'
<1> DEFINE x == Received(memory[t][1], stream[t])
<1>1. /\ stream[t] \in Seq(Cell) /\ waiting[t] \in Seq(Requests) /\ stream[t] # <<>>
      /\ Stands(stream[t], waiting[t]) /\ memory[t][1] \in Seq(Cell)
  BY DEF Receive, Inv, Typing, Arriving
<1>2. x \in Seq(Cell) /\ x # <<>> /\ x[1] = waiting[t][1].authorized /\ waiting[t] # <<>>
  <2>1. /\ waiting[t] # <<>> /\ Len(stream[t]) \in Nat \ {0}
        /\ stream[t][1] = waiting[t][1].authorized
    BY <1>1, StandsFirst
  <2>2. QED
    BY <1>1, <2>1, ReceivedIsText
<1>3. memory' = [memory EXCEPT ![t][1] = x]
  BY DEF Receive
<1> HIDE DEF x
<1>4. /\ memory' \in [Thread -> Seq(Seq(Cell))]
      /\ \A u \in Thread : memory'[u] # <<>> /\ DOMAIN memory'[u] = DOMAIN memory[u]
      /\ memory'[t][1] = x
      /\ \A u \in Thread : u # t => memory'[u] = memory[u]
  BY <1>2, <1>3, BufferReplaced DEF Inv
<1>5. Nothing \in Parsed /\ Nothing.authorized # "1"
  BY DEF Nothing, Parsed
<1>6. /\ sent' = sent
      /\ stream' = [stream EXCEPT ![t] = <<>>] /\ waiting' = [waiting EXCEPT ![t] = <<>>]
      /\ taken' = [taken EXCEPT ![t] = waiting[t]]
  BY DEF Receive
<1>7. /\ parsed' \in [Thread -> Parsed] /\ parsed'[t] = Nothing
      /\ \A u \in Thread : u # t => parsed'[u] = parsed[u]
  BY <1>5 DEF Receive, Inv, Typing
<1>8. /\ pc' \in [Thread -> Stage]
      /\ \A u \in Thread : u # t => pc'[u] = pc[u]
  BY DEF Receive, Inv, Typing, Stage, Calling
<1>9. cursor' = cursor /\ cursor[t] = Nowhere /\ place' = place
  BY DEF Receive, Inv, Typing, Calling
<1>10. /\ stream' \in [Thread -> Seq(Cell)] /\ waiting' \in [Thread -> Seq(Requests)]
       /\ taken' \in [Thread -> Seq(Requests)] /\ taken'[t] = waiting[t]
       /\ \A u \in Thread : u # t => taken'[u] = taken[u]
       /\ stream'[t] = <<>> /\ waiting'[t] = <<>>
       /\ \A u \in Thread : u # t => stream'[u] = stream[u] /\ waiting'[u] = waiting[u]
  BY <1>1, <1>6 DEF Inv, Typing
<1>11. Typing'
  BY <1>4, <1>6, <1>7, <1>8, <1>9, <1>10 DEF Inv, Typing, Place
<1>12. Arriving'
  <2>1. ASSUME NEW u \in Thread PROVE Stands(stream'[u], waiting'[u])
    <3>1. CASE u = t
      BY <1>10, <3>1 DEF Stands
    <3>2. CASE u # t
      <4>1. Stands(stream[u], waiting[u])
        BY DEF Inv, Arriving
      <4>2. QED
        BY <1>10, <3>2, <4>1
    <3>3. QED
      BY <3>1, <3>2
  <2>2. QED
    BY <2>1 DEF Arriving
<1>13. ASSUME NEW u \in Thread, u # t
       PROVE  /\ taken'[u] = taken[u] /\ memory'[u] = memory[u] /\ parsed'[u] = parsed[u]
              /\ pc'[u] = pc[u] /\ cursor'[u] = cursor[u]
  BY <1>4, <1>7, <1>8, <1>9, <1>10, <1>13
<1>14. /\ taken'[t] # <<>> /\ memory'[t][1] # <<>>
       /\ memory'[t][1][1] = taken'[t][1].authorized
       /\ cursor'[t] = Nowhere /\ parsed'[t].authorized # "1"
  BY <1>2, <1>4, <1>5, <1>7, <1>9, <1>10
<1> HIDE DEF Inv
<1>15. Own
  BY DEF Inv
<1>16. Own'
  BY <1>13, <1>14, <1>15, Zenon DEF Own, First
<1>17. QED
  BY <1>11, <1>12, <1>16 DEF Inv

\* The buffer of an answered request is read no more.
LEMMA AnswerKeepsInv ==
  ASSUME Inv, NEW t \in Thread, Answer(t)
  PROVE  Inv'
<1> DEFINE s == memory[t][1]
           x == Cleared(s)
<1>1. x \in Seq(Cell)
  <2>1. s \in Seq(Cell) /\ Nul \in Cell
    BY DEF Inv, Typing, Cell
  <2> HIDE DEF s
  <2>2. DOMAIN s = 1 .. Len(s) /\ Len(s) \in Nat /\ \A i \in 1 .. Len(s) : s[i] \in Cell
    BY <2>1
  <2>3. x \in [1 .. Len(s) -> Cell]
    BY <2>1, <2>2 DEF Cleared
  <2>4. QED
    BY <2>2, <2>3
<1>2. memory' = [memory EXCEPT ![t][1] = x]
  BY DEF Answer
<1> HIDE DEF x
<1>3. /\ memory' \in [Thread -> Seq(Seq(Cell))]
      /\ \A u \in Thread : memory'[u] # <<>> /\ DOMAIN memory'[u] = DOMAIN memory[u]
      /\ \A u \in Thread : u # t => memory'[u] = memory[u]
  BY <1>1, <1>2, BufferReplaced DEF Inv
<1>4. /\ pc' \in [Thread -> Stage] /\ pc'[t] = "recv"
      /\ \A u \in Thread : u # t => pc'[u] = pc[u]
  BY DEF Answer, Inv, Typing, Stage
<1>5. /\ UNCHANGED <<sent, stream, waiting, taken, parsed, place, cursor>>
      /\ cursor[t] = Nowhere
  BY DEF Answer, Inv, Typing, Calling, link
<1>6. Typing'
  BY <1>3, <1>4, <1>5 DEF Inv, Typing, Place
<1>7. Own'
  BY <1>3, <1>4, <1>5 DEF Inv, Own, First
<1>8. Arriving'
  BY <1>5 DEF Inv, Arriving
<1>9. QED
  BY <1>6, <1>7, <1>8 DEF Inv

\* The first call is given the beginning of the thread's own buffer.
LEMMA LoadKeepsInv ==
  ASSUME Inv, NEW t \in Thread, Load(t)
  PROVE  Inv'
<1>1. /\ UNCHANGED <<pc, sent, stream, waiting, taken, memory, parsed, place>>
      /\ pc[t] \in Calling /\ DOMAIN cursor' = Thread
      /\ \A u \in Thread : u # t => cursor'[u] = cursor[u]
  BY DEF Load, Inv, Typing, link
<1>2. memory[t] \in Seq(Seq(Cell)) /\ memory[t] # <<>>
  BY DEF Inv, Typing
<1>3. Len(memory[t]) \in Nat \ {0} /\ 1 \in DOMAIN memory[t]
      /\ Len(memory[t]) \in DOMAIN memory[t]
  BY <1>2
<1>4. pc[t] = "auth" => cursor'[t] = [thread |-> t, text |-> 1, at |-> 1]
  BY DEF Load, Inv, Typing
<1>5. cursor'[t] # Nowhere =>
        cursor'[t] \in Place /\ cursor'[t].text \in DOMAIN memory[cursor'[t].thread]
  <2>1. CASE pc[t] = "auth"
    BY <1>3, <1>4, <2>1 DEF Place
  <2>2. CASE pc[t] = "first"
    <3>1. cursor'[t] = [thread |-> t, text |-> Len(memory[t]), at |-> 1]
      BY <2>2 DEF Load, Inv, Typing
    <3>2. QED
      BY <1>3, <3>1 DEF Place
  <2>3. CASE pc[t] \notin {"auth", "first"}
    <3>1. cursor'[t] = place
      BY <2>3 DEF Load, Inv, Typing
    <3>2. QED
      BY <3>1 DEF Inv, Typing
  <2>4. QED
    BY <2>1, <2>2, <2>3
<1>6. Typing'
  BY <1>1, <1>5 DEF Inv, Typing
<1>7. Own'
  BY <1>1, <1>4 DEF Inv, Own, First
<1>8. Arriving'
  BY <1>1 DEF Inv, Arriving
<1>9. QED
  BY <1>6, <1>7, <1>8 DEF Inv

\* The number is read where the client put it.
LEMMA AuthorizedKeepsInv ==
  ASSUME Inv, NEW t \in Thread, ParseAuthorized(t)
  PROVE  Inv'
<1> DEFINE token == Token(cursor[t], Colon)
<1>1. /\ Store(t, Colon) /\ Stored(t, Colon) /\ Colon \in Delimiter
      /\ pc[t] = "auth" /\ cursor[t] # Nowhere
  BY DEF ParseAuthorized, Store, Stored, Delimiter
<1>2. parsed \in [Thread -> Parsed] /\ parsed[t] \in Parsed
  BY DEF Inv, Typing
<1>3. CASE token = <<>>
  <2>1. pc' = [pc EXCEPT ![t] = "done"] /\ parsed' = [parsed EXCEPT ![t] = parsed[t]]
    BY <1>2, <1>3 DEF ParseAuthorized
  <2>2. parsed[t].authorized = "1" => taken[t] # <<>> /\ First(t).authorized = "1"
    BY DEF Inv, Own
  <2>3. QED
    BY <1>1, <1>2, <2>1, <2>2, StoreKeepsInv DEF Stage
<1>4. CASE token # <<>>
  <2> DEFINE q == [parsed[t] EXCEPT !.authorized = Atoi(token)]
  <2>1. pc' = [pc EXCEPT ![t] = "command"] /\ parsed' = [parsed EXCEPT ![t] = q]
    BY <1>4 DEF ParseAuthorized
  <2>2. q \in Parsed /\ q.authorized = Atoi(token)
    BY <1>2 DEF Atoi, Parsed
  <2>3. /\ taken[t] # <<>> /\ memory[t][1] # <<>>
        /\ memory[t][1][1] = First(t).authorized
        /\ cursor[t] = [thread |-> t, text |-> 1, at |-> 1]
    BY <1>1 DEF Inv, Own
  <2>4. memory[t][1] \in Seq(Cell)
    BY DEF Inv, Typing
  <2>5. First(t).authorized \in {"0", "1"}
    BY <2>3, FirstIs DEF Inv
  <2>6. Head(token) = memory[t][1][1]
    <3> DEFINE s == memory[t][1]
    <3>1. token = SubSeq(s, Start(s, 1, Colon), Stop(s, 1, Colon) - 1)
      <4>1. cursor[t].thread = t /\ cursor[t].text = 1 /\ cursor[t].at = 1
        BY <2>3
      <4>2. Text(cursor[t]) = s
        BY <4>1 DEF Text
      <4> HIDE DEF s
      <4>3. QED
        BY <4>1, <4>2 DEF Token
    <3>2. s \in Seq(Cell) /\ s # <<>> /\ s[1] \in {"0", "1"} /\ token # <<>>
      BY <1>4, <2>3, <2>4, <2>5
    <3> HIDE DEF s, token
    <3>3. QED
      BY <3>1, <3>2, FirstToken DEF s
  <2> HIDE DEF token
  <2>7. q.authorized = "1" => taken[t] # <<>> /\ First(t).authorized = "1"
    BY <2>2, <2>3, <2>6 DEF Atoi
  <2> HIDE DEF q
  <2>8. QED
    BY <1>1, <2>1, <2>2, <2>7, StoreKeepsInv DEF Stage, Calling
<1>5. QED
  BY <1>3, <1>4

\* The rest of a request never sets the flag.
LEMMA RestKeepsInv ==
  ASSUME Inv, NEW t \in Thread, ParseCommand(t) \/ Dispatch(t) \/ ParseField(t)
  PROVE  Inv'
<1> DEFINE p == parsed[t]
<1>1. p \in Parsed /\ parsed \in [Thread -> Parsed]
      /\ (p.authorized = "1" => taken[t] # <<>> /\ First(t).authorized = "1")
  BY DEF Inv, Typing, Own
<1>2. \A d \in Delimiter : Store(t, d) => Token(cursor[t], d) \in Seq(Cell)
  <2> SUFFICES ASSUME NEW d \in Delimiter, Store(t, d) PROVE Token(cursor[t], d) \in Seq(Cell)
    OBVIOUS
  <2>1. cursor[t] \in Place /\ Text(cursor[t]) \in Seq(Cell)
    BY DEF Store, Text, Inv, Typing, Place
  <2>2. cursor[t].at \in Nat \ {0}
    BY <2>1 DEF Place
  <2>3. QED
    BY <2>1, <2>2, TokenCells DEF Token
<1>3. CASE ParseCommand(t)
  <2> DEFINE token == Token(cursor[t], Colon)
  <2>1. Store(t, Colon) /\ Stored(t, Colon) /\ Colon \in Delimiter
    BY <1>3 DEF ParseCommand, Stored, Delimiter
  <2>2. token \in Seq(Cell)
    BY <1>2, <2>1
  <2>3. \/ /\ pc' = [pc EXCEPT ![t] = "done"]
           /\ parsed' = [parsed EXCEPT ![t] = [p EXCEPT !.authorized = "0"]]
        \/ /\ pc' = [pc EXCEPT ![t] = "content"]
           /\ parsed' = [parsed EXCEPT ![t] = [p EXCEPT !.command = token]]
    BY <1>3 DEF ParseCommand
  <2> HIDE DEF token
  <2>4. [p EXCEPT !.authorized = "0"] \in Parsed /\ [p EXCEPT !.command = token] \in Parsed
        /\ [p EXCEPT !.authorized = "0"].authorized = "0"
        /\ [p EXCEPT !.command = token].authorized = p.authorized
    BY <1>1, <2>2 DEF Parsed
  <2> HIDE DEF p
  <2>5. QED
    BY <1>1, <2>1, <2>3, <2>4, StoreKeepsInv DEF Stage, Calling
<1>4. CASE Dispatch(t)
  <2> DEFINE token == Token(cursor[t], Colon)
             hashes == Cardinality({i \in DOMAIN token : token[i] = Hash})
  <2>1. Store(t, Colon) /\ Colon \in Delimiter
    BY <1>4 DEF Dispatch, ContentEnd, Delimiter
  <2>2. token \in Seq(Cell) /\ <<token>> \in Seq(Seq(Cell)) /\ hashes \in Nat
    <3>1. token \in Seq(Cell)
      BY <1>2, <2>1
    <3> HIDE DEF token
    <3>2. IsFiniteSet(1 .. Len(token))
      BY <3>1, FS_Interval
    <3>3. IsFiniteSet({i \in DOMAIN token : token[i] = Hash})
      BY <3>1, <3>2, FS_Subset
    <3>4. QED
      BY <3>1, <3>3, FS_CardinalityType
  <2>3. Stored(t, Colon)
    <3>1. CASE token = <<>>
      BY <1>4, <3>1 DEF Dispatch, ContentEnd, Stored
    <3>2. CASE token # <<>>
      <4>1. Append(token, Nul) \in Seq(Cell)
        <5> HIDE DEF token
        <5>1. QED
          BY <2>2 DEF Cell
      <4>2. QED
        BY <1>4, <3>2, <4>1 DEF Dispatch, ContentEnd, Stored
    <3>3. QED
      BY <3>1, <3>2
  <2>4. \E x \in {"first", "done"} :
          /\ pc' = [pc EXCEPT ![t] = x]
          /\ \E q \in {Nothing, [p EXCEPT !.inputs = hashes],
                       [p EXCEPT !.inputs = 1, !.fields = <<token>>], p} :
               parsed' = [parsed EXCEPT ![t] = q]
    BY <1>1, <1>4 DEF Dispatch, ContentEnd
  <2> HIDE DEF token, hashes
  <2>5. /\ Nothing \in Parsed /\ Nothing.authorized = "0"
        /\ [p EXCEPT !.inputs = hashes] \in Parsed
        /\ [p EXCEPT !.inputs = hashes].authorized = p.authorized
        /\ [p EXCEPT !.inputs = 1, !.fields = <<token>>] \in Parsed
        /\ [p EXCEPT !.inputs = 1, !.fields = <<token>>].authorized = p.authorized
    <3> DEFINE f == <<token>>
    <3>1. f \in Seq(Seq(Cell))
      BY <2>2
    <3> HIDE DEF f, p
    <3>2. Nothing \in Parsed /\ Nothing.authorized = "0"
      BY DEF Parsed, Nothing
    <3>3. [p EXCEPT !.inputs = hashes] \in Parsed
          /\ [p EXCEPT !.inputs = hashes].authorized = p.authorized
      BY <1>1, <2>2 DEF Parsed
    <3>4. [p EXCEPT !.inputs = 1, !.fields = f] \in Parsed
          /\ [p EXCEPT !.inputs = 1, !.fields = f].authorized = p.authorized
      BY <1>1, <3>1 DEF Parsed
    <3>5. QED
      BY <3>2, <3>3, <3>4 DEF f
  <2> HIDE DEF p
  <2>6. PICK x \in {"first", "done"} : pc' = [pc EXCEPT ![t] = x]
    BY <2>4
  <2>7. PICK q \in Parsed : /\ parsed' = [parsed EXCEPT ![t] = q]
                            /\ q.authorized \in {"0", p.authorized}
    BY <1>1, <2>4, <2>5
  <2>8. QED
    BY <1>1, <2>1, <2>3, <2>6, <2>7, StoreKeepsInv DEF Stage, Calling
<1>5. CASE ParseField(t)
  <2> DEFINE token == Token(cursor[t], Hash)
  <2>1. Store(t, Hash) /\ Stored(t, Hash) /\ Hash \in Delimiter
    BY <1>5 DEF ParseField, Stored, Delimiter
  <2>2. token \in Seq(Cell)
    BY <1>2, <2>1
  <2>3. \E x \in {"next", "done"} :
          /\ pc' = [pc EXCEPT ![t] = x]
          /\ \E q \in {p, [p EXCEPT !.fields = Append(@, token)]} :
               parsed' = [parsed EXCEPT ![t] = q]
    BY <1>1, <1>5 DEF ParseField
  <2> HIDE DEF token
  <2>4. [p EXCEPT !.fields = Append(@, token)] \in Parsed
        /\ [p EXCEPT !.fields = Append(@, token)].authorized = p.authorized
    <3> DEFINE f == p.fields
               e == Append(f, token)
    <3>1. f \in Seq(Seq(Cell))
      BY <1>1 DEF Parsed
    <3> HIDE DEF f
    <3>2. e \in Seq(Seq(Cell))
      BY <2>2, <3>1, LastAppended
    <3> HIDE DEF e, p
    <3>3. [p EXCEPT !.fields = e] \in Parsed /\ [p EXCEPT !.fields = e].authorized = p.authorized
      BY <1>1, <3>2 DEF Parsed
    <3>4. QED
      BY <3>3 DEF e, f
  <2> HIDE DEF p
  <2>5. PICK x \in {"next", "done"} : pc' = [pc EXCEPT ![t] = x]
    BY <2>3
  <2>6. PICK q \in Parsed : /\ parsed' = [parsed EXCEPT ![t] = q]
                            /\ q.authorized = p.authorized
    BY <1>1, <2>3, <2>4
  <2>7. QED
    BY <1>1, <2>1, <2>5, <2>6, StoreKeepsInv DEF Stage, Calling
<1>6. QED
  BY <1>3, <1>4, <1>5

\* The state that the server starts in.
LEMMA InitHasInv == Init => Inv
<1> SUFFICES ASSUME Init PROVE Inv
  OBVIOUS
<1>1. Nothing \in Parsed /\ Nothing.authorized = "0"
  BY DEF Nothing, Parsed
<1>2. << <<>> >> \in Seq(Seq(Cell)) /\ << <<>> >> # <<>>
  OBVIOUS
<1>3. QED
  BY <1>1, <1>2, TokenizerAssumption
  DEF Init, Inv, Typing, Arriving, Stands, Own, Stage, TokenizerAssumption

\* No step disturbs the invariant.
LEMMA NextInv == Inv /\ [Next]_vars => Inv'
<1> SUFFICES ASSUME Inv, [Next]_vars PROVE Inv'
  OBVIOUS
<1>1. CASE UNCHANGED vars
  BY <1>1 DEF vars, link, Inv, Typing, Arriving, Own, First
<1>2. CASE Next
  BY <1>2, SendKeepsInv, ReceiveKeepsInv, AnswerKeepsInv, LoadKeepsInv, AuthorizedKeepsInv, RestKeepsInv
  DEF Next
<1>3. QED
  BY <1>1, <1>2

\* In no interleaving of any number of threads, with any requests, does the
\* authorized flag of one client come from the request of another.
THEOREM FlagIsOwn == Spec => []AuthorizationIsOwn
<1>1. Inv => AuthorizationIsOwn
  BY DEF Inv, Own, AuthorizationIsOwn
<1>2. QED
  BY InitHasInv, NextInv, <1>1, PTL DEF Spec

-----------------------------------------------------------------------------
(* Every text ends with a NUL, so no call leaves the text it walks through. *)

\* A text ends with a NUL.
Ends(s) == s # <<>> => s[Len(s)] = Nul

\* The places that strtok or a call of it remembers.
Remembered == {place} \cup {cursor[t] : t \in Thread}

\* Every text ends with a NUL, none that is parsed is empty, and no place is outside.
Terminated ==
  /\ \A t \in Thread : \A k \in DOMAIN memory[t] :
       /\ Ends(memory[t][k])
       /\ k > 1 \/ pc[t] # "recv" => memory[t][k] # <<>>
  /\ \A p \in Remembered : p # Nowhere => p.at \in DOMAIN Text(p)

\* Stop is the end of a token: a delimiter or a NUL.
LEMMA StopCell ==
  ASSUME NEW s \in Seq(Cell), NEW i \in Nat \ {0}, NEW d \in Delimiter
  PROVE  CellAt(s, Stop(s, i, d)) \in {d, Nul}
<1> DEFINE a == Start(s, i, d)
           S == {j \in a .. Len(s) + i : CellAt(s, j) \in {d, Nul}}
<1>1. a \in i .. Len(s) + i
  BY StartSkips
<1>2. Len(s) + i \in S
  BY <1>1, CellBehind
<1>3. PICK n \in S : \A m \in S : n <= m
  <2>1. S \subseteq Nat /\ S # {}
    BY <1>1, <1>2
  <2> HIDE DEF S
  <2>2. QED
    BY <2>1, LeastNumber
<1>4. \A k \in a .. n - 1 : CellAt(s, k) \notin {d, Nul}
  BY <1>1, <1>3
<1>5. \E j \in a .. Len(s) + i :
        CellAt(s, j) \in {d, Nul} /\ \A k \in a .. j - 1 : CellAt(s, k) \notin {d, Nul}
  BY <1>1, <1>3, <1>4
<1>6. QED
  BY <1>5 DEF Stop

\* In a text that ends with a NUL no token ends behind it.
LEMMA StopInside ==
  ASSUME NEW s \in Seq(Cell), Ends(s), NEW i \in DOMAIN s, NEW d \in Delimiter
  PROVE  /\ Stop(s, i, d) \in DOMAIN s
         /\ CellAt(s, Stop(s, i, d)) = d => Stop(s, i, d) + 1 \in DOMAIN s
<1> DEFINE a == Start(s, i, d)
           b == Stop(s, i, d)
           n == Len(s)
<1>1. /\ i \in Nat \ {0} /\ n \in Nat /\ i <= n /\ DOMAIN s = 1 .. n
      /\ CellAt(s, n) = Nul /\ Nul # d
  BY CellBehind DEF Ends, CellAt
<1>2. /\ a \in i .. n + i
      /\ \A k \in i .. a - 1 : CellAt(s, k) = d
  BY <1>1, StartSkips
<1>3. /\ b \in a .. n + i
      /\ \A k \in a .. b - 1 : CellAt(s, k) \notin {d, Nul}
  BY <1>1, StopEnds
<1> HIDE DEF a, b, n
<1>4. a <= n
  BY <1>1, <1>2
<1>5. b <= n
  BY <1>1, <1>2, <1>3, <1>4
<1>6. CellAt(s, b) = d => b # n
  BY <1>1
<1>7. QED
  BY <1>1, <1>2, <1>3, <1>5, <1>6 DEF b, n

\* A call of strtok writes a NUL where the token ends, and nowhere else.
LEMMA EndedIs ==
  ASSUME Typing, NEW p \in Place, p.text \in DOMAIN memory[p.thread], NEW d \in Delimiter
  PROVE  /\ \A u \in Thread : Len(Ended(p, d)[u]) = Len(memory[u])
         /\ \A u \in Thread : \A k \in DOMAIN memory[u] :
              u # p.thread \/ k # p.text => Ended(p, d)[u][k] = memory[u][k]
         /\ Len(Ended(p, d)[p.thread][p.text]) = Len(Text(p))
         /\ \A i \in DOMAIN Text(p) :
              Ended(p, d)[p.thread][p.text][i] =
                IF i = Stop(Text(p), p.at, d) THEN Nul ELSE Text(p)[i]
<1> DEFINE a == p.thread
           b == p.text
           s == memory[a][b]
           j == Stop(s, p.at, d)
           e == [s EXCEPT ![j] = Nul]
           m == [memory[a] EXCEPT ![b] = e]
<1>1. a \in Thread /\ b \in DOMAIN memory[a] /\ memory[a] \in Seq(Seq(Cell))
  BY DEF Place, Typing
<1>2. s \in Seq(Cell) /\ Text(p) = s
  BY <1>1 DEF Text
<1>3. CASE CellAt(s, j) # d
  <2>1. CellAt(s, j) \in {d, Nul}
    BY <1>2, StopCell DEF Place
  <2>2. j \in DOMAIN s => s[j] = Nul
    BY <1>3, <2>1 DEF CellAt
  <2> HIDE DEF j
  <2>3. Ended(p, d) = memory
    BY <1>3 DEF Ended, Text, j
  <2>4. QED
    BY <1>2, <2>2, <2>3 DEF j
<1>4. CASE CellAt(s, j) = d
  <2>1. j \in DOMAIN s
    BY <1>4 DEF CellAt, Delimiter, Colon, Hash, Nul
  <2>2. Ended(p, d) = [memory EXCEPT ![a] = m]
    BY <1>4 DEF Ended, Text
  <2> HIDE DEF j
  <2>3. /\ e \in Seq(Cell) /\ Len(e) = Len(s)
        /\ \A i \in DOMAIN s : e[i] = IF i = j THEN Nul ELSE s[i]
    BY <1>2, <2>1, Replaced DEF Cell
  <2> HIDE DEF e
  <2>4. /\ Len(m) = Len(memory[a]) /\ m[b] = e
        /\ \A k \in DOMAIN memory[a] : k # b => m[k] = memory[a][k]
    BY <1>1, <2>3, Replaced
  <2> HIDE DEF m
  <2>5. /\ Ended(p, d)[a] = m
        /\ \A u \in Thread : u # a => Ended(p, d)[u] = memory[u]
    BY <1>1, <2>2 DEF Typing
  <2>6. QED
    BY <1>1, <1>2, <2>3, <2>4, <2>5 DEF j
<1>5. QED
  BY <1>3, <1>4

\* What Stored says, with a copy that ends with a NUL.
StoredText(t, d) ==
  \/ memory' = Ended(cursor[t], d)
  \/ \E c \in Seq(Cell) : /\ c # <<>> /\ c[Len(c)] = Nul
                          /\ memory' = [Ended(cursor[t], d) EXCEPT ![t] = Append(@, c)]

\* A thread that duplicates a text has one more text, and the others as before.
LEMMA AppendedIs ==
  ASSUME NEW m \in [Thread -> Seq(Seq(Cell))], NEW t \in Thread, NEW c \in Seq(Cell),
         NEW x, x = [m EXCEPT ![t] = Append(@, c)]
  PROVE  /\ x \in [Thread -> Seq(Seq(Cell))]
         /\ Len(x[t]) = Len(m[t]) + 1 /\ x[t][Len(m[t]) + 1] = c
         /\ \A k \in DOMAIN m[t] : x[t][k] = m[t][k]
         /\ \A u \in Thread : u # t => x[u] = m[u]
<1> DEFINE q == m[t]
           e == Append(q, c)
<1>1. q \in Seq(Seq(Cell)) /\ x = [m EXCEPT ![t] = e]
  OBVIOUS
<1> HIDE DEF q
<1>2. /\ e \in Seq(Seq(Cell)) /\ Len(e) = Len(q) + 1 /\ e[Len(q) + 1] = c
      /\ \A k \in 1 .. Len(q) : e[k] = q[k]
  BY <1>1
<1>3. DOMAIN q = 1 .. Len(q)
  BY <1>1
<1> HIDE DEF e
<1>4. x[t] = e /\ x \in [Thread -> Seq(Seq(Cell))] /\ \A u \in Thread : u # t => x[u] = m[u]
  BY <1>1, <1>2
<1>5. QED
  BY <1>2, <1>3, <1>4 DEF q

\* No call of strtok makes a text shorter, or takes the NUL at its end.
LEMMA StoredTexts ==
  ASSUME Typing, NEW t \in Thread, cursor[t] # Nowhere, NEW d \in Delimiter, StoredText(t, d)
  PROVE  \A u \in Thread : \A k \in DOMAIN memory[u] :
           /\ k \in DOMAIN memory'[u]
           /\ Len(memory'[u][k]) = Len(memory[u][k])
           /\ Ends(memory[u][k]) => Ends(memory'[u][k])
<1> DEFINE p == cursor[t]
           e == Ended(p, d)
<1>1. p \in Place /\ p.text \in DOMAIN memory[p.thread]
  BY DEF Typing
<1>2. e \in [Thread -> Seq(Seq(Cell))]
  BY <1>1, EndedKeeps
<1>3. ASSUME NEW u \in Thread, NEW k \in DOMAIN memory[u]
      PROVE  /\ k \in DOMAIN e[u] /\ Len(e[u][k]) = Len(memory[u][k])
             /\ Ends(memory[u][k]) => Ends(e[u][k])
  <2>1. k \in DOMAIN e[u]
    BY <1>1, <1>3, EndedKeeps
  <2>2. memory[u] \in Seq(Seq(Cell)) /\ memory[u][k] \in Seq(Cell)
    BY <1>3 DEF Typing
  <2>3. CASE u # p.thread \/ k # p.text
    <3>1. e[u][k] = memory[u][k]
      BY <1>1, <2>3, EndedIs
    <3>2. QED
      BY <2>1, <3>1
  <2>4. CASE u = p.thread /\ k = p.text
    <3> DEFINE s == memory[u][k]
               z == e[u][k]
    <3>1. Text(p) = s
      BY <2>4 DEF Text
    <3>2. /\ Len(z) = Len(s)
          /\ \A i \in DOMAIN s : z[i] = IF i = Stop(s, p.at, d) THEN Nul ELSE s[i]
      BY <1>1, <2>4, <3>1, EndedIs
    <3>3. s \in Seq(Cell) /\ z \in Seq(Cell)
      BY <1>2, <2>1, <2>2
    <3> HIDE DEF s, z
    <3>4. Ends(s) => Ends(z)
      BY <3>2, <3>3 DEF Ends
    <3>5. QED
      BY <2>1, <3>2, <3>4 DEF s, z
  <2>5. QED
    BY <2>3, <2>4
<1> HIDE DEF e
<1>4. CASE memory' = e
  BY <1>3, <1>4
<1>5. ASSUME NEW c \in Seq(Cell), memory' = [e EXCEPT ![t] = Append(@, c)]
      PROVE  \A u \in Thread : \A k \in DOMAIN e[u] :
               k \in DOMAIN memory'[u] /\ memory'[u][k] = e[u][k]
  <2>1. /\ memory' \in [Thread -> Seq(Seq(Cell))] /\ Len(memory'[t]) = Len(e[t]) + 1
        /\ \A k \in DOMAIN e[t] : memory'[t][k] = e[t][k]
        /\ \A u \in Thread : u # t => memory'[u] = e[u]
    BY <1>2, <1>5, AppendedIs
  <2>2. e[t] \in Seq(Seq(Cell)) /\ memory'[t] \in Seq(Seq(Cell))
    BY <1>2, <2>1
  <2>3. DOMAIN e[t] \subseteq DOMAIN memory'[t]
    BY <2>1, <2>2
  <2>4. QED
    BY <2>1, <2>3
<1>6. QED
  BY <1>3, <1>4, <1>5 DEF StoredText, e

\* A place that was inside its text still is when texts only get longer.
LEMMA PlacesStay ==
  ASSUME Typing, Terminated, memory' \in [Thread -> Seq(Seq(Cell))],
         \A u \in Thread : \A k \in DOMAIN memory[u] :
           k \in DOMAIN memory'[u] /\ Len(memory[u][k]) <= Len(memory'[u][k]),
         NEW p \in Remembered, p # Nowhere
  PROVE  p.at \in DOMAIN memory'[p.thread][p.text]
<1>1. p \in Place /\ p.text \in DOMAIN memory[p.thread] /\ p.at \in DOMAIN Text(p)
  <2>1. p.at \in DOMAIN Text(p)
    BY DEF Terminated
  <2>2. CASE p = place
    BY <2>1, <2>2 DEF Typing
  <2>3. ASSUME NEW u \in Thread, p = cursor[u]
        PROVE  p \in Place /\ p.text \in DOMAIN memory[p.thread]
    BY <2>3 DEF Typing
  <2>4. QED
    BY <2>1, <2>2, <2>3 DEF Remembered
<1>2. /\ p.thread \in Thread
      /\ memory[p.thread] \in Seq(Seq(Cell)) /\ memory'[p.thread] \in Seq(Seq(Cell))
  BY <1>1 DEF Typing, Place
<1> DEFINE s == memory[p.thread][p.text]
           z == memory'[p.thread][p.text]
<1>3. s \in Seq(Cell) /\ z \in Seq(Cell) /\ Len(s) <= Len(z)
  BY <1>1, <1>2
<1>4. Text(p) = s
  BY DEF Text
<1> HIDE DEF s, z
<1>5. DOMAIN s \subseteq DOMAIN z
  BY <1>3
<1>6. QED
  BY <1>1, <1>4, <1>5 DEF z

\* The second half of a call of strtok.
LEMMA StoreKeepsTerminated ==
  ASSUME Inv, Terminated, Inv', NEW t \in Thread, NEW d \in Delimiter, Store(t, d),
         StoredText(t, d), NEW x \in Stage \ {"recv"}, pc' = [pc EXCEPT ![t] = x]
  PROVE  Terminated'
<1> DEFINE p == cursor[t]
<1>1. /\ p # Nowhere /\ p \in Place /\ p.text \in DOMAIN memory[p.thread]
      /\ p.at \in DOMAIN Text(p) /\ p \in Remembered
      /\ pc[t] \in Calling
  BY DEF Store, Inv, Typing, Terminated, Remembered
<1>2. \A u \in Thread : \A k \in DOMAIN memory[u] :
        /\ k \in DOMAIN memory'[u]
        /\ Len(memory'[u][k]) = Len(memory[u][k])
        /\ Ends(memory[u][k]) => Ends(memory'[u][k])
  BY <1>1, StoredTexts DEF Inv
<1>3. /\ memory \in [Thread -> Seq(Seq(Cell))] /\ memory' \in [Thread -> Seq(Seq(Cell))]
      /\ pc \in [Thread -> Stage]
  BY DEF Inv, Typing
<1>4. ASSUME NEW u \in Thread, NEW k \in DOMAIN memory'[u]
      PROVE  Ends(memory'[u][k]) /\ (k > 1 \/ pc'[u] # "recv" => memory'[u][k] # <<>>)
  <2>1. CASE k \in DOMAIN memory[u]
    <3>1. /\ Ends(memory[u][k]) /\ (k > 1 \/ pc[u] # "recv" => memory[u][k] # <<>>)
          /\ Len(memory'[u][k]) = Len(memory[u][k]) /\ Ends(memory'[u][k])
      BY <1>2, <2>1 DEF Terminated
    <3>2. memory[u][k] \in Seq(Cell) /\ memory'[u][k] \in Seq(Cell)
      BY <1>3, <1>4, <2>1
    <3>3. pc'[u] # "recv" => pc[u] # "recv"
      BY <1>1, <1>3 DEF Calling
    <3>4. QED
      BY <3>1, <3>2, <3>3
  <2>2. CASE k \notin DOMAIN memory[u]
    <3> DEFINE e == Ended(p, d)
    <3>1. /\ e \in [Thread -> Seq(Seq(Cell))]
          /\ \A v \in Thread : DOMAIN e[v] = DOMAIN memory[v]
      BY <1>1, EndedKeeps DEF Inv
    <3>2. PICK c \in Seq(Cell) : /\ c # <<>> /\ c[Len(c)] = Nul
                                 /\ memory' = [e EXCEPT ![t] = Append(@, c)]
      BY <1>4, <2>2, <3>1 DEF StoredText
    <3> HIDE DEF e
    <3>3. /\ Len(memory'[t]) = Len(e[t]) + 1 /\ memory'[t][Len(e[t]) + 1] = c
          /\ \A v \in Thread : v # t => memory'[v] = e[v]
      BY <3>1, <3>2, AppendedIs
    <3>4. u = t
      BY <1>4, <2>2, <3>1, <3>3
    <3>5. k \in 1 .. Len(e[t]) + 1 /\ k \notin 1 .. Len(e[t]) /\ Len(e[t]) \in Nat
      BY <1>3, <1>4, <2>2, <3>1, <3>3, <3>4
    <3>6. memory'[u][k] = c
      BY <3>3, <3>4, <3>5
    <3>7. QED
      BY <3>2, <3>6 DEF Ends
  <2>3. QED
    BY <2>1, <2>2
<1>5. \A q \in Remembered : q # Nowhere => q.at \in DOMAIN memory'[q.thread][q.text]
  <2>1. \A u \in Thread : \A k \in DOMAIN memory[u] :
          k \in DOMAIN memory'[u] /\ Len(memory[u][k]) <= Len(memory'[u][k])
    <3>1. \A u \in Thread : \A k \in DOMAIN memory[u] : Len(memory[u][k]) \in Nat
      BY <1>3
    <3>2. QED
      BY <1>2, <3>1
  <2>2. QED
    BY <1>3, <2>1, PlacesStay DEF Inv
<1>6. place'.at \in DOMAIN memory'[place'.thread][place'.text]
  <2> DEFINE s == memory[p.thread][p.text]
             z == memory'[p.thread][p.text]
             j == Stop(s, p.at, d)
  <2>1. /\ p.thread \in Thread
        /\ memory[p.thread] \in Seq(Seq(Cell)) /\ memory'[p.thread] \in Seq(Seq(Cell))
    BY <1>1, <1>3 DEF Place
  <2>2. Text(p) = s /\ s \in Seq(Cell) /\ z \in Seq(Cell) /\ Len(z) = Len(s) /\ Ends(s)
    BY <1>1, <1>2, <2>1 DEF Text, Terminated
  <2>3. j \in DOMAIN s /\ (CellAt(s, j) = d => j + 1 \in DOMAIN s)
    BY <1>1, <2>2, StopInside
  <2>4. place' = Behind(p, d) /\ place'.thread = p.thread /\ place'.text = p.text
    BY <1>1, <2>2, BehindKeeps DEF Store
  <2>5. place'.at = IF CellAt(s, j) = d THEN j + 1 ELSE j
    BY <1>1, <2>2, <2>4 DEF Behind, Place
  <2>6. memory'[place'.thread][place'.text] = z
    BY <2>4
  <2> HIDE DEF s, z, j
  <2>7. DOMAIN z = DOMAIN s
    BY <2>2
  <2>8. QED
    BY <2>3, <2>5, <2>6, <2>7
<1>7. \A u \in Thread : cursor'[u] \in {Nowhere, cursor[u]}
  BY DEF Store, Inv, Typing
<1>8. \A q \in Remembered' : q # Nowhere => q.at \in DOMAIN memory'[q.thread][q.text]
  BY <1>5, <1>6, <1>7 DEF Remembered
<1>9. QED
  BY <1>4, <1>8 DEF Terminated, Text

\* recv() leaves a buffer as long as before at least, with a NUL at its end.
LEMMA ReceivedEnds ==
  ASSUME NEW old \in Seq(Cell), Ends(old), NEW new \in Seq(Cell), Len(new) \in Nat \ {0}
  PROVE  /\ Received(old, new) \in Seq(Cell) /\ Received(old, new) # <<>>
         /\ Len(old) <= Len(Received(old, new))
         /\ Ends(Received(old, new))
         /\ \A i \in 1 .. Len(new) : Received(old, new)[i] = new[i]
         /\ Len(new) + 1 \in DOMAIN Received(old, new)
         /\ Received(old, new)[Len(new) + 1] = Nul
<1> DEFINE n == Len(new)
           m == Len(old)
           front == Append(new, Nul)
           tail == SubSeq(old, n + 2, m)
           x == Received(old, new)
<1>1. n \in Nat \ {0} /\ m \in Nat /\ Nul \in Cell
  BY DEF Cell
<1>2. /\ front \in Seq(Cell) /\ Len(front) = n + 1 /\ front[n + 1] = Nul
      /\ \A i \in 1 .. n : front[i] = new[i]
  BY <1>1
<1>3. x \in Seq(Cell) /\ x # <<>>
  BY ReceivedIsText
<1>4. x = front \o tail
  <2>1. new \o <<Nul>> = Append(new, Nul)
    BY <1>1
  <2>2. QED
    BY <2>1 DEF Received
<1> HIDE DEF x, front
<1>5. CASE n + 2 > m
  <2>1. tail = <<>>
    BY <1>1, <1>5
  <2> HIDE DEF tail
  <2>2. x = front
    BY <1>2, <1>4, <2>1
  <2>3. QED
    BY <1>1, <1>2, <1>3, <1>5, <2>2 DEF Ends, x
<1>6. CASE n + 2 <= m
  <2>1. /\ tail \in Seq(Cell) /\ Len(tail) = m - n - 1
        /\ tail[m - n - 1] = old[m]
    <3>1. \A i \in n + 2 .. m : old[i] \in Cell
      BY <1>1
    <3>2. QED
      BY <1>1, <1>6, <3>1
  <2>2. old[m] = Nul
    BY <1>1, <1>6 DEF Ends
  <2> HIDE DEF tail
  <2>3. /\ Len(x) = m
        /\ \A i \in 1 .. m : x[i] = IF i <= n + 1 THEN front[i] ELSE tail[i - (n + 1)]
    <3>1. /\ Len(x) = Len(front) + Len(tail)
          /\ \A i \in 1 .. Len(front) + Len(tail) :
               x[i] = IF i <= Len(front) THEN front[i] ELSE tail[i - Len(front)]
      BY <1>2, <1>4, <2>1, ConcatenatedIs
    <3>2. Len(front) + Len(tail) = m
      BY <1>1, <1>2, <1>6, <2>1
    <3>3. QED
      BY <1>2, <3>1, <3>2
  <2>4. x[m] = Nul
    BY <1>1, <1>6, <2>1, <2>2, <2>3
  <2> HIDE DEF n, m
  <2>5. n + 1 \in DOMAIN x
    BY <1>1, <1>3, <1>6, <2>3
  <2>6. \A i \in 1 .. n : x[i] = new[i]
    BY <1>1, <1>2, <1>6, <2>3
  <2>7. x[n + 1] = Nul
    BY <1>1, <1>2, <1>6, <2>3
  <2>8. QED
    BY <1>1, <1>3, <2>3, <2>4, <2>5, <2>6, <2>7 DEF Ends, x, n, m
<1>7. QED
  BY <1>1, <1>5, <1>6

\* A buffer that is overwritten does no harm to the places in it.
LEMMA BufferTerminated ==
  ASSUME Inv, Terminated, NEW t \in Thread, NEW x \in Seq(Cell), Ends(x),
         Len(memory[t][1]) <= Len(x), memory' = [memory EXCEPT ![t][1] = x],
         \A u \in Thread : u # t => pc'[u] = pc[u], pc'[t] # "recv" => x # <<>>,
         UNCHANGED <<place, cursor>>
  PROVE  Terminated'
<1>1. /\ memory' \in [Thread -> Seq(Seq(Cell))] /\ memory'[t][1] = x
      /\ \A u \in Thread : DOMAIN memory'[u] = DOMAIN memory[u]
      /\ \A u \in Thread : u # t => memory'[u] = memory[u]
  BY BufferReplaced DEF Inv
<1>2. memory[t] \in Seq(Seq(Cell)) /\ memory[t] # <<>> /\ memory \in [Thread -> Seq(Seq(Cell))]
  BY DEF Inv, Typing
<1>3. \A k \in DOMAIN memory[t] : k # 1 => memory'[t][k] = memory[t][k]
  BY <1>2
<1>4. ASSUME NEW u \in Thread, NEW k \in DOMAIN memory'[u]
      PROVE  Ends(memory'[u][k]) /\ (k > 1 \/ pc'[u] # "recv" => memory'[u][k] # <<>>)
  <2>1. k \in DOMAIN memory[u] /\ memory[u] \in Seq(Seq(Cell))
    BY <1>1, <1>2
  <2>2. Ends(memory[u][k]) /\ (k > 1 \/ pc[u] # "recv" => memory[u][k] # <<>>)
    BY <2>1 DEF Terminated
  <2>3. CASE u = t /\ k = 1
    BY <1>1, <2>3
  <2>4. CASE u = t /\ k # 1
    <3>1. k > 1 /\ memory'[u][k] = memory[u][k]
      BY <1>3, <2>1, <2>4
    <3>2. QED
      BY <2>2, <3>1
  <2>5. CASE u # t
    BY <1>1, <2>2, <2>5
  <2>6. QED
    BY <2>3, <2>4, <2>5
<1>5. \A u \in Thread : \A k \in DOMAIN memory[u] :
        k \in DOMAIN memory'[u] /\ Len(memory[u][k]) <= Len(memory'[u][k])
  <2>1. \A u \in Thread : \A k \in DOMAIN memory[u] : Len(memory[u][k]) \in Nat
    BY <1>2
  <2>2. QED
    BY <1>1, <1>3, <2>1
<1>6. \A q \in Remembered : q # Nowhere => q.at \in DOMAIN memory'[q.thread][q.text]
  BY <1>1, <1>5, PlacesStay DEF Inv
<1>7. QED
  BY <1>4, <1>6 DEF Terminated, Remembered, Text

\* A request is sent.
LEMMA SendTerminates ==
  ASSUME Inv, Terminated, NEW t \in Thread, NEW r \in Requests, Send(t, r)
  PROVE  Terminated'
BY DEF Send, Terminated, Remembered, Text

\* What has arrived is received.
LEMMA ReceiveTerminates ==
  ASSUME Inv, Terminated, NEW t \in Thread, Receive(t)
  PROVE  Terminated'
<1> DEFINE s == memory[t][1]
           l == stream[t]
           x == Received(s, l)
<1>1. s \in Seq(Cell) /\ Ends(s) /\ l \in Seq(Cell) /\ Len(l) \in Nat \ {0}
  <2>1. l # <<>> /\ l \in Seq(Cell) /\ waiting[t] \in Seq(Requests) /\ Stands(l, waiting[t])
    BY DEF Receive, Inv, Typing, Arriving
  <2>2. QED
    BY <2>1, StandsFirst DEF Inv, Typing, Terminated
<1>2. x \in Seq(Cell) /\ x # <<>> /\ Len(s) <= Len(x) /\ Ends(x)
  BY <1>1, ReceivedEnds
<1>3. memory' = [memory EXCEPT ![t][1] = x] /\ UNCHANGED <<place, cursor>>
      /\ \A u \in Thread : u # t => pc'[u] = pc[u]
  BY DEF Receive, Inv, Typing
<1> HIDE DEF x
<1>4. QED
  BY <1>2, <1>3, BufferTerminated

\* The buffer is cleared.
LEMMA AnswerTerminates ==
  ASSUME Inv, Terminated, NEW t \in Thread, Answer(t)
  PROVE  Terminated'
<1> DEFINE s == memory[t][1]
           x == Cleared(s)
<1>1. s \in Seq(Cell) /\ Ends(s) /\ Nul \in Cell
  BY DEF Inv, Typing, Terminated, Cell
<1>2. x \in Seq(Cell) /\ Len(s) <= Len(x) /\ Ends(x)
  <2> HIDE DEF s
  <2>1. DOMAIN s = 1 .. Len(s) /\ Len(s) \in Nat /\ \A i \in 1 .. Len(s) : s[i] \in Cell
    BY <1>1
  <2>2. x \in [1 .. Len(s) -> Cell] /\ \A i \in 1 .. Len(s) : x[i] \in {Nul, s[i]}
    BY <1>1, <2>1 DEF Cleared
  <2> HIDE DEF x
  <2>3. x \in Seq(Cell) /\ Len(x) = Len(s)
    BY <2>1, <2>2
  <2>4. Ends(x)
    BY <1>1, <2>1, <2>2, <2>3 DEF Ends
  <2>5. QED
    BY <2>1, <2>3, <2>4
<1>3. memory' = [memory EXCEPT ![t][1] = x] /\ UNCHANGED <<place, cursor>>
      /\ pc'[t] = "recv" /\ \A u \in Thread : u # t => pc'[u] = pc[u]
  BY DEF Answer, Inv, Typing
<1> HIDE DEF x
<1>4. QED
  BY <1>2, <1>3, BufferTerminated

\* A call begins at the start of a text or at a place that is remembered.
LEMMA LoadTerminates ==
  ASSUME Inv, Terminated, NEW t \in Thread, Load(t)
  PROVE  Terminated'
<1>1. UNCHANGED <<pc, memory, place>> /\ pc[t] \in Calling
      /\ \A u \in Thread : u # t => cursor'[u] = cursor[u]
  BY DEF Load, Inv, Typing
<1>2. memory[t] \in Seq(Seq(Cell)) /\ memory[t] # <<>>
  BY DEF Inv, Typing
<1> DEFINE n == Len(memory[t])
<1>3. cursor'[t] \in {place, [thread |-> t, text |-> 1, at |-> 1],
                      [thread |-> t, text |-> n, at |-> 1]}
  BY DEF Load, Inv, Typing
<1>4. n \in DOMAIN memory[t] /\ 1 \in DOMAIN memory[t]
  BY <1>2
<1>5. ASSUME NEW k \in DOMAIN memory[t]
      PROVE  1 \in DOMAIN memory[t][k]
  <2>1. memory[t][k] # <<>> /\ memory[t][k] \in Seq(Cell)
    BY <1>1, <1>2 DEF Terminated, Calling
  <2>2. QED
    BY <2>1
<1>6. cursor'[t] # Nowhere => cursor'[t].at \in DOMAIN memory[cursor'[t].thread][cursor'[t].text]
  <2>1. CASE cursor'[t] = place
    BY <2>1 DEF Terminated, Remembered, Text
  <2>2. CASE cursor'[t] # place
    <3> HIDE DEF n
    <3>1. QED
      BY <1>3, <1>4, <1>5, <2>2
  <2>3. QED
    BY <2>1, <2>2
<1>7. \A q \in Remembered' : q # Nowhere => q.at \in DOMAIN memory'[q.thread][q.text]
  <2>1. \A q \in Remembered : q # Nowhere => q.at \in DOMAIN memory[q.thread][q.text]
    BY DEF Terminated, Text
  <2>2. \A q \in Remembered' : q \in Remembered \/ q = cursor'[t]
    BY <1>1 DEF Remembered
  <2>3. QED
    BY <1>1, <1>6, <2>1, <2>2
<1>8. QED
  BY <1>1, <1>7 DEF Terminated, Text

\* Every second half of a call is a Store that leaves its thread calling, or done.
LEMMA ParseStores ==
  ASSUME Inv, NEW t \in Thread,
         ParseAuthorized(t) \/ ParseCommand(t) \/ Dispatch(t) \/ ParseField(t)
  PROVE  \E d \in Delimiter, x \in Stage \ {"recv"} :
           Store(t, d) /\ StoredText(t, d) /\ pc' = [pc EXCEPT ![t] = x]
<1>1. CASE ParseAuthorized(t)
  <2>1. Store(t, Colon) /\ StoredText(t, Colon) /\ Colon \in Delimiter
    BY <1>1 DEF ParseAuthorized, StoredText, Delimiter
  <2>2. \E x \in {"done", "command"} : pc' = [pc EXCEPT ![t] = x]
    BY <1>1 DEF ParseAuthorized
  <2>3. QED
    BY <2>1, <2>2 DEF Stage, Calling
<1>2. CASE ParseCommand(t)
  <2>1. Store(t, Colon) /\ StoredText(t, Colon) /\ Colon \in Delimiter
    BY <1>2 DEF ParseCommand, StoredText, Delimiter
  <2>2. \E x \in {"done", "content"} : pc' = [pc EXCEPT ![t] = x]
    BY <1>2 DEF ParseCommand
  <2>3. QED
    BY <2>1, <2>2 DEF Stage, Calling
<1>3. CASE ParseField(t)
  <2>1. Store(t, Hash) /\ StoredText(t, Hash) /\ Hash \in Delimiter
    BY <1>3 DEF ParseField, StoredText, Delimiter
  <2>2. \E x \in {"done", "next"} : pc' = [pc EXCEPT ![t] = x]
    BY <1>3 DEF ParseField
  <2>3. QED
    BY <2>1, <2>2 DEF Stage, Calling
<1>4. CASE Dispatch(t)
  <2> DEFINE token == Token(cursor[t], Colon)
  <2>1. Store(t, Colon) /\ Colon \in Delimiter
    BY <1>4 DEF Dispatch, ContentEnd, Delimiter
  <2>2. token \in Seq(Cell)
    <3>1. cursor[t] \in Place /\ Text(cursor[t]) \in Seq(Cell)
      BY <2>1 DEF Store, Text, Inv, Typing, Place
    <3>2. QED
      BY <2>1, <3>1, TokenCells DEF Token, Place
  <2>3. \/ memory' = Ended(cursor[t], Colon)
        \/ memory' = [Ended(cursor[t], Colon) EXCEPT ![t] = Append(@, Append(token, Nul))]
    BY <1>4 DEF Dispatch, ContentEnd
  <2>4. \E x \in {"done", "first"} : pc' = [pc EXCEPT ![t] = x]
    BY <1>4 DEF Dispatch, ContentEnd
  <2> HIDE DEF token
  <2> DEFINE c == Append(token, Nul)
  <2>5. c \in Seq(Cell) /\ c # <<>> /\ c[Len(c)] = Nul
    BY <2>2, LastAppended DEF Cell
  <2> HIDE DEF c
  <2>6. StoredText(t, Colon)
    BY <2>3, <2>5 DEF StoredText, c
  <2>7. QED
    BY <2>1, <2>4, <2>6 DEF Stage, Calling
<1>5. QED
  BY <1>1, <1>2, <1>3, <1>4

\* In no step does strtok come to remember a place outside its text.
LEMMA NextTerminated == Inv /\ Terminated /\ [Next]_vars => Terminated'
<1> SUFFICES ASSUME Inv, Terminated, [Next]_vars PROVE Terminated'
  OBVIOUS
<1>1. Inv'
  BY NextInv
<1>2. CASE UNCHANGED vars
  BY <1>2 DEF vars, Terminated, Remembered, Text
<1>3. ASSUME NEW t \in Thread,
             ParseAuthorized(t) \/ ParseCommand(t) \/ Dispatch(t) \/ ParseField(t)
      PROVE  Terminated'
  <2>1. PICK d \in Delimiter, x \in Stage \ {"recv"} :
          Store(t, d) /\ StoredText(t, d) /\ pc' = [pc EXCEPT ![t] = x]
    BY <1>3, ParseStores
  <2>2. QED
    BY <1>1, <2>1, StoreKeepsTerminated
<1>4. CASE Next
  BY <1>3, <1>4, SendTerminates, ReceiveTerminates, AnswerTerminates, LoadTerminates DEF Next
<1>5. QED
  BY <1>2, <1>4

\* Neither text nor place is there when the server starts.
LEMMA InitTerminated == Init => Terminated
BY DEF Init, Terminated, Remembered, Ends

\* A thread is disturbed or it is not.
LEMMA NextDisturbed ==
  disturbed \in [Thread -> BOOLEAN] /\ [Next]_vars => disturbed' \in [Thread -> BOOLEAN]
BY DEF Next, vars, Send, Receive, Load, Answer, ParseAuthorized, ParseCommand, Dispatch, ParseField,
       Store

\* The inductive invariant of the types.
TypeInv == Inv /\ Terminated /\ disturbed \in [Thread -> BOOLEAN]

\* The types always hold.
LEMMA AlwaysTyped == Spec => []TypeInv
<1>1. Init => TypeInv
  BY InitHasInv, InitTerminated DEF Init, TypeInv
<1>2. TypeInv /\ [Next]_vars => TypeInv'
  BY NextInv, NextTerminated, NextDisturbed DEF TypeInv
<1>3. QED
  BY <1>1, <1>2, PTL DEF Spec

\* Every variable keeps its type, and in no interleaving does strtok remember a
\* place outside the text it walks through.
THEOREM TokenizerTypeCorrect == Spec => []TypeOK
<1>1. TypeInv => TypeOK
  <2> SUFFICES ASSUME Inv, Terminated, disturbed \in [Thread -> BOOLEAN] PROVE TypeOK
    BY DEF TypeInv
  <2>1. ASSUME NEW p \in {place} \cup {cursor[t] : t \in Thread}, p # Nowhere
        PROVE  p \in Place /\ p.text \in DOMAIN memory[p.thread] /\ p.at \in DOMAIN Text(p)
    <3>1. p.at \in DOMAIN Text(p)
      BY <2>1 DEF Terminated, Remembered
    <3>2. CASE p = place
      BY <2>1, <3>1, <3>2 DEF Inv, Typing
    <3>3. ASSUME NEW t \in Thread, p = cursor[t]
          PROVE  p \in Place /\ p.text \in DOMAIN memory[p.thread]
      BY <2>1, <3>3 DEF Inv, Typing
    <3>4. QED
      BY <3>1, <3>2, <3>3
  <2>2. /\ pc \in [Thread -> Stage] /\ sent \in [Thread -> 0 .. MaxRequests]
        /\ stream \in [Thread -> Seq(Cell)]
        /\ memory \in [Thread -> Seq(Seq(Cell))] /\ parsed \in [Thread -> Parsed]
        /\ DOMAIN cursor = Thread
    BY DEF Inv, Typing
  <2>3. waiting \in [Thread -> Seq(Request)] /\ taken \in [Thread -> Seq(Request)]
    <3>1. \A q \in Seq(Requests) : q \in Seq(Request)
      BY TokenizerAssumption DEF TokenizerAssumption
    <3>2. waiting \in [Thread -> Seq(Requests)] /\ taken \in [Thread -> Seq(Requests)]
      BY DEF Inv, Typing
    <3>3. QED
      BY <3>1, <3>2
  <2>4. QED
    BY <2>1, <2>2, <2>3 DEF TypeOK
<1>2. QED
  BY <1>1, AlwaysTyped, PTL

-----------------------------------------------------------------------------
(* What an undisturbed thread has understood so far.                       *)

\* What one recv() has put behind the content of the first of the requests q, up to
\* the next delimiter: the flag of the second.
Extra(q) == IF Len(q) = 1 THEN <<>> ELSE <<q[2].authorized>>

\* The content that strtok finds there.
Heard(q) == Content(q[1]) \o Extra(q)

\* The cell at i of the k-th text of t.
At(t, k, i) == [thread |-> t, text |-> k, at |-> i]

\* Behind its first i cells the text s goes on with the content c.
Follows(s, i, c) ==
  /\ i + Len(c) + 1 \in DOMAIN s
  /\ \A k \in 1 .. Len(c) : s[i + k] = c[k]
  /\ s[i + Len(c) + 1] \in {Nul, Colon}

\* strtok goes on at p in the next call of t.
GoesOn(t, p) == place = p /\ cursor[t] \in {Nowhere, p}

\* Of the fields of r the thread has k; the others stand in the text s, each with
\* the hash behind it, and x more cells at the end.
Split(s, k, r, x, fields) ==
  LET n == Len(r.fields)
  IN  /\ fields = [i \in 1 .. k |-> <<r.fields[i]>>]
      /\ Len(s) = 2 * n + x + 1
      /\ \A i \in k + 1 .. n : s[2 * i - 1] = r.fields[i] /\ s[2 * i] = Hash
      /\ x = 1 => s[2 * n + 1] \in {"0", "1"}
      /\ s[2 * n + x + 1] = Nul

\* What holds of a thread that nobody has disturbed.
InOrder(t) ==
  LET q == taken[t]
      r == First(t)
      p == parsed[t]
      buffer == memory[t][1]
      copy == Len(memory[t])
  IN  /\ pc[t] # "recv" => q # <<>>
      /\ pc[t] \in {"auth", "command", "content"} => Follows(buffer, 4, Heard(q))
      /\ pc[t] \in {"auth", "command"} => buffer[3] = r.command /\ buffer[4] = Colon
      /\ pc[t] = "auth" => buffer[1] = r.authorized /\ buffer[2] = Colon
      /\ pc[t] = "command" => GoesOn(t, At(t, 1, 3))
      /\ pc[t] = "content" => GoesOn(t, At(t, 1, 5))
      /\ pc[t] \in {"auth", "command", "content", "first"} => p.fields = <<>>
      /\ pc[t] \in {"command", "content", "first", "next"} => p.authorized = r.authorized
      /\ pc[t] \in {"content", "first", "next"} => p.command = <<r.command>>
      /\ pc[t] \in {"first", "next"} =>
           /\ Handled(r.authorized, r.command) /\ r.command # "Get_Users_Count"
           /\ p.inputs = Len(r.fields)
           /\ Len(p.fields) <= p.inputs
           /\ Split(memory[t][copy], Len(p.fields), r, Len(Extra(q)), p.fields)
      /\ pc[t] = "next" => GoesOn(t, At(t, copy, 2 * Len(p.fields) + 1))
      /\ pc[t] = "done" => Served(t) /\ (Alone(t) => Understood(t))

\* The copy of a content that a thread is about to split is its own.
Apart(t) ==
  pc[t] = "first" =>
    /\ cursor[t] \in {Nowhere, At(t, Len(memory[t]), 1)}
    /\ \A p \in {place} \cup {cursor[u] : u \in Thread \ {t}} :
         p # Nowhere => p.thread # t \/ p.text # Len(memory[t])

\* The inductive invariant of parsing.
Parsing == \A t \in Thread : Apart(t) /\ (~disturbed[t] => InOrder(t))

\* From i on, the cells of s before the one at j make a token, or there is none.
Stops(s, i, j, d) ==
  /\ i \in DOMAIN s /\ j \in DOMAIN s /\ i <= j
  /\ i = j => s[j] = Nul
  /\ s[j] \in {d, Nul}
  /\ \A k \in i .. j - 1 : s[k] \notin {d, Nul}

\* That token is the one strtok finds.
LEMMA TokenEnds ==
  ASSUME NEW s \in Seq(Cell), NEW i, NEW j, NEW d \in Delimiter, Stops(s, i, j, d)
  PROVE  Start(s, i, d) = i /\ Stop(s, i, d) = j
<1> DEFINE a == Start(s, i, d)
           b == Stop(s, i, d)
           n == Len(s)
<1>1. /\ i \in Nat \ {0} /\ j \in Nat /\ n \in Nat /\ j <= n /\ DOMAIN s = 1 .. n
      /\ Nul # d
      /\ i <= j /\ (i = j => s[j] = Nul) /\ s[j] \in {d, Nul}
      /\ \A k \in i .. j - 1 : s[k] \notin {d, Nul}
  <2>1. i \in DOMAIN s /\ j \in DOMAIN s /\ DOMAIN s = 1 .. n /\ n \in Nat
    BY DEF Stops
  <2>2. i \in Nat \ {0} /\ j \in Nat /\ j <= n
    BY <2>1
  <2>3. Nul # d
    BY <2>2, CellBehind
  <2>4. QED
    BY <2>1, <2>2, <2>3 DEF Stops
<1>2. a \in i .. n + i /\ \A k \in i .. a - 1 : CellAt(s, k) = d
  BY <1>1, StartSkips
<1>3. b \in a .. n + i /\ \A k \in a .. b - 1 : CellAt(s, k) \notin {d, Nul}
  BY <1>1, StopEnds
<1>4. CellAt(s, b) \in {d, Nul}
  BY <1>1, StopCell
<1>5. \A k \in i .. j : CellAt(s, k) = s[k]
  BY <1>1 DEF CellAt
<1> HIDE DEF a, b, n
<1>6. CellAt(s, i) # d
  BY <1>1, <1>5
<1>7. a = i
  BY <1>1, <1>2, <1>6
<1>8. b <= j
  BY <1>1, <1>3, <1>5, <1>7
<1>9. \A k \in i .. j - 1 : CellAt(s, k) \notin {d, Nul}
  BY <1>1, <1>5
<1>10. b = j
  BY <1>1, <1>3, <1>4, <1>7, <1>8, <1>9
<1>11. QED
  BY <1>7, <1>10 DEF a, b

\* The cells of c: the content d of the first of the requests q, and x more.
Cells(q, c, d, x) ==
  /\ q[1] \in Requests /\ Len(d) \in Nat \ {0}
  /\ c \in Seq(Cell) /\ Len(c) = Len(d) + x /\ x \in {0, 1}
  /\ \A k \in 1 .. Len(d) : c[k] = d[k]
  /\ Len(q) = 1 => x = 0
  /\ Len(q) # 1 => /\ x = 1 /\ c[Len(d) + 1] = q[2].authorized
                   /\ c[Len(d) + 1] \in {"0", "1"}

\* What is heard, cell by cell.
LEMMA HeardCells ==
  ASSUME NEW q \in Seq(Requests), q # <<>>
  PROVE  Cells(q, Heard(q), Content(q[1]), Len(Extra(q)))
<1> DEFINE r == q[1]
           c == Heard(q)
           d == Content(r)
           e == Extra(q)
           n == Len(d)
           x == Len(e)
<1>1. r \in Requests /\ d \in Seq(Cell) /\ n \in Nat \ {0} /\ Len(d) = n
  BY ContentIs
<1> DEFINE Goal == /\ c \in Seq(Cell) /\ Len(c) = n + x /\ x \in {0, 1}
                   /\ \A k \in 1 .. n : c[k] = d[k]
                   /\ Len(q) = 1 => x = 0
                   /\ Len(q) # 1 => x = 1 /\ c[n + 1] = q[2].authorized /\ c[n + 1] \in {"0", "1"}
<1>2. ASSUME Len(q) = 1 PROVE Goal
  <2>1. e = <<>> /\ e \in Seq(Cell) /\ Len(e) = 0 /\ x = 0
    BY <1>2 DEF Extra
  <2> HIDE DEF d, e
  <2>2. /\ d \o e \in Seq(Cell) /\ Len(d \o e) = Len(d) + Len(e)
        /\ \A i \in 1 .. Len(d) + Len(e) : (d \o e)[i] = IF i <= Len(d) THEN d[i] ELSE e[i - Len(d)]
    BY <1>1, <2>1, ConcatenatedIs
  <2>3. c = d \o e
    BY DEF Heard, d, e
  <2>4. c \in Seq(Cell) /\ Len(c) = n /\ \A k \in 1 .. n : c[k] = d[k]
    BY <1>1, <2>1, <2>2, <2>3
  <2>5. QED
    BY <1>1, <1>2, <2>1, <2>4 DEF d
<1>3. ASSUME Len(q) # 1 PROVE Goal
  <2>1. q[2] \in Requests
    <3> DEFINE o == Len(q)
    <3>1. o \in Nat \ {0} /\ o # 1 /\ DOMAIN q = 1 .. o
      BY <1>3
    <3> HIDE DEF o
    <3>2. 2 \in DOMAIN q
      BY <3>1
    <3>3. QED
      BY <3>2
  <2> DEFINE a == q[2].authorized
  <2>2. a \in {"0", "1"} /\ a \in Cell
    BY <2>1, TokenizerAssumption DEF TokenizerAssumption, Request, Cell
  <2> HIDE DEF a
  <2>3. e = <<a>> /\ e \in Seq(Cell) /\ Len(e) = 1 /\ e[1] = a /\ x = 1
    BY <1>3, <2>2 DEF Extra, a
  <2> HIDE DEF d, e
  <2>4. /\ d \o e \in Seq(Cell) /\ Len(d \o e) = Len(d) + Len(e)
        /\ \A i \in 1 .. Len(d) + Len(e) : (d \o e)[i] = IF i <= Len(d) THEN d[i] ELSE e[i - Len(d)]
    BY <1>1, <2>3, ConcatenatedIs
  <2>5. c = d \o e
    BY DEF Heard, d, e
  <2>6. /\ c \in Seq(Cell) /\ Len(c) = n + 1 /\ c[n + 1] = a
        /\ \A k \in 1 .. n : c[k] = d[k]
    <3>1. \A i \in 1 .. n + 1 : c[i] = IF i <= n THEN d[i] ELSE e[i - n]
      BY <1>1, <2>3, <2>4, <2>5
    <3>2. c[n + 1] = e[1]
      BY <1>1, <3>1
    <3>3. QED
      BY <1>1, <2>3, <2>4, <2>5, <3>1, <3>2
  <2>7. QED
    BY <1>1, <1>3, <2>2, <2>3, <2>6 DEF d, a
<1>4. Goal
  BY <1>2, <1>3
<1>5. QED
  BY <1>1, <1>4 DEF Cells

\* In c the fields of the request r, each with its hash, and x more cells.
Fields(r, c, x) ==
  /\ r.command \in Command /\ r.fields \in Seq(Word) /\ Len(r.fields) \in Nat \ {0}
  /\ c \in Seq(Cell) /\ Len(c) \in Nat \ {0} /\ x \in {0, 1}
  /\ \A k \in 1 .. Len(c) : c[k] \in Cell \ {Colon, Nul}
  /\ r.command = "Get_Users_Count" =>
       Len(r.fields) = 1 /\ Len(c) = 1 + x /\ c[1] = r.fields[1]
  /\ r.command # "Get_Users_Count" =>
       /\ Len(c) = 2 * Len(r.fields) + x
       /\ \A i \in 1 .. Len(r.fields) : c[2 * i - 1] = r.fields[i] /\ c[2 * i] = Hash
       /\ x = 1 => c[2 * Len(r.fields) + 1] \in {"0", "1"}

\* What is heard are words, hashes and perhaps a flag, the fields of the first request first.
LEMMA HeardIs ==
  ASSUME NEW q \in Seq(Requests), q # <<>>
  PROVE  Fields(q[1], Heard(q), Len(Extra(q))) /\ (Len(q) = 1 => Len(Extra(q)) = 0)
<1> DEFINE r == q[1]
           c == Heard(q)
           x == Len(Extra(q))
           m == Len(r.fields)
           d == Content(r)
           n == Len(d)
<1>1. /\ r \in Requests /\ n \in Nat \ {0}
      /\ c \in Seq(Cell) /\ Len(c) = n + x /\ x \in {0, 1}
      /\ \A k \in 1 .. n : c[k] = d[k]
      /\ Len(q) = 1 => x = 0
      /\ x = 1 => c[n + 1] \in {"0", "1"}
  BY HeardCells DEF Cells
<1>2. /\ r.command \in Command /\ r.fields \in Seq(Word) /\ m \in Nat \ {0}
      /\ \A k \in 1 .. n : d[k] \in Cell \ {Colon, Nul}
      /\ r.command = "Get_Users_Count" => d = r.fields /\ m = 1
      /\ r.command # "Get_Users_Count" =>
           /\ n = 2 * m
           /\ \A i \in 1 .. m : d[2 * i - 1] = r.fields[i] /\ d[2 * i] = Hash
  BY <1>1, ContentIs, TokenizerAssumption DEF TokenizerAssumption, Request
<1>3. r.command = "Get_Users_Count" => n = 1
  BY <1>2
<1> HIDE DEF d, n, x, c, r, m
<1>4. \A k \in 1 .. Len(c) : c[k] \in Cell \ {Colon, Nul}
  <2>1. ASSUME NEW k \in 1 .. Len(c) PROVE c[k] \in Cell \ {Colon, Nul}
    <3>1. k \in 1 .. n \/ (x = 1 /\ k = n + 1)
      BY <1>1
    <3>2. {"0", "1"} \subseteq Cell \ {Colon, Nul}
      BY DEF Cell, Colon, Nul
    <3>3. QED
      BY <1>1, <1>2, <3>1, <3>2
  <2>2. QED
    BY <2>1
<1>5. Len(c) \in Nat \ {0}
  BY <1>1
<1>6. CASE r.command = "Get_Users_Count"
  <2>1. m = 1 /\ Len(c) = 1 + x /\ c[1] = r.fields[1]
    BY <1>1, <1>2, <1>3, <1>6
  <2>2. QED
    BY <1>1, <1>2, <1>4, <1>5, <1>6, <2>1 DEF Fields, m, r, c, x
<1>7. CASE r.command # "Get_Users_Count"
  <2>1. \A i \in 1 .. m : 2 * i - 1 \in 1 .. n /\ 2 * i \in 1 .. n
    BY <1>2, <1>7
  <2>2. /\ Len(c) = 2 * m + x
        /\ \A i \in 1 .. m : c[2 * i - 1] = r.fields[i] /\ c[2 * i] = Hash
        /\ x = 1 => c[2 * m + 1] \in {"0", "1"}
    BY <1>1, <1>2, <1>7, <2>1
  <2>3. QED
    BY <1>1, <1>2, <1>4, <1>5, <1>7, <2>2 DEF Fields, m, r, c, x
<1>8. QED
  BY <1>6, <1>7

\* As many hashes as fields.
LEMMA HashesCounted ==
  ASSUME NEW r, NEW c, NEW x, Fields(r, c, x), r.command # "Get_Users_Count"
  PROVE  Cardinality({i \in DOMAIN c : c[i] = Hash}) = Len(r.fields)
<1> DEFINE n == Len(r.fields)
           H == {i \in DOMAIN c : c[i] = Hash}
           f == [i \in 1 .. n |-> 2 * i]
<1>1. /\ c \in Seq(Cell) /\ n \in Nat /\ x \in {0, 1} /\ Len(c) = 2 * n + x
      /\ r.fields \in Seq(Word) /\ (x = 1 => c[2 * n + 1] \in {"0", "1"})
      /\ \A i \in 1 .. n : c[2 * i - 1] = r.fields[i] /\ c[2 * i] = Hash
  BY DEF Fields
<1>2. \A i \in 1 .. n : r.fields[i] # Hash
  BY <1>1, TokenizerAssumption DEF TokenizerAssumption
<1> HIDE DEF n
<1>3. DOMAIN c = 1 .. 2 * n + x
  BY <1>1
<1>4. ASSUME NEW i \in H
      PROVE  \E k \in 1 .. n : i = 2 * k
  <2>1. i \in 1 .. 2 * n /\ c[i] = Hash
    <3>1. i \in 1 .. 2 * n + x /\ c[i] = Hash
      BY <1>3
    <3>2. Hash \notin {"0", "1"}
      BY DEF Hash
    <3>3. i # 2 * n + 1 \/ x # 1
      BY <1>1, <3>1, <3>2
    <3>4. QED
      BY <1>1, <3>1, <3>3
  <2>2. \E k \in 1 .. n : i = 2 * k \/ i = 2 * k - 1
    <3> DEFINE k == (i + 1) \div 2
    <3>1. n \in Nat
      BY <1>1
    <3>2. k \in 1 .. n /\ (i = 2 * k \/ i = 2 * k - 1)
      BY <2>1, <3>1
    <3>3. QED
      BY <3>2
  <2>3. QED
    BY <1>1, <1>2, <2>1, <2>2
<1>5. \A k \in 1 .. n : 2 * k \in H
  <2>1. n \in Nat /\ \A k \in 1 .. n : c[2 * k] = Hash
    BY <1>1
  <2>2. \A k \in 1 .. n : 2 * k \in 1 .. 2 * n + x
    BY <1>1
  <2>3. QED
    BY <1>3, <2>1, <2>2
<1> HIDE DEF H
<1>6. f \in Bijection(1 .. n, H)
  <2>1. f \in [1 .. n -> H]
    BY <1>5
  <2>2. \A i, j \in 1 .. n : f[i] = f[j] => i = j
    BY <1>1
  <2>3. \A i \in H : \E k \in 1 .. n : f[k] = i
    BY <1>4
  <2>4. QED
    BY <2>1, <2>2, <2>3 DEF Bijection, Injection, Surjection, IsInjective
<1>7. IsFiniteSet(1 .. n) /\ Cardinality(1 .. n) = n
  <2>1. n \in Nat /\ n \in Int /\ 1 \in Int /\ (1 > n => n = 0)
    BY <1>1
  <2>2. Cardinality(1 .. n) = IF 1 > n THEN 0 ELSE n - 1 + 1
    BY <2>1, FS_Interval
  <2>3. QED
    BY <2>1, <2>2, FS_Interval
<1>8. ExistsBijection(1 .. n, H)
  BY <1>6 DEF ExistsBijection
<1>9. Cardinality(H) = n
  BY <1>7, <1>8, FS_Bijection
<1>10. QED
  BY <1>9 DEF H, n

\* A thread is where it was when nothing of it changes, nor the place.
LEMMA SameInOrder ==
  ASSUME NEW t \in Thread, pc'[t] = pc[t], taken'[t] = taken[t], memory'[t] = memory[t],
         parsed'[t] = parsed[t], cursor'[t] = cursor[t], place' = place, InOrder(t)
  PROVE  InOrder(t)'
BY DEF InOrder, First, GoesOn, Understood, Served, Alone

\* Nobody comes into the copy of a thread but by a place that was in it.
LEMMA SameApart ==
  ASSUME NEW t \in Thread, Apart(t), pc'[t] = pc[t], Len(memory'[t]) = Len(memory[t]),
         cursor'[t] = cursor[t],
         \A p \in {place'} \cup {cursor'[u] : u \in Thread \ {t}} : p # Nowhere =>
           \/ p.thread # t
           \/ \E q \in {place} \cup {cursor[u] : u \in Thread \ {t}} :
                q # Nowhere /\ q.thread = p.thread /\ q.text = p.text
  PROVE  Apart(t)'
<1> SUFFICES ASSUME pc[t] = "first" PROVE Apart(t)'
  BY DEF Apart
<1>1. cursor'[t] \in {Nowhere, At(t, Len(memory'[t]), 1)}
  BY DEF Apart
<1>2. \A p \in {place'} \cup {cursor'[u] : u \in Thread \ {t}} :
        p # Nowhere => p.thread # t \/ p.text # Len(memory'[t])
  BY DEF Apart
<1>3. QED
  BY <1>1, <1>2 DEF Apart

\* A request that is sent waits outside of what is parsed.
LEMMA SendParses ==
  ASSUME Parsing, NEW t \in Thread, NEW r \in Requests, Send(t, r)
  PROVE  Parsing'
<1>1. UNCHANGED <<pc, taken, memory, parsed, place, cursor, disturbed>>
  BY DEF Send
<1>2. QED
  BY <1>1 DEF Parsing, InOrder, Apart, First, GoesOn, Understood, Served, Alone

\* What recv() has written, cell by cell.
LEMMA ReceivedIs ==
  ASSUME NEW s \in Seq(Cell), NEW q \in Seq(Requests), s # <<>>, Stands(s, q),
         NEW old \in Seq(Cell), Ends(old), NEW y, y = Received(old, s)
  PROVE  /\ q # <<>> /\ y \in Seq(Cell)
         /\ y[1] = q[1].authorized /\ y[2] = Colon /\ y[3] = q[1].command /\ y[4] = Colon
         /\ Follows(y, 4, Heard(q))
<1> DEFINE r == q[1]
           l == Line(r)
           d == Content(r)
           n == Len(d)
           c == Heard(q)
           x == Len(Extra(q))
<1>1. q # <<>> /\ Len(s) \in Nat \ {0}
  BY StandsFirst
<1>2. PICK rest \in Seq(Cell) :
        /\ s = l \o rest
        /\ Len(q) = 1 => rest = <<>>
        /\ Len(q) > 1 => Len(rest) >= 2 /\ rest[1] = q[2].authorized /\ rest[2] = Colon
  BY <1>1 DEF Stands
<1>3. /\ y \in Seq(Cell) /\ \A i \in 1 .. Len(s) : y[i] = s[i]
      /\ Len(s) + 1 \in DOMAIN y /\ y[Len(s) + 1] = Nul
  BY <1>1, ReceivedEnds
<1>4. /\ r \in Requests /\ n \in Nat \ {0} /\ Len(c) = n + x /\ x \in {0, 1}
      /\ \A k \in 1 .. n : c[k] = d[k]
      /\ Len(q) = 1 => x = 0
      /\ Len(q) # 1 => x = 1 /\ c[n + 1] = q[2].authorized
  BY <1>1, HeardCells DEF Cells
<1>5. /\ l \in Seq(Cell) /\ Len(l) = 4 + n
      /\ l[1] = r.authorized /\ l[2] = Colon /\ l[3] = r.command /\ l[4] = Colon
      /\ \A k \in 1 .. n : l[4 + k] = d[k]
  BY <1>4, LineIs
<1>6. Len(q) \in Nat /\ (Len(q) = 1 \/ Len(q) > 1)
  <2> DEFINE o == Len(q)
  <2>1. o \in Nat \ {0}
    BY <1>1
  <2> HIDE DEF o
  <2>2. o \in Nat /\ (o = 1 \/ o > 1)
    BY <2>1
  <2>3. QED
    BY <2>2 DEF o
<1> DEFINE z == Len(rest)
<1>7. /\ z \in Nat /\ Len(s) = 4 + n + z
      /\ \A i \in 1 .. 4 + n + z : s[i] = IF i <= 4 + n THEN l[i] ELSE rest[i - (4 + n)]
  <2> HIDE DEF l, n
  <2>1. /\ Len(l \o rest) = Len(l) + Len(rest) /\ Len(rest) \in Nat
        /\ \A i \in 1 .. Len(l) + Len(rest) :
             (l \o rest)[i] = IF i <= Len(l) THEN l[i] ELSE rest[i - Len(l)]
    <3>1. l \in Seq(Cell) /\ rest \in Seq(Cell)
      BY <1>5
    <3>2. QED
      BY <3>1, ConcatenatedIs
  <2>2. Len(l) = 4 + n /\ s = l \o rest
    BY <1>2, <1>5
  <2>3. QED
    BY <2>1, <2>2
<1>8. /\ Len(q) = 1 => z = 0
      /\ Len(q) > 1 => z >= 2 /\ rest[1] = q[2].authorized /\ rest[2] = Colon
  BY <1>2
<1> HIDE DEF r, l, d, n, c, x, z
<1>9. \A i \in 1 .. 4 + n : y[i] = l[i]
  BY <1>3, <1>4, <1>7
<1>10. y[1] = r.authorized /\ y[2] = Colon /\ y[3] = r.command /\ y[4] = Colon
  BY <1>4, <1>5, <1>9
<1>11. \A k \in 1 .. n : y[4 + k] = c[k]
  <2>1. \A k \in 1 .. n : 4 + k \in 1 .. 4 + n
    BY <1>4
  <2>2. QED
    BY <1>4, <1>5, <1>9, <2>1
<1>12. Follows(y, 4, c)
  <2>1. CASE Len(q) = 1
    <3>1. x = 0 /\ z = 0 /\ Len(c) = n /\ Len(s) = 4 + n
      BY <1>4, <1>7, <1>8, <2>1
    <3>2. QED
      BY <1>3, <1>11, <3>1 DEF Follows
  <2>2. CASE Len(q) > 1
    <3> DEFINE o == Len(q)
    <3>1. o # 1
      <4>1. o \in Nat /\ o > 1
        BY <1>6, <2>2
      <4> HIDE DEF o
      <4>2. QED
        BY <4>1
    <3>2. /\ x = 1 /\ z >= 2 /\ Len(c) = n + 1 /\ c[n + 1] = q[2].authorized
          /\ rest[1] = q[2].authorized /\ rest[2] = Colon
      BY <1>4, <1>8, <2>2, <3>1
    <3>3. s[4 + n + 1] = rest[1] /\ s[4 + n + 2] = rest[2]
      <4>1. s[4 + n + 1] = rest[4 + n + 1 - (4 + n)] /\ s[4 + n + 2] = rest[4 + n + 2 - (4 + n)]
        BY <1>4, <1>7, <3>2
      <4>2. 4 + n + 1 - (4 + n) = 1 /\ 4 + n + 2 - (4 + n) = 2
        BY <1>4
      <4>3. QED
        BY <4>1, <4>2
    <3>4. /\ y[4 + n + 1] = s[4 + n + 1] /\ y[4 + n + 2] = s[4 + n + 2]
          /\ 4 + n + 2 \in DOMAIN y
      BY <1>3, <1>4, <1>7, <3>2
    <3>5. \A k \in 1 .. n + 1 : y[4 + k] = c[k]
      <4>1. ASSUME NEW k \in 1 .. n + 1 PROVE y[4 + k] = c[k]
        <5>1. k \in 1 .. n \/ k = n + 1
          BY <1>4
        <5>2. 4 + (n + 1) = 4 + n + 1
          BY <1>4
        <5>3. QED
          BY <1>11, <3>2, <3>3, <3>4, <5>1, <5>2
      <4>2. QED
        BY <4>1
    <3>6. 4 + (n + 1) + 1 = 4 + n + 2
      BY <1>4
    <3>7. QED
      BY <3>2, <3>3, <3>4, <3>5, <3>6 DEF Follows
  <2>3. QED
    BY <1>6, <2>1, <2>2
<1>13. QED
  BY <1>1, <1>3, <1>10, <1>12 DEF r, c

\* What has arrived is received: it stands in the buffer, whatever was there before.
LEMMA ReceiveParses ==
  ASSUME TypeInv, Parsing, NEW t \in Thread, Receive(t)
  PROVE  Parsing'
<1> DEFINE s == memory[t][1]
           l == stream[t]
           q == waiting[t]
           x == Received(s, l)
<1>1. /\ s \in Seq(Cell) /\ Ends(s) /\ l \in Seq(Cell) /\ l # <<>>
      /\ q \in Seq(Requests) /\ Stands(l, q)
  BY DEF Receive, TypeInv, Inv, Typing, Arriving, Terminated
<1>2. /\ q # <<>> /\ x \in Seq(Cell)
      /\ x[1] = q[1].authorized /\ x[2] = Colon /\ x[3] = q[1].command /\ x[4] = Colon
      /\ Follows(x, 4, Heard(q))
  BY <1>1, ReceivedIs
<1>3. memory' = [memory EXCEPT ![t][1] = x]
  BY DEF Receive
<1> HIDE DEF x
<1>4. memory'[t][1] = x /\ \A u \in Thread : u # t => memory'[u] = memory[u]
  BY <1>2, <1>3, BufferReplaced DEF TypeInv, Inv
<1>5. /\ pc'[t] = "auth" /\ parsed'[t] = Nothing /\ taken'[t] = q
      /\ \A u \in Thread : u # t => /\ pc'[u] = pc[u] /\ taken'[u] = taken[u]
                                    /\ parsed'[u] = parsed[u] /\ disturbed'[u] = disturbed[u]
      /\ UNCHANGED <<place, cursor>>
  BY DEF Receive, TypeInv, Inv, Typing
<1>6. First(t)' = q[1]
  BY <1>5 DEF First
<1> HIDE DEF q
<1>7. InOrder(t)' /\ Apart(t)'
  BY <1>2, <1>4, <1>5, <1>6 DEF InOrder, Apart, Nothing
<1>8. ASSUME NEW u \in Thread, u # t
      PROVE  Apart(u)' /\ (~disturbed'[u] => InOrder(u)')
  <2>1. Apart(u) /\ (~disturbed[u] => InOrder(u))
    BY DEF Parsing
  <2>2. Apart(u)'
    BY <1>4, <1>5, <1>8, <2>1 DEF Apart
  <2>3. QED
    BY <1>4, <1>5, <1>8, <2>1, <2>2, SameInOrder
<1>9. QED
  BY <1>7, <1>8 DEF Parsing

\* An answered request is not looked at any more.
LEMMA AnswerParses ==
  ASSUME TypeInv, Parsing, NEW t \in Thread, Answer(t)
  PROVE  Parsing'
<1>1. /\ pc'[t] = "recv" /\ UNCHANGED <<taken, parsed, place, cursor, disturbed>>
      /\ \A u \in Thread : u # t => pc'[u] = pc[u] /\ memory'[u] = memory[u]
  BY DEF Answer, TypeInv, Inv, Typing, link
<1>2. (~disturbed'[t] => InOrder(t)') /\ Apart(t)'
  <2>1. pc[t] = "done"
    BY DEF Answer
  <2>2. QED
    BY <1>1, <2>1 DEF Parsing, InOrder, Apart
<1>3. ASSUME NEW u \in Thread, u # t
      PROVE  Apart(u)' /\ (~disturbed'[u] => InOrder(u)')
  <2>1. Apart(u) /\ (~disturbed[u] => InOrder(u))
    BY DEF Parsing
  <2>2. Apart(u)'
    BY <1>1, <1>3, <2>1 DEF Apart
  <2>3. QED
    BY <1>1, <1>3, <2>1, <2>2, SameInOrder
<1>4. QED
  BY <1>2, <1>3 DEF Parsing

\* A call loads the place that the same thread has left, if nobody came between.
LEMMA LoadParses ==
  ASSUME TypeInv, Parsing, NEW t \in Thread, Load(t)
  PROVE  Parsing'
<1>1. /\ UNCHANGED <<pc, taken, memory, parsed, place, disturbed>>
      /\ \A u \in Thread : u # t => cursor'[u] = cursor[u]
  BY DEF Load, TypeInv, Inv, Typing, link
<1>2. /\ pc[t] \in {"command", "content", "next"} => cursor'[t] = place
      /\ pc[t] = "first" => cursor'[t] = At(t, Len(memory[t]), 1)
      /\ pc[t] = "auth" => cursor'[t] = At(t, 1, 1)
      /\ pc[t] \in {"auth", "command", "content", "first", "next"}
  BY DEF Load, TypeInv, Inv, Typing, At, Calling
<1>3. InOrder(t) => InOrder(t)'
  BY <1>1, <1>2 DEF InOrder, GoesOn, First, Understood, Served, Alone
<1>4. Apart(t)'
  <2>1. Apart(t)
    BY DEF Parsing
  <2>2. QED
    BY <1>1, <1>2, <2>1 DEF Apart
<1>5. ASSUME NEW u \in Thread, u # t
      PROVE  Apart(u)' /\ (InOrder(u) => InOrder(u)')
  <2>1. Apart(u)
    BY DEF Parsing
  <2>2. cursor'[t] = place \/ cursor'[t].thread = t
    BY <1>2 DEF At
  <2>3. \A p \in {place'} \cup {cursor'[v] : v \in Thread \ {u}} :
          p \in {place} \cup {cursor[v] : v \in Thread \ {u}} \/ p.thread = t
    BY <1>1, <2>2
  <2>4. Apart(u)'
    BY <1>1, <1>5, <2>1, <2>3, SameApart
  <2>5. QED
    BY <1>1, <1>5, <2>4, SameInOrder
<1>6. QED
  BY <1>1, <1>3, <1>4, <1>5 DEF Parsing

\* What the second half of a call does to the other threads.
LEMMA OthersParse ==
  ASSUME TypeInv, Parsing, NEW t \in Thread, NEW d \in Delimiter, Store(t, d), StoredText(t, d),
         \A u \in Thread : u # t => pc'[u] = pc[u] /\ parsed'[u] = parsed[u],
         NEW u \in Thread, u # t
  PROVE  Apart(u)' /\ (~disturbed'[u] => InOrder(u)')
<1> DEFINE p == cursor[t]
           n == Len(memory[u])
<1>1. /\ p # Nowhere /\ p \in Place /\ p.text \in DOMAIN memory[p.thread]
      /\ Text(p) \in Seq(Cell) /\ memory[u] \in Seq(Seq(Cell)) /\ memory[u] # <<>>
  BY DEF Store, TypeInv, Inv, Typing, Text, Place
<1>2. /\ place' = Behind(p, d) /\ cursor'[t] = Nowhere /\ taken' = taken
      /\ \A v \in Thread : v # t => cursor'[v] = cursor[v]
      /\ disturbed'[u] = (disturbed[u] \/ Busy(u))
  BY DEF Store, TypeInv, Inv, Typing, link
<1>3. place'.thread = p.thread /\ place'.text = p.text
  BY <1>1, <1>2, BehindKeeps
<1>4. /\ Len(memory'[u]) = n
      /\ \A k \in DOMAIN memory[u] : u # p.thread \/ k # p.text => memory'[u][k] = memory[u][k]
  <2> DEFINE e == Ended(p, d)
  <2>1. /\ e \in [Thread -> Seq(Seq(Cell))] /\ Len(e[u]) = n
        /\ \A k \in DOMAIN memory[u] : u # p.thread \/ k # p.text => e[u][k] = memory[u][k]
    BY <1>1, EndedKeeps, EndedIs DEF TypeInv, Inv
  <2>2. memory'[u] = e[u]
    BY <2>1 DEF StoredText
  <2> HIDE DEF e
  <2>3. QED
    BY <2>1, <2>2
<1>5. Apart(u) /\ (~disturbed[u] => InOrder(u))
  BY DEF Parsing
<1>6. Apart(u)'
  <2>1. ASSUME NEW q \in {place'} \cup {cursor'[v] : v \in Thread \ {u}}, q # Nowhere
        PROVE  \E o \in {place} \cup {cursor[v] : v \in Thread \ {u}} :
                 o # Nowhere /\ o.thread = q.thread /\ o.text = q.text
    <3>1. CASE q = place'
      <4>1. p \in {cursor[v] : v \in Thread \ {u}}
        OBVIOUS
      <4> HIDE DEF p
      <4>2. QED
        BY <1>1, <1>3, <3>1, <4>1
    <3>2. CASE q # place'
      <4>1. PICK v \in Thread \ {u} : q = cursor'[v]
        BY <2>1, <3>2
      <4>2. v # t /\ q = cursor[v]
        BY <1>2, <2>1, <4>1
      <4>3. QED
        BY <2>1, <4>1, <4>2
    <3>3. QED
      BY <3>1, <3>2
  <2>2. QED
    BY <1>2, <1>4, <1>5, <2>1, SameApart
<1>7. ASSUME ~disturbed'[u]
      PROVE  InOrder(u)'
  <2>1. InOrder(u) /\ pc[u] \notin {"auth", "command", "content", "next"}
    BY <1>2, <1>5, <1>7 DEF Busy, Calling
  <2>2. pc'[u] = pc[u] /\ parsed'[u] = parsed[u] /\ taken'[u] = taken[u]
    BY <1>2
  <2>3. pc[u] = "first" => memory'[u][Len(memory'[u])] = memory[u][Len(memory[u])]
    <3>1. SUFFICES ASSUME pc[u] = "first"
                   PROVE  memory'[u][n] = memory[u][n]
      BY <1>4
    <3>2. p.thread # u \/ p.text # n
      BY <1>1, <1>5, <3>1 DEF Apart
    <3>3. n \in DOMAIN memory[u]
      BY <1>1
    <3>4. QED
      BY <1>4, <3>2, <3>3
  <2>4. QED
    BY <1>2, <2>1, <2>2, <2>3 DEF InOrder, Understood, Served, Alone, First
<1>8. QED
  BY <1>6, <1>7

\* The cells of s from i up to the one before j.
Piece(s, i, j) == SubSeq(s, i, j - 1)

\* The text s with a NUL at j.
Cut(x, s, j) ==
  /\ x \in Seq(Cell) /\ Len(x) = Len(s)
  /\ \A k \in DOMAIN s : x[k] = IF k = j THEN Nul ELSE s[k]

\* The texts q, all but the one at b as in m.
AllBut(q, m, b) == Len(q) = Len(m) /\ \A k \in DOMAIN m : k # b => q[k] = m[k]

\* A call of t in its b-th text has found the cells from i up to j.
Found(t, d, b, i, j) ==
  /\ Token(cursor[t], d) = Piece(memory[t][b], i, j)
  /\ place' = At(t, b, IF memory[t][b][j] = d THEN j + 1 ELSE j)
  /\ cursor'[t] = Nowhere /\ disturbed'[t] = disturbed[t] /\ taken' = taken
  /\ AllBut(Ended(cursor[t], d)[t], memory[t], b)
  /\ Cut(Ended(cursor[t], d)[t][b], memory[t][b], j)

\* It finds the token that is there.
LEMMA OwnCall ==
  ASSUME TypeInv, NEW t \in Thread, NEW d \in Delimiter, Store(t, d),
         NEW b, NEW i, NEW j, cursor[t] = At(t, b, i), b \in DOMAIN memory[t],
         Stops(memory[t][b], i, j, d)
  PROVE  Found(t, d, b, i, j)
<1> DEFINE p == cursor[t]
           s == memory[t][b]
<1>1. /\ p.thread = t /\ p.text = b /\ p.at = i /\ p # Nowhere
      /\ p \in Place /\ p.text \in DOMAIN memory[p.thread]
  BY DEF At, Store, TypeInv, Inv, Typing
<1>2. s \in Seq(Cell) /\ Text(p) = s
  BY <1>1 DEF TypeInv, Inv, Typing, Text
<1>3. Start(s, i, d) = i /\ Stop(s, i, d) = j
  BY <1>2, TokenEnds
<1>4. Token(p, d) = Piece(s, i, j)
  BY <1>1, <1>2, <1>3 DEF Token, Piece
<1>5. CellAt(s, j) = s[j]
  BY DEF CellAt, Stops
<1>6. place' = At(t, b, IF s[j] = d THEN j + 1 ELSE j)
  <2>1. place' = [p EXCEPT !.at = IF s[j] = d THEN j + 1 ELSE j]
    BY <1>1, <1>2, <1>3, <1>5 DEF Store, Behind
  <2>2. QED
    BY <2>1 DEF At
<1>7. cursor'[t] = Nowhere /\ disturbed'[t] = disturbed[t] /\ taken' = taken
  BY DEF Store, TypeInv, Inv, Typing, link
<1>8. Ended(p, d)[t][b] \in Seq(Cell)
  <2>1. Ended(p, d) \in [Thread -> Seq(Seq(Cell))] /\ DOMAIN Ended(p, d)[t] = DOMAIN memory[t]
    BY <1>1, EndedKeeps DEF TypeInv, Inv
  <2>2. QED
    BY <2>1
<1>9. /\ Len(Ended(p, d)[t]) = Len(memory[t])
      /\ \A k \in DOMAIN memory[t] : k # b => Ended(p, d)[t][k] = memory[t][k]
      /\ Len(Ended(p, d)[t][b]) = Len(s)
      /\ \A k \in DOMAIN s : Ended(p, d)[t][b][k] = IF k = j THEN Nul ELSE s[k]
  <2>1. Typing
    BY DEF TypeInv, Inv
  <2>2. /\ \A u \in Thread : Len(Ended(p, d)[u]) = Len(memory[u])
        /\ \A u \in Thread : \A k \in DOMAIN memory[u] :
             u # p.thread \/ k # p.text => Ended(p, d)[u][k] = memory[u][k]
        /\ Len(Ended(p, d)[p.thread][p.text]) = Len(Text(p))
        /\ \A k \in DOMAIN Text(p) :
             Ended(p, d)[p.thread][p.text][k] =
               IF k = Stop(Text(p), p.at, d) THEN Nul ELSE Text(p)[k]
    BY <1>1, <2>1, EndedIs
  <2> HIDE DEF p
  <2>3. QED
    BY <1>1, <1>2, <1>3, <2>2
<1>10. AllBut(Ended(p, d)[t], memory[t], b) /\ Cut(Ended(p, d)[t][b], s, j)
  BY <1>8, <1>9 DEF AllBut, Cut
<1>11. QED
  BY <1>4, <1>6, <1>7, <1>10 DEF Found

\* A token of one cell.
LEMMA OneCell ==
  ASSUME NEW s \in Seq(Cell), NEW i \in DOMAIN s, NEW j, j = i + 1
  PROVE  Piece(s, i, j) = <<s[i]>>
<1>1. i \in 1 .. Len(s) /\ j - 1 = i /\ s[i] \in Cell
  OBVIOUS
<1> DEFINE x == SubSeq(s, i, i)
<1>2. x \in Seq(Cell) /\ Len(x) = 1 /\ x[1] = s[i]
  BY <1>1
<1> HIDE DEF x
<1>3. x = <<s[i]>>
  BY <1>1, <1>2
<1>4. QED
  BY <1>1, <1>3 DEF x, Piece

\* The number is read, and the next call goes on at the command.
LEMMA AuthorizedParses ==
  ASSUME TypeInv, Parsing, NEW t \in Thread, ParseAuthorized(t), ~disturbed'[t]
  PROVE  InOrder(t)'
<1> DEFINE s == memory[t][1]
           r == First(t)
           c == Heard(taken[t])
           n == Len(c)
           e == Ended(cursor[t], Colon)
<1>1. Store(t, Colon) /\ pc[t] = "auth" /\ cursor[t] # Nowhere /\ memory' = e
  BY DEF ParseAuthorized, Store
<1>2. /\ disturbed'[t] = disturbed[t] /\ memory[t] \in Seq(Seq(Cell)) /\ memory[t] # <<>>
      /\ s \in Seq(Cell) /\ parsed[t] \in Parsed /\ taken[t] \in Seq(Requests)
  BY <1>1 DEF Store, TypeInv, Inv, Typing
<1>3. InOrder(t)
  BY <1>2 DEF Parsing
<1>4. /\ taken[t] # <<>> /\ Follows(s, 4, c) /\ s[1] = r.authorized /\ s[2] = Colon
      /\ s[3] = r.command /\ s[4] = Colon /\ parsed[t].fields = <<>>
  BY <1>1, <1>3 DEF InOrder
<1>5. cursor[t] = At(t, 1, 1)
  BY <1>1 DEF TypeInv, Inv, Own, At
<1>6. n \in Nat \ {0} /\ r.authorized \in {"0", "1"}
  BY <1>2, <1>4, HeardIs, FirstIs DEF TypeInv, Inv, Fields
<1> HIDE DEF r, c
<1>7. /\ DOMAIN s = 1 .. Len(s) /\ 4 + n + 1 \in DOMAIN s
      /\ \A k \in 1 .. n : s[4 + k] = c[k]
      /\ s[4 + n + 1] \in {Nul, Colon}
  BY <1>2, <1>4 DEF Follows
<1>8. 2 \in DOMAIN s /\ 1 \in DOMAIN memory[t]
  BY <1>2, <1>6, <1>7
<1>9. \A k \in 1 .. 1 : s[k] \notin {Colon, Nul}
  BY <1>4, <1>6 DEF Colon, Nul
<1>10. /\ Token(cursor[t], Colon) = Piece(s, 1, 2)
       /\ place' = At(t, 1, 3) /\ cursor'[t] = Nowhere /\ taken' = taken
       /\ Cut(e[t][1], s, 2)
  <2>1. Stops(s, 1, 2, Colon)
    BY <1>4, <1>7, <1>8, <1>9 DEF Stops
  <2>2. Colon \in Delimiter
    BY DEF Delimiter
  <2>3. /\ Token(cursor[t], Colon) = Piece(s, 1, 2)
        /\ place' = At(t, 1, IF s[2] = Colon THEN 2 + 1 ELSE 2)
        /\ cursor'[t] = Nowhere /\ taken' = taken
        /\ Cut(e[t][1], s, 2)
    <3>1. Found(t, Colon, 1, 1, 2)
      BY <1>1, <1>5, <1>8, <2>1, <2>2, OwnCall
    <3>2. QED
      BY <3>1 DEF Found
  <2>4. QED
    BY <1>4, <2>3
<1>11. Token(cursor[t], Colon) = <<r.authorized>>
  <2>1. 1 \in DOMAIN s /\ 2 = 1 + 1
    BY <1>8, <1>7
  <2>2. Piece(s, 1, 2) = <<s[1]>>
    BY <1>2, <2>1, OneCell
  <2>3. QED
    BY <1>4, <1>10, <2>2
<1>12. Atoi(Token(cursor[t], Colon)) = r.authorized
  BY <1>6, <1>11 DEF Atoi
<1>13. /\ pc'[t] = "command" /\ parsed'[t].authorized = r.authorized
       /\ parsed'[t].fields = <<>>
  <2>1. /\ pc' = [pc EXCEPT ![t] = "command"]
        /\ parsed' = [parsed EXCEPT ![t].authorized = Atoi(Token(cursor[t], Colon))]
    BY <1>11 DEF ParseAuthorized
  <2>2. QED
    BY <1>2, <1>4, <1>12, <2>1 DEF Parsed, TypeInv, Inv, Typing
<1> DEFINE z == e[t][1]
<1>14. z[3] = r.command /\ z[4] = Colon /\ Follows(z, 4, c)
  <2>1. z \in Seq(Cell)
    BY <1>10 DEF Cut
  <2>2. Len(z) = Len(s) /\ \A k \in DOMAIN s : z[k] = IF k = 2 THEN Nul ELSE s[k]
    BY <1>10 DEF Cut
  <2> HIDE DEF z, s, n, e
  <2>3. 3 \in DOMAIN s /\ 4 \in DOMAIN s /\ \A k \in 1 .. n + 1 : 4 + k \in DOMAIN s
    BY <1>6, <1>7
  <2>4. z[3] = s[3] /\ z[4] = s[4] /\ \A k \in 1 .. n : z[4 + k] = s[4 + k]
    BY <1>6, <2>2, <2>3
  <2>5. 4 + n + 1 \in DOMAIN z /\ z[4 + n + 1] \in {Nul, Colon}
    BY <1>6, <1>7, <2>1, <2>2
  <2>6. QED
    BY <1>4, <1>7, <2>4, <2>5 DEF Follows, n
<1>15. First(t)' = r /\ memory'[t][1] = z /\ taken'[t] = taken[t]
  BY <1>1, <1>10 DEF First, r
<1> HIDE DEF z
<1>16. QED
  BY <1>4, <1>10, <1>13, <1>14, <1>15 DEF InOrder, GoesOn, c

\* The command is read, and the next call goes on at the content.
LEMMA CommandParses ==
  ASSUME TypeInv, Parsing, NEW t \in Thread, ParseCommand(t), ~disturbed'[t]
  PROVE  InOrder(t)'
<1> DEFINE s == memory[t][1]
           r == First(t)
           c == Heard(taken[t])
           n == Len(c)
           e == Ended(cursor[t], Colon)
<1>1. Store(t, Colon) /\ pc[t] = "command" /\ cursor[t] # Nowhere /\ memory' = e
  BY DEF ParseCommand, Store
<1>2. /\ disturbed'[t] = disturbed[t] /\ memory[t] \in Seq(Seq(Cell)) /\ memory[t] # <<>>
      /\ s \in Seq(Cell) /\ parsed[t] \in Parsed /\ taken[t] \in Seq(Requests)
  BY <1>1 DEF Store, TypeInv, Inv, Typing
<1>3. InOrder(t)
  BY <1>2 DEF Parsing
<1>4. /\ taken[t] # <<>> /\ Follows(s, 4, c) /\ s[3] = r.command /\ s[4] = Colon
      /\ parsed[t].fields = <<>> /\ parsed[t].authorized = r.authorized
  BY <1>1, <1>3 DEF InOrder
<1>5. cursor[t] = At(t, 1, 3)
  BY <1>1, <1>3 DEF InOrder, GoesOn
<1>6. n \in Nat \ {0} /\ r.command \in Command
  BY <1>2, <1>4, HeardIs DEF Fields, First
<1> HIDE DEF r, c
<1>7. /\ DOMAIN s = 1 .. Len(s) /\ 4 + n + 1 \in DOMAIN s
      /\ \A k \in 1 .. n : s[4 + k] = c[k]
      /\ s[4 + n + 1] \in {Nul, Colon}
  BY <1>2, <1>4 DEF Follows
<1>8. 3 \in DOMAIN s /\ 4 \in DOMAIN s /\ 1 \in DOMAIN memory[t]
  BY <1>2, <1>6, <1>7
<1>9. s[3] \notin {Colon, Nul}
  BY <1>4, <1>6 DEF Colon, Nul, Command, Unauthorized, Authorized
<1>10. /\ Token(cursor[t], Colon) = Piece(s, 3, 4)
       /\ place' = At(t, 1, 5) /\ cursor'[t] = Nowhere /\ taken' = taken
       /\ Cut(e[t][1], s, 4)
  <2>1. Stops(s, 3, 4, Colon)
    BY <1>4, <1>7, <1>8, <1>9 DEF Stops
  <2>2. Colon \in Delimiter
    BY DEF Delimiter
  <2>3. /\ Token(cursor[t], Colon) = Piece(s, 3, 4)
        /\ place' = At(t, 1, IF s[4] = Colon THEN 4 + 1 ELSE 4)
        /\ cursor'[t] = Nowhere /\ taken' = taken
        /\ Cut(e[t][1], s, 4)
    <3>1. Found(t, Colon, 1, 3, 4)
      BY <1>1, <1>5, <1>8, <2>1, <2>2, OwnCall
    <3>2. QED
      BY <3>1 DEF Found
  <2>4. QED
    BY <1>4, <2>3
<1>11. Token(cursor[t], Colon) = <<r.command>>
  <2>1. 4 = 3 + 1
    OBVIOUS
  <2>2. Piece(s, 3, 4) = <<s[3]>>
    BY <1>2, <1>8, <2>1, OneCell
  <2>3. QED
    BY <1>4, <1>10, <2>2
<1>12. /\ pc'[t] = "content" /\ parsed'[t].authorized = r.authorized
       /\ parsed'[t].fields = <<>> /\ parsed'[t].command = <<r.command>>
  <2>1. /\ pc' = [pc EXCEPT ![t] = "content"]
        /\ parsed' = [parsed EXCEPT ![t].command = Token(cursor[t], Colon)]
    BY <1>11 DEF ParseCommand
  <2>2. QED
    BY <1>2, <1>4, <1>11, <2>1 DEF Parsed, TypeInv, Inv, Typing
<1> DEFINE z == e[t][1]
<1>13. Follows(z, 4, c)
  <2>1. z \in Seq(Cell)
    BY <1>10 DEF Cut
  <2>2. Len(z) = Len(s) /\ \A k \in DOMAIN s : z[k] = IF k = 4 THEN Nul ELSE s[k]
    BY <1>10 DEF Cut
  <2> HIDE DEF z, s, n, e
  <2>3. \A k \in 1 .. n + 1 : 4 + k \in DOMAIN s
    BY <1>6, <1>7
  <2>4. \A k \in 1 .. n : z[4 + k] = s[4 + k]
    BY <1>6, <2>2, <2>3
  <2>5. 4 + n + 1 \in DOMAIN z /\ z[4 + n + 1] \in {Nul, Colon}
    BY <1>6, <1>7, <2>1, <2>2
  <2>6. QED
    BY <1>7, <2>4, <2>5 DEF Follows, n
<1>14. First(t)' = r /\ memory'[t][1] = z /\ taken'[t] = taken[t]
  BY <1>1, <1>10 DEF First, r
<1> HIDE DEF z
<1>15. QED
  BY <1>4, <1>10, <1>12, <1>13, <1>14 DEF InOrder, GoesOn, c

\* A token that is all of a content.
LEMMA ContentPiece ==
  ASSUME NEW s \in Seq(Cell), NEW c \in Seq(Cell), Len(c) \in Nat \ {0}, NEW i \in Nat,
         Follows(s, i, c), NEW h, h = i + 1, NEW j, j = i + Len(c) + 1
  PROVE  Piece(s, h, j) = c
<1> DEFINE n == Len(c)
           x == SubSeq(s, i + 1, i + n)
<1>1. /\ n \in Nat \ {0} /\ j - 1 = i + n /\ i + n <= Len(s)
      /\ Len(s) \in Nat /\ \A k \in 1 .. n : s[i + k] = c[k]
  BY DEF Follows
<1> HIDE DEF n
<1>2. \A k \in i + 1 .. i + n : s[k] \in Cell
  BY <1>1
<1>3. x \in Seq(Cell) /\ Len(x) = n /\ \A k \in 1 .. n : x[k] = s[i + k]
  BY <1>1, <1>2
<1> HIDE DEF x
<1>4. \A k \in 1 .. n : x[k] = c[k]
  BY <1>1, <1>3
<1>5. Len(c) = n
  BY DEF n
<1>6. x = c
  BY <1>1, <1>3, <1>4, <1>5
<1>7. QED
  BY <1>1, <1>6 DEF Piece, x

\* No place is in a copy that is only now made.
LEMMA DispatchApart ==
  ASSUME TypeInv, NEW t \in Thread, Dispatch(t)
  PROVE  Apart(t)'
<1> DEFINE p == cursor[t]
           e == Ended(p, Colon)
           n == Len(memory[t])
<1>1. /\ Store(t, Colon) /\ Colon \in Delimiter /\ p # Nowhere /\ p \in Place
      /\ p.text \in DOMAIN memory[p.thread] /\ memory[t] \in Seq(Seq(Cell)) /\ n \in Nat
      /\ Text(p) \in Seq(Cell)
  BY DEF Dispatch, ContentEnd, Store, TypeInv, Inv, Typing, Delimiter, Text, Place
<1>2. SUFFICES ASSUME pc'[t] = "first" PROVE Apart(t)'
  BY DEF Apart
<1>3. e \in [Thread -> Seq(Seq(Cell))] /\ Len(e[t]) = n
  BY <1>1, EndedKeeps, EndedIs DEF TypeInv, Inv
<1>4. \E c : memory' = [e EXCEPT ![t] = Append(@, c)]
  <2>1. pc' # [pc EXCEPT ![t] = "done"]
    BY <1>2 DEF TypeInv, Inv, Typing
  <2>2. QED
    BY <2>1 DEF Dispatch, ContentEnd
<1> HIDE DEF e
<1>5. Len(memory'[t]) = n + 1
  BY <1>1, <1>3, <1>4
<1>6. /\ place' = Behind(p, Colon) /\ cursor'[t] = Nowhere
      /\ \A u \in Thread : u # t => cursor'[u] = cursor[u]
  BY <1>1 DEF Store, TypeInv, Inv, Typing
<1>7. ASSUME NEW q \in {place'} \cup {cursor'[u] : u \in Thread \ {t}}, q # Nowhere, q.thread = t
      PROVE  q.text \in DOMAIN memory[t]
  <2>1. CASE q = place'
    <3>1. place'.thread = p.thread /\ place'.text = p.text
      BY <1>1, <1>6, BehindKeeps
    <3> HIDE DEF p
    <3>2. QED
      BY <1>1, <1>7, <2>1, <3>1
  <2>2. CASE q # place'
    <3>1. PICK u \in Thread \ {t} : q = cursor'[u]
      BY <1>7, <2>2
    <3>2. q = cursor[u]
      BY <1>6, <3>1
    <3>3. QED
      BY <1>7, <3>1, <3>2 DEF TypeInv, Inv, Typing
  <2>3. QED
    BY <2>1, <2>2
<1>8. n + 1 \notin DOMAIN memory[t]
  BY <1>1
<1>9. QED
  BY <1>5, <1>6, <1>7, <1>8 DEF Apart

\* The content is found, and the copy of it is ready to be split.
LEMMA DispatchParses ==
  ASSUME TypeInv, Parsing, NEW t \in Thread, Dispatch(t), ~disturbed'[t]
  PROVE  InOrder(t)'
<1> DEFINE s == memory[t][1]
           r == First(t)
           c == Heard(taken[t])
           x == Len(Extra(taken[t]))
           n == Len(c)
           e == Ended(cursor[t], Colon)
           copy == Append(c, Nul)
           hashes == Cardinality({i \in DOMAIN c : c[i] = Hash})
           handled == Handled(r.authorized, r.command)
           single == r.command = "Get_Users_Count"
<1>1. Store(t, Colon) /\ pc[t] = "content" /\ cursor[t] # Nowhere /\ Colon \in Delimiter
  BY DEF Dispatch, ContentEnd, Store, Delimiter
<1>2. /\ disturbed'[t] = disturbed[t] /\ memory[t] \in Seq(Seq(Cell)) /\ memory[t] # <<>>
      /\ s \in Seq(Cell) /\ parsed[t] \in Parsed /\ taken[t] \in Seq(Requests)
  BY <1>1 DEF Store, TypeInv, Inv, Typing
<1>3. InOrder(t)
  BY <1>2 DEF Parsing
<1>4. /\ taken[t] # <<>> /\ Follows(s, 4, c) /\ cursor[t] = At(t, 1, 5)
      /\ parsed[t].fields = <<>> /\ parsed[t].authorized = r.authorized
      /\ parsed[t].command = <<r.command>>
  BY <1>1, <1>3 DEF InOrder, GoesOn
<1>5. Fields(r, c, x) /\ (Alone(t) => x = 0)
  BY <1>2, <1>4, HeardIs DEF First, Alone
<1>6. ~single => hashes = Len(r.fields)
  BY <1>5, HashesCounted
<1> HIDE DEF r, c, x
<1>7. /\ c \in Seq(Cell) /\ n \in Nat \ {0} /\ r.fields \in Seq(Word) /\ x \in {0, 1}
       /\ Len(r.fields) \in Nat \ {0} /\ r.command \in Command
  BY <1>5 DEF Fields
<1>8. \A k \in 1 .. n : c[k] \notin {Colon, Nul}
  BY <1>5 DEF Fields
<1>9. single => Len(r.fields) = 1 /\ n = 1 + x /\ c[1] = r.fields[1]
  BY <1>5 DEF Fields
<1>10. ASSUME ~single
       PROVE  /\ n = 2 * Len(r.fields) + x
              /\ x = 1 => c[2 * Len(r.fields) + 1] \in {"0", "1"}
              /\ \A i \in 1 .. Len(r.fields) : c[2 * i - 1] = r.fields[i] /\ c[2 * i] = Hash
  BY <1>5, <1>10 DEF Fields
<1> HIDE DEF hashes, single
<1>11. /\ 4 + n + 1 \in DOMAIN s /\ s[4 + n + 1] \in {Nul, Colon}
       /\ \A k \in 1 .. n : s[4 + k] = c[k]
  BY <1>4 DEF Follows
<1>12. Token(cursor[t], Colon) = c /\ cursor'[t] = Nowhere /\ taken' = taken
      /\ AllBut(e[t], memory[t], 1)
  <2> PICK j : j = 4 + n + 1
    OBVIOUS
  <2>1. Stops(s, 5, j, Colon)
    <3>1. 5 \in DOMAIN s /\ j \in DOMAIN s /\ 5 <= j /\ 5 # j /\ s[j] \in {Nul, Colon}
      BY <1>2, <1>7, <1>11
    <3>2. \A k \in 5 .. j - 1 : s[k] \notin {Colon, Nul}
      <4>1. ASSUME NEW k \in 5 .. j - 1 PROVE s[k] \notin {Colon, Nul}
        <5>1. k - 4 \in 1 .. n /\ 4 + (k - 4) = k
          BY <1>7
        <5>2. s[k] = c[k - 4]
          BY <1>11, <5>1
        <5>3. QED
          BY <1>8, <5>1, <5>2
      <4>2. QED
        BY <4>1
    <3>3. QED
      BY <3>1, <3>2 DEF Stops
  <2>2. 1 \in DOMAIN memory[t]
    BY <1>2
  <2>3. Piece(s, 5, j) = c
    <3>1. 4 \in Nat /\ 5 = 4 + 1
      OBVIOUS
    <3>2. QED
      BY <1>2, <1>4, <1>7, <3>1, ContentPiece
  <2>4. cursor[t] = At(t, 1, 5)
    BY <1>4
  <2>5. /\ Token(cursor[t], Colon) = Piece(s, 5, j) /\ cursor'[t] = Nowhere /\ taken' = taken
        /\ AllBut(e[t], memory[t], 1)
    <3>1. Found(t, Colon, 1, 5, j)
      BY <1>1, <2>1, <2>2, <2>4, OwnCall
    <3>2. QED
      BY <3>1 DEF Found
  <2>6. QED
    BY <2>3, <2>5
<1>13. c # <<>>
  BY <1>7
<1>14. memory' = [e EXCEPT ![t] = Append(@, copy)]
  BY <1>12, <1>13 DEF Dispatch, ContentEnd, copy
<1>15. e \in [Thread -> Seq(Seq(Cell))]
  BY <1>1, EndedKeeps DEF TypeInv, Inv, Typing
<1> DEFINE m == Len(memory[t])
<1>16. m \in Nat /\ Len(e[t]) = m
  BY <1>2, <1>12 DEF AllBut
<1>17. copy \in Seq(Cell) /\ Len(copy) = n + 1 /\ copy[n + 1] = Nul
       /\ \A k \in 1 .. n : copy[k] = c[k]
  BY <1>7 DEF Cell
<1> HIDE DEF e, copy, m, n
<1>18. Len(memory'[t]) = m + 1 /\ memory'[t][m + 1] = copy
  BY <1>14, <1>15, <1>16, <1>17
<1>19. First(t)' = r /\ Len(Extra(taken'[t])) = x /\ (Alone(t)' => x = 0)
  BY <1>5, <1>12 DEF First, Alone, r, x
<1>20. /\ parsed[t].command = <<"Get_Users_Count">> <=> single
       /\ (\E y \in Command : parsed[t].command = <<y>> /\ Handled(parsed[t].authorized, y))
            <=> handled
  <2>1. \A y : <<r.command>> = <<y>> <=> r.command = y
    OBVIOUS
  <2>2. QED
    BY <1>4, <1>7, <2>1 DEF single
<1> HIDE DEF handled
<1>21. /\ handled /\ ~single => /\ pc' = [pc EXCEPT ![t] = "first"]
                                /\ parsed' = [parsed EXCEPT ![t].inputs = hashes]
       /\ handled /\ single =>
            /\ pc' = [pc EXCEPT ![t] = "done"]
            /\ parsed' = [parsed EXCEPT ![t].inputs = 1, ![t].fields = <<c>>]
       /\ ~handled => pc' = [pc EXCEPT ![t] = "done"] /\ parsed' = parsed
  <2>1. ~single => hashes > 0
    BY <1>6, <1>7
  <2>2. QED
    BY <1>12, <1>13, <1>20, <2>1 DEF Dispatch, ContentEnd, hashes
<1>22. pc \in [Thread -> Stage] /\ parsed \in [Thread -> Parsed]
  BY DEF TypeInv, Inv, Typing
<1>23. CASE handled /\ ~single
  <2>1. pc'[t] = "first" /\ parsed'[t] = [parsed[t] EXCEPT !.inputs = hashes]
    BY <1>21, <1>22, <1>23
  <2>2. /\ parsed'[t].fields = <<>> /\ parsed'[t].authorized = r.authorized
        /\ parsed'[t].command = <<r.command>> /\ parsed'[t].inputs = Len(r.fields)
    BY <1>2, <1>4, <1>6, <1>23, <2>1 DEF Parsed
  <2>3. Split(copy, 0, r, x, <<>>)
    <3> DEFINE a == Len(r.fields)
    <3>1. n = 2 * a + x /\ a \in Nat /\ (x = 1 => c[2 * a + 1] \in {"0", "1"})
      BY <1>23, <1>7, <1>10 DEF n
    <3>2. \A i \in 1 .. a : c[2 * i - 1] = r.fields[i] /\ c[2 * i] = Hash
      BY <1>23, <1>10
    <3> HIDE DEF a
    <3>3. \A i \in 1 .. a : 2 * i - 1 \in 1 .. n /\ 2 * i \in 1 .. n
      BY <1>7, <3>1
    <3>4. \A i \in 1 .. a : copy[2 * i - 1] = r.fields[i] /\ copy[2 * i] = Hash
      BY <1>17, <3>2, <3>3
    <3>5. x = 1 => copy[2 * a + 1] \in {"0", "1"}
      <4>1. x = 1 => 2 * a + 1 \in 1 .. n
        BY <3>1
      <4>2. QED
        BY <1>17, <3>1, <4>1
    <3>6. Len(copy) = 2 * a + x + 1 /\ copy[2 * a + x + 1] = Nul
      BY <1>17, <3>1
    <3>7. \A f : [i \in 1 .. 0 |-> <<f[i]>>] = <<>>
      OBVIOUS
    <3>8. \A i \in 0 + 1 .. a : i \in 1 .. a
      BY <3>1
    <3>9. QED
      BY <3>4, <3>5, <3>6, <3>7, <3>8 DEF Split, a
  <2>4. Len(parsed'[t].fields) = 0 /\ 0 <= Len(r.fields)
    BY <1>7, <2>2
  <2>5. QED
    BY <1>4, <1>12, <1>18, <1>19, <1>23, <2>1, <2>2, <2>3, <2>4 DEF InOrder, handled, single
<1>24. CASE ~handled \/ single
  <2>1. pc'[t] = "done"
    BY <1>21, <1>22, <1>24
  <2>2. Served(t)' /\ (Alone(t)' => Understood(t)')
    <3>1. CASE ~handled
      <4>1. parsed'[t] = parsed[t]
        BY <1>21, <3>1
      <4>2. QED
        BY <1>4, <1>19, <3>1, <4>1 DEF Understood, Served, handled
    <3>2. CASE handled /\ single
      <4>1. parsed'[t] = [parsed[t] EXCEPT !.inputs = 1, !.fields = <<c>>]
        BY <1>21, <1>22, <3>2
      <4>2. /\ parsed'[t].fields = <<c>> /\ parsed'[t].authorized = r.authorized
            /\ parsed'[t].command = <<r.command>> /\ parsed'[t].inputs = 1
        BY <1>2, <1>4, <4>1 DEF Parsed
      <4>3. /\ Len(r.fields) = 1 /\ DOMAIN r.fields = 1 .. 1
            /\ c[1] = r.fields[1] /\ Len(c) = 1 + x
        BY <1>7, <1>9, <3>2 DEF n
      <4>4. Served(t)'
        <5>1. Len(parsed'[t].fields) = 1 /\ parsed'[t].fields[1] = c
          BY <4>2
        <5>2. Head(c) = r.fields[1]
          BY <1>7, <4>3
        <5>3. \A i \in DOMAIN r.fields : i = 1
          BY <4>3
        <5>4. \A i \in DOMAIN r.fields : Head(parsed'[t].fields[i]) = r.fields[i]
          BY <5>1, <5>2, <5>3
        <5>5. QED
          BY <1>19, <4>2, <4>3, <5>1, <5>4 DEF Served
      <4>5. ASSUME Alone(t)' PROVE Understood(t)'
        <5>1. x = 0
          BY <1>19, <4>5
        <5>2. c = <<r.fields[1]>>
          BY <1>7, <4>3, <5>1
        <5>3. [i \in DOMAIN r.fields |-> <<r.fields[i]>>] = <<c>>
          BY <4>3, <5>2
        <5>4. QED
          BY <1>19, <4>2, <4>3, <5>3 DEF Understood
      <4>6. QED
        BY <4>4, <4>5
    <3>3. QED
      BY <1>24, <3>1, <3>2
  <2>3. taken'[t] # <<>>
    BY <1>4, <1>12
  <2>4. QED
    BY <2>1, <2>2, <2>3 DEF InOrder
<1>25. QED
  BY <1>23, <1>24

\* A field is found, or the NUL behind the last one.
LEMMA FieldParses ==
  ASSUME TypeInv, Parsing, NEW t \in Thread, ParseField(t), ~disturbed'[t]
  PROVE  InOrder(t)'
<1> DEFINE m == Len(memory[t])
           s == memory[t][m]
           r == First(t)
           x == Len(Extra(taken[t]))
           f == r.fields
           n == Len(f)
           p == parsed[t]
           e == Ended(cursor[t], Hash)
<1>1. /\ Store(t, Hash) /\ pc[t] \in {"first", "next"} /\ cursor[t] # Nowhere
      /\ memory' = e /\ Hash \in Delimiter /\ Hash # Nul
  BY DEF ParseField, Store, Delimiter, Hash, Nul
<1>2. /\ disturbed'[t] = disturbed[t] /\ memory[t] \in Seq(Seq(Cell)) /\ memory[t] # <<>>
      /\ p \in Parsed /\ taken[t] \in Seq(Requests) /\ pc \in [Thread -> Stage] /\ parsed \in [Thread -> Parsed]
  BY <1>1 DEF Store, TypeInv, Inv, Typing
<1>3. m \in DOMAIN memory[t] /\ s \in Seq(Cell)
  BY <1>2
<1>4. InOrder(t) /\ Apart(t)
  BY <1>2 DEF Parsing
<1>5. /\ taken[t] # <<>> /\ Handled(r.authorized, r.command) /\ r.command # "Get_Users_Count"
      /\ p.authorized = r.authorized /\ p.command = <<r.command>> /\ p.inputs = n
      /\ Len(p.fields) <= n /\ Split(s, Len(p.fields), r, x, p.fields)
  BY <1>1, <1>4 DEF InOrder
<1>6. cursor[t] = At(t, m, 2 * Len(p.fields) + 1)
  <2>1. CASE pc[t] = "first"
    <3>1. p.fields = <<>> /\ cursor[t] = At(t, m, 1)
      BY <1>1, <1>4, <2>1 DEF InOrder, Apart
    <3>2. 2 * Len(p.fields) + 1 = 1
      BY <3>1
    <3>3. QED
      BY <3>1, <3>2
  <2>2. CASE pc[t] = "next"
    BY <1>1, <1>4, <2>2 DEF InOrder, GoesOn
  <2>3. QED
    BY <1>1, <2>1, <2>2
<1>7. /\ f \in Seq(Word) /\ n \in Nat \ {0} /\ {Hash, Nul} \cap Word = {}
      /\ x \in {0, 1} /\ (Alone(t) => x = 0)
  BY <1>2, <1>5, HeardIs, TokenizerAssumption DEF TokenizerAssumption, Fields, First, Alone
<1> HIDE DEF r, x
<1>8. PICK k \in 0 .. n : k = Len(p.fields)
  <2> DEFINE o == Len(p.fields)
  <2>1. o \in Nat /\ o <= n /\ n \in Nat
    BY <1>2, <1>5, <1>7 DEF Parsed
  <2> HIDE DEF o, n
  <2>2. o \in 0 .. n
    BY <2>1
  <2>3. QED
    BY <2>2 DEF o
<1>9. /\ p.fields = [i \in 1 .. k |-> <<f[i]>>] /\ Len(s) = 2 * n + x + 1
      /\ \A i \in k + 1 .. n : s[2 * i - 1] = f[i] /\ s[2 * i] = Hash
      /\ x = 1 => s[2 * n + 1] \in {"0", "1"}
      /\ s[2 * n + x + 1] = Nul
  BY <1>5, <1>8 DEF Split
<1>10. PICK i : i = 2 * k + 1
  OBVIOUS
<1>11. cursor[t] = At(t, m, i)
  BY <1>6, <1>8, <1>10
<1>12. taken' = taken /\ First(t)' = r /\ Len(Extra(taken'[t])) = x /\ (Alone(t)' => x = 0)
  BY <1>1, <1>7 DEF Store, link, First, Alone, r, x
<1> HIDE DEF f, e, p, m, n, s
<1>13. CASE k < n
  <2>1. PICK j : j = i + 1
    OBVIOUS
  <2>2. i = 2 * (k + 1) - 1 /\ j = 2 * (k + 1) /\ k + 1 \in k + 1 .. n
    BY <1>7, <1>10, <1>13, <2>1
  <2>3. s[i] = f[k + 1] /\ s[j] = Hash /\ f[k + 1] \in Word
    BY <1>7, <1>9, <2>2 DEF n
  <2>4. i \in DOMAIN s /\ j \in DOMAIN s
    BY <1>3, <1>7, <1>9, <2>2
  <2>5. Stops(s, i, j, Hash)
    <3>1. i <= j /\ i # j /\ \A y \in i .. j - 1 : y = i
      BY <1>10, <2>1
    <3>2. QED
      BY <1>7, <2>3, <2>4, <3>1 DEF Stops
  <2>6. Found(t, Hash, m, i, j)
    BY <1>1, <1>3, <1>11, <2>5, OwnCall DEF s
  <2>7. /\ Token(cursor[t], Hash) = Piece(s, i, j) /\ place' = At(t, m, j + 1)
        /\ cursor'[t] = Nowhere 
        /\ AllBut(e[t], memory[t], m) /\ Cut(e[t][m], s, j)
    BY <2>3, <2>6 DEF Found, s, e
  <2>8. Token(cursor[t], Hash) = <<f[k + 1]>>
    BY <1>3, <2>1, <2>3, <2>4, <2>7, OneCell
  <2>9. Len(p.fields) < p.inputs
    BY <1>5, <1>8, <1>13
  <2>10. /\ pc'[t] = "next"
         /\ parsed'[t] = [p EXCEPT !.fields = Append(@, <<f[k + 1]>>)]
    BY <1>2, <2>8, <2>9 DEF ParseField, p
  <2> DEFINE g == Append(p.fields, <<f[k + 1]>>)
  <2>11. g = [y \in 1 .. k + 1 |-> <<f[y]>>] /\ Len(g) = k + 1
    <3>1. p.fields \in Seq(Seq(Cell)) /\ <<f[k + 1]>> \in Seq(Cell)
      BY <1>2, <2>3 DEF Parsed, Cell
    <3> DEFINE q == p.fields
    <3>2. q \in Seq(Seq(Cell)) /\ Len(q) = k /\ \A y \in 1 .. k : q[y] = <<f[y]>>
      BY <1>8, <1>9, <3>1
    <3> HIDE DEF q
    <3>3. /\ g \in Seq(Seq(Cell)) /\ Len(g) = k + 1 /\ g[k + 1] = <<f[k + 1]>>
          /\ \A y \in 1 .. k : g[y] = q[y]
      BY <1>8, <3>1, <3>2 DEF q
    <3> HIDE DEF g
    <3>4. ASSUME NEW y \in 1 .. k + 1 PROVE g[y] = <<f[y]>>
      <4>1. y \in 1 .. k \/ y = k + 1
        BY <1>7, <1>8
      <4>2. CASE y \in 1 .. k
        BY <3>2, <3>3, <4>2
      <4>3. CASE y = k + 1
        BY <3>3, <4>3
      <4>4. QED
        BY <4>1, <4>2, <4>3
    <3>5. g = [y \in 1 .. k + 1 |-> g[y]]
      BY <1>8, <3>3
    <3>6. QED
      BY <3>3, <3>4, <3>5
  <2>12. /\ parsed'[t].fields = g /\ parsed'[t].authorized = r.authorized
         /\ parsed'[t].command = <<r.command>> /\ parsed'[t].inputs = n
    BY <1>2, <1>5, <2>10 DEF Parsed
  <2> HIDE DEF g
  <2>13. Len(memory'[t]) = m /\ memory'[t][m] = e[t][m]
    BY <1>1, <2>7 DEF AllBut, m
  <2>14. Split(e[t][m], k + 1, r, x, g)
    <3> DEFINE z == e[t][m]
    <3>1. /\ Len(z) = 2 * n + x + 1 /\ Len(s) = 2 * n + x + 1 /\ z \in Seq(Cell)
          /\ \A y \in DOMAIN s : y # j => z[y] = s[y]
      BY <1>9, <2>7 DEF Cut
    <3> HIDE DEF z
    <3>2. \A y \in k + 2 .. n : /\ 2 * y - 1 \in 1 .. 2 * n + x + 1
                                /\ 2 * y \in 1 .. 2 * n + x + 1
                                /\ 2 * y - 1 # j /\ 2 * y # j /\ y \in k + 1 .. n
      BY <1>7, <1>8, <2>2
    <3>3. /\ DOMAIN s = 1 .. 2 * n + x + 1
          /\ 2 * n + x + 1 \in 1 .. 2 * n + x + 1 /\ 2 * n + x + 1 # j
          /\ 2 * n + 1 \in 1 .. 2 * n + x + 1 /\ 2 * n + 1 # j
      BY <1>3, <1>7, <1>8, <1>13, <2>2, <3>1
    <3>4. \A y \in k + 2 .. n : z[2 * y - 1] = f[y] /\ z[2 * y] = Hash
      BY <1>9, <3>1, <3>2, <3>3
    <3>5. z[2 * n + x + 1] = Nul /\ (x = 1 => z[2 * n + 1] \in {"0", "1"})
      BY <1>9, <3>1, <3>3
    <3>6. k + 1 + 1 = k + 2
      BY <1>8
    <3>7. QED
      BY <2>11, <3>1, <3>4, <3>5, <3>6 DEF Split, n, f, z
  <2>15. place' = At(t, m, 2 * Len(g) + 1)
    <3>1. j + 1 = 2 * (k + 1) + 1
      BY <2>2
    <3>2. QED
      BY <2>7, <2>11, <3>1
  <2>16. Len(g) <= n
    BY <1>7, <1>8, <1>13, <2>11
  <2>17. r.command = r.command /\ n = Len(r.fields)
    BY DEF n, f
  <2>18. QED
    BY <1>5, <1>12, <2>7, <2>10, <2>11, <2>12, <2>13, <2>14, <2>15, <2>16, <2>17
    DEF InOrder, GoesOn
<1>14. ASSUME k = n, x = 0
       PROVE  InOrder(t)'
  <2>1. i = 2 * n + 1 /\ i \in DOMAIN s /\ s[i] = Nul
    BY <1>3, <1>7, <1>9, <1>10, <1>14
  <2>2. Stops(s, i, i, Hash)
    <3>1. i <= i /\ \A y \in i .. i - 1 : FALSE
      BY <1>7, <2>1
    <3>2. QED
      BY <2>1, <3>1 DEF Stops
  <2>3. Found(t, Hash, m, i, i)
    BY <1>1, <1>3, <1>11, <2>2, OwnCall DEF s
  <2>4. Token(cursor[t], Hash) = Piece(s, i, i)
    BY <2>3 DEF Found, s
  <2>5. Piece(s, i, i) = <<>>
    <3>1. i \in Nat \ {0} /\ i > i - 1
      BY <1>7, <2>1
    <3>2. QED
      BY <1>3, <3>1 DEF Piece
  <2>6. pc'[t] = "done" /\ parsed'[t] = p
    BY <1>2, <2>4, <2>5 DEF ParseField, p
  <2>7. p.fields = [y \in DOMAIN f |-> <<f[y]>>] /\ Len(p.fields) = n
    BY <1>7, <1>8, <1>9, <1>14 DEF n
  <2>8. Understood(t)'
    BY <1>5, <1>12, <2>6, <2>7 DEF Understood, f, n
  <2>9. Served(t)'
    <3>1. \A y \in DOMAIN f : Head(p.fields[y]) = f[y]
      <4>1. ASSUME NEW y \in DOMAIN f PROVE Head(p.fields[y]) = f[y]
        <5>1. p.fields[y] = <<f[y]>>
          BY <2>7
        <5>2. QED
          BY <5>1
      <4>2. QED
        BY <4>1
    <3>2. QED
      BY <1>5, <1>7, <1>12, <2>6, <2>7, <3>1 DEF Served, f, n
  <2>10. QED
    BY <1>5, <1>12, <2>6, <2>8, <2>9 DEF InOrder
<1>15. ASSUME k = n, x = 1
       PROVE  InOrder(t)'
  <2>1. PICK j : j = i + 1
    OBVIOUS
  <2>2. i = 2 * n + 1 /\ j = 2 * n + 2 /\ i \in DOMAIN s /\ j \in DOMAIN s
    BY <1>3, <1>7, <1>9, <1>10, <1>15, <2>1
  <2>3. s[i] \in {"0", "1"} /\ s[j] = Nul
    <3>1. 2 * n + x + 1 = 2 * n + 2
      BY <1>7, <1>15
    <3>2. QED
      BY <1>9, <1>15, <2>2, <3>1
  <2>4. Stops(s, i, j, Hash)
    <3>1. i <= j /\ i # j /\ \A y \in i .. j - 1 : y = i
      BY <1>7, <2>1, <2>2
    <3>2. {"0", "1"} \cap {Hash, Nul} = {}
      BY DEF Hash, Nul
    <3>3. QED
      BY <2>2, <2>3, <3>1, <3>2 DEF Stops
  <2>5. Found(t, Hash, m, i, j)
    BY <1>1, <1>3, <1>11, <2>4, OwnCall DEF s
  <2>6. Token(cursor[t], Hash) = <<s[i]>>
    <3>1. Token(cursor[t], Hash) = Piece(s, i, j)
      BY <2>5 DEF Found, s
    <3>2. QED
      BY <1>3, <2>1, <2>2, <3>1, OneCell
  <2>7. ~(Len(p.fields) < p.inputs)
    BY <1>5, <1>7, <1>8, <1>15
  <2> DEFINE g == Append(p.fields, <<s[i]>>)
  <2>8. pc'[t] = "done" /\ parsed'[t] = [p EXCEPT !.fields = g]
    BY <1>2, <2>6, <2>7 DEF ParseField, p
  <2>9. Len(g) = n + 1 /\ \A y \in 1 .. n : g[y] = <<f[y]>>
    <3> DEFINE q == p.fields
    <3>1. q \in Seq(Seq(Cell)) /\ <<s[i]>> \in Seq(Cell)
      BY <1>2, <1>3, <2>2 DEF Parsed
    <3>2. Len(q) = n /\ \A y \in 1 .. n : q[y] = <<f[y]>>
      BY <1>8, <1>9, <1>15
    <3> HIDE DEF q
    <3>3. Len(g) = n + 1 /\ \A y \in 1 .. n : g[y] = q[y]
      BY <1>7, <3>1, <3>2 DEF q
    <3> HIDE DEF g
    <3>4. QED
      BY <3>2, <3>3
  <2>10. /\ parsed'[t].fields = g /\ parsed'[t].authorized = r.authorized
         /\ parsed'[t].command = <<r.command>> /\ parsed'[t].inputs = n
    BY <1>2, <1>5, <2>8 DEF Parsed
  <2> HIDE DEF g
  <2>11. Served(t)'
    <3>1. DOMAIN f = 1 .. n
      BY <1>7 DEF n
    <3>2. \A y \in DOMAIN f : Head(g[y]) = f[y]
      <4>1. ASSUME NEW y \in DOMAIN f PROVE Head(g[y]) = f[y]
        <5>1. g[y] = <<f[y]>>
          BY <2>9, <3>1
        <5>2. QED
          BY <5>1
      <4>2. QED
        BY <4>1
    <3>3. Len(g) >= n
      BY <1>7, <2>9
    <3>4. QED
      BY <1>12, <2>10, <3>2, <3>3 DEF Served, f, n
  <2>12. QED
    BY <1>5, <1>12, <1>15, <2>8, <2>11 DEF InOrder
<1>16. QED
  <2>1. k < n \/ k = n
    BY <1>7, <1>8
  <2>2. x = 0 \/ x = 1
    BY <1>7
  <2>3. QED
    BY <1>13, <1>14, <1>15, <2>1, <2>2

\* No step of a thread that nobody has disturbed leaves the order, and none comes
\* into the copy of another.
LEMMA NextParsing == TypeInv /\ Parsing /\ [Next]_vars => Parsing'
<1> SUFFICES ASSUME TypeInv, Parsing, [Next]_vars PROVE Parsing'
  OBVIOUS
<1>1. CASE UNCHANGED vars
  BY <1>1 DEF vars, link, Parsing, Apart, InOrder, First, GoesOn, Understood, Served, Alone
<1>2. ASSUME NEW t \in Thread,
             ParseAuthorized(t) \/ ParseCommand(t) \/ Dispatch(t) \/ ParseField(t)
      PROVE  Parsing'
  <2>1. PICK d \in Delimiter, x \in Stage \ {"recv"} :
          Store(t, d) /\ StoredText(t, d) /\ pc' = [pc EXCEPT ![t] = x]
    BY <1>2, ParseStores DEF TypeInv
  <2>2. ASSUME NEW u \in Thread, u # t
        PROVE  Apart(u)' /\ (~disturbed'[u] => InOrder(u)')
    <3>1. \A v \in Thread : v # t => pc'[v] = pc[v] /\ parsed'[v] = parsed[v]
      BY <1>2 DEF TypeInv, Inv, Typing, ParseAuthorized, ParseCommand, Dispatch, ParseField
    <3>2. QED
      BY <2>1, <2>2, <3>1, OthersParse
  <2>3. Apart(t)'
    <3>1. CASE Dispatch(t)
      BY <3>1, DispatchApart
    <3>2. CASE ParseAuthorized(t) \/ ParseCommand(t) \/ ParseField(t)
      <4>1. pc'[t] # "first"
        BY <3>2 DEF TypeInv, Inv, Typing, ParseAuthorized, ParseCommand, ParseField
      <4>2. QED
        BY <4>1 DEF Apart
    <3>3. QED
      BY <1>2, <3>1, <3>2
  <2>4. ~disturbed'[t] => InOrder(t)'
    BY <1>2, AuthorizedParses, CommandParses, DispatchParses, FieldParses
  <2>5. QED
    BY <2>2, <2>3, <2>4 DEF Parsing
<1>3. CASE Next
  BY <1>2, <1>3, SendParses, ReceiveParses, AnswerParses, LoadParses DEF Next
<1>4. QED
  BY <1>1, <1>3

\* At the start every thread waits for its first request.
LEMMA InitParsing == Init => Parsing
BY DEF Init, Parsing, Apart, InOrder

\* The order is always kept.
LEMMA AlwaysParsing == Spec => []Parsing
<1>1. QED
  BY InitParsing, NextParsing, AlwaysTyped, PTL DEF Spec

\* A request that is received alone, and parsed while no other thread is inside strtok,
\* is understood as it was sent, whatever requests came before it and whoever else is
\* served.
THEOREM UndisturbedIsUnderstood == Spec => []UndisturbedParse
<1>1. Parsing => UndisturbedParse
  BY DEF Parsing, InOrder, UndisturbedParse
<1>2. QED
  BY <1>1, AlwaysParsing, PTL

\* However many requests come in one recv(), the first of them is carried out, with
\* its own flag and its own fields, when no other thread is inside strtok.
THEOREM FirstIsAlwaysServed == Spec => []FirstIsServed
<1>1. Parsing => FirstIsServed
  BY DEF Parsing, InOrder, FirstIsServed
<1>2. QED
  BY <1>1, AlwaysParsing, PTL
=============================================================================
