------------------------ MODULE RecordedExecutionProofs ------------------------
(***************************************************************************)
(* Proofs about RecordedExecution, for any keys, any number of delegates,  *)
(* any program and any failure.                                            *)
(*                                                                         *)
(* TaskExecutor's invariant IInv holds here, too, although records are     *)
(* looked up by their texts and latest_step is read back from one: reading *)
(* keeps the order of coordinates, which is what IInv is about.            *)
(***************************************************************************)
EXTENDS RecordedExecution, TaskExecutorProofs

(***************************************************************************)
(* FlattenSeq, of the community modules: a recursive function, of which    *)
(* the proofs use what it returns for sequences over a set, and for        *)
(* sequences of one element each.                                          *)
(***************************************************************************)

\* The function that FlattenSeq defines exists: the sequences put together so far.
LEMMA FlattenDefined ==
  ASSUME NEW seqs, NEW n \in Nat
  PROVE  \E f : f = [i \in 1..n |-> IF i = 1 THEN seqs[i] ELSE f[i - 1] \o seqs[i]]
<1> DEFINE P(f, m) == f = [i \in 1..m |-> IF i = 1 THEN seqs[i] ELSE f[i - 1] \o seqs[i]]
           T == {m \in Nat : ~ \E f : P(f, m)}
<1> HIDE DEF P
<1> SUFFICES \E f : P(f, n)
  BY DEF P
<1>1. SUFFICES ASSUME T # {} PROVE FALSE
  OBVIOUS
<1>2. PICK m \in T : \A y \in T : ~(y < m)
  BY <1>1, Least
<1>3. m # 0
  <2>1. P([i \in 1..0 |-> <<>>], 0)
    BY DEF P
  <2> QED
    BY <1>2, <2>1
<1>4. m - 1 \in Nat /\ m - 1 \notin T
  BY <1>2, <1>3
<1>5. PICK f : P(f, m - 1)
  BY <1>4
<1> DEFINE g == [i \in 1..m |-> IF i = 1 THEN seqs[i] ELSE f[i - 1] \o seqs[i]]
<1>6. ASSUME NEW i \in 1..m, i # 1 PROVE f[i - 1] = g[i - 1]
  <2>1. i - 1 \in 1..(m - 1) /\ i - 1 \in 1..m
    BY <1>4, <1>6
  <2>2. f[i - 1] = IF i - 1 = 1 THEN seqs[i - 1] ELSE f[i - 1 - 1] \o seqs[i - 1]
    <3>1. \A j \in 1..(m - 1) : f[j] = IF j = 1 THEN seqs[j] ELSE f[j - 1] \o seqs[j]
      BY <1>5, Zenon DEF P
    <3> QED
      BY <2>1, <3>1
  <2>3. g[i - 1] = IF i - 1 = 1 THEN seqs[i - 1] ELSE f[i - 1 - 1] \o seqs[i - 1]
    BY <2>1
  <2> QED
    BY <2>2, <2>3
<1>7. P(g, m)
  BY <1>6 DEF P
<1> QED
  BY <1>2, <1>7

\* How FlattenSeq gets to its result.
LEMMA FlattenSteps ==
  ASSUME NEW seqs, Len(seqs) \in Nat \ {0}
  PROVE  \E g : /\ g[1] = seqs[1]
                /\ \A i \in 2..Len(seqs) : g[i] = g[i - 1] \o seqs[i]
                /\ FlattenSeq(seqs) = g[Len(seqs)]
<1> DEFINE P(g) == g = [i \in 1..Len(seqs) |-> IF i = 1 THEN seqs[i] ELSE g[i - 1] \o seqs[i]]
           c == CHOOSE g : P(g)
<1>1. \E g : P(g)
  BY FlattenDefined
<1>2. FlattenSeq(seqs) = c[Len(seqs)]
  BY DEF FlattenSeq
<1>3. P(c)
  <2> HIDE DEF P
  <2> QED
    BY <1>1
<1> HIDE DEF c
<1>4. \A i \in 1..Len(seqs) : c[i] = IF i = 1 THEN seqs[i] ELSE c[i - 1] \o seqs[i]
  BY <1>3, Zenon
<1>5. c[1] = seqs[1] /\ \A i \in 2..Len(seqs) : c[i] = c[i - 1] \o seqs[i]
  <2>1. 1 \in 1..Len(seqs) /\ \A i \in 2..Len(seqs) : i \in 1..Len(seqs) /\ i # 1
    OBVIOUS
  <2> QED
    BY <1>4, <2>1
<1> QED
  BY <1>2, <1>5

\* Of sequences over a set, FlattenSeq makes a sequence over that set.
LEMMA FlattenType ==
  ASSUME NEW S, NEW seqs \in Seq(Seq(S))
  PROVE  FlattenSeq(seqs) \in Seq(S)
<1>1. CASE seqs = <<>>
  BY <1>1 DEF FlattenSeq
<1>2. CASE seqs # <<>>
  <2>1. Len(seqs) \in Nat \ {0}
    BY <1>2, EmptySeq
  <2>2. PICK g : /\ g[1] = seqs[1]
                 /\ \A i \in 2..Len(seqs) : g[i] = g[i - 1] \o seqs[i]
                 /\ FlattenSeq(seqs) = g[Len(seqs)]
    BY <2>1, FlattenSteps
  <2>3. \A i \in 1..Len(seqs) : seqs[i] \in Seq(S)
    BY ElementOfSeq
  <2> DEFINE T == {i \in 1..Len(seqs) : g[i] \notin Seq(S)}
  <2>4. T = {}
    <3>1. SUFFICES ASSUME T # {} PROVE FALSE
      OBVIOUS
    <3>2. T \subseteq Nat
      OBVIOUS
    <3>3. PICK i \in T : \A y \in T : ~(y < i)
      BY <3>1, <3>2, Least
    <3>4. i \in 1..Len(seqs) /\ g[i] \notin Seq(S)
      BY <3>3
    <3>5. i # 1
      BY <2>1, <2>2, <2>3, <3>4
    <3>6. i \in 2..Len(seqs) /\ i - 1 \in 1..Len(seqs) /\ i - 1 < i
      BY <2>1, <3>4, <3>5
    <3>7. g[i - 1] \in Seq(S)
      BY <3>3, <3>6
    <3>8. g[i] = g[i - 1] \o seqs[i] /\ seqs[i] \in Seq(S)
      BY <2>2, <2>3, <3>6
    <3>9. \A x, y \in Seq(S) : x \o y \in Seq(S)
      OBVIOUS
    <3> QED
      BY <3>4, <3>7, <3>8, <3>9
  <2>5. Len(seqs) \in 1..Len(seqs)
    BY <2>1
  <2> QED
    BY <2>2, <2>4, <2>5
<1> QED
  BY <1>1, <1>2

\* FlattenSeq of sequences of one element each
LEMMA FlattenSingles ==
  ASSUME NEW S, NEW s \in Seq(S), NEW seqs \in Seq(Seq(S)),
         Len(seqs) = Len(s), \A i \in 1..Len(s) : seqs[i] = <<s[i]>>
  PROVE  FlattenSeq(seqs) = s
<1>1. CASE seqs = <<>>
  BY <1>1, EmptySeq DEF FlattenSeq
<1>2. CASE seqs # <<>>
  <2>1. Len(seqs) \in Nat \ {0}
    BY <1>2, EmptySeq
  <2>2. PICK g : /\ g[1] = seqs[1]
                 /\ \A i \in 2..Len(seqs) : g[i] = g[i - 1] \o seqs[i]
                 /\ FlattenSeq(seqs) = g[Len(seqs)]
    BY <2>1, FlattenSteps
  <2> DEFINE Good(i) == g[i] \in Seq(S) /\ Len(g[i]) = i /\ \A j \in 1..i : g[i][j] = s[j]
             T == {i \in 1..Len(seqs) : ~Good(i)}
  <2>3. \A i \in 1..Len(s) : s[i] \in S
    OBVIOUS
  <2>4. T = {}
    <3>1. SUFFICES ASSUME T # {} PROVE FALSE
      OBVIOUS
    <3>2. T \subseteq Nat
      OBVIOUS
    <3>3. PICK i \in T : \A y \in T : ~(y < i)
      BY <3>1, <3>2, Least
    <3>4. CASE i = 1
      <4>1. g[1] = <<s[1]>> /\ s[1] \in S
        BY <2>1, <2>2, <2>3
      <4>2. Good(1)
        BY <4>1
      <4> QED
        BY <3>3, <3>4, <4>2
    <3>5. CASE i # 1
      <4>1. i \in 2..Len(seqs) /\ i - 1 \in 1..Len(seqs) /\ i - 1 < i
        BY <2>1, <3>3, <3>5
      <4>2. i - 1 \notin T
        BY <3>3, <4>1
      <4>3. Good(i - 1)
        BY <4>1, <4>2
      <4>4. g[i] = g[i - 1] \o <<s[i]>> /\ s[i] \in S
        BY <2>2, <2>3, <4>1
      <4>5. Good(i)
        <5> DEFINE h == g[i - 1]
        <5>1. h \in Seq(S) /\ Len(h) = i - 1 /\ \A j \in 1..(i - 1) : h[j] = s[j]
          BY <4>3
        <5>2. g[i] = h \o <<s[i]>> /\ s[i] \in S /\ i \in Nat
          BY <4>1, <4>4
        <5> HIDE DEF h
        <5>3. g[i] \in Seq(S) /\ Len(g[i]) = i
          BY <5>1, <5>2
        <5>4. ASSUME NEW j \in 1..i PROVE g[i][j] = s[j]
          BY <4>1, <5>1, <5>2
        <5> QED
          BY <5>3, <5>4
      <4> QED
        BY <3>3, <4>5
    <3> QED
      BY <3>4, <3>5
  <2>5. Len(seqs) \in 1..Len(seqs)
    BY <2>1
  <2>6. Good(Len(seqs))
    BY <2>4, <2>5
  <2> HIDE DEF Good
  <2> QED
    BY <2>1, <2>2, <2>6, SeqEqual DEF Good
<1> QED
  BY <1>1, <1>2

(***************************************************************************)
(* Coordinates, and their texts.                                           *)
(***************************************************************************)
Text == [type : TaskType, order : Seq(Nat), path : Seq(Piece)]

\* How a piece is written after it has been read.
Shown(p) == IF p \in DOMAIN Number THEN Number[p] ELSE p

Reread(text) == [text EXCEPT !.path = [i \in DOMAIN text.path |-> Shown(text.path[i])]]

\* The text of coordinates is one.
LEMMA WrittenType ==
  ASSUME NEW task \in Task
  PROVE  /\ Written(task) \in Text
         /\ Written(task).order = task.order /\ Written(task).type = task.type
<1> DEFINE seqs == [i \in DOMAIN task.path |-> task.path[i].pieces]
<1>1. task.path \in Seq(Keys) /\ task.order \in Seq(Nat) /\ task.type \in TaskType
  BY DEF Task
<1>2. \A i \in 1..Len(task.path) : task.path[i] \in Keys
  BY <1>1, ElementOfSeq
<1>3. \A i \in 1..Len(task.path) : task.path[i].pieces \in Seq(Piece)
  BY <1>2, RecordedExecutionAssumption
<1>4. DOMAIN task.path = 1..Len(task.path) /\ Len(task.path) \in Nat
  BY <1>1
<1>5. seqs \in Seq(Seq(Piece))
  BY <1>3, <1>4
<1>6. FlattenSeq(seqs) \in Seq(Piece)
  <2> HIDE DEF seqs
  <2> QED
    BY <1>5, FlattenType
<1> QED
  BY <1>1, <1>6 DEF Written, Text

\* What is read of a text are coordinates with the order and the type that it has.
LEMMA ParsedType ==
  ASSUME NEW text \in Text, Parses(text)
  PROVE  /\ Parsed(text) \in Task
         /\ Parsed(text).order = text.order /\ Parsed(text).type = text.type
<1>1. text.path \in Seq(Piece) /\ text.order \in Seq(Nat) /\ text.type \in TaskType
  BY DEF Text
<1>2. DOMAIN text.path = 1..Len(text.path) /\ Len(text.path) \in Nat
  BY <1>1
<1>3. \A i \in 1..Len(text.path) : KeyOf(text.path[i]) \in Keys
  <2>1. \A i \in 1..Len(text.path) : text.path[i] \in Piece \ Marked
    BY <1>1, <1>2, ElementOfSeq DEF Parses
  <2> QED
    BY <2>1, RecordedExecutionAssumption
<1> DEFINE keys == [i \in DOMAIN text.path |-> KeyOf(text.path[i])]
<1>4. keys \in Seq(Keys)
  BY <1>2, <1>3
<1>5. Parsed(text) = [type |-> text.type, order |-> text.order, path |-> keys]
  BY DEF Parsed, Text
<1> QED
  BY <1>1, <1>4, <1>5 DEF Task

\* A text that was read is written as before, but for numerals such as "01".
LEMMA WrittenParsed ==
  ASSUME NEW text \in Text
  PROVE  Written(Parsed(text)) = Reread(text)
<1> DEFINE P == Piece \union {Number[p] : p \in DOMAIN Number}
           shown == [i \in DOMAIN text.path |-> Shown(text.path[i])]
           keys == [i \in DOMAIN text.path |-> KeyOf(text.path[i])]
           seqs == [i \in DOMAIN keys |-> keys[i].pieces]
<1>1. text.path \in Seq(Piece)
  BY DEF Text
<1>2. DOMAIN text.path = 1..Len(text.path) /\ Len(text.path) \in Nat
  BY <1>1
<1>3. \A i \in 1..Len(text.path) : text.path[i] \in Piece
  BY <1>1, ElementOfSeq
<1>4. \A p \in Piece : Shown(p) \in P
  BY DEF Shown
<1>5. shown \in Seq(P) /\ Len(shown) = Len(text.path)
  BY <1>2, <1>3, <1>4
<1>6. \A p : KeyOf(p).pieces = <<Shown(p)>>
  BY DEF KeyOf, IntKey, StrKey, Shown
<1>7. seqs = [i \in 1..Len(text.path) |-> <<shown[i]>>]
  BY <1>2, <1>6
<1>8. Parsed(text) = [type |-> text.type, order |-> text.order, path |-> keys]
  BY DEF Parsed, Text
<1>9. Written(Parsed(text)) =
        [type |-> text.type, order |-> text.order, path |-> FlattenSeq(seqs)]
  BY <1>8 DEF Written
<1>10. Reread(text) = [type |-> text.type, order |-> text.order, path |-> shown]
  BY DEF Reread, Text
<1> HIDE DEF shown, seqs, keys, P
<1>11. \A i \in 1..Len(shown) : shown[i] \in P
  BY <1>5, ElementOfSeq
<1>12. \A i \in 1..Len(shown) : <<shown[i]>> \in Seq(P)
  BY <1>11
<1>13. /\ seqs \in Seq(Seq(P)) /\ Len(seqs) = Len(shown)
       /\ \A i \in 1..Len(shown) : seqs[i] = <<shown[i]>>
  BY <1>2, <1>5, <1>7, <1>12
<1>14. FlattenSeq(seqs) = shown
  BY <1>5, <1>13, FlattenSingles
<1> QED
  BY <1>9, <1>10, <1>14

\* Reading once more changes nothing.
LEMMA RereadTwice ==
  ASSUME NEW text \in Text
  PROVE  /\ Reread(Reread(text)) = Reread(text)
         /\ (\A i \in DOMAIN text.path : KeepsText(text.path[i])) => Reread(text) = text
<1>1. text.path \in Seq(Piece)
  BY DEF Text
<1>2. \A p : Shown(Shown(p)) = Shown(p) /\ (KeepsText(p) => Shown(p) = p)
  BY TaskCoordinatesAssumption DEF Shown, KeepsText
<1> DEFINE shown == [i \in DOMAIN text.path |-> Shown(text.path[i])]
<1>3. Reread(text) = [type |-> text.type, order |-> text.order, path |-> shown]
  BY DEF Reread, Text
<1>4. [i \in DOMAIN shown |-> Shown(shown[i])] = shown
  BY <1>2
<1>5. Reread(Reread(text)) =
        [Reread(text) EXCEPT !.path = [i \in DOMAIN shown |-> Shown(shown[i])]]
  BY <1>3 DEF Reread
<1>6. ASSUME \A i \in DOMAIN text.path : KeepsText(text.path[i])
      PROVE  Reread(text) = text
  <2>1. shown = [i \in DOMAIN text.path |-> text.path[i]]
    BY <1>2, <1>6
  <2>2. text.path = [i \in DOMAIN text.path |-> text.path[i]]
    BY <1>1
  <2> QED
    BY <1>3, <2>1, <2>2 DEF Text
<1> HIDE DEF shown
<1> QED
  BY <1>3, <1>4, <1>5, <1>6

\* Coordinates are read back as they were exactly if every key is.
LEMMA ReadAsWritten ==
  ASSUME NEW task \in Task
  PROVE  Parses(Written(task)) /\ Parsed(Written(task)) = task
           <=> \A j \in DOMAIN task.path : Plain(task.path[j])
<1> DEFINE text == Written(task)
           seqs == [i \in DOMAIN task.path |-> task.path[i].pieces]
<1>1. task.path \in Seq(Keys) /\ task.order \in Seq(Nat) /\ task.type \in TaskType
  BY DEF Task
<1>2. DOMAIN task.path = 1..Len(task.path) /\ Len(task.path) \in Nat
  BY <1>1
<1>3. \A i \in 1..Len(task.path) :
        /\ task.path[i] \in [int : BOOLEAN, pieces : Seq(Piece)]
        /\ IsKey(task.path[i])
  BY <1>1, <1>2, RecordedExecutionAssumption, ElementOfSeq
<1>4. /\ text.path = FlattenSeq(seqs) /\ text.order = task.order /\ text.type = task.type
      /\ text = [type |-> task.type, order |-> task.order, path |-> FlattenSeq(seqs)]
  BY DEF Written
<1>5. text \in Text
  BY WrittenType
<1>6. Parsed(text) = [type |-> task.type, order |-> task.order,
                      path |-> [i \in DOMAIN text.path |-> KeyOf(text.path[i])]]
  BY <1>4 DEF Parsed
<1>7. ASSUME Parses(text), Parsed(text) = task, NEW j \in DOMAIN task.path
      PROVE  Plain(task.path[j])
  <2>1. task.path = [i \in DOMAIN text.path |-> KeyOf(text.path[i])]
    BY <1>6, <1>7
  <2>2. j \in DOMAIN text.path /\ task.path[j] = KeyOf(text.path[j])
    BY <1>7, <2>1
  <2>3. text.path[j] \notin Marked
    BY <1>7, <2>2 DEF Parses
  <2> QED
    BY <2>2, <2>3 DEF Plain, KeyOf, IntKey, StrKey
<1>8. ASSUME \A j \in DOMAIN task.path : Plain(task.path[j])
      PROVE  Parses(text) /\ Parsed(text) = task
  <2> DEFINE first == [i \in 1..Len(task.path) |-> task.path[i].pieces[1]]
  <2>1. ASSUME NEW i \in 1..Len(task.path)
        PROVE  /\ Len(task.path[i].pieces) = 1 /\ first[i] \in Piece
               /\ task.path[i].pieces = <<first[i]>>
               /\ first[i] \notin Marked /\ KeyOf(first[i]) = task.path[i]
    <3> DEFINE k == task.path[i]
    <3>1. k \in [int : BOOLEAN, pieces : Seq(Piece)] /\ IsKey(k) /\ Plain(k)
      BY <1>2, <1>3, <1>8
    <3> HIDE DEF k
    <3>2. k.pieces \in Seq(Piece) /\ Len(k.pieces) = 1
      BY <3>1 DEF IsKey, Plain
    <3>3. k.pieces[1] \in Piece /\ k.pieces = <<k.pieces[1]>>
      BY <3>2
    <3>4. /\ k.pieces[1] \notin Marked
          /\ KeyOf(k.pieces[1]) = [int |-> k.int, pieces |-> <<k.pieces[1]>>]
      <4>1. CASE k.int
        <5>1. PICK p \in DOMAIN Number : k.pieces[1] = Number[p]
          BY <3>1, <4>1 DEF IsKey
        <5>2. k.pieces[1] \in DOMAIN Number /\ Number[k.pieces[1]] = k.pieces[1]
          BY <5>1, TaskCoordinatesAssumption
        <5>3. k.pieces[1] \notin Marked
          BY <5>2, TaskCoordinatesAssumption
        <5>4. KeyOf(k.pieces[1]) = IntKey(k.pieces[1]) /\ k.int = TRUE
          BY <3>1, <4>1, <5>2 DEF KeyOf
        <5> QED
          BY <5>3, <5>4 DEF IntKey
      <4>2. CASE ~k.int
        <5>1. k.pieces[1] \notin Marked \union DOMAIN Number
          BY <3>1, <4>2 DEF Plain
        <5>2. KeyOf(k.pieces[1]) = StrKey(<<k.pieces[1]>>) /\ k.int = FALSE
          BY <3>1, <4>2, <5>1 DEF KeyOf
        <5> QED
          BY <5>1, <5>2 DEF StrKey
      <4> QED
        BY <4>1, <4>2
    <3>5. k = [int |-> k.int, pieces |-> k.pieces]
      BY <3>1
    <3>6. first[i] = k.pieces[1]
      BY DEF k
    <3> HIDE DEF first
    <3>7. KeyOf(first[i]) = k
      BY <3>3, <3>4, <3>5, <3>6
    <3> QED
      BY <3>2, <3>3, <3>4, <3>6, <3>7 DEF k
  <2>2. first \in Seq(Piece) /\ Len(first) = Len(task.path)
    <3>1. first = [i \in 1..Len(task.path) |-> first[i]]
      OBVIOUS
    <3>2. \A i \in 1..Len(task.path) : first[i] \in Piece
      BY <2>1
    <3> HIDE DEF first
    <3> QED
      BY <1>2, <3>1, <3>2
  <2>3. /\ seqs \in Seq(Seq(Piece)) /\ Len(seqs) = Len(first)
        /\ \A i \in 1..Len(first) : seqs[i] = <<first[i]>>
    <3>1. \A i \in 1..Len(task.path) : task.path[i].pieces \in Seq(Piece)
      BY <1>3
    <3> HIDE DEF first
    <3> QED
      BY <1>2, <2>1, <2>2, <3>1
  <2> HIDE DEF seqs, first
  <2>4. FlattenSeq(seqs) = first
    BY <2>2, <2>3, FlattenSingles
  <2>5. text.path = first /\ DOMAIN first = 1..Len(task.path)
    BY <1>4, <2>2, <2>4
  <2>6. Parses(text)
    BY <2>1, <2>5 DEF Parses
  <2>7. [i \in DOMAIN text.path |-> KeyOf(text.path[i])] = task.path
    <3>1. task.path = [i \in 1..Len(task.path) |-> task.path[i]]
      BY <1>1, <1>2
    <3>2. [i \in DOMAIN text.path |-> KeyOf(text.path[i])] = [i \in 1..Len(task.path) |-> task.path[i]]
      BY <2>1, <2>5
    <3> QED
      BY <3>1, <3>2
  <2>8. task = [type |-> task.type, order |-> task.order, path |-> task.path]
    BY DEF Task
  <2> HIDE DEF text
  <2> QED
    BY <1>6, <2>6, <2>7, <2>8
<1> QED
  BY <1>7, <1>8

(***************************************************************************)
(* The executor's invariant.                                               *)
(***************************************************************************)

\* What is found for a task are records of tasks with its text.
LEMMA FoundRecords ==
  ASSUME TypeOK, NEW task, Found(task) # {}
  PROVE  /\ Max(Found(task)) \in Found(task)
         /\ \A i \in Found(task) :
              /\ i \in DOMAIN records /\ records[i] \in Record
              /\ Written(records[i].task) = Written(task)
<1>1. /\ records \in Seq(Record) /\ DOMAIN records = 1..Len(records)
      /\ Len(records) \in Nat
  BY DEF TypeOK
<1>2. \A i \in Found(task) :
        /\ i \in DOMAIN records /\ records[i] \in Record
        /\ Written(records[i].task) = Written(task)
  BY <1>1, ElementOfSeq DEF Found
<1>3. PICK i \in Found(task) : \A j \in Found(task) : j <= i
  BY <1>1, <1>2, LastPosition
<1>4. Max(Found(task)) \in Found(task)
  BY <1>3 DEF Max
<1> QED
  BY <1>2, <1>4

\* What a skip makes the latest step of lies before the next position.
LEMMA LatestFoundType ==
  ASSUME IInv, NEW task \in Task, Found(task) # {}, CanRead(Found(task))
  PROVE  /\ LatestFound(Found(task)) \in Task \union {NoStep}
         /\ IsBefore(LatestFound(Found(task)), Successor(task.order))
<1> DEFINE i == Max(Found(task))
           l == records[i].latest
<1>1. /\ i \in Found(task) /\ i \in DOMAIN records /\ records[i] \in Record
      /\ Written(records[i].task) = Written(task)
  BY FoundRecords DEF IInv
<1>2. LatestFound(Found(task)) = IF l = NoStep THEN NoStep ELSE Parsed(Written(l))
  BY DEF LatestFound
<1>3. IsBefore(l, Successor(records[i].task.order))
  BY <1>1 DEF IInv, LatestInPast, RecordsInPast
<1>4. l # NoStep => Parses(Written(l))
  BY <1>1 DEF CanRead
<1> HIDE DEF i
<1>5. l \in Task \union {NoStep} /\ records[i].task \in Task
  BY <1>1 DEF Record
<1>6. records[i].task.order = task.order
  BY <1>1, <1>5, WrittenType
<1> HIDE DEF l
<1>7. CASE l = NoStep
  BY <1>2, <1>7 DEF IsBefore
<1>8. CASE l # NoStep
  <2>1. Parsed(Written(l)) \in Task /\ Parsed(Written(l)).order = l.order
    BY <1>4, <1>5, <1>8, WrittenType, ParsedType
  <2>2. Precedes(l.order, Successor(task.order))
    BY <1>3, <1>6, <1>8 DEF IsBefore
  <2> QED
    BY <1>2, <1>8, <2>1, <2>2 DEF IsBefore
<1> QED
  BY <1>7, <1>8

\* A skip, by the text of a task
LEMMA RSkipStep ==
  ASSUME IInv, NEW k \in Keys, NEW t \in TaskType, RSkip(k, t) \/ RSkipFails(k, t)
  PROVE  IInv'
<1> DEFINE task == Subtask(Top, k, t)
           f == [Top EXCEPT !.next = Top.next + 1]
<1>1. TypeOK /\ stack # <<>> /\ phase = "body"
  BY DEF IInv, TypeOK, RSkip, RSkipFails, CanSubmit
<1>2. /\ Advance(stack, Len(stack)) = [stack EXCEPT ![Len(stack)] = f]
      /\ f \in Frame /\ TaskOf(f) = TaskOf(Top)
      /\ Position(f) = Append(Top.order, Top.next + 1)
      /\ Top.order \in Seq(Nat) /\ Top.next \in Nat
  BY <1>1, AdvanceTop
<1>3. task \in Task
  BY <1>1, SubtaskType
<1>4. task.order = Append(Top.order, Top.next) /\ task.type = t
  BY DEF Subtask, Position
<1>5. /\ stack' = Advance(stack, Len(stack))
      /\ phase' \in {"body", "raising"} /\ exc' \in ExcKind \union {"none"}
      /\ UNCHANGED <<skipStages, records, session>>
      /\ Found(task) # {} /\ CanRead(Found(task))
  BY <1>1 DEF RSkip, RSkipFails, TypeOK, ExcKind, MaySkip
<1>6. \/ latest' = latest
      \/ latest' = IF t = "STEP" THEN task ELSE LatestFound(Found(task))
  BY DEF RSkip, RSkipFails
<1> HIDE DEF task
<1>7. latest' \in Task \union {NoStep} /\ IsBefore(latest', Append(Top.order, Top.next + 1))
  <2>1. CASE latest' = latest
    <3>1. latest \in Task \union {NoStep} /\ IsBefore(latest, Append(Top.order, Top.next))
      BY <1>1 DEF IInv, TypeOK, LatestInPast, LatestBeforePosition, Position
    <3>2. CASE latest # NoStep
      <4>1. latest.order \in Seq(Nat) /\ Precedes(latest.order, Append(Top.order, Top.next))
        BY <3>1, <3>2 DEF IsBefore, Task
      <4>2. Precedes(latest.order, Append(Top.order, Top.next + 1))
        BY <1>2, <4>1, PrecedesNext
      <4> QED
        BY <2>1, <3>1, <4>2 DEF IsBefore
    <3> QED
      BY <2>1, <3>1, <3>2 DEF IsBefore
  <2>2. CASE latest' = task
    BY <1>2, <1>3, <1>4, <2>2, NextFollows DEF IsBefore
  <2>3. CASE latest' = LatestFound(Found(task))
    BY <1>2, <1>3, <1>4, <1>5, <2>3, LatestFoundType, SuccessorOfPosition
  <2> QED
    BY <1>6, <2>1, <2>2, <2>3
<1>8. skipStages' \in BOOLEAN
  BY <1>1, <1>5 DEF TypeOK
<1> QED
  BY <1>1, <1>2, <1>5, <1>7, <1>8, TopStep

\* A session that does not come about
LEMMA OpenFailsStep ==
  ASSUME IInv, NEW n, ROpenFails(n)
  PROVE  IInv'
<1>1. /\ UNCHANGED <<phase, stack, exc, latest, skipStages, records>>
      /\ session' = session + 1
  BY DEF ROpenFails
<1>2. TypeOK'
  BY <1>1 DEF IInv, TypeOK
<1>3. OffForgets' /\ CoordinatesAgree' /\ StepIsLeaf' /\ OneRecordPerStep'
  BY <1>1 DEF IInv, OffForgets, CoordinatesAgree, StepIsLeaf, OneRecordPerStep
<1>4. StepNotYetRecorded' /\ LatestInPast'
  BY <1>1 DEF IInv, StepNotYetRecorded, IsRecorded, Top, LatestInPast, LatestBeforePosition,
              RecordsInPast
<1> QED
  BY <1>2, <1>3, <1>4 DEF IInv

\* Everything else is a step of the executor.
LEMMA ExecutorStep ==
  ASSUME [RNext]_rvars
  PROVE  \/ [Next]_vars
         \/ \E k \in Keys, t \in TaskType : RSkip(k, t) \/ RSkipFails(k, t)
         \/ \E n \in 1..Delegates : ROpenFails(n)
<1>1. CASE ROpen \/ RCrash \/ RBody
  BY <1>1 DEF ROpen, RCrash, RBody, Next, Machinery
<1>2. CASE RSubmission
  <2>1. PICK k \in Keys :
          \/ RSubmitFails(k)
          \/ \E t \in TaskType : LookupRaises(k, t) \/ RSkip(k, t) \/ RSkipFails(k, t) \/ RRun(k, t)
    BY <1>2 DEF RSubmission
  <2>2. CASE SubmitFails(k)
    BY <2>2 DEF Next, Submission
  <2>3. CASE \E t \in TaskType : Run(k, t)
    BY <2>3 DEF Next, Submission
  <2> QED
    BY <2>1, <2>2, <2>3 DEF RSubmitFails, LookupRaises, RRun
<1>3. CASE Delivery
  <2>1. CASE RInvoked \/ RFinished \/ RHandled
    BY <2>1 DEF RInvoked, RFinished, RHandled, Next, Machinery
  <2>2. ASSUME NEW n \in 1..Delegates,
               RClose(n) \/ RInvokedRaises(n) \/ RFinishedRaises(n) \/ RHandlerRaises(n)
        PROVE  Next
    BY <2>2 DEF RClose, RInvokedRaises, RFinishedRaises, RHandlerRaises, Next, Machinery
  <2> QED
    BY <1>3, <2>1, <2>2 DEF Delivery
<1>4. CASE UNCHANGED rvars
  BY <1>4 DEF rvars
<1> QED
  BY <1>1, <1>2, <1>3, <1>4 DEF RNext

LEMMA NextIInv ==
  ASSUME IInv, [RNext]_rvars
  PROVE  IInv'
BY ExecutorStep, NextInv, RSkipStep, OpenFailsStep

(***************************************************************************)
(* What a step does to the frames, the records and the latest step.        *)
(***************************************************************************)
Running == {"invoking", "body", "raising", "returned"}

\* A session begins, does not come about, or is over.
Ends == /\ stack' \in {<<>>, <<RootFrame>>}
        /\ latest' = NoStep
        /\ UNCHANGED <<records, ran>>

\* The top frame keeps its task.
Stays == /\ stack # <<>>
         /\ \E f \in Frame : /\ TaskOf(f) = TaskOf(Top)
                            /\ stack' = [stack EXCEPT ![Len(stack)] = f]
         /\ phase' \in Running => phase \in Running
         /\ UNCHANGED <<records, ran>>

Skipping == \E k \in Keys, t \in TaskType : RSkip(k, t)

Marking == MarkFinished /\ UNCHANGED <<heard, left, ran>>

Starting == \E k \in Keys, t \in TaskType : RRun(k, t)

\* A task is over.
Leaving == /\ Len(stack) > 1
           /\ Leave
           /\ latest' = latest \/ (latest' = TaskOf(Top) /\ Top.type = "STEP")
           /\ UNCHANGED <<records, ran>>

\* A step that leaves the stack alone does not change the top frame, either.
LEMMA UnchangedTop ==
  ASSUME TypeOK, stack # <<>>, UNCHANGED stack
  PROVE  /\ Top \in Frame
         /\ stack' = [stack EXCEPT ![Len(stack)] = Top]
<1>1. Top \in Frame /\ Top = stack[Len(stack)]
  BY TopFrame
<1>2. stack = [stack EXCEPT ![Len(stack)] = stack[Len(stack)]]
  BY DEF TypeOK
<1> QED
  BY <1>1, <1>2

\* A scope that is entered or left changes nothing of the frame but the scopes.
LEMMA ScopeFrame ==
  ASSUME TypeOK, stack # <<>>, (\E v \in BOOLEAN : EnterScope(v)) \/ ExitScope
  PROVE  \E f \in Frame : /\ TaskOf(f) = TaskOf(Top)
                          /\ stack' = [stack EXCEPT ![Len(stack)] = f]
<1>1. Top \in Frame /\ Top.scopes \in Seq(BOOLEAN) /\ Top = stack[Len(stack)]
  BY TopFrame
<1>2. PICK scopes \in Seq(BOOLEAN) :
        stack' = [stack EXCEPT ![Len(stack)] = [Top EXCEPT !.scopes = scopes]]
  <2>1. CASE \E v \in BOOLEAN : EnterScope(v)
    <3>1. Append(Top.scopes, skipStages) \in Seq(BOOLEAN)
      BY <1>1 DEF TypeOK
    <3>2. stack' = [stack EXCEPT ![Len(stack)] =
                      [Top EXCEPT !.scopes = Append(Top.scopes, skipStages)]]
      BY <2>1 DEF EnterScope, Top
    <3> QED
      BY <3>1, <3>2
  <2>2. CASE ExitScope
    <3>1. Top.scopes # <<>>
      BY <2>2 DEF ExitScope
    <3>2. SubSeq(Top.scopes, 1, Len(Top.scopes) - 1) \in Seq(BOOLEAN)
      BY <1>1, <3>1
    <3>3. stack' = [stack EXCEPT ![Len(stack)] =
                      [Top EXCEPT !.scopes = SubSeq(Top.scopes, 1, Len(Top.scopes) - 1)]]
      BY <2>2 DEF ExitScope, Top
    <3> QED
      BY <3>2, <3>3
  <2> QED
    BY <2>1, <2>2
<1> DEFINE f == [Top EXCEPT !.scopes = scopes]
<1>3. f \in Frame /\ TaskOf(f) = TaskOf(Top)
  BY <1>1 DEF Frame, TaskOf
<1>4. stack' = [stack EXCEPT ![Len(stack)] = f]
  BY <1>2
<1> HIDE DEF f
<1> QED
  BY <1>3, <1>4

\* These are all the steps there are.
LEMMA StepKinds ==
  ASSUME IInv, [RNext]_rvars
  PROVE  \/ Ends \/ Marking \/ Starting \/ Leaving
         \/ Stays /\ (Skipping \/ UNCHANGED latest)
         \/ UNCHANGED rvars
<1>1. TypeOK /\ (phase = "off" <=> stack = <<>>) /\ (phase = "off" => latest = NoStep)
  BY DEF IInv, TypeOK, OffForgets
<1>2. CASE ROpen \/ RCrash \/ \E n \in 1..Delegates : ROpenFails(n) \/ RClose(n)
  BY <1>1, <1>2 DEF ROpen, RCrash, ROpenFails, RClose, Open, Close, Crash, Forget, Ends
<1>3. ASSUME stack # <<>>, UNCHANGED <<stack, records, ran, latest>>,
             phase' \in Running => phase \in Running
      PROVE  Stays
  BY <1>1, <1>3, UnchangedTop DEF Stays
<1>4. ASSUME NEW k \in Keys, RSubmitFails(k) \/ \E t \in TaskType : LookupRaises(k, t)
      PROVE  Stays /\ UNCHANGED latest
  BY <1>1, <1>3, <1>4 DEF RSubmitFails, LookupRaises, SubmitFails, CanSubmit, Running
<1>5. ASSUME NEW k \in Keys, NEW t \in TaskType, RSkip(k, t) \/ RSkipFails(k, t)
      PROVE  Stays /\ (Skipping \/ UNCHANGED latest)
  <2>1. /\ stack' = Advance(stack, Len(stack)) /\ phase = "body"
        /\ UNCHANGED <<records, ran>>
        /\ RSkip(k, t) \/ UNCHANGED latest
    BY <1>5 DEF RSkip, RSkipFails, CanSubmit
  <2>2. stack # <<>>
    BY <1>1, <2>1
  <2>3. \E f \in Frame : TaskOf(f) = TaskOf(Top) /\ stack' = [stack EXCEPT ![Len(stack)] = f]
    BY <1>1, <2>1, <2>2, AdvanceTop
  <2> QED
    BY <2>1, <2>2, <2>3 DEF Stays, Skipping, Running
<1>6. CASE RBody
  <2>1. CASE (\E v \in BOOLEAN : EnterScope(v)) \/ ExitScope
    <3>1. /\ phase \in {"body", "raising"}
          /\ UNCHANGED <<phase, records, ran, latest>>
      BY <1>6, <2>1 DEF RBody, EnterScope, ExitScope
    <3>2. stack # <<>>
      BY <1>1, <3>1
    <3> QED
      BY <1>1, <2>1, <3>1, <3>2, ScopeFrame DEF Stays
  <2>2. CASE BodyReturns \/ BodyCatches \/ BodyAborts \/ (\E e \in Raisable : BodyRaises(e)) \/ MarkRaises
    BY <1>1, <1>3, <1>6, <2>2
       DEF RBody, BodyReturns, BodyCatches, BodyAborts, BodyRaises, MarkRaises, Throw, Running
  <2> QED
    BY <1>6, <2>1, <2>2 DEF RBody, UserCode, Marking
<1>7. CASE RInvoked \/ \E n \in 1..Delegates : RInvokedRaises(n) \/ RFinishedRaises(n)
  BY <1>1, <1>3, <1>7 DEF RInvoked, RInvokedRaises, RFinishedRaises, Invoked, InvokedRaises,
                          FinishedRaises, Throw, Running
<1>8. CASE RFinished \/ RHandled \/ \E n \in 1..Delegates : RHandlerRaises(n)
  <2>1. /\ phase \in {"recorded", "failing"} /\ Leave /\ UNCHANGED <<records, ran>>
        /\ latest' = latest \/ (latest' = TaskOf(Top) /\ Top.type = "STEP")
    <3>1. CASE RFinished
      <4>1. UNCHANGED ran /\ phase = "recorded" /\ ReturnToCaller
        BY <3>1, Zenon DEF RFinished, Departs, Finished
      <4> QED
        BY <4>1 DEF ReturnToCaller
    <3>2. CASE RHandled
      <4>1. UNCHANGED ran
        BY <3>2, Zenon DEF RHandled, Departs
      <4>2. phase = "failing" /\ (ReturnToCaller \/ RaiseInCaller(exc))
        BY <3>2 DEF RHandled, Handled
      <4> QED
        BY <4>1, <4>2 DEF ReturnToCaller, RaiseInCaller
    <3>3. CASE \E n \in 1..Delegates : RHandlerRaises(n)
      <4>1. UNCHANGED ran /\ phase = "failing" /\ RaiseInCaller("error")
        BY <3>3, Zenon DEF RHandlerRaises, Departs, HandlerRaises
      <4> QED
        BY <4>1 DEF RaiseInCaller
    <3> QED
      BY <1>8, <3>1, <3>2, <3>3
  <2>2. Len(stack) > 1
    BY <1>1, <2>1 DEF TypeOK
  <2> QED
    BY <2>1, <2>2 DEF Leaving
<1> QED
  BY <1>2, <1>4, <1>5, <1>6, <1>7, <1>8 DEF RNext, RSubmission, Delivery, Starting

\* The frames after a step, in coordinates
LEMMA StaysStack ==
  ASSUME TypeOK, Stays
  PROVE  /\ Len(stack) \in Nat \ {0} /\ Len(stack') = Len(stack) /\ stack' \in Seq(Frame)
         /\ TaskOf(Top)' = TaskOf(Top) /\ stack' # <<>>
         /\ \A i \in 1..Len(stack) : TaskOf(stack'[i]) = TaskOf(stack[i])
<1>1. PICK f \in Frame : TaskOf(f) = TaskOf(Top) /\ stack' = [stack EXCEPT ![Len(stack)] = f]
  BY DEF Stays
<1>2. stack # <<>> /\ Len(stack) \in Nat \ {0}
  BY EmptySeq DEF Stays, TypeOK
<1>3. /\ stack' \in Seq(Frame) /\ Len(stack') = Len(stack)
      /\ \A i \in 1..Len(stack) : stack'[i] = IF i = Len(stack) THEN f ELSE stack[i]
  BY <1>1, <1>2, ExceptTop
<1>4. Top' = f
  BY <1>2, <1>3 DEF Top
<1>5. TaskOf(Top)' = TaskOf(Top)
  BY <1>1, <1>4 DEF TaskOf
<1>6. \A i \in 1..Len(stack) : TaskOf(stack'[i]) = TaskOf(stack[i])
  BY <1>1, <1>3 DEF Top
<1>7. stack' # <<>>
  BY <1>2, <1>3, EmptySeq
<1> QED
  BY <1>2, <1>3, <1>5, <1>6, <1>7

LEMMA StartStack ==
  ASSUME TypeOK, NEW k \in Keys, NEW t \in TaskType, Run(k, t)
  PROVE  /\ Len(stack) \in Nat \ {0} /\ Len(stack') = Len(stack) + 1 /\ stack' \in Seq(Frame)
         /\ TaskOf(Top)' = Subtask(Top, k, t) /\ Top'.type = t
         /\ TaskOf(stack'[Len(stack) + 1]) = Subtask(Top, k, t)
         /\ \A i \in 1..Len(stack) : stack'[i] = stack[i]
         /\ Subtask(Top, k, t) \in Task
<1> DEFINE task == Subtask(Top, k, t)
           f == FrameOf(task)
<1>1. stack \in Seq(Frame) /\ stack # <<>>
  BY DEF TypeOK, Run, CanSubmit
<1>2. Len(stack) \in Nat \ {0} /\ task \in Task
  BY <1>1, SubtaskType
<1>3. TaskOf(f) = task /\ f.type = t
  BY DEF FrameOf, TaskOf, Subtask
<1>4. f \in Frame
  BY <1>2, EmptySeq DEF FrameOf, Frame, Task
<1>5. stack' = Append(stack, f)
  BY DEF Run
<1> HIDE DEF f, task
<1>6. /\ Len(stack') = Len(stack) + 1 /\ stack'[Len(stack) + 1] = f
      /\ \A i \in 1..Len(stack) : stack'[i] = stack[i]
      /\ stack' \in Seq(Frame)
  BY <1>1, <1>4, <1>5
<1>7. Top' = f
  BY <1>6 DEF Top
<1>8. TaskOf(Top)' = task /\ Top'.type = t
  BY <1>3, <1>7 DEF TaskOf
<1> QED
  BY <1>2, <1>3, <1>6, <1>8 DEF task

LEMMA LeavingStack ==
  ASSUME IInv, Leaving
  PROVE  /\ Len(stack) \in Nat /\ Len(stack') = Len(stack) - 1 /\ stack' \in Seq(Frame)
         /\ Top'.type # "STEP" /\ TaskOf(Top) \in Task
         /\ \A i \in 1..(Len(stack) - 1) : TaskOf(stack'[i]) = TaskOf(stack[i])
<1>1. /\ stack' \in Seq(Frame) /\ Len(stack') = Len(stack) - 1
      /\ \A i \in 1..(Len(stack) - 2) : stack'[i] = stack[i]
      /\ Top' = [Parent EXCEPT !.next = Parent.next + 1]
      /\ Top'.type # "STEP"
  BY LeaveStack DEF IInv, Leaving
<1>2. Parent \in Frame /\ TaskOf(Top) \in Task /\ Len(stack) \in Nat
  BY TopIsTask DEF IInv, Leaving
<1>3. TaskOf(Top') = TaskOf(Parent)
  BY <1>1, <1>2, NextFrame
<1>4. stack'[Len(stack) - 1] = Top' /\ stack[Len(stack) - 1] = Parent
  BY <1>1 DEF Top, Parent
<1>5. ASSUME NEW i \in 1..(Len(stack) - 1) PROVE TaskOf(stack'[i]) = TaskOf(stack[i])
  <2>1. i = Len(stack) - 1 \/ i \in 1..(Len(stack) - 2)
    BY <1>2
  <2> QED
    BY <1>1, <1>3, <1>4, <2>1
<1> QED
  BY <1>1, <1>2, <1>5

(***************************************************************************)
(* A STEP is recorded once, whatever keys its text may be read as.         *)
(***************************************************************************)

\* While a STEP is running there is no record with its text.
TextNotYetRecorded ==
  phase \in Running /\ stack # <<>> /\ Top.type = "STEP" => Found(TaskOf(Top)) = {}

LEMMA NextOnce ==
  ASSUME IInv, RecordedOnce, TextNotYetRecorded, [RNext]_rvars
  PROVE  (RecordedOnce /\ TextNotYetRecorded)'
<1>1. TypeOK
  BY DEF IInv
<1>2. ASSUME UNCHANGED records PROVE RecordedOnce' /\ \A task : Found(task)' = Found(task)
  BY <1>2 DEF RecordedOnce, Found
<1>3. TaskOf(Top).type = Top.type /\ TaskOf(Top)'.type = Top'.type
  BY DEF TaskOf
<1>4. CASE Ends
  <2>1. UNCHANGED records /\ stack' \in {<<>>, <<RootFrame>>}
    BY <1>4 DEF Ends
  <2>2. stack' # <<>> => Top'.type # "STEP"
    BY <2>1 DEF Top, RootFrame
  <2> QED
    BY <1>2, <2>1, <2>2 DEF TextNotYetRecorded
<1>5. CASE Stays
  <2>1. /\ UNCHANGED records /\ stack # <<>> /\ TaskOf(Top)' = TaskOf(Top)
        /\ phase' \in Running => phase \in Running
    BY <1>1, <1>5, StaysStack DEF Stays
  <2>2. Found(TaskOf(Top))' = Found(TaskOf(Top))
    BY <2>1 DEF Found
  <2> QED
    BY <1>2, <1>3, <2>1, <2>2 DEF TextNotYetRecorded
<1>6. CASE Starting
  <2>1. PICK k \in Keys, t \in TaskType : RRun(k, t)
    BY <1>6 DEF Starting
  <2>2. /\ Run(k, t) /\ ~MaySkip(Subtask(Top, k, t)) /\ UNCHANGED records
    BY <2>1 DEF RRun, Run
  <2>3. TaskOf(Top)' = Subtask(Top, k, t) /\ Top'.type = t
    BY <1>1, <2>2, StartStack
  <2>4. t = "STEP" => Found(Subtask(Top, k, t)) = {}
    BY <2>2 DEF MaySkip, Subtask
  <2>5. Found(TaskOf(Top))' = Found(Subtask(Top, k, t))
    BY <2>2, <2>3 DEF Found
  <2> QED
    BY <1>2, <2>2, <2>3, <2>4, <2>5 DEF TextNotYetRecorded
<1>7. CASE Leaving
  <2>1. UNCHANGED records /\ Top'.type # "STEP"
    BY <1>7, LeavingStack DEF Leaving
  <2> QED
    BY <1>2, <2>1 DEF TextNotYetRecorded
<1>8. CASE Marking
  <2> DEFINE task == TaskOf(Top)
             r == [task |-> task, latest |-> latest]
             n == Len(records) + 1
  <2>1. /\ phase = "returned" /\ phase' = "recorded" /\ stack # <<>>
        /\ records' = Append(records, r)
    BY <1>1, <1>8, EmptySeq DEF Marking, MarkFinished, TypeOK
  <2>2. /\ records \in Seq(Record) /\ DOMAIN records = 1..Len(records) /\ Len(records) \in Nat
    BY <1>1 DEF TypeOK
  <2>3. r.task = task
    OBVIOUS
  <2>4. task.type = "STEP" => Found(task) = {}
    BY <1>3, <2>1 DEF TextNotYetRecorded, Running
  <2>5. /\ \A i \in DOMAIN records : Written(records[i].task).type = records[i].task.type
        /\ Written(task).type = task.type
    BY DEF Written
  <2> HIDE DEF task, r
  <2>6. /\ DOMAIN records' = 1..n /\ records'[n].task = task
        /\ \A i \in 1..Len(records) : records'[i] = records[i]
    BY <2>1, <2>2, <2>3
  <2>7. ASSUME NEW i \in DOMAIN records', NEW j \in DOMAIN records',
               records'[i].task.type = "STEP",
               Written(records'[i].task) = Written(records'[j].task)
        PROVE  i = j
    <3>1. CASE i # n /\ j # n
      <4>1. i \in DOMAIN records /\ j \in DOMAIN records
        BY <2>2, <2>6, <3>1
      <4> QED
        BY <2>2, <2>6, <2>7, <4>1 DEF RecordedOnce
    <3>2. CASE i # n /\ j = n
      <4>1. i \in DOMAIN records /\ i \in 1..Len(records)
        BY <2>2, <2>6, <3>2
      <4>2. Written(records[i].task) = Written(task) /\ records[i].task.type = "STEP"
        BY <2>6, <2>7, <3>2, <4>1
      <4>3. task.type = "STEP" /\ i \in Found(task)
        BY <2>5, <4>1, <4>2 DEF Found
      <4> QED
        BY <2>4, <4>3
    <3>3. CASE i = n /\ j # n
      <4>1. j \in DOMAIN records /\ j \in 1..Len(records)
        BY <2>2, <2>6, <3>3
      <4>2. Written(records[j].task) = Written(task) /\ task.type = "STEP"
        BY <2>6, <2>7, <3>3, <4>1
      <4>3. j \in Found(task)
        BY <4>1, <4>2 DEF Found
      <4> QED
        BY <2>4, <4>2, <4>3
    <3> QED
      BY <3>1, <3>2, <3>3
  <2>8. RecordedOnce'
    BY <2>7 DEF RecordedOnce
  <2> QED
    BY <2>1, <2>8 DEF TextNotYetRecorded, Running
<1>9. CASE UNCHANGED rvars
  <2>1. UNCHANGED <<records, stack, phase>>
    BY <1>9 DEF rvars, vars
  <2>2. TaskOf(Top)' = TaskOf(Top) /\ Top' = Top
    BY <2>1 DEF Top, TaskOf
  <2>3. Found(TaskOf(Top))' = Found(TaskOf(Top))
    BY <2>1, <2>2 DEF Found
  <2> QED
    BY <1>2, <2>1, <2>2, <2>3 DEF TextNotYetRecorded
<1> QED
  BY <1>4, <1>5, <1>6, <1>7, <1>8, <1>9, StepKinds

(***************************************************************************)
(* latest_step names a STEP that was run.                                  *)
(***************************************************************************)
WasRun(step) ==
  \/ Written(step) \in ran
  \/ \E text \in ran : /\ Written(Parsed(text)) = Written(step)
                       /\ \E i \in DOMAIN text.path : ~KeepsText(text.path[i])

\* Whatever keeps a step keeps one that was run, and a STEP that is recorded was run.
RecordOfRun(r) ==
  /\ r.latest # NoStep => WasRun(r.latest)
  /\ r.task.type = "STEP" => Written(r.task) \in ran

LatestInv ==
  /\ ran \subseteq {text \in Text : text.type = "STEP"}
  /\ latest # NoStep => WasRun(latest)
  /\ \A i \in DOMAIN records : RecordOfRun(records[i])
  /\ stack # <<>> /\ Top.type = "STEP" => Written(TaskOf(Top)) \in ran

\* A step that was run was run still once its text is read.
LEMMA RereadWasRun ==
  ASSUME LatestInv, NEW step \in Task, WasRun(step)
  PROVE  WasRun(Parsed(Written(step)))
<1> DEFINE text == Written(step)
<1>1. text \in Text
  BY WrittenType
<1>2. Written(Parsed(text)) = Reread(text)
  BY <1>1, WrittenParsed
<1>3. SUFFICES WasRun(Parsed(text))
  OBVIOUS
<1>4. text = Written(step)
  OBVIOUS
<1> HIDE DEF text
<1>5. CASE text \in ran
  <2>1. CASE \A i \in DOMAIN text.path : KeepsText(text.path[i])
    <3>1. Reread(text) = text
      BY <1>1, <2>1, RereadTwice
    <3> QED
      BY <1>2, <1>5, <3>1 DEF WasRun
  <2>2. CASE \E i \in DOMAIN text.path : ~KeepsText(text.path[i])
    <3> QED
      BY <1>5, <2>2 DEF WasRun
  <2> QED
    BY <2>1, <2>2
<1>6. CASE \E other \in ran : /\ Written(Parsed(other)) = Written(step)
                              /\ \E i \in DOMAIN other.path : ~KeepsText(other.path[i])
  <2>1. PICK other \in ran : /\ Written(Parsed(other)) = text
                             /\ \E i \in DOMAIN other.path : ~KeepsText(other.path[i])
    BY <1>4, <1>6
  <2>2. other \in Text
    BY DEF LatestInv
  <2>3. text = Reread(other) /\ Reread(Reread(other)) = Reread(other)
    BY <2>1, <2>2, WrittenParsed, RereadTwice
  <2>4. Written(Parsed(text)) = Written(Parsed(other))
    BY <1>2, <2>1, <2>3
  <2> QED
    BY <2>1, <2>4 DEF WasRun
<1> QED
  BY <1>4, <1>5, <1>6 DEF WasRun

\* What a skip makes the latest step was run.
LEMMA SkippedWasRun ==
  ASSUME TypeOK, LatestInv, NEW task \in Task, MaySkip(task), CanRead(Found(task))
  PROVE  /\ task.type = "STEP" => Written(task) \in ran
         /\ LatestFound(Found(task)) # NoStep => WasRun(LatestFound(Found(task)))
<1> DEFINE i == Max(Found(task))
<1>1. /\ i \in DOMAIN records /\ records[i] \in Record
      /\ Written(records[i].task) = Written(task)
  BY FoundRecords DEF MaySkip
<1>2. RecordOfRun(records[i])
  BY <1>1 DEF LatestInv
<1>3. LatestFound(Found(task)) =
        IF records[i].latest = NoStep THEN NoStep ELSE Parsed(Written(records[i].latest))
  BY DEF LatestFound
<1> HIDE DEF i
<1> DEFINE r == records[i]
<1>4. r.task \in Task /\ r.latest \in Task \union {NoStep}
  BY <1>1 DEF Record
<1>5. r.task.type = task.type
  BY <1>1, <1>4, WrittenType
<1> HIDE DEF r
<1>6. r.latest # NoStep => WasRun(Parsed(Written(r.latest)))
  BY <1>2, <1>4, RereadWasRun DEF RecordOfRun, r
<1> QED
  BY <1>1, <1>2, <1>3, <1>5, <1>6 DEF RecordOfRun, r

\* What was run once was run for good.
LEMMA RunForGood ==
  ASSUME ran \subseteq ran', NEW step, WasRun(step)
  PROVE  WasRun(step)'
BY DEF WasRun

\* A step that keeps the latest step, or lets go of it, and runs nothing new
LEMMA KeepsRuns ==
  ASSUME LatestInv, UNCHANGED <<records, ran>>, latest' = latest \/ latest' = NoStep,
         stack' # <<>> /\ Top'.type = "STEP" => Written(TaskOf(Top)') \in ran'
  PROVE  LatestInv'
<1>1. \A step : WasRun(step)' <=> WasRun(step)
  BY DEF WasRun
<1>2. latest' # NoStep => WasRun(latest)'
  BY <1>1 DEF LatestInv, WasRun
<1>3. \A i \in DOMAIN records' : RecordOfRun(records[i])'
  BY DEF LatestInv, RecordOfRun, WasRun
<1> QED
  BY <1>2, <1>3 DEF LatestInv

LEMMA NextRuns ==
  ASSUME IInv, LatestInv, [RNext]_rvars
  PROVE  LatestInv'
<1>1. TypeOK
  BY DEF IInv
<1>2. TaskOf(Top).type = Top.type /\ TaskOf(Top)'.type = Top'.type
  BY DEF TaskOf
<1>3. CASE Ends
  <2>1. UNCHANGED <<records, ran>> /\ stack' \in {<<>>, <<RootFrame>>} /\ latest' = NoStep
    BY <1>3 DEF Ends
  <2>2. stack' # <<>> => Top'.type # "STEP"
    BY <2>1 DEF Top, RootFrame
  <2> QED
    BY <2>1, <2>2, KeepsRuns
<1>4. ASSUME Stays
      PROVE  /\ UNCHANGED <<records, ran>>
             /\ Top'.type = "STEP" => Written(TaskOf(Top)') \in ran'
  <2>1. UNCHANGED <<records, ran>> /\ stack # <<>> /\ TaskOf(Top)' = TaskOf(Top)
    BY <1>1, <1>4, StaysStack DEF Stays
  <2> QED
    BY <1>2, <2>1 DEF LatestInv
<1>5. CASE Stays /\ UNCHANGED latest
  BY <1>4, <1>5, KeepsRuns
<1>6. CASE Stays /\ Skipping
  <2>1. PICK k \in Keys, t \in TaskType : RSkip(k, t)
    BY <1>6 DEF Skipping
  <2> DEFINE task == Subtask(Top, k, t)
  <2>2. /\ MaySkip(task) /\ CanRead(Found(task)) /\ stack # <<>> /\ task.type = t
        /\ latest' = IF t = "STEP" THEN task ELSE LatestFound(Found(task))
    BY <1>1, <2>1 DEF RSkip, CanSubmit, TypeOK, Subtask
  <2>3. task \in Task
    BY <1>1, <2>2, SubtaskType
  <2> HIDE DEF task
  <2>4. latest' # NoStep => WasRun(latest')
    BY <1>1, <2>2, <2>3, SkippedWasRun DEF WasRun
  <2>5. \A step : WasRun(step) => WasRun(step)'
    BY <1>4, <1>6 DEF WasRun
  <2>6. latest' # NoStep => WasRun(latest)'
    BY <1>4, <1>6, <2>4 DEF WasRun
  <2>7. \A i \in DOMAIN records' : RecordOfRun(records[i])'
    BY <1>4, <1>6, <2>5 DEF LatestInv, RecordOfRun, WasRun
  <2> QED
    BY <1>4, <1>6, <2>6, <2>7 DEF LatestInv
<1>7. CASE Starting
  <2>1. PICK k \in Keys, t \in TaskType : RRun(k, t)
    BY <1>7 DEF Starting
  <2> DEFINE task == Subtask(Top, k, t)
  <2>2. /\ Run(k, t) /\ UNCHANGED <<records, latest>>
        /\ ran' = IF t = "STEP" THEN ran \union {Written(task)} ELSE ran
    BY <2>1 DEF RRun, Run
  <2>3. TaskOf(Top)' = task /\ Top'.type = t /\ task \in Task /\ task.type = t
    BY <1>1, <2>2, StartStack DEF Subtask
  <2> HIDE DEF task
  <2>4. Written(task) \in Text /\ Written(task).type = t
    BY <2>3, WrittenType
  <2>5. ran' \subseteq {text \in Text : text.type = "STEP"} /\ ran \subseteq ran'
    BY <2>2, <2>4 DEF LatestInv
  <2>6. \A step : WasRun(step) => WasRun(step)'
    BY <2>5 DEF WasRun
  <2>7. latest' # NoStep => WasRun(latest)'
    BY <2>2, <2>6 DEF LatestInv, WasRun
  <2>8. \A i \in DOMAIN records' : RecordOfRun(records[i])'
    BY <2>2, <2>5, <2>6 DEF LatestInv, RecordOfRun, WasRun
  <2> QED
    BY <2>2, <2>3, <2>5, <2>7, <2>8 DEF LatestInv
<1>8. CASE Leaving
  <2>1. /\ UNCHANGED <<records, ran>> /\ Top'.type # "STEP" /\ stack # <<>>
        /\ latest' = latest \/ (latest' = TaskOf(Top) /\ Top.type = "STEP")
    BY <1>1, <1>8, LeavingStack, EmptySeq DEF Leaving, TypeOK
  <2>2. CASE latest' = latest
    BY <2>1, <2>2, KeepsRuns
  <2>3. CASE latest' = TaskOf(Top) /\ Top.type = "STEP"
    <3>1. WasRun(latest)'
      BY <2>1, <2>3 DEF LatestInv, WasRun
    <3>2. \A i \in DOMAIN records' : RecordOfRun(records[i])'
      BY <2>1 DEF LatestInv, RecordOfRun, WasRun
    <3> QED
      BY <2>1, <3>1, <3>2 DEF LatestInv
  <2> QED
    BY <2>1, <2>2, <2>3
<1>9. CASE Marking
  <2> DEFINE r == [task |-> TaskOf(Top), latest |-> latest]
  <2>1. /\ stack # <<>> /\ records' = Append(records, r)
        /\ UNCHANGED <<stack, latest, ran>> /\ Top' = Top
    BY <1>1, <1>9, EmptySeq DEF Marking, MarkFinished, TypeOK, Top
  <2>2. /\ records \in Seq(Record) /\ DOMAIN records = 1..Len(records) /\ Len(records) \in Nat
    BY <1>1 DEF TypeOK
  <2>3. RecordOfRun(r)
    BY <1>2, <2>1 DEF LatestInv, RecordOfRun
  <2> HIDE DEF r
  <2>4. /\ DOMAIN records' = 1..(Len(records) + 1) /\ records'[Len(records) + 1] = r
        /\ \A i \in 1..Len(records) : records'[i] = records[i]
    BY <2>1, <2>2
  <2>5. \A q : RecordOfRun(q) => RecordOfRun(q)'
    BY <2>1 DEF RecordOfRun, WasRun
  <2>6. ASSUME NEW i \in DOMAIN records' PROVE RecordOfRun(records'[i])
    <3>1. i \in 1..Len(records) \/ i = Len(records) + 1
      BY <2>2, <2>4
    <3>2. \A j \in 1..Len(records) : RecordOfRun(records[j])
      BY <2>2 DEF LatestInv
    <3> QED
      BY <2>3, <2>4, <3>1, <3>2
  <2>7. \A i \in DOMAIN records' : RecordOfRun(records[i])'
    BY <2>1, <2>6 DEF RecordOfRun, WasRun
  <2>8. latest' # NoStep => WasRun(latest)'
    BY <2>1 DEF LatestInv, WasRun
  <2>9. TaskOf(Top)' = TaskOf(Top)
    BY <2>1 DEF TaskOf
  <2> QED
    BY <2>1, <2>7, <2>8, <2>9 DEF LatestInv
<1>10. CASE UNCHANGED rvars
  <2>1. UNCHANGED <<records, ran, stack, latest>>
    BY <1>10 DEF rvars, vars
  <2>2. TaskOf(Top)' = TaskOf(Top) /\ Top' = Top
    BY <2>1 DEF Top, TaskOf
  <2> QED
    BY <2>1, <2>2, KeepsRuns DEF LatestInv
<1> QED
  BY <1>3, <1>5, <1>6, <1>7, <1>8, <1>9, <1>10, StepKinds

(***************************************************************************)
(* The relations between coordinates.                                      *)
(***************************************************************************)

\* A task deeper in the stack has one key and one position more, and begins with all
\* that the tasks above it have.
Extends(lower, upper, n) ==
  \A m \in 1..n : lower.path[m] = upper.path[m] /\ lower.order[m] = upper.order[m]

PathsNest ==
  \A i \in 1..Len(stack) :
    /\ Len(stack[i].path) = i - 1 /\ Len(stack[i].order) = i - 1
    /\ \A j \in i..Len(stack) : Extends(stack[j], stack[i], i - 1)

\* It depends on the tasks of the frames only.
LEMMA PathsOfPrefix ==
  ASSUME PathsNest, NEW n \in Nat, Len(stack) \in Nat, Len(stack') = n, n <= Len(stack),
         \A i \in 1..n : TaskOf(stack'[i]) = TaskOf(stack[i])
  PROVE  PathsNest'
<1>1. \A i \in 1..n : stack'[i].path = stack[i].path /\ stack'[i].order = stack[i].order
  BY DEF TaskOf
<1>2. ASSUME NEW i \in 1..n
      PROVE  /\ Len(stack'[i].path) = i - 1 /\ Len(stack'[i].order) = i - 1
             /\ \A j \in i..n : Extends(stack'[j], stack'[i], i - 1)
  <2>1. /\ Len(stack[i].path) = i - 1 /\ Len(stack[i].order) = i - 1
        /\ \A j \in i..Len(stack) : Extends(stack[j], stack[i], i - 1)
    BY DEF PathsNest
  <2>2. ASSUME NEW j \in i..n PROVE Extends(stack'[j], stack'[i], i - 1)
    <3>1. j \in i..Len(stack) /\ j \in 1..n
      OBVIOUS
    <3> QED
      BY <1>1, <2>1, <3>1 DEF Extends
  <2> QED
    BY <1>1, <2>1, <2>2
<1> QED
  BY <1>2 DEF PathsNest

\* A subtask gets a key and a position more than the task that submits it.
LEMMA PathsOfSubtask ==
  ASSUME TypeOK, PathsNest, NEW k \in Keys, NEW t \in TaskType, Run(k, t)
  PROVE  PathsNest'
<1> DEFINE n == Len(stack)
           g == stack'[n + 1]
<1>1. /\ n \in Nat \ {0} /\ Len(stack') = n + 1
      /\ \A i \in 1..n : stack'[i] = stack[i]
      /\ TaskOf(g) = Subtask(Top, k, t)
  BY StartStack
<1>2. Top \in Frame /\ Top = stack[n]
  BY <1>1, SubtaskType DEF Run, CanSubmit, TypeOK, Top
<1>3. Top.path \in Seq(Keys) /\ Top.order \in Seq(Nat) /\ Top.next \in Nat
  BY <1>2 DEF Frame
<1>4. g.path = Append(Top.path, k) /\ g.order = Append(Top.order, Top.next)
  BY <1>1 DEF TaskOf, Subtask, Position
<1>5. \A i \in 1..n :
        /\ Len(stack[i].path) = i - 1 /\ Len(stack[i].order) = i - 1
        /\ \A j \in i..n : Extends(stack[j], stack[i], i - 1)
  BY DEF PathsNest
<1> HIDE DEF n, g
<1>6. n \in 1..n
  BY <1>1
<1>7. Len(Top.path) = n - 1 /\ Len(Top.order) = n - 1
  BY <1>2, <1>5, <1>6
<1>8. /\ Len(g.path) = n /\ Len(g.order) = n
      /\ \A m \in 1..(n - 1) : g.path[m] = Top.path[m] /\ g.order[m] = Top.order[m]
  BY <1>1, <1>3, <1>4, <1>7
<1>9. stack'[n + 1] = g
  BY DEF g
<1>10. ASSUME NEW i \in 1..(n + 1)
       PROVE  /\ Len(stack'[i].path) = i - 1 /\ Len(stack'[i].order) = i - 1
              /\ \A j \in i..(n + 1) : Extends(stack'[j], stack'[i], i - 1)
  <2>1. CASE i = n + 1
    <3>1. \A j \in i..(n + 1) : j = i
      BY <1>1, <2>1
    <3> QED
      BY <1>1, <1>8, <1>9, <2>1, <3>1 DEF Extends
  <2>2. CASE i \in 1..n
    <3>1. /\ stack'[i] = stack[i] /\ Len(stack[i].path) = i - 1 /\ Len(stack[i].order) = i - 1
          /\ \A j \in i..n : Extends(stack[j], stack[i], i - 1)
      BY <1>1, <1>5, <2>2
    <3>2. ASSUME NEW j \in i..(n + 1) PROVE Extends(stack'[j], stack[i], i - 1)
      <4>1. CASE j \in i..n
        <5>1. j \in 1..n
          BY <1>1, <2>2, <4>1
        <5> QED
          BY <1>1, <3>1, <4>1, <5>1
      <4>2. CASE j = n + 1
        <5>1. n \in i..n /\ \A m \in 1..(i - 1) : m \in 1..(n - 1)
          BY <1>1, <2>2
        <5>2. Extends(Top, stack[i], i - 1)
          BY <1>2, <3>1, <5>1
        <5> QED
          BY <1>8, <1>9, <4>2, <5>1, <5>2 DEF Extends
      <4> QED
        BY <1>1, <2>2, <3>2, <4>1, <4>2
    <3> QED
      BY <3>1, <3>2
  <2> QED
    BY <1>1, <2>1, <2>2
<1> QED
  BY <1>1, <1>10 DEF PathsNest

LEMMA NextPaths ==
  ASSUME IInv, PathsNest, [RNext]_rvars
  PROVE  PathsNest'
<1>1. TypeOK /\ Len(stack) \in Nat
  BY DEF IInv, TypeOK
<1>2. CASE Ends
  <2>1. CASE stack' = <<>>
    BY <2>1 DEF PathsNest, Extends
  <2>2. CASE stack' = <<RootFrame>>
    <3>1. Len(stack') = 1 /\ stack'[1] = RootFrame
      BY <2>2
    <3>2. Len(RootFrame.path) = 0 /\ Len(RootFrame.order) = 0
      BY DEF RootFrame
    <3>3. \A i \in 1..1 : i = 1 /\ 1..(i - 1) = {}
      OBVIOUS
    <3> QED
      BY <3>1, <3>2, <3>3 DEF PathsNest, Extends
  <2> QED
    BY <1>2, <2>1, <2>2 DEF Ends
<1>3. CASE Stays
  BY <1>1, <1>3, StaysStack, PathsOfPrefix
<1>4. CASE Starting
  BY <1>1, <1>4, PathsOfSubtask DEF Starting, RRun
<1>5. CASE Leaving
  <2>1. /\ Len(stack') = Len(stack) - 1
        /\ \A i \in 1..(Len(stack) - 1) : TaskOf(stack'[i]) = TaskOf(stack[i])
    BY <1>5, LeavingStack
  <2>2. Len(stack) - 1 \in Nat /\ Len(stack) - 1 <= Len(stack)
    BY <1>1, <1>5 DEF Leaving
  <2> DEFINE n == Len(stack) - 1
  <2> HIDE DEF n
  <2> QED
    BY <1>1, <2>1, <2>2, PathsOfPrefix DEF n
<1>6. CASE UNCHANGED stack
  <2>1. Len(stack') = Len(stack) /\ \A i \in 1..Len(stack) : TaskOf(stack'[i]) = TaskOf(stack[i])
    BY <1>6
  <2> QED
    BY <1>1, <2>1, PathsOfPrefix
<1> QED
  BY <1>2, <1>3, <1>4, <1>5, <1>6, StepKinds DEF Marking, MarkFinished, rvars, vars

\* What is in front of the last element, and the last element
LEMMA FrontAndLast ==
  ASSUME NEW S, NEW s \in Seq(S), NEW e \in S
  PROVE  Front(Append(s, e)) = s /\ Last(Append(s, e)) = e
<1>1. Len(Append(s, e)) = Len(s) + 1 /\ Append(s, e)[Len(s) + 1] = e
  OBVIOUS
<1>2. SubSeq(Append(s, e), 1, Len(s)) = s
  OBVIOUS
<1> QED
  BY <1>1, <1>2 DEF Front, Last

\* The first elements of a sequence
LEMMA PrefixOf ==
  ASSUME NEW S, NEW s \in Seq(S), NEW n \in 0..Len(s)
  PROVE  /\ SubSeq(s, 1, n) \in Seq(S) /\ Len(SubSeq(s, 1, n)) = n
         /\ \A m \in 1..n : SubSeq(s, 1, n)[m] = s[m]
<1>1. SubSeq(s, 1, n) = [m \in 1..n |-> s[m]]
  OBVIOUS
<1>2. \A m \in 1..n : s[m] \in S
  <2>1. \A m \in 1..n : m \in 1..Len(s)
    OBVIOUS
  <2> QED
    BY <2>1, ElementOfSeq
<1> QED
  BY <1>1, <1>2

\* The task above begins the one below.
LEMMA PathsBegin ==
  ASSUME TypeOK, PathsNest, NEW j \in 1..Len(stack), NEW i \in 1..j
  PROVE  /\ stack[i] \in Frame /\ stack[j] \in Frame
         /\ Len(stack[i].path) = i - 1 /\ Len(stack[i].order) = i - 1
         /\ SubSeq(stack[j].path, 1, i - 1) = stack[i].path
         /\ SubSeq(stack[j].order, 1, i - 1) = stack[i].order
<1>1. stack \in Seq(Frame) /\ Len(stack) \in Nat /\ i \in 1..Len(stack) /\ j \in i..Len(stack)
  BY DEF TypeOK
<1>2. stack[i] \in Frame /\ stack[j] \in Frame
  BY <1>1, ElementOfSeq
<1>3. /\ Len(stack[i].path) = i - 1 /\ Len(stack[i].order) = i - 1
      /\ Len(stack[j].path) = j - 1 /\ Len(stack[j].order) = j - 1
      /\ \A m \in 1..(i - 1) : /\ stack[j].path[m] = stack[i].path[m]
                               /\ stack[j].order[m] = stack[i].order[m]
  BY <1>1 DEF PathsNest, Extends
<1> DEFINE f == stack[i]
           g == stack[j]
<1>4. /\ f.path \in Seq(Keys) /\ f.order \in Seq(Nat)
      /\ g.path \in Seq(Keys) /\ g.order \in Seq(Nat)
  BY <1>2 DEF Frame
<1>5. /\ Len(f.path) = i - 1 /\ Len(f.order) = i - 1
      /\ Len(g.path) = j - 1 /\ Len(g.order) = j - 1
      /\ \A m \in 1..(i - 1) : g.path[m] = f.path[m] /\ g.order[m] = f.order[m]
  BY <1>3
<1> HIDE DEF f, g
<1>6. i - 1 \in 0..Len(g.path) /\ i - 1 \in 0..Len(g.order)
  BY <1>1, <1>5
<1>7. SubSeq(g.path, 1, i - 1) = f.path
  BY <1>4, <1>5, <1>6, PrefixOf, SeqEqual
<1>8. SubSeq(g.order, 1, i - 1) = f.order
  BY <1>4, <1>5, <1>6, PrefixOf, SeqEqual
<1> QED
  BY <1>2, <1>3, <1>7, <1>8 DEF f, g

\* A task's coordinates are its parent's, a key and the parent's position.
LEMMA PathsOfParent ==
  ASSUME IInv, PathsNest, NEW j \in 2..Len(stack)
  PROVE  \E k \in Keys : /\ stack[j].path = Append(stack[j - 1].path, k)
                         /\ stack[j].order = Append(stack[j - 1].order, stack[j - 1].next)
<1>1. TypeOK /\ Len(stack) \in Nat /\ j \in 1..Len(stack) /\ j - 1 \in 1..j /\ j \in 1..j
  BY DEF IInv, TypeOK
<1> DEFINE f == stack[j - 1]
           g == stack[j]
<1>2. /\ f \in Frame /\ g \in Frame
      /\ Len(f.path) = j - 1 - 1 /\ SubSeq(g.path, 1, j - 1 - 1) = f.path
  BY <1>1, PathsBegin
<1>3. Len(g.path) = j - 1
  BY <1>1, PathsBegin
<1>4. g.order = Append(f.order, f.next)
  BY DEF IInv, CoordinatesAgree, Position
<1> HIDE DEF f, g
<1>5. g.path \in Seq(Keys) /\ f.path \in Seq(Keys)
  BY <1>2 DEF Frame
<1> DEFINE k == g.path[j - 1]
<1>6. k \in Keys
  BY <1>1, <1>3, <1>5
<1>7. Append(f.path, k) \in Seq(Keys) /\ Len(Append(f.path, k)) = j - 1
  BY <1>1, <1>2, <1>5, <1>6
<1>8. ASSUME NEW m \in 1..(j - 1) PROVE Append(f.path, k)[m] = g.path[m]
  <2>1. CASE m = j - 1
    BY <1>1, <1>2, <1>5, <2>1
  <2>2. CASE m \in 1..(j - 1 - 1)
    <3>1. Append(f.path, k)[m] = f.path[m]
      BY <1>1, <1>2, <1>5, <2>2
    <3>2. SubSeq(g.path, 1, j - 1 - 1)[m] = g.path[m]
      BY <1>1, <1>3, <1>5, <2>2
    <3> QED
      BY <1>2, <3>1, <3>2
  <2> QED
    <3>1. m = j - 1 \/ m \in 1..(j - 1 - 1)
      BY <1>1, <1>8
    <3> QED
      BY <2>1, <2>2, <3>1
<1>9. g.path = Append(f.path, k)
  BY <1>3, <1>5, <1>7, <1>8, SeqEqual
<1> QED
  BY <1>4, <1>6, <1>9 DEF f, g

LEMMA AncestryHolds ==
  ASSUME IInv, PathsNest
  PROVE  AncestryAgrees
<1>1. TypeOK /\ stack \in Seq(Frame) /\ Len(stack) \in Nat
  BY DEF IInv, TypeOK
<1> SUFFICES ASSUME NEW i \in 2..Len(stack), NEW j \in 2..Len(stack)
             PROVE  LET upper == TaskOf(stack[i])
                        lower == TaskOf(stack[j]) IN
                    /\ IsDescendantOf(lower, upper) <=> i <= j
                    /\ i <= j => Ancestor(lower, j - i) = [upper EXCEPT !.type = "STAGE"]
                    /\ i + 1 = j => Child(upper, Last(lower.path), stack[i].next)
                                      = [lower EXCEPT !.type = "STAGE"]
                    /\ \A k \in Keys, t \in TaskType :
                         Sibling(lower, k, t) = Subtask(Advance(stack, j - 1)[j - 1], k, t)
  BY DEF AncestryAgrees
<1> DEFINE upper == TaskOf(stack[i])
           lower == TaskOf(stack[j])
<1>2. /\ upper.path = stack[i].path /\ upper.order = stack[i].order
      /\ lower.path = stack[j].path /\ lower.order = stack[j].order
      /\ [upper EXCEPT !.type = "STAGE"] =
           [path |-> stack[i].path, order |-> stack[i].order, type |-> "STAGE"]
      /\ [lower EXCEPT !.type = "STAGE"] =
           [path |-> stack[j].path, order |-> stack[j].order, type |-> "STAGE"]
  BY DEF TaskOf
<1>3. /\ i \in 1..Len(stack) /\ j \in 1..Len(stack) /\ i \in 1..i /\ j \in 1..j
  BY <1>1
<1>4. Len(upper.path) = i - 1 /\ Len(lower.path) = j - 1
  BY <1>1, <1>2, <1>3, PathsBegin
<1>5. i <= j => /\ SubSeq(lower.path, 1, i - 1) = upper.path
                /\ SubSeq(lower.order, 1, i - 1) = upper.order
  <2>1. i <= j => i \in 1..j
    BY <1>3
  <2> QED
    BY <1>1, <1>2, <1>3, <2>1, PathsBegin
<1>6. PICK key \in Keys : /\ stack[j].path = Append(stack[j - 1].path, key)
                          /\ stack[j].order = Append(stack[j - 1].order, stack[j - 1].next)
  BY PathsOfParent
<1>7. j - 1 \in 1..Len(stack) /\ stack[j - 1] \in Frame
  BY <1>1, ElementOfSeq
<1> DEFINE f == stack[j - 1]
<1>8. f.path \in Seq(Keys) /\ f.order \in Seq(Nat) /\ f.next \in Nat
  BY <1>7 DEF Frame
<1>9. /\ Front(lower.path) = f.path /\ Last(lower.path) = key
      /\ Front(lower.order) = f.order /\ Last(lower.order) = f.next
  <2>1. lower.path = Append(f.path, key) /\ lower.order = Append(f.order, f.next)
    BY <1>2, <1>6
  <2> HIDE DEF f, lower
  <2> QED
    BY <1>8, <2>1, FrontAndLast
<1>10. IsDescendantOf(lower, upper) <=> i <= j
  <2> HIDE DEF upper, lower
  <2> QED
    BY <1>3, <1>4, <1>5 DEF IsDescendantOf
<1>11. i <= j => Ancestor(lower, j - i) = [upper EXCEPT !.type = "STAGE"]
  <2>1. Len(lower.path) - (j - i) = i - 1
    BY <1>3, <1>4
  <2>2. Ancestor(lower, j - i) = [path |-> SubSeq(lower.path, 1, i - 1),
                                  order |-> SubSeq(lower.order, 1, i - 1), type |-> "STAGE"]
    BY <2>1 DEF Ancestor
  <2>3. [upper EXCEPT !.type = "STAGE"] =
          [path |-> upper.path, order |-> upper.order, type |-> "STAGE"]
    BY DEF TaskOf
  <2> HIDE DEF upper, lower
  <2> QED
    BY <1>5, <2>2, <2>3
<1>12. i + 1 = j => Child(upper, Last(lower.path), stack[i].next)
                      = [lower EXCEPT !.type = "STAGE"]
  <2>1. SUFFICES ASSUME i + 1 = j
                 PROVE  Child(upper, Last(lower.path), stack[i].next)
                          = [lower EXCEPT !.type = "STAGE"]
    OBVIOUS
  <2>2. i = j - 1
    BY <1>3, <2>1
  <2>3. Child(upper, key, f.next) = [path |-> Append(f.path, key),
                                     order |-> Append(f.order, f.next), type |-> "STAGE"]
    BY <1>2, <2>2 DEF Child
  <2> QED
    BY <1>2, <1>6, <1>9, <2>2, <2>3
<1>13. ASSUME NEW k \in Keys, NEW t \in TaskType
       PROVE  Sibling(lower, k, t) = Subtask(Advance(stack, j - 1)[j - 1], k, t)
  <2> DEFINE g == [f EXCEPT !.next = @ + 1]
  <2>1. Advance(stack, j - 1)[j - 1] = g
    BY <1>1, <1>7 DEF Advance
  <2>2. g.path = f.path /\ g.order = f.order /\ g.next = f.next + 1
    BY <1>7 DEF Frame
  <2>3. Sibling(lower, k, t) = [path |-> Append(f.path, k), type |-> t,
                                order |-> Append(f.order, f.next + 1)]
    BY <1>9 DEF Sibling
  <2> HIDE DEF g, f, lower
  <2> QED
    BY <2>1, <2>2, <2>3 DEF Subtask, Position
<1> QED
  BY <1>10, <1>11, <1>12, <1>13

LEMMA CoordinatesFollow ==
  ASSUME IInv, PathsNest
  PROVE  CoordinatesHold
<1>1. records \in Seq(Record)
  BY DEF IInv, TypeOK
<1>2. \A i \in DOMAIN records : records[i].task \in Task
  <2>1. \A i \in DOMAIN records : records[i] \in Record
    BY <1>1
  <2> QED
    BY <2>1 DEF Record
<1>3. ReadBack
  BY <1>2, ReadAsWritten DEF ReadBack
<1> QED
  BY <1>3, AncestryHolds DEF CoordinatesHold

(***************************************************************************)
(* What delegates are told.                                                *)
(***************************************************************************)
Hearing == [1..Delegates -> Seq(Event)]

\* All delegates were told the same.
ToAll(history) == [d \in 1..Delegates |-> history]

InOrder(h) ==
  \A d \in 1..Delegates :
    /\ h[d] \in History
    /\ \A e \in 1..(d - 1) :
         /\ \A event \in {"before_session", "invoked", "result"} :
              HasHeard(h, d, event) => HasHeard(h, e, event)
         /\ HasHeard(h, e, "after_session") => HasHeard(h, d, "after_session")

LEMMA HeardType ==
  ASSUME NEW h \in Hearing, NEW event \in Event, NEW n
  PROVE  /\ Heard(h, event, n) \in Hearing
         /\ NothingHeard \in Hearing
         /\ \A s \in Seq(Event) : ToAll(s) \in Hearing
<1>1. \A d \in 1..Delegates : Append(h[d], event) \in Seq(Event) /\ h[d] \in Seq(Event)
  BY DEF Hearing
<1>2. <<>> \in Seq(Event)
  OBVIOUS
<1> QED
  BY <1>1, <1>2 DEF Heard, Hearing, NothingHeard, ToAll

\* What is heard if all had heard the same before
LEMMA HeardOfAll ==
  ASSUME NEW s, NEW event, NEW n, NEW d \in 1..Delegates
  PROVE  Heard(ToAll(s), event, n)[d]
           = IF d \in ToldFirst(event, n) THEN Append(s, event) ELSE s
BY DEF Heard, ToAll

\* Short histories grow.
LEMMA Grown ==
  ASSUME NEW S, NEW e \in S, NEW s \in Seq(S)
  PROVE  /\ Append(s, e) \in Seq(S)
         /\ Len(s) = 1 => /\ Len(Append(s, e)) = 2
                          /\ Append(s, e)[1] = s[1] /\ Append(s, e)[2] = e
         /\ Len(s) = 2 => /\ Len(Append(s, e)) = 3
                          /\ Append(s, e)[1] = s[1] /\ Append(s, e)[2] = s[2]
                          /\ Append(s, e)[3] = e
<1> DEFINE r == Append(s, e)
<1>1. /\ r \in Seq(S) /\ Len(r) = Len(s) + 1
      /\ \A i \in 1..Len(s) : r[i] = s[i]
      /\ r[Len(s) + 1] = e
  OBVIOUS
<1> HIDE DEF r
<1>2. Len(s) = 1 => Len(r) = 2 /\ r[2] = e /\ 1 \in 1..Len(s)
  BY <1>1
<1>3. Len(s) = 2 => Len(r) = 3 /\ r[3] = e /\ 1 \in 1..Len(s) /\ 2 \in 1..Len(s)
  BY <1>1
<1>4. /\ r \in Seq(S)
      /\ Len(s) = 1 => Len(r) = 2 /\ r[1] = s[1] /\ r[2] = e
      /\ Len(s) = 2 => Len(r) = 3 /\ r[1] = s[1] /\ r[2] = s[2] /\ r[3] = e
  BY <1>1, <1>2, <1>3
<1> QED
  BY <1>4 DEF r

LEMMA Appended ==
  ASSUME NEW a, NEW b, NEW c
  PROVE  /\ Append(<<>>, a) = <<a>>
         /\ Append(<<a>>, b) = <<a, b>>
         /\ Append(<<a, b>>, c) = <<a, b, c>>
<1> DEFINE S == {a, b, c}
<1>1. <<a>> \in Seq(S) /\ b \in S /\ c \in S /\ Len(<<a>>) = 1 /\ <<a>>[1] = a
  OBVIOUS
<1>2. <<a, b>> \in Seq(S) /\ Len(<<a, b>>) = 2 /\ <<a, b>>[1] = a /\ <<a, b>>[2] = b
  OBVIOUS
<1>3. /\ <<a, b, c>> \in Seq(S) /\ Len(<<a, b, c>>) = 3
      /\ <<a, b, c>>[1] = a /\ <<a, b, c>>[2] = b /\ <<a, b, c>>[3] = c
  OBVIOUS
<1>4. Append(<<>>, a) = <<a>>
  OBVIOUS
<1> HIDE DEF S
<1>5. Append(<<a>>, b) = <<a, b>>
  <2>1. /\ Append(<<a>>, b) \in Seq(S) /\ Len(Append(<<a>>, b)) = 2
        /\ Append(<<a>>, b)[1] = <<a>>[1] /\ Append(<<a>>, b)[2] = b
    BY <1>1, Grown
  <2>2. \A i \in 1..2 : i = 1 \/ i = 2
    OBVIOUS
  <2>3. ASSUME NEW x \in Seq(S), NEW y \in Seq(S), Len(x) = 2, Len(y) = 2,
               x[1] = y[1], x[2] = y[2]
        PROVE  x = y
    BY <2>2, <2>3, SeqEqual
  <2> QED
    BY <1>1, <1>2, <2>1, <2>3
<1>6. Append(<<a, b>>, c) = <<a, b, c>>
  <2>1. /\ Append(<<a, b>>, c) \in Seq(S) /\ Len(Append(<<a, b>>, c)) = 3
        /\ Append(<<a, b>>, c)[1] = <<a, b>>[1] /\ Append(<<a, b>>, c)[2] = <<a, b>>[2]
        /\ Append(<<a, b>>, c)[3] = c
    BY <1>1, <1>2, Grown
  <2>2. \A i \in 1..3 : i = 1 \/ i = 2 \/ i = 3
    OBVIOUS
  <2>3. ASSUME NEW x \in Seq(S), NEW y \in Seq(S), Len(x) = 3, Len(y) = 3,
               x[1] = y[1], x[2] = y[2], x[3] = y[3]
        PROVE  x = y
    BY <2>2, <2>3, SeqEqual
  <2> QED
    BY <1>2, <1>3, <2>1, <2>3
<1> QED
  BY <1>4, <1>5, <1>6

\* Short histories, spelled out
LEMMA Histories ==
  ASSUME NEW h, NEW d, NEW event, NEW a, NEW b, NEW c
  PROVE  /\ h[d] = <<>> => ~HasHeard(h, d, event)
         /\ h[d] = <<a>> => (HasHeard(h, d, event) <=> event = a)
         /\ h[d] = <<a, b>> => (HasHeard(h, d, event) <=> event \in {a, b})
         /\ h[d] = <<a, b, c>> => (HasHeard(h, d, event) <=> event \in {a, b, c})
<1>1. h[d] = <<>> => ~HasHeard(h, d, event)
  BY DEF HasHeard
<1>2. h[d] = <<a>> => (HasHeard(h, d, event) <=> event = a)
  <2>1. DOMAIN <<a>> = {1} /\ <<a>>[1] = a
    OBVIOUS
  <2> QED
    BY <2>1 DEF HasHeard
<1>3. h[d] = <<a, b>> => (HasHeard(h, d, event) <=> event \in {a, b})
  <2>1. DOMAIN <<a, b>> = {1, 2} /\ <<a, b>>[1] = a /\ <<a, b>>[2] = b
    OBVIOUS
  <2> QED
    BY <2>1 DEF HasHeard
<1>4. h[d] = <<a, b, c>> => (HasHeard(h, d, event) <=> event \in {a, b, c})
  <2>1. /\ DOMAIN <<a, b, c>> = {1, 2, 3}
        /\ <<a, b, c>>[1] = a /\ <<a, b, c>>[2] = b /\ <<a, b, c>>[3] = c
    OBVIOUS
  <2> QED
    BY <2>1 DEF HasHeard
<1> QED
  BY <1>1, <1>2, <1>3, <1>4

\* A session that begins, and one that is over
LEMMA SessionHeard ==
  ASSUME NEW n \in 1..Delegates
  PROVE  /\ InOrder(Heard(NothingHeard, "before_session", n))
         /\ InOrder(Heard(ToAll(<<"before_session">>), "after_session", n))
         /\ \A d \in 1..Delegates :
              /\ ~HasHeard(Heard(NothingHeard, "before_session", n), d, "result")
              /\ ~HasHeard(Heard(ToAll(<<"before_session">>), "after_session", n), d, "result")
              /\ n = Delegates =>
                   HasHeard(Heard(ToAll(<<"before_session">>), "after_session", n), d, "after_session")
<1>1. Delegates \in Nat \ {0}
  BY CompositeCallbacksAssumption
<1> DEFINE b == Heard(NothingHeard, "before_session", n)
           a == Heard(ToAll(<<"before_session">>), "after_session", n)
<1>2. \A d \in 1..Delegates : b[d] = IF d <= n THEN <<"before_session">> ELSE <<>>
  <2>1. \A d \in 1..Delegates :
          b[d] = IF d \in ToldFirst("before_session", n) THEN <<"before_session">> ELSE <<>>
    <3>1. Append(<<>>, "before_session") = <<"before_session">>
      BY Appended
    <3> QED
      BY <3>1 DEF Heard, NothingHeard
  <2>2. ToldFirst("before_session", n) = 1..n
    BY DEF ToldFirst, Reversed
  <2> HIDE DEF b
  <2> QED
    BY <1>1, <2>1, <2>2
<1>3. \A d \in 1..Delegates :
        a[d] = IF d > Delegates - n THEN <<"before_session", "after_session">>
                                    ELSE <<"before_session">>
  <2>1. \A d \in 1..Delegates :
          a[d] = IF d \in ToldFirst("after_session", n)
                 THEN Append(<<"before_session">>, "after_session") ELSE <<"before_session">>
    BY HeardOfAll
  <2>2. ToldFirst("after_session", n) = (Delegates + 1 - n)..Delegates
    BY DEF ToldFirst, Reversed
  <2>3. Append(<<"before_session">>, "after_session") = <<"before_session", "after_session">>
    BY Appended
  <2> HIDE DEF a
  <2> QED
    <3>1. \A d \in 1..Delegates :
            d \in ToldFirst("after_session", n) <=> d > Delegates - n
      BY <1>1, <2>2
    <3> QED
      BY <2>1, <2>3, <3>1
<1> HIDE DEF a, b
<1>4. \A d \in 1..Delegates : \A event :
        /\ HasHeard(b, d, event) <=> d <= n /\ event = "before_session"
        /\ HasHeard(a, d, event) <=> \/ event = "before_session"
                                     \/ event = "after_session" /\ d > Delegates - n
  BY <1>2, <1>3, Histories
<1>5. InOrder(b)
  <2>1. \A d \in 1..Delegates : b[d] \in History
    BY <1>2 DEF History
  <2> QED
    BY <1>1, <1>4, <2>1 DEF InOrder
<1>6. InOrder(a)
  <2>1. \A d \in 1..Delegates : a[d] \in History
    BY <1>3 DEF History
  <2> QED
    BY <1>1, <1>4, <2>1 DEF InOrder
<1>7. \A d \in 1..Delegates : d > Delegates - Delegates
  BY <1>1
<1> QED
  BY <1>4, <1>5, <1>6, <1>7 DEF a, b

\* A task that begins, of which some may not know, or that is over, of which some may
\* not know
LEMMA TaskHeard ==
  ASSUME NEW n \in 0..Delegates, NEW m \in 0..Delegates, NEW h,
         \/ h = Heard(NothingHeard, "invoked", n)
         \/ h = Heard(ToAll(<<"invoked">>), "result", n)
  PROVE  /\ InOrder(h) /\ InOrder(Heard(h, "failure", m))
         /\ \A d \in 1..Delegates :
              /\ HasHeard(h, d, "result") \/ HasHeard(Heard(h, "failure", m), d, "result")
                   => n # 0 /\ h = Heard(ToAll(<<"invoked">>), "result", n)
              /\ m = Delegates => HasHeard(Heard(h, "failure", m), d, "failure")
<1>1. Delegates \in Nat \ {0}
  BY CompositeCallbacksAssumption
<1> DEFINE g == Heard(h, "failure", m)
<1>2. \A d \in 1..Delegates : g[d] = IF d <= m THEN Append(h[d], "failure") ELSE h[d]
  BY <1>1 DEF Heard, ToldFirst, Reversed
<1>3. CASE h = Heard(NothingHeard, "invoked", n)
  <2>1. \A d \in 1..Delegates : h[d] = IF d <= n THEN <<"invoked">> ELSE <<>>
    <3>1. \A d \in 1..Delegates :
            h[d] = IF d \in ToldFirst("invoked", n) THEN <<"invoked">> ELSE <<>>
      <4>1. Append(<<>>, "invoked") = <<"invoked">>
        BY Appended
      <4> QED
        BY <1>3, <4>1 DEF Heard, NothingHeard
    <3>2. ToldFirst("invoked", n) = 1..n
      BY DEF ToldFirst, Reversed
    <3> QED
      BY <1>1, <3>1, <3>2
  <2>2. \A d \in 1..Delegates :
          g[d] = IF d <= m THEN IF d <= n THEN <<"invoked", "failure">> ELSE <<"failure">>
                           ELSE IF d <= n THEN <<"invoked">> ELSE <<>>
    <3>1. /\ Append(<<"invoked">>, "failure") = <<"invoked", "failure">>
          /\ Append(<<>>, "failure") = <<"failure">>
      BY Appended
    <3> HIDE DEF g
    <3> QED
      BY <1>2, <2>1, <3>1
  <2> HIDE DEF g
  <2>3. \A d \in 1..Delegates : \A event :
          /\ HasHeard(h, d, event) <=> d <= n /\ event = "invoked"
          /\ HasHeard(g, d, event) <=> \/ d <= n /\ event = "invoked"
                                       \/ d <= m /\ event = "failure"
    BY <2>1, <2>2, Histories
  <2>4. \A d \in 1..Delegates : h[d] \in History /\ g[d] \in History
    BY <2>1, <2>2 DEF History
  <2>5. InOrder(h)
    BY <1>1, <2>3, <2>4 DEF InOrder
  <2>6. InOrder(g)
    BY <1>1, <2>3, <2>4 DEF InOrder
  <2> QED
    BY <1>1, <2>3, <2>5, <2>6 DEF g
<1>4. CASE h = Heard(ToAll(<<"invoked">>), "result", n)
  <2>1. \A d \in 1..Delegates : h[d] = IF d <= n THEN <<"invoked", "result">> ELSE <<"invoked">>
    <3>1. \A d \in 1..Delegates :
            h[d] = IF d \in ToldFirst("result", n) THEN Append(<<"invoked">>, "result")
                                                   ELSE <<"invoked">>
      BY <1>4, HeardOfAll
    <3>2. ToldFirst("result", n) = 1..n
      BY DEF ToldFirst, Reversed
    <3>3. Append(<<"invoked">>, "result") = <<"invoked", "result">>
      BY Appended
    <3>4. \A d \in 1..Delegates : d \in ToldFirst("result", n) <=> d <= n
      BY <1>1, <3>2
    <3> QED
      BY <3>1, <3>3, <3>4
  <2>2. \A d \in 1..Delegates :
          g[d] = IF d <= m
                 THEN IF d <= n THEN <<"invoked", "result", "failure">> ELSE <<"invoked", "failure">>
                 ELSE IF d <= n THEN <<"invoked", "result">> ELSE <<"invoked">>
    <3>1. /\ Append(<<"invoked", "result">>, "failure") = <<"invoked", "result", "failure">>
          /\ Append(<<"invoked">>, "failure") = <<"invoked", "failure">>
      BY Appended
    <3> HIDE DEF g
    <3> QED
      BY <1>2, <2>1, <3>1
  <2> HIDE DEF g
  <2>3. \A d \in 1..Delegates : \A event :
          /\ HasHeard(h, d, event) <=> \/ event = "invoked"
                                       \/ d <= n /\ event = "result"
          /\ HasHeard(g, d, event) <=> \/ event = "invoked"
                                       \/ d <= n /\ event = "result"
                                       \/ d <= m /\ event = "failure"
    BY <2>1, <2>2, Histories
  <2>4. \A d \in 1..Delegates : h[d] \in History /\ g[d] \in History
    BY <2>1, <2>2 DEF History
  <2>5. InOrder(h)
    BY <1>1, <2>3, <2>4 DEF InOrder
  <2>6. InOrder(g)
    BY <1>1, <2>3, <2>4 DEF InOrder
  <2> QED
    BY <1>1, <1>4, <2>3, <2>5, <2>6 DEF g
<1> QED
  BY <1>3, <1>4

\* What was heard of the innermost task, by where it is.
HeardOfTop ==
  /\ phase = "invoking" => Innermost = NothingHeard
  /\ phase \in {"body", "raising", "returned", "recorded"} => Innermost = ToAll(<<"invoked">>)
  /\ phase = "failing" =>
       \E n \in 0..Delegates :
         \/ Innermost = Heard(NothingHeard, "invoked", n)
         \/ /\ Innermost = Heard(ToAll(<<"invoked">>), "result", n)
            /\ n = 0 \/ IsRecorded(TaskOf(Top))

\* Of the tasks around it, and of the session, all were told that they began, and of no
\* more.
HeardOfFrames ==
  /\ heard \in Seq(Hearing)
  /\ Len(heard) = Len(stack)
  /\ Len(heard) > 0 => heard[1] = ToAll(<<"before_session">>)
  /\ \A i \in 2..(Len(heard) - 1) : heard[i] = ToAll(<<"invoked">>)
  /\ Len(heard) > 1 => HeardOfTop
  /\ phase = "recorded" => IsRecorded(TaskOf(Top))

LeftInv == left \in Departure /\ DelegatesTold

\* As long as nobody is told anything
LEMMA HeardKept ==
  ASSUME HeardOfFrames, UNCHANGED heard, Len(stack') = Len(stack), Len(heard) \in Nat,
         phase \in {"body", "raising", "returned"},
         phase' \in {"body", "raising", "returned", "recorded", "failing"},
         phase' = "recorded" => IsRecorded(TaskOf(Top))'
  PROVE  HeardOfFrames'
<1>1. CASE Len(heard) > 1
  <2>1. Innermost = ToAll(<<"invoked">>) /\ Innermost' = Innermost
    BY <1>1 DEF HeardOfFrames, HeardOfTop, Innermost
  <2>2. Heard(ToAll(<<"invoked">>), "result", 0) = ToAll(<<"invoked">>)
    <3>1. ToldFirst("result", 0) = {}
      BY DEF ToldFirst, Reversed
    <3> QED
      BY <3>1 DEF Heard, ToAll
  <2>3. 0 \in 0..Delegates
    BY CompositeCallbacksAssumption
  <2>4. phase' = "failing" =>
          \E n \in 0..Delegates :
            \/ Innermost' = Heard(NothingHeard, "invoked", n)
            \/ /\ Innermost' = Heard(ToAll(<<"invoked">>), "result", n)
               /\ n = 0 \/ IsRecorded(TaskOf(Top))'
    BY <2>1, <2>2, <2>3
  <2>5. HeardOfTop'
    BY <2>1, <2>4 DEF HeardOfTop
  <2> QED
    BY <2>5 DEF HeardOfFrames
<1>2. CASE ~(Len(heard) > 1)
  BY <1>2 DEF HeardOfFrames
<1> QED
  BY <1>1, <1>2

\* As long as the innermost task is told
LEMMA HeardTold ==
  ASSUME HeardOfFrames, UNCHANGED stack, NEW h \in Hearing, Len(heard) \in Nat, Len(heard) > 1,
         heard' = [heard EXCEPT ![Len(heard)] = h],
         \/ phase' = "body" /\ h = ToAll(<<"invoked">>)
         \/ phase' = "failing" /\ \E n \in 0..Delegates :
              \/ h = Heard(NothingHeard, "invoked", n)
              \/ h = Heard(ToAll(<<"invoked">>), "result", n) /\ IsRecorded(TaskOf(Top))'
  PROVE  HeardOfFrames'
<1>1. heard \in Seq(Hearing) /\ Len(heard) = Len(stack)
  BY DEF HeardOfFrames
<1>2. /\ heard' \in Seq(Hearing) /\ Len(heard') = Len(heard)
      /\ \A i \in 1..Len(heard) : heard'[i] = IF i = Len(heard) THEN h ELSE heard[i]
  BY <1>1
<1>3. Innermost' = h
  BY <1>2 DEF Innermost
<1>4. heard'[1] = heard[1] /\ \A i \in 2..(Len(heard) - 1) : heard'[i] = heard[i]
  <2>1. /\ 1 \in 1..Len(heard) /\ 1 # Len(heard)
        /\ \A i \in 2..(Len(heard) - 1) : i \in 1..Len(heard) /\ i # Len(heard)
    OBVIOUS
  <2> QED
    BY <1>2, <2>1
<1>5. HeardOfTop'
  BY <1>3 DEF HeardOfTop
<1> QED
  BY <1>1, <1>2, <1>4, <1>5 DEF HeardOfFrames

\* Once a task is over
LEMMA HeardOfCaller ==
  ASSUME HeardOfFrames, Len(heard) \in Nat, Len(heard) > 1, heard' = Front(heard),
         Len(stack') = Len(stack) - 1, phase' \in {"body", "raising"}
  PROVE  HeardOfFrames'
<1>1. heard \in Seq(Hearing) /\ Len(heard) = Len(stack)
  BY DEF HeardOfFrames
<1>2. Len(heard) - 1 \in 0..Len(heard) /\ heard' = SubSeq(heard, 1, Len(heard) - 1)
  BY DEF Front
<1>3. /\ heard' \in Seq(Hearing) /\ Len(heard') = Len(heard) - 1
      /\ \A i \in 1..(Len(heard) - 1) : heard'[i] = heard[i]
  BY <1>1, <1>2, PrefixOf
<1>4. heard'[1] = heard[1] /\ \A i \in 2..(Len(heard') - 1) : heard'[i] = heard[i]
  BY <1>3
<1>5. Len(heard') > 1 => Innermost' = ToAll(<<"invoked">>)
  <2>1. Len(heard') > 1 => Len(heard) - 1 \in 2..(Len(heard) - 1)
    BY <1>3
  <2>2. Len(heard') > 1 => Innermost' = heard[Len(heard) - 1]
    BY <1>3, <2>1 DEF Innermost
  <2> QED
    BY <2>1, <2>2 DEF HeardOfFrames
<1>6. Len(heard') > 1 => HeardOfTop'
  BY <1>5 DEF HeardOfTop
<1>7. \A i \in 2..(Len(heard') - 1) : i \in 2..(Len(heard) - 1)
  BY <1>3
<1>8. heard'[1] = ToAll(<<"before_session">>)
  BY <1>4 DEF HeardOfFrames
<1>9. \A i \in 2..(Len(heard') - 1) : heard'[i] = ToAll(<<"invoked">>)
  BY <1>4, <1>7 DEF HeardOfFrames
<1> QED
  BY <1>1, <1>3, <1>6, <1>8, <1>9 DEF HeardOfFrames

\* Once a subtask is submitted
LEMMA HeardOfSubtask ==
  ASSUME HeardOfFrames, Len(heard) \in Nat \ {0}, heard' = Append(heard, NothingHeard),
         Len(stack') = Len(stack) + 1, phase = "body", phase' = "invoking"
  PROVE  HeardOfFrames'
<1>1. heard \in Seq(Hearing) /\ Len(heard) = Len(stack) /\ NothingHeard \in Hearing
  <2>1. \A d \in 1..Delegates : <<>> \in Seq(Event)
    OBVIOUS
  <2> QED
    BY <2>1 DEF HeardOfFrames, NothingHeard, Hearing
<1>2. /\ heard' \in Seq(Hearing) /\ Len(heard') = Len(heard) + 1
      /\ \A i \in 1..Len(heard) : heard'[i] = heard[i]
      /\ heard'[Len(heard) + 1] = NothingHeard
  BY <1>1
<1>3. HeardOfTop'
  BY <1>2 DEF HeardOfTop, Innermost
<1>4. heard'[1] = ToAll(<<"before_session">>)
  BY <1>2 DEF HeardOfFrames
<1>5. ASSUME NEW i \in 2..(Len(heard') - 1) PROVE heard'[i] = ToAll(<<"invoked">>)
  <2>1. i \in 1..Len(heard) /\ (i \in 2..(Len(heard) - 1) \/ i = Len(heard)) /\ i > 1
    BY <1>2, <1>5
  <2>2. i = Len(heard) => heard[i] = ToAll(<<"invoked">>)
    BY <2>1 DEF HeardOfFrames, HeardOfTop, Innermost
  <2> QED
    BY <1>2, <2>1, <2>2 DEF HeardOfFrames
<1> QED
  BY <1>1, <1>2, <1>3, <1>4, <1>5 DEF HeardOfFrames

\* Whoever leaves told what they should have, if all that is left says so.
LEMMA LeftTold ==
  ASSUME left' \in Departure, InOrder(left'.heard),
         left'.how \in {"returned", "raised"} =>
           \A d \in 1..Delegates :
             \E event \in {"result", "failure", "after_session"} : HasHeard(left'.heard, d, event),
         \A d \in 1..Delegates : HasHeard(left'.heard, d, "result") => left'.recorded
  PROVE  LeftInv'
<1>1. EndHeard'
  BY DEF EndHeard, HasHeard
<1>2. ResultIsRecorded'
  BY DEF ResultIsRecorded, HasHeard
<1>3. ToldInOrder'
  BY DEF ToldInOrder, InOrder, HasHeard
<1> QED
  BY <1>1, <1>2, <1>3 DEF LeftInv, DelegatesTold

\* The ways in which a session is left
LEMMA LeftSession ==
  ASSUME NEW h, NEW how \in {"returned", "unheard", "killed"}, HeardOfFrames,
         \/ h = NothingHeard /\ how = "killed"
         \/ how = "unheard" /\ \E n \in 1..Delegates : h = Heard(NothingHeard, "before_session", n)
         \/ \E n \in 1..Delegates : /\ h = Heard(ToAll(<<"before_session">>), "after_session", n)
                                    /\ how = "returned" => n = Delegates,
         left' = [heard |-> h, recorded |-> FALSE, how |-> how]
  PROVE  LeftInv'
<1>1. left'.heard = h /\ left'.how = how /\ left'.recorded = FALSE
  OBVIOUS
<1>2. /\ NothingHeard \in Hearing
      /\ \A s \in Seq(Event), n \in 1..Delegates, event \in Event :
           /\ Heard(NothingHeard, event, n) \in Hearing
           /\ Heard(ToAll(s), event, n) \in Hearing
  <2>1. NothingHeard \in Hearing
    <3>1. <<>> \in Seq(Event)
      OBVIOUS
    <3> QED
      BY <3>1 DEF NothingHeard, Hearing
  <2>2. \A s \in Seq(Event) : ToAll(s) \in Hearing
    BY DEF ToAll, Hearing
  <2> QED
    BY <2>1, <2>2, HeardType
<1>3. <<"before_session">> \in Seq(Event) /\ {"before_session", "after_session"} \subseteq Event
  BY DEF Event
<1>4. h \in Hearing
  <2>1. CASE h = NothingHeard
    BY <1>2, <2>1
  <2>2. CASE \E n \in 1..Delegates : h = Heard(NothingHeard, "before_session", n)
    BY <1>2, <1>3, <2>2
  <2>3. CASE \E n \in 1..Delegates : h = Heard(ToAll(<<"before_session">>), "after_session", n)
    BY <1>2, <1>3, <2>3
  <2> QED
    BY <2>1, <2>2, <2>3
<1>5. left' \in Departure
  BY <1>4 DEF Departure, Hearing
<1>6. InOrder(NothingHeard) /\ \A d \in 1..Delegates : ~HasHeard(NothingHeard, d, "result")
  <2>1. \A d \in 1..Delegates : NothingHeard[d] = <<>>
    BY DEF NothingHeard
  <2>2. \A d \in 1..Delegates : \A event : ~HasHeard(NothingHeard, d, event)
    BY <2>1 DEF HasHeard
  <2>3. <<>> \in History
    BY DEF History
  <2>4. \A d \in 1..Delegates : \A e \in 1..(d - 1) : e \in 1..Delegates
    BY CompositeCallbacksAssumption
  <2> QED
    BY <2>1, <2>2, <2>3, <2>4 DEF InOrder
<1>7. InOrder(h) /\ \A d \in 1..Delegates : ~HasHeard(h, d, "result")
  BY <1>6, SessionHeard
<1>8. how = "returned" =>
        \A d \in 1..Delegates : HasHeard(h, d, "after_session")
  BY SessionHeard
<1> QED
  BY <1>1, <1>5, <1>7, <1>8, LeftTold


\* The ways in which a task is left: r says whether it was recorded.
LEMMA LeftTask ==
  ASSUME NEW n \in 0..Delegates, NEW m \in 0..Delegates, NEW h, NEW g, NEW r \in BOOLEAN,
         NEW how \in {"returned", "raised", "exit", "unheard"},
         \/ h = Heard(NothingHeard, "invoked", n)
         \/ h = Heard(ToAll(<<"invoked">>), "result", n) /\ (n = 0 \/ r),
         \/ g = h /\ how = "exit"
         \/ g = h /\ h = Heard(ToAll(<<"invoked">>), "result", Delegates)
         \/ g = Heard(h, "failure", m) /\ (how = "unheard" \/ m = Delegates),
         left' = [heard |-> g, how |-> how, recorded |-> r]
  PROVE  LeftInv'
<1>1. left'.heard = g /\ left'.how = how /\ left'.recorded = r
  OBVIOUS
<1>2. <<>> \in Seq(Event) /\ <<"invoked">> \in Seq(Event)
      /\ {"invoked", "result", "failure"} \subseteq Event
  BY DEF Event
<1>3. NothingHeard \in Hearing /\ ToAll(<<"invoked">>) \in Hearing
  BY <1>2 DEF NothingHeard, ToAll, Hearing
<1>4. h \in Hearing /\ Heard(h, "failure", m) \in Hearing
  <2>1. CASE h = Heard(NothingHeard, "invoked", n)
    <3>1. h \in Hearing
      BY <1>2, <1>3, <2>1, HeardType
    <3> QED
      BY <1>2, <3>1, HeardType
  <2>2. CASE h = Heard(ToAll(<<"invoked">>), "result", n)
    <3>1. h \in Hearing
      BY <1>2, <1>3, <2>2, HeardType
    <3> QED
      BY <1>2, <3>1, HeardType
  <2> QED
    BY <2>1, <2>2
<1>5. left' \in Departure
  <2>1. g \in Hearing
    BY <1>4
  <2> QED
    BY <2>1 DEF Departure, Hearing
<1>6. /\ InOrder(h) /\ InOrder(Heard(h, "failure", m))
      /\ \A d \in 1..Delegates :
           /\ HasHeard(h, d, "result") \/ HasHeard(Heard(h, "failure", m), d, "result")
                => n # 0 /\ h = Heard(ToAll(<<"invoked">>), "result", n)
           /\ m = Delegates => HasHeard(Heard(h, "failure", m), d, "failure")
  BY TaskHeard
<1>7. ASSUME h = Heard(ToAll(<<"invoked">>), "result", Delegates), NEW d \in 1..Delegates
      PROVE  HasHeard(h, d, "result")
  <2>1. d \in ToldFirst("result", Delegates)
    BY DEF ToldFirst, Reversed
  <2>2. h[d] = Append(<<"invoked">>, "result")
    BY <1>7, <2>1, HeardOfAll
  <2>3. h[d] = <<"invoked", "result">>
    BY <2>2, Appended
  <2> QED
    BY <2>3, Histories
<1>8. InOrder(g)
  BY <1>6
<1>9. how \in {"returned", "raised"} =>
        \A d \in 1..Delegates :
          \E event \in {"result", "failure", "after_session"} : HasHeard(g, d, event)
  BY <1>6, <1>7
<1>10. ASSUME NEW d \in 1..Delegates, HasHeard(g, d, "result") PROVE r
  <2>1. n # 0 /\ h = Heard(ToAll(<<"invoked">>), "result", n)
    BY <1>6, <1>10
  <2>2. CASE h = Heard(NothingHeard, "invoked", n)
    <3>1. Heard(NothingHeard, "invoked", n)[1] # Heard(ToAll(<<"invoked">>), "result", n)[1]
      <4>1. /\ 1 \in 1..Delegates /\ 1 \in ToldFirst("invoked", n) /\ 1 \in ToldFirst("result", n)
        BY <2>1, CompositeCallbacksAssumption DEF ToldFirst, Reversed
      <4>2. Heard(ToAll(<<"invoked">>), "result", n)[1] = <<"invoked", "result">>
        <5>1. Append(<<"invoked">>, "result") = <<"invoked", "result">>
          BY Appended
        <5> QED
          BY <4>1, <5>1, HeardOfAll
      <4>3. Heard(NothingHeard, "invoked", n)[1] = Append(<<>>, "invoked")
        BY <4>1 DEF Heard, NothingHeard
      <4>4. Append(<<>>, "invoked") = <<"invoked">>
        BY Appended
      <4>5. <<"invoked">> # <<"invoked", "result">>
        OBVIOUS
      <4> QED
        BY <4>2, <4>3, <4>4, <4>5
    <3> QED
      BY <2>1, <2>2, <3>1
  <2>3. CASE n = 0 \/ r
    BY <2>1, <2>3
  <2> QED
    BY <2>2, <2>3
<1> QED
  BY <1>1, <1>5, <1>8, <1>9, <1>10, LeftTold


(***************************************************************************)
(* The steps, in turn                                                      *)
(***************************************************************************)
LEMMA LeftAlone ==
  ASSUME LeftInv, UNCHANGED left
  PROVE  LeftInv'
BY DEF LeftInv, DelegatesTold, EndHeard, ResultIsRecorded, ToldInOrder, HasHeard

LEMMA HeardTyped ==
  ASSUME TypeOK, HeardOfFrames
  PROVE  /\ heard \in Seq(Hearing) /\ Len(heard) = Len(stack) /\ Len(heard) \in Nat
         /\ stack # <<>> => Len(heard) \in Nat \ {0}
         /\ stack = <<>> => heard = <<>>
         /\ NothingHeard \in Hearing
<1>1. stack \in Seq(Frame) /\ Len(stack) \in Nat
  BY DEF TypeOK
<1>2. heard \in Seq(Hearing) /\ Len(heard) = Len(stack) /\ Len(heard) \in Nat
  BY <1>1 DEF HeardOfFrames
<1>3. <<>> \in Seq(Event)
  OBVIOUS
<1> QED
  BY <1>1, <1>2, <1>3, EmptySeq DEF NothingHeard, Hearing

LEMMA HeardAtOpen ==
  ASSUME TypeOK, HeardOfFrames, LeftInv, ROpen
  PROVE  HeardOfFrames' /\ LeftInv'
<1> DEFINE h == Heard(NothingHeard, "before_session", Delegates)
<1>1. UNCHANGED left /\ stack' = <<RootFrame>> /\ phase' = "body" /\ heard' = <<h>>
  BY DEF ROpen, Open
<1>2. h \in Hearing
  BY HeardTyped, HeardType DEF Event
<1>3. h = ToAll(<<"before_session">>)
  <2>1. Append(<<>>, "before_session") = <<"before_session">>
    BY Appended
  <2>2. ToldFirst("before_session", Delegates) = 1..Delegates
    BY DEF ToldFirst, Reversed
  <2> QED
    BY <2>1, <2>2 DEF Heard, NothingHeard, ToAll
<1> HIDE DEF h
<1>4. heard' \in Seq(Hearing) /\ Len(heard') = 1 /\ heard'[1] = h
  BY <1>1, <1>2
<1>5. Len(stack') = 1 /\ 2..(1 - 1) = {} /\ ~(1 > 1)
  BY <1>1
<1>6. HeardOfFrames'
  BY <1>1, <1>3, <1>4, <1>5 DEF HeardOfFrames
<1> QED
  BY <1>1, <1>6, LeftAlone

LEMMA HeardAtEnd ==
  ASSUME TypeOK, HeardOfFrames, LeftInv, RCrash \/ \E n \in 1..Delegates : RClose(n)
  PROVE  HeardOfFrames' /\ LeftInv'
<1>1. heard' = <<>> /\ stack' = <<>> /\ phase' = "off"
  BY DEF RCrash, RClose, Crash, Close, Forget
<1>2. heard' \in Seq(Hearing) /\ Len(heard') = 0 /\ Len(stack') = 0 /\ 2..(0 - 1) = {}
  BY <1>1
<1>3. HeardOfFrames'
  BY <1>1, <1>2 DEF HeardOfFrames
<1>4. CASE RCrash
  <2>1. left' = [heard |-> NothingHeard, recorded |-> FALSE, how |-> "killed"]
    BY <1>4 DEF RCrash, Fresh
  <2> QED
    BY <1>3, <2>1, LeftSession
<1>5. CASE \E n \in 1..Delegates : RClose(n)
  <2>1. PICK n \in 1..Delegates : RClose(n)
    BY <1>5
  <2>2. Len(heard) = 1
    BY <2>1, HeardTyped DEF RClose, Close
  <2>3. Innermost = ToAll(<<"before_session">>)
    BY <2>2 DEF Innermost, HeardOfFrames
  <2> DEFINE how == IF n = Delegates THEN "returned" ELSE "unheard"
             h == Heard(ToAll(<<"before_session">>), "after_session", n)
  <2>4. left' = [heard |-> h, recorded |-> FALSE, how |-> how]
    BY <2>1, <2>3 DEF RClose, Fresh
  <2>5. /\ how \in {"returned", "unheard", "killed"} /\ (how = "returned" => n = Delegates)
        /\ h = Heard(ToAll(<<"before_session">>), "after_session", n)
    OBVIOUS
  <2> HIDE DEF how, h
  <2> QED
    BY <1>3, <2>4, <2>5, LeftSession
<1> QED
  BY <1>4, <1>5

LEMMA HeardAtNoOpen ==
  ASSUME TypeOK, HeardOfFrames, LeftInv, NEW n \in 1..Delegates, ROpenFails(n)
  PROVE  HeardOfFrames' /\ LeftInv'
<1>1. UNCHANGED <<phase, stack, records, heard>> /\ phase = "off"
  BY DEF ROpenFails
<1>2. stack = <<>> /\ heard = <<>>
  BY <1>1, HeardTyped DEF TypeOK
<1>3. HeardOfFrames'
  BY <1>1, <1>2 DEF HeardOfFrames
<1> DEFINE h == Heard(NothingHeard, "before_session", n)
<1>4. left' = [heard |-> h, recorded |-> FALSE, how |-> "unheard"]
  BY DEF ROpenFails, Fresh
<1>5. h = Heard(NothingHeard, "before_session", n)
  OBVIOUS
<1> HIDE DEF h
<1> QED
  BY <1>3, <1>4, <1>5, LeftSession

LEMMA HeardAtSubmission ==
  ASSUME TypeOK, HeardOfFrames, LeftInv, RSubmission
  PROVE  HeardOfFrames' /\ LeftInv'
<1>1. PICK k \in Keys :
        \/ RSubmitFails(k)
        \/ \E t \in TaskType : LookupRaises(k, t) \/ RSkip(k, t) \/ RSkipFails(k, t) \/ RRun(k, t)
  BY DEF RSubmission
<1>2. UNCHANGED left /\ phase = "body"
  BY <1>1 DEF RSubmitFails, LookupRaises, SubmitFails, RSkip, RSkipFails, RRun, Run, CanSubmit
<1>3. stack # <<>> /\ Len(heard) \in Nat \ {0}
  BY <1>2, HeardTyped DEF TypeOK
<1>4. CASE RSubmitFails(k) \/ \E t \in TaskType : LookupRaises(k, t)
  <2>1. UNCHANGED <<heard, stack>> /\ phase' = "raising"
    BY <1>4 DEF RSubmitFails, LookupRaises, SubmitFails
  <2> QED
    BY <1>2, <1>3, <2>1, HeardKept, LeftAlone
<1>5. ASSUME NEW t \in TaskType, RSkip(k, t) \/ RSkipFails(k, t)
      PROVE  HeardOfFrames' /\ LeftInv'
  <2>1. /\ UNCHANGED heard /\ stack' = Advance(stack, Len(stack))
        /\ phase' \in {"body", "raising"}
    BY <1>2, <1>5 DEF RSkip, RSkipFails
  <2>2. Len(stack') = Len(stack)
    BY <1>3, <2>1, AdvanceTop, ExceptTop
  <2> QED
    BY <1>2, <1>3, <2>1, <2>2, HeardKept, LeftAlone
<1>6. ASSUME NEW t \in TaskType, RRun(k, t)
      PROVE  HeardOfFrames' /\ LeftInv'
  <2>1. Run(k, t) /\ phase' = "invoking" /\ heard' = Append(heard, NothingHeard)
    BY <1>6 DEF RRun, Run
  <2>2. Len(stack') = Len(stack) + 1
    BY <2>1, StartStack
  <2> QED
    BY <1>2, <1>3, <2>1, <2>2, HeardOfSubtask, LeftAlone
<1> QED
  BY <1>1, <1>4, <1>5, <1>6

LEMMA HeardAtBody ==
  ASSUME TypeOK, HeardOfFrames, LeftInv, RBody
  PROVE  HeardOfFrames' /\ LeftInv'
<1>1. UNCHANGED <<heard, left>>
  BY DEF RBody
<1>2. /\ phase \in {"body", "raising", "returned"}
      /\ phase' \in {"body", "raising", "returned", "recorded", "failing"}
      /\ phase' = "recorded" => MarkFinished
  BY DEF RBody, UserCode, BodyReturns, BodyCatches, BodyAborts, ExitScope, BodyRaises,
         EnterScope, MarkFinished, MarkRaises, Throw
<1>3. stack # <<>> /\ Len(heard) \in Nat
  BY <1>2, HeardTyped DEF TypeOK
<1>4. Len(stack') = Len(stack)
  <2>1. CASE (\E v \in BOOLEAN : EnterScope(v)) \/ ExitScope
    BY <1>3, <2>1, ScopeFrame, ExceptTop
  <2>2. CASE UNCHANGED stack
    BY <2>2
  <2> QED
    BY <2>1, <2>2 DEF RBody, UserCode, BodyReturns, BodyCatches, BodyAborts, BodyRaises,
                      MarkFinished, MarkRaises
<1>5. ASSUME MarkFinished PROVE IsRecorded(TaskOf(Top))'
  <2> DEFINE r == [task |-> TaskOf(Top), latest |-> latest]
  <2>1. records' = Append(records, r) /\ UNCHANGED stack /\ records \in Seq(Record)
    BY <1>5 DEF MarkFinished, TypeOK
  <2>2. r.task = TaskOf(Top) /\ TaskOf(Top)' = TaskOf(Top)
    BY <2>1 DEF Top, TaskOf
  <2> HIDE DEF r
  <2>3. Len(records) + 1 \in DOMAIN records' /\ records'[Len(records) + 1] = r
    BY <2>1
  <2> QED
    BY <2>2, <2>3 DEF IsRecorded
<1> QED
  BY <1>1, <1>2, <1>3, <1>4, <1>5, HeardKept, LeftAlone

LEMMA HeardAtTell ==
  ASSUME TypeOK, HeardOfFrames, LeftInv,
         RInvoked \/ \E n \in 1..Delegates : RInvokedRaises(n) \/ RFinishedRaises(n)
  PROVE  HeardOfFrames' /\ LeftInv'
<1>1. UNCHANGED <<left, stack, records>> /\ phase \in {"invoking", "recorded"}
  BY DEF RInvoked, RInvokedRaises, RFinishedRaises, Invoked, InvokedRaises, FinishedRaises
<1>2. Len(heard) \in Nat /\ Len(heard) > 1
  BY <1>1, HeardTyped DEF TypeOK
<1>3. /\ phase = "invoking" => Innermost = NothingHeard
      /\ phase = "recorded" => Innermost = ToAll(<<"invoked">>) /\ IsRecorded(TaskOf(Top))
  BY <1>2 DEF HeardOfFrames, HeardOfTop
<1>4. IsRecorded(TaskOf(Top))' <=> IsRecorded(TaskOf(Top))
  BY <1>1 DEF IsRecorded, TaskOf, Top
<1>5. \A n \in 1..Delegates : n \in 0..Delegates
  OBVIOUS
<1>6. Delegates \in 1..Delegates
  BY CompositeCallbacksAssumption
<1>7. /\ NothingHeard \in Hearing /\ ToAll(<<"invoked">>) \in Hearing
      /\ {"invoked", "result"} \subseteq Event
  <2>1. <<"invoked">> \in Seq(Event)
    BY DEF Event
  <2> QED
    BY <2>1, HeardTyped DEF ToAll, Hearing, Event
<1>8. CASE RInvoked
  <2> DEFINE h == Heard(NothingHeard, "invoked", Delegates)
  <2>1. heard' = [heard EXCEPT ![Len(heard)] = h] /\ phase' = "body"
    BY <1>3, <1>8 DEF RInvoked, Invoked, Tell, Innermost
  <2>2. h = ToAll(<<"invoked">>)
    <3>1. Append(<<>>, "invoked") = <<"invoked">>
      BY Appended
    <3>2. ToldFirst("invoked", Delegates) = 1..Delegates
      BY DEF ToldFirst, Reversed
    <3> QED
      BY <3>1, <3>2 DEF Heard, NothingHeard, ToAll
  <2> HIDE DEF h
  <2> QED
    BY <1>1, <1>2, <1>7, <2>1, <2>2, HeardTold, LeftAlone
<1>9. ASSUME NEW n \in 1..Delegates, RInvokedRaises(n) PROVE HeardOfFrames' /\ LeftInv'
  <2> DEFINE h == Heard(NothingHeard, "invoked", n)
  <2>1. heard' = [heard EXCEPT ![Len(heard)] = h] /\ phase' = "failing"
    BY <1>3, <1>9 DEF RInvokedRaises, InvokedRaises, Throw, Tell, Innermost
  <2>2. h \in Hearing
    BY <1>7, HeardType
  <2>3. h = Heard(NothingHeard, "invoked", n) /\ n \in 0..Delegates
    BY <1>5
  <2> HIDE DEF h
  <2> QED
    BY <1>1, <1>2, <2>1, <2>2, <2>3, HeardTold, LeftAlone
<1>10. ASSUME NEW n \in 1..Delegates, RFinishedRaises(n) PROVE HeardOfFrames' /\ LeftInv'
  <2> DEFINE h == Heard(ToAll(<<"invoked">>), "result", n)
  <2>1. /\ heard' = [heard EXCEPT ![Len(heard)] = h] /\ phase' = "failing"
        /\ IsRecorded(TaskOf(Top))
    BY <1>3, <1>10 DEF RFinishedRaises, FinishedRaises, Throw, Tell, Innermost, EndOf
  <2>2. h \in Hearing
    BY <1>7, HeardType
  <2>3. h = Heard(ToAll(<<"invoked">>), "result", n) /\ n \in 0..Delegates
    BY <1>5
  <2> HIDE DEF h
  <2> QED
    BY <1>1, <1>2, <1>4, <2>1, <2>2, <2>3, HeardTold, LeftAlone
<1> QED
  BY <1>8, <1>9, <1>10

\* There is an exception wherever one is handled.
ExcInFlight == phase \in {"raising", "failing"} => exc # "none"

LEMMA NextExc ==
  ASSUME ExcInFlight, [RNext]_rvars
  PROVE  ExcInFlight'
<1>1. "error" # "none" /\ \A e \in Raisable : e # "none"
  BY TaskExecutorAssumption DEF ExcKind
<1>2. CASE ROpen \/ RCrash \/ \E n \in 1..Delegates : ROpenFails(n) \/ RClose(n)
  BY <1>2 DEF ROpen, RCrash, ROpenFails, RClose, Open, Crash, Close, Forget, ExcInFlight
<1>3. CASE RSubmission
  <2>1. (phase' = phase /\ exc' = exc) \/ exc' = "error" \/ phase' = "invoking"
    BY <1>3 DEF RSubmission, RSubmitFails, LookupRaises, SubmitFails, RSkip, RSkipFails, RRun, Run
  <2> QED
    BY <1>1, <2>1 DEF ExcInFlight
<1>4. CASE RBody
  BY <1>1, <1>4 DEF RBody, UserCode, BodyReturns, BodyCatches, BodyAborts, ExitScope, BodyRaises,
                    EnterScope, MarkFinished, MarkRaises, Throw, ExcInFlight
<1>5. CASE RInvoked \/ RFinished \/ RHandled
           \/ \E n \in 1..Delegates : RInvokedRaises(n) \/ RFinishedRaises(n) \/ RHandlerRaises(n)
  <2>1. \/ Invoked \/ InvokedRaises \/ FinishedRaises \/ ReturnToCaller
        \/ RaiseInCaller("error")
        \/ phase = "failing" /\ RaiseInCaller(exc)
    BY <1>5, Zenon DEF RInvoked, RFinished, RHandled, RInvokedRaises, RFinishedRaises,
                       RHandlerRaises, Finished, Handled, HandlerRaises
  <2> QED
    BY <1>1, <2>1 DEF Invoked, InvokedRaises, FinishedRaises, ReturnToCaller, RaiseInCaller,
                      Throw, ExcInFlight
<1>6. CASE UNCHANGED rvars
  BY <1>6 DEF rvars, vars, ExcInFlight
<1> QED
  BY <1>2, <1>3, <1>4, <1>5, <1>6 DEF RNext, Delivery

\* A task is left with the innermost history, and perhaps with word that it is over.
LEMMA HeardAtLeave ==
  ASSUME TypeOK, CoordinatesAgree, HeardOfFrames, LeftInv, ExcInFlight,
         RFinished \/ RHandled \/ \E n \in 1..Delegates : RHandlerRaises(n)
  PROVE  HeardOfFrames' /\ LeftInv'
<1>1. phase \in {"recorded", "failing"} /\ phase' \in {"body", "raising"} /\ Leave
  <2>1. \/ phase = "recorded" /\ ReturnToCaller
        \/ phase = "failing" /\ (ReturnToCaller \/ \E e : RaiseInCaller(e))
    BY Zenon DEF RFinished, RHandled, RHandlerRaises, Finished, Handled, HandlerRaises
  <2> QED
    BY <2>1 DEF ReturnToCaller, RaiseInCaller
<1>2. Len(heard) \in Nat /\ Len(heard) > 1 /\ Len(stack) > 1
  BY <1>1, HeardTyped DEF TypeOK
<1>3. Len(stack') = Len(stack) - 1
  BY <1>1, <1>2, LeaveStack
<1> DEFINE r == IsRecorded(TaskOf(Top))
<1>4. PICK g, how : Departs(g, how)
  BY Zenon DEF RFinished, RHandled, RHandlerRaises
<1>5. HeardOfFrames'
  <2>1. heard' = Front(heard)
    BY <1>4, Zenon DEF Departs
  <2> QED
    BY <1>1, <1>2, <1>3, <2>1, HeardOfCaller
<1>6. r \in BOOLEAN
  BY Zenon DEF IsRecorded
<1>7. ASSUME NEW h, NEW way, Departs(h, way)
      PROVE  left' = [heard |-> h, how |-> way, recorded |-> r]
  BY <1>7, Zenon DEF Departs, IsRecorded
<1> HIDE DEF r
<1>8. Delegates \in 0..Delegates /\ 0 \in 0..Delegates /\ \A n \in 1..Delegates : n \in 0..Delegates
  BY CompositeCallbacksAssumption
<1>9. CASE RFinished
  <2> DEFINE h == Heard(ToAll(<<"invoked">>), "result", Delegates)
  <2>1. phase = "recorded" /\ Departs(Heard(Innermost, "result", Delegates), "returned")
    BY <1>9, Zenon DEF RFinished, Finished, EndOf
  <2>2. Innermost = ToAll(<<"invoked">>) /\ r = TRUE
    BY <1>2, <1>6, <2>1 DEF HeardOfFrames, HeardOfTop, r
  <2>3. left' = [heard |-> h, recorded |-> r, how |-> "returned"]
    BY <1>7, <2>1, <2>2
  <2>4. h = Heard(ToAll(<<"invoked">>), "result", Delegates)
    OBVIOUS
  <2> HIDE DEF h
  <2>5. LeftInv'
    BY <1>6, <1>8, <2>2, <2>3, <2>4, LeftTask
  <2> QED
    BY <1>5, <2>5
<1>10. ASSUME phase = "failing"
       PROVE  \E n \in 0..Delegates :
                \/ Innermost = Heard(NothingHeard, "invoked", n)
                \/ Innermost = Heard(ToAll(<<"invoked">>), "result", n) /\ (n = 0 \/ r)
  BY <1>2, <1>10 DEF HeardOfFrames, HeardOfTop, r
<1>11. ASSUME phase = "failing", NEW m \in 0..Delegates, NEW h, NEW way,
              Departs(h, way),
              \/ h = Innermost /\ way = "exit"
              \/ h = Heard(Innermost, "failure", m) /\ way \in {"returned", "raised"} /\ m = Delegates
              \/ h = Heard(Innermost, "failure", m) /\ way = "unheard"
       PROVE  LeftInv'
  <2>1. PICK n \in 0..Delegates :
          \/ Innermost = Heard(NothingHeard, "invoked", n)
          \/ Innermost = Heard(ToAll(<<"invoked">>), "result", n) /\ (n = 0 \/ r)
    BY <1>10, <1>11
  <2>2. left' = [heard |-> h, recorded |-> r, how |-> way]
    BY <1>7, <1>11
  <2>3. way \in {"returned", "raised", "exit", "unheard"}
    BY <1>11
  <2> QED
    BY <1>6, <1>11, <2>1, <2>2, <2>3, LeftTask
<1>12. exc # "none" => EndOf(exc) = "failure"
  BY DEF EndOf
<1>13. CASE RHandled
  <2>1. phase = "failing"
    BY <1>13, Zenon DEF RHandled, Handled
  <2>2. CASE exc = "exit"
    <3>1. Departs(Innermost, "exit")
      BY <1>13, <2>2, Zenon DEF RHandled
    <3> QED
      BY <1>5, <1>8, <1>11, <2>1, <3>1
  <2>3. CASE exc # "exit"
    <3>1. exc # "none"
      BY <2>1 DEF ExcInFlight
    <3>2. PICK way \in {"returned", "raised"} : Departs(Heard(Innermost, "failure", Delegates), way)
      BY <1>12, <1>13, <2>3, <3>1, Zenon DEF RHandled
    <3> QED
      BY <1>5, <1>8, <1>11, <2>1, <3>2
  <2> QED
    BY <2>2, <2>3
<1>14. ASSUME NEW n \in 1..Delegates, RHandlerRaises(n) PROVE LeftInv'
  <2>1. phase = "failing" /\ Departs(Heard(Innermost, EndOf(exc), n), "unheard")
    BY <1>14, Zenon DEF RHandlerRaises, HandlerRaises
  <2>2. exc # "none"
    BY <2>1 DEF ExcInFlight
  <2> QED
    BY <1>8, <1>11, <1>12, <2>1, <2>2
<1> QED
  BY <1>5, <1>9, <1>13, <1>14

LEMMA NextHeard ==
  ASSUME IInv, HeardOfFrames, LeftInv, ExcInFlight, [RNext]_rvars
  PROVE  HeardOfFrames' /\ LeftInv'
<1>1. TypeOK /\ CoordinatesAgree
  BY DEF IInv
<1>2. CASE ROpen
  BY <1>1, <1>2, HeardAtOpen
<1>3. CASE RCrash \/ \E n \in 1..Delegates : RClose(n)
  BY <1>1, <1>3, HeardAtEnd
<1>4. CASE \E n \in 1..Delegates : ROpenFails(n)
  BY <1>1, <1>4, HeardAtNoOpen
<1>5. CASE RSubmission
  BY <1>1, <1>5, HeardAtSubmission
<1>6. CASE RBody
  BY <1>1, <1>6, HeardAtBody
<1>7. CASE RInvoked \/ \E n \in 1..Delegates : RInvokedRaises(n) \/ RFinishedRaises(n)
  BY <1>1, <1>7, HeardAtTell
<1>8. CASE RFinished \/ RHandled \/ \E n \in 1..Delegates : RHandlerRaises(n)
  BY <1>1, <1>8, HeardAtLeave
<1>9. CASE UNCHANGED rvars
  <2>1. UNCHANGED <<phase, stack, records, heard, left>>
    BY <1>9 DEF rvars, vars
  <2>2. HeardOfFrames'
    BY <2>1 DEF HeardOfFrames, HeardOfTop, Innermost, IsRecorded, TaskOf, Top
  <2> QED
    BY <2>1, <2>2, LeftAlone
<1> QED
  BY <1>2, <1>3, <1>4, <1>5, <1>6, <1>7, <1>8, <1>9 DEF RNext, Delivery

(***************************************************************************)
(* The theorems.                                                           *)
(***************************************************************************)

\* The inductive invariant: that of TaskExecutor, what the table and latest_step have
\* to do with the STEPs that were run, the coordinates on the stack, and what was heard
\* of each frame.
RInv ==
  /\ IInv
  /\ RecordedOnce /\ TextNotYetRecorded
  /\ LatestInv
  /\ PathsNest
  /\ HeardOfFrames /\ LeftInv /\ ExcInFlight

LEMMA InitRInv == RInit => RInv
<1> SUFFICES ASSUME RInit PROVE RInv
  OBVIOUS
<1>1. /\ Init /\ heard = <<>> /\ ran = {}
      /\ left = [heard |-> NothingHeard, recorded |-> FALSE, how |-> "killed"]
  BY DEF RInit, Fresh
<1>2. phase = "off" /\ stack = <<>> /\ records = <<>> /\ latest = NoStep
  BY <1>1 DEF Init
<1>3. DOMAIN records = {} /\ Len(stack) = 0 /\ Len(heard) = 0 /\ heard \in Seq(Hearing)
  BY <1>1, <1>2
<1>4. IInv
  BY <1>1, InitInv
<1>5. RecordedOnce /\ TextNotYetRecorded
  BY <1>2, <1>3 DEF RecordedOnce, TextNotYetRecorded, Running
<1>6. LatestInv
  BY <1>1, <1>2, <1>3 DEF LatestInv
<1>7. PathsNest
  BY <1>3 DEF PathsNest
<1>8. HeardOfFrames
  <2>1. 2..(0 - 1) = {} /\ ~(0 > 0) /\ ~(0 > 1)
    OBVIOUS
  <2> QED
    BY <1>2, <1>3, <2>1 DEF HeardOfFrames
<1>9. LeftInv
  <2>1. <<>> \in Seq(Event) /\ <<>> \in History
    BY DEF History
  <2>2. \A d \in 1..Delegates : NothingHeard[d] = <<>>
    BY DEF NothingHeard
  <2>3. \A d \in 1..Delegates : \A event : ~HasHeard(NothingHeard, d, event)
    BY <2>2 DEF HasHeard
  <2>4. \A d \in 1..Delegates : \A e \in 1..(d - 1) : e \in 1..Delegates
    BY CompositeCallbacksAssumption
  <2>5. left.heard = NothingHeard /\ left.how = "killed"
    BY <1>1
  <2>6. left \in Departure
    BY <1>1, <2>1 DEF Departure, NothingHeard
  <2>7. EndHeard /\ ResultIsRecorded
    BY <2>3, <2>5 DEF EndHeard, ResultIsRecorded
  <2>8. ToldInOrder
    BY <2>1, <2>2, <2>3, <2>4, <2>5 DEF ToldInOrder
  <2> QED
    BY <2>6, <2>7, <2>8 DEF LeftInv, DelegatesTold
<1>10. ExcInFlight
  BY <1>2 DEF ExcInFlight
<1> QED
  BY <1>4, <1>5, <1>6, <1>7, <1>8, <1>9, <1>10 DEF RInv

LEMMA NextRInv == RInv /\ [RNext]_rvars => RInv'
BY NextIInv, NextOnce, NextRuns, NextPaths, NextHeard, NextExc DEF RInv

\* The invariant holds however tasks fail, delegates raise, the process dies and keys
\* are read back.
THEOREM RecordedInvariant == RSpec => []RInv
BY InitRInv, NextRInv, PTL DEF RSpec

\* Every variable has its type, and what is heard goes with the frames of the stack.
THEOREM RecordedTyped == RSpec => []RTypeOK
<1>1. RInv => RTypeOK
  <2> SUFFICES ASSUME RInv PROVE RTypeOK
    OBVIOUS
  <2>1. TypeOK /\ heard \in Seq(Hearing) /\ Len(heard) = Len(stack) /\ left \in Departure
    BY DEF RInv, IInv, HeardOfFrames, LeftInv
  <2>2. \A i \in DOMAIN heard : heard[i] \in Hearing
    BY <2>1
  <2>3. \A text \in ran : text.type = "STEP"
    BY DEF RInv, LatestInv
  <2> QED
    BY <2>1, <2>2, <2>3 DEF RTypeOK, Hearing
<1> QED
  BY <1>1, RecordedInvariant, PTL

\* The assertion of _find_execution_log cannot fail: there are no two records of STEPs
\* with one text, although different keys may be written alike.
THEOREM RecordedOnceHolds == RSpec => []RecordedOnce
<1>1. RInv => RecordedOnce
  BY DEF RInv
<1> QED
  BY <1>1, RecordedInvariant, PTL

\* Coordinates relate as the tasks on the stack do, and come back from the table as they
\* were exactly if all of their keys are plain.
THEOREM CoordinatesHoldAlways == RSpec => []CoordinatesHold
<1>1. RInv => CoordinatesHold
  BY CoordinatesFollow DEF RInv
<1> QED
  BY <1>1, RecordedInvariant, PTL

\* latest_step names the branch of a STEP that was run, after it was read from a record,
\* too, unless a numeral among its keys is written in another way by then.
THEOREM LatestWasRunHolds == RSpec => []LatestWasRun
<1>1. RInv => LatestWasRun
  BY DEF RInv, LatestInv, LatestWasRun, WasRun
<1> QED
  BY <1>1, RecordedInvariant, PTL

\* Every delegate is told that a task or a session is over, unless one raises while they are
\* told so: of tasks forwards, of sessions backwards, and of a Result only after the record
\* was written (executor.py, callbacks.py).
THEOREM DelegatesToldHolds == RSpec => []DelegatesTold
<1>1. RInv => DelegatesTold
  BY DEF RInv, LeftInv
<1> QED
  BY <1>1, RecordedInvariant, PTL

=============================================================================
