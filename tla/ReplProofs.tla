------------------------------- MODULE ReplProofs -------------------------------
(***************************************************************************)
(* The REPL for any names, any input and any depth: what the parser has on *)
(* its stack always closes the brackets it has read, so only whole inputs  *)
(* reach the session, and an input that ends calmly is kept.               *)
(*                                                                         *)
(* The parser is taken as the grammar that it is: all that its functions   *)
(* do is put a word in the place of a symbol.  A word opens and closes     *)
(* what its symbol does, and asks for nothing that may be missing but      *)
(* behind a token that is not calm.  That is shown of each word once; then *)
(* one lemma (RewritesKeep) is about all steps of the parser but expect, the *)
(* module itself, known_types.insert, the text of asm, and Reject.         *)
(***************************************************************************)
EXTENDS Repl, Descent, SequenceTheorems, TLAPS

Symbols  == Expected \cup Todo
Brackets == Seq(Opening \cup Closing)
Read(os, sym) == Bracket(os, Owed(sym))

Reading(os, w) == [t \in Nat \X Brackets |-> Read(t[2], w[t[1]])]
Counts(f, os, w, m) == f = [j \in 0 .. m |-> IF j = 0 THEN os ELSE Bracket(f[j - 1], Owed(w[j]))]

LEMMA BracketsStay == ASSUME NEW os \in Brackets, NEW t PROVE Bracket(os, t) \in Brackets
<1>1. CASE t \in Opening
  <2>1. Bracket(os, t) = Append(os, t)
    BY <1>1 DEF Bracket, Opening, Closing
  <2> QED BY <1>1, <2>1, AppendProperties DEF Brackets
<1>2. CASE t \in Closing /\ os # <<>> /\ Closes(os[Len(os)]) = t
  <2>1. Bracket(os, t) = SubSeq(os, 1, Len(os) - 1)
    BY <1>2 DEF Bracket, Opening, Closing
  <2>2. SubSeq(os, 1, Len(os) - 1) \in Brackets
    BY <1>2, SMT DEF Brackets
  <2> QED BY <2>1, <2>2
<1>3. CASE t \in Closing /\ ~ (os # <<>> /\ Closes(os[Len(os)]) = t)
  <2>1. Bracket(os, t) = Append(os, t)
    BY <1>3 DEF Bracket, Opening, Closing
  <2> QED BY <1>3, <2>1, AppendProperties DEF Brackets
<1>4. CASE t \notin Opening \cup Closing
  BY <1>4 DEF Bracket
<1> QED BY <1>1, <1>2, <1>3, <1>4

LEMMA CountsIsRow ==
  ASSUME NEW f, NEW os \in Brackets, NEW w, NEW m \in Nat
  PROVE  (Counts(f, os, w, m) <=> Row(f, m, os, Reading(os, w))) /\ (Counts(f, os, w, m) => \A k \in 0 .. m : f[k] \in Brackets)
<1> DEFINE step == Reading(os, w)
<1>1. \A k \in Nat, x \in Brackets : step[<<k, x>>] = Bracket(x, Owed(w[k])) /\ step[<<k, x>>] \in Brackets
  BY BracketsStay DEF Reading, Read
<1>2. \A k \in 1 .. m : k \in 0 .. m /\ k # 0 /\ k \in Nat /\ k - 1 \in 0 .. m
  BY SMT
<1> HIDE DEF step
<1>3. ASSUME f[0] = os,
             \/ \A k \in 1 .. m : f[k] = Bracket(f[k - 1], Owed(w[k]))
             \/ \A k \in 1 .. m : f[k] = step[<<k, f[k - 1]>>]
      PROVE  \A k \in 0 .. m : f[k] \in Brackets
  <2> DEFINE T == {k \in Nat : k <= m => f[k] \in Brackets}
  <2>1. 0 \in T
    BY <1>3
  <2>2. ASSUME NEW k \in Nat, k \in T PROVE k + 1 \in T
    <3>1. SUFFICES ASSUME k + 1 <= m PROVE f[k + 1] \in Brackets
      OBVIOUS
    <3>2. k + 1 \in 1 .. m /\ k + 1 - 1 = k /\ k <= m /\ k + 1 \in Nat
      BY <3>1, SMT
    <3>3. f[k] \in Brackets
      BY <2>2, <3>2
    <3>4. f[k + 1] = Bracket(f[k], Owed(w[k + 1])) \/ f[k + 1] = step[<<k + 1, f[k]>>]
      BY <1>3, <3>2
    <3> QED BY <1>1, <3>2, <3>3, <3>4, BracketsStay
  <2> HIDE DEF T
  <2>3. \A k \in Nat : k \in T
    BY <2>1, <2>2, AllNumbers
  <2>4. \A k \in 0 .. m : k \in Nat /\ k <= m
    BY SMT
  <2> QED BY <2>3, <2>4 DEF T
<1> DEFINE g == [k \in 0 .. m |-> IF k = 0 THEN os ELSE Bracket(f[k - 1], Owed(w[k]))]
           h == [k \in 0 .. m |-> IF k = 0 THEN os ELSE step[<<k, f[k - 1]>>]]
<1>4. ASSUME \A k \in 0 .. m : f[k] \in Brackets PROVE g = h
  <2>1. ASSUME NEW k \in 0 .. m PROVE g[k] = h[k]
    <3>1. k = 0 \/ k \in 1 .. m
      BY SMT
    <3> QED BY <1>1, <1>2, <1>4, <3>1
  <2> QED BY <2>1
<1>5. ASSUME Counts(f, os, w, m) PROVE Row(f, m, os, step) /\ \A k \in 0 .. m : f[k] \in Brackets
  <2>1. f = g
    BY <1>5 DEF Counts
  <2>2. g[0] = os /\ \A k \in 1 .. m : g[k] = Bracket(f[k - 1], Owed(w[k]))
    BY <1>2, SMT
  <2>3. f[0] = os /\ \A k \in 1 .. m : f[k] = Bracket(f[k - 1], Owed(w[k]))
    BY <2>1, <2>2
  <2>4. \A k \in 0 .. m : f[k] \in Brackets
    BY <1>3, <2>3
  <2> QED BY <1>4, <2>1, <2>4 DEF Row
<1>6. ASSUME Row(f, m, os, step) PROVE Counts(f, os, w, m)
  <2>1. f[0] = os /\ \A k \in 1 .. m : f[k] = step[<<k, f[k - 1]>>]
    BY <1>6, RowSteps
  <2>2. \A k \in 0 .. m : f[k] \in Brackets
    BY <1>3, <2>1
  <2> QED BY <1>4, <1>6, <2>2 DEF Row, Counts
<1> QED BY <1>5, <1>6 DEF step

\* The recursion of Pending is what it says.
LEMMA PendingSteps ==
  ASSUME NEW os \in Brackets, NEW w
  PROVE  /\ Pending(os, w, 0) = os
         /\ \A k \in Nat : /\ Pending(os, w, k) \in Brackets
                           /\ Pending(os, w, k + 1) = Read(Pending(os, w, k), w[k + 1])
<1>1. ASSUME NEW m \in Nat PROVE \E f : Counts(f, os, w, m) /\ Pending(os, w, m) = f[m]
  <2> DEFINE f == CHOOSE f : Counts(f, os, w, m)
  <2>1. \E g : Counts(g, os, w, m)
    BY RowExists, CountsIsRow
  <2>2. Counts(f, os, w, m)
    BY <2>1
  <2>3. Pending(os, w, m) = f[m]
    BY Zenon DEF Pending, Counts
  <2> QED BY <2>2, <2>3
<1>2. ASSUME NEW m \in Nat, NEW n \in Nat, NEW f, NEW g, Counts(f, os, w, m), Counts(g, os, w, n)
      PROVE  \A k \in Nat : k <= m /\ k <= n => f[k] = g[k]
  BY <1>2, CountsIsRow, RowsAgree
<1>3. Pending(os, w, 0) = os
  <2>1. PICK f : Counts(f, os, w, 0) /\ Pending(os, w, 0) = f[0]
    BY <1>1
  <2>2. Row(f, 0, os, Reading(os, w))
    BY <2>1, CountsIsRow
  <2> QED BY <2>1, <2>2, RowSteps
<1>4. ASSUME NEW k \in Nat PROVE Pending(os, w, k) \in Brackets /\ Pending(os, w, k + 1) = Read(Pending(os, w, k), w[k + 1])
  <2>1. k + 1 \in Nat /\ k + 1 \in 0 .. k + 1 /\ k + 1 # 0 /\ k + 1 - 1 = k /\ k <= k + 1 /\ k <= k /\ k \in 0 .. k
    BY SMT
  <2>2. PICK f : Counts(f, os, w, k + 1) /\ Pending(os, w, k + 1) = f[k + 1]
    BY <1>1, <2>1
  <2>3. PICK g : Counts(g, os, w, k) /\ Pending(os, w, k) = g[k]
    BY <1>1
  <2>4. f[k] = g[k]
    BY <1>2, <2>1, <2>2, <2>3
  <2>5. f[k + 1] = Bracket(f[k], Owed(w[k + 1]))
    <3> DEFINE h == [j \in 0 .. k + 1 |-> IF j = 0 THEN os ELSE Bracket(f[j - 1], Owed(w[j]))]
    <3>1. f = h
      BY <2>2 DEF Counts
    <3>2. h[k + 1] = Bracket(f[k], Owed(w[k + 1]))
      BY <2>1
    <3> HIDE DEF h
    <3> QED BY <3>1, <3>2
  <2>6. g[k] \in Brackets
    BY <2>1, <2>3, CountsIsRow
  <2> QED BY <2>2, <2>3, <2>4, <2>5, <2>6 DEF Read
<1> QED BY <1>3, <1>4

\* Two texts that go on alike from places with the same brackets open stay together.
Alike(u, a, v, b, m) == \A j \in 1 .. m : u[a + j] = v[b + j]
LEMMA PendingShift ==
  ASSUME NEW os \in Brackets, NEW pt \in Brackets, NEW u, NEW v, NEW a \in Nat, NEW b \in Nat, NEW m \in Nat,
         NEW p, NEW q, p = a + m, q = b + m, Pending(os, u, a) = Pending(pt, v, b), Alike(u, a, v, b, m)
  PROVE  Pending(os, u, p) = Pending(pt, v, q)
<1> DEFINE T == {k \in Nat : k <= m => Pending(os, u, a + k) = Pending(pt, v, b + k)}
<1>1. 0 \in T
  <2>1. a + 0 = a /\ b + 0 = b
    OBVIOUS
  <2> QED BY <2>1
<1>2. ASSUME NEW k \in Nat, k \in T PROVE k + 1 \in T
  <2>1. SUFFICES ASSUME k + 1 <= m PROVE Pending(os, u, a + (k + 1)) = Pending(pt, v, b + (k + 1))
    OBVIOUS
  <2>2. /\ k <= m /\ k + 1 \in 1 .. m /\ a + k \in Nat /\ b + k \in Nat
        /\ a + (k + 1) = (a + k) + 1 /\ b + (k + 1) = (b + k) + 1
    BY <2>1, SMT
  <2>3. /\ Pending(os, u, (a + k) + 1) = Read(Pending(os, u, a + k), u[(a + k) + 1])
        /\ Pending(pt, v, (b + k) + 1) = Read(Pending(pt, v, b + k), v[(b + k) + 1])
    BY <2>2, PendingSteps
  <2>4. u[(a + k) + 1] = v[(b + k) + 1] /\ Pending(os, u, a + k) = Pending(pt, v, b + k)
    BY <1>2, <2>2 DEF Alike
  <2> QED BY <2>2, <2>3, <2>4
<1> HIDE DEF T
<1>3. m \in T
  BY <1>1, <1>2, AllNumbers
<1>4. m <= m
  BY SMT
<1>5. Pending(os, u, a + m) = Pending(pt, v, b + m)
  BY <1>3, <1>4 DEF T
<1> QED BY <1>5

\* Tokens behind which an input may be lost, and what may then look in vain for a token.
Jagged == Tokens \ Calm
Hungry == {"top", "path", "ty", "params", "param", "stmt", "cond", "step", "first", "expr", "args", "prefix",
           "size", "group"}

Plain  == Symbols \ (Opening \cup Closing \cup {"group"})

LEMMA PlainReads == \A os, s : s \in Plain => Read(os, s) = os
<1>1. ASSUME NEW os, NEW s, s \in Plain PROVE Read(os, s) = os
  <2>1. s \notin Opening /\ s \notin Closing /\ s # "group"
    BY <1>1 DEF Plain
  <2>2. Bracket(os, s) = os
    BY <2>1 DEF Bracket
  <2> QED BY <2>1, <2>2 DEF Read, Owed
<1> QED BY <1>1

LEMMA PairsRead == ASSUME NEW os \in Brackets
                   PROVE  /\ Read(Read(os, "("), ")") = os
                          /\ Read(Read(os, "["), "]") = os
                          /\ Read(Read(os, "{"), "}") = os
<1>2. Closes("(") = ")" /\ Closes("[") = "]" /\ Closes("{") = "}"
  BY DEF Closes
<1>1. ASSUME NEW b \in Opening PROVE Read(Read(os, b), Closes(b)) = os
  <2>1. Closes(b) \in Closing /\ Closes(b) \notin Opening /\ b \notin Closing /\ b # "group" /\ Closes(b) # "group"
    <3>1. CASE b = "("
      BY <3>1, <1>2 DEF Opening, Closing
    <3>2. CASE b = "["
      BY <3>2, <1>2 DEF Opening, Closing
    <3>3. CASE b = "{"
      BY <3>3, <1>2 DEF Opening, Closing
    <3> QED BY <1>1, <3>1, <3>2, <3>3 DEF Opening
  <2>2. Read(os, b) = Append(os, b)
    BY <2>1 DEF Read, Owed, Bracket
  <2>3. /\ Append(os, b) # <<>> /\ Append(os, b)[Len(Append(os, b))] = b
        /\ SubSeq(Append(os, b), 1, Len(Append(os, b)) - 1) = os
    BY AppendProperties, SMT DEF Brackets
  <2>4. ASSUME NEW ps, ps # <<>>, ps[Len(ps)] = b PROVE Read(ps, Closes(b)) = SubSeq(ps, 1, Len(ps) - 1)
    BY <2>1, <2>4 DEF Read, Owed, Bracket
  <2> QED BY <2>2, <2>3, <2>4
<1> QED BY <1>1, <1>2 DEF Opening

LEMMA FirstReads ==
  ASSUME NEW os \in Brackets, NEW w
  PROVE  /\ Pending(os, w, 0) = os
         /\ Pending(os, w, 1) = Read(Pending(os, w, 0), w[1])
         /\ Pending(os, w, 2) = Read(Pending(os, w, 1), w[2])
         /\ Pending(os, w, 3) = Read(Pending(os, w, 2), w[3])
         /\ Pending(os, w, 4) = Read(Pending(os, w, 3), w[4])
         /\ Pending(os, w, 5) = Read(Pending(os, w, 4), w[5])
         /\ Pending(os, w, 6) = Read(Pending(os, w, 5), w[6])
         /\ Pending(os, w, 7) = Read(Pending(os, w, 6), w[7])
         /\ Pending(os, w, 8) = Read(Pending(os, w, 7), w[8])
         /\ Pending(os, w, 9) = Read(Pending(os, w, 8), w[9])
<1>1. 1 = 0 + 1 /\ 2 = 1 + 1 /\ 3 = 2 + 1 /\ 4 = 3 + 1 /\ 5 = 4 + 1 /\ 6 = 5 + 1 /\ 7 = 6 + 1 /\ 8 = 7 + 1 /\ 9 = 8 + 1
  OBVIOUS
<1>2. \A k \in Nat : Pending(os, w, k + 1) = Read(Pending(os, w, k), w[k + 1])
  BY PendingSteps
<1>3. /\ 0 \in Nat /\ 1 \in Nat /\ 2 \in Nat /\ 3 \in Nat /\ 4 \in Nat /\ 5 \in Nat /\ 6 \in Nat /\ 7 \in Nat
      /\ 8 \in Nat /\ 9 \in Nat
  OBVIOUS
<1> QED BY <1>1, <1>2, <1>3, PendingSteps, Zenon

-----------------------------------------------------------------------------
(* Words: what a function puts on the stack for one of its tests.          *)

\* t may follow s: only behind a token that is not calm may something hungry come.
Usual == Symbols \ {"module", "top", "insert"}
Runs(s, t) == s \in Jagged \/ t \notin Hungry
\* Read as a whole, w leaves the brackets as they were.
Even(w) == \A os \in Brackets : Pending(os, w, Len(w)) = os
\* t closes what s opens.
Pair(s, t) == \A os \in Brackets : Read(Read(os, s), t) = os
Smooth(w) == \A k \in 1 .. Len(w) - 1 : Runs(w[k], w[k + 1])
Good(S, w) == w \in Seq(S) /\ Smooth(w)
\* Its first may wait for a token.
Starts(w) == w = <<>> \/ w[1] \notin Hungry

LEMMA WordOfOne ==
  ASSUME NEW S, NEW a \in S
  PROVE  /\ Good(S, <<a>>) /\ (a \notin Hungry => Starts(<<a>>))
         /\ a \in Plain => Even(<<a>>)
<1> DEFINE w == <<a>>
<1>1. Len(w) = 1 /\ w[1] = a /\ w \in Seq(S)
  BY SMT
<1> HIDE DEF w
<1>3. Smooth(w)
  BY <1>1, SMT DEF Smooth
<1>4. ASSUME NEW os \in Brackets PROVE Pending(os, w, Len(w)) = Read(os, a)
  BY <1>1, FirstReads
<1>5. a \in Plain => Even(w)
  BY <1>4, PlainReads DEF Even, Pair
<1> QED BY <1>1, <1>3, <1>5 DEF w, Good, Starts

LEMMA WordOfTwo ==
  ASSUME NEW S, NEW a \in S, NEW b \in S,
         Runs(a, b)
  PROVE  /\ Good(S, <<a, b>>) /\ (a \notin Hungry => Starts(<<a, b>>))
         /\ a \in Plain /\ b \in Plain => Even(<<a, b>>)
         /\ Pair(a, b) => Even(<<a, b>>)
<1> DEFINE w == <<a, b>>
<1>1. Len(w) = 2 /\ w[1] = a /\ w[2] = b /\ w \in Seq(S)
  BY SMT
<1> HIDE DEF w
<1>2. \A k \in 1 .. 2 - 1 : k = 1
  BY SMT
<1>3. Smooth(w)
  BY <1>1, <1>2 DEF Smooth
<1>4. ASSUME NEW os \in Brackets PROVE Pending(os, w, Len(w)) = Read(Read(os, a), b)
  BY <1>1, FirstReads
<1>5. a \in Plain /\ b \in Plain => Even(w)
  BY <1>4, PlainReads DEF Even, Pair
<1>6. Pair(a, b) => Even(w)
  BY <1>4, PlainReads DEF Even, Pair
<1> QED BY <1>1, <1>3, <1>5, <1>6 DEF w, Good, Starts

LEMMA WordOfThree ==
  ASSUME NEW S, NEW a \in S, NEW b \in S, NEW c \in S,
         Runs(a, b), Runs(b, c)
  PROVE  /\ Good(S, <<a, b, c>>) /\ (a \notin Hungry => Starts(<<a, b, c>>))
         /\ a \in Plain /\ b \in Plain /\ c \in Plain => Even(<<a, b, c>>)
         /\ b \in Plain /\ Pair(a, c) => Even(<<a, b, c>>)
<1> DEFINE w == <<a, b, c>>
<1>1. Len(w) = 3 /\ w[1] = a /\ w[2] = b /\ w[3] = c /\ w \in Seq(S)
  BY SMT
<1> HIDE DEF w
<1>2. \A k \in 1 .. 3 - 1 : k = 1 \/ k = 2
  BY SMT
<1>3. Smooth(w)
  BY <1>1, <1>2 DEF Smooth
<1>4. ASSUME NEW os \in Brackets PROVE Pending(os, w, Len(w)) = Read(Read(Read(os, a), b), c)
  BY <1>1, FirstReads
<1>5. a \in Plain /\ b \in Plain /\ c \in Plain => Even(w)
  BY <1>4, PlainReads DEF Even, Pair
<1>6. b \in Plain /\ Pair(a, c) => Even(w)
  BY <1>4, PlainReads DEF Even, Pair
<1> QED BY <1>1, <1>3, <1>5, <1>6 DEF w, Good, Starts

LEMMA WordOfFour ==
  ASSUME NEW S, NEW a \in S, NEW b \in S, NEW c \in S, NEW d \in S,
         Runs(a, b), Runs(b, c), Runs(c, d)
  PROVE  /\ Good(S, <<a, b, c, d>>) /\ (a \notin Hungry => Starts(<<a, b, c, d>>))
         /\ a \in Plain /\ b \in Plain /\ c \in Plain /\ d \in Plain => Even(<<a, b, c, d>>)
         /\ b \in Plain /\ d \in Plain /\ Pair(a, c) => Even(<<a, b, c, d>>)
         /\ a \in Plain /\ c \in Plain /\ Pair(b, d) => Even(<<a, b, c, d>>)
<1> DEFINE w == <<a, b, c, d>>
<1>1. Len(w) = 4 /\ w[1] = a /\ w[2] = b /\ w[3] = c /\ w[4] = d /\ w \in Seq(S)
  BY SMT
<1> HIDE DEF w
<1>2. \A k \in 1 .. 4 - 1 : k = 1 \/ k = 2 \/ k = 3
  BY SMT
<1>3. Smooth(w)
  BY <1>1, <1>2 DEF Smooth
<1>4. ASSUME NEW os \in Brackets PROVE Pending(os, w, Len(w)) = Read(Read(Read(Read(os, a), b), c), d)
  BY <1>1, FirstReads
<1>5. a \in Plain /\ b \in Plain /\ c \in Plain /\ d \in Plain => Even(w)
  BY <1>4, PlainReads DEF Even, Pair
<1>6. b \in Plain /\ d \in Plain /\ Pair(a, c) => Even(w)
  BY <1>4, PlainReads DEF Even, Pair
<1>7. a \in Plain /\ c \in Plain /\ Pair(b, d) => Even(w)
  BY <1>4, PlainReads DEF Even, Pair
<1> QED BY <1>1, <1>3, <1>5, <1>6, <1>7 DEF w, Good, Starts

LEMMA WordOfFive ==
  ASSUME NEW S, NEW a \in S, NEW b \in S, NEW c \in S, NEW d \in S, NEW e \in S,
         Runs(a, b), Runs(b, c), Runs(c, d), Runs(d, e)
  PROVE  /\ Good(S, <<a, b, c, d, e>>) /\ (a \notin Hungry => Starts(<<a, b, c, d, e>>))
         /\ a \in Plain /\ b \in Plain /\ c \in Plain /\ d \in Plain /\ e \in Plain => Even(<<a, b, c, d, e>>)
         /\ a \in Plain /\ c \in Plain /\ e \in Plain /\ Pair(b, d) => Even(<<a, b, c, d, e>>)
<1> DEFINE w == <<a, b, c, d, e>>
<1>1. Len(w) = 5 /\ w[1] = a /\ w[2] = b /\ w[3] = c /\ w[4] = d /\ w[5] = e /\ w \in Seq(S)
  BY SMT
<1> HIDE DEF w
<1>2. \A k \in 1 .. 5 - 1 : k = 1 \/ k = 2 \/ k = 3 \/ k = 4
  BY SMT
<1>3. Smooth(w)
  BY <1>1, <1>2 DEF Smooth
<1>4. ASSUME NEW os \in Brackets PROVE Pending(os, w, Len(w)) = Read(Read(Read(Read(Read(os, a), b), c), d), e)
  BY <1>1, FirstReads
<1>5. a \in Plain /\ b \in Plain /\ c \in Plain /\ d \in Plain /\ e \in Plain => Even(w)
  BY <1>4, PlainReads DEF Even, Pair
<1>6. a \in Plain /\ c \in Plain /\ e \in Plain /\ Pair(b, d) => Even(w)
  BY <1>4, PlainReads DEF Even, Pair
<1> QED BY <1>1, <1>3, <1>5, <1>6 DEF w, Good, Starts

LEMMA WordOfSix ==
  ASSUME NEW S, NEW a \in S, NEW b \in S, NEW c \in S, NEW d \in S, NEW e \in S, NEW f \in S,
         Runs(a, b), Runs(b, c), Runs(c, d), Runs(d, e), Runs(e, f)
  PROVE  /\ Good(S, <<a, b, c, d, e, f>>) /\ (a \notin Hungry => Starts(<<a, b, c, d, e, f>>))
         /\ a \in Plain /\ c \in Plain /\ e \in Plain /\ f \in Plain /\ Pair(b, d) => Even(<<a, b, c, d, e, f>>)
<1> DEFINE w == <<a, b, c, d, e, f>>
<1>1. Len(w) = 6 /\ w[1] = a /\ w[2] = b /\ w[3] = c /\ w[4] = d /\ w[5] = e /\ w[6] = f /\ w \in Seq(S)
  BY SMT
<1> HIDE DEF w
<1>2. \A k \in 1 .. 6 - 1 : k = 1 \/ k = 2 \/ k = 3 \/ k = 4 \/ k = 5
  BY SMT
<1>3. Smooth(w)
  BY <1>1, <1>2 DEF Smooth
<1>4. ASSUME NEW os \in Brackets PROVE Pending(os, w, Len(w)) = Read(Read(Read(Read(Read(Read(os, a), b), c), d), e), f)
  BY <1>1, FirstReads
<1>5. a \in Plain /\ c \in Plain /\ e \in Plain /\ f \in Plain /\ Pair(b, d) => Even(w)
  BY <1>4, PlainReads DEF Even, Pair
<1> QED BY <1>1, <1>3, <1>5 DEF w, Good, Starts

LEMMA WordOfSeven ==
  ASSUME NEW S, NEW a \in S, NEW b \in S, NEW c \in S, NEW d \in S, NEW e \in S, NEW f \in S, NEW g \in S,
         Runs(a, b), Runs(b, c), Runs(c, d), Runs(d, e), Runs(e, f), Runs(f, g)
  PROVE  /\ Good(S, <<a, b, c, d, e, f, g>>) /\ (a \notin Hungry => Starts(<<a, b, c, d, e, f, g>>))
         /\ a \in Plain /\ b \in Plain /\ c \in Plain /\ e \in Plain /\ g \in Plain /\ Pair(d, f) => Even(<<a, b, c, d, e, f, g>>)
         /\ a \in Plain /\ b \in Plain /\ d \in Plain /\ f \in Plain /\ g \in Plain /\ Pair(c, e) => Even(<<a, b, c, d, e, f, g>>)
         /\ a \in Plain /\ c \in Plain /\ f \in Plain /\ Pair(b, d) /\ Pair(e, g) => Even(<<a, b, c, d, e, f, g>>)
<1> DEFINE w == <<a, b, c, d, e, f, g>>
<1>1. Len(w) = 7 /\ w[1] = a /\ w[2] = b /\ w[3] = c /\ w[4] = d /\ w[5] = e /\ w[6] = f /\ w[7] = g /\ w \in Seq(S)
  BY SMT
<1> HIDE DEF w
<1>2. \A k \in 1 .. 7 - 1 : k = 1 \/ k = 2 \/ k = 3 \/ k = 4 \/ k = 5 \/ k = 6
  BY SMT
<1>3. Smooth(w)
  BY <1>1, <1>2 DEF Smooth
<1>4. ASSUME NEW os \in Brackets PROVE Pending(os, w, Len(w)) = Read(Read(Read(Read(Read(Read(Read(os, a), b), c), d), e), f), g)
  BY <1>1, FirstReads
<1>5. a \in Plain /\ b \in Plain /\ c \in Plain /\ e \in Plain /\ g \in Plain /\ Pair(d, f) => Even(w)
  BY <1>4, PlainReads DEF Even, Pair
<1>6. a \in Plain /\ b \in Plain /\ d \in Plain /\ f \in Plain /\ g \in Plain /\ Pair(c, e) => Even(w)
  BY <1>4, PlainReads DEF Even, Pair
<1>7. a \in Plain /\ c \in Plain /\ f \in Plain /\ Pair(b, d) /\ Pair(e, g) => Even(w)
  BY <1>4, PlainReads DEF Even, Pair
<1> QED BY <1>1, <1>3, <1>5, <1>6, <1>7 DEF w, Good, Starts

LEMMA WordOfNine ==
  ASSUME NEW S, NEW a \in S, NEW b \in S, NEW c \in S, NEW d \in S, NEW e \in S, NEW f \in S, NEW g \in S, NEW h \in S, NEW i \in S,
         Runs(a, b), Runs(b, c), Runs(c, d), Runs(d, e), Runs(e, f), Runs(f, g), Runs(g, h), Runs(h, i)
  PROVE  /\ Good(S, <<a, b, c, d, e, f, g, h, i>>) /\ (a \notin Hungry => Starts(<<a, b, c, d, e, f, g, h, i>>))
         /\ a \in Plain /\ c \in Plain /\ d \in Plain /\ e \in Plain /\ f \in Plain /\ g \in Plain /\ i \in Plain /\ Pair(b, h) => Even(<<a, b, c, d, e, f, g, h, i>>)
<1> DEFINE w == <<a, b, c, d, e, f, g, h, i>>
<1>1. Len(w) = 9 /\ w[1] = a /\ w[2] = b /\ w[3] = c /\ w[4] = d /\ w[5] = e /\ w[6] = f /\ w[7] = g /\ w[8] = h /\ w[9] = i /\ w \in Seq(S)
  BY SMT
<1> HIDE DEF w
<1>2. \A k \in 1 .. 9 - 1 : k = 1 \/ k = 2 \/ k = 3 \/ k = 4 \/ k = 5 \/ k = 6 \/ k = 7 \/ k = 8
  BY SMT
<1>3. Smooth(w)
  BY <1>1, <1>2 DEF Smooth
<1>4. ASSUME NEW os \in Brackets PROVE Pending(os, w, Len(w)) = Read(Read(Read(Read(Read(Read(Read(Read(Read(os, a), b), c), d), e), f), g), h), i)
  BY <1>1, FirstReads
<1>5. a \in Plain /\ c \in Plain /\ d \in Plain /\ e \in Plain /\ f \in Plain /\ g \in Plain /\ i \in Plain /\ Pair(b, h) => Even(w)
  BY <1>4, PlainReads DEF Even, Pair
<1> QED BY <1>1, <1>3, <1>5 DEF w, Good, Starts

\* A word that closes what it opens.
Rule(w) == Good(Usual, w) /\ Even(w)
LEMMA NotNames == \A s \in Keywords \cup Opening \cup Closing \cup Marks \cup Todo \cup {"int", "string", "ident", "name"} : s \notin Names
<1> DEFINE all == Keywords \cup Opening \cup Closing \cup Marks \cup Todo
<1>1. \A n \in Names : n \notin all \cup {"int", "string", "ident", "name", "none", "eof"}
  BY NamesAssumption
<1> HIDE DEF all
<1>2. \A s \in all \cup {"int", "string", "ident", "name"} : s \notin Names
  BY <1>1, Zenon
<1> QED BY <1>2 DEF all

LEMMA Pairs == Pair("(", ")") /\ Pair("[", "]") /\ Pair("{", "}")
BY PairsRead, Zenon DEF Pair

\* The tokens behind which an input may be lost, spelled out.
Noisy == Keywords \cup Marks \cup {"(", ")", "[", "]"}
LEMMA CalmTokens == "{" \notin Noisy /\ "}" \notin Noisy /\ "int" \notin Noisy /\ "string" \notin Noisy
BY SMT DEF Noisy, Keywords, Marks

LEMMA NoisyJagged == ASSUME NEW s \in Noisy PROVE s \in Jagged
<1>1. s \in Tokens
  BY Zenon DEF Noisy, Tokens, Opening, Closing
<1>2. s \notin Names
  BY NotNames, Zenon DEF Noisy, Opening, Closing
<1> QED BY <1>1, <1>2, CalmTokens, Zenon DEF Jagged, Calm

LEMMA JaggedTokens ==
  /\ "(" \in Jagged /\ ")" \in Jagged /\ "[" \in Jagged /\ "," \in Jagged /\ ";" \in Jagged /\ ":" \in Jagged /\ "=" \in Jagged
  /\ "?" \in Jagged /\ "*" \in Jagged /\ "typedef" \in Jagged /\ "public" \in Jagged /\ "include" \in Jagged /\ "do" \in Jagged
  /\ "return" \in Jagged /\ "case" \in Jagged /\ "else" \in Jagged
<1>1. {"(", ")", "[", ",", ";", ":", "=", "?", "*", "typedef", "public", "include", "do", "return", "case", "else"} \subseteq Noisy
  BY SMT DEF Noisy, Keywords, Marks
<1> QED BY <1>1, NoisyJagged, Zenon

\* parse_top_level, but for the types that it defines
LEMMA TopWords ==
  /\ Rule(<<"define", "ident", "value", "semi?">>) /\ Starts(<<"define", "ident", "value", "semi?">>)
  /\ Rule(<<"include", "path">>) /\ Starts(<<"include", "path">>)
  /\ Rule(<<"public", "ty", "ident", "rest">>) /\ Starts(<<"public", "ty", "ident", "rest">>)
  /\ Rule(<<"ty", "ident", "rest">>)
  /\ Rule(<<"(", "params", ")", "body">>) /\ Starts(<<"(", "params", ")", "body">>)
  /\ Rule(<<"init", ";">>) /\ Starts(<<"init", ";">>)
  /\ Rule(<<"{", "stmts", "}">>) /\ Starts(<<"{", "stmts", "}">>)
  /\ Rule(<<";">>) /\ Starts(<<";">>)
  /\ Rule(<<"=", "expr">>) /\ Starts(<<"=", "expr">>)
<1>1. /\ "define" \in Usual /\ "ident" \in Usual /\ "value" \in Usual /\ "semi?" \in Usual
      /\ "include" \in Usual /\ "path" \in Usual /\ "public" \in Usual /\ "ty" \in Usual /\ "rest" \in Usual
      /\ "(" \in Usual /\ "params" \in Usual /\ ")" \in Usual /\ "body" \in Usual /\ "init" \in Usual
      /\ ";" \in Usual /\ "{" \in Usual /\ "stmts" \in Usual /\ "}" \in Usual /\ "=" \in Usual
      /\ "expr" \in Usual
  BY SMT DEF Usual, Symbols, Expected, Tokens, Opening, Closing, Keywords, Marks, Todo
<1>2. /\ "define" \in Plain /\ "ident" \in Plain /\ "value" \in Plain /\ "semi?" \in Plain
      /\ "include" \in Plain /\ "path" \in Plain /\ "public" \in Plain /\ "ty" \in Plain /\ "rest" \in Plain
      /\ "params" \in Plain /\ "body" \in Plain /\ "init" \in Plain /\ ";" \in Plain /\ "stmts" \in Plain
      /\ "=" \in Plain /\ "expr" \in Plain
  BY SMT DEF Plain, Symbols, Expected, Tokens, Opening, Closing, Keywords, Marks, Todo
<1>3. /\ "define" \notin Hungry /\ "include" \notin Hungry /\ "public" \notin Hungry /\ "(" \notin Hungry
      /\ "init" \notin Hungry /\ "{" \notin Hungry /\ ";" \notin Hungry /\ "=" \notin Hungry
      /\ "ident" \notin Hungry /\ "value" \notin Hungry /\ "semi?" \notin Hungry /\ "rest" \notin Hungry
      /\ ")" \notin Hungry /\ "body" \notin Hungry /\ "stmts" \notin Hungry /\ "}" \notin Hungry
  BY SMT DEF Hungry
<1>4. /\ Runs("define", "ident") /\ Runs("ident", "value") /\ Runs("value", "semi?") /\ Runs("include", "path")
      /\ Runs("public", "ty") /\ Runs("ty", "ident") /\ Runs("ident", "rest") /\ Runs("(", "params")
      /\ Runs("params", ")") /\ Runs(")", "body") /\ Runs("init", ";") /\ Runs("{", "stmts")
      /\ Runs("stmts", "}") /\ Runs("=", "expr")
  BY <1>3, JaggedTokens, Zenon DEF Runs
<1>5. Rule(<<"define", "ident", "value", "semi?">>) /\ Starts(<<"define", "ident", "value", "semi?">>)
  BY <1>1, <1>2, <1>3, <1>4, WordOfFour, Pairs, Zenon DEF Rule
<1>6. Rule(<<"include", "path">>) /\ Starts(<<"include", "path">>)
  BY <1>1, <1>2, <1>3, <1>4, WordOfTwo, Pairs, Zenon DEF Rule
<1>7. Rule(<<"public", "ty", "ident", "rest">>) /\ Starts(<<"public", "ty", "ident", "rest">>)
  BY <1>1, <1>2, <1>3, <1>4, WordOfFour, Pairs, Zenon DEF Rule
<1>8. Rule(<<"ty", "ident", "rest">>)
  BY <1>1, <1>2, <1>3, <1>4, WordOfThree, Pairs, Zenon DEF Rule
<1>9. Rule(<<"(", "params", ")", "body">>) /\ Starts(<<"(", "params", ")", "body">>)
  BY <1>1, <1>2, <1>3, <1>4, WordOfFour, Pairs, Zenon DEF Rule
<1>10. Rule(<<"init", ";">>) /\ Starts(<<"init", ";">>)
  BY <1>1, <1>2, <1>3, <1>4, WordOfTwo, Pairs, Zenon DEF Rule
<1>11. Rule(<<"{", "stmts", "}">>) /\ Starts(<<"{", "stmts", "}">>)
  BY <1>1, <1>2, <1>3, <1>4, WordOfThree, Pairs, Zenon DEF Rule
<1>12. Rule(<<";">>) /\ Starts(<<";">>)
  BY <1>1, <1>2, <1>3, <1>4, WordOfOne, Pairs, Zenon DEF Rule
<1>13. Rule(<<"=", "expr">>) /\ Starts(<<"=", "expr">>)
  BY <1>1, <1>2, <1>3, <1>4, WordOfTwo, Pairs, Zenon DEF Rule
<1> QED BY <1>5, <1>6, <1>7, <1>8, <1>9, <1>10, <1>11, <1>12, <1>13

\* parse_preprocessor
LEMMA PreprocessorWords ==
  /\ Rule(<<"expr">>)
  /\ Rule(<<";">>) /\ Starts(<<";">>)
  /\ Rule(<<"string">>) /\ Starts(<<"string">>)
  /\ Rule(<<"<", "ident", ">">>) /\ Starts(<<"<", "ident", ">">>)
<1>1. /\ "expr" \in Usual /\ ";" \in Usual /\ "string" \in Usual /\ "<" \in Usual /\ "ident" \in Usual
      /\ ">" \in Usual
  BY SMT DEF Usual, Symbols, Expected, Tokens, Opening, Closing, Keywords, Marks, Todo
<1>2. /\ "expr" \in Plain /\ ";" \in Plain /\ "string" \in Plain /\ "<" \in Plain /\ "ident" \in Plain
      /\ ">" \in Plain
  BY SMT DEF Plain, Symbols, Expected, Tokens, Opening, Closing, Keywords, Marks, Todo
<1>3. /\ ";" \notin Hungry /\ "string" \notin Hungry /\ "<" \notin Hungry /\ "ident" \notin Hungry
      /\ ">" \notin Hungry
  BY SMT DEF Hungry
<1>4. Runs("<", "ident") /\ Runs("ident", ">")
  BY <1>3, Zenon DEF Runs
<1>5. Rule(<<"expr">>)
  BY <1>1, <1>2, <1>3, <1>4, WordOfOne, Pairs, Zenon DEF Rule
<1>6. Rule(<<";">>) /\ Starts(<<";">>)
  BY <1>1, <1>2, <1>3, <1>4, WordOfOne, Pairs, Zenon DEF Rule
<1>7. Rule(<<"string">>) /\ Starts(<<"string">>)
  BY <1>1, <1>2, <1>3, <1>4, WordOfOne, Pairs, Zenon DEF Rule
<1>8. Rule(<<"<", "ident", ">">>) /\ Starts(<<"<", "ident", ">">>)
  BY <1>1, <1>2, <1>3, <1>4, WordOfThree, Pairs, Zenon DEF Rule
<1> QED BY <1>5, <1>6, <1>7, <1>8

\* parse_class_def
LEMMA ClassWords ==
  /\ Rule(<<"ty", "field", ";", "fields">>)
  /\ Rule(<<"ident", "bits", "fields,">>) /\ Starts(<<"ident", "bits", "fields,">>)
  /\ Rule(<<":", "int">>) /\ Starts(<<":", "int">>)
  /\ Rule(<<",", "field">>) /\ Starts(<<",", "field">>)
<1>1. /\ "ty" \in Usual /\ "field" \in Usual /\ ";" \in Usual /\ "fields" \in Usual /\ "ident" \in Usual
      /\ "bits" \in Usual /\ "fields," \in Usual /\ ":" \in Usual /\ "int" \in Usual /\ "," \in Usual
  BY SMT DEF Usual, Symbols, Expected, Tokens, Opening, Closing, Keywords, Marks, Todo
<1>2. /\ "ty" \in Plain /\ "field" \in Plain /\ ";" \in Plain /\ "fields" \in Plain /\ "ident" \in Plain
      /\ "bits" \in Plain /\ "fields," \in Plain /\ ":" \in Plain /\ "int" \in Plain /\ "," \in Plain
  BY SMT DEF Plain, Symbols, Expected, Tokens, Opening, Closing, Keywords, Marks, Todo
<1>3. /\ "ident" \notin Hungry /\ ":" \notin Hungry /\ "," \notin Hungry /\ "field" \notin Hungry
      /\ ";" \notin Hungry /\ "fields" \notin Hungry /\ "bits" \notin Hungry /\ "fields," \notin Hungry
      /\ "int" \notin Hungry
  BY SMT DEF Hungry
<1>4. /\ Runs("ty", "field") /\ Runs("field", ";") /\ Runs(";", "fields") /\ Runs("ident", "bits")
      /\ Runs("bits", "fields,") /\ Runs(":", "int") /\ Runs(",", "field")
  BY <1>3, Zenon DEF Runs
<1>5. Rule(<<"ty", "field", ";", "fields">>)
  BY <1>1, <1>2, <1>3, <1>4, WordOfFour, Pairs, Zenon DEF Rule
<1>6. Rule(<<"ident", "bits", "fields,">>) /\ Starts(<<"ident", "bits", "fields,">>)
  BY <1>1, <1>2, <1>3, <1>4, WordOfThree, Pairs, Zenon DEF Rule
<1>7. Rule(<<":", "int">>) /\ Starts(<<":", "int">>)
  BY <1>1, <1>2, <1>3, <1>4, WordOfTwo, Pairs, Zenon DEF Rule
<1>8. Rule(<<",", "field">>) /\ Starts(<<",", "field">>)
  BY <1>1, <1>2, <1>3, <1>4, WordOfTwo, Pairs, Zenon DEF Rule
<1> QED BY <1>5, <1>6, <1>7, <1>8

\* parse_type
LEMMA TypeWords ==
  /\ Rule(<<"type", "stars">>) /\ Starts(<<"type", "stars">>)
  /\ Rule(<<"*", "stars">>) /\ Starts(<<"*", "stars">>)
<1>1. "type" \in Usual /\ "stars" \in Usual /\ "*" \in Usual
  BY SMT DEF Usual, Symbols, Expected, Tokens, Opening, Closing, Keywords, Marks, Todo
<1>2. "type" \in Plain /\ "stars" \in Plain /\ "*" \in Plain
  BY SMT DEF Plain, Symbols, Expected, Tokens, Opening, Closing, Keywords, Marks, Todo
<1>3. "type" \notin Hungry /\ "*" \notin Hungry /\ "stars" \notin Hungry
  BY SMT DEF Hungry
<1>4. Runs("type", "stars") /\ Runs("*", "stars")
  BY <1>3, Zenon DEF Runs
<1>5. Rule(<<"type", "stars">>) /\ Starts(<<"type", "stars">>)
  BY <1>1, <1>2, <1>3, <1>4, WordOfTwo, Pairs, Zenon DEF Rule
<1>6. Rule(<<"*", "stars">>) /\ Starts(<<"*", "stars">>)
  BY <1>1, <1>2, <1>3, <1>4, WordOfTwo, Pairs, Zenon DEF Rule
<1> QED BY <1>5, <1>6

\* parse_param_list
LEMMA ParamWords ==
  /\ Rule(<<"param">>)
  /\ Rule(<<"ty", "ident", "params,">>)
  /\ Rule(<<",", "param">>) /\ Starts(<<",", "param">>)
<1>1. "param" \in Usual /\ "ty" \in Usual /\ "ident" \in Usual /\ "params," \in Usual /\ "," \in Usual
  BY SMT DEF Usual, Symbols, Expected, Tokens, Opening, Closing, Keywords, Marks, Todo
<1>2. "param" \in Plain /\ "ty" \in Plain /\ "ident" \in Plain /\ "params," \in Plain /\ "," \in Plain
  BY SMT DEF Plain, Symbols, Expected, Tokens, Opening, Closing, Keywords, Marks, Todo
<1>3. "," \notin Hungry /\ "ident" \notin Hungry /\ "params," \notin Hungry
  BY SMT DEF Hungry
<1>4. Runs("ty", "ident") /\ Runs("ident", "params,") /\ Runs(",", "param")
  BY <1>3, JaggedTokens, Zenon DEF Runs
<1>5. Rule(<<"param">>)
  BY <1>1, <1>2, <1>3, <1>4, WordOfOne, Pairs, Zenon DEF Rule
<1>6. Rule(<<"ty", "ident", "params,">>)
  BY <1>1, <1>2, <1>3, <1>4, WordOfThree, Pairs, Zenon DEF Rule
<1>7. Rule(<<",", "param">>) /\ Starts(<<",", "param">>)
  BY <1>1, <1>2, <1>3, <1>4, WordOfTwo, Pairs, Zenon DEF Rule
<1> QED BY <1>5, <1>6, <1>7

\* parse_stmt
LEMMA StmtWords ==
  /\ Rule(<<"{", "stmts", "}">>) /\ Starts(<<"{", "stmts", "}">>)
  /\ Rule(<<"if", "(", "expr", ")", "stmt", "else?">>) /\ Starts(<<"if", "(", "expr", ")", "stmt", "else?">>)
  /\ Rule(<<"while", "(", "expr", ")", "stmt">>) /\ Starts(<<"while", "(", "expr", ")", "stmt">>)
  /\ Rule(<<"do", "stmt", "while", "(", "expr", ")", ";">>) /\ Starts(<<"do", "stmt", "while", "(", "expr", ")", ";">>)
  /\ Rule(<<"for", "(", "first", ";", "cond", ";", "step", ")", "stmt">>) /\ Starts(<<"for", "(", "first", ";", "cond", ";", "step", ")", "stmt">>)
  /\ Rule(<<"switch", "(", "expr", ")", "{", "cases", "}">>) /\ Starts(<<"switch", "(", "expr", ")", "{", "cases", "}">>)
  /\ Rule(<<"return", "cond", ";">>) /\ Starts(<<"return", "cond", ";">>)
  /\ Rule(<<"break", ";">>) /\ Starts(<<"break", ";">>)
  /\ Rule(<<"asm", "{", "raw", "}">>) /\ Starts(<<"asm", "{", "raw", "}">>)
  /\ Rule(<<"ty", "ident", "array", "init", ";">>)
  /\ Rule(<<"expr", ";">>)
<1>1. /\ "{" \in Usual /\ "stmts" \in Usual /\ "}" \in Usual /\ "if" \in Usual /\ "(" \in Usual
      /\ "expr" \in Usual /\ ")" \in Usual /\ "stmt" \in Usual /\ "else?" \in Usual /\ "while" \in Usual
      /\ "do" \in Usual /\ ";" \in Usual /\ "for" \in Usual /\ "first" \in Usual /\ "cond" \in Usual
      /\ "step" \in Usual /\ "switch" \in Usual /\ "cases" \in Usual /\ "return" \in Usual /\ "break" \in Usual
      /\ "asm" \in Usual /\ "raw" \in Usual /\ "ty" \in Usual /\ "ident" \in Usual /\ "array" \in Usual
      /\ "init" \in Usual
  BY SMT DEF Usual, Symbols, Expected, Tokens, Opening, Closing, Keywords, Marks, Todo
<1>2. /\ "stmts" \in Plain /\ "if" \in Plain /\ "expr" \in Plain /\ "stmt" \in Plain /\ "else?" \in Plain
      /\ "while" \in Plain /\ "do" \in Plain /\ ";" \in Plain /\ "for" \in Plain /\ "first" \in Plain
      /\ "cond" \in Plain /\ "step" \in Plain /\ "switch" \in Plain /\ "cases" \in Plain /\ "return" \in Plain
      /\ "break" \in Plain /\ "asm" \in Plain /\ "raw" \in Plain /\ "ty" \in Plain /\ "ident" \in Plain
      /\ "array" \in Plain /\ "init" \in Plain
  BY SMT DEF Plain, Symbols, Expected, Tokens, Opening, Closing, Keywords, Marks, Todo
<1>3. /\ "{" \notin Hungry /\ "if" \notin Hungry /\ "while" \notin Hungry /\ "do" \notin Hungry
      /\ "for" \notin Hungry /\ "switch" \notin Hungry /\ "return" \notin Hungry /\ "break" \notin Hungry
      /\ "asm" \notin Hungry /\ "stmts" \notin Hungry /\ "}" \notin Hungry /\ "(" \notin Hungry
      /\ ")" \notin Hungry /\ "else?" \notin Hungry /\ ";" \notin Hungry /\ "cases" \notin Hungry
      /\ "raw" \notin Hungry /\ "ident" \notin Hungry /\ "array" \notin Hungry /\ "init" \notin Hungry
  BY SMT DEF Hungry
<1>4. /\ Runs("{", "stmts") /\ Runs("stmts", "}") /\ Runs("if", "(") /\ Runs("(", "expr") /\ Runs("expr", ")")
      /\ Runs(")", "stmt") /\ Runs("stmt", "else?") /\ Runs("while", "(") /\ Runs("do", "stmt")
      /\ Runs("stmt", "while") /\ Runs(")", ";") /\ Runs("for", "(") /\ Runs("(", "first") /\ Runs("first", ";")
      /\ Runs(";", "cond") /\ Runs("cond", ";") /\ Runs(";", "step") /\ Runs("step", ")") /\ Runs("switch", "(")
      /\ Runs(")", "{") /\ Runs("{", "cases") /\ Runs("cases", "}") /\ Runs("return", "cond")
      /\ Runs("break", ";") /\ Runs("asm", "{") /\ Runs("{", "raw") /\ Runs("raw", "}") /\ Runs("ty", "ident")
      /\ Runs("ident", "array") /\ Runs("array", "init") /\ Runs("init", ";") /\ Runs("expr", ";")
  BY <1>3, JaggedTokens, Zenon DEF Runs
<1>5. Rule(<<"{", "stmts", "}">>) /\ Starts(<<"{", "stmts", "}">>)
  BY <1>1, <1>2, <1>3, <1>4, WordOfThree, Pairs, Zenon DEF Rule
<1>6. Rule(<<"if", "(", "expr", ")", "stmt", "else?">>) /\ Starts(<<"if", "(", "expr", ")", "stmt", "else?">>)
  BY <1>1, <1>2, <1>3, <1>4, WordOfSix, Pairs, Zenon DEF Rule
<1>7. Rule(<<"while", "(", "expr", ")", "stmt">>) /\ Starts(<<"while", "(", "expr", ")", "stmt">>)
  BY <1>1, <1>2, <1>3, <1>4, WordOfFive, Pairs, Zenon DEF Rule
<1>8. Rule(<<"do", "stmt", "while", "(", "expr", ")", ";">>) /\ Starts(<<"do", "stmt", "while", "(", "expr", ")", ";">>)
  BY <1>1, <1>2, <1>3, <1>4, WordOfSeven, Pairs, Zenon DEF Rule
<1>9. Rule(<<"for", "(", "first", ";", "cond", ";", "step", ")", "stmt">>) /\ Starts(<<"for", "(", "first", ";", "cond", ";", "step", ")", "stmt">>)
  BY <1>1, <1>2, <1>3, <1>4, WordOfNine, Pairs, Zenon DEF Rule
<1>10. Rule(<<"switch", "(", "expr", ")", "{", "cases", "}">>) /\ Starts(<<"switch", "(", "expr", ")", "{", "cases", "}">>)
  BY <1>1, <1>2, <1>3, <1>4, WordOfSeven, Pairs, Zenon DEF Rule
<1>11. Rule(<<"return", "cond", ";">>) /\ Starts(<<"return", "cond", ";">>)
  BY <1>1, <1>2, <1>3, <1>4, WordOfThree, Pairs, Zenon DEF Rule
<1>12. Rule(<<"break", ";">>) /\ Starts(<<"break", ";">>)
  BY <1>1, <1>2, <1>3, <1>4, WordOfTwo, Pairs, Zenon DEF Rule
<1>13. Rule(<<"asm", "{", "raw", "}">>) /\ Starts(<<"asm", "{", "raw", "}">>)
  BY <1>1, <1>2, <1>3, <1>4, WordOfFour, Pairs, Zenon DEF Rule
<1>14. Rule(<<"ty", "ident", "array", "init", ";">>)
  BY <1>1, <1>2, <1>3, <1>4, WordOfFive, Pairs, Zenon DEF Rule
<1>15. Rule(<<"expr", ";">>)
  BY <1>1, <1>2, <1>3, <1>4, WordOfTwo, Pairs, Zenon DEF Rule
<1> QED BY <1>5, <1>6, <1>7, <1>8, <1>9, <1>10, <1>11, <1>12, <1>13, <1>14, <1>15

\* parse_block_body, and what is optional in a statement
LEMMA PartWords ==
  /\ Rule(<<"stmt", "stmts">>)
  /\ Rule(<<"else", "stmt">>) /\ Starts(<<"else", "stmt">>)
  /\ Rule(<<"[", "length", "]">>) /\ Starts(<<"[", "length", "]">>)
  /\ Rule(<<"int">>) /\ Starts(<<"int">>)
  /\ Rule(<<"expr">>)
  /\ Rule(<<"ty", "ident", "init">>)
<1>1. /\ "stmt" \in Usual /\ "stmts" \in Usual /\ "else" \in Usual /\ "[" \in Usual /\ "length" \in Usual
      /\ "]" \in Usual /\ "int" \in Usual /\ "expr" \in Usual /\ "ty" \in Usual /\ "ident" \in Usual
      /\ "init" \in Usual
  BY SMT DEF Usual, Symbols, Expected, Tokens, Opening, Closing, Keywords, Marks, Todo
<1>2. /\ "stmt" \in Plain /\ "stmts" \in Plain /\ "else" \in Plain /\ "length" \in Plain /\ "int" \in Plain
      /\ "expr" \in Plain /\ "ty" \in Plain /\ "ident" \in Plain /\ "init" \in Plain
  BY SMT DEF Plain, Symbols, Expected, Tokens, Opening, Closing, Keywords, Marks, Todo
<1>3. /\ "else" \notin Hungry /\ "[" \notin Hungry /\ "int" \notin Hungry /\ "stmts" \notin Hungry
      /\ "length" \notin Hungry /\ "]" \notin Hungry /\ "ident" \notin Hungry /\ "init" \notin Hungry
  BY SMT DEF Hungry
<1>4. /\ Runs("stmt", "stmts") /\ Runs("else", "stmt") /\ Runs("[", "length") /\ Runs("length", "]")
      /\ Runs("ty", "ident") /\ Runs("ident", "init")
  BY <1>3, JaggedTokens, Zenon DEF Runs
<1>5. Rule(<<"stmt", "stmts">>)
  BY <1>1, <1>2, <1>3, <1>4, WordOfTwo, Pairs, Zenon DEF Rule
<1>6. Rule(<<"else", "stmt">>) /\ Starts(<<"else", "stmt">>)
  BY <1>1, <1>2, <1>3, <1>4, WordOfTwo, Pairs, Zenon DEF Rule
<1>7. Rule(<<"[", "length", "]">>) /\ Starts(<<"[", "length", "]">>)
  BY <1>1, <1>2, <1>3, <1>4, WordOfThree, Pairs, Zenon DEF Rule
<1>8. Rule(<<"int">>) /\ Starts(<<"int">>)
  BY <1>1, <1>2, <1>3, <1>4, WordOfOne, Pairs, Zenon DEF Rule
<1>9. Rule(<<"expr">>)
  BY <1>1, <1>2, <1>3, <1>4, WordOfOne, Pairs, Zenon DEF Rule
<1>10. Rule(<<"ty", "ident", "init">>)
  BY <1>1, <1>2, <1>3, <1>4, WordOfThree, Pairs, Zenon DEF Rule
<1> QED BY <1>5, <1>6, <1>7, <1>8, <1>9, <1>10

\* parse_switch
LEMMA SwitchWords ==
  /\ Rule(<<"case", "expr", ":", "case body", "cases">>) /\ Starts(<<"case", "expr", ":", "case body", "cases">>)
  /\ Rule(<<"default", ":", "case body", "cases">>) /\ Starts(<<"default", ":", "case body", "cases">>)
  /\ Rule(<<"stmt", "case body">>)
<1>1. /\ "case" \in Usual /\ "expr" \in Usual /\ ":" \in Usual /\ "case body" \in Usual /\ "cases" \in Usual
      /\ "default" \in Usual /\ "stmt" \in Usual
  BY SMT DEF Usual, Symbols, Expected, Tokens, Opening, Closing, Keywords, Marks, Todo
<1>2. /\ "case" \in Plain /\ "expr" \in Plain /\ ":" \in Plain /\ "case body" \in Plain /\ "cases" \in Plain
      /\ "default" \in Plain /\ "stmt" \in Plain
  BY SMT DEF Plain, Symbols, Expected, Tokens, Opening, Closing, Keywords, Marks, Todo
<1>3. /\ "case" \notin Hungry /\ "default" \notin Hungry /\ ":" \notin Hungry /\ "case body" \notin Hungry
      /\ "cases" \notin Hungry
  BY SMT DEF Hungry
<1>4. /\ Runs("case", "expr") /\ Runs("expr", ":") /\ Runs(":", "case body") /\ Runs("case body", "cases")
      /\ Runs("default", ":") /\ Runs("stmt", "case body")
  BY <1>3, JaggedTokens, Zenon DEF Runs
<1>5. Rule(<<"case", "expr", ":", "case body", "cases">>) /\ Starts(<<"case", "expr", ":", "case body", "cases">>)
  BY <1>1, <1>2, <1>3, <1>4, WordOfFive, Pairs, Zenon DEF Rule
<1>6. Rule(<<"default", ":", "case body", "cases">>) /\ Starts(<<"default", ":", "case body", "cases">>)
  BY <1>1, <1>2, <1>3, <1>4, WordOfFour, Pairs, Zenon DEF Rule
<1>7. Rule(<<"stmt", "case body">>)
  BY <1>1, <1>2, <1>3, <1>4, WordOfTwo, Pairs, Zenon DEF Rule
<1> QED BY <1>5, <1>6, <1>7

\* parse_asm
LEMMA AsmWords ==
  /\ Rule(<<"{", "raw", "}", "raw">>) /\ Starts(<<"{", "raw", "}", "raw">>)
<1>1. "{" \in Usual /\ "raw" \in Usual /\ "}" \in Usual
  BY SMT DEF Usual, Symbols, Expected, Tokens, Opening, Closing, Keywords, Marks, Todo
<1>2. "raw" \in Plain
  BY SMT DEF Plain, Symbols, Expected, Tokens, Opening, Closing, Keywords, Marks, Todo
<1>3. "{" \notin Hungry /\ "raw" \notin Hungry /\ "}" \notin Hungry
  BY SMT DEF Hungry
<1>4. Runs("{", "raw") /\ Runs("raw", "}") /\ Runs("}", "raw")
  BY <1>3, Zenon DEF Runs
<1>5. Rule(<<"{", "raw", "}", "raw">>) /\ Starts(<<"{", "raw", "}", "raw">>)
  BY <1>1, <1>2, <1>3, <1>4, WordOfFour, Pairs, Zenon DEF Rule
<1> QED BY <1>5

\* parse_pratt
LEMMA PrattWords ==
  /\ Rule(<<"prefix", "ops">>)
  /\ Rule(<<"++", "ops">>) /\ Starts(<<"++", "ops">>)
  /\ Rule(<<"(", "args", ")", "ops">>) /\ Starts(<<"(", "args", ")", "ops">>)
  /\ Rule(<<"[", "expr", "]", "ops">>) /\ Starts(<<"[", "expr", "]", "ops">>)
  /\ Rule(<<".", "ident", "ops">>) /\ Starts(<<".", "ident", "ops">>)
  /\ Rule(<<"?", "expr", ":", "expr">>) /\ Starts(<<"?", "expr", ":", "expr">>)
  /\ Rule(<<"expr", "args,">>)
  /\ Rule(<<",", "expr", "args,">>) /\ Starts(<<",", "expr", "args,">>)
<1>1. /\ "prefix" \in Usual /\ "ops" \in Usual /\ "++" \in Usual /\ "(" \in Usual /\ "args" \in Usual
      /\ ")" \in Usual /\ "[" \in Usual /\ "expr" \in Usual /\ "]" \in Usual /\ "." \in Usual
      /\ "ident" \in Usual /\ "?" \in Usual /\ ":" \in Usual /\ "args," \in Usual /\ "," \in Usual
  BY SMT DEF Usual, Symbols, Expected, Tokens, Opening, Closing, Keywords, Marks, Todo
<1>2. /\ "prefix" \in Plain /\ "ops" \in Plain /\ "++" \in Plain /\ "args" \in Plain /\ "expr" \in Plain
      /\ "." \in Plain /\ "ident" \in Plain /\ "?" \in Plain /\ ":" \in Plain /\ "args," \in Plain
      /\ "," \in Plain
  BY SMT DEF Plain, Symbols, Expected, Tokens, Opening, Closing, Keywords, Marks, Todo
<1>3. /\ "++" \notin Hungry /\ "(" \notin Hungry /\ "[" \notin Hungry /\ "." \notin Hungry /\ "?" \notin Hungry
      /\ "," \notin Hungry /\ "ops" \notin Hungry /\ ")" \notin Hungry /\ "]" \notin Hungry
      /\ "ident" \notin Hungry /\ ":" \notin Hungry /\ "args," \notin Hungry
  BY SMT DEF Hungry
<1>4. /\ Runs("prefix", "ops") /\ Runs("++", "ops") /\ Runs("(", "args") /\ Runs("args", ")")
      /\ Runs(")", "ops") /\ Runs("[", "expr") /\ Runs("expr", "]") /\ Runs("]", "ops") /\ Runs(".", "ident")
      /\ Runs("ident", "ops") /\ Runs("?", "expr") /\ Runs("expr", ":") /\ Runs(":", "expr")
      /\ Runs("expr", "args,") /\ Runs(",", "expr")
  BY <1>3, JaggedTokens, Zenon DEF Runs
<1>5. Rule(<<"prefix", "ops">>)
  BY <1>1, <1>2, <1>3, <1>4, WordOfTwo, Pairs, Zenon DEF Rule
<1>6. Rule(<<"++", "ops">>) /\ Starts(<<"++", "ops">>)
  BY <1>1, <1>2, <1>3, <1>4, WordOfTwo, Pairs, Zenon DEF Rule
<1>7. Rule(<<"(", "args", ")", "ops">>) /\ Starts(<<"(", "args", ")", "ops">>)
  BY <1>1, <1>2, <1>3, <1>4, WordOfFour, Pairs, Zenon DEF Rule
<1>8. Rule(<<"[", "expr", "]", "ops">>) /\ Starts(<<"[", "expr", "]", "ops">>)
  BY <1>1, <1>2, <1>3, <1>4, WordOfFour, Pairs, Zenon DEF Rule
<1>9. Rule(<<".", "ident", "ops">>) /\ Starts(<<".", "ident", "ops">>)
  BY <1>1, <1>2, <1>3, <1>4, WordOfThree, Pairs, Zenon DEF Rule
<1>10. Rule(<<"?", "expr", ":", "expr">>) /\ Starts(<<"?", "expr", ":", "expr">>)
  BY <1>1, <1>2, <1>3, <1>4, WordOfFour, Pairs, Zenon DEF Rule
<1>11. Rule(<<"expr", "args,">>)
  BY <1>1, <1>2, <1>3, <1>4, WordOfTwo, Pairs, Zenon DEF Rule
<1>12. Rule(<<",", "expr", "args,">>) /\ Starts(<<",", "expr", "args,">>)
  BY <1>1, <1>2, <1>3, <1>4, WordOfThree, Pairs, Zenon DEF Rule
<1> QED BY <1>5, <1>6, <1>7, <1>8, <1>9, <1>10, <1>11, <1>12

\* parse_prefix, but for its parentheses
LEMMA PrefixWords ==
  /\ Rule(<<"sizeof", "(", "size", ")">>) /\ Starts(<<"sizeof", "(", "size", ")">>)
  /\ Rule(<<"int">>) /\ Starts(<<"int">>)
  /\ Rule(<<"string">>) /\ Starts(<<"string">>)
  /\ Rule(<<"ty">>)
  /\ Rule(<<"expr">>)
<1>1. /\ "sizeof" \in Usual /\ "(" \in Usual /\ "size" \in Usual /\ ")" \in Usual /\ "int" \in Usual
      /\ "string" \in Usual /\ "ty" \in Usual /\ "expr" \in Usual
  BY SMT DEF Usual, Symbols, Expected, Tokens, Opening, Closing, Keywords, Marks, Todo
<1>2. /\ "sizeof" \in Plain /\ "size" \in Plain /\ "int" \in Plain /\ "string" \in Plain /\ "ty" \in Plain
      /\ "expr" \in Plain
  BY SMT DEF Plain, Symbols, Expected, Tokens, Opening, Closing, Keywords, Marks, Todo
<1>3. /\ "sizeof" \notin Hungry /\ "int" \notin Hungry /\ "string" \notin Hungry /\ "(" \notin Hungry
      /\ ")" \notin Hungry
  BY SMT DEF Hungry
<1>4. Runs("sizeof", "(") /\ Runs("(", "size") /\ Runs("size", ")")
  BY <1>3, JaggedTokens, Zenon DEF Runs
<1>5. Rule(<<"sizeof", "(", "size", ")">>) /\ Starts(<<"sizeof", "(", "size", ")">>)
  BY <1>1, <1>2, <1>3, <1>4, WordOfFour, Pairs, Zenon DEF Rule
<1>6. Rule(<<"int">>) /\ Starts(<<"int">>)
  BY <1>1, <1>2, <1>3, <1>4, WordOfOne, Pairs, Zenon DEF Rule
<1>7. Rule(<<"string">>) /\ Starts(<<"string">>)
  BY <1>1, <1>2, <1>3, <1>4, WordOfOne, Pairs, Zenon DEF Rule
<1>8. Rule(<<"ty">>)
  BY <1>1, <1>2, <1>3, <1>4, WordOfOne, Pairs, Zenon DEF Rule
<1>9. Rule(<<"expr">>)
  BY <1>1, <1>2, <1>3, <1>4, WordOfOne, Pairs, Zenon DEF Rule
<1> QED BY <1>5, <1>6, <1>7, <1>8, <1>9

\* A name may stand anywhere in a word that a calm token may.
LEMMA NamesArePlain == ASSUME NEW n \in Names PROVE n \in Usual /\ n \in Plain /\ n \notin Hungry
<1>1. ASSUME NEW s \in Todo PROVE n # s
  BY NotNames
<1>2. n \in Symbols
  BY Zenon DEF Symbols, Expected, Tokens
<1>3. {"module", "top", "insert", "group"} \subseteq Todo /\ Hungry \subseteq Todo
  BY SMT DEF Todo, Hungry
<1>4. n \notin Opening \cup Closing
  BY NotNames
<1> QED BY <1>1, <1>2, <1>3, <1>4, Zenon DEF Usual, Plain

LEMMA NoBrackets == /\ "(" \notin Todo /\ ")" \notin Todo /\ "[" \notin Todo /\ "]" \notin Todo /\ "{" \notin Todo /\ "}" \notin Todo
                    /\ \A s \in Todo : s \notin Opening \cup Closing
<1>1. "(" \notin Todo /\ ")" \notin Todo /\ "[" \notin Todo /\ "]" \notin Todo /\ "{" \notin Todo /\ "}" \notin Todo
  BY SMT DEF Todo
<1> QED BY <1>1, Zenon DEF Opening, Closing

LEMMA NoKeywords == \A k \in Keywords : k \notin Todo
<1>1. /\ "class" \notin Todo /\ "typedef" \notin Todo /\ "public" \notin Todo /\ "define" \notin Todo
      /\ "include" \notin Todo /\ "type" \notin Todo /\ "sizeof" \notin Todo /\ "if" \notin Todo /\ "else" \notin Todo
      /\ "while" \notin Todo /\ "do" \notin Todo /\ "for" \notin Todo /\ "switch" \notin Todo /\ "case" \notin Todo
      /\ "default" \notin Todo /\ "return" \notin Todo /\ "break" \notin Todo /\ "asm" \notin Todo
  BY SMT DEF Todo
<1> QED BY <1>1, Zenon DEF Keywords
LEMMA NoMarks == \A m \in Marks \cup {"int", "string", "ident", "name"} : m \notin Todo
<1>1. /\ ";" \notin Todo /\ ":" \notin Todo /\ "," \notin Todo /\ "=" \notin Todo /\ "*" \notin Todo /\ "<" \notin Todo
      /\ ">" \notin Todo /\ "-" \notin Todo /\ "++" \notin Todo /\ "." \notin Todo /\ "?" \notin Todo
      /\ "int" \notin Todo /\ "string" \notin Todo /\ "ident" \notin Todo /\ "name" \notin Todo
  BY SMT DEF Todo
<1> QED BY <1>1, Zenon DEF Marks

LEMMA TestsAreNoTokens == ASSUME NEW t \in Todo PROVE t \notin Expected
<1>1. t \notin Names
  BY NotNames
<1> QED BY <1>1, NoKeywords, NoMarks, NoBrackets, Zenon DEF Expected, Tokens

LEMMA EmptyWord == Rule(<<>>) /\ Starts(<<>>)
<1> DEFINE w == <<>>
<1>1. Len(w) = 0 /\ w \in Seq(Usual)
  BY SMT
<1> HIDE DEF w
<1>2. Smooth(w)
  BY <1>1, SMT DEF Smooth
<1>3. Even(w)
  BY <1>1, FirstReads DEF Even
<1>4. w = <<>>
  BY DEF w
<1> QED BY <1>1, <1>2, <1>3, <1>4 DEF Rule, Good, Starts

\* A function goes on from one of its tests, or gives up.
Turn(sym, w) == At(sym) /\ Do(w)
Rewrites ==
  \E sym \in Todo \ {"module", "insert"}, w \in Seq(Symbols \ {"module", "top"}) :
     /\ Turn(sym, w) /\ Smooth(w)
     /\ \A os \in Brackets : Pending(os, w, Len(w)) = Read(os, sym)
     /\ \A i \in 1 .. Len(w) : w[i] = "insert" => sym = "top" /\ i = Len(w) /\ \E j \in 1 .. i - 1 : w[j] = "name"
     /\ next = "eof" => sym \in Hungry \/ Starts(w)
GivesUp(sym) == At(sym) /\ Reject /\ (next # "eof" \/ sym \in Hungry)

LEMMA UsualWords ==
  ASSUME NEW w \in Seq(Usual)
  PROVE  w \in Seq(Symbols \ {"module", "top"}) /\ \A i \in 1 .. Len(w) : w[i] # "insert"
<1>1. \A i \in 1 .. Len(w) : w[i] \in Usual
  BY ElementOfSeq
<1>2. Usual \subseteq Symbols \ {"module", "top"} /\ "insert" \notin Usual
  BY Zenon DEF Usual
<1>3. \A S, U : U \subseteq S => Seq(U) \subseteq Seq(S)
  BY SMT
<1> QED BY <1>1, <1>2, <1>3

LEMMA Usually ==
  ASSUME NEW sym \in Todo \ {"module", "insert", "group"}, NEW w, Rule(w), Turn(sym, w),
         next = "eof" => sym \in Hungry \/ Starts(w)
  PROVE  Rewrites
<1>1. w \in Seq(Usual) /\ Smooth(w) /\ Even(w)
  BY DEF Rule, Good
<1>2. w \in Seq(Symbols \ {"module", "top"}) /\ \A i \in 1 .. Len(w) : w[i] # "insert"
  BY <1>1, UsualWords
<1>3. sym \in Plain
  BY NoBrackets, Zenon DEF Plain, Symbols
<1> QED
  BY <1>1, <1>2, <1>3, PlainReads, Zenon DEF Rewrites, Even

LEMMA StmtRewrites == ASSUME ParseStmt PROVE Rewrites
<1>1. \/ Turn("stmt", <<"{", "stmts", "}">>)
      \/ Turn("stmt", <<"if", "(", "expr", ")", "stmt", "else?">>)
      \/ Turn("stmt", <<"while", "(", "expr", ")", "stmt">>)
      \/ Turn("stmt", <<"do", "stmt", "while", "(", "expr", ")", ";">>)
      \/ Turn("stmt", <<"for", "(", "first", ";", "cond", ";", "step", ")", "stmt">>)
      \/ Turn("stmt", <<"switch", "(", "expr", ")", "{", "cases", "}">>)
      \/ Turn("stmt", <<"return", "cond", ";">>)
      \/ Turn("stmt", <<"break", ";">>)
      \/ Turn("stmt", <<"asm", "{", "raw", "}">>)
      \/ Turn("stmt", <<"ty", "ident", "array", "init", ";">>)
      \/ Turn("stmt", <<"expr", ";">>)
      \/ Turn("else?", <<"else", "stmt">>) \/ Turn("else?", <<>>)
      \/ Turn("array", <<"[", "length", "]">>) \/ Turn("array", <<>>)
      \/ Turn("length", <<"int">>) \/ Turn("length", <<>>)
      \/ Turn("cond", <<"expr">>) \/ Turn("cond", <<>>)
      \/ Turn("step", <<"expr">>) \/ Turn("step", <<>>)
      \/ Turn("first", <<"ty", "ident", "init">>) \/ Turn("first", <<"expr">>) \/ Turn("first", <<>>)
  BY DEF ParseStmt, Turn, If, Leave
<1>2. ASSUME NEW sym \in {"stmt", "cond", "step", "first"}, NEW w, Rule(w), Turn(sym, w) PROVE Rewrites
  <2>1. {"stmt", "cond", "step", "first"} \subseteq Hungry /\ {"stmt", "cond", "step", "first"} \subseteq Todo \ {"module", "insert", "group"}
    BY SMT DEF Hungry, Todo
  <2> QED BY <1>2, <2>1, Usually
<1>3. ASSUME NEW sym \in {"else?", "array", "length"}, NEW w, Rule(w), Starts(w), Turn(sym, w) PROVE Rewrites
  <2>1. {"else?", "array", "length"} \subseteq Todo \ {"module", "insert", "group"}
    BY SMT DEF Todo
  <2> QED BY <1>3, <2>1, Usually
<1> QED BY <1>1, <1>2, <1>3, StmtWords, PartWords, EmptyWord, Zenon

\* s may only be the last of w, behind some t.
Ends(w, s, t) == \A i \in 1 .. Len(w) : w[i] = s => i = Len(w) /\ \E j \in 1 .. i - 1 : w[j] = t

\* What parse_class_def and parse_typedef have in mind: the name is read before it is inserted.
Defining(w) ==
  /\ w \in Seq(Symbols \ {"module", "top"}) /\ Smooth(w) /\ Even(w)
  /\ Ends(w, "insert", "name")

LEMMA DefiningWords ==
  /\ Defining(<<"class", "name", "{", "fields", "}", "semi?", "insert">>)
  /\ Defining(<<"typedef", "ty", "name", ";", "insert">>)
<1> DEFINE S == Symbols \ {"module", "top"}
<1>1. /\ "class" \in S /\ "name" \in S /\ "{" \in S /\ "fields" \in S /\ "}" \in S /\ "semi?" \in S /\ "insert" \in S
      /\ "typedef" \in S /\ "ty" \in S /\ ";" \in S
  BY SMT DEF Symbols, Expected, Tokens, Opening, Closing, Keywords, Marks, Todo
<1>2. /\ "class" \in Plain /\ "name" \in Plain /\ "fields" \in Plain /\ "semi?" \in Plain /\ "insert" \in Plain
      /\ "typedef" \in Plain /\ "ty" \in Plain /\ ";" \in Plain
  BY SMT DEF Plain, Symbols, Expected, Tokens, Opening, Closing, Keywords, Marks, Todo
<1>3. /\ "name" \notin Hungry /\ "{" \notin Hungry /\ "fields" \notin Hungry /\ "}" \notin Hungry
      /\ "semi?" \notin Hungry /\ "insert" \notin Hungry /\ ";" \notin Hungry
  BY SMT DEF Hungry
<1>4. /\ Runs("class", "name") /\ Runs("name", "{") /\ Runs("{", "fields") /\ Runs("fields", "}")
      /\ Runs("}", "semi?") /\ Runs("semi?", "insert")
      /\ Runs("typedef", "ty") /\ Runs("ty", "name") /\ Runs("name", ";") /\ Runs(";", "insert")
  BY <1>3, JaggedTokens, Zenon DEF Runs
<1> HIDE DEF S
<1>5. ASSUME NEW a, NEW b, NEW c, NEW d, NEW e, NEW f, NEW g, g \notin {a, b, c, d, e, f}
      PROVE  Ends(<<a, b, c, d, e, f, g>>, g, b)
  <2> DEFINE w == <<a, b, c, d, e, f, g>>
  <2>1. Len(w) = 7 /\ w[1] = a /\ w[2] = b /\ w[3] = c /\ w[4] = d /\ w[5] = e /\ w[6] = f
    BY SMT
  <2> HIDE DEF w
  <2>2. ASSUME NEW i \in 1 .. Len(w), w[i] = g PROVE i = 7 /\ 2 \in 1 .. i - 1
    <3>1. i = 1 \/ i = 2 \/ i = 3 \/ i = 4 \/ i = 5 \/ i = 6 \/ i = 7
      BY <2>1, SMT
    <3>2. i = 7
      BY <1>5, <2>1, <2>2, <3>1
    <3> QED BY <3>2, SMT
  <2> QED BY <2>1, <2>2 DEF w, Ends
<1>6. ASSUME NEW a, NEW b, NEW c, NEW d, NEW e, e \notin {a, b, c, d} PROVE Ends(<<a, b, c, d, e>>, e, c)
  <2> DEFINE w == <<a, b, c, d, e>>
  <2>1. Len(w) = 5 /\ w[1] = a /\ w[2] = b /\ w[3] = c /\ w[4] = d
    BY SMT
  <2> HIDE DEF w
  <2>2. ASSUME NEW i \in 1 .. Len(w), w[i] = e PROVE i = 5 /\ 3 \in 1 .. i - 1
    <3>1. i = 1 \/ i = 2 \/ i = 3 \/ i = 4 \/ i = 5
      BY <2>1, SMT
    <3>2. i = 5
      BY <1>6, <2>1, <2>2, <3>1
    <3> QED BY <3>2, SMT
  <2> QED BY <2>1, <2>2 DEF w, Ends
<1>7. Good(S, <<"class", "name", "{", "fields", "}", "semi?", "insert">>)
      /\ Even(<<"class", "name", "{", "fields", "}", "semi?", "insert">>)
  BY <1>1, <1>2, <1>4, WordOfSeven, Pairs, Zenon
<1>8. Good(S, <<"typedef", "ty", "name", ";", "insert">>) /\ Even(<<"typedef", "ty", "name", ";", "insert">>)
  BY <1>1, <1>2, <1>4, WordOfFive, Zenon
<1>9. /\ "insert" \notin {"class", "name", "{", "fields", "}", "semi?"}
      /\ "insert" \notin {"typedef", "ty", "name", ";"}
  BY SMT
<1> QED BY <1>5, <1>6, <1>7, <1>8, <1>9, Zenon DEF Defining, Good, S

\* parse_top_level with parse_class_def and parse_typedef up to their first tokens
LEMMA TopRewrites == ASSUME ParseTopLevel PROVE Rewrites
<1>1. \/ Turn("top", <<"class", "name", "{", "fields", "}", "semi?", "insert">>)
      \/ Turn("top", <<"typedef", "ty", "name", ";", "insert">>)
      \/ Turn("top", <<"define", "ident", "value", "semi?">>)
      \/ Turn("top", <<"include", "path">>)
      \/ Turn("top", <<"public", "ty", "ident", "rest">>)
      \/ Turn("top", <<"ty", "ident", "rest">>)
      \/ Turn("rest", <<"(", "params", ")", "body">>) \/ Turn("rest", <<"init", ";">>)
      \/ Turn("body", <<"{", "stmts", "}">>) \/ Turn("body", <<";">>)
      \/ Turn("init", <<"=", "expr">>) \/ Turn("init", <<>>)
  BY DEF ParseTopLevel, Turn, If, Leave
<1>2. "top" \in Todo \ {"module", "insert", "group"} /\ "top" \in Hungry
  BY SMT DEF Todo, Hungry
<1>3. ASSUME NEW w, Defining(w), Turn("top", w) PROVE Rewrites
  <2>1. "top" \in Plain
    BY <1>2, NoBrackets, Zenon DEF Plain, Symbols
  <2> QED BY <1>2, <1>3, <2>1, PlainReads, Zenon DEF Defining, Ends, Even, Rewrites
<1>4. ASSUME NEW w, Rule(w), Turn("top", w) PROVE Rewrites
  BY <1>2, <1>4, Usually
<1>5. ASSUME NEW sym \in {"rest", "body", "init"}, NEW w, Rule(w), Starts(w), Turn(sym, w) PROVE Rewrites
  <2>1. {"rest", "body", "init"} \subseteq Todo \ {"module", "insert", "group"}
    BY SMT DEF Todo
  <2> QED BY <1>5, <2>1, Usually
<1> QED BY <1>1, <1>3, <1>4, <1>5, DefiningWords, TopWords, EmptyWord, Zenon

LEMMA PreprocessorRewrites == ASSUME ParsePreprocessor PROVE Rewrites \/ GivesUp("path")
<1>1. \/ Turn("value", <<"expr">>) /\ next # "eof"
      \/ Turn("value", <<>>)
      \/ Turn("semi?", <<";">>) \/ Turn("semi?", <<>>)
      \/ Turn("path", <<"string">>) \/ Turn("path", <<"<", "ident", ">">>)
      \/ At("path") /\ Reject
  BY DEF ParsePreprocessor, Turn, If, Leave
<1>2. {"value", "semi?", "path"} \subseteq Todo \ {"module", "insert", "group"} /\ "path" \in Hungry
  BY SMT DEF Todo, Hungry
<1>3. ASSUME NEW sym \in {"value", "semi?", "path"}, NEW w, Rule(w), Starts(w) \/ next # "eof", Turn(sym, w) PROVE Rewrites
  BY <1>2, <1>3, Usually
<1> QED BY <1>1, <1>2, <1>3, PreprocessorWords, EmptyWord, Zenon DEF GivesUp

\* insert is apart.
LEMMA ClassRewrites == ASSUME ParseClassDef, ~ At("insert") PROVE Rewrites
<1>1. \/ Turn("fields", <<"ty", "field", ";", "fields">>) /\ next # "eof"
      \/ Turn("fields", <<>>)
      \/ Turn("field", <<"ident", "bits", "fields,">>)
      \/ Turn("bits", <<":", "int">>) \/ Turn("bits", <<>>)
      \/ Turn("fields,", <<",", "field">>) \/ Turn("fields,", <<>>)
  BY DEF ParseClassDef, Turn, If, Leave
<1>2. {"fields", "field", "bits", "fields,"} \subseteq Todo \ {"module", "insert", "group"}
  BY SMT DEF Todo
<1>3. ASSUME NEW sym \in {"fields", "field", "bits", "fields,"}, NEW w, Rule(w), Starts(w) \/ next # "eof", Turn(sym, w)
      PROVE  Rewrites
  BY <1>2, <1>3, Usually
<1> QED BY <1>1, <1>3, ClassWords, EmptyWord, Zenon

LEMMA TypeRewrites == ASSUME ParseType PROVE Rewrites \/ GivesUp("ty")
<1>1. \/ next \in Names \cup {"type"} /\ Turn("ty", <<next, "stars">>)
      \/ At("ty") /\ Reject
      \/ Turn("stars", <<"*", "stars">>) \/ Turn("stars", <<>>)
  BY DEF ParseType, Turn, If, Leave
<1>2. "ty" \in Todo \ {"module", "insert", "group"} /\ "stars" \in Todo \ {"module", "insert", "group"} /\ "ty" \in Hungry
  BY SMT DEF Todo, Hungry
<1>3. ASSUME NEW w, Rule(w), Turn("ty", w) PROVE Rewrites
  BY <1>2, <1>3, Usually
<1>4. ASSUME NEW w, Rule(w), Starts(w), Turn("stars", w) PROVE Rewrites
  BY <1>2, <1>4, Usually
<1>5. ASSUME NEW n \in Names PROVE Rule(<<n, "stars">>)
  <2>1. "stars" \in Usual /\ "stars" \in Plain
    BY SMT DEF Usual, Plain, Symbols, Expected, Tokens, Opening, Closing, Keywords, Marks, Todo
  <2>2. "stars" \notin Hungry
    BY SMT DEF Hungry
  <2> QED BY <2>1, <2>2, NamesArePlain, WordOfTwo, Zenon DEF Rule, Runs
<1> QED BY <1>1, <1>2, <1>3, <1>4, <1>5, TypeWords, EmptyWord, Zenon DEF GivesUp

LEMMA ParamRewrites == ASSUME ParseParamList PROVE Rewrites
<1>1. \/ Turn("params", <<"param">>) \/ Turn("params", <<>>)
      \/ Turn("param", <<"ty", "ident", "params,">>)
      \/ Turn("params,", <<",", "param">>) \/ Turn("params,", <<>>)
  BY DEF ParseParamList, Turn, If, Leave
<1>2. /\ {"params", "param", "params,"} \subseteq Todo \ {"module", "insert", "group"}
      /\ "params" \in Hungry /\ "param" \in Hungry
  BY SMT DEF Todo, Hungry
<1>3. ASSUME NEW sym \in {"params", "param", "params,"}, NEW w, Rule(w), Starts(w) \/ sym # "params,", Turn(sym, w)
      PROVE  Rewrites
  BY <1>2, <1>3, Usually, Zenon
<1>4. "param" # "params," /\ "params" # "params,"
  OBVIOUS
<1> QED BY <1>1, <1>3, <1>4, ParamWords, EmptyWord, Zenon

LEMMA BlockRewrites == ASSUME ParseBlockBody PROVE Rewrites
<1>1. \/ Turn("stmts", <<"stmt", "stmts">>) /\ next # "eof"
      \/ Turn("stmts", <<>>)
  BY DEF ParseBlockBody, Turn, If, Leave
<1>2. "stmts" \in Todo \ {"module", "insert", "group"}
  BY SMT DEF Todo
<1> QED BY <1>1, <1>2, Usually, PartWords, EmptyWord

LEMMA SwitchRewrites == ASSUME ParseSwitch PROVE Rewrites \/ GivesUp("cases")
<1>1. \/ Turn("cases", <<"case", "expr", ":", "case body", "cases">>)
      \/ Turn("cases", <<"default", ":", "case body", "cases">>)
      \/ Turn("cases", <<>>)
      \/ At("cases") /\ Reject /\ next # "eof"
      \/ Turn("case body", <<"stmt", "case body">>) /\ next # "eof"
      \/ Turn("case body", <<>>)
  BY DEF ParseSwitch, Turn, If, Leave
<1>2. {"cases", "case body"} \subseteq Todo \ {"module", "insert", "group"}
  BY SMT DEF Todo
<1>3. ASSUME NEW sym \in {"cases", "case body"}, NEW w, Rule(w), Starts(w) \/ next # "eof", Turn(sym, w) PROVE Rewrites
  BY <1>2, <1>3, Usually
<1> QED BY <1>1, <1>3, SwitchWords, EmptyWord, Zenon DEF GivesUp

LEMMA AsmRewrites == ASSUME ParseAsm PROVE Rewrites \/ (At("raw") /\ Skip /\ next \notin {"{", "}", "eof"})
<1>1. \/ Turn("raw", <<"{", "raw", "}", "raw">>) \/ Turn("raw", <<>>)
      \/ At("raw") /\ Skip /\ next \notin {"{", "}", "eof"}
  BY DEF ParseAsm, Turn, If, Leave
<1>2. "raw" \in Todo \ {"module", "insert", "group"}
  BY SMT DEF Todo
<1> QED BY <1>1, <1>2, Usually, AsmWords, EmptyWord

LEMMA OperatorsArePlain ==
  ASSUME NEW t \in Infix \cup Prefix PROVE t \in Usual /\ t \in Plain /\ t \in Jagged /\ t \notin Hungry
<1>1. {"=", "*", "<", ">", "-", "++"} \subseteq Noisy
  BY SMT DEF Noisy, Keywords, Marks
<1>2. {"=", "*", "<", ">", "-", "++"} \subseteq Usual /\ {"=", "*", "<", ">", "-", "++"} \subseteq Plain
  BY SMT DEF Usual, Plain, Symbols, Expected, Tokens, Opening, Closing, Keywords, Marks, Todo
<1>3. "=" \notin Hungry /\ "*" \notin Hungry /\ "<" \notin Hungry /\ ">" \notin Hungry /\ "-" \notin Hungry /\ "++" \notin Hungry
  BY SMT DEF Hungry
<1>4. t \in {"=", "*", "<", ">", "-", "++"}
  BY Zenon DEF Infix, Prefix
<1> QED BY <1>1, <1>2, <1>3, <1>4, NoisyJagged, Zenon

LEMMA PrattRewrites == ASSUME ParsePratt PROVE Rewrites
<1>1. \/ Turn("expr", <<"prefix", "ops">>)
      \/ Turn("ops", <<"++", "ops">>) \/ Turn("ops", <<"(", "args", ")", "ops">>)
      \/ Turn("ops", <<"[", "expr", "]", "ops">>) \/ Turn("ops", <<".", "ident", "ops">>)
      \/ next \in Infix /\ Turn("ops", <<next, "expr">>)
      \/ Turn("ops", <<"?", "expr", ":", "expr">>) \/ Turn("ops", <<>>)
      \/ Turn("args", <<"expr", "args,">>) \/ Turn("args", <<>>)
      \/ Turn("args,", <<",", "expr", "args,">>) \/ Turn("args,", <<>>)
  BY DEF ParsePratt, Turn, If, Leave
<1>2. {"expr", "ops", "args", "args,"} \subseteq Todo \ {"module", "insert", "group"} /\ {"expr", "args"} \subseteq Hungry
  BY SMT DEF Todo, Hungry
<1>3. ASSUME NEW sym \in {"ops", "args,"}, NEW w, Rule(w), Starts(w), Turn(sym, w) PROVE Rewrites
  BY <1>2, <1>3, Usually, Zenon
<1>4. ASSUME NEW sym \in {"expr", "args"}, NEW w, Rule(w), Turn(sym, w) PROVE Rewrites
  BY <1>2, <1>4, Usually, Zenon
<1>5. ASSUME NEW t \in Infix PROVE Rule(<<t, "expr">>) /\ Starts(<<t, "expr">>)
  <2>1. "expr" \in Usual /\ "expr" \in Plain
    BY SMT DEF Usual, Plain, Symbols, Expected, Tokens, Opening, Closing, Keywords, Marks, Todo
  <2>2. t \in Usual /\ t \in Plain /\ t \in Jagged /\ t \notin Hungry
    BY OperatorsArePlain
  <2> QED BY <2>1, <2>2, WordOfTwo, Zenon DEF Rule, Runs
<1> QED BY <1>1, <1>3, <1>4, <1>5, PrattWords, EmptyWord, Zenon

\* A parenthesis that is open at "group" is closed by what comes of it.
LEMMA GroupReads == \A os : Read(os, "group") = Read(os, ")")
BY DEF Read, Owed

LEMMA GroupWords ==
  /\ Good(Usual, <<"expr", ")">>) /\ \A os \in Brackets : Pending(os, <<"expr", ")">>, Len(<<"expr", ")">>)) = Read(os, ")")
  /\ Good(Usual, <<"ty", ")", "prefix">>)
  /\ \A os \in Brackets : Pending(os, <<"ty", ")", "prefix">>, Len(<<"ty", ")", "prefix">>)) = Read(os, ")")
<1>1. "expr" \in Usual /\ ")" \in Usual /\ "ty" \in Usual /\ "prefix" \in Usual
  BY SMT DEF Usual, Symbols, Expected, Tokens, Opening, Closing, Keywords, Marks, Todo
<1>2. "expr" \in Plain /\ "ty" \in Plain /\ "prefix" \in Plain
  BY SMT DEF Plain, Symbols, Expected, Tokens, Opening, Closing, Keywords, Marks, Todo
<1>3. ")" \notin Hungry
  BY SMT DEF Hungry
<1>4. Runs("expr", ")") /\ Runs("ty", ")") /\ Runs(")", "prefix")
  BY <1>3, JaggedTokens, Zenon DEF Runs
<1>5. Good(Usual, <<"expr", ")">>) /\ Good(Usual, <<"ty", ")", "prefix">>)
  BY <1>1, <1>4, WordOfTwo, WordOfThree, Zenon
<1>6. ASSUME NEW a \in Plain, NEW b, NEW c \in Plain, NEW os \in Brackets
      PROVE  /\ Pending(os, <<a, b>>, Len(<<a, b>>)) = Read(os, b)
             /\ Pending(os, <<a, b, c>>, Len(<<a, b, c>>)) = Read(os, b)
  <2> DEFINE v == <<a, b>>
             w == <<a, b, c>>
  <2>1. Len(v) = 2 /\ v[1] = a /\ v[2] = b /\ Len(w) = 3 /\ w[1] = a /\ w[2] = b /\ w[3] = c
    BY SMT
  <2> HIDE DEF v, w
  <2>2. Pending(os, v, Len(v)) = Read(os, b) /\ Pending(os, w, Len(w)) = Read(os, b)
    BY <2>1, FirstReads, PlainReads
  <2> QED BY <2>2 DEF v, w
<1> QED BY <1>2, <1>5, <1>6, Zenon

LEMMA PrefixRewrites == ASSUME ParsePrefix PROVE Rewrites \/ GivesUp("prefix")
<1>1. \/ next \in Prefix /\ Turn("prefix", <<next, "prefix">>)
      \/ Turn("prefix", <<"sizeof", "(", "size", ")">>)
      \/ Turn("prefix", <<"(", "group">>)
      \/ next \in Names \cup {"int", "string"} /\ Turn("prefix", <<next>>)
      \/ At("prefix") /\ Reject
      \/ Turn("size", <<"ty">>) \/ Turn("size", <<"expr">>)
      \/ Turn("group", <<"ty", ")", "prefix">>) \/ Turn("group", <<"expr", ")">>)
  BY DEF ParsePrefix, Turn, If, Leave
<1>2. /\ "prefix" \in Todo \ {"module", "insert", "group"} /\ "size" \in Todo \ {"module", "insert", "group"}
      /\ "group" \in Todo \ {"module", "insert"}
      /\ "prefix" \in Hungry /\ "size" \in Hungry /\ "group" \in Hungry
  BY SMT DEF Todo, Hungry
<1>3. ASSUME NEW sym \in {"prefix", "size"}, NEW w, Rule(w), Turn(sym, w) PROVE Rewrites
  BY <1>2, <1>3, Usually, Zenon
<1>4. ASSUME NEW w, Good(Usual, w), \A os \in Brackets : Pending(os, w, Len(w)) = Read(os, ")"), Turn("group", w)
      PROVE  Rewrites
  <2>1. w \in Seq(Symbols \ {"module", "top"}) /\ \A i \in 1 .. Len(w) : w[i] # "insert"
    BY <1>4, UsualWords DEF Good
  <2> QED BY <1>2, <1>4, <2>1, GroupReads, Zenon DEF Rewrites, Good
<1>5. ASSUME NEW t \in Prefix PROVE Rule(<<t, "prefix">>)
  <2>1. "prefix" \in Usual /\ "prefix" \in Plain
    BY SMT DEF Usual, Plain, Symbols, Expected, Tokens, Opening, Closing, Keywords, Marks, Todo
  <2>2. t \in Usual /\ t \in Plain /\ t \in Jagged
    BY OperatorsArePlain
  <2> QED BY <2>1, <2>2, WordOfTwo, Zenon DEF Rule, Runs
<1>6. ASSUME NEW n \in Names PROVE Rule(<<n>>)
  BY NamesArePlain, WordOfOne, Zenon DEF Rule
<1>7. Rule(<<"(", "group">>)
  <2>1. "(" \in Usual /\ "group" \in Usual
    BY SMT DEF Usual, Symbols, Expected, Tokens, Opening, Closing, Keywords, Marks, Todo
  <2>2. Pair("(", "group")
    BY Pairs, GroupReads, Zenon DEF Pair
  <2> QED BY <2>1, <2>2, WordOfTwo, JaggedTokens, Zenon DEF Rule, Runs
<1> QED BY <1>1, <1>2, <1>3, <1>4, <1>5, <1>6, <1>7, GroupWords, PrefixWords, Zenon DEF GivesUp

-----------------------------------------------------------------------------
(* The inductive invariant.  What is kept of an input while the parser     *)
(* looks at its end (buf) has to be as good as the stack itself, since     *)
(* Keep goes back to it; and an input ends calmly only if what is next on  *)
(* the stack was nothing hungry before the line ended.                     *)

\* Where the symbols may stand on the stack of the parser, or of the one it goes back to.
Shaped(w) ==
  /\ w \in Seq(Symbols) /\ w # <<>>
  /\ \A i \in 1 .. Len(w) : /\ w[i] = "module" <=> i = Len(w)
                            /\ w[i] \in {"top", "insert"} => i = Len(w) - 1
                            /\ i < Len(w) => Runs(w[i], w[i + 1])
\* A type is inserted once its name is read.
Named(w) == \A i \in 1 .. Len(w) : w[i] = "insert" => defining \in Names \/ \E j \in 1 .. i - 1 : w[j] = "name"

\* BracketsMatch, of any stack
Balanced(w) == Pending(open, w, Len(w)) = <<>>
\* parse_module returns Ok when there is nothing left to do but the module.
Answered == verdict # "none" => (verdict = "ok" <=> stack = <<"module">>)
\* At the end of the input: buf may be gone back to.
KeepsBuf ==
  next = "eof" => /\ Shaped(buf) /\ Balanced(buf)
                  /\ stack # <<"module">> => Named(buf)
                  /\ calm => Head(buf) \notin Hungry /\ verdict # "UnexpectedToken"
\* Behind a calm token nothing hungry is next; what was calm is what was typed.
Settled ==
  /\ calm /\ next \in {"none", "eof"} /\ verdict = "none" => Head(stack) \notin Hungry
  /\ calm /\ next \notin {"none", "eof"} => next \in Calm

ReplInv == TypeOK /\ open \in Brackets /\ Shaped(stack) /\ Named(stack) /\ Balanced(stack) /\ Answered /\ KeepsBuf /\ Settled

LEMMA ShapedFacts ==
  ASSUME NEW w, Shaped(w)
  PROVE  /\ w \in Seq(Symbols) /\ Len(w) \in Nat /\ Len(w) >= 1 /\ w[Len(w)] = "module" /\ Head(w) = w[1]
         /\ \A i \in 1 .. Len(w) : w[i] \in Symbols
         /\ w[1] = "module" <=> w = <<"module">>
         /\ w[1] # "module" => Len(w) >= 2
<1>1. w \in Seq(Symbols) /\ w # <<>> /\ Len(w) \in Nat
  BY LenProperties DEF Shaped
<1>2. Len(w) >= 1
  BY <1>1, EmptySeq, LenProperties, SMT
<1>3. \A i \in 1 .. Len(w) : w[i] \in Symbols /\ (w[i] = "module" <=> i = Len(w))
  BY <1>1, ElementOfSeq DEF Shaped
<1>4. 1 \in 1 .. Len(w) /\ Len(w) \in 1 .. Len(w)
  BY <1>1, <1>2, SMT
<1>5. Head(w) = w[1]
  BY <1>1, HeadTailProperties
<1>6. w[1] = "module" => Len(w) = 1 /\ w[1] = "module"
  BY <1>3, <1>4
<1>7. ASSUME Len(w) = 1, w[1] = "module" PROVE w = <<"module">>
  <2> DEFINE v == <<w[1]>>
  <2>1. v \in Seq(Symbols) /\ Len(v) = 1 /\ v[1] = w[1]
    BY <1>3, <1>4, SMT
  <2> HIDE DEF v
  <2>2. \A i \in 1 .. Len(w) : w[i] = v[i]
    BY <1>7, <2>1, SMT
  <2>3. w = v
    BY <1>1, <1>7, <2>1, <2>2, SeqEqual
  <2> QED BY <1>7, <2>3 DEF v
<1>8. ASSUME w = <<"module">> PROVE w[1] = "module"
  BY <1>8
<1>9. w[1] # "module" => Len(w) # 1
  BY <1>3, <1>4
<1> QED BY <1>1, <1>2, <1>3, <1>4, <1>5, <1>6, <1>7, <1>8, <1>9

\* The stack of a step: a word in the place of its head.
LEMMA TailOfStack ==
  ASSUME NEW s \in Seq(Symbols), Len(s) >= 2, NEW w \in Seq(Symbols)
  PROVE  /\ w \o Tail(s) \in Seq(Symbols) /\ w \o Tail(s) # <<>>
         /\ Len(w) \in Nat /\ Len(s) \in Nat /\ Len(w \o Tail(s)) = Len(w) + Len(s) - 1
         /\ \A i \in 1 .. Len(w) : (w \o Tail(s))[i] = w[i]
         /\ \A j \in 1 .. Len(s) - 1 : (w \o Tail(s))[Len(w) + j] = s[1 + j]
<1>1. /\ Tail(s) \in Seq(Symbols) /\ Len(Tail(s)) = Len(s) - 1 /\ Len(s) \in Nat /\ Len(w) \in Nat
      /\ \A j \in 1 .. Len(s) - 1 : Tail(s)[j] = s[1 + j]
  BY SMT
<1>2. /\ w \o Tail(s) \in Seq(Symbols) /\ Len(w \o Tail(s)) = Len(w) + Len(Tail(s))
      /\ \A i \in 1 .. Len(w) + Len(Tail(s)) : (w \o Tail(s))[i] = IF i <= Len(w) THEN w[i] ELSE Tail(s)[i - Len(w)]
  BY <1>1, ConcatProperties
<1>3. Len(w) + Len(s) - 1 >= 1
  BY <1>1, SMT
<1>4. w \o Tail(s) # <<>>
  BY <1>1, <1>2, <1>3, EmptySeq, SMT
<1> DEFINE u == w \o Tail(s)
           v == Tail(s)
<1> HIDE DEF u, v
<1>5. ASSUME NEW i \in 1 .. Len(w) PROVE u[i] = w[i]
  <2>1. i \in 1 .. Len(w) + Len(v) /\ i <= Len(w)
    BY <1>1, SMT DEF v
  <2> QED BY <1>2, <2>1 DEF u, v
<1>6. ASSUME NEW j \in 1 .. Len(s) - 1 PROVE u[Len(w) + j] = s[1 + j]
  <2>1. Len(w) + j \in 1 .. Len(w) + Len(v) /\ ~ (Len(w) + j <= Len(w)) /\ (Len(w) + j) - Len(w) = j
    BY <1>1, SMT DEF v
  <2> QED BY <1>1, <1>2, <2>1 DEF u, v
<1> QED BY <1>1, <1>2, <1>4, <1>5, <1>6 DEF u

\* A word over a symbol that is a test: what stays to be shown of the stack.
LEMMA RewritesShape ==
  ASSUME NEW s, Shaped(s), s[1] \in Todo \ {"module", "insert"},
         NEW w \in Seq(Symbols \ {"module", "top"}), Smooth(w),
         \A i \in 1 .. Len(w) : w[i] = "insert" => s[1] = "top" /\ i = Len(w) /\ \E j \in 1 .. i - 1 : w[j] = "name"
  PROVE  /\ Shaped(w \o Tail(s)) /\ w \o Tail(s) # <<>>
         /\ Named(s) => Named(w \o Tail(s))
         /\ s[2] \notin Hungry
         /\ Head(w \o Tail(s)) = IF w = <<>> THEN s[2] ELSE w[1]
<1> DEFINE u == w \o Tail(s)
           n == Len(w)
           m == Len(s)
<1>1. /\ s \in Seq(Symbols) /\ m \in Nat /\ m >= 2
      /\ \A i \in 1 .. m : /\ s[i] = "module" <=> i = m
                           /\ s[i] \in {"top", "insert"} => i = m - 1
                           /\ i < m => Runs(s[i], s[i + 1])
  BY ShapedFacts DEF Shaped
<1>2. w \in Seq(Symbols) /\ \A i \in 1 .. n : w[i] # "module" /\ w[i] # "top"
  <2>1. \A S, T : S \subseteq T => Seq(S) \subseteq Seq(T)
    BY SMT
  <2>2. Symbols \ {"module", "top"} \subseteq Symbols
    OBVIOUS
  <2>3. \A i \in 1 .. n : w[i] \in Symbols \ {"module", "top"}
    BY ElementOfSeq
  <2> QED BY <2>1, <2>2, <2>3
<1>3. /\ u \in Seq(Symbols) /\ u # <<>> /\ n \in Nat /\ Len(u) = n + m - 1
      /\ \A i \in 1 .. n : u[i] = w[i]
      /\ \A j \in 1 .. m - 1 : u[n + j] = s[1 + j]
  BY <1>1, <1>2, TailOfStack
<1>4. s[1] \notin Jagged /\ s[1] # "name" /\ s[1] # "insert"
  <2>1. ASSUME NEW t \in Todo PROVE t \notin Tokens /\ t # "name"
    BY TestsAreNoTokens, Zenon DEF Expected
  <2> QED BY <2>1, Zenon DEF Jagged
<1>5. s[2] \notin Hungry
  <2>1. 1 \in 1 .. m /\ 1 < m /\ 1 + 1 = 2
    BY <1>1, SMT
  <2>2. Runs(s[1], s[2])
    BY <1>1, <2>1
  <2> QED BY <1>4, <2>2 DEF Runs
<1>6. s[1] = "top" => m = 2
  <2>1. 1 \in 1 .. m /\ (1 = m - 1 => m = 2)
    BY <1>1, SMT
  <2> QED BY <1>1, <2>1, Zenon
<1> HIDE DEF u, n, m
<1>7. ASSUME NEW i \in 1 .. Len(u) PROVE \/ i \in 1 .. n
                                         \/ \E j \in 1 .. m - 1 : i = n + j /\ 1 + j \in 1 .. m
  <2>1. i \in Nat /\ i >= 1 /\ i <= n + m - 1
    BY <1>3, SMT
  <2>2. ~ (i <= n) => i - n \in 1 .. m - 1 /\ i = n + (i - n) /\ 1 + (i - n) \in 1 .. m
    BY <1>1, <1>3, <2>1, SMT
  <2>3. i <= n => i \in 1 .. n
    BY <1>3, <2>1, SMT
  <2> QED BY <2>2, <2>3
<1>8. ASSUME NEW i \in 1 .. Len(u)
      PROVE  /\ u[i] = "module" <=> i = Len(u)
             /\ u[i] \in {"top", "insert"} => i = Len(u) - 1
             /\ i < Len(u) => Runs(u[i], u[i + 1])
  <2>1. CASE i \in 1 .. n
    <3>1. u[i] = w[i] /\ u[i] # "module" /\ u[i] # "top" /\ i # Len(u) /\ i < Len(u)
      <4>1. i # n + m - 1 /\ i < n + m - 1
        BY <1>1, <1>3, <2>1, SMT
      <4> QED BY <1>2, <1>3, <2>1, <4>1
    <3>2. u[i] = "insert" => i = Len(u) - 1
      <4>1. u[i] = "insert" => m = 2 /\ i = n
        BY <1>6, <2>1, <3>1 DEF n
      <4> QED BY <1>3, <4>1, SMT
    <3>3. Runs(u[i], u[i + 1])
      <4>1. CASE i < n
        <5>1. i + 1 \in 1 .. n /\ i \in 1 .. n - 1
          BY <1>3, <2>1, <4>1, SMT
        <5>2. Runs(w[i], w[i + 1])
          BY <5>1 DEF Smooth, n
        <5> QED BY <1>3, <3>1, <5>1, <5>2
      <4>2. CASE ~ (i < n)
        <5>1. i = n /\ 1 \in 1 .. m - 1 /\ 1 + 1 = 2
          BY <1>1, <1>3, <2>1, <4>2, SMT
        <5>2. u[i + 1] = s[2]
          BY <1>3, <5>1
        <5> QED BY <1>5, <5>2 DEF Runs
      <4> QED BY <4>1, <4>2
    <3> QED BY <3>1, <3>2, <3>3, Zenon
  <2>2. CASE \E j \in 1 .. m - 1 : i = n + j /\ 1 + j \in 1 .. m
    <3>1. PICK j \in 1 .. m - 1 : i = n + j /\ 1 + j \in 1 .. m
      BY <2>2
    <3>2. /\ 1 + j = m <=> i = n + m - 1
          /\ 1 + j = m - 1 <=> i = (n + m - 1) - 1
          /\ 1 + j < m <=> i < n + m - 1
          /\ 1 + j < m => j + 1 \in 1 .. m - 1 /\ n + (j + 1) = i + 1 /\ 1 + (j + 1) = (1 + j) + 1
      BY <1>1, <1>3, <3>1, SMT
    <3>3. u[i] = s[1 + j]
      BY <1>3, <3>1
    <3>4. 1 + j < m => u[i + 1] = s[(1 + j) + 1]
      BY <1>3, <3>2
    <3> QED BY <1>1, <1>3, <3>1, <3>2, <3>3, <3>4, Zenon
  <2> QED BY <1>7, <2>1, <2>2
<1>9. ASSUME Named(s), NEW i \in 1 .. Len(u), u[i] = "insert"
      PROVE  defining \in Names \/ \E j \in 1 .. i - 1 : u[j] = "name"
  <2>1. CASE i \in 1 .. n
    <3>1. PICK j \in 1 .. i - 1 : w[j] = "name"
      BY <1>3, <1>9, <2>1 DEF n
    <3>2. j \in 1 .. n
      BY <1>3, <2>1, SMT
    <3> QED BY <1>3, <3>1, <3>2
  <2>2. CASE \E j \in 1 .. m - 1 : i = n + j /\ 1 + j \in 1 .. m
    <3>1. PICK j \in 1 .. m - 1 : i = n + j /\ 1 + j \in 1 .. m
      BY <2>2
    <3>2. s[1 + j] = "insert"
      BY <1>3, <1>9, <3>1
    <3>3. CASE defining \in Names
      BY <3>3
    <3>4. CASE \E k \in 1 .. (1 + j) - 1 : s[k] = "name"
      <4>1. PICK k \in 1 .. (1 + j) - 1 : s[k] = "name"
        BY <3>4
      <4>2. k # 1
        BY <1>4, <4>1
      <4>3. k - 1 \in 1 .. m - 1 /\ 1 + (k - 1) = k /\ n + (k - 1) \in 1 .. i - 1
        BY <1>1, <1>3, <3>1, <4>1, <4>2, SMT
      <4>4. u[n + (k - 1)] = "name"
        BY <1>3, <4>1, <4>3
      <4> QED BY <4>3, <4>4
    <3> QED BY <1>9, <3>1, <3>2, <3>3, <3>4 DEF Named, m
  <2> QED BY <1>7, <1>9, <2>1, <2>2
<1>10. Head(u) = IF w = <<>> THEN s[2] ELSE w[1]
  <2>1. Head(u) = u[1]
    BY <1>3, HeadTailProperties
  <2>2. CASE w = <<>>
    <3>1. n = 0 /\ 1 \in 1 .. m - 1 /\ 0 + 1 = 1 /\ 1 + 1 = 2
      BY <1>1, <2>2, SMT DEF n
    <3> QED BY <1>3, <2>1, <2>2, <3>1
  <2>3. CASE w # <<>>
    <3>1. n # 0
      BY <1>2, <2>3, EmptySeq DEF n
    <3>2. 1 \in 1 .. n
      BY <1>3, <3>1, SMT
    <3> QED BY <1>3, <2>1, <2>3, <3>2
  <2> QED BY <2>2, <2>3
<1> QED BY <1>3, <1>5, <1>8, <1>9, <1>10, Zenon DEF Shaped, Named, u

\* What is owed behind the same start is owed in the same way.
LEMMA BalanceMoves ==
  ASSUME NEW s \in Seq(Symbols), Len(s) >= 2, NEW w \in Seq(Symbols), NEW os \in Brackets,
         Pending(os, w, Len(w)) = Read(os, s[1])
  PROVE  Pending(os, w \o Tail(s), Len(w \o Tail(s))) = Pending(os, s, Len(s))
<1> DEFINE u == w \o Tail(s)
           n == Len(w)
           m == Len(s)
<1>1. /\ n \in Nat /\ m \in Nat /\ Len(u) = n + m - 1
      /\ \A i \in 1 .. n : u[i] = w[i]
      /\ \A j \in 1 .. m - 1 : u[n + j] = s[1 + j]
  BY TailOfStack
<1> HIDE DEF u
<1> HIDE DEF n, m
<1>2. Pending(os, u, n) = Pending(os, w, n)
  <2>1. Pending(os, u, 0) = Pending(os, w, 0)
    BY FirstReads
  <2>2. 0 \in Nat /\ n = 0 + n /\ \A j \in 1 .. n : 0 + j = j
    BY <1>1, SMT
  <2>3. Alike(u, 0, w, 0, n)
    BY <1>1, <2>2, Zenon DEF Alike
  <2> QED BY <1>1, <2>1, <2>2, <2>3, PendingShift
<1>3. Pending(os, s, 1) = Read(os, s[1])
  BY FirstReads
<1>4. 1 \in Nat /\ m - 1 \in Nat /\ n + m - 1 = n + (m - 1) /\ m = 1 + (m - 1)
  BY <1>1, SMT DEF m
<1>5. Pending(os, u, n) = Pending(os, s, 1)
  BY <1>2, <1>3 DEF n
<1>6. Pending(os, u, n + m - 1) = Pending(os, s, m)
  <2>1. Alike(u, n, s, 1, m - 1)
    BY <1>1 DEF Alike
  <2> QED BY <1>1, <1>4, <1>5, <2>1, PendingShift
<1> QED BY <1>1, <1>4, <1>6 DEF u, m

LEMMA RewritesKeep ==
  ASSUME ReplInv, Rewrites, UNCHANGED <<buf, fresh, session, calm>>
  PROVE  ReplInv'
<1>1. PICK sym \in Todo \ {"module", "insert"}, w \in Seq(Symbols \ {"module", "top"}) :
         /\ Turn(sym, w) /\ Smooth(w)
         /\ \A os \in Brackets : Pending(os, w, Len(w)) = Read(os, sym)
         /\ \A i \in 1 .. Len(w) : w[i] = "insert" => sym = "top" /\ i = Len(w) /\ \E j \in 1 .. i - 1 : w[j] = "name"
         /\ next = "eof" => sym \in Hungry \/ Starts(w)
  BY DEF Rewrites
<1>2. /\ verdict = "none" /\ next # "none" /\ Head(stack) = sym
      /\ stack' = w \o Tail(stack) /\ UNCHANGED <<next, known, defining, verdict, open, buf, session, calm>>
  BY <1>1 DEF Turn, At, Running, Do
<1>3. /\ TypeOK /\ open \in Brackets /\ Shaped(stack) /\ Named(stack) /\ Balanced(stack) /\ KeepsBuf /\ Settled
  BY DEF ReplInv
<1>4. stack[1] = sym /\ stack \in Seq(Symbols) /\ Len(stack) >= 2 /\ stack # <<"module">>
  BY <1>1, <1>2, <1>3, ShapedFacts
<1>5. w \in Seq(Symbols)
  <2>1. \A S, T : S \subseteq T => Seq(S) \subseteq Seq(T)
    BY SMT
  <2> QED BY <2>1
<1>6. /\ Shaped(stack') /\ Named(w \o Tail(stack)) /\ stack[2] \notin Hungry
      /\ Head(stack') = IF w = <<>> THEN stack[2] ELSE w[1]
  BY <1>1, <1>2, <1>3, <1>4, RewritesShape
<1>7. Balanced(stack)'
  BY <1>1, <1>2, <1>3, <1>4, <1>5, BalanceMoves DEF Balanced
<1>8. Named(stack)'
  BY <1>2, <1>6 DEF Named
<1>9. KeepsBuf'
  BY <1>2, <1>3, <1>4 DEF KeepsBuf, Balanced, Named
<1>10. Settled'
  <2>1. ASSUME calm, next = "eof" PROVE Head(stack') \notin Hungry
    <3>1. sym \notin Hungry
      BY <1>2, <1>3, <2>1 DEF Settled
    <3>2. w = <<>> \/ w[1] \notin Hungry
      BY <1>1, <1>2, <2>1, <3>1 DEF Starts
    <3>3. CASE w = <<>>
      BY <1>6, <3>3, Zenon
    <3>4. CASE w # <<>> /\ w[1] \notin Hungry
      BY <1>6, <3>4, Zenon
    <3> QED BY <3>2, <3>3, <3>4
  <2>2. /\ calm' = calm /\ next' = next /\ verdict' = verdict
        /\ calm /\ next \notin {"none", "eof"} => next \in Calm
    BY <1>2, <1>3 DEF Settled
  <2>3. ASSUME calm', next' \in {"none", "eof"} PROVE Head(stack') \notin Hungry
    <3>1. calm /\ next = "eof"
      BY <1>2, <2>2, <2>3
    <3> QED BY <2>1, <3>1
  <2>4. ASSUME calm', next' \notin {"none", "eof"} PROVE next' \in Calm
    BY <2>2, <2>4
  <2>5. Calm' = Calm /\ Hungry' = Hungry
    BY DEF Calm, Hungry
  <2> QED BY <2>3, <2>4, <2>5 DEF Settled
<1>11. TypeOK'
  BY <1>2, <1>3, <1>6 DEF TypeOK, Shaped, Symbols
<1>12. Answered'
  BY <1>2 DEF Answered
<1> QED BY <1>2, <1>3, <1>6, <1>7, <1>8, <1>9, <1>10, <1>11, <1>12 DEF ReplInv

LEMMA GivesUpKeeps ==
  ASSUME ReplInv, NEW sym \in Todo \ {"module"}, GivesUp(sym), UNCHANGED <<buf, fresh, session, calm>>
  PROVE  ReplInv'
<1>1. /\ verdict = "none" /\ next # "none" /\ Head(stack) = sym /\ verdict' = "UnexpectedToken"
      /\ UNCHANGED <<stack, next, known, defining, open, buf, session, calm>>
      /\ next # "eof" \/ sym \in Hungry
  BY DEF GivesUp, At, Running, Reject, Return
<1>2. TypeOK /\ open \in Brackets /\ Shaped(stack) /\ Named(stack) /\ Balanced(stack) /\ KeepsBuf /\ Settled
  BY DEF ReplInv
<1>3. stack # <<"module">>
  BY <1>1, <1>2, ShapedFacts
<1>4. ~ (calm /\ next = "eof")
  BY <1>1, <1>2 DEF Settled
<1>5. TypeOK' /\ Shaped(stack)' /\ Named(stack)' /\ Balanced(stack)'
  BY <1>1, <1>2 DEF TypeOK, Named, Balanced
<1>6. Answered'
  BY <1>1, <1>3 DEF Answered
<1>7. KeepsBuf'
  BY <1>1, <1>2, <1>4 DEF KeepsBuf, Balanced, Named
<1>8. Settled'
  BY <1>1, <1>2 DEF Settled
<1> QED BY <1>1, <1>2, <1>5, <1>6, <1>7, <1>8 DEF ReplInv

\* What a symbol that is done leaves: the stack without its first.
LEMMA TailShape ==
  ASSUME NEW s, Shaped(s), s[1] # "module"
  PROVE  /\ Shaped(Tail(s)) /\ Head(Tail(s)) = s[2] /\ Len(Tail(s)) = Len(s) - 1 /\ Len(s) >= 2 /\ Len(s) \in Nat
         /\ \A j \in 1 .. Len(s) - 1 : Tail(s)[j] = s[1 + j]
         /\ Runs(s[1], s[2])
<1> DEFINE m == Len(s)
           u == Tail(s)
<1>1. /\ s \in Seq(Symbols) /\ m \in Nat /\ m >= 2
      /\ \A i \in 1 .. m : /\ s[i] = "module" <=> i = m
                           /\ s[i] \in {"top", "insert"} => i = m - 1
                           /\ i < m => Runs(s[i], s[i + 1])
  BY ShapedFacts DEF Shaped
<1>2. u \in Seq(Symbols) /\ Len(u) = m - 1 /\ \A j \in 1 .. m - 1 : u[j] = s[1 + j]
  BY <1>1, SMT
<1>3. u # <<>> /\ Head(u) = u[1]
  <2>1. ASSUME NEW v \in Seq(Symbols), Len(v) # 0 PROVE v # <<>> /\ Head(v) = v[1]
    BY <2>1, EmptySeq, HeadTailProperties
  <2> HIDE DEF u, m
  <2>2. Len(u) # 0
    BY <1>1, <1>2, SMT
  <2> QED BY <1>2, <2>1, <2>2
<1>4. 1 \in 1 .. m - 1 /\ 1 + 1 = 2 /\ 1 \in 1 .. m /\ 1 < m
  BY <1>1, SMT
<1>5. Head(u) = s[2] /\ Runs(s[1], s[2])
  BY <1>1, <1>2, <1>3, <1>4
<1> HIDE DEF u, m
<1>6. ASSUME NEW j \in 1 .. Len(u)
      PROVE  /\ u[j] = "module" <=> j = Len(u)
             /\ u[j] \in {"top", "insert"} => j = Len(u) - 1
             /\ j < Len(u) => Runs(u[j], u[j + 1])
  <2>1. /\ j \in 1 .. m - 1 /\ 1 + j \in 1 .. m
        /\ 1 + j = m <=> j = m - 1
        /\ 1 + j = m - 1 <=> j = (m - 1) - 1
        /\ 1 + j < m <=> j < m - 1
        /\ 1 + j < m => j + 1 \in 1 .. m - 1 /\ 1 + (j + 1) = (1 + j) + 1
    BY <1>1, <1>2, SMT
  <2>2. u[j] = s[1 + j]
    BY <1>2, <2>1
  <2>3. 1 + j < m => u[j + 1] = s[(1 + j) + 1]
    BY <1>2, <2>1
  <2> QED BY <1>1, <1>2, <2>1, <2>2, <2>3, Zenon
<1> QED BY <1>1, <1>2, <1>3, <1>5, <1>6, Zenon DEF Shaped, u, m

LEMMA TailBalance ==
  ASSUME NEW s, Shaped(s), s[1] # "module", NEW os \in Brackets, NEW pt \in Brackets, pt = Read(os, s[1])
  PROVE  Pending(pt, Tail(s), Len(Tail(s))) = Pending(os, s, Len(s))
<1> DEFINE m == Len(s)
           u == Tail(s)
<1>1. m \in Nat /\ m >= 2 /\ Len(u) = m - 1 /\ \A j \in 1 .. m - 1 : u[j] = s[1 + j]
  BY TailShape
<1> HIDE DEF u, m
<1>2. Pending(pt, u, 0) = Pending(os, s, 1)
  BY FirstReads
<1>3. 0 \in Nat /\ 1 \in Nat /\ m - 1 \in Nat /\ m - 1 = 0 + (m - 1) /\ m = 1 + (m - 1) /\ \A j \in 1 .. m - 1 : 0 + j = j
  BY <1>1, SMT
<1>4. Alike(u, 0, s, 1, m - 1)
  BY <1>1, <1>3, Zenon DEF Alike
<1> QED BY <1>1, <1>2, <1>3, <1>4, PendingShift DEF u, m

LEMMA OtherSymbols ==
  /\ "eof" \notin Expected /\ "none" \notin Expected /\ "ident" \notin Tokens /\ "name" \notin Tokens
  /\ "module" \in Todo /\ "group" \in Todo /\ "ident" \in Plain /\ "name" \in Plain
<1>1. /\ "eof" \notin Names /\ "none" \notin Names /\ "ident" \notin Names /\ "name" \notin Names
  BY NamesAssumption, Zenon
<1>2. /\ "eof" \notin Keywords \cup Opening \cup Closing \cup Marks \cup {"int", "string", "ident", "name"}
      /\ "none" \notin Keywords \cup Opening \cup Closing \cup Marks \cup {"int", "string", "ident", "name"}
      /\ "ident" \notin Keywords \cup Opening \cup Closing \cup Marks \cup {"int", "string"}
      /\ "name" \notin Keywords \cup Opening \cup Closing \cup Marks \cup {"int", "string"}
  BY SMT DEF Keywords, Opening, Closing, Marks
<1>3. "module" \in Todo /\ "group" \in Todo
  BY SMT DEF Todo
<1>4. "ident" \in Plain /\ "name" \in Plain
  BY SMT DEF Plain, Symbols, Expected, Tokens, Opening, Closing, Keywords, Marks, Todo
<1> QED BY <1>1, <1>2, <1>3, <1>4, Zenon DEF Expected, Tokens

\* A token is read as the symbol that asked for it.
LEMMA FitsReads ==
  ASSUME NEW sym \in Expected, Fits(sym)
  PROVE  /\ next \in Tokens /\ Bracket(open, next) = Read(open, sym)
         /\ sym = "name" => next \in Names
         /\ next \in Calm => sym \notin Jagged
<1>1. CASE sym \in {"ident", "name"}
  <2>1. next \in Names
    BY <1>1 DEF Fits
  <2>2. next \in Plain /\ sym \in Plain /\ sym \notin Tokens
    BY <1>1, <2>1, NamesArePlain, OtherSymbols
  <2>3. next \notin Opening \cup Closing
    BY <2>2 DEF Plain
  <2>4. Bracket(open, next) = open
    BY <2>3 DEF Bracket
  <2> QED BY <2>1, <2>2, <2>4, PlainReads, Zenon DEF Tokens, Jagged
<1>2. CASE sym \notin {"ident", "name"}
  <2>1. next = sym
    BY <1>2 DEF Fits
  <2>2. sym # "group"
    BY TestsAreNoTokens, OtherSymbols
  <2>3. Bracket(open, next) = Read(open, sym)
    BY <2>1, <2>2 DEF Read, Owed
  <2> QED BY <1>2, <2>1, <2>3, Zenon DEF Expected, Jagged
<1> QED BY <1>1, <1>2

LEMMA ExpectKeeps ==
  ASSUME ReplInv, Expect, UNCHANGED <<buf, fresh, session, calm>>
  PROVE  ReplInv'
<1>1. /\ TypeOK /\ open \in Brackets /\ Shaped(stack) /\ Named(stack) /\ Balanced(stack) /\ Answered /\ KeepsBuf /\ Settled
  BY DEF ReplInv
<1>2. PICK sym \in Expected : sym = Head(stack)
  BY DEF Expect
<1>3. verdict = "none" /\ next # "none"
  BY DEF Expect, Running
<1>4. sym = stack[1] /\ sym \notin Todo
  BY <1>1, <1>2, ShapedFacts, TestsAreNoTokens
<1>5. sym # "module" /\ stack # <<"module">>
  BY <1>1, <1>4, OtherSymbols, ShapedFacts
<1>6. CASE Fits(sym)
  <2>1. /\ stack' = Tail(stack) /\ next' = "none" /\ open' = Bracket(open, next)
        /\ defining' = IF sym = "name" THEN next ELSE defining
        /\ UNCHANGED <<known, verdict, buf, session, calm>>
    BY <1>2, <1>6 DEF Expect
  <2>2. /\ next \in Tokens /\ open' = Read(open, sym)
        /\ sym = "name" => next \in Names
        /\ next \in Calm => sym \notin Jagged
    BY <1>6, <2>1, FitsReads
  <2>3. /\ Shaped(stack') /\ Head(stack') = stack[2] /\ Len(stack') = Len(stack) - 1 /\ Len(stack) >= 2 /\ Len(stack) \in Nat
        /\ \A j \in 1 .. Len(stack) - 1 : stack'[j] = stack[1 + j]
        /\ Runs(sym, stack[2])
    BY <1>1, <1>4, <1>5, <2>1, TailShape
  <2>4. open' \in Brackets
    BY <1>1, <2>1, BracketsStay
  <2>5. Balanced(stack)'
    <3>1. Pending(open', Tail(stack), Len(Tail(stack))) = Pending(open, stack, Len(stack))
      BY <1>1, <1>4, <1>5, <2>2, <2>4, TailBalance
    <3> QED BY <1>1, <2>1, <3>1 DEF Balanced
  <2>6. Named(stack)'
    <3>1. ASSUME NEW i \in 1 .. Len(stack'), stack'[i] = "insert"
          PROVE  defining' \in Names \/ \E j \in 1 .. i - 1 : stack'[j] = "name"
      <4>1. i \in 1 .. Len(stack) - 1 /\ 1 + i \in 1 .. Len(stack)
        BY <2>3, SMT
      <4>2. stack[1 + i] = "insert"
        BY <2>3, <3>1, <4>1
      <4>3. CASE sym = "name"
        BY <2>1, <2>2, <4>3
      <4>4. CASE sym # "name" /\ defining \in Names
        BY <2>1, <4>4
      <4>5. CASE sym # "name" /\ \E k \in 1 .. (1 + i) - 1 : stack[k] = "name"
        <5>1. PICK k \in 1 .. (1 + i) - 1 : stack[k] = "name"
          BY <4>5
        <5>2. k # 1
          BY <1>4, <4>5, <5>1
        <5>3. k - 1 \in 1 .. i - 1 /\ k - 1 \in 1 .. Len(stack) - 1 /\ 1 + (k - 1) = k
          BY <2>3, <4>1, <5>1, <5>2, SMT
        <5>4. stack'[k - 1] = "name"
          BY <2>3, <5>1, <5>3
        <5> QED BY <5>3, <5>4
      <4> QED BY <1>1, <4>1, <4>2, <4>3, <4>4, <4>5 DEF Named
    <3> QED BY <3>1 DEF Named
  <2>7. Settled'
    <3>1. ASSUME calm PROVE stack[2] \notin Hungry
      <4>1. next \notin {"none", "eof"}
        BY <2>2, OtherSymbols, Zenon DEF Expected
      <4>2. next \in Calm
        BY <1>1, <3>1, <4>1 DEF Settled
      <4> QED BY <2>2, <2>3, <4>2 DEF Runs
    <3>2. Hungry' = Hungry
      BY DEF Hungry
    <3> QED BY <2>1, <2>3, <3>1, <3>2 DEF Settled
  <2>8. TypeOK'
    <3>1. stack' \in Seq(Expected \cup Todo)
      BY <2>3 DEF Shaped, Symbols
    <3>2. defining' \in Names \cup {"none"}
      BY <1>1, <2>1, <2>2 DEF TypeOK
    <3> QED BY <1>1, <1>3, <2>1, <3>1, <3>2 DEF TypeOK
  <2>9. Answered' /\ KeepsBuf'
    BY <1>3, <2>1 DEF Answered, KeepsBuf
  <2> QED BY <2>3, <2>4, <2>5, <2>6, <2>7, <2>8, <2>9 DEF ReplInv
<1>7. CASE ~ Fits(sym)
  <2>1. /\ UNCHANGED <<stack, next, known, defining, open, buf, session, calm>>
        /\ verdict' = IF next = "eof" THEN "UnexpectedEof" ELSE "UnexpectedToken"
    BY <1>2, <1>7 DEF Expect, Return
  <2>2. TypeOK' /\ Shaped(stack)' /\ Named(stack)' /\ Balanced(stack)' /\ open' \in Brackets
    BY <1>1, <1>3, <2>1 DEF TypeOK, Named, Balanced
  <2>3. Answered'
    BY <1>5, <2>1 DEF Answered
  <2>4. KeepsBuf'
    BY <1>1, <2>1 DEF KeepsBuf, Balanced, Named
  <2>5. Settled'
    BY <1>1, <2>1 DEF Settled
  <2> QED BY <2>2, <2>3, <2>4, <2>5 DEF ReplInv
<1> QED BY <1>6, <1>7

\* The empty module, which a parser starts with.
LEMMA FirstStack ==
  ASSUME NEW s, s = <<"module">>
  PROVE  /\ Shaped(s) /\ \A os \in Brackets : Pending(os, s, Len(s)) = os
         /\ \A i \in 1 .. Len(s) : s[i] # "insert"
         /\ Head(s) \notin Hungry
<1>1. "module" \in Symbols /\ "module" \in Plain /\ "module" \notin Hungry
  BY SMT DEF Plain, Symbols, Expected, Tokens, Opening, Closing, Keywords, Marks, Todo, Hungry
<1>2. "module" # "insert" /\ "module" # "top"
  OBVIOUS
<1>3. ASSUME NEW a \in Symbols, NEW v, v = <<a>> PROVE v \in Seq(Symbols) /\ v # <<>> /\ Len(v) = 1 /\ v[1] = a /\ Head(v) = a
  BY <1>3, SMT
<1>4. s \in Seq(Symbols) /\ s # <<>> /\ Len(s) = 1 /\ s[1] = "module" /\ Head(s) = "module"
  BY <1>1, <1>3, Zenon
<1>5. \A i \in 1 .. 1 : i = 1 /\ ~ (i < 1)
  BY SMT
<1>6. ASSUME NEW i \in 1 .. Len(s)
      PROVE  /\ s[i] = "module" <=> i = Len(s)
             /\ s[i] \in {"top", "insert"} => i = Len(s) - 1
             /\ i < Len(s) => Runs(s[i], s[i + 1])
             /\ s[i] # "insert"
  BY <1>2, <1>4, <1>5, Zenon
<1>7. ASSUME NEW os \in Brackets PROVE Pending(os, s, Len(s)) = os
  <2>1. Pending(os, s, 1) = Read(os, s[1]) /\ Read(os, "module") = os
    BY <1>1, FirstReads, PlainReads
  <2> QED BY <1>4, <2>1
<1> QED BY <1>1, <1>4, <1>6, <1>7, Zenon DEF Shaped

LEMMA NewParser == ASSUME stack' = <<"module">>, next' = "none", known' = {}, defining' = "none", verdict' = "none",
                          open' = <<>>, calm' = FALSE, session' \subseteq Names
                   PROVE  ReplInv'
<1>1. /\ Shaped(stack') /\ \A os \in Brackets : Pending(os, stack', Len(stack')) = os
      /\ \A i \in 1 .. Len(stack') : stack'[i] # "insert"
  BY FirstStack
<1>2. open' \in Brackets /\ open' = <<>>
  BY SMT DEF Brackets
<1>3. Named(stack)' /\ Balanced(stack)'
  BY <1>1, <1>2 DEF Named, Balanced
<1>4. TypeOK'
  BY <1>1 DEF TypeOK, Shaped, Symbols
<1>5. Answered' /\ KeepsBuf' /\ Settled'
  BY DEF Answered, KeepsBuf, Settled
<1> QED BY <1>1, <1>2, <1>3, <1>4, <1>5 DEF ReplInv

LEMMA ModuleKeeps ==
  ASSUME ReplInv, ParseModule, UNCHANGED <<buf, fresh, session, calm>>
  PROVE  ReplInv'
<1>1. /\ TypeOK /\ open \in Brackets /\ Shaped(stack) /\ Named(stack) /\ Balanced(stack) /\ Answered /\ KeepsBuf /\ Settled
  BY DEF ReplInv
<1>2. verdict = "none" /\ next # "none" /\ stack[1] = "module" /\ stack = <<"module">>
  BY <1>1, ShapedFacts DEF ParseModule, At, Running
<1>3. CASE next = "eof"
  <2>1. verdict' = "ok" /\ UNCHANGED <<stack, next, known, defining, open, buf, session, calm>>
    BY <1>3 DEF ParseModule, Return
  <2>2. TypeOK' /\ Shaped(stack)' /\ Named(stack)' /\ Balanced(stack)' /\ open' \in Brackets
    BY <1>1, <1>2, <2>1 DEF TypeOK, Named, Balanced
  <2>3. Answered' /\ Settled'
    BY <1>1, <1>2, <2>1 DEF Answered, Settled
  <2>4. KeepsBuf'
    BY <1>1, <1>2, <2>1 DEF KeepsBuf, Balanced, Named
  <2> QED BY <2>2, <2>3, <2>4 DEF ReplInv
<1>4. CASE next # "eof"
  <2>1. /\ stack' = <<"top", "module">> \o Tail(stack)
        /\ UNCHANGED <<next, known, defining, verdict, open, buf, session, calm>>
    BY <1>4 DEF ParseModule, Do
  <2>2. "top" \in Symbols /\ "module" \in Symbols /\ "top" \in Plain /\ "module" \in Plain /\ "module" \notin Hungry
    BY SMT DEF Plain, Symbols, Expected, Tokens, Opening, Closing, Keywords, Marks, Todo, Hungry
  <2>3. ASSUME NEW a \in Symbols, NEW b \in Symbols
        PROVE  LET v == <<a, b>> IN v \in Seq(Symbols) /\ v # <<>> /\ Len(v) = 2 /\ v[1] = a /\ v[2] = b /\ v \o <<>> = v
    BY SMT
  <2>4. stack' \in Seq(Symbols) /\ stack' # <<>> /\ Len(stack') = 2 /\ stack'[1] = "top" /\ stack'[2] = "module"
    <3> DEFINE v == <<"top", "module">>
    <3>1. v \in Seq(Symbols) /\ v # <<>> /\ Len(v) = 2 /\ v[1] = "top" /\ v[2] = "module" /\ v \o <<>> = v
      BY <2>2, <2>3, Zenon
    <3>2. ASSUME NEW b, NEW u, u = <<b>> PROVE Tail(u) = <<>>
      BY <3>2, SMT
    <3>3. Tail(stack) = <<>>
      BY <1>2, <3>2, Zenon
    <3>4. stack' = v \o Tail(stack)
      BY <2>1
    <3> HIDE DEF v
    <3> QED BY <3>1, <3>3, <3>4
  <2>5. \A i \in 1 .. 2 : (i = 1 /\ i = 2 - 1 /\ i # 2 /\ i + 1 = 2) \/ (i = 2 /\ ~ (i < 2))
    BY SMT
  <2>6. "top" # "module" /\ "top" # "insert" /\ "module" # "insert" /\ "module" # "top"
    OBVIOUS
  <2>7. Runs("top", "module")
    BY <2>2 DEF Runs
  <2>8. ASSUME NEW i \in 1 .. Len(stack')
        PROVE  /\ stack'[i] = "module" <=> i = Len(stack')
               /\ stack'[i] \in {"top", "insert"} => i = Len(stack') - 1
               /\ i < Len(stack') => Runs(stack'[i], stack'[i + 1])
               /\ stack'[i] # "insert"
    <3>1. CASE i = 1 /\ i = 2 - 1 /\ i # 2 /\ i + 1 = 2
      BY <2>4, <2>6, <2>7, <3>1
    <3>2. CASE i = 2 /\ ~ (i < 2)
      BY <2>4, <2>6, <3>2
    <3> QED BY <2>4, <2>5, <3>1, <3>2
  <2>9. Shaped(stack') /\ Named(stack)'
    BY <2>4, <2>8, Zenon DEF Shaped, Named
  <2>10. Balanced(stack)'
    <3>1. open = <<>>
      BY <1>1, <1>2, FirstStack DEF Balanced
    <3>2. Read(open, "top") = open /\ Read(open, "module") = open
      BY <2>2, PlainReads
    <3>3. Pending(open, stack', 2) = open
      BY <1>1, <2>4, <3>2, FirstReads
    <3> QED BY <2>1, <2>4, <3>1, <3>3 DEF Balanced
  <2>11. TypeOK' /\ Answered'
    BY <1>1, <1>2, <2>1, <2>9 DEF TypeOK, Answered, Shaped, Symbols
  <2>12. KeepsBuf' /\ Settled'
    BY <1>1, <1>2, <1>4, <2>1 DEF KeepsBuf, Settled
  <2> QED BY <1>1, <2>1, <2>9, <2>10, <2>11, <2>12 DEF ReplInv
<1> QED BY <1>3, <1>4

\* known_types.insert
LEMMA InsertKeeps ==
  ASSUME ReplInv, ParseClassDef, At("insert"), UNCHANGED <<buf, fresh, session, calm>>
  PROVE  ReplInv'
<1>1. /\ TypeOK /\ open \in Brackets /\ Shaped(stack) /\ Named(stack) /\ Balanced(stack) /\ Answered /\ KeepsBuf /\ Settled
  BY DEF ReplInv
<1>2. verdict = "none" /\ next # "none" /\ stack[1] = "insert"
  BY <1>1, ShapedFacts DEF At, Running
<1>3. /\ known' = known \cup {defining} /\ defining' = "none" /\ stack' = Tail(stack)
      /\ UNCHANGED <<next, verdict, open, buf, session, calm>>
  <2>1. /\ "insert" # "fields" /\ "insert" # "field" /\ "insert" # "bits" /\ "insert" # "fields,"
    OBVIOUS
  <2> QED BY <2>1 DEF ParseClassDef, At
<1>4. stack[1] # "module" /\ "insert" \in Plain
  BY <1>2, SMT DEF Plain, Symbols, Expected, Tokens, Opening, Closing, Keywords, Marks, Todo
<1>5. stack # <<"module">> /\ Len(stack) >= 2 /\ Len(stack) \in Nat
  BY <1>1, <1>4, ShapedFacts
<1>6. Len(stack) = 2
  <2>1. 1 \in 1 .. Len(stack) /\ (1 = Len(stack) - 1 => Len(stack) = 2)
    BY <1>5, SMT
  <2> QED BY <1>1, <1>2, <2>1, Zenon DEF Shaped
<1>7. Shaped(stack') /\ Len(stack') = 1
  BY <1>1, <1>3, <1>4, <1>6, TailShape
<1>8. stack' = <<"module">>
  <2>1. stack'[1] = "module"
    BY <1>7, ShapedFacts
  <2> QED BY <1>7, <2>1, ShapedFacts
<1>9. defining \in Names
  <2>1. 1 \in 1 .. Len(stack) /\ 1 .. 1 - 1 = {}
    BY <1>5, SMT
  <2> QED BY <1>1, <1>2, <2>1, Zenon DEF Named
<1>10. Named(stack)' /\ Head(stack') \notin Hungry
  BY <1>8, FirstStack DEF Named
<1>11. Balanced(stack)'
  <2>1. Read(open, stack[1]) = open
    BY <1>2, <1>4, PlainReads
  <2>2. Pending(open, Tail(stack), Len(Tail(stack))) = Pending(open, stack, Len(stack))
    BY <1>1, <1>4, <2>1, TailBalance
  <2> QED BY <1>1, <1>3, <2>2 DEF Balanced
<1>12. TypeOK'
  BY <1>1, <1>2, <1>3, <1>7, <1>9 DEF TypeOK, Shaped, Symbols
<1>13. Answered'
  BY <1>2, <1>3 DEF Answered
<1>14. KeepsBuf'
  <2>1. Hungry' = Hungry /\ verdict' = verdict /\ buf' = buf /\ open' = open /\ next' = next /\ calm' = calm
    BY <1>3 DEF Hungry
  <2>2. ASSUME next = "eof"
        PROVE  Shaped(buf) /\ Balanced(buf) /\ (calm => Head(buf) \notin Hungry /\ verdict # "UnexpectedToken")
    BY <1>1, <2>2 DEF KeepsBuf
  <2> QED BY <1>8, <2>1, <2>2 DEF KeepsBuf, Balanced
<1>15. Settled'
  <2>1. Hungry' = Hungry /\ Calm' = Calm
    BY DEF Hungry, Calm
  <2>2. next' = next /\ calm' = calm
    BY <1>3
  <2>3. ASSUME calm', next' \notin {"none", "eof"} PROVE next' \in Calm
    BY <1>1, <2>2, <2>3 DEF Settled
  <2> QED BY <1>10, <2>1, <2>3 DEF Settled
<1> QED BY <1>1, <1>3, <1>7, <1>10, <1>11, <1>12, <1>13, <1>14, <1>15 DEF ReplInv

LEMMA RawIsNotHungry == "raw" \notin Hungry
BY SMT DEF Hungry

LEMMA SkipKeeps ==
  ASSUME ReplInv, At("raw"), Skip, next \notin {"{", "}", "eof"}, UNCHANGED <<buf, fresh, session, calm>>
  PROVE  ReplInv'
<1>1. /\ TypeOK /\ open \in Brackets /\ Shaped(stack) /\ Named(stack) /\ Balanced(stack) /\ Answered /\ KeepsBuf /\ Settled
  BY DEF ReplInv
<1>2. /\ verdict = "none" /\ next' = "none" /\ Head(stack) = "raw"
      /\ UNCHANGED <<stack, known, defining, verdict, open, buf, session, calm>>
  BY DEF At, Running, Skip
<1>3. "raw" \notin Hungry
  BY RawIsNotHungry
<1>4. Head(stack') \notin Hungry
  BY <1>2, <1>3
<1>5. Settled'
  <2>1. Hungry' = Hungry
    BY DEF Hungry
  <2> QED BY <1>2, <1>4, <2>1 DEF Settled
<1>6. TypeOK' /\ Shaped(stack)' /\ Named(stack)' /\ Balanced(stack)' /\ open' \in Brackets
  BY <1>1, <1>2 DEF TypeOK, Named, Balanced
<1>7. Answered' /\ KeepsBuf'
  BY <1>2 DEF Answered, KeepsBuf
<1> QED BY <1>5, <1>6, <1>7 DEF ReplInv

LEMMA ParseKeeps ==
  ASSUME ReplInv, Parse, UNCHANGED <<buf, fresh, session, calm>>
  PROVE  ReplInv'
<1>1. "path" \in Todo \ {"module"} /\ "ty" \in Todo \ {"module"} /\ "cases" \in Todo \ {"module"} /\ "prefix" \in Todo \ {"module"}
  BY SMT DEF Todo
<1>2. ASSUME Rewrites PROVE ReplInv'
  BY <1>2, RewritesKeep
<1>3. ASSUME NEW sym \in Todo \ {"module"}, GivesUp(sym) PROVE ReplInv'
  BY <1>3, GivesUpKeeps
<1>4. CASE Expect
  BY <1>4, ExpectKeeps
<1>5. CASE ParseModule
  BY <1>5, ModuleKeeps
<1>6. CASE ParseTopLevel
  BY <1>2, <1>6, TopRewrites
<1>7. CASE ParsePreprocessor
  BY <1>1, <1>2, <1>3, <1>7, PreprocessorRewrites
<1>8. CASE ParseClassDef
  BY <1>2, <1>8, ClassRewrites, InsertKeeps
<1>9. CASE ParseType
  BY <1>1, <1>2, <1>3, <1>9, TypeRewrites
<1>10. CASE ParseParamList
  BY <1>2, <1>10, ParamRewrites
<1>11. CASE ParseBlockBody
  BY <1>2, <1>11, BlockRewrites
<1>12. CASE ParseStmt
  BY <1>2, <1>12, StmtRewrites
<1>13. CASE ParseSwitch
  BY <1>1, <1>2, <1>3, <1>13, SwitchRewrites
<1>14. CASE ParseAsm
  BY <1>2, <1>14, AsmRewrites, SkipKeeps
<1>15. CASE ParsePratt
  BY <1>2, <1>15, PrattRewrites
<1>16. CASE ParsePrefix
  BY <1>1, <1>2, <1>3, <1>16, PrefixRewrites
<1> QED
  BY <1>4, <1>5, <1>6, <1>7, <1>8, <1>9, <1>10, <1>11, <1>12, <1>13, <1>14, <1>15, <1>16 DEF Parse

LEMMA TypesAreTokens ==
  ASSUME NEW t \in Tokens
  PROVE  t # "none" /\ t # "eof"
BY OtherSymbols, Zenon DEF Expected

LEMMA TypeKeeps == ASSUME ReplInv, NEW t \in Tokens, Type(t) PROVE ReplInv'
<1>1. /\ TypeOK /\ open \in Brackets /\ Shaped(stack) /\ Named(stack) /\ Balanced(stack)
  BY DEF ReplInv
<1>2. /\ next' = t /\ calm' = (t \in Calm) /\ verdict = "none"
      /\ UNCHANGED <<stack, known, defining, verdict, open, buf, session>>
  BY DEF Type, Idle
<1>3. next' # "none" /\ next' # "eof"
  BY <1>2, TypesAreTokens
<1>4. TypeOK' /\ Shaped(stack)' /\ Named(stack)' /\ Balanced(stack)' /\ open' \in Brackets
  BY <1>1, <1>2 DEF TypeOK, Named, Balanced
<1>5. Answered' /\ KeepsBuf'
  BY <1>2, <1>3 DEF Answered, KeepsBuf
<1>6. Settled'
  <2>1. calm' => t \in Calm'
    BY <1>2 DEF Calm
  <2> QED BY <1>2, <1>3, <2>1 DEF Settled
<1> QED BY <1>4, <1>5, <1>6 DEF ReplInv

LEMMA EndLineKeeps == ASSUME ReplInv, EndLine PROVE ReplInv'
<1>1. /\ TypeOK /\ open \in Brackets /\ Shaped(stack) /\ Named(stack) /\ Balanced(stack) /\ Settled
  BY DEF ReplInv
<1>2. /\ next = "none" /\ verdict = "none" /\ next' = "eof" /\ buf' = stack
      /\ UNCHANGED <<stack, known, defining, verdict, open, session, calm>>
  BY DEF EndLine, Idle
<1>3. calm => Head(stack) \notin Hungry
  BY <1>1, <1>2 DEF Settled
<1>4. TypeOK' /\ Shaped(stack)' /\ Named(stack)' /\ Balanced(stack)' /\ open' \in Brackets /\ Answered'
  BY <1>1, <1>2 DEF TypeOK, Named, Balanced, Answered
<1>5. Hungry' = Hungry
  BY DEF Hungry
<1>6. KeepsBuf'
  BY <1>1, <1>2, <1>3, <1>5 DEF KeepsBuf, Named, Balanced
<1>7. Settled'
  BY <1>2, <1>3, <1>5 DEF Settled
<1> QED BY <1>4, <1>6, <1>7 DEF ReplInv

LEMMA KeepKeeps == ASSUME ReplInv, Keep PROVE ReplInv'
<1>1. TypeOK /\ open \in Brackets /\ Answered /\ KeepsBuf
  BY DEF ReplInv
<1>2. /\ verdict = "UnexpectedEof" /\ next = "eof" /\ stack' = buf /\ next' = "none" /\ verdict' = "none"
      /\ UNCHANGED <<known, defining, open, session, calm>>
  BY DEF Keep
<1>3. stack # <<"module">>
  BY <1>1, <1>2 DEF Answered
<1>4. Shaped(buf) /\ Balanced(buf) /\ Named(buf) /\ (calm => Head(buf) \notin Hungry)
  BY <1>1, <1>2, <1>3 DEF KeepsBuf
<1>5. Shaped(stack)' /\ Named(stack)' /\ Balanced(stack)'
  BY <1>2, <1>4 DEF Named, Balanced
<1>6. TypeOK'
  <2>1. stack' \in Seq(Expected \cup Todo)
    BY <1>5 DEF Shaped, Symbols
  <2> QED BY <1>1, <1>2, <2>1 DEF TypeOK
<1>7. Answered' /\ KeepsBuf'
  BY <1>2 DEF Answered, KeepsBuf
<1>8. Settled'
  <2>1. Hungry' = Hungry
    BY DEF Hungry
  <2> QED BY <1>2, <1>4, <2>1 DEF Settled
<1> QED BY <1>1, <1>2, <1>5, <1>6, <1>7, <1>8 DEF ReplInv

LEMMA InitIsReplInv == ReplInit => ReplInv
<1> SUFFICES ASSUME ReplInit PROVE ReplInv
  OBVIOUS
<1>1. /\ stack = <<"module">> /\ next = "none" /\ known = {} /\ defining = "none" /\ verdict = "none" /\ open = <<>>
      /\ session = {} /\ calm = FALSE
  BY DEF ReplInit, ParserInit
<1>2. /\ Shaped(stack) /\ \A os \in Brackets : Pending(os, stack, Len(stack)) = os
      /\ \A i \in 1 .. Len(stack) : stack[i] # "insert"
  BY <1>1, FirstStack
<1>3. open \in Brackets
  BY <1>1, SMT DEF Brackets
<1>4. Named(stack) /\ Balanced(stack)
  BY <1>1, <1>2, <1>3 DEF Named, Balanced
<1>5. TypeOK
  BY <1>1, <1>2 DEF TypeOK, Shaped, Symbols
<1>6. Answered /\ KeepsBuf /\ Settled
  BY <1>1 DEF Answered, KeepsBuf, Settled
<1> QED BY <1>2, <1>3, <1>4, <1>5, <1>6 DEF ReplInv

LEMMA StepsKeepReplInv == ReplInv /\ [Next]_vars => ReplInv'
<1> SUFFICES ASSUME ReplInv, [Next]_vars PROVE ReplInv'
  OBVIOUS
<1>1. CASE UNCHANGED vars
  <2>1. UNCHANGED <<stack, next, known, defining, verdict, open, buf, session, calm>>
    BY <1>1 DEF vars, parser
  <2>2. Calm' = Calm /\ Hungry' = Hungry /\ Brackets' = Brackets
    BY DEF Calm, Hungry, Brackets, Opening, Closing
  <2> QED BY <2>1, <2>2 DEF ReplInv, TypeOK, Named, Balanced, Answered, KeepsBuf, Settled
<1>2. ASSUME ClearBuf, session' \subseteq Names PROVE ReplInv'
  BY <1>2, NewParser DEF ClearBuf
<1>3. known \subseteq Names /\ session \subseteq Names
  BY DEF ReplInv, TypeOK
<1>4. CASE \E t \in Tokens : Type(t)
  BY <1>4, TypeKeeps
<1>5. CASE EndLine
  BY <1>5, EndLineKeeps
<1>6. CASE LexError \/ CommandClear \/ CommandReset
  BY <1>2, <1>3, <1>6 DEF LexError, CommandClear, CommandReset
<1>7. CASE Parse /\ UNCHANGED <<buf, fresh, session, calm>>
  BY <1>7, ParseKeeps
<1>8. CASE Execute \/ Discard
  BY <1>2, <1>3, <1>8 DEF Execute, Discard
<1>9. CASE Keep
  BY <1>9, KeepKeeps
<1> QED BY <1>1, <1>4, <1>5, <1>6, <1>7, <1>8, <1>9 DEF Next, User, Work, Answer

-----------------------------------------------------------------------------
\* The verdict on the end of an input (is_eof in unexpected): behind a brace, a name or a
\* literal it is UnexpectedEof, so the REPL keeps the input whatever it is.
THEOREM CalmEndsAreKept == Spec => []CalmEndsKept
<1>1. ReplInv => CalmEndsKept
  BY DEF ReplInv, KeepsBuf, CalmEndsKept
<1> QED BY <1>1, InitIsReplInv, StepsKeepReplInv, PTL DEF Spec

\* The variables of parser and REPL keep their types: the stack is one of tokens to be
\* expected and of tests of the functions, and no name but the program's enters known_types.
THEOREM ReplTypes == Spec => []TypeOK
<1>1. ReplInv => TypeOK
  BY DEF ReplInv
<1> QED BY <1>1, InitIsReplInv, StepsKeepReplInv, PTL DEF Spec

\* What the functions that were called have yet to expect closes what was read, in its
\* order: no path through parse_stmt, parse_pratt or the others forgets a bracket.
THEOREM BracketsAlwaysMatch == Spec => []BracketsMatch
<1>1. ReplInv => BracketsMatch
  BY DEF ReplInv, Balanced, BracketsMatch
<1> QED BY <1>1, InitIsReplInv, StepsKeepReplInv, PTL DEF Spec

\* exec_module is reached only with an input whose brackets are closed, and enters the
\* types the parser knew at its end; what is kept or discarded leaves those of the
\* session alone.
THEOREM OnlyWholeInputs == Spec => WholeInputs
<1>1. ReplInv /\ [Next]_vars =>
        [session' # session =>
           \/ session' = {}
           \/ verdict = "ok" /\ open = <<>> /\ session' = session \cup known]_vars
  <2> SUFFICES ASSUME ReplInv, Next, session' # session
               PROVE  \/ session' = {}
                      \/ verdict = "ok" /\ open = <<>> /\ session' = session \cup known
    OBVIOUS
  <2>1. CASE Execute
    <3>1. verdict = "ok" /\ session' = session \cup known
      BY <2>1 DEF Execute
    <3>2. stack = <<"module">> /\ open \in Brackets /\ Balanced(stack)
      BY <3>1 DEF ReplInv, Answered
    <3>3. open = <<>>
      BY <3>2, FirstStack DEF Balanced
    <3> QED BY <3>1, <3>3
  <2>2. CASE CommandReset
    BY <2>2 DEF CommandReset
  <2>3. CASE (\E t \in Tokens : Type(t)) \/ EndLine \/ LexError \/ CommandClear \/ Keep \/ Discard
    BY <2>3 DEF Type, EndLine, LexError, CommandClear, Keep, Discard
  <2> QED BY <2>1, <2>2, <2>3 DEF Next, User, Work, Answer
<1> QED BY <1>1, InitIsReplInv, StepsKeepReplInv, PTL DEF Spec, WholeInputs
=============================================================================
