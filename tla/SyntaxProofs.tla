----------------------------- MODULE SyntaxProofs -----------------------------
(***************************************************************************)
(* What the lexer keeps of any text, of any characters and any length, and *)
(* what the expression parser makes of any tokens: first the theorems of   *)
(* Tokenizer, then, from ParseInv on, those of Pratt.                      *)
(***************************************************************************)
EXTENDS Tokenizer, Pratt, Descent, SequenceTheorems

IsText(s) == Len(s) \in Nat /\ \A i \in 1 .. Len(s) : s[i] # None

LEMMA TextsAreTexts == ASSUME NEW s \in Texts PROVE IsText(s)
<1>1. s \in Seq(STRING \ {None})
  BY TextsAssumption
<1> DEFINE C == STRING \ {None}
<1>2. \A c \in C : c # None
  OBVIOUS
<1> HIDE DEF C
<1>3. s \in Seq(C)
  BY <1>1 DEF C
<1>4. Len(s) \in Nat /\ \A i \in 1 .. Len(s) : s[i] \in C
  BY <1>3, SMT
<1> QED BY <1>2, <1>4 DEF IsText

LEMMA PeekIs == ASSUME NEW s, IsText(s), NEW p \in Nat
  PROVE  (p <= Len(s) => Peek(s, p) = s[p]) /\ (p > Len(s) => Peek(s, p) = None)
BY SMT DEF IsText, Peek

LEMMA PeekInside == ASSUME NEW s, IsText(s), NEW p \in Nat, p > 0, Peek(s, p) # None
  PROVE  p \in 1 .. Len(s) /\ Peek(s, p) = s[p]
BY SMT DEF IsText, Peek
-----------------------------------------------------------------------------
(* Loops that go on while the character is of a class.                     *)

\* [p, q) is all of C, and what is at q is not.
Run(s, p, q, C) == q \in p .. Len(s) + 1 /\ AllIn(s, p, q, C) /\ Peek(s, q) \notin C

LEMMA AfterIsRun ==
  ASSUME NEW s, IsText(s), NEW p \in 1 .. Len(s) + 1, NEW C, None \notin C
  PROVE  Run(s, p, After(s, p, C), C)
<1> DEFINE T == {q \in p .. Len(s) + 1 : Peek(s, q) \notin C}
           ok(q) == Peek(s, q) \notin C /\ \A i \in p .. q - 1 : s[i] \in C
<1>1. Len(s) \in Nat
  BY DEF IsText
<1>2. Len(s) + 1 \in p .. Len(s) + 1 /\ Peek(s, Len(s) + 1) = None
  BY <1>1, PeekIs, SMT
<1>3. T # {} /\ T \subseteq Nat
  <2>1. Len(s) + 1 \in T
    BY <1>2
  <2>2. p .. Len(s) + 1 \subseteq Nat
    BY <1>1, SMT
  <2> QED BY <2>1, <2>2
<1>4. PICK q \in T : \A r \in T : q <= r
  BY <1>3, Smallest
<1>5. ASSUME NEW i \in p .. q - 1 PROVE s[i] \in C
  <2>1. i \in p .. Len(s) + 1 /\ i \in Nat /\ ~ (q <= i) /\ i <= Len(s)
    BY <1>1, SMT
  <2>2. i \notin T
    BY <2>1, <1>4
  <2>3. Peek(s, i) = s[i]
    BY <2>1, PeekIs
  <2> QED BY <2>1, <2>2, <2>3
<1>6. \E r \in p .. Len(s) + 1 : ok(r)
  BY <1>5
<1>7. After(s, p, C) = CHOOSE r \in p .. Len(s) + 1 : ok(r)
  BY DEF After
<1> DEFINE a == After(s, p, C)
<1>8. a \in p .. Len(s) + 1 /\ ok(a)
  BY <1>6, <1>7
<1> QED BY <1>8 DEF Run, AllIn

\* Where a class goes on to, and stops, there the run ends.
LEMMA RunEnds ==
  ASSUME NEW s, IsText(s), NEW p \in 1 .. Len(s) + 1, NEW C, NEW q, Run(s, p, q, C),
         NEW r \in p .. Len(s) + 1, AllIn(s, p, r, C)
  PROVE  r <= q /\ (r <= Len(s) /\ s[r] \notin C => r = q)
<1>1. Len(s) \in Nat /\ q \in p .. Len(s) + 1 /\ \A i \in p .. q - 1 : s[i] \in C
  BY DEF IsText, Run, AllIn
<1>2. q < r => s[q] \in C
  <2>1. q < r => q \in p .. r - 1
    BY <1>1, SMT
  <2> QED BY <2>1 DEF AllIn
<1>3. q <= Len(s) => s[q] \notin C
  <2>1. q \in Nat
    BY <1>1, SMT
  <2> QED BY <2>1, PeekIs DEF Run
<1>4. r <= q
  BY <1>1, <1>2, <1>3, SMT
<1>5. r <= Len(s) /\ s[r] \notin C => ~ (r < q)
  BY <1>1, SMT
<1> QED BY <1>1, <1>4, <1>5, SMT
-----------------------------------------------------------------------------
(* Numbers.                                                                *)

LEMMA Marks ==
  /\ None \notin Digit /\ None \notin HexLetter /\ None \notin BinDigit /\ None \notin Digit \cup HexLetter
  /\ "." \notin Digit /\ "e" \notin Digit /\ "x" \notin Digit /\ "X" \notin Digit /\ "b" \notin Digit
  /\ "+" \notin Digit /\ "-" \notin Digit /\ "0" \in Digit
BY Zenon DEF None, Digit, HexLetter, BinDigit

LEMMA RadixMarks ==
  ASSUME NEW c, c \in {"x", "X"} \/ c = "b"
  PROVE  c \notin Digit /\ c # "." /\ c # None /\ (c \in {"x", "X"} => c # "b")
BY Marks, Zenon DEF None

LEMMA SignMarks == ASSUME NEW c, c \in {"+", "-"} PROVE c \notin Digit /\ c # None
BY Marks, Zenon DEF None

\* What the lexer takes for a number from p on: one, and nothing longer is.
NumberTo(s, p, q) ==
  /\ q \in p + 1 .. Len(s) + 1 /\ IsNumber(s, p, q)
  /\ \A r \in q + 1 .. Len(s) + 1 : ~ IsNumber(s, p, r)

\* The point of a fraction is where the first digits end.
LEMMA FractionParts ==
  ASSUME NEW s, IsText(s), NEW p \in 1 .. Len(s), NEW q, Run(s, p, q, Digit),
         NEW r \in p .. Len(s) + 1, IsFraction(s, p, r)
  PROVE  q < r /\ q <= Len(s) /\ s[q] = "." /\ Digits(s, q + 1, r)
<1>1. PICK i \in p .. r - 1 : s[i] = "." /\ Digits(s, p, i) /\ Digits(s, i + 1, r)
  BY DEF IsFraction
<1>2. Len(s) \in Nat
  BY DEF IsText
<1>3. p \in 1 .. Len(s) + 1 /\ i \in p .. Len(s) + 1 /\ i <= Len(s) /\ i < r
  BY <1>2, SMT
<1>4. AllIn(s, p, i, Digit) /\ s[i] \notin Digit
  BY <1>1, Marks DEF Digits
<1>5. i = q
  BY <1>3, <1>4, RunEnds
<1> QED BY <1>1, <1>3, <1>5

\* The e of a power is where the digits behind the point end.
LEMMA PowerParts ==
  ASSUME NEW s, IsText(s), NEW p \in 1 .. Len(s), NEW q, Run(s, p, q, Digit),
         NEW r \in p .. Len(s) + 1, IsPower(s, p, r)
  PROVE  /\ q <= Len(s) /\ s[q] = "." /\ Peek(s, q + 1) \in Digit
         /\ \A d : Run(s, q + 1, d, Digit) =>
              /\ d < r /\ s[d] = "e"
              /\ Digits(s, d + 1, r) \/ (Peek(s, d + 1) \in {"+", "-"} /\ Digits(s, d + 2, r))
<1>1. PICK i \in p .. r - 1 :
        /\ s[i] = "e" /\ IsFraction(s, p, i)
        /\ Digits(s, i + 1, r) \/ (Peek(s, i + 1) \in {"+", "-"} /\ Digits(s, i + 2, r))
  BY DEF IsPower
<1>2. Len(s) \in Nat /\ q \in p .. Len(s) + 1
  BY DEF IsText, Run
<1>3. i \in p .. Len(s) + 1 /\ i <= Len(s) /\ i < r
  BY <1>2, SMT
<1>4. q < i /\ q <= Len(s) /\ s[q] = "." /\ Digits(s, q + 1, i)
  BY <1>1, <1>3, FractionParts
<1>5. q + 1 < i /\ AllIn(s, q + 1, i, Digit)
  BY <1>4 DEF Digits
<1>6. q + 1 \in 1 .. Len(s) + 1 /\ i \in q + 1 .. Len(s) + 1 /\ q + 1 \in q + 1 .. i - 1 /\ q + 1 \in Nat /\ q + 1 <= Len(s)
  BY <1>2, <1>3, <1>5, SMT
<1>7. Peek(s, q + 1) \in Digit
  <2>1. s[q + 1] \in Digit
    BY <1>5, <1>6 DEF AllIn
  <2> QED BY <2>1, <1>6, PeekIs
<1>8. s[i] \notin Digit
  BY <1>1, Marks
<1>9. ASSUME NEW d, Run(s, q + 1, d, Digit) PROVE i = d
  BY <1>3, <1>5, <1>6, <1>8, <1>9, RunEnds
<1> QED BY <1>1, <1>3, <1>4, <1>7, <1>9

\* Digits, a fraction and a power begin with digits, up to q: none of them goes on
\* behind q but with a point.
LEMMA Undotted ==
  ASSUME NEW s, IsText(s), NEW p \in 1 .. Len(s), NEW q, Run(s, p, q, Digit),
         ~ (Peek(s, q) = "." /\ Peek(s, q + 1) \in Digit), NEW r \in q + 1 .. Len(s) + 1
  PROVE  ~ Digits(s, p, r) /\ ~ IsFraction(s, p, r) /\ ~ IsPower(s, p, r)
<1>1. Len(s) \in Nat /\ q \in p .. Len(s) + 1
  BY DEF IsText, Run
<1>2. r \in p .. Len(s) + 1 /\ ~ (r <= q) /\ q \in Nat /\ p \in 1 .. Len(s) + 1
  BY <1>1, SMT
<1>3. ~ Digits(s, p, r)
  BY <1>2, RunEnds DEF Digits
<1>4. ASSUME IsFraction(s, p, r) PROVE FALSE
  <2>1. q <= Len(s) /\ s[q] = "." /\ Digits(s, q + 1, r)
    BY <1>2, <1>4, FractionParts
  <2>2. Peek(s, q) = "."
    BY <2>1, <1>2, PeekIs
  <2>3. q + 1 < r /\ AllIn(s, q + 1, r, Digit)
    BY <2>1 DEF Digits
  <2>4. q + 1 \in q + 1 .. r - 1 /\ q + 1 <= Len(s) /\ q + 1 \in Nat
    BY <1>1, <1>2, <2>3, SMT
  <2>5. Peek(s, q + 1) = s[q + 1] /\ s[q + 1] \in Digit
    BY <2>3, <2>4, PeekIs DEF AllIn
  <2> QED BY <2>2, <2>5
<1>5. ASSUME IsPower(s, p, r) PROVE FALSE
  <2>1. q <= Len(s) /\ s[q] = "." /\ Peek(s, q + 1) \in Digit
    BY <1>2, <1>5, PowerParts
  <2> QED BY <2>1, <1>2, PeekIs
<1> QED BY <1>3, <1>4, <1>5

LEMMA RadixStart ==
  ASSUME NEW s, IsText(s), NEW p \in 1 .. Len(s), NEW r \in p .. Len(s) + 1, NEW M, NEW C, IsRadix(s, p, r, M, C)
  PROVE  s[p] = "0" /\ Peek(s, p + 1) \in M /\ s[p + 1] \in M
<1>1. p + 1 \in Nat /\ p + 1 <= Len(s)
  BY SMT DEF IsText, IsRadix
<1> QED BY <1>1, PeekIs DEF IsRadix

LEMMA PlainNumber ==
  ASSUME NEW s, IsText(s), NEW p \in 1 .. Len(s), s[p] \in Digit, NEW q, Run(s, p, q, Digit),
         ~ (Peek(s, q) = "." /\ Peek(s, q + 1) \in Digit),
         ~ (s[p] = "0" /\ Peek(s, p + 1) \in {"x", "X"}), ~ (s[p] = "0" /\ Peek(s, p + 1) = "b")
  PROVE  NumberTo(s, p, q)
<1>1. Len(s) \in Nat /\ q \in p .. Len(s) + 1 /\ AllIn(s, p, q, Digit)
  BY DEF IsText, Run
<1>2. p # q
  <2>1. Peek(s, p) = s[p]
    BY <1>1, PeekIs, SMT
  <2> QED BY <2>1 DEF Run
<1>3. q \in p + 1 .. Len(s) + 1 /\ p < q
  BY <1>1, <1>2, SMT
<1>4. ASSUME NEW r \in q + 1 .. Len(s) + 1 PROVE ~ IsNumber(s, p, r)
  <2>1. r \in p .. Len(s) + 1
    BY <1>1, SMT
  <2>2. ~ Digits(s, p, r) /\ ~ IsFraction(s, p, r) /\ ~ IsPower(s, p, r)
    BY Undotted
  <2>3. ~ IsRadix(s, p, r, {"x", "X"}, Digit \cup HexLetter)
    BY <2>1, RadixStart
  <2>4. ~ IsRadix(s, p, r, {"b"}, BinDigit)
    BY <2>1, RadixStart
  <2> QED BY <2>2, <2>3, <2>4 DEF IsNumber
<1> QED BY <1>1, <1>3, <1>4 DEF NumberTo, IsNumber, Digits

\* The marks of a radix, and its digits.
Radices(M, C) ==
  \/ M = {"x", "X"} /\ C = Digit \cup HexLetter
  \/ M = {"b"} /\ C = BinDigit

\* 0x and 0b with the digits of their class behind them; the other class is another mark.
LEMMA RadixNumber ==
  ASSUME NEW s, IsText(s), NEW p \in 1 .. Len(s), s[p] = "0", NEW M, NEW C, Peek(s, p + 1) \in M, Radices(M, C),
         NEW q, Run(s, p + 2, q, C), q # p + 2
  PROVE  NumberTo(s, p, q)
<1>1. Len(s) \in Nat /\ q \in p + 2 .. Len(s) + 1 /\ AllIn(s, p + 2, q, C)
  BY DEF IsText, Run
<1> DEFINE c == Peek(s, p + 1)
<1>2. c \in {"x", "X"} \/ c = "b"
  BY DEF Radices
<1>3. c \notin Digit /\ c # "." /\ c # None /\ (c \in {"x", "X"} => c # "b")
  BY <1>2, RadixMarks
<1>4. p + 1 \in 1 .. Len(s) /\ s[p + 1] = c
  <2>1. p + 1 \in Nat /\ p + 1 > 0
    BY SMT
  <2> HIDE DEF c
  <2> QED BY <1>3, <2>1, PeekInside DEF c
<1> HIDE DEF c
<1>5. p + 2 < q /\ q \in p + 1 .. Len(s) + 1 /\ p + 1 \in p .. Len(s) + 1
  BY <1>1, <1>4, SMT
<1>6. Run(s, p, p + 1, Digit)
  <2>1. \A i \in p .. p + 1 - 1 : i = p
    BY SMT
  <2> QED BY <2>1, <1>3, <1>5, Marks DEF Run, AllIn, c
<1>7. IsRadix(s, p, q, M, C)
  BY <1>1, <1>4, <1>5 DEF IsRadix, c
<1>8. IsNumber(s, p, q)
  BY <1>7 DEF IsNumber, Radices
<1>9. ASSUME NEW r \in q + 1 .. Len(s) + 1 PROVE ~ IsNumber(s, p, r)
  <2>1. r \in p .. Len(s) + 1 /\ r \in p + 1 + 1 .. Len(s) + 1 /\ r \in p + 2 .. Len(s) + 1 /\ ~ (r <= q)
    BY <1>1, <1>5, SMT
  <2>2. ~ (Peek(s, p + 1) = "." /\ Peek(s, p + 1 + 1) \in Digit)
    BY <1>3 DEF c
  <2>3. ~ Digits(s, p, r) /\ ~ IsFraction(s, p, r) /\ ~ IsPower(s, p, r)
    BY <1>6, <2>1, <2>2, Undotted
  <2>4. ~ IsRadix(s, p, r, M, C)
    <3>1. p + 2 \in 1 .. Len(s) + 1
      BY <1>1, <1>4, SMT
    <3> QED BY <2>1, <3>1, RunEnds DEF IsRadix
  <2>5. CASE M = {"x", "X"} /\ C = Digit \cup HexLetter
    <3>1. ~ IsRadix(s, p, r, {"b"}, BinDigit)
      BY <1>3, <1>4, <2>1, <2>5, RadixStart DEF c
    <3> QED BY <2>3, <2>4, <2>5, <3>1 DEF IsNumber
  <2>6. CASE M = {"b"} /\ C = BinDigit
    <3>1. ~ IsRadix(s, p, r, {"x", "X"}, Digit \cup HexLetter)
      BY <1>3, <1>4, <2>1, <2>6, RadixStart DEF c
    <3> QED BY <2>3, <2>4, <2>6, <3>1 DEF IsNumber
  <2> QED BY <2>5, <2>6 DEF Radices
<1> QED BY <1>5, <1>8, <1>9 DEF NumberTo

\* With a point behind its first digits a number has no mark in second place.
LEMMA DottedNoRadix ==
  ASSUME NEW s, IsText(s), NEW p \in 1 .. Len(s), NEW q, Run(s, p, q, Digit), Peek(s, q) = ".",
         NEW r \in p .. Len(s) + 1, NEW M, NEW C, M = {"x", "X"} \/ M = {"b"}
  PROVE  ~ IsRadix(s, p, r, M, C)
<1>1. SUFFICES ASSUME IsRadix(s, p, r, M, C) PROVE FALSE
  OBVIOUS
<1>2. s[p] = "0" /\ Peek(s, p + 1) \in M /\ s[p + 1] \in M /\ p + 2 < r
  BY <1>1, RadixStart DEF IsRadix
<1>3. s[p + 1] \in {"x", "X"} \/ s[p + 1] = "b"
  BY <1>2
<1>4. s[p + 1] \notin Digit /\ s[p + 1] # "."
  BY <1>3, RadixMarks
<1>5. Len(s) \in Nat /\ p \in 1 .. Len(s) + 1 /\ p + 1 \in p .. Len(s) + 1 /\ p + 1 <= Len(s) /\ p + 1 \in Nat
  BY <1>2, SMT DEF IsText
<1>6. AllIn(s, p, p + 1, Digit)
  <2>1. \A i \in p .. p + 1 - 1 : i = p
    BY SMT
  <2> QED BY <2>1, <1>2, Marks DEF AllIn
<1>7. p + 1 = q
  BY <1>4, <1>5, <1>6, RunEnds
<1>8. Peek(s, q) = s[p + 1]
  BY <1>5, <1>7, PeekIs
<1> QED BY <1>4, <1>8

\* A fraction: its digits end at d, and no e is there.
LEMMA FractionNumber ==
  ASSUME NEW s, IsText(s), NEW p \in 1 .. Len(s), s[p] \in Digit, NEW q, Run(s, p, q, Digit),
         Peek(s, q) = ".", Peek(s, q + 1) \in Digit, NEW d, Run(s, q + 1, d, Digit)
  PROVE  /\ q \in p + 1 .. Len(s) /\ q + 1 \in 1 .. Len(s) + 1
         /\ d \in q + 2 .. Len(s) + 1 /\ IsFraction(s, p, d)
         /\ \A r \in d + 1 .. Len(s) + 1 : ~ Digits(s, p, r) /\ ~ IsFraction(s, p, r)
         /\ Peek(s, d) # "e" => NumberTo(s, p, d)
<1>1. Len(s) \in Nat /\ q \in p .. Len(s) + 1 /\ AllIn(s, p, q, Digit)
  BY DEF IsText, Run
<1>2. "." # None
  BY Zenon DEF None
<1>3. q \in Nat /\ q > 0 /\ q + 1 \in Nat /\ q + 1 > 0 /\ p \in Nat /\ p <= Len(s)
  BY <1>1, SMT
<1>4. q \in 1 .. Len(s) /\ s[q] = "." /\ q + 1 \in 1 .. Len(s) /\ s[q + 1] = Peek(s, q + 1)
  BY <1>2, <1>3, PeekInside, Marks
<1>5. p # q
  <2>1. Peek(s, p) = s[p]
    BY <1>3, PeekIs
  <2> QED BY <2>1 DEF Run
<1>6. q \in p + 1 .. Len(s) /\ q + 1 \in 1 .. Len(s) + 1 /\ p < q
  BY <1>1, <1>3, <1>4, <1>5, SMT
<1>7. d \in q + 1 .. Len(s) + 1 /\ AllIn(s, q + 1, d, Digit)
  BY DEF Run
<1>8. d # q + 1
  BY DEF Run
<1>9. d \in q + 2 .. Len(s) + 1 /\ q + 1 < d /\ q \in p .. d - 1 /\ d \in p + 1 .. Len(s) + 1
  BY <1>1, <1>6, <1>7, <1>8, SMT
<1>10. IsFraction(s, p, d)
  BY <1>1, <1>4, <1>6, <1>7, <1>9 DEF IsFraction, Digits
<1>11. ASSUME NEW r \in d + 1 .. Len(s) + 1 PROVE ~ Digits(s, p, r) /\ ~ IsFraction(s, p, r)
  <2>1. r \in p .. Len(s) + 1 /\ ~ (r <= q) /\ p \in 1 .. Len(s) + 1 /\ r \in q + 1 .. Len(s) + 1 /\ ~ (r <= d)
    BY <1>1, <1>6, <1>9, SMT
  <2>2. ~ Digits(s, p, r)
    BY <2>1, RunEnds DEF Digits
  <2>3. ASSUME IsFraction(s, p, r) PROVE FALSE
    <3>1. AllIn(s, q + 1, r, Digit)
      BY <2>1, <2>3, FractionParts DEF Digits
    <3> QED BY <1>6, <2>1, <3>1, RunEnds
  <2> QED BY <2>2, <2>3
<1>12. ASSUME Peek(s, d) # "e", NEW r \in d + 1 .. Len(s) + 1 PROVE ~ IsNumber(s, p, r)
  <2>1. r \in p .. Len(s) + 1 /\ d \in Nat /\ d <= Len(s)
    BY <1>1, <1>6, <1>9, SMT
  <2>2. ~ IsPower(s, p, r)
    <3>1. s[d] # "e"
      BY <1>12, <2>1, PeekIs
    <3> QED BY <2>1, <3>1, PowerParts
  <2>3. ~ IsRadix(s, p, r, {"x", "X"}, Digit \cup HexLetter) /\ ~ IsRadix(s, p, r, {"b"}, BinDigit)
    BY <2>1, DottedNoRadix
  <2> QED BY <1>11, <2>2, <2>3 DEF IsNumber
<1>13. Peek(s, d) # "e" => NumberTo(s, p, d)
  BY <1>9, <1>10, <1>12 DEF NumberTo, IsNumber
<1> QED BY <1>6, <1>9, <1>10, <1>11, <1>13

\* A power: its digits begin at g, behind the e at d and a sign if there is one.
LEMMA PowerNumber ==
  ASSUME NEW s, IsText(s), NEW p \in 1 .. Len(s), s[p] \in Digit, NEW q, Run(s, p, q, Digit),
         Peek(s, q) = ".", Peek(s, q + 1) \in Digit, NEW d, Run(s, q + 1, d, Digit), Peek(s, d) = "e",
         NEW g, g = (IF Peek(s, d + 1) \in {"+", "-"} THEN d + 2 ELSE d + 1), NEW e
  PROVE  g \in 1 .. Len(s) + 1 /\ (Run(s, g, e, Digit) /\ e # g => NumberTo(s, p, e))
<1>1. /\ q \in p + 1 .. Len(s) /\ d \in q + 2 .. Len(s) + 1 /\ IsFraction(s, p, d)
      /\ \A r \in d + 1 .. Len(s) + 1 : ~ Digits(s, p, r) /\ ~ IsFraction(s, p, r)
  BY FractionNumber
<1>2. "e" # None
  BY Zenon DEF None
<1>3. Len(s) \in Nat /\ d \in Nat /\ d > 0 /\ d + 1 \in Nat /\ d + 1 > 0
  BY <1>1, SMT DEF IsText
<1>4. d \in 1 .. Len(s) /\ s[d] = "e"
  BY <1>2, <1>3, PeekInside
<1>5. Peek(s, d + 1) \in {"+", "-"} => d + 1 \in 1 .. Len(s) /\ s[d + 1] \notin Digit
  <2>1. ASSUME Peek(s, d + 1) \in {"+", "-"} PROVE Peek(s, d + 1) \notin Digit /\ Peek(s, d + 1) # None
    BY <2>1, SignMarks
  <2> QED BY <1>3, <2>1, PeekInside
<1> DEFINE signed == Peek(s, d + 1) \in {"+", "-"}
<1>6. (signed => g = d + 2) /\ (~ signed => g = d + 1)
  OBVIOUS
<1>7. signed => d + 1 \in 1 .. Len(s) /\ s[d + 1] \notin Digit
  BY <1>5
<1> HIDE DEF signed
<1>8. g \in 1 .. Len(s) + 1 /\ g \in Nat /\ d < g
  BY <1>3, <1>4, <1>6, <1>7, SMT
<1>9. ASSUME Run(s, g, e, Digit), e # g PROVE NumberTo(s, p, e)
  <2>1. e \in g .. Len(s) + 1 /\ AllIn(s, g, e, Digit)
    BY <1>9 DEF Run
  <2>2. g < e /\ e \in p + 1 .. Len(s) + 1 /\ d \in p .. e - 1
    BY <1>1, <1>3, <1>8, <1>9, <2>1, SMT
  <2>3. Digits(s, g, e)
    BY <2>1, <2>2 DEF Digits
  <2>4. IsPower(s, p, e)
    BY <1>1, <1>4, <1>6, <2>2, <2>3 DEF IsPower, signed
  <2>5. ASSUME NEW r \in e + 1 .. Len(s) + 1 PROVE ~ IsNumber(s, p, r)
    <3>1. r \in p .. Len(s) + 1 /\ r \in d + 1 .. Len(s) + 1 /\ r \in g .. Len(s) + 1 /\ ~ (r <= e) /\ d + 1 < r
      BY <1>1, <1>3, <1>8, <2>1, <2>2, SMT
    <3>2. ~ Digits(s, p, r) /\ ~ IsFraction(s, p, r)
      BY <1>1, <3>1
    <3>3. ASSUME IsPower(s, p, r) PROVE FALSE
      <4>1. Digits(s, d + 1, r) \/ (signed /\ Digits(s, d + 2, r))
        BY <3>1, <3>3, PowerParts DEF signed
      <4>2. signed => ~ Digits(s, d + 1, r)
        <5>1. d + 1 \in d + 1 .. r - 1
          BY <1>3, <3>1, SMT
        <5> QED BY <1>7, <5>1 DEF Digits, AllIn
      <4>3. Digits(s, g, r)
        BY <4>1, <4>2, <1>6
      <4> QED BY <1>8, <1>9, <3>1, <4>3, RunEnds DEF Digits
    <3>4. ~ IsRadix(s, p, r, {"x", "X"}, Digit \cup HexLetter) /\ ~ IsRadix(s, p, r, {"b"}, BinDigit)
      BY <3>1, DottedNoRadix
    <3> QED BY <3>2, <3>3, <3>4 DEF IsNumber
  <2> QED BY <2>2, <2>4, <2>5 DEF NumberTo, IsNumber
<1> QED BY <1>8, <1>9
-----------------------------------------------------------------------------
(* What a token must be.                                                   *)

Unkept == {"eof", "directive", "hash"}
Kinds  == {"eof", "directive", "hash", "int", "float", "ident", "keyword", "punct", "string", "char"}

IsToken(t) == t = Token(t.kind, t.from, t.to) /\ t.kind \in Kinds

\* A lexeme of its kind, and the longest.
Best(s, t) ==
  t.kind \notin Unkept =>
    /\ Lexeme(t.kind, s, t.from, t.to)
    /\ t.kind \notin {"string", "char"} => \A q \in t.to + 1 .. Len(s) + 1 : ~ Lexeme(t.kind, s, t.from, q)

\* It begins where the gap ended and goes forward.
Placed(s, p, t) ==
  /\ IsToken(t) /\ t.from = p /\ t.to \in p .. Len(s) + 1
  /\ IF t.kind = "eof" THEN t.to = Len(s) + 1 ELSE p < t.to

Sound(s, p, t) == t.kind \in Errors \/ (Placed(s, p, t) /\ Best(s, t))

LEMMA TokenFields == ASSUME NEW k, NEW p, NEW q, NEW w
  PROVE  /\ Token(k, p, q).kind = k /\ Token(k, p, q).from = p /\ Token(k, p, q).to = q
         /\ Error(w, p).kind = w
         /\ k \in Kinds => IsToken(Token(k, p, q))
<1>1. Token(k, p, q).kind = k /\ Token(k, p, q).from = p /\ Token(k, p, q).to = q /\ Error(w, p).kind = w
  BY Zenon DEF Token, Error
<1> QED BY <1>1 DEF IsToken

LEMMA ErrorKinds ==
  /\ "UnterminatedBlockComment" \in Errors /\ "UnterminatedString" \in Errors /\ "UnterminatedChar" \in Errors
  /\ "EmptyChar" \in Errors /\ "InvalidEscape" \in Errors /\ "IntegerOverflow" \in Errors
  /\ "UnexpectedChar" \in Errors
BY Zenon DEF Errors

LEMMA KindsApart ==
  /\ "int" \notin Unkept /\ "float" \notin Unkept /\ "ident" \notin Unkept /\ "keyword" \notin Unkept
  /\ "punct" \notin Unkept
  /\ "char" \notin Unkept /\ "string" \notin Unkept /\ "eof" \in Unkept /\ "directive" \in Unkept /\ "hash" \in Unkept
  /\ "eof" \in Kinds /\ "directive" \in Kinds /\ "hash" \in Kinds /\ "int" \in Kinds /\ "float" \in Kinds
  /\ "ident" \in Kinds /\ "keyword" \in Kinds /\ "punct" \in Kinds /\ "string" \in Kinds /\ "char" \in Kinds
BY Zenon DEF Unkept, Kinds

LEMMA Lexemes == ASSUME NEW s, NEW p, NEW q
  PROVE  /\ Lexeme("int", s, p, q) <=> IsNumber(s, p, q)
         /\ Lexeme("float", s, p, q) <=> IsNumber(s, p, q)
         /\ Lexeme("ident", s, p, q) <=> IsWord(s, p, q)
         /\ Lexeme("keyword", s, p, q) <=> IsWord(s, p, q)
         /\ Lexeme("punct", s, p, q) <=> IsOperator(s, p, q)
         /\ Lexeme("string", s, p, q) <=> IsString(s, p, q)
         /\ Lexeme("char", s, p, q) <=> IsChar(s, p, q)
BY SMT DEF Lexeme

LEMMA NumberSound ==
  ASSUME NEW s, IsText(s), NEW p \in 1 .. Len(s), s[p] \in Digit
  PROVE  Sound(s, p, Number(s, p))
<1> DEFINE t == Number(s, p)
           Fine(u) == u.kind \in {"int", "float"} /\ u.from = p /\ NumberTo(s, p, u.to) /\ IsToken(u)
<1>1. Len(s) \in Nat /\ p \in 1 .. Len(s) + 1
  BY SMT DEF IsText
<1> DEFINE q == After(s, p, Digit)
<1>2. Run(s, p, q, Digit)
  BY <1>1, AfterIsRun, Marks
<1>3. ASSUME NEW M, NEW C, s[p] = "0", Peek(s, p + 1) \in M,
             Radices(M, C)
      PROVE  Radix(s, p, C).kind \in Errors \/ Fine(Radix(s, p, C))
  <2> DEFINE r == After(s, p + 2, C)
  <2>1. Peek(s, p + 1) # None
    BY <1>3, RadixMarks DEF Radices
  <2>2. p + 1 \in Nat /\ p + 1 > 0
    BY SMT
  <2>3. p + 1 \in 1 .. Len(s)
    BY <2>1, <2>2, PeekInside
  <2>4. p + 2 \in 1 .. Len(s) + 1
    BY <1>1, <2>3, SMT
  <2>5. Run(s, p + 2, r, C)
    BY <2>4, <1>3, AfterIsRun, Marks DEF Radices
  <2>6. r # p + 2 => NumberTo(s, p, r)
    BY <2>5, <1>3, RadixNumber
  <2>7. Radix(s, p, C) = IF r = p + 2 THEN Error("IntegerOverflow", p) ELSE Token("int", p, r)
    BY DEF Radix
  <2> HIDE DEF r
  <2>8. CASE r = p + 2
    BY <2>7, <2>8, TokenFields, ErrorKinds
  <2>9. CASE r # p + 2
    BY <2>6, <2>7, <2>9, TokenFields, KindsApart
  <2> QED BY <2>8, <2>9
<1>4. ASSUME Peek(s, q) = ".", Peek(s, q + 1) \in Digit
      PROVE  Fraction(s, p, q).kind \in Errors \/ Fine(Fraction(s, p, q))
  <2> DEFINE d == After(s, q + 1, Digit)
             g == IF Peek(s, d + 1) \in {"+", "-"} THEN d + 2 ELSE d + 1
             e == After(s, g, Digit)
  <2>1. q + 1 \in 1 .. Len(s) + 1
    <3>1. q \in p .. Len(s) + 1 /\ q \in Nat /\ q > 0
      BY <1>1, <1>2, SMT DEF Run
    <3>2. Peek(s, q) # None
      BY <1>4, Zenon DEF None
    <3>3. q \in 1 .. Len(s)
      BY <3>1, <3>2, PeekInside
    <3> HIDE DEF q
    <3> QED BY <3>3, <1>1, SMT
  <2>2. Run(s, q + 1, d, Digit)
    BY <2>1, AfterIsRun, Marks
  <2>3. Peek(s, d) # "e" => NumberTo(s, p, d)
    BY <1>2, <1>4, <2>2, FractionNumber
  <2> HIDE DEF q, d, e
  <2>4. ASSUME Peek(s, d) = "e" PROVE e # g => NumberTo(s, p, e)
    <3>1. g \in 1 .. Len(s) + 1 /\ (Run(s, g, e, Digit) /\ e # g => NumberTo(s, p, e))
      BY <1>2, <1>4, <2>2, <2>4, PowerNumber
    <3>2. Run(s, g, e, Digit)
      BY <3>1, AfterIsRun, Marks DEF e
    <3> QED BY <3>1, <3>2
  <2>5. Fraction(s, p, q) = IF Peek(s, d) # "e" THEN Token("float", p, d)
                            ELSE IF e = g THEN Error("IntegerOverflow", p) ELSE Token("float", p, e)
    BY DEF Fraction, d, e
  <2> HIDE DEF g
  <2>6. CASE Peek(s, d) # "e"
    BY <2>3, <2>5, <2>6, TokenFields, KindsApart
  <2>7. CASE Peek(s, d) = "e" /\ e = g
    BY <2>5, <2>7, TokenFields, ErrorKinds
  <2>8. CASE Peek(s, d) = "e" /\ e # g
    BY <2>4, <2>5, <2>8, TokenFields, KindsApart
  <2> QED BY <2>6, <2>7, <2>8
<1> DEFINE hex == s[p] = "0" /\ Peek(s, p + 1) \in {"x", "X"}
           bin == s[p] = "0" /\ Peek(s, p + 1) = "b"
           dot == Peek(s, q) = "." /\ Peek(s, q + 1) \in Digit
<1>5. hex => Radix(s, p, Digit \cup HexLetter).kind \in Errors \/ Fine(Radix(s, p, Digit \cup HexLetter))
  <2> DEFINE M == {"x", "X"}
             C == Digit \cup HexLetter
  <2>1. Radices(M, C) /\ C = Digit \cup HexLetter
    BY DEF Radices
  <2>2. hex => s[p] = "0" /\ Peek(s, p + 1) \in M
    OBVIOUS
  <2> HIDE DEF M, C, hex, Fine
  <2>3. hex => Radix(s, p, C).kind \in Errors \/ Fine(Radix(s, p, C))
    BY <2>1, <2>2, <1>3
  <2> QED BY <2>1, <2>3
<1>6. bin => Radix(s, p, BinDigit).kind \in Errors \/ Fine(Radix(s, p, BinDigit))
  <2> DEFINE M == {"b"}
             C == BinDigit
  <2>1. Radices(M, C) /\ C = BinDigit
    BY DEF Radices
  <2>2. bin => s[p] = "0" /\ Peek(s, p + 1) \in M
    OBVIOUS
  <2> HIDE DEF M, C, bin, Fine
  <2>3. bin => Radix(s, p, C).kind \in Errors \/ Fine(Radix(s, p, C))
    BY <2>1, <2>2, <1>3
  <2> QED BY <2>1, <2>3
<1>7. dot => Fraction(s, p, q).kind \in Errors \/ Fine(Fraction(s, p, q))
  BY <1>4
<1>8. ~ hex /\ ~ bin /\ ~ dot => Fine(Token("int", p, q))
  BY <1>2, PlainNumber, TokenFields, KindsApart
<1>9. t = CASE hex -> Radix(s, p, Digit \cup HexLetter)
            [] bin -> Radix(s, p, BinDigit)
            [] dot -> Fraction(s, p, q)
            [] OTHER -> Token("int", p, q)
  BY DEF Number
<1>10. t.kind \in Errors \/ Fine(t)
  <2> HIDE DEF hex, bin, dot, Fine, t, q
  <2> QED BY <1>5, <1>6, <1>7, <1>8, <1>9
<1>11. ASSUME Fine(t) PROVE Placed(s, p, t) /\ Best(s, t)
  <2> HIDE DEF t
  <2>1. t.to \in p + 1 .. Len(s) + 1 /\ t.kind # "eof" /\ t.kind \in {"int", "float"}
    BY <1>11, KindsApart DEF NumberTo
  <2>2. Placed(s, p, t)
    BY <1>1, <1>11, <2>1, SMT DEF Placed
  <2>3. Best(s, t)
    BY <1>11, <2>1, Lexemes DEF Best, NumberTo
  <2> QED BY <2>2, <2>3
<1> QED BY <1>10, <1>11 DEF Sound
-----------------------------------------------------------------------------
(* Words and directives.                                                   *)

LEMMA WordMarks == None \notin WordChar /\ Letter \subseteq WordChar /\ None \notin {" "} /\ Digit \subseteq WordChar
<1>1. None \notin WordChar
  BY Zenon DEF None, WordChar, Letter, HexLetter, Digit
<1> QED BY <1>1, Zenon DEF WordChar, None

LEMMA IdentifierSound ==
  ASSUME NEW s, IsText(s), NEW p \in 1 .. Len(s), s[p] \in Letter
  PROVE  Sound(s, p, Identifier(s, p))
<1> DEFINE q == After(s, p, WordChar)
           t == Identifier(s, p)
<1>1. Len(s) \in Nat /\ p \in 1 .. Len(s) + 1 /\ p \in Nat /\ p <= Len(s)
  BY SMT DEF IsText
<1>2. Run(s, p, q, WordChar)
  BY <1>1, AfterIsRun, WordMarks
<1> HIDE DEF q
<1>3. q \in p .. Len(s) + 1 /\ AllIn(s, p, q, WordChar) /\ Peek(s, q) \notin WordChar
  BY <1>2 DEF Run
<1>4. p # q
  BY <1>1, <1>3, PeekIs, WordMarks
<1>5. p < q /\ q \in p + 1 .. Len(s) + 1
  BY <1>1, <1>3, <1>4, SMT
<1>6. IsWord(s, p, q)
  BY <1>3, <1>5 DEF IsWord
<1>7. ASSUME NEW r \in q + 1 .. Len(s) + 1 PROVE ~ IsWord(s, p, r)
  <2>1. r \in p .. Len(s) + 1 /\ ~ (r <= q)
    BY <1>1, <1>3, SMT
  <2> QED BY <1>1, <1>2, <2>1, RunEnds DEF IsWord
<1>8. (t = Token("keyword", p, q) \/ t = Token("ident", p, q))
  BY DEF Identifier, q
<1>9. (t.kind = "keyword" \/ t.kind = "ident") /\ t.from = p /\ t.to = q /\ IsToken(t)
  BY <1>8, TokenFields, KindsApart
<1> HIDE DEF t
<1>10. t.kind # "eof"
  BY <1>9, KindsApart
<1>11. Best(s, t)
  BY <1>6, <1>7, <1>9, Lexemes DEF Best
<1> QED BY <1>3, <1>5, <1>9, <1>10, <1>11 DEF Sound, Placed, t

LEMMA DirectiveSound ==
  ASSUME NEW s, IsText(s), NEW p \in 1 .. Len(s)
  PROVE  Sound(s, p, Directive(s, p))
<1> DEFINE w == After(s, p + 1, {" "})
           q == After(s, w, WordChar)
           t == Directive(s, p)
<1>1. Len(s) \in Nat /\ p \in Nat /\ p + 1 \in 1 .. Len(s) + 1
  BY SMT DEF IsText
<1>2. Run(s, p + 1, w, {" "})
  BY <1>1, AfterIsRun, WordMarks
<1>3. w \in p + 1 .. Len(s) + 1 /\ w \in 1 .. Len(s) + 1
  <2>1. w \in p + 1 .. Len(s) + 1
    BY <1>2 DEF Run
  <2> HIDE DEF w
  <2> QED BY <1>1, <2>1, SMT
<1>4. Run(s, w, q, WordChar)
  BY <1>3, AfterIsRun, WordMarks
<1>5. t = Token("directive", p, q) \/ t = Token("hash", p, q)
  BY DEF Directive
<1> HIDE DEF q, w, t
<1>6. q \in p .. Len(s) + 1 /\ p < q
  BY <1>1, <1>3, <1>4, SMT DEF Run
<1>7. (t.kind = "directive" \/ t.kind = "hash") /\ t.from = p /\ t.to = q /\ IsToken(t)
  BY <1>5, TokenFields, KindsApart
<1>8. t.kind # "eof" /\ t.kind \in Unkept
  BY <1>7, KindsApart
<1> QED BY <1>6, <1>7, <1>8 DEF Sound, Placed, Best, t
-----------------------------------------------------------------------------
(* Operators.                                                              *)

LEMMA SingleFollow == ASSUME NEW c \in Single, NEW d PROVE d \in Follow(c) <=> IsPair(c, d)
<1>1. Follow(c) = {}
  BY Zenon DEF Follow, Single
<1>2. /\ c # "-" /\ c \notin {"+", "-", "&", "|", "<", ">"}
      /\ c \notin {"^", "%", "!", "=", "*", "/", "+", "-", "&", "|", "<", ">"}
  BY Zenon DEF Single
<1>3. ~ IsPair(c, d)
  BY <1>2, Zenon DEF IsPair
<1> QED BY <1>1, <1>3

LEMMA EqualFollow == ASSUME NEW c \in {"^", "%", "!", "=", "*", "/"}, NEW d PROVE d \in Follow(c) <=> IsPair(c, d)
<1>1. Follow(c) = {"="}
  BY Zenon DEF Follow, Single
<1>2. /\ c # "-" /\ c \notin {"+", "-", "&", "|", "<", ">"}
      /\ c \in {"^", "%", "!", "=", "*", "/", "+", "-", "&", "|", "<", ">"}
  BY Zenon
<1>3. IsPair(c, d) <=> d = "="
  BY <1>2, Zenon DEF IsPair
<1> QED BY <1>1, <1>3, Zenon

LEMMA DoubleFollow == ASSUME NEW c \in {"+", "&", "|", "<", ">"}, NEW d PROVE d \in Follow(c) <=> IsPair(c, d)
<1>1. Follow(c) = {c, "="}
  BY Zenon DEF Follow, Single
<1>2. /\ c # "-" /\ c \in {"+", "-", "&", "|", "<", ">"}
      /\ c \in {"^", "%", "!", "=", "*", "/", "+", "-", "&", "|", "<", ">"}
  BY Zenon
<1>3. IsPair(c, d) <=> d = "=" \/ d = c
  BY <1>2, Zenon DEF IsPair
<1> QED BY <1>1, <1>3, Zenon

LEMMA MinusFollow == ASSUME NEW d PROVE d \in Follow("-") <=> IsPair("-", d)
<1>1. Follow("-") = {"-", "=", ">"}
  BY Zenon DEF Follow, Single
<1>2. IsPair("-", d) <=> d = "=" \/ d = "-" \/ d = ">"
  BY Zenon DEF IsPair
<1> QED BY <1>1, <1>2, Zenon

LEMMA FollowIsPair == ASSUME NEW c \in Operator, NEW d PROVE d \in Follow(c) <=> IsPair(c, d)
<1>1. c \in Single \/ c \in {"^", "%", "!", "=", "*", "/"} \/ c \in {"+", "&", "|", "<", ">"} \/ c = "-"
  BY Zenon DEF Operator
<1> QED BY <1>1, SingleFollow, EqualFollow, DoubleFollow, MinusFollow

LEMMA PairMarks == ASSUME NEW c \in Operator, NEW d, d \in Follow(c) PROVE d # None
<1>1. IsPair(c, d)
  BY FollowIsPair
<1>2. d = "=" \/ d \in {"+", "-", "&", "|", "<", ">"} \/ d = ">"
  BY <1>1, Zenon DEF IsPair
<1> QED BY <1>2, Zenon DEF None

LEMMA PunctuationSound ==
  ASSUME NEW s, IsText(s), NEW p \in 1 .. Len(s)
  PROVE  Sound(s, p, Punctuation(s, p))
<1> DEFINE c == s[p]
           d == Peek(s, p + 1)
           t == Punctuation(s, p)
           shifted == c \in {"<", ">"} /\ c = d /\ Peek(s, p + 2) = "="
<1>1. Len(s) \in Nat /\ p \in Nat /\ p + 1 \in Nat /\ p + 1 > 0 /\ p + 2 \in Nat /\ p + 2 > 0
  BY SMT DEF IsText
<1>2. t = IF c \notin Operator THEN Error("UnexpectedChar", p)
          ELSE Token("punct", p, IF d \notin Follow(c) THEN p + 1 ELSE IF shifted THEN p + 3 ELSE p + 2)
  BY DEF Punctuation
<1>3. \/ t.kind \in Errors
      \/ c \in Operator /\ d \notin Follow(c) /\ t = Token("punct", p, p + 1)
      \/ c \in Operator /\ d \in Follow(c) /\ shifted /\ t = Token("punct", p, p + 3)
      \/ c \in Operator /\ d \in Follow(c) /\ ~ shifted /\ t = Token("punct", p, p + 2)
  <2> HIDE DEF c, d, t, shifted
  <2>1. c \notin Operator => t.kind \in Errors
    BY <1>2, TokenFields, ErrorKinds
  <2> QED BY <1>2, <2>1
<1> DEFINE Takes(q) == /\ q \in p + 1 .. Len(s) + 1 /\ IsOperator(s, p, q)
                       /\ \A r \in q + 1 .. Len(s) + 1 : ~ IsOperator(s, p, r)
<1>4. c \in Operator /\ d \in Follow(c) => p + 1 \in 1 .. Len(s) /\ d = s[p + 1] /\ IsPair(c, d)
  BY <1>1, PairMarks, PeekInside, FollowIsPair
<1>5. shifted => p + 2 \in 1 .. Len(s) /\ s[p + 2] = "="
  <2>1. "=" # None
    BY Zenon DEF None
  <2> QED BY <1>1, <2>1, PeekInside
<1>6. p + 1 \in p + 1 .. Len(s) + 1
  BY <1>1, SMT
<1>7. ASSUME c \in Operator, d \notin Follow(c) PROVE Takes(p + 1)
  <2>1. IsOperator(s, p, p + 1)
    BY <1>7 DEF IsOperator
  <2>2. ASSUME NEW r \in p + 1 + 1 .. Len(s) + 1, IsOperator(s, p, r) PROVE FALSE
    <3>1. r # p + 1 /\ p + 1 <= Len(s)
      BY <1>1, <2>2, SMT
    <3>2. d = s[p + 1]
      BY <1>1, <3>1, PeekIs
    <3>3. ~ IsPair(c, d)
      BY <1>7, FollowIsPair
    <3>4. IsPair(c, s[p + 1]) \/ (c \in {"<", ">"} /\ s[p + 1] = c)
      BY <2>2, <3>1, Zenon DEF IsOperator
    <3>5. c \in {"<", ">"} => IsPair(c, c)
      BY Zenon DEF IsPair
    <3> HIDE DEF c, d
    <3> QED BY <3>2, <3>3, <3>4, <3>5
  <2> QED BY <1>6, <2>1, <2>2
<1>8. ASSUME c \in Operator, d \in Follow(c), shifted PROVE Takes(p + 3)
  <2>1. s[p + 1] = c /\ s[p + 2] = "=" /\ c \in {"<", ">"} /\ p + 2 <= Len(s)
    BY <1>4, <1>5, <1>8, SMT
  <2>2. p + 3 \in p + 1 .. Len(s) + 1
    BY <1>1, <2>1, SMT
  <2>3. IsOperator(s, p, p + 3)
    BY <2>1, Zenon DEF IsOperator
  <2>4. ASSUME NEW r \in p + 3 + 1 .. Len(s) + 1 PROVE ~ IsOperator(s, p, r)
    <3>1. r # p + 1 /\ r # p + 2 /\ r # p + 3
      BY <1>1, SMT
    <3> QED BY <3>1 DEF IsOperator
  <2> QED BY <2>2, <2>3, <2>4
<1>9. ASSUME c \in Operator, d \in Follow(c), ~ shifted PROVE Takes(p + 2)
  <2>1. s[p + 1] = d /\ IsPair(c, d) /\ p + 1 <= Len(s)
    BY <1>4, <1>9, SMT
  <2>2. p + 2 \in p + 1 .. Len(s) + 1
    BY <1>1, <2>1, SMT
  <2>3. IsOperator(s, p, p + 2)
    BY <2>1 DEF IsOperator
  <2>4. ASSUME NEW r \in p + 2 + 1 .. Len(s) + 1, IsOperator(s, p, r) PROVE FALSE
    <3>1. r # p + 1 /\ r # p + 2 /\ p + 2 <= Len(s)
      BY <1>1, SMT
    <3>2. c \in {"<", ">"} /\ s[p + 1] = c /\ s[p + 2] = "="
      BY <2>4, <3>1, Zenon DEF IsOperator
    <3>3. Peek(s, p + 2) = s[p + 2]
      BY <1>1, <3>1, PeekIs
    <3> HIDE DEF c, d
    <3> QED BY <1>9, <2>1, <3>2, <3>3
  <2> QED BY <2>2, <2>3, <2>4
<1>10. t.kind \in Errors \/ (IsToken(t) /\ t.kind = "punct" /\ t.from = p /\ Takes(t.to))
  <2> HIDE DEF c, d, t, shifted, Takes
  <2>1. Token("punct", p, p + 1).to = p + 1 /\ Token("punct", p, p + 2).to = p + 2 /\ Token("punct", p, p + 3).to = p + 3
    BY TokenFields
  <2>2. \A q : IsToken(Token("punct", p, q)) /\ Token("punct", p, q).kind = "punct" /\ Token("punct", p, q).from = p
    BY TokenFields, KindsApart
  <2> QED BY <1>3, <1>7, <1>8, <1>9, <2>1, <2>2
<1>11. ASSUME IsToken(t), t.kind = "punct", t.from = p, Takes(t.to) PROVE Placed(s, p, t) /\ Best(s, t)
  <2> HIDE DEF t
  <2>1. Placed(s, p, t)
    <3>1. t.kind # "eof" /\ t.to \in p + 1 .. Len(s) + 1
      BY <1>11, KindsApart
    <3>2. p < t.to /\ t.to \in p .. Len(s) + 1
      BY <1>1, <3>1, SMT
    <3> QED BY <1>11, <3>1, <3>2 DEF Placed
  <2>2. Best(s, t)
    BY <1>11, Lexemes DEF Best
  <2> QED BY <2>1, <2>2
<1> QED BY <1>10, <1>11 DEF Sound
-----------------------------------------------------------------------------
(* Escapes: behind a character that is no backslash the next one counts,   *)
(* and of backslashes in a row every other one.                            *)

LEMMA ActiveBehindPlain ==
  ASSUME NEW s, NEW p \in Nat, NEW i \in Nat, p <= i, s[i] # Backslash
  PROVE  Active(s, p, i + 1)
<1>1. i \in p .. i + 1 - 1 /\ (i + 1 - i) % 2 = 1 /\ \A k \in i + 1 .. i + 1 - 1 : s[k] = Backslash
  BY SMT
<1> QED BY <1>1 DEF Active

LEMMA InactiveBehindEscape ==
  ASSUME NEW s, NEW p \in Nat, NEW i \in Nat, s[i] = Backslash, Active(s, p, i)
  PROVE  ~ Active(s, p, i + 1)
<1>1. SUFFICES ASSUME Active(s, p, i + 1) PROVE FALSE
  OBVIOUS
<1>2. PICK j \in p .. i - 1 : s[j] # Backslash /\ (i - j) % 2 = 1 /\ \A k \in j + 1 .. i - 1 : s[k] = Backslash
  BY DEF Active
<1>3. PICK l \in p .. i + 1 - 1 :
        s[l] # Backslash /\ (i + 1 - l) % 2 = 1 /\ \A k \in l + 1 .. i + 1 - 1 : s[k] = Backslash
  BY <1>1 DEF Active
<1>4. l # i
  BY <1>3
<1>5. ~ (j \in l + 1 .. i + 1 - 1) /\ ~ (l \in j + 1 .. i - 1)
  BY <1>2, <1>3
<1>6. j = l
  BY <1>4, <1>5, SMT
<1> QED BY <1>2, <1>3, <1>6, SMT

LEMMA ActiveBehindTwo ==
  ASSUME NEW s, NEW p \in Nat, NEW i \in Nat, s[i] = Backslash, s[i + 1] = Backslash, Active(s, p, i)
  PROVE  Active(s, p, i + 2)
<1>1. PICK j \in p .. i - 1 : s[j] # Backslash /\ (i - j) % 2 = 1 /\ \A k \in j + 1 .. i - 1 : s[k] = Backslash
  BY DEF Active
<1>2. j \in p .. i + 2 - 1 /\ (i + 2 - j) % 2 = 1
  BY <1>1, SMT
<1>3. ASSUME NEW k \in j + 1 .. i + 2 - 1 PROVE s[k] = Backslash
  <2>1. k \in j + 1 .. i - 1 \/ k = i \/ k = i + 1
    BY SMT
  <2> QED BY <1>1, <2>1
<1> QED BY <1>1, <1>2, <1>3 DEF Active

LEMMA QuoteMarks ==
  /\ "'" # None /\ "'" # Backslash /\ DoubleQuote # None /\ DoubleQuote # Backslash /\ "\n" # Backslash
  /\ Backslash # None /\ None \notin Escapes /\ "\n" \notin Escapes
BY Zenon DEF None, Backslash, DoubleQuote, Escapes

\* The contents of a literal opened at p, up to q: no line ends in it, and what is a
\* quote or an escape of its own is where it may be.
Contents(s, p, q, c) ==
  \A i \in p + 1 .. q - 1 :
    /\ s[i] # "\n" /\ (s[i] = c => ~ Active(s, p, i))
    /\ s[i] = Backslash /\ Active(s, p, i) => s[i + 1] \in Escapes

LEMMA PlainContents ==
  ASSUME NEW s, NEW p \in Nat, NEW q \in Nat, p < q, NEW c, Contents(s, p, q, c),
         s[q] \notin {"\n", c, Backslash}
  PROVE  Contents(s, p, q + 1, c) /\ Active(s, p, q + 1)
<1>1. \A i \in p + 1 .. q + 1 - 1 : i \in p + 1 .. q - 1 \/ i = q
  BY SMT
<1>2. Active(s, p, q + 1)
  BY ActiveBehindPlain
<1> QED BY <1>1, <1>2 DEF Contents

LEMMA EscapeContents ==
  ASSUME NEW s, NEW p \in Nat, NEW q \in Nat, p < q, NEW c, c # Backslash, Contents(s, p, q, c), Active(s, p, q),
         s[q] = Backslash, s[q + 1] \in Escapes
  PROVE  Contents(s, p, q + 2, c) /\ Active(s, p, q + 2)
<1>1. \A i \in p + 1 .. q + 2 - 1 : i \in p + 1 .. q - 1 \/ i = q \/ i = q + 1
  BY SMT
<1>2. ~ Active(s, p, q + 1)
  BY InactiveBehindEscape
<1>3. Active(s, p, q + 2)
  <2>1. CASE s[q + 1] = Backslash
    BY <2>1, ActiveBehindTwo
  <2>2. CASE s[q + 1] # Backslash
    <3>1. q + 1 \in Nat /\ p <= q + 1 /\ q + 1 + 1 = q + 2
      BY SMT
    <3>2. Active(s, p, q + 1 + 1)
      BY <2>2, <3>1, ActiveBehindPlain
    <3> QED BY <3>1, <3>2
  <2> QED BY <2>1, <2>2
<1>4. Backslash # "\n" /\ s[q + 1] # "\n"
  BY QuoteMarks
<1>5. Contents(s, p, q + 2, c)
  <2> SUFFICES ASSUME NEW i \in p + 1 .. q + 2 - 1
      PROVE  /\ s[i] # "\n" /\ (s[i] = c => ~ Active(s, p, i))
             /\ s[i] = Backslash /\ Active(s, p, i) => s[i + 1] \in Escapes
    BY DEF Contents
  <2>1. CASE i \in p + 1 .. q - 1
    BY <2>1 DEF Contents
  <2>2. CASE i = q
    BY <2>2, <1>4
  <2>3. CASE i = q + 1
    BY <2>3, <1>2, <1>4
  <2> QED BY <1>1, <2>1, <2>2, <2>3
<1> QED BY <1>3, <1>5

\* An opening quote, and a closing one.
LEMMA OpensContents ==
  ASSUME NEW s, NEW p \in Nat, NEW c, s[p] # Backslash
  PROVE  Contents(s, p, p + 1, c) /\ Active(s, p, p + 1)
<1>1. \A i \in p + 1 .. p + 1 - 1 : FALSE
  BY SMT
<1> QED BY <1>1, ActiveBehindPlain DEF Contents

LEMMA ClosesContents ==
  ASSUME NEW s, NEW p \in Nat, NEW q \in Nat, p < q, NEW c, Contents(s, p, q, c), Active(s, p, q), s[p] = c, s[q] = c
  PROVE  IsQuoted(s, p, q + 1, c)
<1>1. p + 1 < q + 1 /\ q + 1 - 1 = q /\ q + 1 - 2 = q - 1
  BY SMT
<1> QED BY <1>1 DEF IsQuoted, Contents

LEMMA CharLitSound ==
  ASSUME NEW s, IsText(s), NEW p \in 1 .. Len(s), s[p] = "'"
  PROVE  Sound(s, p, CharLit(s, p))
<1> DEFINE c == Peek(s, p + 1)
           next == IF c = Backslash THEN p + 3 ELSE p + 2
           t == CharLit(s, p)
           bad == c = Backslash /\ Peek(s, p + 2) \notin Escapes
           closed == IF Peek(s, next) = "'" THEN Token("char", p, next + 1) ELSE Error("UnterminatedChar", p)
<1>1. /\ Len(s) \in Nat /\ p \in Nat /\ p + 1 \in Nat /\ p + 1 > 0 /\ p + 2 \in Nat /\ p + 2 > 0
      /\ p + 3 \in Nat /\ p + 3 > 0 /\ p < p + 1 /\ p < p + 2 /\ p < p + 3
  BY SMT DEF IsText
<1>2. t = CASE c \in {None, "\n"} -> Error("UnterminatedChar", p)
            [] c = "'" -> Error("EmptyChar", p)
            [] bad -> Error(BadEscape(s, p + 2), p)
            [] OTHER -> closed
  BY DEF CharLit
<1>3. BadEscape(s, p + 2) \in Errors
  BY ErrorKinds DEF BadEscape
<1>4. t.kind \in Errors \/ (c \notin {None, "\n"} /\ c # "'" /\ ~ bad /\ t = closed)
  <2> HIDE DEF c, bad, closed, t
  <2> QED BY <1>2, <1>3, TokenFields, ErrorKinds
<1>5. t.kind \in Errors \/ (c \notin {None, "\n"} /\ c # "'" /\ ~ bad /\ Peek(s, next) = "'" /\ t = Token("char", p, next + 1))
  <2> HIDE DEF c, bad, t, next
  <2> QED BY <1>4, TokenFields, ErrorKinds
<1>6. Contents(s, p, p + 1, "'") /\ Active(s, p, p + 1)
  BY <1>1, OpensContents, QuoteMarks
<1>7. ASSUME c \notin {None, "\n"}, c # "'", ~ bad, Peek(s, next) = "'"
      PROVE  next + 1 \in p + 1 .. Len(s) + 1 /\ IsChar(s, p, next + 1)
  <2>1. p + 1 <= Len(s) /\ s[p + 1] = c
    BY <1>1, <1>7, PeekInside, SMT
  <2>2. CASE c = Backslash
    <3>1. next = p + 3 /\ Peek(s, p + 3) = "'" /\ Peek(s, p + 2) \in Escapes /\ p + 3 = p + 1 + 2 /\ p + 2 = p + 1 + 1
      BY <1>7, <2>2, SMT
    <3>2. p + 3 \in 1 .. Len(s) /\ s[p + 3] = "'" /\ s[p + 2] \in Escapes
      BY <1>1, <3>1, PeekInside, QuoteMarks
    <3>3. s[p + 1 + 1] \in Escapes
      BY <3>1, <3>2
    <3>4. Contents(s, p, p + 1 + 2, "'") /\ Active(s, p, p + 1 + 2)
      BY <1>1, <1>6, <2>1, <2>2, <3>3, EscapeContents, QuoteMarks
    <3>5. IsQuoted(s, p, p + 3 + 1, "'")
      BY <1>1, <3>1, <3>2, <3>4, ClosesContents
    <3>6. p + 3 + 1 \in p + 1 .. Len(s) + 1 /\ p + 3 + 1 - p = 4
      BY <1>1, <3>2, SMT
    <3> HIDE DEF next, c
    <3> QED BY <2>1, <2>2, <3>1, <3>5, <3>6 DEF IsChar
  <2>3. CASE c # Backslash
    <3>1. next = p + 2 /\ Peek(s, p + 2) = "'" /\ p + 2 = p + 1 + 1
      BY <1>7, <2>3, SMT
    <3>2. p + 2 \in 1 .. Len(s) /\ s[p + 2] = "'"
      BY <1>1, <3>1, PeekInside, QuoteMarks
    <3>3. s[p + 1] \notin {"\n", "'", Backslash}
      <4> HIDE DEF c
      <4> QED BY <1>7, <2>1, <2>3
    <3>4. Contents(s, p, p + 1 + 1, "'") /\ Active(s, p, p + 1 + 1)
      BY <1>1, <1>6, <3>3, PlainContents
    <3>5. IsQuoted(s, p, p + 2 + 1, "'")
      BY <1>1, <3>1, <3>2, <3>4, ClosesContents
    <3>6. p + 2 + 1 \in p + 1 .. Len(s) + 1 /\ p + 2 + 1 - p = 3
      BY <1>1, <3>2, SMT
    <3> HIDE DEF next, c
    <3> QED BY <2>1, <2>3, <3>1, <3>5, <3>6 DEF IsChar
  <2> QED BY <2>2, <2>3
<1>8. t.kind \in Errors \/ (IsToken(t) /\ t.kind = "char" /\ t.from = p /\ t.to \in p + 1 .. Len(s) + 1 /\ IsChar(s, p, t.to))
  <2> HIDE DEF c, bad, t, next
  <2> QED BY <1>5, <1>7, TokenFields, KindsApart
<1>9. ASSUME IsToken(t), t.kind = "char", t.from = p, t.to \in p + 1 .. Len(s) + 1, IsChar(s, p, t.to)
      PROVE  Placed(s, p, t) /\ Best(s, t)
  <2> HIDE DEF t
  <2>1. p < t.to /\ t.to \in p .. Len(s) + 1
    BY <1>1, <1>9, SMT
  <2> QED BY <1>9, <2>1, KindsApart, Lexemes DEF Placed, Best
<1> QED BY <1>8, <1>9 DEF Sound

LEMMA TokenAtSound ==
  ASSUME NEW s, IsText(s), NEW p \in 1 .. Len(s) + 1
  PROVE  Sound(s, p, TokenAt(s, p))
<1> DEFINE c == Peek(s, p)
           t == TokenAt(s, p)
<1>1. Len(s) \in Nat /\ p \in Nat /\ p > 0
  BY SMT DEF IsText
<1>2. c # None => p \in 1 .. Len(s) /\ c = s[p]
  BY <1>1, PeekInside
<1>3. ASSUME c = None PROVE Sound(s, p, Token("eof", p, p))
  <2> DEFINE u == Token("eof", p, p)
  <2>1. p = Len(s) + 1
    <3>1. ~ (p <= Len(s))
      BY <1>1, <1>3, PeekIs, SMT DEF IsText
    <3> QED BY <1>1, <3>1, SMT
  <2>2. u.kind = "eof" /\ u.from = p /\ u.to = p /\ IsToken(u) /\ u.kind \in Unkept
    BY TokenFields, KindsApart
  <2>3. p \in p .. Len(s) + 1
    BY <1>1, <2>1, SMT
  <2> HIDE DEF u
  <2>4. Sound(s, p, u)
    BY <2>1, <2>2, <2>3 DEF Sound, Placed, Best
  <2> QED BY <2>4 DEF u
<1>4. c = "#" => Sound(s, p, Directive(s, p))
  <2>1. "#" # None
    BY Zenon DEF None
  <2> QED BY <1>2, <2>1, DirectiveSound
<1>5. c = "'" => Sound(s, p, CharLit(s, p))
  BY <1>2, CharLitSound, QuoteMarks
<1>6. c \in Digit => Sound(s, p, Number(s, p))
  BY <1>2, NumberSound, Marks
<1>7. c \in Letter => Sound(s, p, Identifier(s, p))
  BY <1>2, IdentifierSound, WordMarks
<1>8. c # None => Sound(s, p, Punctuation(s, p))
  BY <1>2, PunctuationSound
<1>9. t = CASE c = None -> Token("eof", p, p)
            [] c = "#" -> Directive(s, p)
            [] c = "'" -> CharLit(s, p)
            [] c \in Digit -> Number(s, p)
            [] c \in Letter -> Identifier(s, p)
            [] OTHER -> Punctuation(s, p)
  BY DEF TokenAt
<1>10. Sound(s, p, t)
  <2> HIDE DEF c, t
  <2> QED BY <1>3, <1>4, <1>5, <1>6, <1>7, <1>8, <1>9
<1> QED BY <1>10
-----------------------------------------------------------------------------
(* Gaps.                                                                   *)

LEMMA NoGap == ASSUME NEW s, NEW p \in Nat PROVE IsGap(s, p, p)
<1>1. {p} \in SUBSET (p .. p) /\ {p, p} \subseteq {p}
  BY SMT
<1> QED BY <1>1 DEF IsGap

LEMMA GapGrows ==
  ASSUME NEW s, NEW p \in Nat, NEW q \in Nat, NEW r \in Nat, IsGap(s, p, q), q < r, IsGapPart(s, q, r)
  PROVE  IsGap(s, p, r)
<1>1. PICK cuts \in SUBSET (p .. q) :
        {p, q} \subseteq cuts /\ \A i \in cuts \ {q} : \E j \in cuts : i < j /\ IsGapPart(s, i, j)
  BY DEF IsGap
<1> DEFINE more == cuts \cup {r}
<1>2. p <= q /\ r \in p .. r /\ p .. q \subseteq p .. r
  <2>1. p \in p .. q
    BY <1>1
  <2> QED BY <2>1, SMT
<1>3. more \in SUBSET (p .. r) /\ {p, r} \subseteq more
  BY <1>1, <1>2
<1>4. ASSUME NEW i \in more \ {r} PROVE \E j \in more : i < j /\ IsGapPart(s, i, j)
  <2>1. i \in cuts
    OBVIOUS
  <2>2. CASE i = q
    BY <2>2
  <2>3. CASE i # q
    BY <1>1, <2>1, <2>3
  <2> QED BY <2>2, <2>3
<1> HIDE DEF more
<1> QED BY <1>3, <1>4 DEF IsGap

LEMMA GapOrder == ASSUME NEW s, NEW p \in Nat, NEW q \in Nat, IsGap(s, p, q) PROVE p <= q
<1>1. p \in p .. q
  BY DEF IsGap
<1> QED BY <1>1, SMT

\* A loop that goes on to the end of the line goes over all the other characters.
LEMMA LineEndIs ==
  ASSUME NEW s, IsText(s), NEW p \in 1 .. Len(s) + 1
  PROVE  /\ LineEnd(s, p) \in p .. Len(s) + 1 /\ Peek(s, LineEnd(s, p)) \in {None, "\n"}
         /\ \A i \in p .. LineEnd(s, p) - 1 : s[i] # "\n"
<1> DEFINE C == {s[i] : i \in 1 .. Len(s)} \ {"\n"}
           q == After(s, p, C)
<1>1. Len(s) \in Nat /\ None \notin C
  BY DEF IsText
<1>2. Run(s, p, q, C)
  <2> HIDE DEF C
  <2> QED BY <1>1, AfterIsRun
<1>3. q \in p .. Len(s) + 1 /\ Peek(s, q) \notin C /\ \A i \in p .. q - 1 : s[i] \in C
  <2> HIDE DEF C, q
  <2> QED BY <1>2 DEF Run, AllIn
<1> HIDE DEF q
<1>4. \A i \in p .. q - 1 : s[i] # "\n"
  BY <1>3
<1>5. Peek(s, q) \in {None, "\n"}
  <2>1. q \in Nat /\ q > 0
    BY <1>1, <1>3, SMT
  <2>2. Peek(s, q) # None => Peek(s, q) \in {s[i] : i \in 1 .. Len(s)}
    BY <2>1, PeekInside
  <2> QED BY <1>3, <2>2
<1>6. \E r \in p .. Len(s) + 1 : Peek(s, r) \in {None, "\n"} /\ \A i \in p .. r - 1 : s[i] # "\n"
  BY <1>3, <1>4, <1>5
<1> QED BY <1>6 DEF LineEnd

LEMMA LineEndPart ==
  ASSUME NEW s, IsText(s), NEW p \in 1 .. Len(s) + 1, Peek(s, p) = "/", Peek(s, p + 1) = "/"
  PROVE  LineEnd(s, p) \in p + 1 .. Len(s) + 1 /\ IsGapPart(s, p, LineEnd(s, p))
<1> DEFINE q == LineEnd(s, p)
<1>1. q \in p .. Len(s) + 1 /\ Peek(s, q) \in {None, "\n"} /\ \A i \in p .. q - 1 : s[i] # "\n"
  BY LineEndIs
<1> HIDE DEF q
<1>2. "/" # None /\ "/" # "\n"
  BY Zenon DEF None
<1>3. Len(s) \in Nat /\ p \in Nat /\ p > 0 /\ p + 1 \in Nat /\ p + 1 > 0
  BY SMT DEF IsText
<1>4. s[p] = "/" /\ s[p + 1] = "/"
  BY <1>2, <1>3, PeekInside
<1>5. q # p /\ q # p + 1
  BY <1>1, <1>2
<1>6. q \in p + 1 .. Len(s) + 1 /\ p + 1 < q
  BY <1>1, <1>3, <1>5, SMT
<1>7. IsLineComment(s, p, q)
  BY <1>1, <1>4, <1>6 DEF IsLineComment
<1> QED BY <1>6, <1>7 DEF IsGapPart, q

LEMMA FirstIs == ASSUME NEW S \in SUBSET Nat, S # {} PROVE First(S) \in S /\ \A j \in S : First(S) <= j
<1>1. \E i \in S : \A j \in S : i <= j
  BY Smallest
<1> QED BY <1>1 DEF First

LEMMA BlockPart ==
  ASSUME NEW s, IsText(s), NEW p \in 1 .. Len(s) + 1, Peek(s, p) = "/", Peek(s, p + 1) = "*", CommentEnds(s, p) # {}
  PROVE  First(CommentEnds(s, p)) + 2 \in p + 1 .. Len(s) + 1 /\ IsGapPart(s, p, First(CommentEnds(s, p)) + 2)
<1> DEFINE ends == CommentEnds(s, p)
           m == First(ends)
<1>1. Len(s) \in Nat /\ p \in Nat /\ p > 0 /\ p + 1 \in Nat /\ p + 1 > 0
  BY SMT DEF IsText
<1>2. "/" # None /\ "*" # None
  BY Zenon DEF None
<1>3. ends \in SUBSET Nat
  <2>1. p + 2 .. Len(s) \subseteq Nat
    BY <1>1, SMT
  <2> QED BY <2>1 DEF CommentEnds
<1>4. m \in ends /\ \A j \in ends : m <= j
  BY <1>3, FirstIs
<1> HIDE DEF m
<1>5. m \in p + 2 .. Len(s) /\ s[m] = "*" /\ Peek(s, m + 1) = "/"
  BY <1>4 DEF CommentEnds
<1>6. m + 1 \in 1 .. Len(s) /\ s[m + 1] = "/"
  <2>1. m + 1 \in Nat /\ m + 1 > 0
    BY <1>1, <1>5, SMT
  <2> QED BY <1>2, <1>5, <2>1, PeekInside
<1>7. m + 2 \in p + 1 .. Len(s) + 1 /\ p + 3 < m + 2 /\ m + 2 - 2 = m /\ m + 2 - 1 = m + 1 /\ m + 2 - 3 = m - 1
  BY <1>1, <1>5, <1>6, SMT
<1>8. ASSUME NEW i \in p + 2 .. m - 1, s[i] = "*", s[i + 1] = "/" PROVE FALSE
  <2>1. i \in p + 2 .. Len(s) /\ ~ (m <= i) /\ i + 1 \in Nat /\ i + 1 <= Len(s)
    BY <1>1, <1>5, SMT
  <2>2. Peek(s, i + 1) = "/"
    BY <1>8, <2>1, PeekIs
  <2>3. i \in ends
    BY <1>8, <2>1, <2>2 DEF CommentEnds
  <2> QED BY <1>4, <2>1, <2>3
<1>9. s[p] = "/" /\ s[p + 1] = "*"
  BY <1>1, <1>2, PeekInside
<1>10. IsBlockComment(s, p, m + 2)
  BY <1>5, <1>6, <1>7, <1>8, <1>9 DEF IsBlockComment
<1> QED BY <1>7, <1>10 DEF IsGapPart, m
-----------------------------------------------------------------------------
(* The loop of tokenize.                                                   *)

LexTypes ==
  /\ IsText(text) /\ pos \in 1 .. Len(text) + 1 /\ quote \in 0 .. Len(text)
  /\ tokens \in Seq([kind : Kinds, from : Nat, to : 1 .. Len(text) + 1])

\* Up to where the text is cut into gaps and tokens, and from where the next token is.
Covered == IF tokens = <<>> THEN 1 ELSE Last.to
Ahead   == IF quote = 0 THEN pos ELSE quote

GapSoFar == IsGap(text, Covered, Ahead)

\* What has been read of a string could be the beginning of one.
StringSoFar ==
  quote # 0 =>
    /\ quote < pos /\ text[quote] = DoubleQuote
    /\ Contents(text, quote, pos, DoubleQuote) /\ Active(text, quote, pos)

LexInv == LexTypes /\ GapSoFar /\ StringSoFar /\ NothingSkipped /\ LongestLexeme

LEMMA LexStarts == LexInit => LexInv
<1> SUFFICES ASSUME LexInit PROVE LexInv
  OBVIOUS
<1>1. IsText(text) /\ pos = 1 /\ quote = 0 /\ tokens = <<>>
  BY TextsAreTexts DEF LexInit, Begin
<1>2. Len(text) \in Nat
  BY <1>1 DEF IsText
<1>3. LexTypes
  BY <1>1, <1>2, SMT DEF LexTypes
<1>4. GapSoFar
  BY <1>1, NoGap DEF GapSoFar, Covered, Ahead
<1> QED BY <1>1, <1>3, <1>4 DEF LexInv, StringSoFar, NothingSkipped, LongestLexeme

LEMMA CoveredIsPosition == ASSUME LexTypes PROVE Covered \in Nat /\ Covered <= Len(text) + 1
<1>1. Len(text) \in Nat
  BY DEF LexTypes, IsText
<1>2. CASE tokens = <<>>
  BY <1>1, <1>2, SMT DEF Covered
<1>3. CASE tokens # <<>>
  <2> DEFINE T == [kind : Kinds, from : Nat, to : 1 .. Len(text) + 1]
  <2>4. tokens \in Seq(T)
    BY DEF LexTypes
  <2> HIDE DEF T
  <2>1. tokens[Len(tokens)] \in T
    BY <2>4, <1>3, SMT
  <2>2. Last.to \in 1 .. Len(text) + 1
    BY <2>1 DEF Last, T
  <2>3. Covered = Last.to
    BY <1>3 DEF Covered
  <2> HIDE DEF Last
  <2> QED BY <1>1, <2>2, <2>3, SMT
<1> QED BY <1>2, <1>3

\* A step that takes no token keeps what is said of those that were taken.
LEMMA MoveKeeps ==
  ASSUME LexInv, LexTypes', GapSoFar', StringSoFar', text' = text, tokens' = tokens
  PROVE  LexInv'
<1>1. NothingSkipped' = NothingSkipped
  BY DEF NothingSkipped, Last, Before
<1>2. LongestLexeme' = LongestLexeme
  BY DEF LongestLexeme, Last
<1> QED BY <1>1, <1>2 DEF LexInv

LEMMA GiveUpKeeps == ASSUME LexInv, NEW what, GiveUp(what) PROVE LexInv'
<1>1. text' = text /\ pos' = pos /\ quote' = quote /\ tokens' = tokens
  BY DEF GiveUp
<1>2. LexTypes' /\ GapSoFar' /\ StringSoFar'
  BY <1>1 DEF LexInv, LexTypes, GapSoFar, StringSoFar, Covered, Ahead, Last
<1> QED BY <1>1, <1>2, MoveKeeps

\* A part of the gap, up to q.
LEMMA GapKeeps ==
  ASSUME LexInv, quote = 0, NEW q, q \in pos + 1 .. Len(text) + 1, IsGapPart(text, pos, q), GoTo(q)
  PROVE  LexInv'
<1>1. text' = text /\ pos' = q /\ quote' = 0 /\ tokens' = tokens
  BY DEF GoTo
<1>2. IsText(text) /\ Len(text) \in Nat /\ pos \in 1 .. Len(text) + 1 /\ LexTypes
  BY DEF LexInv, LexTypes, IsText
<1>3. q \in 1 .. Len(text) + 1 /\ pos \in Nat /\ q \in Nat /\ pos < q /\ 0 \in 0 .. Len(text)
  BY <1>2, SMT
<1>4. LexTypes'
  BY <1>1, <1>2, <1>3 DEF LexTypes
<1>5. Covered' = Covered /\ Covered \in Nat
  BY <1>1, <1>2, CoveredIsPosition DEF Covered, Last
<1>6. IsGap(text, Covered, q)
  BY <1>3, <1>5, GapGrows DEF LexInv, GapSoFar, Ahead
<1>7. GapSoFar'
  BY <1>1, <1>5, <1>6 DEF GapSoFar, Ahead
<1>8. StringSoFar'
  BY <1>1 DEF StringSoFar
<1> QED BY <1>1, <1>4, <1>7, <1>8, MoveKeeps

\* More of a string, up to q.
LEMMA StringKeeps ==
  ASSUME LexInv, quote # 0, NEW q, q \in pos + 1 .. Len(text) + 1,
         Contents(text, quote, q, DoubleQuote), Active(text, quote, q), GoTo(q)
  PROVE  LexInv'
<1>1. text' = text /\ pos' = q /\ quote' = quote /\ tokens' = tokens
  BY DEF GoTo
<1>2. IsText(text) /\ Len(text) \in Nat /\ pos \in 1 .. Len(text) + 1 /\ quote \in 0 .. Len(text) /\ LexTypes
  BY DEF LexInv, LexTypes, IsText
<1>3. quote < pos /\ text[quote] = DoubleQuote
  BY DEF LexInv, StringSoFar
<1>4. q \in 1 .. Len(text) + 1 /\ quote < q
  BY <1>2, <1>3, SMT
<1>5. LexTypes'
  BY <1>1, <1>2, <1>4 DEF LexTypes
<1>6. GapSoFar'
  BY <1>1 DEF LexInv, GapSoFar, Ahead, Covered, Last
<1>7. StringSoFar'
  BY <1>1, <1>3, <1>4 DEF StringSoFar
<1> QED BY <1>1, <1>5, <1>6, <1>7, MoveKeeps

\* A token behind the gap.
LEMMA TokenKeeps ==
  ASSUME LexInv, NEW t, Placed(text, t.from, t), Best(text, t), t.from \in 1 .. Len(text) + 1,
         IsGap(text, Covered, t.from),
         tokens' = Append(tokens, t), pos' = t.to, quote' = 0, text' = text
  PROVE  LexInv'
<1> DEFINE T == [kind : Kinds, from : Nat, to : 1 .. Len(text) + 1]
<1>1. IsText(text) /\ Len(text) \in Nat /\ LexTypes /\ tokens \in Seq(T)
  BY DEF LexInv, LexTypes, IsText
<1>2. /\ t = Token(t.kind, t.from, t.to) /\ t.kind \in Kinds /\ t.to \in t.from .. Len(text) + 1
      /\ IF t.kind = "eof" THEN t.to = Len(text) + 1 ELSE t.from < t.to
  BY DEF Placed, IsToken
<1>3. t.to \in 1 .. Len(text) + 1 /\ t.from \in Nat /\ t.to \in Nat /\ 0 \in 0 .. Len(text)
  BY <1>1, <1>2, SMT
<1>4. t \in T
  <2>1. [kind |-> t.kind, from |-> t.from, to |-> t.to] \in T
    BY <1>2, <1>3
  <2> QED BY <1>2, <2>1 DEF Token
<1> HIDE DEF T
<1>5. /\ tokens' \in Seq(T) /\ tokens' # <<>> /\ tokens'[Len(tokens')] = t
      /\ Len(tokens') = Len(tokens) + 1 /\ Len(tokens) \in Nat
      /\ tokens # <<>> => Len(tokens) # 0 /\ tokens'[Len(tokens)] = tokens[Len(tokens)]
  BY <1>1, <1>4, SMT
<1>6. Last' = t
  BY <1>5 DEF Last
<1>7. Before' = Covered
  <2>1. CASE tokens = <<>>
    <3>1. Len(tokens') = 1
      BY <1>5, <2>1, SMT
    <3> QED BY <2>1, <3>1 DEF Before, Covered
  <2>2. CASE tokens # <<>>
    <3>1. Len(tokens') # 1 /\ Len(tokens') - 1 = Len(tokens)
      BY <1>5, <2>2, SMT
    <3> QED BY <1>5, <2>2, <3>1 DEF Before, Covered, Last
  <2> QED BY <2>1, <2>2
<1>8. Covered' = t.to
  BY <1>5, <1>6 DEF Covered
<1>9. LexTypes'
  BY <1>1, <1>3, <1>5 DEF LexTypes, T
<1>10. GapSoFar'
  BY <1>3, <1>8, NoGap DEF GapSoFar, Ahead
<1>11. Covered <= t.from
  BY <1>1, <1>3, CoveredIsPosition, GapOrder
<1>12. NothingSkipped'
  BY <1>2, <1>6, <1>7, <1>11 DEF NothingSkipped
<1>13. LongestLexeme'
  BY <1>6 DEF LongestLexeme, Best, Unkept
<1>14. StringSoFar'
  BY DEF StringSoFar
<1> QED BY <1>9, <1>10, <1>12, <1>13, <1>14 DEF LexInv

LEMMA SkipBlankKeeps == ASSUME LexInv, SkipBlank PROVE LexInv'
<1>1. IsText(text) /\ Len(text) \in Nat /\ pos \in Nat /\ pos > 0
  BY SMT DEF LexInv, LexTypes, IsText
<1>2. Here # None
  BY Zenon DEF SkipBlank, Blank, None
<1>3. pos \in 1 .. Len(text) /\ text[pos] \in Blank
  BY <1>1, <1>2, PeekInside DEF SkipBlank, Here
<1>4. pos + 1 \in pos + 1 .. Len(text) + 1
  BY <1>1, <1>3, SMT
<1>5. IsGapPart(text, pos, pos + 1)
  BY <1>3 DEF IsGapPart
<1> QED BY <1>4, <1>5, GapKeeps DEF SkipBlank, InGap

LEMMA SkipLineKeeps == ASSUME LexInv, SkipLine PROVE LexInv'
<1>1. IsText(text) /\ pos \in 1 .. Len(text) + 1
  BY DEF LexInv, LexTypes
<1>2. LineEnd(text, pos) \in pos + 1 .. Len(text) + 1 /\ IsGapPart(text, pos, LineEnd(text, pos))
  BY <1>1, LineEndPart DEF SkipLine, Slash, Here
<1> QED BY <1>2, GapKeeps DEF SkipLine, InGap

LEMMA SkipBlockKeeps == ASSUME LexInv, SkipBlock PROVE LexInv'
<1>1. IsText(text) /\ pos \in 1 .. Len(text) + 1
  BY DEF LexInv, LexTypes
<1>2. CASE CommentEnds(text, pos) = {}
  BY <1>2, GiveUpKeeps DEF SkipBlock
<1>3. CASE CommentEnds(text, pos) # {}
  <2> DEFINE q == First(CommentEnds(text, pos)) + 2
  <2>1. q \in pos + 1 .. Len(text) + 1 /\ IsGapPart(text, pos, q)
    BY <1>1, <1>3, BlockPart DEF SkipBlock, Slash, Here
  <2>2. GoTo(q) /\ quote = 0
    BY <1>3 DEF SkipBlock, InGap
  <2> QED BY <2>1, <2>2, GapKeeps
<1> QED BY <1>2, <1>3

LEMMA TakeTokenKeeps == ASSUME LexInv, TakeToken PROVE LexInv'
<1> DEFINE t == TokenAt(text, pos)
<1>1. IsText(text) /\ pos \in 1 .. Len(text) + 1 /\ quote = 0
  BY DEF LexInv, LexTypes, TakeToken, AtToken, InGap
<1>2. Sound(text, pos, t)
  BY <1>1, TokenAtSound
<1>3. CASE t.kind \in Errors
  BY <1>3, GiveUpKeeps DEF TakeToken
<1>4. CASE t.kind \notin Errors
  <2>1. tokens' = Append(tokens, t) /\ pos' = t.to /\ text' = text /\ quote' = 0
    BY <1>1, <1>4 DEF TakeToken
  <2> HIDE DEF t
  <2>2. Placed(text, pos, t) /\ Best(text, t)
    BY <1>2, <1>4 DEF Sound
  <2>3. t.from = pos
    BY <2>2 DEF Placed
  <2>4. IsGap(text, Covered, pos)
    BY <1>1 DEF LexInv, GapSoFar, Ahead
  <2> QED BY <1>1, <2>1, <2>2, <2>3, <2>4, TokenKeeps
<1> QED BY <1>3, <1>4

LEMMA OpenStringKeeps == ASSUME LexInv, OpenString PROVE LexInv'
<1>1. text' = text /\ quote' = pos /\ pos' = pos + 1 /\ tokens' = tokens /\ quote = 0 /\ Here = DoubleQuote
  BY DEF OpenString, AtToken, InGap
<1>2. IsText(text) /\ Len(text) \in Nat /\ pos \in 1 .. Len(text) + 1 /\ pos \in Nat /\ pos > 0
  BY SMT DEF LexInv, LexTypes, IsText
<1>3. pos \in 1 .. Len(text) /\ text[pos] = DoubleQuote
  BY <1>1, <1>2, PeekInside, QuoteMarks DEF Here
<1>4. pos \in 0 .. Len(text) /\ pos + 1 \in 1 .. Len(text) + 1 /\ pos < pos + 1 /\ pos # 0
  BY <1>2, <1>3, SMT
<1>5. LexTypes'
  BY <1>1, <1>2, <1>4 DEF LexInv, LexTypes
<1>6. GapSoFar'
  BY <1>1, <1>4 DEF LexInv, GapSoFar, Ahead, Covered, Last
<1>7. Contents(text, pos, pos + 1, DoubleQuote) /\ Active(text, pos, pos + 1)
  BY <1>2, <1>3, OpensContents, QuoteMarks
<1>8. StringSoFar'
  BY <1>1, <1>3, <1>4, <1>7 DEF StringSoFar
<1> QED BY <1>1, <1>5, <1>6, <1>8, MoveKeeps

\* Where a string stands.
LEMMA StringPlace == ASSUME LexInv, quote # 0
  PROVE  /\ IsText(text) /\ Len(text) \in Nat /\ pos \in Nat /\ pos > 0 /\ pos <= Len(text) + 1 /\ pos + 1 \in Nat
         /\ quote \in Nat /\ quote \in 1 .. Len(text) /\ quote < pos /\ text[quote] = DoubleQuote
         /\ Contents(text, quote, pos, DoubleQuote) /\ Active(text, quote, pos)
<1>1. IsText(text) /\ Len(text) \in Nat /\ pos \in 1 .. Len(text) + 1 /\ quote \in 0 .. Len(text)
  BY DEF LexInv, LexTypes, IsText
<1>2. /\ quote < pos /\ text[quote] = DoubleQuote
      /\ Contents(text, quote, pos, DoubleQuote) /\ Active(text, quote, pos)
  BY DEF LexInv, StringSoFar
<1>3. pos \in Nat /\ pos > 0 /\ pos <= Len(text) + 1 /\ pos + 1 \in Nat /\ quote \in Nat /\ quote \in 1 .. Len(text)
  BY <1>1, SMT
<1> QED BY <1>1, <1>2, <1>3

LEMMA ReadPlainKeeps == ASSUME LexInv, ReadPlain PROVE LexInv'
<1>1. quote # 0
  BY DEF ReadPlain, InString
<1>2. Here # None /\ Here # "\n" /\ Here # DoubleQuote /\ Here # Backslash
  BY DEF ReadPlain
<1>3. pos \in 1 .. Len(text) /\ text[pos] = Here
  BY <1>1, <1>2, StringPlace, PeekInside DEF Here
<1>4. pos + 1 \in pos + 1 .. Len(text) + 1
  BY <1>1, <1>3, StringPlace, SMT
<1>5. text[pos] \notin {"\n", DoubleQuote, Backslash}
  BY <1>2, <1>3
<1>6. Contents(text, quote, pos + 1, DoubleQuote) /\ Active(text, quote, pos + 1)
  BY <1>1, <1>5, StringPlace, PlainContents
<1> QED BY <1>1, <1>4, <1>6, StringKeeps DEF ReadPlain

LEMMA ReadEscapeKeeps == ASSUME LexInv, ReadEscape PROVE LexInv'
<1>1. quote # 0 /\ Here = Backslash
  BY DEF ReadEscape, InString
<1>2. CASE Peek(text, pos + 1) \in Escapes
  <2>1. pos \in 1 .. Len(text) /\ text[pos] = Backslash
    BY <1>1, StringPlace, PeekInside, QuoteMarks DEF Here
  <2>2. pos + 1 > 0
    BY <1>1, StringPlace, SMT
  <2>3. pos + 1 \in 1 .. Len(text) /\ text[pos + 1] \in Escapes
    BY <1>1, <1>2, <2>2, StringPlace, PeekInside, QuoteMarks
  <2>4. pos + 2 \in pos + 1 .. Len(text) + 1
    BY <1>1, <2>3, StringPlace, SMT
  <2>5. Contents(text, quote, pos + 2, DoubleQuote) /\ Active(text, quote, pos + 2)
    BY <1>1, <2>1, <2>3, StringPlace, EscapeContents, QuoteMarks
  <2> QED BY <1>1, <1>2, <2>4, <2>5, StringKeeps DEF ReadEscape
<1>3. CASE Peek(text, pos + 1) \notin Escapes
  BY <1>3, GiveUpKeeps DEF ReadEscape
<1> QED BY <1>2, <1>3

LEMMA CloseStringKeeps == ASSUME LexInv, CloseString PROVE LexInv'
<1> DEFINE t == Token("string", quote, pos + 1)
<1>1. quote # 0 /\ Here = DoubleQuote /\ tokens' = Append(tokens, t) /\ pos' = pos + 1 /\ quote' = 0 /\ text' = text
  BY DEF CloseString, InString
<1>2. t.kind = "string" /\ t.from = quote /\ t.to = pos + 1 /\ IsToken(t) /\ t.kind # "eof" /\ t.kind \notin Unkept
  BY TokenFields, KindsApart
<1> HIDE DEF t
<1>3. pos \in 1 .. Len(text) /\ text[pos] = DoubleQuote
  BY <1>1, StringPlace, PeekInside, QuoteMarks DEF Here
<1>4. pos + 1 \in quote .. Len(text) + 1 /\ quote < pos + 1 /\ quote \in 1 .. Len(text) + 1
  BY <1>1, <1>3, StringPlace, SMT
<1>5. IsString(text, quote, pos + 1)
  BY <1>1, <1>3, StringPlace, ClosesContents DEF IsString
<1>6. Placed(text, t.from, t) /\ Best(text, t)
  BY <1>2, <1>4, <1>5, Lexemes DEF Placed, Best
<1>7. IsGap(text, Covered, t.from)
  BY <1>1, <1>2 DEF LexInv, GapSoFar, Ahead
<1> QED BY <1>1, <1>2, <1>4, <1>6, <1>7, TokenKeeps

LEMMA LexNext == ASSUME LexInv, [Tokenize]_lexVars PROVE LexInv'
<1>1. CASE UNCHANGED lexVars
  <2>1. text' = text /\ pos' = pos /\ quote' = quote /\ tokens' = tokens
    BY <1>1 DEF lexVars
  <2>2. LexTypes' /\ GapSoFar' /\ StringSoFar'
    BY <2>1 DEF LexInv, LexTypes, GapSoFar, StringSoFar, Covered, Ahead, Last
  <2> QED BY <2>1, <2>2, MoveKeeps
<1>2. CASE LoseString
  BY <1>2, GiveUpKeeps DEF LoseString
<1> QED BY <1>1, <1>2, SkipBlankKeeps, SkipLineKeeps, SkipBlockKeeps, TakeTokenKeeps, OpenStringKeeps,
           ReadPlainKeeps, ReadEscapeKeeps, CloseStringKeeps DEF Tokenize

LEMMA LexAlways == LexSpec => []LexInv
BY LexStarts, LexNext, PTL DEF LexSpec

\* lexer.rs, tokenize: whatever the text, what is between two tokens is blanks and whole
\* comments, and the end of the file is its end: no character is lost or read twice.
THEOREM NoCharacterLost == LexSpec => []NothingSkipped
<1>1. LexInv => NothingSkipped
  BY DEF LexInv
<1> QED BY <1>1, LexAlways, PTL

\* lexer.rs, next_token: whatever the text, a token is a lexeme of its kind and no longer
\* piece of the text from there on is one; a literal in quotes ends where it must.
THEOREM TokensAreLongest == LexSpec => []LongestLexeme
<1>1. LexInv => LongestLexeme
  BY DEF LexInv
<1> QED BY <1>1, LexAlways, PTL
-----------------------------------------------------------------------------
(* The expression parser.  ParseInv is its inductive invariant: what waits *)
(* in frames is, up to where its next operand begins, what the grammar     *)
(* lets it be, and that operand is read with the power the grammar asks    *)
(* for; and the token at hand is no stronger than one that ended what was  *)
(* read, so that whatever takes hold of it may.                            *)

\* How strongly the token at hand takes hold of an operand in front of it.
Power(w) == IF w \in PostfixOps \cup FieldOps \cup {<<"(">>, <<"[">>} THEN 40 ELSE LeftBp(w)
\* A token stronger than this has been taken before the expression was complete.
Bound(t) == CASE t.fix \in {"assign", "ternary"} -> 0
              [] t.fix = "binary"                -> Tightness(t.sym)
              [] t.fix \in {"prefix", "cast"}    -> 29
              [] OTHER                           -> 40
\* The binding power with which the next operand of a waiting expression is read.
InnerBp(f) == CASE f.fix \in {"prefix", "cast"} -> 30
                [] f.fix = "binary"             -> Tightness(f.sym) + 1
                [] f.fix = "assign"             -> 1
                [] OTHER                        -> 0

Words  == Seq(STRING)
NodeSet  == [fix : Fixes \cup {"leaf", "type"}, sym : Words, kids : Seq(Nat), from : Nat, to : Nat]
FrameSet == [fix : Fixes, sym : Words, kids : Seq(Nat), from : Nat, min : Nat]

Typed ==
  /\ input \in Lists /\ at \in 1 .. Len(input) /\ min \in Nat /\ start \in Nat /\ lhs \in 0 .. Len(nodes)
  /\ nodes \in Seq(NodeSet) /\ frames \in Seq(FrameSet)
  /\ outcome \in {"none", "tree", "UnexpectedToken", "UnexpectedEof"}

Rules == \A n \in 1 .. Len(nodes) : Rule(nodes, n)

\* How many operands a waiting expression has.
Waiting(f) == CASE f.fix \in {"prefix", "group", "sizeof"} -> {0}
                [] f.fix = "ternary" -> {1, 2}
                [] f.fix = "call"    -> Nat \ {0}
                [] OTHER             -> {1}
\* A waiting expression is one up to p, where its next operand begins.
IsStart(f, p) ==
  /\ f.fix \in Fixes \ {"postfix", "field"} /\ f.sym \in Symbols(f) /\ Len(f.kids) \in Waiting(f)
  /\ \A i \in 1 .. Len(f.kids) : f.kids[i] \in 1 .. Len(nodes) /\ IsOperand(nodes, f, i)
  /\ Spelled(Behind(nodes, f, Len(f.kids)), p, Lead(f, Len(f.kids) + 1))

StartOf(i) == IF i > Len(frames) THEN start ELSE frames[i].from
MinOf(i)   == IF i > Len(frames) THEN min ELSE frames[i].min
Waits ==
  /\ StartOf(1) = 1 /\ MinOf(1) = 0
  /\ \A i \in 1 .. Len(frames) : \A f, p :
       f = frames[i] /\ p = StartOf(i + 1) => IsStart(f, p) /\ MinOf(i + 1) = InnerBp(f) /\ Level(f) >= MinOf(i)

AtHand ==
  /\ lhs = 0 => start = at
  /\ lhs # 0 => LET t == nodes[lhs] IN
       /\ t.from = start /\ t.to = at /\ t.fix # "type"
       /\ Level(t) >= min /\ Power(Word) <= Bound(t)

ParseInv ==
  /\ Typed /\ Rules
  /\ outcome \in {"none", "tree"} => Waits /\ AtHand
  /\ outcome = "tree" => frames = <<>> /\ lhs # 0
-----------------------------------------------------------------------------
(* Operators and their powers.                                             *)

Strong == PostfixOps \cup FieldOps \cup {<<"(">>, <<"[">>}

LEMMA TightnessIs ==
  ASSUME NEW w, BinaryBp(w) # 0
  PROVE  w \in UNION {Grammar[i] : i \in DOMAIN Grammar} /\ Tightness(w) = BinaryBp(w) /\ BinaryBp(w) \in 4 .. 22
<1> DEFINE T(i) == w \in Grammar[i]
<1>1. DOMAIN Grammar = 1 .. 10
  BY DEF Grammar
<1>2. /\ Grammar[1] = {<<"|", "|">>} /\ Grammar[2] = {<<"&", "&">>} /\ Grammar[3] = {<<"|">>} /\ Grammar[4] = {<<"^">>}
      /\ Grammar[5] = {<<"&">>} /\ Grammar[6] = {<<"=", "=">>, <<"!", "=">>}
      /\ Grammar[7] = {<<"<">>, <<">">>, <<"<", "=">>, <<">", "=">>} /\ Grammar[8] = {<<"<", "<">>, <<">", ">">>}
      /\ Grammar[9] = {<<"+">>, <<"-">>} /\ Grammar[10] = {<<"*">>, <<"/">>, <<"%">>}
  BY DEF Grammar
<1>3. \A i \in 1 .. 10 : i = 1 \/ i = 2 \/ i = 3 \/ i = 4 \/ i = 5 \/ i = 6 \/ i = 7 \/ i = 8 \/ i = 9 \/ i = 10
  BY SMT
<1>4. \E i \in 1 .. 10 : T(i) /\ BinaryBp(w) = 2 + 2 * i
  BY <1>2 DEF BinaryBp
<1>5. \A i, j \in 1 .. 10 : T(i) /\ T(j) => i = j
  BY <1>2, <1>3
<1> QED BY <1>1, <1>4, <1>5 DEF Tightness

LEMMA BinaryIsInfix == ASSUME NEW w, BinaryBp(w) # 0 PROVE w \notin AssignOps \cup {<<"?">>} \cup Strong /\ w # <<>>
<1> DEFINE B == {<<"|", "|">>, <<"&", "&">>, <<"|">>, <<"^">>, <<"&">>, <<"=", "=">>, <<"!", "=">>, <<"<">>, <<">">>, <<"<", "=">>,
                 <<">", "=">>, <<"<", "<">>, <<">", ">">>, <<"+">>, <<"-">>, <<"*">>, <<"/">>, <<"%">>}
<1>1. w \in B
  BY DEF BinaryBp
<1>2. \A v \in B : v \notin AssignOps
  BY DEF AssignOps
<1>3. \A v \in B : v \notin {<<"?">>} \cup Strong /\ v # <<>>
  BY DEF Strong, PostfixOps, FieldOps
<1> QED BY <1>1, <1>2, <1>3

LEMMA InfixIsNotStrong == <<>> \notin AssignOps \cup Strong \cup PrefixOps /\ <<"?">> \notin AssignOps
BY DEF AssignOps, Strong, PostfixOps, FieldOps, PrefixOps

LEMMA Powers ==
  ASSUME NEW w
  PROVE  /\ Power(w) = (IF w \in Strong THEN 40 ELSE LeftBp(w)) /\ LeftBp(w) \in {0, 2, 3} \cup 4 .. 22
         /\ BinaryBp(w) # 0 => Power(w) = BinaryBp(w) /\ LeftBp(w) = BinaryBp(w)
         /\ w \in AssignOps => Power(w) = 2 /\ LeftBp(w) = 2
         /\ w = <<"?">> => Power(w) = 3 /\ LeftBp(w) = 3
         /\ LeftBp(w) # 0 => w \in AssignOps \cup {<<"?">>} \/ BinaryBp(w) # 0
<1>1. Power(w) = IF w \in Strong THEN 40 ELSE LeftBp(w)
  BY DEF Power, Strong
<1>2. LeftBp(w) = IF w \in AssignOps THEN 2 ELSE IF w = <<"?">> THEN 3 ELSE BinaryBp(w)
  BY DEF LeftBp, AssignBp, TernaryBp
<1>3. BinaryBp(w) # 0 => BinaryBp(w) \in 4 .. 22 /\ w \notin AssignOps \cup {<<"?">>} \cup Strong
  BY TightnessIs, BinaryIsInfix
<1>4. w \in AssignOps \/ w = <<"?">> => w \notin Strong
  BY DEF AssignOps, Strong, PostfixOps, FieldOps
<1>5. <<"?">> \notin AssignOps
  BY InfixIsNotStrong
<1> QED BY <1>1, <1>2, <1>3, <1>4, <1>5, SMT
-----------------------------------------------------------------------------
(* Tokens.                                                                 *)

LEMMA NotLast ==
  ASSUME Typed, NEW p \in 1 .. Len(input), input[p].kind # "eof"
  PROVE  p + 1 \in 1 .. Len(input)
<1>1. Len(input) \in Nat /\ p # Len(input)
  BY DEF Typed, Lists
<1> QED BY <1>1, SMT

LEMMA WordsAreThere ==
  ASSUME Typed
  PROVE  /\ \A p, w : Is(p, w) \/ IsType(p) => input[p].kind # "eof"
         /\ \A p : p \in 1 .. Len(input) => input[p].text \in Words /\ input[p].kind \in STRING
         /\ Word # <<>> => Is(at, Word)
<1>1. ASSUME NEW p, NEW w, Is(p, w) \/ IsType(p) PROVE input[p].kind # "eof"
  BY <1>1 DEF Is, IsType
<1>2. ASSUME NEW p \in 1 .. Len(input) PROVE input[p].text \in Words /\ input[p].kind \in STRING
  <2>1. input \in Seq([kind : STRING, text : Seq(STRING)])
    BY DEF Typed, Lists
  <2>2. input[p] \in [kind : STRING, text : Seq(STRING)]
    BY <2>1, ElementOfSeq
  <2> QED BY <2>2 DEF Words
<1>3. Word # <<>> => Is(at, Word)
  BY DEF Is, Word
<1> QED BY <1>1, <1>2, <1>3

LEMMA TypeEnds ==
  ASSUME Typed, NEW p \in 1 .. Len(input), IsType(p)
  PROVE  /\ AfterType(p) \in 1 .. Len(input) /\ p < AfterType(p) /\ ~ Is(AfterType(p), <<"*">>)
         /\ \A i \in p + 1 .. AfterType(p) - 1 : Is(i, <<"*">>)
<1> DEFINE T == {q \in p + 1 .. Len(input) : ~ Is(q, <<"*">>)}
<1>1. Len(input) \in Nat /\ input[Len(input)].kind = "eof"
  BY DEF Typed, Lists
<1>2. p + 1 \in 1 .. Len(input)
  BY NotLast, WordsAreThere
<1>3. Len(input) \in T
  BY <1>1, <1>2, WordsAreThere, SMT
<1>4. T \subseteq Nat
  BY <1>1, SMT
<1>5. PICK q \in T : \A r \in T : q <= r
  BY <1>3, <1>4, Smallest
<1>6. ASSUME NEW i \in p + 1 .. q - 1 PROVE Is(i, <<"*">>)
  <2>1. i \in p + 1 .. Len(input) /\ ~ (q <= i)
    BY <1>1, SMT
  <2> QED BY <1>5, <2>1
<1>7. /\ AfterType(p) \in p + 1 .. Len(input) /\ ~ Is(AfterType(p), <<"*">>)
      /\ \A i \in p + 1 .. AfterType(p) - 1 : Is(i, <<"*">>)
  BY <1>6 DEF AfterType
<1> QED BY <1>1, <1>7, SMT
-----------------------------------------------------------------------------
(* Spelling.                                                               *)

LEMMA SpellsNothing == ASSUME NEW p \in Int PROVE Spelled(p, p, <<>>)
BY DEF Spelled

LEMMA SpellsOne == ASSUME NEW p \in Int, NEW w, Is(p, w) PROVE Spelled(p, p + 1, <<w>>)
<1>1. Len(<<w>>) = 1 /\ <<w>>[1] = w
  OBVIOUS
<1>2. ASSUME NEW j \in 1 .. 1 PROVE Is(p + j - 1, <<w>>[j])
  <2>1. j = 1 /\ p + j - 1 = p
    BY SMT
  <2> QED BY <1>1, <2>1
<1> QED BY <1>1, <1>2 DEF Spelled

LEMMA SpellsTwo == ASSUME NEW p \in Int, NEW w, NEW x, Is(p, w), Is(p + 1, x) PROVE Spelled(p, p + 2, <<w, x>>)
<1>1. Len(<<w, x>>) = 2 /\ <<w, x>>[1] = w /\ <<w, x>>[2] = x
  OBVIOUS
<1>2. ASSUME NEW j \in 1 .. 2 PROVE Is(p + j - 1, <<w, x>>[j])
  <2>1. (j = 1 /\ p + j - 1 = p) \/ (j = 2 /\ p + j - 1 = p + 1)
    BY SMT
  <2> QED BY <1>1, <2>1
<1> QED BY <1>1, <1>2 DEF Spelled
-----------------------------------------------------------------------------
(* Expressions stay as they were made.                                     *)

Grows == input' = input /\ Len(nodes') >= Len(nodes) /\ \A n \in 1 .. Len(nodes) : nodes'[n] = nodes[n]

\* The operands of t are there.
HasKids(t) == Len(t.kids) \in Nat /\ \A i \in 1 .. Len(t.kids) : t.kids[i] \in 1 .. Len(nodes)

LEMMA BehindStays ==
  ASSUME Grows, NEW t, HasKids(t), NEW i \in 0 .. Len(t.kids)
  PROVE  (Behind(nodes, t, i))' = Behind(nodes, t, i)
<1>1. i = 0 \/ i \in 1 .. Len(t.kids)
  BY SMT DEF HasKids
<1> QED BY <1>1 DEF Grows, HasKids, Behind, Kid

LEMMA SpelledStays == ASSUME Grows, NEW p, NEW q, NEW ws PROVE (Spelled(p, q, ws))' <=> Spelled(p, q, ws)
BY DEF Grows, Spelled, Is

LEMMA OperandStays ==
  ASSUME Grows, NEW t, HasKids(t), NEW i \in 1 .. Len(t.kids)
  PROVE  (IsOperand(nodes, t, i))' <=> IsOperand(nodes, t, i)
<1>1. i - 1 \in 0 .. Len(t.kids)
  BY SMT DEF HasKids
<1>2. (Behind(nodes, t, i - 1))' = Behind(nodes, t, i - 1)
  BY <1>1, BehindStays
<1>3. (Kid(nodes, t, i))' = Kid(nodes, t, i)
  BY DEF Grows, HasKids, Kid
<1> DEFINE p == Behind(nodes, t, i - 1)
           k == Kid(nodes, t, i)
           ws == Lead(t, i)
<1>4. (Spelled(Behind(nodes, t, i - 1), Kid(nodes, t, i).from, Lead(t, i)))' <=> Spelled(Behind(nodes, t, i - 1), Kid(nodes, t, i).from, Lead(t, i))
  BY <1>2, <1>3 DEF Spelled, Is, Grows
<1>5. input' = input
  BY DEF Grows
<1> QED BY <1>3, <1>4, <1>5 DEF IsOperand

LEMMA FormStays == ASSUME Grows, NEW t, HasKids(t) PROVE (IsForm(nodes, t))' <=> IsForm(nodes, t)
<1>1. Len(t.kids) \in 0 .. Len(t.kids)
  BY SMT DEF HasKids
<1>2. (Behind(nodes, t, Len(t.kids)))' = Behind(nodes, t, Len(t.kids))
  BY <1>1, BehindStays
<1>3. (Spelled(Behind(nodes, t, Len(t.kids)), t.to, Close(t)))' <=> Spelled(Behind(nodes, t, Len(t.kids)), t.to, Close(t))
  BY <1>2 DEF Spelled, Is, Grows
<1>4. \A i \in 1 .. Len(t.kids) : (IsOperand(nodes, t, i))' <=> IsOperand(nodes, t, i)
  BY OperandStays
<1> QED BY <1>3, <1>4 DEF IsForm

LEMMA LeafStays == ASSUME Grows, NEW t PROVE (IsLeaf(t))' <=> IsLeaf(t)
BY DEF Grows, IsLeaf, IsType, Is

LEMMA NodeTypes ==
  ASSUME Typed, NEW n \in 1 .. Len(nodes)
  PROVE  /\ nodes[n] \in NodeSet /\ nodes[n].kids \in Seq(Nat) /\ Len(nodes[n].kids) \in Nat /\ Len(nodes) \in Nat
         /\ nodes[n].from \in Nat /\ nodes[n].to \in Nat
<1>1. nodes \in Seq(NodeSet)
  BY DEF Typed
<1>2. nodes[n] \in NodeSet
  BY <1>1, ElementOfSeq
<1>3. Len(nodes) \in Nat
  BY <1>1, LenProperties
<1> QED BY <1>2, <1>3, LenProperties DEF NodeSet

LEMMA RuleStays == ASSUME Typed, Grows, NEW n \in 1 .. Len(nodes), Rule(nodes, n) PROVE Rule(nodes, n)'
<1> PICK t : t = nodes[n]
  OBVIOUS
<1>1. Len(t.kids) \in Nat /\ Len(nodes) \in Nat
  BY NodeTypes
<1>2. \A i \in 1 .. Len(t.kids) : t.kids[i] \in 1 .. n - 1
  BY DEF Rule
<1>3. \A k \in 1 .. n - 1 : k \in 1 .. Len(nodes)
  BY <1>1, SMT
<1>4. HasKids(t)
  BY <1>1, <1>2, <1>3 DEF HasKids
<1>5. nodes'[n] = t
  BY DEF Grows
<1>6. ((IsForm(nodes, t))' <=> IsForm(nodes, t)) /\ ((IsLeaf(t))' <=> IsLeaf(t))
  BY <1>4, FormStays, LeafStays
<1>7. (IsForm(nodes, nodes[n]))' <=> (IsForm(nodes, t))'
  BY <1>5 DEF IsForm, IsOperand, Behind, Kid, Spelled, Is
<1>8. (IsLeaf(nodes[n]))' <=> (IsLeaf(t))'
  BY <1>5 DEF IsLeaf, Is, IsType
<1>9. IF t.fix \in {"leaf", "type"} THEN IsLeaf(t) ELSE IsForm(nodes, t)
  BY DEF Rule
<1> QED BY <1>2, <1>5, <1>6, <1>7, <1>8, <1>9 DEF Rule

LEMMA RulesGrow ==
  ASSUME Typed, Rules, Grows, \A n \in Len(nodes) + 1 .. Len(nodes') : Rule(nodes, n)'
  PROVE  Rules'
<1>1. Len(nodes) \in Nat
  BY LenProperties DEF Typed
<1>2. ASSUME NEW n \in 1 .. Len(nodes') PROVE n \in 1 .. Len(nodes) \/ n \in Len(nodes) + 1 .. Len(nodes')
  BY <1>1, SMT
<1> QED BY <1>2, RuleStays DEF Rules

LEMMA StartStays ==
  ASSUME Typed, Grows, NEW f, NEW p, IsStart(f, p), Len(f.kids) \in Nat
  PROVE  (IsStart(f, p))'
<1>1. HasKids(f)
  BY DEF IsStart, HasKids
<1>2. Len(f.kids) \in 0 .. Len(f.kids)
  BY SMT
<1>3. (Behind(nodes, f, Len(f.kids)))' = Behind(nodes, f, Len(f.kids))
  BY <1>1, <1>2, BehindStays
<1>4. (Spelled(Behind(nodes, f, Len(f.kids)), p, Lead(f, Len(f.kids) + 1)))'
  BY <1>3 DEF Spelled, Is, Grows, IsStart
<1>5. \A i \in 1 .. Len(f.kids) : (IsOperand(nodes, f, i))'
  BY <1>1, OperandStays DEF IsStart
<1>6. \A i \in 1 .. Len(f.kids) : f.kids[i] \in 1 .. Len(nodes')
  <2>1. \A k \in 1 .. Len(nodes) : k \in 1 .. Len(nodes')
    BY SMT DEF Grows
  <2> QED BY <1>1, <2>1 DEF HasKids
<1> QED BY <1>4, <1>5, <1>6 DEF IsStart
-----------------------------------------------------------------------------
(* Levels.                                                                 *)

LEMMA SymbolLevel == ASSUME NEW w \in UNION {Grammar[i] : i \in DOMAIN Grammar} PROVE Tightness(w) \in 4 .. 22
<1>1. DOMAIN Grammar = 1 .. 10
  BY DEF Grammar
<1>2. PICK i \in 1 .. 10 : w \in Grammar[i]
  BY <1>1
<1> DEFINE k == CHOOSE j \in 1 .. 10 : w \in Grammar[j]
<1>3. k \in 1 .. 10
  BY <1>2
<1>4. Tightness(w) = 2 + 2 * k
  BY <1>1 DEF Tightness
<1> HIDE DEF k
<1> QED BY <1>3, <1>4, SMT

\* What has a form or is a leaf has a level of those there are, and its bound is no higher.
LEMMA Levels ==
  ASSUME NEW t, t.fix \in {"leaf", "type"} \/ (t.fix \in Fixes /\ t.sym \in Symbols(t))
  PROVE  Level(t) \in 2 .. 40 /\ Bound(t) \in 0 .. 40 /\ Bound(t) <= Level(t) /\ (t.fix = "binary" => Tightness(t.sym) \in 4 .. 22)
<1>1. t.fix = "binary" => Tightness(t.sym) \in 4 .. 22
  BY SymbolLevel DEF Symbols
<1>2. CASE t.fix = "binary"
  BY <1>1, <1>2 DEF Level, Bound
<1>3. CASE t.fix # "binary"
  BY <1>3 DEF Level, Bound
<1> QED BY <1>1, <1>2, <1>3

LEMMA NodeLevels ==
  ASSUME Rules, NEW n \in 1 .. Len(nodes)
  PROVE  Level(nodes[n]) \in 2 .. 40 /\ Bound(nodes[n]) \in 0 .. 40 /\ Bound(nodes[n]) <= Level(nodes[n])
<1>1. nodes[n].fix \in {"leaf", "type"} \/ IsForm(nodes, nodes[n])
  BY DEF Rules, Rule
<1>2. nodes[n].fix \in {"leaf", "type"} \/ (nodes[n].fix \in Fixes /\ nodes[n].sym \in Symbols(nodes[n]))
  BY <1>1 DEF IsForm
<1> QED BY <1>2, Levels

LEMMA InnerSmall == ASSUME NEW f, NEW p, IsStart(f, p) PROVE InnerBp(f) \in 0 .. 30
<1>1. f.fix = "binary" => Tightness(f.sym) \in 4 .. 22
  BY Levels DEF IsStart
<1> QED BY <1>1, SMT DEF InnerBp

LEMMA FrameTypes ==
  ASSUME Typed, NEW i \in 1 .. Len(frames)
  PROVE  /\ frames[i] \in FrameSet /\ frames[i].kids \in Seq(Nat) /\ Len(frames[i].kids) \in Nat
         /\ frames[i].from \in Nat /\ frames[i].min \in Nat /\ frames[i].fix \in Fixes /\ frames[i].sym \in Words
<1>1. frames[i] \in FrameSet
  BY ElementOfSeq DEF Typed
<1> QED BY <1>1, LenProperties DEF FrameSet

LEMMA MinSmall == ASSUME Typed, Waits PROVE min \in 0 .. 30
<1>1. Len(frames) \in Nat
  BY LenProperties DEF Typed
<1>2. CASE Len(frames) = 0
  BY <1>2 DEF Waits, MinOf
<1>3. CASE Len(frames) # 0
  <2>1. Len(frames) \in 1 .. Len(frames) /\ Len(frames) + 1 > Len(frames)
    BY <1>1, <1>3, SMT
  <2>2. min = InnerBp(frames[Len(frames)]) /\ IsStart(frames[Len(frames)], StartOf(Len(frames) + 1))
    BY <2>1 DEF Waits, MinOf
  <2> QED BY <2>2, InnerSmall
<1> QED BY <1>2, <1>3
-----------------------------------------------------------------------------
(* A step opens an expression around the next operand, makes one, ends the *)
(* one that waits, or gives it another operand.                            *)

LEMMA OpenKeeps ==
  ASSUME Typed, Waits, outcome = "none", Rules', Grows, nodes' \in Seq(NodeSet),
         NEW fix \in Fixes, NEW sym \in Words, NEW kids \in Seq(Nat), NEW p \in 1 .. Len(input), NEW bp \in Nat,
         Operand(fix, sym, kids, p, bp),
         NEW f, f = [fix |-> fix, sym |-> sym, kids |-> kids, from |-> start, min |-> min],
         IsStart(f, p)', bp = InnerBp(f), Level(f) >= min
  PROVE  ParseInv'
<1> PICK m : m = Len(frames)
  OBVIOUS
<1>1. /\ frames' = Append(frames, f) /\ at' = p /\ min' = bp /\ start' = p /\ lhs' = 0
      /\ input' = input /\ outcome' = outcome
  BY DEF Operand, Call
<1>2. frames \in Seq(FrameSet) /\ f \in FrameSet /\ m \in Nat
  BY LenProperties DEF Typed, FrameSet
<1>3. /\ frames' \in Seq(FrameSet) /\ Len(frames') = m + 1 /\ frames'[m + 1] = f
      /\ \A i \in 1 .. m : frames'[i] = frames[i]
  BY <1>1, <1>2, AppendProperties
<1>4. Typed'
  <2>1. Len(nodes') \in Nat
    BY LenProperties
  <2>2. 0 \in 0 .. Len(nodes')
    BY <2>1, SMT
  <2>3. p \in Nat
    BY SMT
  <2> QED BY <1>1, <1>3, <2>2, <2>3 DEF Typed
<1>5. ASSUME NEW i \in 1 .. m + 1 PROVE StartOf(i)' = StartOf(i) /\ MinOf(i)' = MinOf(i)
  <2>1. CASE i = m + 1
    <3>1. ~ (i > Len(frames')) /\ i > Len(frames)
      BY <1>2, <1>3, <2>1, SMT
    <3>2. f.from = start /\ f.min = min
      OBVIOUS
    <3> QED BY <1>3, <2>1, <3>1, <3>2 DEF StartOf, MinOf
  <2>2. CASE i \in 1 .. m
    <3>1. ~ (i > Len(frames')) /\ ~ (i > Len(frames))
      BY <1>2, <1>3, <2>2, SMT
    <3> QED BY <1>3, <2>2, <3>1 DEF StartOf, MinOf
  <2>3. i = m + 1 \/ i \in 1 .. m
    BY <1>2, SMT
  <2> QED BY <2>1, <2>2, <2>3
<1>6. StartOf(m + 2)' = p /\ MinOf(m + 2)' = bp
  <2>1. m + 2 > Len(frames')
    BY <1>2, <1>3, SMT
  <2> QED BY <1>1, <2>1 DEF StartOf, MinOf
<1>7. ASSUME NEW i \in 1 .. m + 1, NEW g, NEW s, g = frames'[i], s = StartOf(i + 1)'
      PROVE  IsStart(g, s)' /\ MinOf(i + 1)' = InnerBp(g) /\ Level(g) >= MinOf(i)'
  <2>1. CASE i = m + 1
    <3>1. g = f /\ i + 1 > Len(frames') /\ ~ (i > Len(frames')) /\ f.min = min
      BY <1>2, <1>3, <1>7, <2>1, SMT
    <3>2. s = p /\ MinOf(i + 1)' = bp
      BY <1>1, <1>7, <3>1 DEF StartOf, MinOf
    <3>3. MinOf(i)' = min
      BY <1>7, <3>1 DEF MinOf
    <3> QED BY <3>1, <3>2, <3>3
  <2>2. CASE i \in 1 .. m
    <3>1. i + 1 \in 1 .. m + 1
      BY <1>2, <2>2, SMT
    <3>2. StartOf(i + 1)' = StartOf(i + 1) /\ MinOf(i + 1)' = MinOf(i + 1) /\ MinOf(i)' = MinOf(i)
      BY <1>5, <2>2, <3>1
    <3>3. IsStart(g, s) /\ MinOf(i + 1) = InnerBp(g) /\ Level(g) >= MinOf(i)
      BY <1>3, <1>7, <2>2, <3>2 DEF Waits
    <3>4. Len(g.kids) \in Nat
      BY <1>3, <1>7, <2>2, FrameTypes
    <3> QED BY <3>2, <3>3, <3>4, StartStays
  <2>3. i = m + 1 \/ i \in 1 .. m
    BY <1>2, SMT
  <2> QED BY <2>1, <2>2, <2>3
<1>8. 1 \in 1 .. m + 1 /\ StartOf(1)' = 1 /\ MinOf(1)' = 0
  <2>1. 1 \in 1 .. m + 1
    BY <1>2, SMT
  <2> QED BY <1>5, <2>1 DEF Waits
<1>9. Len(frames') = m + 1
  BY <1>3
<1>10. Waits'
  BY <1>7, <1>8, <1>9 DEF Waits
<1>11. AtHand'
  BY <1>1 DEF AtHand
<1> QED BY <1>1, <1>4, <1>10, <1>11 DEF ParseInv

LEMMA WaitsStay == ASSUME Typed, Waits, Grows, UNCHANGED <<frames, min, start>> PROVE Waits'
<1>1. \A i : StartOf(i)' = StartOf(i) /\ MinOf(i)' = MinOf(i)
  BY DEF StartOf, MinOf
<1>2. ASSUME NEW i \in 1 .. Len(frames), NEW f, NEW p, f = frames[i], p = StartOf(i + 1)
      PROVE  IsStart(f, p)' /\ MinOf(i + 1) = InnerBp(f) /\ Level(f) >= MinOf(i)
  <2>1. IsStart(f, p) /\ MinOf(i + 1) = InnerBp(f) /\ Level(f) >= MinOf(i)
    BY <1>2 DEF Waits
  <2>2. Len(f.kids) \in Nat
    BY <1>2, FrameTypes
  <2> QED BY <2>1, <2>2, StartStays
<1> QED BY <1>1, <1>2 DEF Waits

LEMMA AnExpression ==
  ASSUME Rules, Typed, NEW n \in 1 .. Len(nodes)
  PROVE  Level(nodes[n]) \in 2 .. 40 /\ Bound(nodes[n]) <= Level(nodes[n]) /\ HasKids(nodes[n])
<1>1. Len(nodes) \in Nat /\ Len(nodes[n].kids) \in Nat
  BY NodeTypes
<1>2. \A k \in 1 .. n - 1 : k \in 1 .. Len(nodes)
  BY <1>1, SMT
<1> QED BY <1>1, <1>2, NodeLevels DEF Rules, Rule, HasKids

\* New expressions come behind those there are.
LEMMA Longer ==
  ASSUME Typed, NEW new \in Seq(NodeSet), nodes' = nodes \o new, input' = input
  PROVE  /\ Grows /\ nodes' \in Seq(NodeSet) /\ Len(nodes') = Len(nodes) + Len(new) /\ Len(nodes) \in Nat /\ Len(new) \in Nat
         /\ \A k \in 1 .. Len(new) : nodes'[Len(nodes) + k] = new[k]
<1>1. nodes \in Seq(NodeSet)
  BY DEF Typed
<1>2. /\ nodes' \in Seq(NodeSet) /\ Len(nodes') = Len(nodes) + Len(new)
      /\ \A i \in 1 .. Len(nodes) + Len(new) : nodes'[i] = IF i <= Len(nodes) THEN nodes[i] ELSE new[i - Len(nodes)]
  BY <1>1, ConcatProperties
<1>3. Len(nodes) \in Nat /\ Len(new) \in Nat
  BY <1>1, LenProperties
<1>4. ASSUME NEW i \in 1 .. Len(nodes) PROVE nodes'[i] = nodes[i]
  <2>1. i \in 1 .. Len(nodes) + Len(new) /\ i <= Len(nodes)
    BY <1>3, SMT
  <2> QED BY <1>2, <2>1
<1>5. ASSUME NEW k \in 1 .. Len(new) PROVE nodes'[Len(nodes) + k] = new[k]
  <2>1. Len(nodes) + k \in 1 .. Len(nodes) + Len(new) /\ ~ (Len(nodes) + k <= Len(nodes)) /\ Len(nodes) + k - Len(nodes) = k
    BY <1>3, SMT
  <2> QED BY <1>2, <2>1
<1>6. Len(nodes') >= Len(nodes)
  BY <1>2, <1>3, SMT
<1> QED BY <1>2, <1>3, <1>4, <1>5, <1>6 DEF Grows

LEMMA RuleOf ==
  ASSUME NEW n, NEW t, nodes'[n] = t, \A i \in 1 .. Len(t.kids) : t.kids[i] \in 1 .. n - 1,
         IF t.fix \in {"leaf", "type"} THEN IsLeaf(t)' ELSE IsForm(nodes, t)'
  PROVE  Rule(nodes, n)'
<1>1. (IsForm(nodes, nodes[n]))' <=> (IsForm(nodes, t))'
  BY DEF IsForm, IsOperand, Behind, Kid, Spelled, Is
<1>2. (IsLeaf(nodes[n]))' <=> (IsLeaf(t))'
  BY DEF IsLeaf, Is, IsType
<1> QED BY <1>1, <1>2 DEF Rule

LEMMA PowerSmall == ASSUME NEW w PROVE Power(w) <= 40
<1> PICK e : e = Power(w)
  OBVIOUS
<1>1. e \in {40} \cup {0, 2, 3} \cup 4 .. 22
  BY Powers
<1>2. e <= 40
  BY <1>1, SMT
<1> QED BY <1>2

LEMMA YieldKeeps ==
  ASSUME ParseInv, outcome = "none", NEW new \in Seq(NodeSet), new # <<>>, NEW p \in 1 .. Len(input), Yield(new, p),
         \A n \in Len(nodes) + 1 .. Len(nodes) + Len(new) : Rule(nodes, n)',
         NEW t, t = new[Len(new)], t.from = start, t.to = p, t.fix # "type", Level(t) = 40, Bound(t) = 40
  PROVE  ParseInv'
<1>1. Typed /\ Rules /\ Waits
  BY DEF ParseInv
<1>2. /\ nodes' = nodes \o new /\ lhs' = Len(nodes) + Len(new) /\ at' = p /\ input' = input
      /\ outcome' = outcome /\ UNCHANGED <<frames, min, start>>
  BY DEF Yield
<1>3. /\ Grows /\ nodes' \in Seq(NodeSet) /\ Len(nodes') = Len(nodes) + Len(new) /\ Len(nodes) \in Nat /\ Len(new) \in Nat
      /\ \A k \in 1 .. Len(new) : nodes'[Len(nodes) + k] = new[k]
  BY <1>1, <1>2, Longer
<1>4. Len(new) # 0
  BY EmptySeq
<1>5. lhs' \in 0 .. Len(nodes') /\ lhs' # 0 /\ Len(new) \in 1 .. Len(new)
  BY <1>2, <1>3, <1>4, SMT
<1>6. Typed'
  BY <1>1, <1>2, <1>3, <1>5 DEF Typed
<1>7. Rules'
  BY <1>1, <1>3, RulesGrow
<1>8. Waits'
  BY <1>1, <1>2, <1>3, WaitsStay
<1>9. nodes'[lhs'] = t
  BY <1>2, <1>3, <1>5
<1>10. min' \in 0 .. 30
  BY <1>1, <1>2, MinSmall
<1>11. Power(Word)' <= 40
  BY PowerSmall
<1>12. AtHand'
  <2>1. Level(t) >= min'
    BY <1>10, SMT
  <2>2. Power(Word)' <= Bound(t)
    BY <1>11
  <2> QED BY <1>2, <1>5, <1>9, <2>1, <2>2 DEF AtHand
<1> QED BY <1>2, <1>6, <1>7, <1>8, <1>12 DEF ParseInv
-----------------------------------------------------------------------------
(* The operand is read: what waits for it.                                 *)

LEMMA OperandIsRead ==
  ASSUME ParseInv, Looping
  PROVE  /\ Typed /\ Rules /\ Waits /\ lhs \in 1 .. Len(nodes) /\ Len(nodes) \in Nat
         /\ nodes[lhs].from = start /\ nodes[lhs].to = at /\ nodes[lhs].fix # "type"
         /\ Level(nodes[lhs]) \in 2 .. 40 /\ Level(nodes[lhs]) >= min /\ min \in 0 .. 30
         /\ Power(Word) <= Bound(nodes[lhs]) /\ Bound(nodes[lhs]) <= Level(nodes[lhs])
<1>1. Typed /\ Rules /\ Waits /\ AtHand /\ lhs # 0
  BY DEF ParseInv, Looping
<1>2. lhs \in 1 .. Len(nodes) /\ Len(nodes) \in Nat
  <2>1. Len(nodes) \in Nat /\ lhs \in 0 .. Len(nodes)
    BY <1>1, LenProperties DEF Typed
  <2> QED BY <1>1, <2>1, SMT
<1>3. min \in 0 .. 30
  BY <1>1, MinSmall
<1> QED BY <1>1, <1>2, <1>3, AnExpression DEF AtHand

LEMMA TopFacts ==
  ASSUME ParseInv, Back, NEW f, f = Top, NEW m, m = Len(frames)
  PROVE  /\ m \in Nat \ {0} /\ f = frames[m] /\ f \in FrameSet /\ f.kids \in Seq(Nat) /\ Len(f.kids) \in Nat
         /\ f.from \in Nat /\ f.min \in Nat /\ f.fix \in Fixes /\ f.sym \in Words
         /\ IsStart(f, start) /\ min = InnerBp(f) /\ Level(f) >= f.min
<1>1. Typed /\ Waits /\ frames # <<>>
  BY OperandIsRead DEF Back, Left
<1>2. m \in Nat /\ m # 0
  BY <1>1, LenProperties, EmptySeq DEF Typed
<1>3. m \in 1 .. Len(frames) /\ m + 1 > Len(frames) /\ ~ (m > Len(frames))
  BY <1>2, SMT
<1>4. start = StartOf(m + 1) /\ MinOf(m + 1) = min /\ MinOf(m) = frames[m].min
  BY <1>3 DEF StartOf, MinOf
<1>5. f = frames[m]
  BY DEF Top
<1>6. IsStart(f, start) /\ min = InnerBp(f) /\ Level(f) >= f.min
  BY <1>1, <1>3, <1>4, <1>5 DEF Waits
<1> QED BY <1>1, <1>2, <1>3, <1>5, <1>6, FrameTypes

\* An operand that was read with the power an expression asks for is on a level it may have there.
LEMMA InnerFits ==
  ASSUME NEW f, NEW p, IsStart(f, p), Len(f.kids) \in Nat, NEW x \in Nat, x >= InnerBp(f), x >= 2
  PROVE  x >= Least(f, Len(f.kids) + 1)
<1> DEFINE i == Len(f.kids) + 1
<1>1. /\ f.fix \in {"prefix", "sizeof", "group", "cast", "index", "call", "assign", "ternary", "binary"}
      /\ f.fix \in {"cast", "index", "call", "assign", "ternary", "binary"} => i # 1
  <2>1. f.fix \in Fixes \ {"postfix", "field"} /\ Len(f.kids) \in Waiting(f)
    BY DEF IsStart
  <2>2. f.fix \in {"prefix", "sizeof", "group", "cast", "index", "call", "assign", "ternary", "binary"}
    BY <2>1 DEF Fixes
  <2>3. f.fix \in {"cast", "index", "call", "assign", "ternary", "binary"} => Len(f.kids) # 0
    BY <2>1 DEF Waiting
  <2> QED BY <2>2, <2>3, SMT
<1> HIDE DEF i
<1>2. x >= Least(f, i)
  <2>1. CASE f.fix = "binary"
    BY <1>1, <2>1 DEF Least, InnerBp
  <2>2. CASE f.fix \in {"prefix", "cast"}
    BY <1>1, <2>2 DEF Least, InnerBp
  <2>3. CASE f.fix \in {"sizeof", "group", "index", "call", "assign", "ternary"}
    <3>1. Least(f, i) = 2
      BY <1>1, <2>3 DEF Least
    <3> QED BY <3>1
  <2> QED BY <1>1, <2>1, <2>2, <2>3
<1> QED BY <1>2 DEF i

\* What an expression is to its operands: with one more, the earlier ones are what they were.
LEMMA SameOperand ==
  ASSUME NEW f, NEW t, t.fix = f.fix, t.sym = f.sym, t.from = f.from,
         NEW i \in Nat \ {0}, t.kids[i] = f.kids[i], i # 1 => t.kids[i - 1] = f.kids[i - 1], IsOperand(nodes, f, i)
  PROVE  IsOperand(nodes, t, i)
<1>1. Kid(nodes, t, i) = Kid(nodes, f, i)
  BY DEF Kid
<1>2. Behind(nodes, t, i - 1) = Behind(nodes, f, i - 1)
  BY DEF Behind, Kid
<1>3. Lead(t, i) = Lead(f, i) /\ Least(t, i) = Least(f, i)
  BY DEF Lead, Least
<1> QED BY <1>1, <1>2, <1>3 DEF IsOperand

LEMMA NextOperand ==
  ASSUME ParseInv, Back, NEW f, f = Top, NEW t, t.fix = f.fix, t.sym = f.sym, t.from = f.from, t.kids = Kids
  PROVE  /\ Kids \in Seq(Nat) /\ Len(Kids) = Len(f.kids) + 1
         /\ HasKids(t) /\ \A i \in 1 .. Len(t.kids) : IsOperand(nodes, t, i)
         /\ Behind(nodes, t, Len(t.kids)) = at
<1> DEFINE n == Len(f.kids)
<1>1. /\ Typed /\ lhs \in 1 .. Len(nodes) /\ Len(nodes) \in Nat
      /\ nodes[lhs].from = start /\ nodes[lhs].to = at /\ nodes[lhs].fix # "type"
      /\ Level(nodes[lhs]) \in 2 .. 40 /\ Level(nodes[lhs]) >= min
  BY OperandIsRead DEF Back, Left
<1>2. f.kids \in Seq(Nat) /\ n \in Nat /\ IsStart(f, start) /\ min = InnerBp(f)
  BY TopFacts
<1>3. lhs \in Nat
  BY <1>1, SMT
<1>4. Kids = Append(f.kids, lhs)
  BY DEF Kids
<1>5. /\ Kids \in Seq(Nat) /\ Len(Kids) = n + 1 /\ Kids[n + 1] = lhs
      /\ \A i \in 1 .. n : Kids[i] = f.kids[i]
  BY <1>2, <1>3, <1>4, AppendProperties
<1> HIDE DEF n
<1>6. \A i \in 1 .. n : f.kids[i] \in 1 .. Len(nodes) /\ IsOperand(nodes, f, i)
  BY <1>2 DEF IsStart, n
<1>7. \A i \in 1 .. n + 1 : i \in 1 .. n \/ i = n + 1
  BY <1>2, SMT DEF n
<1>8. HasKids(t)
  <2>1. Len(t.kids) = n + 1 /\ n + 1 \in Nat
    BY <1>2, <1>5, SMT DEF n
  <2>2. ASSUME NEW i \in 1 .. n + 1 PROVE t.kids[i] \in 1 .. Len(nodes)
    BY <1>1, <1>5, <1>6, <1>7
  <2> QED BY <2>1, <2>2 DEF HasKids
<1>9. ASSUME NEW i \in 1 .. n PROVE IsOperand(nodes, t, i)
  <2>1. i \in Nat \ {0} /\ (i # 1 => i - 1 \in 1 .. n)
    BY <1>2, SMT
  <2>2. t.kids[i] = f.kids[i] /\ (i # 1 => t.kids[i - 1] = f.kids[i - 1])
    BY <1>5, <2>1
  <2> QED BY <1>6, <2>1, <2>2, SameOperand
<1>10. IsOperand(nodes, t, n + 1)
  <2>1. Behind(nodes, t, n) = Behind(nodes, f, n)
    <3>1. CASE n = 0
      BY <3>1 DEF Behind
    <3>2. CASE n # 0
      <4>1. n \in 1 .. n
        BY <1>2, <3>2, SMT
      <4> QED BY <1>5, <3>2, <4>1 DEF Behind, Kid
    <3> QED BY <3>1, <3>2
  <2>2. Kid(nodes, t, n + 1) = nodes[lhs]
    BY <1>5 DEF Kid
  <2>3. Spelled(Behind(nodes, f, n), start, Lead(f, n + 1))
    BY <1>2 DEF IsStart, n
  <2>4. Lead(t, n + 1) = Lead(f, n + 1) /\ Least(t, n + 1) = Least(f, n + 1)
    BY DEF Lead, Least
  <2>5. Level(nodes[lhs]) >= Least(f, n + 1)
    <3>1. \A x \in 2 .. 40 : x \in Nat /\ x >= 2
      BY SMT
    <3>2. Level(nodes[lhs]) >= InnerBp(f)
      BY <1>1, <1>2
    <3> QED BY <1>1, <1>2, <3>1, <3>2, InnerFits DEF n
  <2>6. (n + 1) - 1 = n /\ (f.fix = "cast" => n + 1 # 1) /\ f.fix # "field"
    <3>1. f.fix # "field" /\ n \in Waiting(f)
      BY <1>2 DEF IsStart, n
    <3>2. f.fix = "cast" => n = 1
      BY <3>1 DEF Waiting
    <3> QED BY <1>2, <3>1, <3>2, SMT
  <2> QED BY <1>1, <2>1, <2>2, <2>3, <2>4, <2>5, <2>6 DEF IsOperand
<1>11. Behind(nodes, t, Len(t.kids)) = at
  <2>1. n + 1 # 0
    BY <1>2, SMT
  <2> QED BY <1>1, <1>5, <2>1 DEF Behind, Kid
<1> QED BY <1>5, <1>7, <1>8, <1>9, <1>10, <1>11 DEF n

LEMMA EndKeeps ==
  ASSUME ParseInv, Back, NEW f, f = Top, NEW p \in 1 .. Len(input), End(p),
         NEW t, t = Made(f.fix, f.sym, Kids, f.from, p),
         Len(Kids) \in Arity(t), Spelled(at, p, Close(t)), Power(Word)' <= Bound(t)
  PROVE  ParseInv'
<1> PICK m : m = Len(frames)
  OBVIOUS
<1>1. /\ Typed /\ Rules /\ Waits /\ lhs \in 1 .. Len(nodes) /\ outcome = "none"
  BY OperandIsRead DEF Back, Left, Looping
<1>2. /\ m \in Nat \ {0} /\ f = frames[m] /\ f \in FrameSet /\ f.kids \in Seq(Nat) /\ Len(f.kids) \in Nat
      /\ f.from \in Nat /\ f.min \in Nat /\ f.fix \in Fixes /\ f.sym \in Words /\ IsStart(f, start) /\ Level(f) >= f.min
  BY TopFacts
<1>3. /\ t.fix = f.fix /\ t.sym = f.sym /\ t.kids = Kids /\ t.from = f.from /\ t.to = p
      /\ t = [fix |-> f.fix, sym |-> f.sym, kids |-> Kids, from |-> f.from, to |-> p]
  BY DEF Made
<1>4. /\ Kids \in Seq(Nat) /\ HasKids(t) /\ Behind(nodes, t, Len(t.kids)) = at
      /\ \A i \in 1 .. Len(t.kids) : IsOperand(nodes, t, i)
  BY <1>3, NextOperand
<1>5. p \in Nat /\ t \in NodeSet
  <2>1. p \in Nat
    BY SMT
  <2> QED BY <1>2, <1>3, <1>4, <2>1 DEF NodeSet
<1>6. /\ nodes' = Append(nodes, t) /\ lhs' = Len(nodes) + 1 /\ at' = p /\ min' = f.min /\ start' = f.from
      /\ frames' = SubSeq(frames, 1, m - 1) /\ input' = input /\ outcome' = outcome
  BY DEF End
<1>7. /\ nodes' \in Seq(NodeSet) /\ Len(nodes') = Len(nodes) + 1 /\ nodes'[Len(nodes) + 1] = t /\ Len(nodes) \in Nat
      /\ \A i \in 1 .. Len(nodes) : nodes'[i] = nodes[i]
  BY <1>1, <1>5, <1>6, AppendProperties, LenProperties DEF Typed
<1>8. /\ Grows /\ lhs' \in 0 .. Len(nodes') /\ lhs' # 0
  BY <1>6, <1>7, SMT DEF Grows
<1>9. /\ frames' \in Seq(FrameSet) /\ Len(frames') = m - 1 /\ \A i \in 1 .. m - 1 : frames'[i] = frames[i]
  <2>1. frames \in Seq(FrameSet)
    BY <1>1 DEF Typed
  <2>2. 1 \in 1 .. m + 1 /\ m - 1 \in 0 .. m /\ m - 1 - 1 + 1 = m - 1 /\ m - 1 \in Nat
    BY <1>2, SMT
  <2>3. frames' = [i \in 1 .. m - 1 |-> frames[i]]
    <3>1. \A i \in 1 .. m - 1 : i + 1 - 1 = i
      BY <1>2, SMT
    <3> QED BY <1>6, <2>1, <2>2, <3>1, SMT
  <2>4. \A i \in 1 .. m - 1 : i \in 1 .. m
    BY <1>2, SMT
  <2>5. \A i \in 1 .. m - 1 : frames[i] \in FrameSet
    BY <2>1, <2>4, ElementOfSeq
  <2> QED BY <2>2, <2>3, <2>5, SMT
<1>10. Typed'
  BY <1>1, <1>2, <1>5, <1>6, <1>7, <1>8, <1>9 DEF Typed
<1>11. IsForm(nodes, t)
  <2>1. f.fix \in Fixes /\ f.sym \in Symbols(f) /\ Symbols(t) = Symbols(f)
    <3>1. Symbols(t) = Symbols(f)
      BY <1>3 DEF Symbols
    <3> QED BY <1>2, <3>1 DEF IsStart
  <2> QED BY <1>3, <1>4, <2>1 DEF IsForm
<1>12. Rules'
  <2>1. IsForm(nodes, t)'
    BY <1>4, <1>8, <1>11, FormStays
  <2>2. t.fix \notin {"leaf", "type"}
    BY <1>11 DEF IsForm, Fixes
  <2>3. ASSUME NEW n \in Len(nodes) + 1 .. Len(nodes') PROVE Rule(nodes, n)'
    <3>1. n = Len(nodes) + 1 /\ n - 1 = Len(nodes)
      BY <1>7, SMT
    <3> QED BY <1>4, <1>7, <2>1, <2>2, <3>1, RuleOf DEF HasKids
  <2> QED BY <1>1, <1>8, <2>3, RulesGrow
<1>13. Waits'
  <2>1. ASSUME NEW i \in 1 .. m PROVE StartOf(i)' = StartOf(i) /\ MinOf(i)' = MinOf(i)
    <3>1. CASE i = m
      <4>1. i > Len(frames') /\ ~ (i > Len(frames))
        BY <1>2, <1>9, <3>1, SMT
      <4> QED BY <1>2, <1>6, <3>1, <4>1 DEF StartOf, MinOf
    <3>2. CASE i \in 1 .. m - 1
      <4>1. ~ (i > Len(frames')) /\ ~ (i > Len(frames))
        BY <1>2, <1>9, <3>2, SMT
      <4> QED BY <1>9, <3>2, <4>1 DEF StartOf, MinOf
    <3>3. i = m \/ i \in 1 .. m - 1
      BY <1>2, SMT
    <3> QED BY <3>1, <3>2, <3>3
  <2>2. StartOf(1)' = 1 /\ MinOf(1)' = 0
    <3>1. 1 \in 1 .. m
      BY <1>2, SMT
    <3> QED BY <1>1, <2>1, <3>1 DEF Waits
  <2>3. ASSUME NEW i \in 1 .. m - 1, NEW g, NEW s, g = frames'[i], s = StartOf(i + 1)'
        PROVE  IsStart(g, s)' /\ MinOf(i + 1)' = InnerBp(g) /\ Level(g) >= MinOf(i)'
    <3>1. i \in 1 .. m /\ i + 1 \in 1 .. m
      BY <1>2, SMT
    <3>2. g = frames[i] /\ s = StartOf(i + 1) /\ MinOf(i + 1)' = MinOf(i + 1) /\ MinOf(i)' = MinOf(i)
      BY <1>9, <2>1, <2>3, <3>1
    <3>3. IsStart(g, s) /\ MinOf(i + 1) = InnerBp(g) /\ Level(g) >= MinOf(i) /\ Len(g.kids) \in Nat
      BY <1>1, <3>1, <3>2, FrameTypes DEF Waits
    <3> QED BY <1>1, <1>8, <3>2, <3>3, StartStays
  <2> QED BY <1>9, <2>2, <2>3 DEF Waits
<1>14. AtHand'
  <2>1. nodes'[lhs'] = t
    BY <1>6, <1>7
  <2>2. t.fix # "type"
    BY <1>11 DEF IsForm, Fixes
  <2>3. Level(t) = Level(f)
    BY <1>3 DEF Level
  <2> QED BY <1>2, <1>3, <1>6, <1>8, <2>1, <2>2, <2>3 DEF AtHand
<1> QED BY <1>1, <1>6, <1>10, <1>12, <1>13, <1>14 DEF ParseInv

LEMMA AnotherKeeps ==
  ASSUME ParseInv, Back, NEW f, f = Top, Another, NEW w, Is(at, w),
         NEW g, g = [f EXCEPT !.kids = Kids], Len(Kids) \in Waiting(g), Lead(g, Len(Kids) + 1) = <<w>>, InnerBp(g) = 0
  PROVE  ParseInv'
<1> PICK m : m = Len(frames)
  OBVIOUS
<1>1. /\ Typed /\ Rules /\ Waits /\ lhs \in 1 .. Len(nodes) /\ outcome = "none" /\ Len(nodes) \in Nat
  BY OperandIsRead DEF Back, Left, Looping
<1>2. /\ m \in Nat \ {0} /\ f = frames[m] /\ f \in FrameSet /\ IsStart(f, start) /\ Level(f) >= f.min /\ f.min \in Nat
  BY TopFacts
<1>3. /\ g.fix = f.fix /\ g.sym = f.sym /\ g.kids = Kids /\ g.from = f.from /\ g.min = f.min
  BY <1>2 DEF FrameSet
<1>4. /\ Kids \in Seq(Nat) /\ HasKids(g) /\ Behind(nodes, g, Len(g.kids)) = at
      /\ \A i \in 1 .. Len(g.kids) : IsOperand(nodes, g, i)
  BY <1>3, NextOperand
<1>5. g \in FrameSet
  BY <1>2, <1>4 DEF FrameSet
<1>6. /\ frames' = [frames EXCEPT ![m].kids = Kids] /\ at' = at + 1 /\ min' = 0 /\ start' = at + 1 /\ lhs' = 0
      /\ input' = input /\ outcome' = outcome /\ nodes' = nodes
  BY DEF Another, Call
<1>7. Grows
  BY <1>1, <1>6, SMT DEF Grows
<1>8. /\ frames' \in Seq(FrameSet) /\ Len(frames') = m /\ frames'[m] = g /\ m \in 1 .. m
      /\ \A i \in 1 .. m - 1 : frames'[i] = frames[i]
  <2>1. frames \in Seq(FrameSet) /\ frames = [i \in 1 .. m |-> frames[i]] /\ m \in 1 .. m
    BY <1>1, <1>2, SMT DEF Typed
  <2>2. frames' = [frames EXCEPT ![m] = g]
    BY <1>2, <1>6
  <2>3. \A i \in 1 .. m - 1 : i \in 1 .. m /\ i # m
    BY <1>2, SMT
  <2>4. frames' \in Seq(FrameSet) /\ Len(frames') = m
    BY <1>5, <2>1, <2>2, ExceptSeq
  <2> QED BY <2>1, <2>2, <2>3, <2>4
<1>9. at + 1 \in 1 .. Len(input) /\ at \in Int
  <2>1. at \in 1 .. Len(input) /\ input[at].kind # "eof"
    BY <1>1, WordsAreThere DEF Typed
  <2>2. at \in Int
    BY <2>1, SMT
  <2> QED BY <1>1, <2>1, <2>2, NotLast
<1>10. Typed'
  <2>1. 0 \in 0 .. Len(nodes) /\ at + 1 \in Nat
    BY <1>1, <1>9, SMT
  <2> QED BY <1>1, <1>6, <1>8, <1>9, <2>1 DEF Typed
<1> PICK p : p = at + 1
  OBVIOUS
<1>11. IsStart(g, p)
  <2>1. g.fix \in Fixes \ {"postfix", "field"} /\ g.sym \in Symbols(g)
    <3>1. Symbols(g) = Symbols(f)
      BY <1>3 DEF Symbols
    <3> QED BY <1>2, <1>3, <3>1 DEF IsStart
  <2>2. Spelled(at, p, <<w>>)
    BY <1>9, SpellsOne
  <2> QED BY <1>3, <1>4, <2>1, <2>2 DEF IsStart, HasKids
<1>12. IsStart(g, p)'
  <2>1. Len(g.kids) \in Nat
    BY <1>4 DEF HasKids
  <2> QED BY <1>1, <1>7, <1>11, <2>1, StartStays
<1>13. Rules'
  <2>1. \A n \in Len(nodes) + 1 .. Len(nodes') : Rule(nodes, n)'
    BY <1>1, <1>6, SMT
  <2> QED BY <1>1, <1>7, <2>1, RulesGrow
<1>14. Waits'
  <2>1. ASSUME NEW i \in 1 .. m PROVE StartOf(i)' = StartOf(i) /\ MinOf(i)' = MinOf(i)
    <3>1. ~ (i > Len(frames')) /\ ~ (i > Len(frames)) /\ (i = m \/ i \in 1 .. m - 1)
      BY <1>2, <1>8, SMT
    <3>2. frames'[i].from = frames[i].from /\ frames'[i].min = frames[i].min
      BY <1>2, <1>3, <1>8, <3>1
    <3> QED BY <3>1, <3>2 DEF StartOf, MinOf
  <2>2. StartOf(1)' = 1 /\ MinOf(1)' = 0
    <3>1. 1 \in 1 .. m
      BY <1>2, SMT
    <3> QED BY <1>1, <2>1, <3>1 DEF Waits
  <2>3. ASSUME NEW i \in 1 .. m, NEW h, NEW s, h = frames'[i], s = StartOf(i + 1)'
        PROVE  IsStart(h, s)' /\ MinOf(i + 1)' = InnerBp(h) /\ Level(h) >= MinOf(i)'
    <3>1. CASE i = m
      <4>1. i + 1 > Len(frames') /\ h = g
        BY <1>2, <1>8, <2>3, <3>1, SMT
      <4>2. s = p /\ MinOf(i + 1)' = 0
        BY <1>6, <2>3, <4>1 DEF StartOf, MinOf
      <4>3. MinOf(i)' = f.min
        <5>1. ~ (m > Len(frames))
          BY <1>2, SMT
        <5>2. MinOf(m) = f.min
          BY <1>2, <5>1 DEF MinOf
        <5> QED BY <2>1, <3>1, <5>2
      <4>4. Level(g) = Level(f)
        BY <1>3 DEF Level
      <4> QED BY <1>2, <1>12, <4>1, <4>2, <4>3, <4>4
    <3>2. CASE i \in 1 .. m - 1
      <4>1. i + 1 \in 1 .. m
        BY <1>2, <3>2, SMT
      <4>2. h = frames[i] /\ s = StartOf(i + 1) /\ MinOf(i + 1)' = MinOf(i + 1) /\ MinOf(i)' = MinOf(i)
        BY <1>8, <2>1, <2>3, <3>2, <4>1
      <4>3. IsStart(h, s) /\ MinOf(i + 1) = InnerBp(h) /\ Level(h) >= MinOf(i) /\ Len(h.kids) \in Nat
        BY <1>1, <4>2, FrameTypes DEF Waits
      <4> QED BY <1>1, <1>7, <4>2, <4>3, StartStays
    <3>3. i = m \/ i \in 1 .. m - 1
      BY <1>2, SMT
    <3> QED BY <3>1, <3>2, <3>3
  <2> QED BY <1>8, <2>2, <2>3 DEF Waits
<1>15. AtHand'
  BY <1>6 DEF AtHand
<1> QED BY <1>1, <1>6, <1>10, <1>13, <1>14, <1>15 DEF ParseInv

\* The parser stops where there is no operand or a token is missing.
LEMMA RefuseKeeps ==
  ASSUME ParseInv, NEW p \in 1 .. Len(input), NEW what \in {"UnexpectedToken", "UnexpectedEof"}, Refuse(p, what)
  PROVE  ParseInv'
<1>1. Typed /\ Rules /\ Len(nodes) \in Nat
  BY LenProperties DEF ParseInv, Typed
<1>2. UNCHANGED <<input, min, start, lhs, frames, nodes>> /\ at' = p /\ outcome' = what
  BY DEF Refuse
<1>3. Typed'
  BY <1>1, <1>2 DEF Typed
<1>4. Grows /\ \A n \in Len(nodes) + 1 .. Len(nodes') : Rule(nodes, n)'
  BY <1>1, <1>2, SMT DEF Grows
<1>5. Rules'
  BY <1>1, <1>4, RulesGrow
<1> QED BY <1>2, <1>3, <1>5 DEF ParseInv

LEMMA UnexpectedKeeps == ASSUME ParseInv, NEW p \in 1 .. Len(input), Unexpected(p) PROVE ParseInv'
BY RefuseKeeps DEF Unexpected
-----------------------------------------------------------------------------
(* parse_prefix.                                                           *)

LEMMA NextToken ==
  ASSUME Typed, NEW p \in 1 .. Len(input), NEW w, Is(p, w)
  PROVE  p + 1 \in 1 .. Len(input) /\ p \in Int /\ Spelled(p, p + 1, <<w>>)
<1>1. input[p].kind # "eof"
  BY WordsAreThere
<1>2. p \in Int
  BY SMT
<1> QED BY <1>1, <1>2, NotLast, SpellsOne

LEMMA Empties == <<>> \in Seq(Nat) /\ <<>> \in Words /\ Len(<<>>) = 0
BY DEF Words

LEMMA NewNode ==
  ASSUME NEW fix \in Fixes \cup {"leaf", "type"}, NEW sym \in Words, NEW kids \in Seq(Nat), NEW p \in Nat, NEW q \in Nat
  PROVE  Made(fix, sym, kids, p, q) \in NodeSet
BY DEF Made, NodeSet

LEMMA OpenSame ==
  ASSUME ParseInv, outcome = "none", UNCHANGED nodes,
         NEW fix \in Fixes, NEW sym \in Words, NEW kids \in Seq(Nat), NEW p \in 1 .. Len(input), NEW bp \in Nat,
         Operand(fix, sym, kids, p, bp),
         NEW f, f = [fix |-> fix, sym |-> sym, kids |-> kids, from |-> start, min |-> min],
         IsStart(f, p), bp = InnerBp(f), Level(f) >= min
  PROVE  ParseInv'
<1>1. Typed /\ Rules /\ Waits /\ Len(nodes) \in Nat
  BY LenProperties DEF ParseInv, Typed
<1>2. Grows /\ \A n \in Len(nodes) + 1 .. Len(nodes') : Rule(nodes, n)'
  BY <1>1, SMT DEF Grows, Operand, Call
<1>3. Rules'
  BY <1>1, <1>2, RulesGrow
<1>4. nodes' \in Seq(NodeSet)
  BY <1>1 DEF Typed
<1>5. IsStart(f, p)'
  <2>1. Len(f.kids) \in Nat
    BY LenProperties
  <2> QED BY <1>1, <1>2, <2>1, StartStays
<1> QED BY <1>1, <1>2, <1>3, <1>4, <1>5, OpenKeeps

LEMMA ReadingStarts ==
  ASSUME ParseInv, Reading
  PROVE  /\ Typed /\ Rules /\ Waits /\ outcome = "none" /\ start = at /\ at \in 1 .. Len(input) /\ at \in Int
         /\ min \in 0 .. 30 /\ Len(nodes) \in Nat /\ Len(input) \in Nat
<1>1. Typed /\ Rules /\ Waits /\ outcome = "none" /\ start = at
  BY DEF ParseInv, Reading, AtHand
<1>2. at \in 1 .. Len(input) /\ Len(nodes) \in Nat /\ Len(input) \in Nat
  BY <1>1, LenProperties DEF Typed, Lists
<1>3. at \in Int
  BY <1>2, SMT
<1> QED BY <1>1, <1>2, <1>3, MinSmall

LEMMA PrefixKeeps == ASSUME ParseInv, Prefix PROVE ParseInv'
<1> PICK p, w : p = at + 1 /\ w = Word
  OBVIOUS
<1> PICK f : f = [fix |-> "prefix", sym |-> w, kids |-> <<>>, from |-> start, min |-> min]
  OBVIOUS
<1>1. Reading /\ w \in PrefixOps /\ Operand("prefix", w, <<>>, p, 30) /\ UNCHANGED nodes
  BY DEF Prefix, PrefixBp
<1>2. Typed /\ outcome = "none" /\ start = at /\ at \in 1 .. Len(input) /\ min \in 0 .. 30
  BY <1>1, ReadingStarts
<1>3. Is(at, w) /\ w \in Words
  <2>1. w # <<>>
    BY <1>1, InfixIsNotStrong
  <2>2. Is(at, w)
    BY <1>2, <2>1, WordsAreThere
  <2>3. w = input[at].text
    BY <2>2 DEF Is
  <2> QED BY <1>2, <2>2, <2>3, WordsAreThere
<1>4. p \in 1 .. Len(input) /\ Spelled(at, p, <<w>>)
  BY <1>2, <1>3, NextToken
<1>5. IsStart(f, p)
  <2>1. Lead(f, 1) = <<w>>
    BY DEF Lead
  <2>2. f.fix \in Fixes \ {"postfix", "field"} /\ f.sym \in Symbols(f) /\ Len(f.kids) = 0 /\ 0 \in Waiting(f)
    BY <1>1 DEF Fixes, Symbols, Waiting
  <2>3. Behind(nodes, f, 0) = at
    BY <1>2 DEF Behind
  <2> QED BY <1>4, <2>1, <2>2, <2>3 DEF IsStart
<1>6. InnerBp(f) = 30 /\ Level(f) = 30 /\ "prefix" \in Fixes
  BY DEF InnerBp, Level, Fixes
<1>7. 30 >= min
  BY <1>2
<1>8. outcome = "none" /\ UNCHANGED nodes /\ Operand("prefix", w, <<>>, p, 30) /\ w \in Words /\ <<>> \in Seq(Nat)
  BY <1>1, <1>2, <1>3, Empties
<1>9. p \in 1 .. Len(input) /\ IsStart(f, p) /\ 30 \in Nat /\ 30 = InnerBp(f) /\ Level(f) >= min /\ "prefix" \in Fixes
  BY <1>4, <1>5, <1>6, <1>7
<1> QED BY <1>8, <1>9, OpenSame

LEMMA GroupKeeps == ASSUME ParseInv, Group PROVE ParseInv'
<1> PICK p : p = at + 1
  OBVIOUS
<1> PICK f : f = [fix |-> "group", sym |-> <<>>, kids |-> <<>>, from |-> start, min |-> min]
  OBVIOUS
<1>1. Reading /\ Is(at, <<"(">>) /\ Operand("group", <<>>, <<>>, p, 0) /\ UNCHANGED nodes
  BY DEF Group
<1>2. Typed /\ outcome = "none" /\ start = at /\ at \in 1 .. Len(input) /\ min \in 0 .. 30
  BY <1>1, ReadingStarts
<1>3. p \in 1 .. Len(input) /\ Spelled(at, p, <<<<"(">>>>)
  BY <1>1, <1>2, NextToken
<1>4. IsStart(f, p)
  <2>1. Lead(f, 1) = <<<<"(">>>>
    BY DEF Lead
  <2>2. f.fix \in Fixes \ {"postfix", "field"} /\ f.sym \in Symbols(f) /\ Len(f.kids) = 0 /\ 0 \in Waiting(f)
    BY DEF Fixes, Symbols, Waiting
  <2>3. Behind(nodes, f, 0) = at
    BY <1>2 DEF Behind
  <2> QED BY <1>3, <2>1, <2>2, <2>3 DEF IsStart
<1>5. InnerBp(f) = 0 /\ Level(f) = 40 /\ "group" \in Fixes
  BY DEF InnerBp, Level, Fixes
<1>6. 40 >= min
  BY <1>2
<1> QED BY <1>1, <1>2, <1>3, <1>4, <1>5, <1>6, Empties, OpenSame

LEMMA TypeIsLeaf ==
  ASSUME Typed, NEW p \in 1 .. Len(input), IsType(p), NEW q, q = AfterType(p)
  PROVE  /\ q \in 1 .. Len(input) /\ p < q /\ q \in Int
         /\ TypeAt(p) \in NodeSet /\ IsLeaf(TypeAt(p)) /\ TypeAt(p).fix = "type" /\ TypeAt(p).kids = <<>> /\ Len(TypeAt(p).kids) = 0
         /\ TypeAt(p).from = p /\ TypeAt(p).to = q /\ Level(TypeAt(p)) = 40
<1>1. q \in 1 .. Len(input) /\ p < q /\ \A i \in p + 1 .. q - 1 : Is(i, <<"*">>)
  BY TypeEnds
<1>2. q \in Nat /\ p \in Nat
  BY <1>1, SMT
<1>3. TypeAt(p) = [fix |-> "type", sym |-> input[p].text, kids |-> <<>>, from |-> p, to |-> q]
  BY DEF TypeAt, Made
<1>4. input[p].text \in Words
  BY WordsAreThere
<1>5. TypeAt(p) \in NodeSet
  BY <1>2, <1>4, Empties, NewNode DEF TypeAt
<1>6. IsLeaf(TypeAt(p))
  BY <1>1, <1>3 DEF IsLeaf
<1>7. Level(TypeAt(p)) = 40
  BY <1>3 DEF Level
<1> QED BY <1>1, <1>2, <1>3, <1>5, <1>6, <1>7

\* A new expression is first a leaf.
LEMMA FirstRule ==
  ASSUME Typed, NEW new \in Seq(NodeSet), NEW t, t = new[1], Len(new) # 0, nodes' = nodes \o new, input' = input,
         IsLeaf(t), t.fix \in {"leaf", "type"}, t.kids = <<>>
  PROVE  nodes'[Len(nodes) + 1] = t /\ \A n : n = Len(nodes) + 1 => Rule(nodes, n)'
<1>1. Grows /\ Len(new) \in Nat /\ \A k \in 1 .. Len(new) : nodes'[Len(nodes) + k] = new[k]
  BY Longer
<1>2. 1 \in 1 .. Len(new)
  BY <1>1, SMT
<1>3. nodes'[Len(nodes) + 1] = t
  BY <1>1, <1>2
<1>4. IsLeaf(t)'
  BY <1>1, LeafStays
<1>5. Len(t.kids) = 0
  OBVIOUS
<1>6. ASSUME NEW n, n = Len(nodes) + 1 PROVE Rule(nodes, n)'
  <2>1. \A i \in 1 .. Len(t.kids) : t.kids[i] \in 1 .. n - 1
    BY <1>5, SMT
  <2> QED BY <1>3, <1>4, <1>6, <2>1, RuleOf
<1> QED BY <1>3, <1>6

LEMMA AtomKeeps == ASSUME ParseInv, Atom PROVE ParseInv'
<1> PICK p, t, new : p = at + 1 /\ t = Made("leaf", input[at].text, <<>>, start, p) /\ new = <<t>>
  OBVIOUS
<1>1. Reading /\ input[at].kind \in LeafKinds /\ Yield(new, p)
  BY DEF Atom
<1>2. Typed /\ outcome = "none" /\ start = at /\ at \in 1 .. Len(input) /\ at \in Int /\ Len(nodes) \in Nat
  BY <1>1, ReadingStarts
<1>3. p \in 1 .. Len(input) /\ p \in Nat
  <2>1. input[at].kind # "eof"
    BY <1>1 DEF LeafKinds
  <2>2. p \in 1 .. Len(input)
    BY <1>2, <2>1, NotLast
  <2> QED BY <2>2, SMT
<1>4. t = [fix |-> "leaf", sym |-> input[at].text, kids |-> <<>>, from |-> start, to |-> p]
  BY DEF Made
<1>5. t \in NodeSet
  <2>1. at \in Nat /\ input[at].text \in Words
    BY <1>2, WordsAreThere, SMT
  <2> QED BY <1>2, <1>3, <2>1, Empties, NewNode
<1>6. IsLeaf(t) /\ t.fix = "leaf" /\ t.kids = <<>> /\ t.from = start /\ t.to = p /\ Level(t) = 40 /\ Bound(t) = 40
  BY <1>1, <1>2, <1>4 DEF IsLeaf, Level, Bound
<1>7. new \in Seq(NodeSet) /\ Len(new) = 1 /\ new[1] = t /\ new # <<>> /\ Len(new) # 0
  BY <1>5
<1>8. nodes' = nodes \o new /\ input' = input
  BY <1>1 DEF Yield
<1>9. \A n \in Len(nodes) + 1 .. Len(nodes) + Len(new) : Rule(nodes, n)'
  <2>1. \A n \in Len(nodes) + 1 .. Len(nodes) + Len(new) : n = Len(nodes) + 1
    BY <1>2, <1>7, SMT
  <2> QED BY <1>2, <1>6, <1>7, <1>8, <2>1, FirstRule
<1> QED BY <1>1, <1>2, <1>3, <1>6, <1>7, <1>9, YieldKeeps

LEMMA NoOperandKeeps == ASSUME ParseInv, NoOperand PROVE ParseInv'
<1>1. at \in 1 .. Len(input) /\ Refuse(at, "UnexpectedToken")
  BY ReadingStarts DEF NoOperand
<1> QED BY <1>1, RefuseKeeps

LEMMA OperandIsThere ==
  ASSUME Grows, NEW t, NEW i, NEW u, NEW a, NEW ws, Kid(nodes, t, i)' = u, Behind(nodes, t, i - 1)' = a, Lead(t, i) = ws,
         Spelled(a, u.from, ws), Level(u) >= Least(t, i), t.fix = "cast" /\ i = 1 => u.fix = "type",
         u.fix = "type" => t.fix = "sizeof" \/ (t.fix = "cast" /\ i = 1),
         t.fix = "field" /\ i = 2 => u.fix = "leaf" /\ input[u.from].kind = "ident"
  PROVE  IsOperand(nodes, t, i)'
<1>1. Spelled(a, u.from, ws)'
  BY SpelledStays
<1>2. Spelled(Behind(nodes, t, i - 1), Kid(nodes, t, i).from, Lead(t, i))'
  BY <1>1 DEF Spelled, Is
<1> QED BY <1>2 DEF IsOperand, Grows

\* What follows the last operand.
LEMMA CloseIsThere ==
  ASSUME Grows, NEW t, NEW i, NEW a, NEW ws, NEW q, Behind(nodes, t, i)' = a, Spelled(a, q, ws)
  PROVE  Spelled(Behind(nodes, t, i), q, ws)'
<1>1. Spelled(a, q, ws)'
  BY SpelledStays
<1> QED BY <1>1 DEF Spelled, Is

\* Two new expressions, the second with the first as its last operand.
LEMMA TwoRules ==
  ASSUME Typed, NEW u \in NodeSet, NEW t \in NodeSet, NEW new, new = <<u, t>>, nodes' = nodes \o new, input' = input,
         IsLeaf(u), u.fix \in {"leaf", "type"}, u.kids = <<>>, t.fix \in Fixes
  PROVE  /\ new \in Seq(NodeSet) /\ Len(new) = 2 /\ new[Len(new)] = t /\ new # <<>>
         /\ nodes'[Len(nodes) + 1] = u /\ Grows /\ Len(nodes) + 1 \in Nat
         /\ (\A i \in 1 .. Len(t.kids) : t.kids[i] \in 1 .. Len(nodes) + 1) /\ IsForm(nodes, t)'
              => \A n \in Len(nodes) + 1 .. Len(nodes) + Len(new) : Rule(nodes, n)'
<1>1. new \in Seq(NodeSet) /\ Len(new) = 2 /\ new[1] = u /\ new[2] = t /\ new # <<>> /\ Len(new) # 0
  OBVIOUS
<1>2. Grows /\ Len(nodes) \in Nat /\ \A k \in 1 .. Len(new) : nodes'[Len(nodes) + k] = new[k]
  BY <1>1, Longer
<1>3. nodes'[Len(nodes) + 1] = u /\ nodes'[Len(nodes) + 2] = t
  <2>1. 1 \in 1 .. 2 /\ 2 \in 1 .. 2
    BY SMT
  <2> QED BY <1>1, <1>2, <2>1
<1>4. \A n : n = Len(nodes) + 1 => Rule(nodes, n)'
  BY <1>1, FirstRule
<1>5. ASSUME \A i \in 1 .. Len(t.kids) : t.kids[i] \in 1 .. Len(nodes) + 1, IsForm(nodes, t)',
             NEW n \in Len(nodes) + 1 .. Len(nodes) + Len(new)
      PROVE  Rule(nodes, n)'
  <2>1. CASE n = Len(nodes) + 1
    BY <1>4, <2>1
  <2>2. CASE n = Len(nodes) + 2
    <3>1. n - 1 = Len(nodes) + 1
      BY <1>2, <2>2, SMT
    <3>2. t.fix \notin {"leaf", "type"}
      BY DEF Fixes
    <3> QED BY <1>3, <1>5, <2>2, <3>1, <3>2, RuleOf
  <2>3. n = Len(nodes) + 1 \/ n = Len(nodes) + 2
    BY <1>1, <1>2, SMT
  <2> QED BY <2>1, <2>2, <2>3
<1>6. Len(nodes) + 1 \in Nat
  BY <1>2, SMT
<1>7. (\A i \in 1 .. Len(t.kids) : t.kids[i] \in 1 .. Len(nodes) + 1) /\ IsForm(nodes, t)'
        => \A n \in Len(nodes) + 1 .. Len(nodes) + Len(new) : Rule(nodes, n)'
  BY <1>5
<1> QED BY <1>1, <1>2, <1>3, <1>6, <1>7

LEMMA SizeofKeeps == ASSUME ParseInv, Sizeof PROVE ParseInv'
<1> PICK p, q, r : p = at + 2 /\ q = AfterType(p) /\ r = q + 1
  OBVIOUS
<1>1. Reading /\ Is(at, SizeofWord)
  BY DEF Sizeof
<1>2. /\ Typed /\ outcome = "none" /\ start = at /\ at \in 1 .. Len(input) /\ at \in Int /\ min \in 0 .. 30 /\ Len(nodes) \in Nat
      /\ Len(input) \in Nat
  BY <1>1, ReadingStarts
<1>3. at + 1 \in 1 .. Len(input)
  BY <1>1, <1>2, NextToken
<1>4. Is(at + 1, <<"(">>) => /\ p \in 1 .. Len(input) /\ Spelled(at, p, <<SizeofWord, <<"(">>>>)
  <2> HAVE Is(at + 1, <<"(">>)
  <2>1. at + 1 + 1 \in 1 .. Len(input)
    BY <1>2, <1>3, NextToken
  <2>2. at + 1 + 1 = p
    BY <1>2, SMT
  <2> QED BY <1>1, <1>2, <2>1, <2>2, SpellsTwo
<1>5. CASE ~ Is(at + 1, <<"(">>)
  <2>1. Unexpected(at + 1)
    BY <1>5 DEF Sizeof
  <2> QED BY <1>3, <2>1, UnexpectedKeeps
<1>6. CASE Is(at + 1, <<"(">>) /\ ~ IsType(p)
  <2>1. Operand("sizeof", <<>>, <<>>, p, 0) /\ UNCHANGED nodes
    BY <1>6 DEF Sizeof
  <2> PICK f : f = [fix |-> "sizeof", sym |-> <<>>, kids |-> <<>>, from |-> start, min |-> min]
    OBVIOUS
  <2>2. IsStart(f, p)
    <3>1. Lead(f, 1) = <<SizeofWord, <<"(">>>>
      BY DEF Lead
    <3>2. f.fix \in Fixes \ {"postfix", "field"} /\ f.sym \in Symbols(f) /\ Len(f.kids) = 0 /\ 0 \in Waiting(f)
      BY DEF Fixes, Symbols, Waiting
    <3>3. Behind(nodes, f, 0) = at
      BY <1>2 DEF Behind
    <3> QED BY <1>4, <1>6, <3>1, <3>2, <3>3 DEF IsStart
  <2>3. InnerBp(f) = 0 /\ Level(f) = 40 /\ "sizeof" \in Fixes
    BY DEF InnerBp, Level, Fixes
  <2>4. 40 >= min
    BY <1>2
  <2> QED BY <1>2, <1>4, <1>6, <2>1, <2>2, <2>3, <2>4, Empties, OpenSame
<1>7. CASE Is(at + 1, <<"(">>) /\ IsType(p)
  <2>1. /\ q \in 1 .. Len(input) /\ p < q /\ q \in Int
        /\ TypeAt(p) \in NodeSet /\ IsLeaf(TypeAt(p)) /\ TypeAt(p).fix = "type" /\ TypeAt(p).kids = <<>>
        /\ TypeAt(p).from = p /\ TypeAt(p).to = q /\ Level(TypeAt(p)) = 40
    BY <1>2, <1>4, <1>7, TypeIsLeaf
  <2>2. CASE ~ Is(q, <<")">>)
    <3>1. Unexpected(q)
      BY <1>7, <2>2 DEF Sizeof
    <3> QED BY <2>1, <3>1, UnexpectedKeeps
  <2>3. CASE Is(q, <<")">>)
    <3> PICK u, t, new : u = TypeAt(p) /\ t = Made("sizeof", <<>>, <<Len(nodes) + 1>>, start, r) /\ new = <<u, t>>
      OBVIOUS
    <3>1. Yield(new, r)
      BY <1>7, <2>3 DEF Sizeof
    <3>2. r \in 1 .. Len(input) /\ r \in Nat /\ start \in Nat /\ Spelled(q, r, <<<<")">>>>)
      <4>1. r \in 1 .. Len(input) /\ Spelled(q, r, <<<<")">>>>)
        BY <1>2, <2>1, <2>3, NextToken
      <4> QED BY <1>2, <4>1, SMT
    <3>3. /\ t.fix = "sizeof" /\ t.kids = <<Len(nodes) + 1>> /\ t.from = start /\ t.to = r /\ t.sym = <<>>
          /\ Len(t.kids) = 1 /\ t.kids[1] = Len(nodes) + 1
      BY DEF Made
    <3>4. "sizeof" \in Fixes /\ Level(t) = 40 /\ Bound(t) = 40 /\ t.fix # "type"
      BY <3>3 DEF Fixes, Level, Bound
    <3>5. t \in NodeSet
      <4>1. <<Len(nodes) + 1>> \in Seq(Nat)
        BY <1>2
      <4> QED BY <3>2, <3>4, <4>1, Empties, NewNode
    <3>6. nodes' = nodes \o new /\ input' = input
      BY <3>1 DEF Yield
    <3>7. /\ new \in Seq(NodeSet) /\ Len(new) = 2 /\ new[Len(new)] = t /\ new # <<>>
          /\ nodes'[Len(nodes) + 1] = u /\ Grows /\ Len(nodes) + 1 \in Nat
          /\ (\A i \in 1 .. Len(t.kids) : t.kids[i] \in 1 .. Len(nodes) + 1) /\ IsForm(nodes, t)'
              => \A n \in Len(nodes) + 1 .. Len(nodes) + Len(new) : Rule(nodes, n)'
      <4>1. t.fix \in Fixes /\ new = <<u, t>> /\ IsLeaf(u) /\ u.fix \in {"leaf", "type"} /\ u.kids = <<>> /\ u \in NodeSet
        BY <2>1, <3>3, <3>4
      <4>2. Typed
        BY <1>2
      <4> QED BY <3>5, <3>6, <4>1, <4>2, TwoRules
    <3>8. \A i \in 1 .. Len(t.kids) : t.kids[i] \in 1 .. Len(nodes) + 1
      <4>1. \A i \in 1 .. 1 : i = 1
        BY SMT
      <4>2. Len(nodes) + 1 \in 1 .. Len(nodes) + 1
        BY <1>2, SMT
      <4> QED BY <3>3, <4>1, <4>2
    <3>9. IsForm(nodes, t)'
      <4>1. Kid(nodes, t, 1)' = u
        BY <3>3, <3>7 DEF Kid
      <4>2. Behind(nodes, t, 0)' = at /\ Behind(nodes, t, 1)' = q
        BY <1>2, <2>1, <3>3, <4>1 DEF Behind
      <4>3. Spelled(at, p, <<SizeofWord, <<"(">>>>) /\ Spelled(q, r, <<<<")">>>>)
        BY <1>4, <1>7, <3>2
      <4>4. Lead(t, 1) = <<SizeofWord, <<"(">>>> /\ Least(t, 1) = 2 /\ Close(t) = <<<<")">>>>
        BY <3>3 DEF Lead, Least, Close
      <4>5. t.sym \in Symbols(t) /\ 1 \in Arity(t)
        BY <3>3 DEF Symbols, Arity
      <4>6. ASSUME NEW i \in 1 .. 1 PROVE IsOperand(nodes, t, i)'
        <5>1. i = 1 /\ i - 1 = 0
          BY SMT
        <5>2. Kid(nodes, t, i)' = u /\ Behind(nodes, t, i - 1)' = at /\ Lead(t, i) = Lead(t, 1) /\ Least(t, i) = 2
          BY <1>2, <3>3, <4>1, <4>4, <5>1 DEF Behind, Kid
        <5>3. Level(u) >= Least(t, i)
          BY <2>1, <5>2
        <5> QED BY <2>1, <3>3, <3>7, <4>3, <4>4, <5>2, <5>3, OperandIsThere
      <4>7. Spelled(Behind(nodes, t, 1), r, Close(t))'
        BY <3>7, <4>2, <4>3, <4>4, CloseIsThere
      <4>8. t.to = r
        BY <3>3
      <4> QED BY <3>3, <3>4, <4>5, <4>6, <4>7, <4>8 DEF IsForm
    <3> QED BY <1>2, <3>1, <3>2, <3>3, <3>4, <3>7, <3>8, <3>9, YieldKeeps
  <2> QED BY <2>2, <2>3
<1> QED BY <1>5, <1>6, <1>7

LEMMA CastKeeps == ASSUME ParseInv, Cast PROVE ParseInv'
<1> PICK p, q, r : p = at + 1 /\ q = AfterType(p) /\ r = q + 1
  OBVIOUS
<1>1. Reading /\ Is(at, <<"(">>) /\ IsType(p)
  BY DEF Cast
<1>2. /\ Typed /\ Rules /\ Waits /\ outcome = "none" /\ start = at /\ at \in 1 .. Len(input) /\ at \in Int
      /\ min \in 0 .. 30 /\ Len(nodes) \in Nat
  BY <1>1, ReadingStarts
<1>3. p \in 1 .. Len(input) /\ Spelled(at, p, <<<<"(">>>>)
  BY <1>1, <1>2, NextToken
<1> PICK u : u = TypeAt(p)
  OBVIOUS
<1>4. /\ q \in 1 .. Len(input) /\ p < q /\ q \in Int
      /\ u \in NodeSet /\ IsLeaf(u) /\ u.fix = "type" /\ u.kids = <<>> /\ Len(u.kids) = 0
      /\ u.from = p /\ u.to = q /\ Level(u) = 40
  BY <1>1, <1>2, <1>3, TypeIsLeaf
<1>5. CASE ~ Is(q, <<")">>)
  <2>1. Unexpected(q)
    BY <1>5 DEF Cast
  <2> QED BY <1>4, <2>1, UnexpectedKeeps
<1>6. CASE Is(q, <<")">>)
  <2> PICK k, ks, f : /\ k = Len(nodes) + 1 /\ ks = <<k>>
                      /\ f = [fix |-> "cast", sym |-> <<>>, kids |-> ks, from |-> start, min |-> min]
    OBVIOUS
  <2>1. Operand("cast", <<>>, ks, r, 30) /\ nodes' = Append(nodes, u)
    BY <1>6 DEF Cast, PrefixBp
  <2>2. r \in 1 .. Len(input) /\ Spelled(q, r, <<<<")">>>>)
    BY <1>2, <1>4, <1>6, NextToken
  <2>3. k \in Nat /\ ks \in Seq(Nat) /\ Len(ks) = 1 /\ ks[1] = k
    BY <1>2, SMT
  <2>4. /\ nodes' \in Seq(NodeSet) /\ Len(nodes') = k /\ nodes'[k] = u /\ \A i \in 1 .. Len(nodes) : nodes'[i] = nodes[i]
    BY <1>2, <1>4, <2>1, AppendProperties DEF Typed
  <2>5. Grows
    <3>1. Len(nodes') >= Len(nodes)
      BY <1>2, <2>4, SMT
    <3> QED BY <2>1, <2>4, <3>1 DEF Grows, Operand, Call
  <2>6. Rules'
    <3>1. IsLeaf(u)'
      BY <1>4, <2>5, LeafStays
    <3>2. ASSUME NEW n \in Len(nodes) + 1 .. Len(nodes') PROVE Rule(nodes, n)'
      <4>1. n = k
        BY <1>2, <2>4, SMT
      <4>2. \A i \in 1 .. Len(u.kids) : u.kids[i] \in 1 .. n - 1
        BY <1>4, SMT
      <4> QED BY <1>4, <2>4, <3>1, <4>1, <4>2, RuleOf
    <3> QED BY <1>2, <2>5, <3>2, RulesGrow
  <2>7. IsStart(f, r)'
    <3>1. Kid(nodes, f, 1)' = u
      BY <2>3, <2>4 DEF Kid
    <3>2. Behind(nodes, f, 0)' = at /\ Behind(nodes, f, 1)' = q
      BY <1>2, <1>4, <3>1 DEF Behind
    <3>3. Lead(f, 1) = <<<<"(">>>> /\ Least(f, 1) = 30 /\ Lead(f, 2) = <<<<")">>>>
      BY DEF Lead, Least
    <3>4. f.fix \in Fixes \ {"postfix", "field"} /\ f.sym \in Symbols(f) /\ Len(f.kids) = 1 /\ 1 \in Waiting(f)
      BY <2>3 DEF Fixes, Symbols, Waiting
    <3>5. ASSUME NEW i \in 1 .. 1 PROVE f.kids[i] \in 1 .. Len(nodes') /\ IsOperand(nodes, f, i)'
      <4>1. i = 1 /\ i - 1 = 0
        BY SMT
      <4>2. Kid(nodes, f, i)' = u /\ Behind(nodes, f, i - 1)' = at /\ Lead(f, i) = Lead(f, 1) /\ Least(f, i) = 30
        BY <1>2, <3>1, <3>3, <4>1 DEF Behind, Kid
      <4>3. Level(u) >= Least(f, i)
        BY <1>4, <4>2
      <4>4. IsOperand(nodes, f, i)'
        BY <1>3, <1>4, <2>5, <3>3, <4>1, <4>2, <4>3, OperandIsThere
      <4>5. f.kids[i] \in 1 .. Len(nodes')
        BY <1>2, <2>3, <2>4, <4>1, SMT
      <4> QED BY <4>4, <4>5
    <3>6. Spelled(Behind(nodes, f, 1), r, Lead(f, 2))'
      BY <2>2, <2>5, <3>2, <3>3, CloseIsThere
    <3>7. Len(f.kids) + 1 = 2
      BY <3>4, SMT
    <3> QED BY <3>4, <3>5, <3>6, <3>7 DEF IsStart
  <2>8. InnerBp(f) = 30 /\ Level(f) = 30 /\ "cast" \in Fixes
    BY DEF InnerBp, Level, Fixes
  <2>9. 30 >= min
    BY <1>2
  <2>10. /\ Typed /\ Waits /\ outcome = "none" /\ nodes' \in Seq(NodeSet) /\ Operand("cast", <<>>, ks, r, 30)
    BY <1>2, <2>1, <2>4
  <2>11. r \in 1 .. Len(input) /\ ks \in Seq(Nat) /\ <<>> \in Words
    BY <2>2, <2>3, Empties
  <2>12. 30 \in Nat /\ 30 = InnerBp(f) /\ Level(f) >= min
    BY <2>8, <2>9
  <2> QED BY <2>5, <2>6, <2>7, <2>8, <2>10, <2>11, <2>12, OpenKeeps
<1> QED BY <1>5, <1>6
-----------------------------------------------------------------------------
(* The loop of parse_pratt.                                                *)

LEMMA LoopingStarts ==
  ASSUME ParseInv, Looping
  PROVE  /\ outcome = "none" /\ at \in 1 .. Len(input) /\ at \in Int /\ start \in Nat /\ Len(input) \in Nat /\ lhs \in Nat
         /\ LeftBp(Word) \in {0, 2, 3} \cup 4 .. 22
<1>1. Typed /\ outcome = "none" /\ lhs \in 1 .. Len(nodes)
  BY OperandIsRead DEF Looping
<1>2. at \in 1 .. Len(input) /\ start \in Nat /\ Len(input) \in Nat
  BY <1>1, LenProperties DEF Typed, Lists
<1>3. at \in Int /\ lhs \in Nat
  BY <1>1, <1>2, SMT
<1> QED BY <1>1, <1>2, <1>3, Powers

\* Whatever a token takes hold of is on a level that lets it.
LEMMA HeldLevel ==
  ASSUME ParseInv, Looping
  PROVE  /\ Word \in Strong => Level(nodes[lhs]) = 40
         /\ LeftBp(Word) # 0 /\ Word \notin Strong => Level(nodes[lhs]) >= 4 /\ Level(nodes[lhs]) >= LeftBp(Word)
<1> PICK t, w : t = nodes[lhs] /\ w = Word
  OBVIOUS
<1>1. Rules /\ Typed /\ lhs \in 1 .. Len(nodes) /\ Level(t) \in 2 .. 40 /\ Power(w) <= Bound(t) /\ Bound(t) <= Level(t)
  BY OperandIsRead
<1>2. Power(w) = (IF w \in Strong THEN 40 ELSE LeftBp(w)) /\ LeftBp(w) \in {0, 2, 3} \cup 4 .. 22
  BY Powers
<1>3. Bound(t) \in 0 .. 40
  BY <1>1, NodeLevels
<1>4. Bound(t) # 0 => Level(t) >= 4
  <2>1. CASE t.fix \in {"assign", "ternary"}
    BY <2>1 DEF Bound
  <2>2. CASE t.fix = "binary"
    <3>1. IsForm(nodes, t)
      BY <1>1, <2>2 DEF Rules, Rule
    <3>2. Tightness(t.sym) \in 4 .. 22
      BY <2>2, <3>1, Levels DEF IsForm
    <3> QED BY <2>2, <3>2 DEF Level
  <2>3. CASE t.fix \notin {"assign", "ternary", "binary"}
    BY <2>3 DEF Level
  <2> QED BY <2>1, <2>2, <2>3
<1> PICK l, b, e : l = Level(t) /\ b = Bound(t) /\ e = LeftBp(w)
  OBVIOUS
<1>5. l \in 2 .. 40 /\ b \in 0 .. 40 /\ e \in {0, 2, 3} \cup 4 .. 22 /\ b <= l /\ (b # 0 => l >= 4)
  BY <1>1, <1>2, <1>3, <1>4
<1>6. (w \in Strong => 40 <= b) /\ (w \notin Strong => e <= b)
  BY <1>1, <1>2
<1>7. (40 <= b => l = 40) /\ (e <= b /\ e # 0 => l >= 4 /\ l >= e)
  BY <1>5, SMT
<1> QED BY <1>6, <1>7

LEMMA HeldOperand ==
  ASSUME ParseInv, Looping, NEW t, t.from = start, t.kids[1] = lhs, t.fix # "cast", Lead(t, 1) = <<>>,
         Level(nodes[lhs]) >= Least(t, 1)
  PROVE  IsOperand(nodes, t, 1) /\ Behind(nodes, t, 1) = at /\ lhs \in 1 .. Len(nodes)
<1>1. lhs \in 1 .. Len(nodes) /\ nodes[lhs].from = start /\ nodes[lhs].to = at /\ nodes[lhs].fix # "type" /\ start \in Nat
  BY OperandIsRead, LoopingStarts
<1>2. Kid(nodes, t, 1) = nodes[lhs] /\ Behind(nodes, t, 1) = at
  BY <1>1 DEF Kid, Behind
<1>3. 1 - 1 = 0 /\ Behind(nodes, t, 0) = start
  BY DEF Behind
<1>4. Spelled(start, start, <<>>)
  BY <1>1, SpellsNothing
<1> QED BY <1>1, <1>2, <1>3, <1>4 DEF IsOperand

LEMMA LoopStart ==
  ASSUME ParseInv, Looping, NEW f, f.from = start, NEW ks, ks = <<lhs>>, f.kids = ks, f.sym \in Symbols(f),
         f.fix \in {"index", "call", "assign", "ternary", "binary"},
         NEW w, Is(at, w), Lead(f, 2) = <<w>>, Level(nodes[lhs]) >= Least(f, 1), NEW p, p = at + 1
  PROVE  IsStart(f, p) /\ p \in 1 .. Len(input) /\ ks \in Seq(Nat)
<1>1. Typed /\ at \in 1 .. Len(input) /\ lhs \in Nat
  BY OperandIsRead, LoopingStarts
<1>2. p \in 1 .. Len(input) /\ Spelled(at, p, <<w>>)
  BY <1>1, NextToken
<1>3. Lead(f, 1) = <<>>
  BY DEF Lead
<1>4. ks \in Seq(Nat) /\ Len(ks) = 1 /\ ks[1] = lhs
  BY <1>1
<1>5. IsOperand(nodes, f, 1) /\ Behind(nodes, f, 1) = at /\ lhs \in 1 .. Len(nodes)
  BY <1>3, <1>4, HeldOperand
<1>6. f.fix \in Fixes \ {"postfix", "field"} /\ 1 \in Waiting(f)
  BY DEF Fixes, Waiting
<1>7. \A i \in 1 .. 1 : i = 1
  BY SMT
<1>8. \A i \in 1 .. Len(f.kids) : f.kids[i] \in 1 .. Len(nodes) /\ IsOperand(nodes, f, i)
  BY <1>4, <1>5, <1>7
<1>9. Len(f.kids) = 1 /\ Len(f.kids) + 1 = 2
  BY <1>4
<1> QED BY <1>2, <1>4, <1>5, <1>6, <1>8, <1>9 DEF IsStart

\* The binding power of an operator is what the grammar says of its expression.
LEMMA LoopOpens ==
  ASSUME ParseInv, Looping, NEW fix \in {"index", "call", "assign", "ternary", "binary"}, NEW sym \in Words, NEW bp \in Nat,
         Operand(fix, sym, <<lhs>>, at + 1, bp), UNCHANGED nodes,
         NEW f, f = [fix |-> fix, sym |-> sym, kids |-> <<lhs>>, from |-> start, min |-> min], sym \in Symbols(f),
         NEW w, Is(at, w), Lead(f, 2) = <<w>>, Level(nodes[lhs]) >= Least(f, 1), bp = InnerBp(f), Level(f) >= min
  PROVE  ParseInv'
<1> PICK p, ks : p = at + 1 /\ ks = <<lhs>>
  OBVIOUS
<1>1. f = [fix |-> fix, sym |-> sym, kids |-> ks, from |-> start, min |-> min] /\ Operand(fix, sym, ks, p, bp)
  OBVIOUS
<1>2. f.fix = fix /\ f.sym = sym /\ f.kids = ks /\ f.from = start
  BY <1>1
<1>3. IsStart(f, p) /\ p \in 1 .. Len(input) /\ ks \in Seq(Nat)
  BY <1>2, LoopStart
<1>4. fix \in Fixes
  BY DEF Fixes
<1>5. outcome = "none"
  BY DEF Looping
<1> QED BY <1>1, <1>3, <1>4, <1>5, OpenSame

LEMMA WordIsThere ==
  ASSUME ParseInv, Looping, Word # <<>>
  PROVE  Is(at, Word) /\ Word \in Words
<1>1. Typed /\ at \in 1 .. Len(input)
  BY OperandIsRead, LoopingStarts
<1>2. Is(at, Word)
  BY <1>1, WordsAreThere
<1>3. Word = input[at].text
  BY <1>2 DEF Is
<1> QED BY <1>1, <1>2, <1>3, WordsAreThere

LEMMA SubscriptKeeps == ASSUME ParseInv, Subscript PROVE ParseInv'
<1> PICK f : f = [fix |-> "index", sym |-> <<>>, kids |-> <<lhs>>, from |-> start, min |-> min]
  OBVIOUS
<1>1. Looping /\ Word = <<"[">> /\ Operand("index", <<>>, <<lhs>>, at + 1, 0) /\ UNCHANGED nodes
  BY DEF Subscript
<1>2. Is(at, <<"[">>)
  BY <1>1, WordIsThere
<1>3. Level(nodes[lhs]) = 40
  BY <1>1, HeldLevel DEF Strong
<1>4. f.sym \in Symbols(f) /\ Lead(f, 2) = <<<<"[">>>> /\ Least(f, 1) = 40 /\ InnerBp(f) = 0 /\ Level(f) = 40
  BY DEF Symbols, Lead, Least, InnerBp, Level
<1>5. min \in 0 .. 30
  BY <1>1, OperandIsRead
<1>6. 40 >= min /\ <<>> \in Symbols(f)
  BY <1>4, <1>5
<1> QED BY <1>1, <1>2, <1>3, <1>4, <1>6, Empties, LoopOpens

LEMMA AssignKeeps == ASSUME ParseInv, Assign PROVE ParseInv'
<1> PICK f, w : w = Word /\ f = [fix |-> "assign", sym |-> w, kids |-> <<lhs>>, from |-> start, min |-> min]
  OBVIOUS
<1>1. /\ Looping /\ Binds /\ w \in AssignOps /\ Operand("assign", w, <<lhs>>, at + 1, 1) /\ UNCHANGED nodes
  BY DEF Assign, AssignBp
<1>2. Is(at, w) /\ w \in Words
  BY <1>1, InfixIsNotStrong, WordIsThere
<1>3. LeftBp(w) = 2 /\ Power(w) = 2
  BY <1>1, Powers
<1>4. w \notin Strong
  BY <1>3, Powers
<1>5. Level(nodes[lhs]) >= 4
  BY <1>1, <1>3, <1>4, HeldLevel
<1>6. f.sym \in Symbols(f) /\ Lead(f, 2) = <<w>> /\ Least(f, 1) = 4 /\ InnerBp(f) = 1 /\ Level(f) = 2
  BY <1>1 DEF Symbols, Lead, Least, InnerBp, Level
<1>7. 2 >= min /\ w \in Symbols(f)
  BY <1>1, <1>3, <1>6 DEF Binds
<1> QED BY <1>1, <1>2, <1>5, <1>6, <1>7, LoopOpens

LEMMA TernaryKeeps == ASSUME ParseInv, Ternary PROVE ParseInv'
<1> PICK f : f = [fix |-> "ternary", sym |-> <<>>, kids |-> <<lhs>>, from |-> start, min |-> min]
  OBVIOUS
<1>1. /\ Looping /\ Binds /\ Word = <<"?">> /\ Operand("ternary", <<>>, <<lhs>>, at + 1, 0) /\ UNCHANGED nodes
  BY DEF Ternary
<1>2. Is(at, <<"?">>)
  BY <1>1, WordIsThere
<1>3. LeftBp(Word) = 3 /\ Power(Word) = 3
  BY <1>1, Powers
<1>4. Word \notin Strong
  BY <1>3, Powers
<1>5. Level(nodes[lhs]) >= 4
  BY <1>1, <1>3, <1>4, HeldLevel
<1>6. f.sym \in Symbols(f) /\ Lead(f, 2) = <<<<"?">>>> /\ Least(f, 1) = 4 /\ InnerBp(f) = 0 /\ Level(f) = 3
  BY DEF Symbols, Lead, Least, InnerBp, Level
<1>7. 3 >= min /\ <<>> \in Symbols(f)
  BY <1>1, <1>3, <1>6 DEF Binds
<1> QED BY <1>1, <1>2, <1>5, <1>6, <1>7, Empties, LoopOpens

LEMMA BinaryKeeps == ASSUME ParseInv, Binary PROVE ParseInv'
<1> PICK w, k : w = Word /\ k = BinaryBp(w) + 1
  OBVIOUS
<1> PICK f : f = [fix |-> "binary", sym |-> w, kids |-> <<lhs>>, from |-> start, min |-> min]
  OBVIOUS
<1>1. /\ Looping /\ Binds /\ BinaryBp(w) # 0 /\ Operand("binary", w, <<lhs>>, at + 1, k) /\ UNCHANGED nodes
  BY DEF Binary
<1>2. w # <<>> /\ w \notin Strong
  BY <1>1, BinaryIsInfix
<1>3. Is(at, w) /\ w \in Words
  BY <1>1, <1>2, WordIsThere
<1>4. LeftBp(w) = BinaryBp(w)
  BY <1>1, Powers
<1>5. w \in UNION {Grammar[i] : i \in DOMAIN Grammar} /\ Tightness(w) = BinaryBp(w) /\ BinaryBp(w) \in 4 .. 22
  BY <1>1, TightnessIs
<1>6. Level(nodes[lhs]) >= Tightness(w)
  BY <1>1, <1>2, <1>4, <1>5, HeldLevel
<1>7. f.sym = w /\ f.sym \in Symbols(f) /\ Lead(f, 2) = <<w>>
  BY <1>5 DEF Symbols, Lead
<1>8. Least(f, 1) = Tightness(w) /\ InnerBp(f) = Tightness(w) + 1 /\ Level(f) = Tightness(w)
  BY DEF Least, InnerBp, Level
<1>9. k \in Nat /\ k = InnerBp(f)
  BY <1>5, <1>8
<1>10. Level(f) >= min /\ Level(nodes[lhs]) >= Least(f, 1)
  BY <1>1, <1>4, <1>5, <1>6, <1>8 DEF Binds
<1> QED BY <1>1, <1>3, <1>7, <1>9, <1>10, LoopOpens

\* An operator behind its operand makes an expression at once.
LEMMA YieldForm ==
  ASSUME ParseInv, Looping, NEW fix \in {"postfix", "call"}, NEW sym \in Words, NEW p \in 1 .. Len(input),
         NEW t, t = Made(fix, sym, <<lhs>>, start, p), Yield(<<t>>, p), sym \in Symbols(t), Spelled(at, p, Close(t)),
         Level(nodes[lhs]) = 40
  PROVE  ParseInv'
<1> PICK new, ks : new = <<t>> /\ ks = <<lhs>>
  OBVIOUS
<1>1. Typed /\ outcome = "none" /\ lhs \in 1 .. Len(nodes) /\ Len(nodes) \in Nat /\ start \in Nat /\ lhs \in Nat
  BY OperandIsRead, LoopingStarts
<1>2. t.fix = fix /\ t.sym = sym /\ t.kids = ks /\ t.from = start /\ t.to = p /\ t = Made(fix, sym, ks, start, p)
  BY DEF Made
<1>3. ks \in Seq(Nat) /\ Len(ks) = 1 /\ ks[1] = lhs
  BY <1>1
<1>4. t \in NodeSet
  <2>1. p \in Nat
    BY SMT
  <2>2. fix \in Fixes \cup {"leaf", "type"}
    BY DEF Fixes
  <2>3. t = Made(fix, sym, ks, start, p) /\ ks \in Seq(Nat) /\ start \in Nat
    BY <1>1, <1>2, <1>3
  <2> QED BY <2>1, <2>2, <2>3, NewNode
<1>5. /\ new \in Seq(NodeSet) /\ Len(new) = 1 /\ new[1] = t /\ new # <<>> /\ Len(new) # 0
  BY <1>4
<1>6. nodes' = nodes \o new /\ input' = input /\ Yield(new, p)
  BY DEF Yield
<1>7. Grows /\ \A k \in 1 .. Len(new) : nodes'[Len(nodes) + k] = new[k]
  BY <1>1, <1>5, <1>6, Longer
<1>8. Lead(t, 1) = <<>> /\ Least(t, 1) = 40 /\ Level(t) = 40 /\ Bound(t) = 40 /\ t.fix # "type" /\ t.fix \in Fixes /\ 1 \in Arity(t)
      /\ t.fix # "cast" /\ t.fix \notin {"leaf", "type"}
  BY <1>2 DEF Lead, Least, Level, Bound, Fixes, Arity
<1>9. IsOperand(nodes, t, 1) /\ Behind(nodes, t, 1) = at
  BY <1>2, <1>3, <1>8, HeldOperand
<1>10. HasKids(t) /\ IsForm(nodes, t)
  <2>1. \A i \in 1 .. 1 : i = 1
    BY SMT
  <2>2. Len(t.kids) = 1 /\ t.kids[1] = lhs /\ 1 \in Nat
    BY <1>2, <1>3
  <2>3. HasKids(t)
    BY <1>1, <2>1, <2>2 DEF HasKids
  <2>4. Spelled(Behind(nodes, t, Len(t.kids)), t.to, Close(t))
    BY <1>2, <1>9, <2>2
  <2>5. \A i \in 1 .. Len(t.kids) : IsOperand(nodes, t, i)
    BY <1>9, <2>1, <2>2
  <2>6. t.sym \in Symbols(t)
    BY <1>2
  <2> QED BY <1>8, <2>2, <2>3, <2>4, <2>5, <2>6 DEF IsForm
<1>11. IsForm(nodes, t)'
  BY <1>7, <1>10, FormStays
<1>12. ASSUME NEW n \in Len(nodes) + 1 .. Len(nodes) + Len(new) PROVE Rule(nodes, n)'
  <2>1. n = Len(nodes) + 1 /\ n - 1 = Len(nodes) /\ 1 \in 1 .. Len(new)
    BY <1>1, <1>5, SMT
  <2>2. nodes'[n] = t
    BY <1>5, <1>7, <2>1
  <2>3. \A i \in 1 .. Len(t.kids) : t.kids[i] \in 1 .. n - 1
    BY <1>10, <2>1 DEF HasKids
  <2> QED BY <1>8, <1>11, <2>2, <2>3, RuleOf
<1> QED BY <1>1, <1>2, <1>5, <1>6, <1>8, <1>12, YieldKeeps

LEMMA PostfixKeeps == ASSUME ParseInv, Postfix PROVE ParseInv'
<1> PICK w, p : w = Word /\ p = at + 1
  OBVIOUS
<1> PICK t : t = Made("postfix", w, <<lhs>>, start, p)
  OBVIOUS
<1>1. Looping /\ w \in PostfixOps /\ Yield(<<t>>, p)
  BY DEF Postfix
<1>2. Typed /\ at \in 1 .. Len(input)
  BY <1>1, OperandIsRead, LoopingStarts
<1>3. w \in Strong /\ w # <<>>
  BY <1>1 DEF Strong, PostfixOps
<1>4. Is(at, w) /\ w \in Words
  BY <1>1, <1>3, WordIsThere
<1>5. p \in 1 .. Len(input) /\ Spelled(at, p, <<w>>)
  BY <1>2, <1>4, NextToken
<1>6. Level(nodes[lhs]) = 40
  BY <1>1, <1>3, HeldLevel
<1>7. w \in Symbols(t) /\ Close(t) = <<w>>
  BY <1>1 DEF Symbols, Close, Made
<1> QED BY <1>1, <1>4, <1>5, <1>6, <1>7, YieldForm

LEMMA ArgumentsKeeps == ASSUME ParseInv, Arguments PROVE ParseInv'
<1>1. Looping /\ Word = <<"(">>
  BY DEF Arguments
<1>2. Typed /\ at \in 1 .. Len(input) /\ min \in 0 .. 30 /\ at \in Int
  BY <1>1, OperandIsRead, LoopingStarts
<1>3. Is(at, <<"(">>)
  BY <1>1, WordIsThere
<1>4. Level(nodes[lhs]) = 40
  BY <1>1, HeldLevel DEF Strong
<1>5. CASE Is(at + 1, <<")">>)
  <2> PICK t, p : p = at + 2 /\ t = Made("call", <<>>, <<lhs>>, start, p)
    OBVIOUS
  <2>1. Yield(<<t>>, p)
    BY <1>5 DEF Arguments
  <2>2. p \in 1 .. Len(input) /\ Spelled(at, p, <<<<"(">>, <<")">>>>)
    <3>1. at + 1 \in 1 .. Len(input)
      BY <1>2, <1>3, NextToken
    <3>2. at + 1 + 1 \in 1 .. Len(input)
      BY <1>2, <1>5, <3>1, NextToken
    <3>3. at + 1 + 1 = p
      BY <1>2, SMT
    <3> QED BY <1>2, <1>3, <1>5, <3>2, <3>3, SpellsTwo
  <2>3. Len(t.kids) = 1 /\ t.fix = "call" /\ t.sym = <<>>
    BY DEF Made
  <2>4. <<>> \in Symbols(t) /\ Close(t) = <<<<"(">>, <<")">>>>
    BY <2>3 DEF Symbols, Close
  <2> QED BY <1>1, <1>4, <2>1, <2>2, <2>4, Empties, YieldForm
<1>6. CASE ~ Is(at + 1, <<")">>)
  <2> PICK f : f = [fix |-> "call", sym |-> <<>>, kids |-> <<lhs>>, from |-> start, min |-> min]
    OBVIOUS
  <2>1. Operand("call", <<>>, <<lhs>>, at + 1, 0) /\ UNCHANGED nodes
    BY <1>6 DEF Arguments
  <2>2. f.sym \in Symbols(f) /\ Lead(f, 2) = <<<<"(">>>> /\ Least(f, 1) = 40 /\ InnerBp(f) = 0 /\ Level(f) = 40
    BY DEF Symbols, Lead, Least, InnerBp, Level
  <2>3. 40 >= min /\ <<>> \in Symbols(f)
    BY <1>2, <2>2
  <2> QED BY <1>1, <1>3, <1>4, <2>1, <2>2, <2>3, Empties, LoopOpens
<1> QED BY <1>5, <1>6

LEMMA FieldKeeps == ASSUME ParseInv, Field PROVE ParseInv'
<1> PICK w, p, q : w = Word /\ p = at + 1 /\ q = at + 2
  OBVIOUS
<1>1. Looping /\ w \in FieldOps
  BY DEF Field
<1>2. /\ Typed /\ outcome = "none" /\ at \in 1 .. Len(input) /\ at \in Int /\ start \in Nat /\ lhs \in Nat
      /\ lhs \in 1 .. Len(nodes) /\ Len(nodes) \in Nat /\ nodes[lhs].from = start /\ nodes[lhs].to = at /\ nodes[lhs].fix # "type"
  BY <1>1, OperandIsRead, LoopingStarts
<1>3. w \in Strong /\ w # <<>>
  BY <1>1 DEF Strong, FieldOps
<1>4. Is(at, w) /\ w \in Words
  BY <1>1, <1>3, WordIsThere
<1>5. p \in 1 .. Len(input) /\ Spelled(at, p, <<w>>)
  BY <1>2, <1>4, NextToken
<1>6. Level(nodes[lhs]) = 40
  BY <1>1, <1>3, HeldLevel
<1>7. CASE input[p].kind # "ident"
  <2>1. Unexpected(p)
    BY <1>7 DEF Field
  <2> QED BY <1>5, <2>1, UnexpectedKeeps
<1>8. CASE input[p].kind = "ident"
  <2> PICK k, ks : k = Len(nodes) + 1 /\ ks = <<lhs, k>>
    OBVIOUS
  <2> PICK u, t : u = Made("leaf", input[p].text, <<>>, p, q) /\ t = Made("field", w, ks, start, q)
    OBVIOUS
  <2> PICK new : new = <<u, t>>
    OBVIOUS
  <2>1. Yield(new, q)
    BY <1>8 DEF Field
  <2>2. q \in 1 .. Len(input) /\ q \in Nat /\ p \in Nat /\ q = p + 1
    <3>1. q = p + 1
      BY <1>2, SMT
    <3>2. q \in 1 .. Len(input)
      BY <1>2, <1>5, <1>8, <3>1, NotLast
    <3> QED BY <1>5, <3>1, <3>2, SMT
  <2>3. k \in Nat /\ ks \in Seq(Nat) /\ Len(ks) = 2 /\ ks[1] = lhs /\ ks[2] = k
    BY <1>2
  <2>4. u.fix = "leaf" /\ u.sym = input[p].text /\ u.kids = <<>> /\ u.from = p /\ u.to = q
    BY DEF Made
  <2>5. t.fix = "field" /\ t.sym = w /\ t.kids = ks /\ t.from = start /\ t.to = q
    BY DEF Made
  <2>6. /\ Lead(t, 1) = <<>> /\ Lead(t, 2) = <<w>> /\ Least(t, 1) = 40 /\ Least(t, 2) = 40 /\ Close(t) = <<>>
        /\ Level(t) = 40 /\ Bound(t) = 40 /\ t.fix # "type" /\ t.fix \in Fixes /\ t.sym \in Symbols(t) /\ 2 \in Arity(t) /\ Level(u) = 40
    BY <1>1, <2>4, <2>5 DEF Lead, Least, Close, Level, Bound, Fixes, Symbols, Arity
  <2>7. u \in NodeSet /\ t \in NodeSet
    <3>1. input[p].text \in Words
      BY <1>2, <1>5, WordsAreThere
    <3>2. "leaf" \in Fixes \cup {"leaf", "type"} /\ "field" \in Fixes \cup {"leaf", "type"}
      BY DEF Fixes
    <3>3. u \in NodeSet
      BY <2>2, <3>1, <3>2, Empties, NewNode
    <3>4. t \in NodeSet
      BY <1>2, <1>4, <2>2, <2>3, <3>2, NewNode
    <3> QED BY <3>3, <3>4
  <2>8. IsLeaf(u)
    BY <1>8, <2>2, <2>4 DEF IsLeaf, LeafKinds
  <2>9. nodes' = nodes \o new /\ input' = input
    BY <2>1 DEF Yield
  <2>10. /\ new \in Seq(NodeSet) /\ Len(new) = 2 /\ new[Len(new)] = t /\ new # <<>>
         /\ nodes'[k] = u /\ Grows
         /\ (\A i \in 1 .. Len(t.kids) : t.kids[i] \in 1 .. k) /\ IsForm(nodes, t)'
             => \A n \in Len(nodes) + 1 .. Len(nodes) + Len(new) : Rule(nodes, n)'
    <3>1. u.fix \in {"leaf", "type"} /\ u.kids = <<>> /\ t.fix \in Fixes /\ Typed
      BY <1>2, <2>4, <2>6
    <3>2. /\ new \in Seq(NodeSet) /\ Len(new) = 2 /\ new[Len(new)] = t /\ new # <<>>
          /\ nodes'[Len(nodes) + 1] = u /\ Grows
          /\ (\A i \in 1 .. Len(t.kids) : t.kids[i] \in 1 .. Len(nodes) + 1) /\ IsForm(nodes, t)'
              => \A n \in Len(nodes) + 1 .. Len(nodes) + Len(new) : Rule(nodes, n)'
      BY <2>7, <2>8, <2>9, <3>1, TwoRules
    <3> QED BY <3>2
  <2>11. \A i \in 1 .. 2 : i = 1 \/ i = 2
    BY SMT
  <2>12. \A i \in 1 .. Len(t.kids) : t.kids[i] \in 1 .. k
    <3>1. lhs \in 1 .. k /\ k \in 1 .. k
      BY <1>2, SMT
    <3> QED BY <2>3, <2>5, <2>11, <3>1
  <2>13. IsForm(nodes, t)'
    <3>1. nodes'[lhs] = nodes[lhs]
      BY <1>2, <2>10 DEF Grows
    <3>2. Kid(nodes, t, 1)' = nodes[lhs] /\ Kid(nodes, t, 2)' = u
      BY <2>3, <2>5, <2>10, <3>1 DEF Kid
    <3>3. Behind(nodes, t, 0)' = start /\ Behind(nodes, t, 1)' = at /\ Behind(nodes, t, 2)' = q
      BY <1>2, <2>4, <2>5, <3>2 DEF Behind
    <3>4. Spelled(start, start, <<>>) /\ Spelled(q, q, <<>>)
      BY <1>2, <2>2, SpellsNothing
    <3>5. ASSUME NEW i \in 1 .. 2 PROVE IsOperand(nodes, t, i)'
      <4>1. CASE i = 1
        <5>1. i - 1 = 0
          BY <4>1
        <5>2. Kid(nodes, t, i)' = nodes[lhs] /\ Behind(nodes, t, i - 1)' = start /\ Lead(t, i) = <<>> /\ Least(t, i) = 40
          BY <2>5, <2>6, <3>2, <4>1, <5>1 DEF Behind, Kid
        <5>3. Level(nodes[lhs]) >= Least(t, i)
          BY <1>6, <5>2
        <5>4. t.fix # "cast" /\ i # 2 /\ Spelled(start, nodes[lhs].from, <<>>)
          BY <1>2, <2>5, <3>4, <4>1
        <5> QED BY <1>2, <2>10, <5>2, <5>3, <5>4, OperandIsThere
      <4>2. CASE i = 2
        <5>1. i - 1 = 1
          BY <4>2
        <5>2. Kid(nodes, t, i)' = u /\ Lead(t, i) = <<w>> /\ Least(t, i) = 40
          BY <2>6, <3>2, <4>2 DEF Kid
        <5>3. Behind(nodes, t, i - 1)' = at
          BY <3>3, <5>1 DEF Behind, Kid
        <5>4. Level(u) >= Least(t, i)
          BY <2>6, <5>2
        <5> QED BY <1>5, <1>8, <2>4, <2>5, <2>10, <4>2, <5>2, <5>3, <5>4, OperandIsThere
      <4> QED BY <2>11, <4>1, <4>2
    <3>6. Spelled(Behind(nodes, t, 2), q, Close(t))'
      BY <2>6, <2>10, <3>3, <3>4, CloseIsThere
    <3> QED BY <2>3, <2>5, <2>6, <3>5, <3>6 DEF IsForm
  <2>14. \A n \in Len(nodes) + 1 .. Len(nodes) + Len(new) : Rule(nodes, n)'
    BY <2>10, <2>12, <2>13
  <2> QED BY <1>2, <2>1, <2>2, <2>5, <2>6, <2>10, <2>14, YieldKeeps
<1> QED BY <1>7, <1>8
-----------------------------------------------------------------------------
(* The operand is read, and the expression around it goes on or ends.      *)

\* The token at hand does not bind, so it is no stronger than what was asked for.
LEMMA LeftBehind ==
  ASSUME ParseInv, Back, NEW f, f = Top
  PROVE  Power(Word) <= 40 /\ (f.fix \in {"prefix", "cast", "assign", "ternary", "binary"} => Power(Word) <= Bound(f))
<1> PICK w, e : w = Word /\ e = LeftBp(w)
  OBVIOUS
<1>1. /\ w \notin PostfixOps \cup FieldOps \cup {<<"(">>, <<"[">>} /\ ~ (e # 0 /\ e >= min) /\ Looping
  BY DEF Back, Left, Binds
<1>2. Power(w) = e /\ e \in {0, 2, 3} \cup 4 .. 22
  BY <1>1, Powers DEF Power
<1>3. min = InnerBp(f) /\ IsStart(f, start)
  BY TopFacts
<1>4. min \in 0 .. 30
  BY <1>1, OperandIsRead
<1>5. e = 0 \/ e < min
  BY <1>1, <1>2, <1>4, SMT
<1>6. CASE f.fix \in {"prefix", "cast"}
  <2>1. InnerBp(f) = 30 /\ Bound(f) = 29
    BY <1>6 DEF InnerBp, Bound
  <2> QED BY <1>2, <1>3, <1>5, <2>1, SMT
<1>7. CASE f.fix \in {"assign", "ternary"}
  <2>1. InnerBp(f) \in {0, 1} /\ Bound(f) = 0
    BY <1>7 DEF InnerBp, Bound
  <2> QED BY <1>2, <1>3, <1>5, <2>1, SMT
<1>8. CASE f.fix = "binary"
  <2>1. InnerBp(f) = Tightness(f.sym) + 1 /\ Bound(f) = Tightness(f.sym)
    BY <1>8 DEF InnerBp, Bound
  <2>2. Tightness(f.sym) \in 4 .. 22
    BY <1>3, <1>8, Levels DEF IsStart
  <2> QED BY <1>2, <1>3, <1>5, <2>1, <2>2, SMT
<1>9. Power(w) <= 40
  BY PowerSmall
<1> QED BY <1>6, <1>7, <1>8, <1>9

LEMMA CursorIsThere ==
  ASSUME ParseInv, Back
  PROVE  Typed /\ at \in 1 .. Len(input) /\ at \in Int
BY OperandIsRead, LoopingStarts DEF Back, Left

LEMMA EndLastKeeps == ASSUME ParseInv, EndLast PROVE ParseInv'
<1> PICK f, p : f = Top /\ p = at
  OBVIOUS
<1> PICK t : t = Made(f.fix, f.sym, Kids, f.from, p)
  OBVIOUS
<1>1. Back /\ End(p) /\ (f.fix \in {"prefix", "cast", "assign", "binary"} \/ (f.fix = "ternary" /\ Len(Kids) = 3))
  BY DEF EndLast
<1>2. t.fix = f.fix /\ t.sym = f.sym /\ t.kids = Kids /\ t.from = f.from
  BY DEF Made
<1>3. p \in 1 .. Len(input) /\ p \in Int
  BY <1>1, CursorIsThere
<1>4. Spelled(at, p, Close(t))
  <2>1. Close(t) = <<>>
    BY <1>1, <1>2 DEF Close
  <2> QED BY <1>3, <2>1, SpellsNothing
<1>5. Len(Kids) \in Arity(t)
  <2>1. Len(f.kids) \in Waiting(f) /\ Len(Kids) = Len(f.kids) + 1
    BY <1>1, <1>2, TopFacts, NextOperand DEF IsStart
  <2>2. CASE f.fix = "prefix"
    <3>1. Len(Kids) = 1
      BY <2>1, <2>2 DEF Waiting
    <3> QED BY <1>2, <2>2, <3>1 DEF Arity
  <2>3. CASE f.fix \in {"cast", "assign", "binary"}
    <3>1. Len(Kids) = 2
      BY <2>1, <2>3 DEF Waiting
    <3> QED BY <1>2, <2>3, <3>1 DEF Arity
  <2>4. CASE f.fix = "ternary" /\ Len(Kids) = 3
    BY <1>2, <2>4 DEF Arity
  <2> QED BY <1>1, <2>2, <2>3, <2>4
<1>6. Power(Word)' <= Bound(t)
  <2>1. Power(Word) <= Bound(f)
    BY <1>1, LeftBehind
  <2>2. Bound(t) = Bound(f)
    BY <1>2 DEF Bound
  <2>3. Word' = Word
    BY <1>1 DEF End, Word
  <2> QED BY <2>1, <2>2, <2>3
<1> QED BY <1>1, <1>3, <1>4, <1>5, <1>6, EndKeeps

LEMMA EndClosedKeeps == ASSUME ParseInv, EndClosed PROVE ParseInv'
<1> PICK f, p : f = Top /\ p = at + 1
  OBVIOUS
<1> PICK t : t = Made(f.fix, f.sym, Kids, f.from, p)
  OBVIOUS
<1> PICK n : n = Len(f.kids)
  OBVIOUS
<1>1. Back /\ f.fix \in {"group", "sizeof", "index", "call"}
  BY DEF EndClosed
<1>2. t.fix = f.fix /\ t.sym = f.sym /\ t.kids = Kids /\ t.from = f.from
  BY DEF Made
<1>3. Typed /\ at \in 1 .. Len(input) /\ at \in Int
  BY <1>1, CursorIsThere
<1>4. CASE ~ Is(at, Closer)
  <2>1. Unexpected(at)
    BY <1>4 DEF EndClosed
  <2> QED BY <1>3, <2>1, UnexpectedKeeps
<1>5. CASE Is(at, Closer)
  <2>1. End(p)
    BY <1>5 DEF EndClosed
  <2>2. p \in 1 .. Len(input) /\ Spelled(at, p, <<Closer>>)
    BY <1>3, <1>5, NextToken
  <2>3. n \in Waiting(f) /\ n \in Nat /\ Len(Kids) = n + 1
    BY <1>1, <1>2, TopFacts, NextOperand DEF IsStart
  <2>4. Close(t) = <<Closer>>
    <3>1. f.fix = "call" => Len(t.kids) # 1
      <4>1. f.fix = "call" => n # 0
        BY <2>3 DEF Waiting
      <4>2. n # 0 => n + 1 # 1
        BY <2>3, SMT
      <4> QED BY <1>2, <2>3, <4>1, <4>2
    <3> QED BY <1>1, <1>2, <3>1 DEF Close, Closer
  <2>5. Len(Kids) \in Arity(t)
    <3>1. CASE f.fix \in {"group", "sizeof"}
      <4>1. Len(Kids) = 1
        BY <2>3, <3>1 DEF Waiting
      <4> QED BY <1>2, <3>1, <4>1 DEF Arity
    <3>2. CASE f.fix = "index"
      <4>1. n = 1
        BY <2>3, <3>2 DEF Waiting
      <4> QED BY <1>2, <2>3, <3>2, <4>1 DEF Arity
    <3>3. CASE f.fix = "call"
      <4>1. Len(Kids) \in Nat \ {0}
        BY <2>3, SMT
      <4> QED BY <1>2, <3>3, <4>1 DEF Arity
    <3> QED BY <1>1, <3>1, <3>2, <3>3
  <2>6. Power(Word)' <= Bound(t)
    <3>1. Bound(t) = 40
      BY <1>1, <1>2 DEF Bound
    <3> QED BY <3>1, PowerSmall
  <2> QED BY <1>1, <2>1, <2>2, <2>4, <2>5, <2>6, EndKeeps
<1> QED BY <1>4, <1>5

LEMMA NextArgumentKeeps == ASSUME ParseInv, NextArgument PROVE ParseInv'
<1> PICK f : f = Top
  OBVIOUS
<1> PICK g : g = [f EXCEPT !.kids = Kids]
  OBVIOUS
<1>1. Back /\ f.fix = "call" /\ Is(at, <<",">>) /\ Another
  BY DEF NextArgument
<1>2. f \in FrameSet /\ Len(f.kids) \in Waiting(f) /\ Len(f.kids) \in Nat
  BY <1>1, TopFacts DEF IsStart
<1>3. g.fix = f.fix /\ g.kids = Kids
  BY <1>2 DEF FrameSet
<1>4. Len(Kids) = Len(f.kids) + 1
  <2> PICK t : t = Made(f.fix, f.sym, Kids, f.from, 0)
    OBVIOUS
  <2>1. t.fix = f.fix /\ t.sym = f.sym /\ t.kids = Kids /\ t.from = f.from
    BY DEF Made
  <2> QED BY <1>1, <2>1, NextOperand
<1>5. Len(f.kids) # 0
  BY <1>1, <1>2 DEF Waiting
<1>6. Len(Kids) \in Nat \ {0} /\ Len(Kids) + 1 # 1 /\ Len(Kids) + 1 # 2
  BY <1>2, <1>4, <1>5, SMT
<1>7. Len(Kids) \in Waiting(g)
  BY <1>1, <1>3, <1>6 DEF Waiting
<1>8. Lead(g, Len(Kids) + 1) = <<<<",">>>> /\ InnerBp(g) = 0
  BY <1>1, <1>3, <1>6 DEF Lead, InnerBp
<1> QED BY <1>1, <1>7, <1>8, AnotherKeeps

LEMMA OtherwiseKeeps == ASSUME ParseInv, Otherwise PROVE ParseInv'
<1> PICK f : f = Top
  OBVIOUS
<1> PICK g : g = [f EXCEPT !.kids = Kids]
  OBVIOUS
<1>1. Back /\ f.fix = "ternary" /\ Len(Kids) = 2
  BY DEF Otherwise
<1>2. at \in 1 .. Len(input)
  BY <1>1, CursorIsThere
<1>3. CASE ~ Is(at, <<":">>)
  <2>1. Unexpected(at)
    BY <1>3 DEF Otherwise
  <2> QED BY <1>2, <2>1, UnexpectedKeeps
<1>4. CASE Is(at, <<":">>)
  <2>1. Another
    BY <1>4 DEF Otherwise
  <2>2. f \in FrameSet
    BY <1>1, TopFacts
  <2>3. g.fix = f.fix /\ g.kids = Kids
    BY <2>2 DEF FrameSet
  <2>4. Len(Kids) \in Waiting(g)
    BY <1>1, <2>3 DEF Waiting
  <2>5. Len(Kids) + 1 = 3
    BY <1>1
  <2>6. Lead(g, Len(Kids) + 1) = <<<<":">>>> /\ InnerBp(g) = 0
    BY <1>1, <2>3, <2>5 DEF Lead, InnerBp
  <2> QED BY <1>1, <1>4, <2>1, <2>4, <2>6, AnotherKeeps
<1> QED BY <1>3, <1>4

LEMMA ReturnKeeps == ASSUME ParseInv, Return PROVE ParseInv'
<1>1. Looping /\ frames = <<>> /\ outcome' = "tree" /\ UNCHANGED <<input, at, min, start, lhs, frames, nodes>>
  BY DEF Return, Left
<1>2. Typed /\ Rules /\ Waits /\ AtHand /\ lhs # 0 /\ Len(nodes) \in Nat
  BY <1>1, LenProperties DEF ParseInv, Looping, Typed
<1>3. Typed'
  BY <1>1, <1>2 DEF Typed
<1>4. Grows /\ \A n \in Len(nodes) + 1 .. Len(nodes') : Rule(nodes, n)'
  BY <1>1, <1>2, SMT DEF Grows
<1>5. Rules'
  BY <1>2, <1>4, RulesGrow
<1>6. Waits'
  BY <1>1, <1>2, <1>4, WaitsStay
<1>7. AtHand'
  BY <1>1, <1>2 DEF AtHand, Word
<1> QED BY <1>1, <1>2, <1>3, <1>5, <1>6, <1>7 DEF ParseInv

LEMMA ParseKeeps == ASSUME ParseInv, [ParseStep]_parsing PROVE ParseInv'
<1>1. CASE ParseStep
  BY <1>1, PrefixKeeps, SizeofKeeps, GroupKeeps, CastKeeps, AtomKeeps, NoOperandKeeps, PostfixKeeps, ArgumentsKeeps,
     SubscriptKeeps, FieldKeeps, AssignKeeps, TernaryKeeps, BinaryKeeps, EndLastKeeps, EndClosedKeeps, NextArgumentKeeps,
     OtherwiseKeeps, ReturnKeeps DEF ParseStep
<1>2. CASE UNCHANGED parsing
  <2>1. UNCHANGED <<input, at, min, start, lhs, frames, nodes, outcome>>
    BY <1>2 DEF parsing
  <2>2. Typed /\ Rules /\ Len(nodes) \in Nat
    BY LenProperties DEF ParseInv, Typed
  <2>3. Typed'
    BY <2>1, <2>2 DEF Typed
  <2>4. Grows /\ \A n \in Len(nodes) + 1 .. Len(nodes') : Rule(nodes, n)'
    BY <2>1, <2>2, SMT DEF Grows
  <2>5. Rules'
    BY <2>2, <2>4, RulesGrow
  <2>6. Waits => Waits'
    BY <2>1, <2>2, <2>4, WaitsStay
  <2>7. AtHand => AtHand'
    BY <2>1 DEF AtHand, Word
  <2> QED BY <2>1, <2>3, <2>5, <2>6, <2>7 DEF ParseInv
<1> QED BY <1>1, <1>2

LEMMA ParseStart == ParseInit => ParseInv
<1> SUFFICES ASSUME ParseInit PROVE ParseInv
  OBVIOUS
<1>1. /\ input \in Lists /\ at = 1 /\ min = 0 /\ start = 1 /\ lhs = 0 /\ frames = <<>> /\ nodes = <<>> /\ outcome = "none"
  BY DEF ParseInit, Begun
<1>2. Len(frames) = 0 /\ Len(nodes) = 0
  BY <1>1
<1>3. 1 \in 1 .. Len(input)
  <2>1. Len(input) \in Nat /\ Len(input) # 0
    BY <1>1, LenProperties, EmptySeq DEF Lists
  <2> QED BY <2>1, SMT
<1>4. nodes \in Seq(NodeSet) /\ frames \in Seq(FrameSet)
  BY <1>1
<1>5. Typed
  BY <1>1, <1>2, <1>3, <1>4 DEF Typed
<1>6. Rules /\ Waits
  <2>1. \A i \in 1 .. 0 : FALSE
    BY SMT
  <2>2. 1 > 0
    BY SMT
  <2> QED BY <1>1, <1>2, <2>1, <2>2 DEF Rules, Waits, StartOf, MinOf
<1>7. AtHand
  BY <1>1 DEF AtHand
<1> QED BY <1>1, <1>5, <1>6, <1>7 DEF ParseInv

LEMMA Parsed == ParseSpec => []ParseInv
<1>1. ParseInv /\ [ParseStep]_parsing => ParseInv'
  BY ParseKeeps
<1> QED BY <1>1, ParseStart, PTL DEF ParseSpec

\* Every expression that parse_prefix and parse_pratt make is derived by a rule of the
\* grammar from the tokens of its span, and the one they return is derived from all that
\* they took: for every list of tokens, and however deep the expression.
THEOREM ExpressionsAreDerived == ParseSpec => []Derived
<1>1. ParseInv => Derived
  <2> SUFFICES ASSUME ParseInv PROVE Derived
    OBVIOUS
  <2>1. Rules
    BY DEF ParseInv
  <2>2. ASSUME outcome = "tree" PROVE nodes[lhs].from = 1 /\ nodes[lhs].to = at /\ nodes[lhs].fix # "type"
    <3>1. Waits /\ AtHand /\ frames = <<>> /\ lhs # 0
      BY <2>2 DEF ParseInv
    <3>2. 1 > Len(frames)
      BY <3>1
    <3>3. start = 1
      BY <3>1, <3>2 DEF Waits, StartOf
    <3> QED BY <3>1, <3>3 DEF AtHand
  <2> QED BY <2>1, <2>2 DEF Derived, Rules, Rule
<1> QED BY <1>1, Parsed, PTL
-----------------------------------------------------------------------------
(* The parser comes to an end.                                             *)

Moves == /\ input' = input
         /\ \/ at' > at /\ Len(frames') <= Len(frames) + 1
            \/ at' >= at /\ Len(frames') = Len(frames) - 1

LEMMA OpenMoves ==
  ASSUME Typed, NEW fix, NEW sym, NEW kids, NEW p, NEW bp, Operand(fix, sym, kids, p, bp), p > at
  PROVE  Moves
<1> PICK f : f = [fix |-> fix, sym |-> sym, kids |-> kids, from |-> start, min |-> min]
  OBVIOUS
<1>1. frames' = Append(frames, f) /\ at' = p /\ input' = input
  BY DEF Operand, Call
<1>2. frames \in Seq(FrameSet) /\ Len(frames) \in Nat
  BY LenProperties DEF Typed
<1>3. Len(frames') = Len(frames) + 1
  BY <1>1, <1>2
<1> QED BY <1>1, <1>2, <1>3 DEF Moves

LEMMA YieldMoves == ASSUME Typed, NEW new, NEW p, Yield(new, p), p > at PROVE Moves
<1>1. Len(frames) \in Nat
  BY LenProperties DEF Typed
<1> QED BY <1>1 DEF Yield, Moves

LEMMA EndMoves == ASSUME ParseInv, Back, NEW p, End(p), p >= at PROVE Moves
<1> PICK m : m = Len(frames)
  OBVIOUS
<1>1. Typed /\ m \in Nat \ {0}
  BY TopFacts, OperandIsRead DEF Back, Left
<1>2. frames' = SubSeq(frames, 1, m - 1) /\ at' = p /\ input' = input
  BY DEF End
<1>3. frames \in Seq(FrameSet) /\ m - 1 \in 0 .. m
  BY <1>1, SMT DEF Typed
<1>4. Len(frames') = m - 1
  <2>1. 1 \in Int /\ m - 1 \in Int /\ (1 <= m - 1 \/ m - 1 = 0) /\ m - 1 - 1 + 1 = m - 1
    BY <1>1, SMT
  <2>2. \A i \in 1 .. m - 1 : frames[i] \in FrameSet
    <3>1. \A i \in 1 .. m - 1 : i \in 1 .. m
      BY <1>1, SMT
    <3> QED BY <1>3, <3>1, ElementOfSeq
  <2>3. Len(frames') = IF 1 <= m - 1 THEN m - 1 - 1 + 1 ELSE 0
    BY <1>2, <2>1, <2>2, SubSeqProperties
  <2> QED BY <2>1, <2>3
<1> QED BY <1>2, <1>4 DEF Moves

LEMMA AnotherMoves == ASSUME ParseInv, Back, Another PROVE Moves
<1> PICK m, f : m = Len(frames) /\ f = Top
  OBVIOUS
<1> PICK g : g = [f EXCEPT !.kids = Kids]
  OBVIOUS
<1>1. Typed /\ at \in Int
  BY CursorIsThere
<1>2. m \in Nat \ {0} /\ f = frames[m]
  BY TopFacts
<1>3. frames' = [frames EXCEPT ![m] = g] /\ at' = at + 1 /\ input' = input
  BY <1>2 DEF Another, Call
<1>4. frames = [i \in 1 .. m |-> frames[i]] /\ frames \in Seq(FrameSet)
  BY <1>1, <1>2, SMT DEF Typed
<1>5. frames' = [i \in 1 .. m |-> IF i = m THEN g ELSE frames[i]]
  BY <1>3, <1>4
<1>6. Len(frames') = m
  BY <1>2, <1>5
<1> QED BY <1>1, <1>2, <1>3, <1>6 DEF Moves

LEMMA RefusalEnds == ASSUME NEW p, Unexpected(p) \/ Refuse(p, "UnexpectedToken") PROVE outcome' # "none"
BY DEF Unexpected, Refuse

LEMMA ReadingMoves ==
  ASSUME ParseInv, outcome' = "none", Prefix \/ Sizeof \/ Group \/ Cast \/ Atom \/ NoOperand
  PROVE  Moves
<1>1. Typed /\ at \in 1 .. Len(input) /\ at \in Int /\ Len(input) \in Nat
  BY ReadingStarts DEF Prefix, Sizeof, Group, Cast, Atom, NoOperand
<1>2. at + 1 > at /\ at + 2 > at
  BY <1>1
<1>3. CASE Prefix \/ Group
  BY <1>1, <1>2, <1>3, OpenMoves DEF Prefix, Group
<1>4. CASE Atom
  BY <1>1, <1>2, <1>4, YieldMoves DEF Atom
<1>5. CASE NoOperand
  BY <1>5, RefusalEnds DEF NoOperand
<1>6. CASE Cast
  <2> PICK p, q, r : p = at + 1 /\ q = AfterType(p) /\ r = q + 1
    OBVIOUS
  <2>1. Is(at, <<"(">>) /\ IsType(p)
    BY <1>6 DEF Cast
  <2>2. p \in 1 .. Len(input)
    BY <1>1, <2>1, NextToken
  <2>3. q \in 1 .. Len(input) /\ p < q
    BY <1>1, <2>1, <2>2, TypeEnds
  <2>4. r > at
    BY <1>1, <2>3, SMT
  <2>5. Operand("cast", <<>>, <<Len(nodes) + 1>>, r, PrefixBp)
    BY <1>6, RefusalEnds DEF Cast
  <2> QED BY <1>1, <2>4, <2>5, OpenMoves
<1>7. CASE Sizeof
  <2> PICK p, q, r : p = at + 2 /\ q = AfterType(p) /\ r = q + 1
    OBVIOUS
  <2>1. CASE ~ Is(at + 1, <<"(">>)
    BY <1>7, <2>1, RefusalEnds DEF Sizeof
  <2>2. CASE Is(at + 1, <<"(">>) /\ ~ IsType(p)
    <3>1. Operand("sizeof", <<>>, <<>>, p, 0)
      BY <1>7, <2>2 DEF Sizeof
    <3> QED BY <1>1, <1>2, <3>1, OpenMoves
  <2>3. CASE Is(at + 1, <<"(">>) /\ IsType(p)
    <3>1. at + 1 \in 1 .. Len(input)
      BY <1>1, <1>7, NextToken DEF Sizeof
    <3>2. at + 1 + 1 \in 1 .. Len(input)
      BY <1>1, <2>3, <3>1, NextToken
    <3>3. at + 1 + 1 = p
      BY <1>1, SMT
    <3>4. q \in 1 .. Len(input) /\ p < q
      BY <1>1, <2>3, <3>2, <3>3, TypeEnds
    <3>5. r > at
      BY <1>1, <3>4, SMT
    <3>6. Yield(<<TypeAt(p), Made("sizeof", <<>>, <<Len(nodes) + 1>>, start, r)>>, r)
      BY <1>7, <2>3, RefusalEnds DEF Sizeof
    <3> QED BY <1>1, <3>5, <3>6, YieldMoves
  <2> QED BY <2>1, <2>2, <2>3
<1> QED BY <1>3, <1>4, <1>5, <1>6, <1>7

LEMMA LoopingMoves ==
  ASSUME ParseInv, outcome' = "none", Postfix \/ Arguments \/ Subscript \/ Field \/ Assign \/ Ternary \/ Binary
  PROVE  Moves
<1>1. Looping
  BY DEF Postfix, Arguments, Subscript, Field, Assign, Ternary, Binary
<1>2. Typed /\ at \in Int
  BY <1>1, OperandIsRead, LoopingStarts
<1>3. at + 1 > at /\ at + 2 > at
  BY <1>2
<1>4. CASE Postfix
  BY <1>2, <1>3, <1>4, YieldMoves DEF Postfix
<1>5. CASE Arguments
  BY <1>2, <1>3, <1>5, YieldMoves, OpenMoves DEF Arguments
<1>6. CASE Subscript \/ Assign \/ Ternary \/ Binary
  BY <1>2, <1>3, <1>6, OpenMoves DEF Subscript, Assign, Ternary, Binary
<1>7. CASE Field
  BY <1>2, <1>3, <1>7, YieldMoves, RefusalEnds DEF Field
<1> QED BY <1>4, <1>5, <1>6, <1>7

LEMMA LeftMoves ==
  ASSUME ParseInv, outcome' = "none", EndLast \/ EndClosed \/ NextArgument \/ Otherwise
  PROVE  Moves
<1>1. Back
  BY DEF EndLast, EndClosed, NextArgument, Otherwise
<1>2. at \in Int
  BY <1>1, CursorIsThere
<1>3. at >= at /\ at + 1 >= at
  BY <1>2
<1>4. CASE EndLast
  BY <1>1, <1>3, <1>4, EndMoves DEF EndLast
<1>5. CASE EndClosed
  BY <1>1, <1>3, <1>5, EndMoves, RefusalEnds DEF EndClosed
<1>6. CASE NextArgument \/ Otherwise
  BY <1>1, <1>6, AnotherMoves, RefusalEnds DEF NextArgument, Otherwise
<1> QED BY <1>4, <1>5, <1>6

\* Every step of the expression parser takes a token or ends an expression that waits, and
\* never runs past the end of the file: it ends within twice as many steps as there are
\* tokens, whatever they are.
THEOREM ParserComesToAnEnd == ParseSpec => ParserEnds
<1>1. ASSUME ParseInv, [ParseStep]_parsing, ParseInv'
      PROVE  [outcome = "none" /\ outcome' = "none" =>
                /\ at' \in 1 .. Len(input)
                /\ 2 * at' - Len(frames') > 2 * at - Len(frames)]_parsing
  <2> SUFFICES ASSUME ParseStep, outcome' = "none"
               PROVE  at' \in 1 .. Len(input) /\ 2 * at' - Len(frames') > 2 * at - Len(frames)
    BY <1>1
  <2>1. Moves
    <3>1. ~ Return
      BY DEF Return
    <3> QED BY <1>1, <3>1, ReadingMoves, LoopingMoves, LeftMoves DEF ParseStep
  <2>2. /\ Typed /\ Typed' /\ Len(frames) \in Nat /\ Len(frames') \in Nat /\ at' \in 1 .. Len(input)
    BY <1>1, <2>1, LenProperties DEF ParseInv, Typed, Moves
  <2>3. at \in Int /\ at' \in Int
    <3>1. at \in 1 .. Len(input)
      BY <2>2 DEF Typed
    <3> QED BY <2>2, <3>1, SMT
  <2>4. 2 * at' - Len(frames') > 2 * at - Len(frames)
    <3> PICK a, b, m, n : a = at /\ b = at' /\ m = Len(frames) /\ n = Len(frames')
      OBVIOUS
    <3>1. a \in Int /\ b \in Int /\ m \in Nat /\ n \in Nat /\ ((b > a /\ n <= m + 1) \/ (b >= a /\ n = m - 1))
      BY <2>1, <2>2, <2>3 DEF Moves
    <3>2. 2 * b - n > 2 * a - m
      BY <3>1, SMT
    <3> QED BY <3>2
  <2> QED BY <2>2, <2>4
<1>2. ParseSpec => [][ParseInv /\ ParseInv' /\ [ParseStep]_parsing]_parsing
  BY Parsed, PTL DEF ParseSpec
<1> QED BY <1>1, <1>2, PTL DEF ParserEnds

\* The expressions ks are made one behind the other, the first of what they are made
\* of is b; and what is made next.
Lined(low, ks, b) == ks # <<>> => low[ks[1]] = b /\ \A i \in 2 .. Len(ks) : low[ks[i]] = ks[i - 1] + 1
NextFirst(ks, b)  == IF ks = <<>> THEN b ELSE ks[Len(ks)] + 1

\* The first m of ns in the order in which they end, each behind all that it is made
\* of, the first of which is low[n].
Ordered(ns, low, m) ==
  \A n \in 1 .. m : Lined(low, ns[n].kids, low[n]) /\ NextFirst(ns[n].kids, low[n]) = n

\* ns is a derivation of one expression from the tokens in front of p.
Derivation(ns, low, p) ==
  /\ ns \in Seq(NodeSet) /\ ns # <<>>
  /\ \A n \in 1 .. Len(ns) : Rule(ns, n)
  /\ Ordered(ns, low, Len(ns)) /\ low[Len(ns)] = 1
  /\ ns[Len(ns)].from = 1 /\ ns[Len(ns)].to = p /\ ns[Len(ns)].fix # "type"
-----------------------------------------------------------------------------
Backward(ns) == \A n \in 1 .. Len(ns) : \A i \in 1 .. Len(ns[n].kids) : ns[n].kids[i] \in 1 .. n - 1

LEMMA LinedAppend ==
  ASSUME NEW low, NEW ks \in Seq(Nat), NEW b, NEW x \in Nat, Lined(low, ks, b), low[x] = NextFirst(ks, b)
  PROVE  Lined(low, Append(ks, x), b) /\ NextFirst(Append(ks, x), b) = x + 1
<1> PICK ls, m : ls = Append(ks, x) /\ m = Len(ks)
  OBVIOUS
<1>1. m \in Nat /\ ls \in Seq(Nat) /\ Len(ls) = m + 1 /\ ls[m + 1] = x /\ \A i \in 1 .. m : ls[i] = ks[i]
  BY AppendProperties, LenProperties
<1>2. ls # <<>>
  BY <1>1
<1>3. NextFirst(ls, b) = x + 1
  BY <1>1, <1>2 DEF NextFirst
<1>4. CASE ks = <<>>
  <2>1. m = 0
    BY <1>4
  <2>2. \A i \in 2 .. Len(ls) : FALSE
    BY <1>1, <2>1, SMT
  <2>3. ls[1] = x
    BY <1>1, <2>1
  <2> QED BY <1>3, <1>4, <2>2, <2>3 DEF Lined, NextFirst
<1>5. CASE ks # <<>>
  <2>1. m \in Nat \ {0}
    BY <1>1, <1>5, EmptySeq
  <2>2. 1 \in 1 .. m /\ m \in 1 .. m
    BY <2>1, SMT
  <2>3. low[ls[1]] = b
    BY <1>1, <1>5, <2>2 DEF Lined
  <2>4. ASSUME NEW i \in 2 .. m + 1 PROVE low[ls[i]] = ls[i - 1] + 1
    <3>1. CASE i = m + 1
      <4>1. i - 1 = m
        BY <2>1, <3>1, SMT
      <4> QED BY <1>1, <1>5, <2>2, <3>1, <4>1 DEF NextFirst
    <3>2. CASE i # m + 1
      <4>1. i \in 1 .. m /\ i - 1 \in 1 .. m /\ i \in 2 .. Len(ks)
        BY <2>1, <3>2, SMT
      <4>2. ls[i] = ks[i] /\ ls[i - 1] = ks[i - 1]
        BY <1>1, <4>1
      <4>3. low[ks[i]] = ks[i - 1] + 1
        BY <1>5, <4>1 DEF Lined
      <4> QED BY <4>2, <4>3
    <3> QED BY <3>1, <3>2
  <2> QED BY <1>1, <1>3, <2>3, <2>4 DEF Lined
<1> QED BY <1>4, <1>5

LEMMA LinedStays ==
  ASSUME NEW low, NEW low2, NEW ks, NEW b, NEW k \in Nat, Len(ks) \in Nat, ks # <<>> => Len(ks) # 0,
         \A n \in 1 .. k : low2[n] = low[n], \A i \in 1 .. Len(ks) : ks[i] \in 1 .. k, Lined(low, ks, b)
  PROVE  Lined(low2, ks, b)
<1>1. ASSUME ks # <<>> PROVE low2[ks[1]] = b
  <2>1. 1 \in 1 .. Len(ks)
    BY <1>1, SMT
  <2> QED BY <1>1, <2>1 DEF Lined
<1>2. ASSUME ks # <<>>, NEW i \in 2 .. Len(ks) PROVE low2[ks[i]] = ks[i - 1] + 1
  <2>1. i \in 1 .. Len(ks)
    BY <1>2, SMT
  <2> QED BY <1>2, <2>1 DEF Lined
<1> QED BY <1>1, <1>2 DEF Lined

\* One more, that is made of the last ones.
LEMMA AddOrdered ==
  ASSUME NEW ns \in Seq(NodeSet), Backward(ns), NEW k \in Nat, k + 1 <= Len(ns), NEW low, Ordered(ns, low, k), NEW b,
         NEW t, t = ns[k + 1], Lined(low, t.kids, b), NextFirst(t.kids, b) = k + 1,
         NEW low2, \A n \in 1 .. k : low2[n] = low[n], low2[k + 1] = b
  PROVE  Ordered(ns, low2, k + 1)
<1>1. Len(ns) \in Nat
  BY LenProperties
<1>2. (\A n \in 1 .. k : low2[n] = low[n]) /\ low2[k + 1] = b
  OBVIOUS
<1>3. ASSUME NEW n \in 1 .. k + 1
      PROVE  Lined(low2, ns[n].kids, low2[n]) /\ NextFirst(ns[n].kids, low2[n]) = n
  <2> PICK ks : ks = ns[n].kids
    OBVIOUS
  <2>1. n \in 1 .. Len(ns)
    BY <1>1, SMT
  <2>2. ns[n] \in NodeSet
    BY <2>1, ElementOfSeq
  <2>3. ks \in Seq(Nat)
    BY <2>2 DEF NodeSet
  <2>4. Len(ks) \in Nat /\ (ks # <<>> => Len(ks) # 0)
    BY <2>3, LenProperties, EmptySeq
  <2>5. \A i \in 1 .. Len(ks) : ks[i] \in 1 .. n - 1
    BY <2>1 DEF Backward
  <2>6. \A j \in 1 .. n - 1 : j \in 1 .. k
    BY <1>1, SMT
  <2>7. \A i \in 1 .. Len(ks) : ks[i] \in 1 .. k
    BY <2>5, <2>6
  <2>8. ASSUME NEW c, Lined(low, ks, c) PROVE Lined(low2, ks, c)
    BY <1>2, <2>4, <2>7, <2>8, LinedStays
  <2>9. CASE n = k + 1
    <3>1. Lined(low, ks, b) /\ NextFirst(ks, b) = n /\ low2[n] = b
      BY <1>2, <2>9
    <3> QED BY <2>8, <3>1
  <2>10. CASE n # k + 1
    <3>1. n \in 1 .. k
      BY <2>10, SMT
    <3>2. Lined(low, ks, low[n]) /\ NextFirst(ks, low[n]) = n /\ low2[n] = low[n]
      BY <1>2, <3>1 DEF Ordered
    <3> QED BY <2>8, <3>2
  <2> QED BY <2>9, <2>10
<1> QED BY <1>3 DEF Ordered

\* What is made so far is in order, and base has where the operand begins that each of
\* frames waits for.
InOrder(low, base) ==
  /\ Ordered(nodes, low, Len(nodes)) /\ base[1] = 1
  /\ \A i \in 1 .. Len(frames) : Lined(low, frames[i].kids, base[i]) /\ NextFirst(frames[i].kids, base[i]) = base[i + 1]
  /\ lhs = 0 => base[Len(frames) + 1] = Len(nodes) + 1
  /\ lhs # 0 => lhs = Len(nodes) /\ low[lhs] = base[Len(frames) + 1]

LEMMA NodesBackward == ASSUME Rules PROVE Backward(nodes)
BY DEF Rules, Rule, Backward

LEMMA FrameKids ==
  ASSUME Typed, Waits, NEW i \in 1 .. Len(frames), NEW ks, ks = frames[i].kids
  PROVE  /\ ks \in Seq(Nat) /\ Len(ks) \in Nat /\ (ks # <<>> => Len(ks) # 0)
         /\ \A j \in 1 .. Len(ks) : ks[j] \in 1 .. Len(nodes)
<1> PICK f, p : f = frames[i] /\ p = StartOf(i + 1)
  OBVIOUS
<1>1. IsStart(f, p)
  BY DEF Waits
<1>2. frames[i] \in FrameSet
  BY ElementOfSeq DEF Typed
<1>3. ks \in Seq(Nat)
  BY <1>2 DEF FrameSet
<1>4. Len(ks) \in Nat /\ (ks # <<>> => Len(ks) # 0)
  BY <1>3, LenProperties, EmptySeq
<1> QED BY <1>1, <1>3, <1>4 DEF IsStart

LEMMA FramesLined ==
  ASSUME Typed, Waits, NEW low, NEW base, InOrder(low, base), NEW low2, \A n \in 1 .. Len(nodes) : low2[n] = low[n]
  PROVE  \A i \in 1 .. Len(frames) : Lined(low2, frames[i].kids, base[i]) /\ NextFirst(frames[i].kids, base[i]) = base[i + 1]
<1> SUFFICES ASSUME NEW i \in 1 .. Len(frames)
             PROVE  Lined(low2, frames[i].kids, base[i]) /\ NextFirst(frames[i].kids, base[i]) = base[i + 1]
  OBVIOUS
<1> PICK ks, b : ks = frames[i].kids /\ b = base[i]
  OBVIOUS
<1>1. Lined(low, ks, b) /\ NextFirst(ks, b) = base[i + 1]
  BY DEF InOrder
<1>2. Len(nodes) \in Nat
  BY LenProperties DEF Typed
<1>3. Len(ks) \in Nat /\ (ks # <<>> => Len(ks) # 0) /\ \A j \in 1 .. Len(ks) : ks[j] \in 1 .. Len(nodes)
  BY FrameKids
<1>4. Lined(low2, ks, b)
  BY <1>1, <1>2, <1>3, LinedStays
<1> QED BY <1>1, <1>4

LEMMA OrderYield ==
  ASSUME Typed, Waits, NEW low, NEW base, InOrder(low, base), NEW low2, \A n \in 1 .. Len(nodes) : low2[n] = low[n],
         Ordered(nodes', low2, Len(nodes')), low2[Len(nodes')] = base[Len(frames) + 1], Len(nodes') \in Nat \ {0},
         frames' = frames, lhs' = Len(nodes')
  PROVE  InOrder(low2, base)'
<1>1. \A i \in 1 .. Len(frames) : Lined(low2, frames[i].kids, base[i]) /\ NextFirst(frames[i].kids, base[i]) = base[i + 1]
  BY FramesLined
<1>2. base[1] = 1
  BY DEF InOrder
<1>3. lhs' # 0
  BY SMT
<1> QED BY <1>1, <1>2, <1>3 DEF InOrder

LEMMA OrderOpen ==
  ASSUME Typed, Waits, NEW low, NEW base, InOrder(low, base), NEW low2, \A n \in 1 .. Len(nodes) : low2[n] = low[n],
         Ordered(nodes', low2, Len(nodes')), NEW kids,
         Lined(low2, kids, base[Len(frames) + 1]), NextFirst(kids, base[Len(frames) + 1]) = Len(nodes') + 1,
         NEW fix, NEW sym, NEW p, NEW bp, Operand(fix, sym, kids, p, bp)
  PROVE  \E base2 : InOrder(low2, base2)'
<1> PICK f, m : f = [fix |-> fix, sym |-> sym, kids |-> kids, from |-> start, min |-> min] /\ m = Len(frames)
  OBVIOUS
<1> PICK base2 : base2 = [i \in 1 .. m + 2 |-> IF i = m + 2 THEN Len(nodes') + 1 ELSE base[i]]
  OBVIOUS
<1>1. frames' = Append(frames, f) /\ lhs' = 0
  BY DEF Operand, Call
<1>2. m \in Nat /\ Len(frames') = m + 1 /\ frames'[m + 1] = f /\ \A i \in 1 .. m : frames'[i] = frames[i]
  <2>1. frames \in Seq(FrameSet)
    BY DEF Typed
  <2> QED BY <1>1, <2>1, AppendProperties, LenProperties
<1>3. base2[m + 2] = Len(nodes') + 1 /\ \A i \in 1 .. m + 1 : base2[i] = base[i]
  <2>1. m + 2 \in 1 .. m + 2 /\ \A i \in 1 .. m + 1 : i \in 1 .. m + 2 /\ i # m + 2
    BY <1>2, SMT
  <2> QED BY <2>1
<1>4. f.kids = kids
  OBVIOUS
<1>5. ASSUME NEW i \in 1 .. m + 1
      PROVE  Lined(low2, frames'[i].kids, base2[i]) /\ NextFirst(frames'[i].kids, base2[i]) = base2[i + 1]
  <2>1. CASE i = m + 1
    <3>1. i + 1 = m + 2
      BY <1>2, <2>1, SMT
    <3> QED BY <1>2, <1>3, <1>4, <2>1, <3>1
  <2>2. CASE i # m + 1
    <3>1. i \in 1 .. m /\ i + 1 \in 1 .. m + 1
      BY <1>2, <2>2, SMT
    <3>2. Lined(low2, frames[i].kids, base[i]) /\ NextFirst(frames[i].kids, base[i]) = base[i + 1]
      BY <3>1, FramesLined
    <3> QED BY <1>2, <1>3, <3>1, <3>2
  <2> QED BY <2>1, <2>2
<1>6. base2[1] = 1
  <2>1. 1 \in 1 .. m + 1
    BY <1>2, SMT
  <2> QED BY <1>3, <2>1 DEF InOrder
<1>7. m + 1 + 1 = m + 2
  BY <1>2, SMT
<1>8. InOrder(low2, base2)'
  BY <1>1, <1>2, <1>3, <1>5, <1>6, <1>7 DEF InOrder
<1> QED BY <1>8

LEMMA OrderEnd ==
  ASSUME ParseInv, ParseInv', Back, NEW p, End(p), NEW low, NEW base, InOrder(low, base)
  PROVE  \E low2 : InOrder(low2, base)'
<1> PICK f, m, k : f = Top /\ m = Len(frames) /\ k = Len(nodes)
  OBVIOUS
<1> PICK t : t = Made(f.fix, f.sym, Kids, f.from, p)
  OBVIOUS
<1> PICK b : b = base[m]
  OBVIOUS
<1>1. /\ Typed /\ Waits /\ m \in Nat \ {0} /\ f = frames[m] /\ f.kids \in Seq(Nat) /\ lhs \in 1 .. k /\ k \in Nat /\ Len(f.kids) \in Nat
  BY TopFacts, OperandIsRead DEF Back, Left
<1>2. nodes' = Append(nodes, t) /\ lhs' = k + 1 /\ frames' = SubSeq(frames, 1, m - 1)
  BY DEF End
<1>3. /\ nodes' \in Seq(NodeSet) /\ Len(nodes') = k + 1 /\ nodes'[k + 1] = t /\ Backward(nodes')
      /\ \A n \in 1 .. k : nodes'[n] = nodes[n]
  <2>1. nodes' \in Seq(NodeSet) /\ Backward(nodes')
    BY NodesBackward DEF ParseInv, Typed, Rules, Rule, Backward
  <2>2. nodes \in Seq(NodeSet)
    BY <1>1 DEF Typed
  <2>3. t = nodes'[Len(nodes')] /\ Len(nodes') = k + 1 /\ \A n \in 1 .. k : nodes'[n] = nodes[n]
    <3>1. Len(nodes') = k + 1 /\ nodes'[k + 1] = t /\ \A n \in 1 .. k : nodes'[n] = nodes[n]
      BY <1>2, <2>2, AppendProperties
    <3> QED BY <3>1
  <2> QED BY <2>1, <2>3
<1>4. Len(frames') = m - 1 /\ \A i \in 1 .. m - 1 : frames'[i] = frames[i] /\ i \in 1 .. m
  BY <1>1, <1>2 DEF Typed
<1>5. m \in 1 .. m /\ lhs # 0 /\ lhs \in Nat
  BY <1>1, SMT
<1>6. Lined(low, f.kids, base[m]) /\ NextFirst(f.kids, base[m]) = base[m + 1] /\ lhs = k /\ low[lhs] = base[m + 1]
  BY <1>1, <1>5 DEF InOrder
<1>7. t.kids = Append(f.kids, lhs)
  BY DEF Made, Kids
<1>8. Lined(low, t.kids, base[m]) /\ NextFirst(t.kids, base[m]) = k + 1
  <2>1. lhs \in Nat /\ Lined(low, f.kids, base[m]) /\ low[lhs] = NextFirst(f.kids, base[m])
    BY <1>5, <1>6
  <2>2. Lined(low, Append(f.kids, lhs), base[m]) /\ NextFirst(Append(f.kids, lhs), base[m]) = lhs + 1
    BY <1>1, <2>1, LinedAppend
  <2> QED BY <1>6, <1>7, <2>2
<1>9. Ordered(nodes', low, k)
  BY <1>3 DEF InOrder, Ordered
<1> DEFINE low2 == [n \in 1 .. k + 1 |-> IF n = k + 1 THEN b ELSE low[n]]
<1>10. low2[k + 1] = b /\ \A n \in 1 .. k : low2[n] = low[n]
  <2>1. k + 1 \in 1 .. k + 1 /\ \A n \in 1 .. k : n \in 1 .. k + 1 /\ n # k + 1
    BY <1>1, SMT
  <2> QED BY <2>1
<1> HIDE DEF low2
<1>11. Ordered(nodes', low2, k + 1)
  <2> PICK ns : ns = nodes'
    OBVIOUS
  <2>1. k + 1 <= Len(ns) /\ t = ns[k + 1] /\ ns \in Seq(NodeSet) /\ Backward(ns) /\ Ordered(ns, low, k)
    <3>1. k + 1 <= k + 1
      BY <1>1, SMT
    <3> QED BY <1>3, <1>9, <3>1
  <2>2. k \in Nat /\ Lined(low, t.kids, b) /\ NextFirst(t.kids, b) = k + 1
    BY <1>1, <1>8
  <2> QED BY <1>10, <2>1, <2>2, AddOrdered
<1>12. \A i \in 1 .. m : Lined(low2, frames[i].kids, base[i]) /\ NextFirst(frames[i].kids, base[i]) = base[i + 1]
  BY <1>1, <1>10, FramesLined
<1>13. base[1] = 1 /\ lhs' # 0 /\ Len(frames') + 1 = m
  <2>1. base[1] = 1
    BY DEF InOrder
  <2> QED BY <1>1, <1>2, <1>4, <2>1, SMT
<1>14. \A i \in 1 .. Len(frames') : Lined(low2, frames'[i].kids, base[i]) /\ NextFirst(frames'[i].kids, base[i]) = base[i + 1]
  BY <1>4, <1>12
<1>15. Ordered(nodes', low2, Len(nodes')) /\ lhs' = Len(nodes') /\ low2[lhs'] = base[Len(frames') + 1]
  BY <1>2, <1>3, <1>11, <1>13, <1>10
<1>16. InOrder(low2, base)'
  BY <1>13, <1>14, <1>15 DEF InOrder
<1> QED BY <1>16

LEMMA OrderAnother ==
  ASSUME ParseInv, Back, Another, NEW low, NEW base, InOrder(low, base)
  PROVE  \E base2 : InOrder(low, base2)'
<1> PICK f, m, k : f = Top /\ m = Len(frames) /\ k = Len(nodes)
  OBVIOUS
<1> PICK g : g = [f EXCEPT !.kids = Kids]
  OBVIOUS
<1> PICK base2 : base2 = [i \in 1 .. m + 1 |-> IF i = m + 1 THEN k + 1 ELSE base[i]]
  OBVIOUS
<1>1. /\ Typed /\ Waits /\ m \in Nat \ {0} /\ f = frames[m] /\ f \in FrameSet /\ f.kids \in Seq(Nat) /\ lhs \in 1 .. k /\ k \in Nat
  BY TopFacts, OperandIsRead DEF Back, Left
<1>2. frames' = [frames EXCEPT ![m] = g] /\ lhs' = 0 /\ nodes' = nodes
  BY <1>1 DEF Another, Call
<1>3. frames = [i \in 1 .. m |-> frames[i]]
  BY <1>1, SMT DEF Typed
<1>4. frames' = [i \in 1 .. m |-> IF i = m THEN g ELSE frames[i]]
  BY <1>2, <1>3
<1>5. Len(frames') = m
  BY <1>1, <1>4
<1>6. m \in 1 .. m /\ lhs # 0 /\ lhs \in Nat
  BY <1>1, SMT
<1>7. Lined(low, f.kids, base[m]) /\ NextFirst(f.kids, base[m]) = base[m + 1] /\ lhs = k /\ low[lhs] = base[m + 1]
  BY <1>1, <1>6 DEF InOrder
<1>8. g.kids = Append(f.kids, lhs)
  BY <1>1 DEF Kids, FrameSet
<1>9. Lined(low, g.kids, base[m]) /\ NextFirst(g.kids, base[m]) = k + 1
  <2>1. lhs \in Nat /\ Lined(low, f.kids, base[m]) /\ low[lhs] = NextFirst(f.kids, base[m])
    BY <1>6, <1>7
  <2>2. Lined(low, Append(f.kids, lhs), base[m]) /\ NextFirst(Append(f.kids, lhs), base[m]) = lhs + 1
    BY <1>1, <2>1, LinedAppend
  <2> QED BY <1>7, <1>8, <2>2
<1>10. base2[m + 1] = k + 1 /\ \A i \in 1 .. m : base2[i] = base[i]
  <2>1. m + 1 \in 1 .. m + 1 /\ \A i \in 1 .. m : i \in 1 .. m + 1 /\ i # m + 1
    BY <1>1, SMT
  <2> QED BY <2>1
<1>11. ASSUME NEW i \in 1 .. m
       PROVE  Lined(low, frames'[i].kids, base2[i]) /\ NextFirst(frames'[i].kids, base2[i]) = base2[i + 1]
  <2>1. CASE i = m
    BY <1>4, <1>9, <1>10, <2>1
  <2>2. CASE i # m
    <3>1. i + 1 \in 1 .. m
      BY <1>1, <2>2, SMT
    <3>2. frames'[i] = frames[i]
      BY <1>4, <2>2
    <3>3. Lined(low, frames[i].kids, base[i]) /\ NextFirst(frames[i].kids, base[i]) = base[i + 1]
      BY DEF InOrder
    <3> QED BY <1>10, <3>1, <3>2, <3>3
  <2> QED BY <2>1, <2>2
<1>12. base2[1] = 1
  <2>1. 1 \in 1 .. m
    BY <1>1, SMT
  <2> QED BY <1>10, <2>1 DEF InOrder
<1>13. InOrder(low, base2)'
  BY <1>2, <1>5, <1>10, <1>11, <1>12 DEF InOrder
<1> QED BY <1>13

\* An expression that is begun, or goes on, with what is at hand.
Held(ks) == (Reading /\ ks = <<>>) \/ (Looping /\ ks = <<lhs>>)

LEMMA HeldStarts ==
  ASSUME ParseInv, Reading \/ Looping
  PROVE  Typed /\ Waits /\ Rules /\ Len(nodes) \in Nat /\ lhs \in Nat /\ (lhs # 0 => lhs \in 1 .. Len(nodes))
<1>1. Typed /\ Waits /\ Rules /\ Len(nodes) \in Nat
  BY ReadingStarts, OperandIsRead
<1>2. lhs \in 0 .. Len(nodes)
  BY <1>1 DEF Typed
<1> QED BY <1>1, <1>2, SMT

LEMMA HeldInOrder ==
  ASSUME ParseInv, NEW low, NEW base, InOrder(low, base), NEW ks, Held(ks), NEW b, b = base[Len(frames) + 1]
  PROVE  Lined(low, ks, b) /\ NextFirst(ks, b) = Len(nodes) + 1 /\ ks \in Seq(Nat) /\ \A i \in 1 .. Len(ks) : ks[i] \in 1 .. Len(nodes)
<1>1. CASE Reading /\ ks = <<>>
  <2>1. b = Len(nodes) + 1
    BY <1>1 DEF Reading, InOrder
  <2>2. ks \in Seq(Nat) /\ \A i \in 1 .. Len(ks) : FALSE
    BY <1>1, Empties, SMT
  <2> QED BY <1>1, <2>1, <2>2 DEF Lined, NextFirst
<1>2. CASE Looping /\ ks = <<lhs>>
  <2>1. lhs = Len(nodes) /\ low[lhs] = b /\ lhs # 0
    BY <1>2 DEF Looping, InOrder
  <2>2. lhs \in Nat /\ lhs \in 1 .. Len(nodes)
    BY <1>2, <2>1, HeldStarts
  <2>3. ks \in Seq(Nat) /\ Len(ks) = 1 /\ ks[1] = lhs /\ ks # <<>>
    BY <1>2, <2>2
  <2>4. (\A i \in 1 .. 1 : i = 1) /\ \A i \in 2 .. 1 : FALSE
    BY SMT
  <2>5. Lined(low, ks, b)
    BY <2>1, <2>3, <2>4 DEF Lined
  <2>6. NextFirst(ks, b) = Len(nodes) + 1
    BY <2>1, <2>3 DEF NextFirst
  <2> QED BY <2>2, <2>3, <2>4, <2>5, <2>6
<1> QED BY <1>1, <1>2 DEF Held

LEMMA OpensInOrder ==
  ASSUME ParseInv, NEW low, NEW base, InOrder(low, base), NEW ks, Held(ks), UNCHANGED nodes,
         NEW fix, NEW sym, NEW p, NEW bp, Operand(fix, sym, ks, p, bp)
  PROVE  \E lo, ba : InOrder(lo, ba)'
<1> PICK b : b = base[Len(frames) + 1]
  OBVIOUS
<1>1. Lined(low, ks, b) /\ NextFirst(ks, b) = Len(nodes) + 1
  BY HeldInOrder
<1>2. Typed /\ Waits
  BY HeldStarts DEF Held
<1>3. Ordered(nodes', low, Len(nodes')) /\ Lined(low, ks, base[Len(frames) + 1]) /\ NextFirst(ks, base[Len(frames) + 1]) = Len(nodes') + 1
  BY <1>1 DEF InOrder
<1>4. \A n \in 1 .. Len(nodes) : low[n] = low[n]
  OBVIOUS
<1>5. \E ba : InOrder(low, ba)'
  BY <1>2, <1>3, <1>4, OrderOpen
<1> QED BY <1>5

LEMMA NodesKept ==
  ASSUME ParseInv, ParseInv', NEW new, nodes' = nodes \o new, NEW k, k = Len(nodes), NEW ns, ns = nodes', NEW low, NEW base, InOrder(low, base)
  PROVE  /\ ns \in Seq(NodeSet) /\ Backward(ns) /\ Ordered(ns, low, k) /\ k \in Nat /\ Len(ns) \in Nat
         /\ \A n \in 1 .. k : ns[n] = nodes[n]
<1>1. ns \in Seq(NodeSet) /\ Len(ns) \in Nat /\ nodes \in Seq(NodeSet) /\ k \in Nat
  BY LenProperties DEF ParseInv, Typed
<1>2. Backward(ns)
  BY NodesBackward DEF ParseInv, Rules, Rule, Backward
<1>3. \A n \in 1 .. k : ns[n] = nodes[n]
  BY <1>1
<1>4. Ordered(ns, low, k)
  BY <1>3 DEF InOrder, Ordered
<1> QED BY <1>1, <1>2, <1>3, <1>4

LEMMA YieldInOrder ==
  ASSUME ParseInv, ParseInv', NEW low, NEW base, InOrder(low, base), NEW t, NEW p, Yield(<<t>>, p), Held(t.kids)
  PROVE  \E lo, ba : InOrder(lo, ba)'
<1> PICK b, k, ns : b = base[Len(frames) + 1] /\ k = Len(nodes) /\ ns = nodes'
  OBVIOUS
<1>1. nodes' = nodes \o <<t>> /\ lhs' = k + 1 /\ frames' = frames
  <2>1. Len(<<t>>) = 1
    OBVIOUS
  <2> QED BY <2>1 DEF Yield
<1>2. ns \in Seq(NodeSet) /\ Backward(ns) /\ Ordered(ns, low, k) /\ k \in Nat
  BY <1>1, NodesKept
<1>3. Len(ns) = k + 1 /\ ns[k + 1] = t
  BY <1>1, <1>2 DEF ParseInv, Typed
<1>4. Lined(low, t.kids, b) /\ NextFirst(t.kids, b) = k + 1
  BY HeldInOrder
<1> DEFINE low2 == [n \in 1 .. k + 1 |-> IF n = k + 1 THEN b ELSE low[n]]
<1>5. low2[k + 1] = b /\ \A n \in 1 .. k : low2[n] = low[n]
  <2>1. k + 1 \in 1 .. k + 1 /\ \A n \in 1 .. k : n \in 1 .. k + 1 /\ n # k + 1
    BY <1>2, SMT
  <2> QED BY <2>1
<1> HIDE DEF low2
<1>6. Ordered(ns, low2, k + 1)
  <2>1. k + 1 <= Len(ns) /\ t = ns[k + 1]
    BY <1>2, <1>3, SMT
  <2> QED BY <1>2, <1>4, <1>5, <2>1, AddOrdered
<1>7. Typed /\ Waits /\ Len(nodes') \in Nat \ {0}
  <2>1. k + 1 \in Nat \ {0}
    BY <1>2, SMT
  <2> QED BY <1>3, <2>1, HeldStarts DEF Held
<1>8. Ordered(nodes', low2, Len(nodes')) /\ low2[Len(nodes')] = base[Len(frames) + 1] /\ lhs' = Len(nodes')
  BY <1>1, <1>3, <1>5, <1>6
<1>9. \A n \in 1 .. Len(nodes) : low2[n] = low[n]
  BY <1>5
<1>10. InOrder(low2, base)'
  BY <1>1, <1>7, <1>8, <1>9, OrderYield
<1> QED BY <1>10

IsLonger(ls, ks, x) == ls = Append(ks, x)

\* A leaf or type, and it as the last operand of what is at hand.
LEMMA LeafOrdered ==
  ASSUME NEW ns \in Seq(NodeSet), Backward(ns), NEW k \in Nat, k + 1 <= Len(ns), NEW low, Ordered(ns, low, k),
         NEW t, t = ns[k + 1], t.kids = <<>>, NEW low2, low2[k + 1] = k + 1, \A n \in 1 .. k : low2[n] = low[n]
  PROVE  Ordered(ns, low2, k + 1)
<1> PICK c : c = k + 1
  OBVIOUS
<1>1. Lined(low, t.kids, c)
  BY DEF Lined
<1>2. NextFirst(t.kids, c) = k + 1
  BY DEF NextFirst
<1>3. low2[k + 1] = c /\ \A n \in 1 .. k : low2[n] = low[n]
  OBVIOUS
<1> QED BY <1>1, <1>2, <1>3, AddOrdered

LEMMA YieldTwoInOrder ==
  ASSUME ParseInv, ParseInv', NEW low, NEW base, InOrder(low, base), NEW u, NEW t, NEW p, Yield(<<u, t>>, p), u.kids = <<>>,
         NEW ks, Held(ks), IsLonger(t.kids, ks, Len(nodes) + 1)
  PROVE  \E lo, ba : InOrder(lo, ba)'
<1> PICK b, k, ns, ls : b = base[Len(frames) + 1] /\ k = Len(nodes) /\ ns = nodes' /\ ls = t.kids
  OBVIOUS
<1>1. nodes' = nodes \o <<u, t>> /\ lhs' = k + 2 /\ frames' = frames
  <2>1. Len(<<u, t>>) = 2
    OBVIOUS
  <2> QED BY <2>1 DEF Yield
<1>2. ns \in Seq(NodeSet) /\ Backward(ns) /\ Ordered(ns, low, k) /\ k \in Nat
  BY <1>1, NodesKept
<1>3. Len(ns) = k + 2 /\ ns[k + 1] = u /\ ns[k + 2] = t
  BY <1>1, <1>2 DEF ParseInv, Typed
<1> DEFINE low1 == [n \in 1 .. k + 1 |-> IF n = k + 1 THEN k + 1 ELSE low[n]]
<1>4. low1[k + 1] = k + 1 /\ \A n \in 1 .. k : low1[n] = low[n]
  <2>1. k + 1 \in 1 .. k + 1 /\ \A n \in 1 .. k : n \in 1 .. k + 1 /\ n # k + 1
    BY <1>2, SMT
  <2> QED BY <2>1
<1> HIDE DEF low1
<1>5. Ordered(ns, low1, k + 1)
  <2>1. k + 1 <= Len(ns) /\ u = ns[k + 1]
    BY <1>2, <1>3, SMT
  <2> QED BY <1>2, <1>4, <2>1, LeafOrdered
<1>6. Lined(low1, ls, b) /\ NextFirst(ls, b) = k + 2
  <2>1. Lined(low, ks, b) /\ NextFirst(ks, b) = k + 1 /\ ks \in Seq(Nat) /\ \A i \in 1 .. Len(ks) : ks[i] \in 1 .. k
    BY HeldInOrder
  <2> PICK x : x = k + 1
    OBVIOUS
  <2>2. x \in Nat /\ x + 1 = k + 2
    BY <1>2, SMT
  <2>3. low1[x] = x /\ NextFirst(ks, b) = x /\ \A n \in 1 .. k : low1[n] = low[n]
    BY <1>4, <2>1
  <2>4. Lined(low1, ks, b)
    <3>1. Len(ks) \in Nat /\ (ks # <<>> => Len(ks) # 0)
      BY <2>1, LenProperties, EmptySeq
    <3> QED BY <1>2, <2>1, <2>3, <3>1, LinedStays
  <2>5. low1[x] = NextFirst(ks, b)
    BY <2>3
  <2>6. Lined(low1, Append(ks, x), b) /\ NextFirst(Append(ks, x), b) = x + 1
    BY <2>1, <2>2, <2>4, <2>5, LinedAppend
  <2> QED BY <2>2, <2>6 DEF IsLonger
<1> DEFINE low2 == [n \in 1 .. k + 2 |-> IF n = k + 2 THEN b ELSE low1[n]]
<1>7. low2[k + 2] = b /\ \A n \in 1 .. k + 1 : low2[n] = low1[n]
  <2>1. k + 2 \in 1 .. k + 2 /\ \A n \in 1 .. k + 1 : n \in 1 .. k + 2 /\ n # k + 2
    BY <1>2, SMT
  <2> QED BY <2>1
<1> HIDE DEF low2
<1>8. Ordered(ns, low2, k + 2)
  <2>1. ASSUME NEW j \in Nat, j + 1 <= Len(ns), t = ns[j + 1], Ordered(ns, low1, j), Lined(low1, t.kids, b),
               NextFirst(t.kids, b) = j + 1, low2[j + 1] = b, \A n \in 1 .. j : low2[n] = low1[n]
        PROVE  Ordered(ns, low2, j + 1)
    BY <1>2, <2>1, AddOrdered
  <2> PICK j : j = k + 1
    OBVIOUS
  <2>2. j \in Nat /\ j + 1 = k + 2 /\ j + 1 <= Len(ns) /\ t = ns[j + 1]
    BY <1>2, <1>3, SMT
  <2>3. Ordered(ns, low1, j) /\ Lined(low1, t.kids, b) /\ NextFirst(t.kids, b) = j + 1 /\ low2[j + 1] = b
    BY <1>7, <1>5, <1>6, <2>2
  <2>4. \A n \in 1 .. j : low2[n] = low1[n]
    BY <1>7
  <2>5. Ordered(ns, low2, j + 1)
    BY <2>1, <2>2, <2>3, <2>4
  <2> QED BY <2>2, <2>5
<1>9. Typed /\ Waits /\ Len(nodes') \in Nat \ {0}
  <2>1. k + 2 \in Nat \ {0}
    BY <1>2, SMT
  <2> QED BY <1>3, <2>1, HeldStarts DEF Held
<1>10. Ordered(nodes', low2, Len(nodes')) /\ low2[Len(nodes')] = base[Len(frames) + 1] /\ lhs' = Len(nodes')
  BY <1>1, <1>3, <1>7, <1>8
<1>11. \A n \in 1 .. Len(nodes) : low2[n] = low[n]
  <2>1. \A n \in 1 .. k : n \in 1 .. k + 1
    BY <1>2, SMT
  <2> QED BY <1>7, <1>4, <2>1
<1>12. InOrder(low2, base)'
  BY <1>1, <1>9, <1>10, <1>11, OrderYield
<1> QED BY <1>12

LEMMA ReadingOpens ==
  ASSUME ParseInv, NEW low, NEW base, InOrder(low, base), Prefix \/ Group
  PROVE  \E lo, ba : InOrder(lo, ba)'
<1> PICK ks : ks = <<>>
  OBVIOUS
<1>1. Reading /\ UNCHANGED nodes /\ \E fix, sym, p, bp : Operand(fix, sym, ks, p, bp)
  BY DEF Prefix, Group
<1>2. Held(ks)
  BY <1>1 DEF Held
<1> QED BY <1>1, <1>2, OpensInOrder

LEMMA LoopingOpens ==
  ASSUME ParseInv, NEW low, NEW base, InOrder(low, base), Subscript \/ Assign \/ Ternary \/ Binary
  PROVE  \E lo, ba : InOrder(lo, ba)'
<1> PICK ks : ks = <<lhs>>
  OBVIOUS
<1>1. Looping /\ UNCHANGED nodes /\ \E fix, sym, p, bp : Operand(fix, sym, ks, p, bp)
  BY DEF Subscript, Assign, Ternary, Binary
<1>2. Held(ks)
  BY <1>1 DEF Held
<1> QED BY <1>1, <1>2, OpensInOrder

LEMMA ArgumentsInOrder ==
  ASSUME ParseInv, ParseInv', NEW low, NEW base, InOrder(low, base), Arguments
  PROVE  \E lo, ba : InOrder(lo, ba)'
<1> PICK ks : ks = <<lhs>>
  OBVIOUS
<1>1. Looping /\ Held(ks)
  BY DEF Arguments, Held
<1>2. CASE Is(at + 1, <<")">>)
  <2> PICK t, p : t = Made("call", <<>>, ks, start, at + 2) /\ p = at + 2
    OBVIOUS
  <2>1. Yield(<<t>>, p) /\ t.kids = ks
    BY <1>2 DEF Arguments, Made
  <2> QED BY <1>1, <2>1, YieldInOrder
<1>3. CASE ~ Is(at + 1, <<")">>)
  <2>1. UNCHANGED nodes /\ \E fix, sym, p, bp : Operand(fix, sym, ks, p, bp)
    BY <1>3 DEF Arguments
  <2> QED BY <1>1, <2>1, OpensInOrder
<1> QED BY <1>2, <1>3

LEMMA LeavesInOrder ==
  ASSUME ParseInv, ParseInv', NEW low, NEW base, InOrder(low, base), Atom \/ Postfix
  PROVE  \E lo, ba : InOrder(lo, ba)'
<1>1. CASE Atom
  <2> PICK t, p : t = Made("leaf", input[at].text, <<>>, start, at + 1) /\ p = at + 1
    OBVIOUS
  <2>1. Yield(<<t>>, p) /\ Held(t.kids)
    BY <1>1 DEF Atom, Made, Held
  <2> QED BY <2>1, YieldInOrder
<1>2. CASE Postfix
  <2> PICK t, p : t = Made("postfix", Word, <<lhs>>, start, at + 1) /\ p = at + 1
    OBVIOUS
  <2>1. Yield(<<t>>, p) /\ Held(t.kids)
    BY <1>2 DEF Postfix, Made, Held
  <2> QED BY <2>1, YieldInOrder
<1> QED BY <1>1, <1>2

LEMMA FieldInOrder ==
  ASSUME ParseInv, ParseInv', NEW low, NEW base, InOrder(low, base), Field, outcome' = "none"
  PROVE  \E lo, ba : InOrder(lo, ba)'
<1> PICK ks, p : ks = <<lhs>> /\ p = at + 2
  OBVIOUS
<1> PICK u, t : /\ u = Made("leaf", input[at + 1].text, <<>>, at + 1, p)
                /\ t = Made("field", Word, <<lhs, Len(nodes) + 1>>, start, p)
  OBVIOUS
<1>1. Held(ks)
  BY DEF Field, Held
<1>2. input[at + 1].kind = "ident"
  BY RefusalEnds DEF Field
<1>3. Yield(<<u, t>>, p)
  BY <1>2 DEF Field
<1>4. u.kids = <<>> /\ IsLonger(t.kids, ks, Len(nodes) + 1)
  BY DEF Made, IsLonger
<1> QED BY <1>1, <1>3, <1>4, YieldTwoInOrder

LEMMA SizeofInOrder ==
  ASSUME ParseInv, ParseInv', NEW low, NEW base, InOrder(low, base), Sizeof, outcome' = "none"
  PROVE  \E lo, ba : InOrder(lo, ba)'
<1> PICK ks, p, q : ks = <<>> /\ p = at + 2 /\ q = AfterType(p)
  OBVIOUS
<1>1. Held(ks)
  BY DEF Sizeof, Held
<1>2. Is(at + 1, <<"(">>)
  BY RefusalEnds DEF Sizeof
<1>3. CASE IsType(p)
  <2> PICK u, t, r : /\ u = TypeAt(p) /\ t = Made("sizeof", <<>>, <<Len(nodes) + 1>>, start, q + 1) /\ r = q + 1
    OBVIOUS
  <2>1. Is(q, <<")">>)
    BY <1>2, <1>3, RefusalEnds DEF Sizeof
  <2>2. Yield(<<u, t>>, r)
    BY <1>2, <1>3, <2>1 DEF Sizeof
  <2>3. u.kids = <<>> /\ IsLonger(t.kids, ks, Len(nodes) + 1)
    BY DEF TypeAt, Made, IsLonger
  <2> QED BY <1>1, <2>2, <2>3, YieldTwoInOrder
<1>4. CASE ~ IsType(p)
  <2>1. UNCHANGED nodes /\ \E fix, sym, r, bp : Operand(fix, sym, ks, r, bp)
    BY <1>2, <1>4 DEF Sizeof
  <2> QED BY <1>1, <2>1, OpensInOrder
<1> QED BY <1>3, <1>4

LEMMA CastInOrder ==
  ASSUME ParseInv, ParseInv', NEW low, NEW base, InOrder(low, base), Cast, outcome' = "none"
  PROVE  \E lo, ba : InOrder(lo, ba)'
<1> PICK b, k, ns, u : b = base[Len(frames) + 1] /\ k = Len(nodes) /\ ns = nodes' /\ u = TypeAt(at + 1)
  OBVIOUS
<1> PICK q : q = AfterType(at + 1)
  OBVIOUS
<1>1. Reading
  BY DEF Cast
<1>2. Is(q, <<")">>)
  BY RefusalEnds DEF Cast
<1>3. nodes' = Append(nodes, u) /\ Operand("cast", <<>>, <<k + 1>>, q + 1, PrefixBp)
  BY <1>2 DEF Cast
<1>4. nodes \in Seq(NodeSet) /\ ns \in Seq(NodeSet) /\ Typed /\ Waits
  BY HeldStarts, <1>1 DEF ParseInv, Typed
<1>5. Len(ns) = k + 1 /\ ns[k + 1] = u /\ k \in Nat /\ \A n \in 1 .. k : ns[n] = nodes[n]
  BY <1>3, <1>4, AppendProperties, LenProperties
<1>6. Ordered(ns, low, k) /\ Backward(ns) /\ u.kids = <<>>
  <2>1. Backward(ns)
    BY NodesBackward DEF ParseInv, Rules, Rule, Backward
  <2>2. Ordered(ns, low, k)
    BY <1>5 DEF InOrder, Ordered
  <2> QED BY <2>1, <2>2 DEF TypeAt, Made
<1> DEFINE low2 == [n \in 1 .. k + 1 |-> IF n = k + 1 THEN k + 1 ELSE low[n]]
<1>7. low2[k + 1] = k + 1 /\ \A n \in 1 .. k : low2[n] = low[n]
  <2>1. k + 1 \in 1 .. k + 1 /\ \A n \in 1 .. k : n \in 1 .. k + 1 /\ n # k + 1
    BY <1>5, SMT
  <2> QED BY <2>1
<1> HIDE DEF low2
<1>8. Ordered(ns, low2, k + 1)
  <2>1. k + 1 <= Len(ns) /\ u = ns[k + 1]
    BY <1>5, SMT
  <2> QED BY <1>4, <1>5, <1>6, <1>7, <2>1, LeafOrdered
<1> PICK ks : ks = <<k + 1>>
  OBVIOUS
<1>9. Lined(low2, ks, b) /\ NextFirst(ks, b) = k + 2
  <2>1. ks # <<>> /\ Len(ks) = 1 /\ ks[1] = k + 1
    OBVIOUS
  <2>2. \A i \in 2 .. 1 : FALSE
    BY SMT
  <2>3. b = k + 1
    BY <1>1 DEF Reading, InOrder
  <2>4. Lined(low2, ks, b)
    BY <1>7, <2>1, <2>2, <2>3 DEF Lined
  <2>5. k + 1 + 1 = k + 2
    BY <1>5, SMT
  <2> QED BY <2>1, <2>4, <2>5 DEF NextFirst
<1>10. /\ Ordered(nodes', low2, Len(nodes')) /\ Lined(low2, ks, base[Len(frames) + 1])
       /\ NextFirst(ks, base[Len(frames) + 1]) = Len(nodes') + 1 /\ \A n \in 1 .. Len(nodes) : low2[n] = low[n]
  <2>1. k + 1 + 1 = k + 2
    BY <1>5, SMT
  <2> QED BY <1>5, <1>7, <1>8, <1>9, <2>1
<1>11. \E ba : InOrder(low2, ba)'
  <2> PICK fix, sym, p, bp : fix = "cast" /\ sym = <<>> /\ p = q + 1 /\ bp = PrefixBp
    OBVIOUS
  <2>1. Operand(fix, sym, ks, p, bp)
    BY <1>3
  <2> QED BY <1>4, <1>10, <2>1, OrderOpen
<1> QED BY <1>11

LEMMA EndsInOrder ==
  ASSUME ParseInv, ParseInv', NEW low, NEW base, InOrder(low, base), EndLast \/ EndClosed, outcome' = "none"
  PROVE  \E lo, ba : InOrder(lo, ba)'
<1>1. Back /\ \E p : End(p)
  BY RefusalEnds DEF EndLast, EndClosed
<1>2. \E lo : InOrder(lo, base)'
  BY <1>1, OrderEnd
<1> QED BY <1>2

LEMMA GoesOnInOrder ==
  ASSUME ParseInv, ParseInv', NEW low, NEW base, InOrder(low, base), NextArgument \/ Otherwise, outcome' = "none"
  PROVE  \E lo, ba : InOrder(lo, ba)'
<1>1. Back /\ Another
  BY RefusalEnds DEF NextArgument, Otherwise
<1>2. \E ba : InOrder(low, ba)'
  BY <1>1, OrderAnother
<1> QED BY <1>2

\* As long as nothing is refused.
Found == outcome \in {"none", "tree"} => \E low, base : InOrder(low, base)

LEMMA FoundStays == ASSUME ParseInv, ParseInv', Found, [ParseStep]_parsing PROVE Found'
<1> SUFFICES ASSUME outcome' \in {"none", "tree"} PROVE (\E low, base : InOrder(low, base))'
  BY DEF Found
<1>1. CASE UNCHANGED parsing
  <2>1. outcome \in {"none", "tree"}
    BY <1>1 DEF parsing
  <2> PICK low, base : InOrder(low, base)
    BY <2>1 DEF Found
  <2>2. InOrder(low, base)'
    BY <1>1 DEF parsing, InOrder, Ordered
  <2> QED BY <2>2
<1>2. CASE ParseStep
  <2>1. outcome = "none"
    BY <1>2 DEF ParseStep, Prefix, Sizeof, Group, Cast, Atom, NoOperand, Postfix, Arguments, Subscript, Field, Assign, Ternary,
                Binary, EndLast, EndClosed, NextArgument, Otherwise, Return, Back, Left, Reading, Looping
  <2> PICK low, base : InOrder(low, base)
    BY <2>1 DEF Found
  <2>2. CASE Return
    <3>1. InOrder(low, base)'
      BY <2>2 DEF Return, InOrder, Ordered
    <3> QED BY <3>1
  <2>3. CASE outcome' = "tree" /\ ~ Return
    BY <1>2, <2>1, <2>3 DEF ParseStep, Prefix, Sizeof, Group, Cast, Atom, NoOperand, Postfix, Arguments, Subscript, Field, Assign,
                Ternary, Binary, EndLast, EndClosed, NextArgument, Otherwise, Operand, Call, Yield, End, Another, Unexpected, Refuse
  <2>4. ~ NoOperand \/ outcome' # "none"
    BY RefusalEnds DEF NoOperand
  <2>5. CASE outcome' = "none" /\ ~ Return
    BY <1>2, <2>4, <2>5, ReadingOpens, LoopingOpens, ArgumentsInOrder, LeavesInOrder, FieldInOrder, SizeofInOrder, CastInOrder,
       EndsInOrder, GoesOnInOrder DEF ParseStep
  <2> QED BY <2>2, <2>3, <2>5
<1> QED BY <1>1, <1>2

LEMMA FoundFirst == ParseInit => Found
<1> SUFFICES ASSUME ParseInit PROVE Found
  OBVIOUS
<1>1. nodes = <<>> /\ frames = <<>> /\ lhs = 0
  BY DEF ParseInit, Begun
<1> PICK base : base = <<1>>
  OBVIOUS
<1> PICK low : low = <<>>
  OBVIOUS
<1>2. Len(nodes) = 0 /\ Len(frames) = 0 /\ base[1] = 1 /\ \A n \in 1 .. 0 : FALSE
  BY <1>1, SMT
<1>3. InOrder(low, base)
  BY <1>1, <1>2 DEF InOrder, Ordered
<1> QED BY <1>3 DEF Found

\* Where an expression is returned no operator follows.
Rests == outcome = "tree" => Power(Word) = 0

LEMMA RestsStays == ASSUME ParseInv, Rests, [ParseStep]_parsing PROVE Rests'
<1>1. CASE UNCHANGED parsing
  BY <1>1 DEF parsing, Rests, Word
<1>2. CASE ParseStep /\ ~ Return
  <2>1. outcome = "none"
    BY <1>2 DEF ParseStep, Prefix, Sizeof, Group, Cast, Atom, NoOperand, Postfix, Arguments, Subscript, Field, Assign, Ternary,
                Binary, EndLast, EndClosed, NextArgument, Otherwise, Return, Back, Left, Reading, Looping
  <2>2. outcome' # "tree"
    BY <1>2, <2>1 DEF ParseStep, Prefix, Sizeof, Group, Cast, Atom, NoOperand, Postfix, Arguments, Subscript, Field, Assign,
                Ternary, Binary, EndLast, EndClosed, NextArgument, Otherwise, Operand, Call, Yield, End, Another, Unexpected, Refuse
  <2> QED BY <2>2 DEF Rests
<1>3. CASE Return
  <2>1. frames = <<>> /\ Left /\ Word' = Word
    BY <1>3 DEF Return, Word
  <2>2. Typed /\ Waits
    BY <2>1 DEF ParseInv, Left, Looping
  <2>3. 1 > Len(frames)
    <3>1. Len(frames) = 0
      BY <2>1
    <3> QED BY <3>1, SMT
  <2>4. min = 0
    BY <2>2, <2>3 DEF Waits, MinOf
  <2> PICK w : w = Word
    OBVIOUS
  <2>5. LeftBp(w) \in Nat /\ Power(w) = (IF w \in Strong THEN 40 ELSE LeftBp(w))
    <3> PICK e : e = LeftBp(w)
      OBVIOUS
    <3>1. e \in {0, 2, 3} \cup 4 .. 22 /\ Power(w) = (IF w \in Strong THEN 40 ELSE e)
      BY Powers
    <3>2. e \in Nat
      BY <3>1, SMT
    <3> QED BY <3>1, <3>2
  <2>6. w \notin Strong /\ ~ (LeftBp(w) # 0 /\ LeftBp(w) >= 0)
    BY <2>1, <2>4 DEF Left, Strong, Binds
  <2>7. LeftBp(w) = 0
    <3> PICK e : e = LeftBp(w)
      OBVIOUS
    <3>1. e \in Nat /\ ~ (e # 0 /\ e >= 0)
      BY <2>5, <2>6
    <3> QED BY <3>1, SMT
  <2>8. Power(w) = 0
    BY <2>5, <2>6, <2>7
  <2> QED BY <2>1, <2>8 DEF Rests
<1> QED BY <1>1, <1>2, <1>3

LEMMA FoundIsDerivation ==
  ASSUME ParseInv, Found, Rests, Derived, outcome = "tree"
  PROVE  (\E low : Derivation(nodes, low, at)) /\ Power(Word) = 0
<1> PICK low, base : InOrder(low, base)
  BY DEF Found
<1>1. Typed /\ Rules /\ frames = <<>> /\ lhs # 0 /\ lhs \in 0 .. Len(nodes) /\ Len(nodes) \in Nat
  BY LenProperties DEF ParseInv, Typed
<1>2. nodes # <<>>
  <2>1. Len(nodes) # 0
    BY <1>1, SMT
  <2> QED BY <2>1
<1>3. lhs = Len(nodes) /\ low[lhs] = 1
  <2>1. Len(frames) + 1 = 1
    BY <1>1
  <2> QED BY <1>1, <2>1 DEF InOrder
<1>4. nodes[lhs].from = 1 /\ nodes[lhs].to = at /\ nodes[lhs].fix # "type"
  BY DEF Derived
<1>5. Derivation(nodes, low, at)
  BY <1>1, <1>2, <1>3, <1>4 DEF Derivation, Typed, Rules, InOrder
<1> QED BY <1>5 DEF Rests

\* What the parser returns for any list of tokens is a derivation, in the grammar with levels,
\* of all the tokens up to where it stands: the expressions it made are those of one tree, none
\* is left over, and they stand in the order in which they end; and what follows binds nothing.
THEOREM TreesAreDerivations ==
  ParseSpec => [](outcome = "tree" => (\E low : Derivation(nodes, low, at)) /\ Power(Word) = 0)
<1>1. ParseInit => ParseInv /\ Found /\ Rests
  BY ParseStart, FoundFirst DEF ParseInit, Rests
<1>2. ParseInv /\ Found /\ Rests /\ [ParseStep]_parsing => (ParseInv /\ Found /\ Rests)'
  BY ParseKeeps, FoundStays, RestsStays
<1>3. ParseInv /\ Found /\ Rests /\ Derived => (outcome = "tree" => (\E low : Derivation(nodes, low, at)) /\ Power(Word) = 0)
  BY FoundIsDerivation
<1> QED BY <1>1, <1>2, <1>3, ExpressionsAreDerived, PTL DEF ParseSpec
-----------------------------------------------------------------------------
(* A derivation, and what is reached in it by left operands.               *)

WordAt(q) == IF input[q].kind = "punct" THEN input[q].text ELSE <<>>
\* As the lexer tells names from keywords.
Lexed == \A q \in 1 .. Len(input) : /\ input[q].kind = "keyword" => input[q].text \in Keywords
                                    /\ input[q].kind = "punct" => input[q].text \notin Keywords

\* An expression that begins with its first operand.
Led(t) == t.kids # <<>> /\ Lead(t, 1) = <<>>
Closed(ns, S) == \A n \in S : Led(ns[n]) => ns[n].kids[1] \in S
Spine(ns, o) == {n \in 1 .. Len(ns) : \A S \in SUBSET (1 .. Len(ns)) : o \in S /\ Closed(ns, S) => n \in S}

LEMMA NotLess == ASSUME NEW a \in 2 .. 40, NEW b \in 2 .. 40, NEW c \in 2 .. 40, a >= b, b >= c PROVE a >= c
BY SMT

LEMMA SpineIn ==
  ASSUME NEW ns, NEW o, NEW S \in SUBSET (1 .. Len(ns)), o \in S, Closed(ns, S), NEW n \in Spine(ns, o)
  PROVE  n \in S
BY DEF Spine

LEMMA SpineStart ==
  ASSUME NEW ns, NEW o \in 1 .. Len(ns)
  PROVE  o \in Spine(ns, o)
BY DEF Spine

LEMMA NodeFacts ==
  ASSUME NEW ns, NEW low, NEW p, Derivation(ns, low, p), NEW n \in 1 .. Len(ns), NEW t, t = ns[n]
  PROVE  /\ t \in NodeSet /\ t.kids \in Seq(Nat) /\ Len(t.kids) \in Nat /\ n \in Nat /\ Len(ns) \in Nat
         /\ t.fix \in Fixes \cup {"leaf", "type"} /\ t.from \in Nat /\ t.to \in Nat
         /\ \A i \in 1 .. Len(t.kids) : t.kids[i] \in 1 .. n - 1 /\ t.kids[i] \in 1 .. Len(ns)
         /\ IF t.fix \in {"leaf", "type"} THEN IsLeaf(t) ELSE IsForm(ns, t)
         /\ t.kids = <<>> => n = low[n]
         /\ t.kids # <<>> => /\ Len(t.kids) # 0 /\ low[t.kids[1]] = low[n] /\ t.kids[Len(t.kids)] + 1 = n
                             /\ \A i \in 2 .. Len(t.kids) : low[t.kids[i]] = t.kids[i - 1] + 1
<1>1. ns \in Seq(NodeSet) /\ Rule(ns, n) /\ Ordered(ns, low, Len(ns)) /\ Len(ns) \in Nat
  BY LenProperties DEF Derivation
<1>2. t \in NodeSet
  BY <1>1, ElementOfSeq
<1>3. t.kids \in Seq(Nat) /\ t.fix \in Fixes \cup {"leaf", "type"} /\ t.from \in Nat /\ t.to \in Nat
  BY <1>2 DEF NodeSet
<1>4. Len(t.kids) \in Nat /\ (t.kids # <<>> => Len(t.kids) # 0)
  BY <1>3, LenProperties, EmptySeq
<1>5. \A i \in 1 .. Len(t.kids) : t.kids[i] \in 1 .. n - 1
  BY <1>1 DEF Rule
<1>6. \A k \in 1 .. n - 1 : k \in 1 .. Len(ns)
  BY <1>1, SMT
<1>7. Lined(low, t.kids, low[n]) /\ NextFirst(t.kids, low[n]) = n
  BY <1>1 DEF Ordered
<1>8. IF t.fix \in {"leaf", "type"} THEN IsLeaf(t) ELSE IsForm(ns, t)
  BY <1>1 DEF Rule
<1>9. n \in Nat
  BY SMT
<1> QED BY <1>1, <1>2, <1>3, <1>4, <1>5, <1>6, <1>7, <1>8, <1>9 DEF Lined, NextFirst

LEMMA SpineClosed ==
  ASSUME NEW ns, NEW low, NEW p, Derivation(ns, low, p), NEW o \in 1 .. Len(ns), NEW n \in Spine(ns, o), Led(ns[n])
  PROVE  ns[n].kids[1] \in Spine(ns, o)
<1> PICK k : k = ns[n].kids[1]
  OBVIOUS
<1>1. n \in 1 .. Len(ns)
  BY DEF Spine
<1>2. k \in 1 .. Len(ns)
  <2>1. ns[n].kids # <<>>
    BY DEF Led
  <2> QED BY <1>1, <2>1, NodeFacts, SMT
<1>3. ASSUME NEW S \in SUBSET (1 .. Len(ns)), o \in S, Closed(ns, S) PROVE k \in S
  <2>1. n \in S
    BY <1>3 DEF Spine
  <2> QED BY <1>3, <2>1 DEF Closed
<1> QED BY <1>2, <1>3 DEF Spine

\* What has operands is a form.
LEMMA FormFacts ==
  ASSUME NEW ns, NEW low, NEW p, Derivation(ns, low, p), NEW n \in 1 .. Len(ns), NEW t, t = ns[n], t.fix \notin {"leaf", "type"}
  PROVE  /\ t.fix \in Fixes /\ t.sym \in Symbols(t) /\ Len(t.kids) \in Arity(t) /\ Len(t.kids) \in Nat \ {0} /\ t.kids # <<>>
         /\ \A i \in 1 .. Len(t.kids) : IsOperand(ns, t, i)
         /\ Spelled(Behind(ns, t, Len(t.kids)), t.to, Close(t))
<1>1. IsForm(ns, t) /\ Len(t.kids) \in Nat
  BY NodeFacts
<1>2. 0 \notin Arity(t)
  BY DEF Arity
<1>3. t.fix \in Fixes /\ t.sym \in Symbols(t) /\ Len(t.kids) \in Arity(t)
  BY <1>1 DEF IsForm
<1>4. Len(t.kids) # 0
  BY <1>2, <1>3
<1>5. t.kids # <<>>
  BY <1>4
<1> QED BY <1>1, <1>3, <1>4, <1>5 DEF IsForm

LEMMA NodeLevel ==
  ASSUME NEW ns, NEW low, NEW p, Derivation(ns, low, p), NEW n \in 1 .. Len(ns)
  PROVE  Level(ns[n]) \in 2 .. 40
<1> PICK t : t = ns[n]
  OBVIOUS
<1>1. t.fix \in {"leaf", "type"} \/ (t.fix \in Fixes /\ t.sym \in Symbols(t))
  BY FormFacts
<1> QED BY <1>1, Levels

\* What begins with its first operand, as the operand is an expression too.
LEMMA LedFacts ==
  ASSUME NEW ns, NEW low, NEW p, Derivation(ns, low, p), NEW n \in 1 .. Len(ns), NEW t, t = ns[n], Led(t),
         NEW k, k = t.kids[1]
  PROVE  /\ t.fix \in {"postfix", "index", "field", "call", "assign", "ternary", "binary"} /\ t.kids # <<>>
         /\ k \in 1 .. Len(ns) /\ k < n /\ low[k] = low[n] /\ ns[k].from = t.from
         /\ ns[k].fix # "type" /\ Level(ns[k]) >= Least(t, 1) /\ Level(ns[k]) >= Level(t)
<1>1. t.fix \notin {"leaf", "type"}
  BY NodeFacts DEF Led, IsLeaf
<1>2. t.fix \in Fixes /\ t.sym \in Symbols(t) /\ Len(t.kids) \in Nat \ {0} /\ t.kids # <<>>
  BY <1>1, FormFacts
<1>3. 1 \in 1 .. Len(t.kids)
  BY <1>2, SMT
<1>4. IsOperand(ns, t, 1)
  BY <1>1, <1>3, FormFacts
<1>5. t.fix \notin {"prefix", "sizeof", "group", "cast"}
  BY DEF Led, Lead
<1>6. k \in 1 .. n - 1 /\ k \in 1 .. Len(ns) /\ low[k] = low[n] /\ n \in Nat
  BY <1>2, <1>3, NodeFacts
<1>7. k < n
  BY <1>6, SMT
<1>8. ns[k].from = t.from
  <2> PICK q : q = ns[k].from
    OBVIOUS
  <2>1. Spelled(Behind(ns, t, 0), q, <<>>)
    BY <1>4 DEF IsOperand, Led, Kid
  <2>2. Behind(ns, t, 0) = t.from /\ t.from \in Nat
    BY NodeFacts DEF Behind
  <2>3. q = t.from + Len(<<>>)
    BY <2>1, <2>2 DEF Spelled
  <2> QED BY <2>2, <2>3, SMT
<1>9. ns[k].fix # "type" /\ Level(ns[k]) >= Least(t, 1)
  BY <1>4, <1>5 DEF IsOperand, Kid
<1>10. Level(ns[k]) >= Level(t)
  <2> PICK e, l : e = Level(ns[k]) /\ l = Tightness(t.sym)
    OBVIOUS
  <2>1. e \in Int
    <3>1. e \in 2 .. 40
      BY <1>6, NodeLevel
    <3> QED BY <3>1, SMT
  <2>2. CASE t.fix \in {"assign", "ternary"}
    <3>1. e >= 4 /\ Level(t) \in {2, 3}
      BY <1>9, <2>2 DEF Least, Level
    <3> QED BY <2>1, <3>1, SMT
  <2>3. CASE t.fix = "binary"
    BY <1>9, <2>3 DEF Least, Level
  <2>4. CASE t.fix \in {"postfix", "index", "field", "call"}
    BY <1>9, <2>4 DEF Least, Level
  <2> QED BY <1>2, <1>5, <2>2, <2>3, <2>4 DEF Fixes
<1> QED BY <1>2, <1>5, <1>6, <1>7, <1>8, <1>9, <1>10 DEF Fixes

LEMMA SpineFacts ==
  ASSUME NEW ns, NEW low, NEW p, Derivation(ns, low, p), NEW o \in 1 .. Len(ns), ns[o].fix # "type", NEW n \in Spine(ns, o)
  PROVE  /\ n \in 1 .. Len(ns) /\ n <= o /\ low[n] = low[o] /\ ns[n].from = ns[o].from
         /\ Level(ns[n]) >= Level(ns[o]) /\ ns[n].fix # "type"
<1> DEFINE S == {m \in 1 .. Len(ns) : m <= o /\ low[m] = low[o] /\ ns[m].from = ns[o].from
                                     /\ Level(ns[m]) >= Level(ns[o]) /\ ns[m].fix # "type"}
<1>1. o \in S
  <2>1. Level(ns[o]) \in 2 .. 40 /\ o \in Nat
    BY NodeFacts, NodeLevel
  <2>2. o <= o /\ Level(ns[o]) >= Level(ns[o])
    <3> PICK e : e = Level(ns[o])
      OBVIOUS
    <3>1. e \in 2 .. 40
      BY <2>1
    <3>2. e >= e
      BY <3>1, NotLess
    <3>3. o <= o
      BY <2>1, SMT
    <3> QED BY <3>2, <3>3
  <2> QED BY <2>2
<1>2. Closed(ns, S)
  <2> SUFFICES ASSUME NEW m \in S, Led(ns[m]) PROVE ns[m].kids[1] \in S
    BY DEF Closed
  <2> PICK t, k : t = ns[m] /\ k = ns[m].kids[1]
    OBVIOUS
  <2>1. /\ k \in 1 .. Len(ns) /\ k < m /\ low[k] = low[m] /\ ns[k].from = t.from
        /\ ns[k].fix # "type" /\ Level(ns[k]) >= Level(t)
    BY LedFacts
  <2>2. k <= o
    <3>1. m \in 1 .. Len(ns) /\ m <= o
      OBVIOUS
    <3> QED BY <2>1, <3>1, SMT
  <2>3. Level(ns[k]) >= Level(ns[o])
    <3> PICK c, d, e : c = Level(ns[k]) /\ d = Level(t) /\ e = Level(ns[o])
      OBVIOUS
    <3>1. c \in 2 .. 40 /\ d \in 2 .. 40 /\ e \in 2 .. 40
      BY <2>1, NodeLevel
    <3>2. c >= d /\ d >= e
      BY <2>1
    <3>3. c >= e
      BY <3>1, <3>2, NotLess
    <3> QED BY <3>3
  <2> QED BY <2>1, <2>2, <2>3
<1>3. S \in SUBSET (1 .. Len(ns))
  OBVIOUS
<1>4. n \in S
  <2> HIDE DEF S
  <2> QED BY <1>1, <1>2, <1>3, SpineIn
<1> QED BY <1>4

\* All but the last are the first operand of another.
LEMMA SpineParent ==
  ASSUME NEW ns, NEW low, NEW p, Derivation(ns, low, p), NEW o \in 1 .. Len(ns), NEW n \in Spine(ns, o), n # o
  PROVE  \E m \in Spine(ns, o) : Led(ns[m]) /\ ns[m].kids[1] = n
<1> SUFFICES ASSUME \A m \in Spine(ns, o) : Led(ns[m]) => ns[m].kids[1] # n PROVE FALSE
  OBVIOUS
<1> PICK S : S = Spine(ns, o) \ {n}
  OBVIOUS
<1>1. S \in SUBSET (1 .. Len(ns)) /\ o \in S
  BY SpineStart DEF Spine
<1>2. Closed(ns, S)
  <2> SUFFICES ASSUME NEW m \in S, Led(ns[m]) PROVE ns[m].kids[1] \in S
    BY DEF Closed
  <2>1. ns[m].kids[1] \in Spine(ns, o)
    BY SpineClosed
  <2> QED BY <2>1
<1>3. n \in S
  BY <1>1, <1>2, SpineIn
<1> QED BY <1>3

\* The one that does not begin with an operand.
LEMMA SpineHead ==
  ASSUME NEW ns, NEW low, NEW p, Derivation(ns, low, p), NEW o \in 1 .. Len(ns), ns[o].fix # "type"
  PROVE  \E h \in Spine(ns, o) : ns[h].fix \in {"leaf", "prefix", "group", "sizeof", "cast"}
<1> PICK S : S = Spine(ns, o)
  OBVIOUS
<1>1. S \subseteq Nat /\ S # {}
  <2>1. \A i \in 1 .. Len(ns) : i \in Nat
    BY SMT
  <2> QED BY <2>1, SpineStart DEF Spine
<1>2. PICK h \in S : \A y \in S : h <= y
  BY <1>1, Smallest
<1> PICK t : t = ns[h]
  OBVIOUS
<1>3. h \in 1 .. Len(ns) /\ t.fix # "type"
  BY SpineFacts
<1>4. ~ Led(t)
  <2> SUFFICES ASSUME Led(t) PROVE FALSE
    OBVIOUS
  <2> PICK k : k = t.kids[1]
    OBVIOUS
  <2>1. k < h /\ k \in Nat /\ h \in Nat
    <3>1. k \in 1 .. Len(ns) /\ k < h
      BY <1>3, LedFacts
    <3> QED BY <1>3, <3>1, SMT
  <2>2. k \in S
    BY SpineClosed
  <2>3. h <= k
    BY <1>2, <2>2
  <2> QED BY <2>1, <2>3, SMT
<1>5. CASE t.fix = "leaf"
  BY <1>5
<1>6. CASE t.fix # "leaf"
  <2>1. t.fix \in Fixes /\ t.kids # <<>>
    BY <1>3, <1>6, FormFacts
  <2>2. Lead(t, 1) # <<>>
    BY <1>4, <2>1 DEF Led
  <2> QED BY <2>1, <2>2 DEF Lead, Fixes
<1> QED BY <1>5, <1>6
-----------------------------------------------------------------------------
(* What stands around the expressions of a derivation.                     *)

LEMMA SpelledNone == ASSUME NEW p \in Nat, NEW q, Spelled(p, q, <<>>) PROVE q = p
<1>1. q = p + Len(<<>>)
  BY DEF Spelled
<1> QED BY <1>1, SMT

LEMMA SpelledOne == ASSUME NEW p \in Nat, NEW q, NEW w, Spelled(p, q, <<w>>) PROVE q = p + 1 /\ Is(p, w)
<1>1. q = p + Len(<<w>>) /\ \A j \in 1 .. Len(<<w>>) : Is(p + j - 1, <<w>>[j])
  BY DEF Spelled
<1>2. Len(<<w>>) = 1 /\ 1 \in 1 .. 1 /\ <<w>>[1] = w
  OBVIOUS
<1>3. q = p + 1 /\ Is(p + 1 - 1, w)
  BY <1>1, <1>2
<1>4. p + 1 - 1 = p
  BY SMT
<1> QED BY <1>3, <1>4

LEMMA SpelledTwo ==
  ASSUME NEW p \in Nat, NEW q, NEW w, NEW x, Spelled(p, q, <<w, x>>)
  PROVE  q = p + 2 /\ Is(p, w) /\ Is(p + 1, x)
<1>1. q = p + Len(<<w, x>>) /\ \A j \in 1 .. Len(<<w, x>>) : Is(p + j - 1, <<w, x>>[j])
  BY DEF Spelled
<1>2. Len(<<w, x>>) = 2 /\ 1 \in 1 .. 2 /\ 2 \in 1 .. 2 /\ <<w, x>>[1] = w /\ <<w, x>>[2] = x
  OBVIOUS
<1>3. q = p + 2 /\ Is(p + 1 - 1, w) /\ Is(p + 2 - 1, x)
  BY <1>1, <1>2
<1>4. p + 1 - 1 = p /\ p + 2 - 1 = p + 1
  BY SMT
<1> QED BY <1>3, <1>4

LEMMA WordIs == ASSUME NEW q, NEW w, Is(q, w) PROVE WordAt(q) \in {w, <<>>}
BY DEF Is, WordAt

Closers == {<<")">>, <<"]">>, <<",">>, <<":">>}

LEMMA NoPower == \A w \in Closers \cup {<<>>} : Power(w) = 0
<1>1. ASSUME NEW w, w \notin Strong \cup AssignOps \cup {<<"?">>}, BinaryBp(w) = 0 PROVE Power(w) = 0
  BY <1>1 DEF Power, Strong, LeftBp
<1>2. Power(<<")">>) = 0
  BY <1>1 DEF Strong, PostfixOps, FieldOps, AssignOps, BinaryBp
<1>3. Power(<<"]">>) = 0
  BY <1>1 DEF Strong, PostfixOps, FieldOps, AssignOps, BinaryBp
<1>4. Power(<<",">>) = 0
  BY <1>1 DEF Strong, PostfixOps, FieldOps, AssignOps, BinaryBp
<1>5. Power(<<":">>) = 0
  BY <1>1 DEF Strong, PostfixOps, FieldOps, AssignOps, BinaryBp
<1>6. Power(<<>>) = 0
  BY <1>1 DEF Strong, PostfixOps, FieldOps, AssignOps, BinaryBp
<1> QED BY <1>2, <1>3, <1>4, <1>5, <1>6 DEF Closers

LEMMA ClosersBindNothing == ASSUME NEW q, NEW w \in Closers, Is(q, w) PROVE Power(WordAt(q)) = 0
BY WordIs, NoPower

\* Levels with their bounds, the powers of tokens, and the level that an operand has at
\* least with the binding power it is read with.
HasBound(e, b) == \/ e \in {2, 3} /\ b = 0
                  \/ e \in 4 .. 22 /\ b = e
                  \/ e = 30 /\ b = 29
                  \/ e = 40 /\ b = 40
OfPowers(u)   == u \in {0, 2, 3, 40} \cup 4 .. 22
ReadsWith(v, m) == v \in 2 .. 30 /\ m \in 0 .. 30 /\ v >= m

LEMMA Between ==
  ASSUME NEW e, NEW b, HasBound(e, b), NEW u, OfPowers(u), NEW v, NEW m, ReadsWith(v, m), e >= v
  PROVE  e >= m /\ 0 <= b /\ (u <= 0 => u = 0) /\ (v = 30 /\ m = 30 /\ u <= 29 => u <= b /\ u < m)
BY SMT DEF HasBound, OfPowers, ReadsWith

LEMMA BetweenOperators ==
  ASSUME NEW e, NEW b, HasBound(e, b), NEW u, OfPowers(u), NEW v, NEW m, ReadsWith(v, m), e >= v, NEW l \in 4 .. 22, v = l + 1, m = l + 1, u <= l
  PROVE  u <= b /\ u < m
BY SMT DEF HasBound, OfPowers, ReadsWith

LEMMA BoundIs ==
  ASSUME NEW t, t.fix \in {"leaf", "type"} \/ (t.fix \in Fixes /\ t.sym \in Symbols(t))
  PROVE  HasBound(Level(t), Bound(t))
<1>1. t.fix = "binary" => Tightness(t.sym) \in 4 .. 22
  BY Levels
<1>2. CASE t.fix \in {"assign", "ternary"}
  BY <1>2 DEF Level, Bound, HasBound
<1>3. CASE t.fix = "binary"
  BY <1>1, <1>3 DEF Level, Bound, HasBound
<1>4. CASE t.fix \in {"prefix", "cast"}
  BY <1>4 DEF Level, Bound, HasBound
<1>5. CASE t.fix \notin {"assign", "ternary", "binary", "prefix", "cast"}
  BY <1>5 DEF Level, Bound, HasBound
<1> QED BY <1>2, <1>3, <1>4, <1>5

LEMMA PowerIs == ASSUME NEW w PROVE OfPowers(Power(w))
BY Powers DEF OfPowers

\* The token behind the expression n has been left to what is around it.
Tight(ns, n)   == Power(WordAt(ns[n].to)) <= Bound(ns[n])
\* An expression that is read with the binding power m, all of it and no more.
Fits(ns, n, m) ==
  /\ ns[n].fix # "type" /\ Level(ns[n]) >= m /\ Tight(ns, n)
  /\ Power(WordAt(ns[n].to)) = 0 \/ Power(WordAt(ns[n].to)) < m

LEMMA Slots == ASSUME NEW m \in Nat, NEW i \in 1 .. m, i # m PROVE m # 1 /\ (m = 2 => i = 1) /\ (m = 3 /\ i # 1 => i = 2)
BY SMT

\* The token behind an operand other than the first.
LEMMA BehindKid ==
  ASSUME NEW ns, NEW low, NEW p, Derivation(ns, low, p), NEW n \in 1 .. Len(ns), NEW t, t = ns[n],
         t.fix \notin {"leaf", "type", "field", "postfix"}, NEW i \in 1 .. Len(t.kids), i # 1 \/ Lead(t, 1) # <<>>,
         NEW k, k = t.kids[i], ns[k].fix # "type"
  PROVE  \/ Power(WordAt(ns[k].to)) = 0
         \/ ns[k].to = t.to /\ t.fix \in {"prefix", "cast", "assign", "binary", "ternary"}
<1> PICK m, q : m = Len(t.kids) /\ q = ns[k].to
  OBVIOUS
<1>1. /\ t.fix \in Fixes /\ m \in Arity(t) /\ m \in Nat \ {0} /\ \A j \in 1 .. m : IsOperand(ns, t, j)
      /\ Spelled(Behind(ns, t, m), t.to, Close(t))
  BY FormFacts
<1>2. i \in 1 .. m /\ i \in Nat /\ i # 0 /\ Behind(ns, t, i) = q
  BY <1>1, SMT DEF Behind, Kid
<1>3. q \in Nat
  <2>1. k \in 1 .. Len(ns)
    BY NodeFacts
  <2> QED BY <2>1, NodeFacts
<1>4. CASE i = m
  <2>1. Spelled(q, t.to, Close(t))
    BY <1>1, <1>2, <1>4
  <2>2. CASE t.fix \in {"prefix", "cast", "assign", "binary", "ternary"}
    <3>1. Close(t) = <<>>
      BY <2>2 DEF Close
    <3> QED BY <1>3, <2>1, <2>2, <3>1, SpelledNone
  <2>3. CASE t.fix \in {"group", "sizeof", "index", "call"}
    <3>1. \E w \in Closers : Close(t) = <<w>>
      <4>1. t.fix = "call" => m # 1
        BY <1>4, <2>3 DEF Lead
      <4> QED BY <2>3, <4>1 DEF Close, Closers
    <3> QED BY <1>3, <2>1, <3>1, SpelledOne, ClosersBindNothing
  <2> QED BY <1>1, <2>2, <2>3 DEF Fixes
<1>5. CASE i # m
  <2>1. i + 1 \in 1 .. m /\ i + 1 - 1 = i /\ i + 1 # 1
    BY <1>1, <1>2, <1>5, SMT
  <2>2. IsOperand(ns, t, i + 1)
    BY <1>1, <2>1
  <2> PICK r : r = Kid(ns, t, i + 1).from
    OBVIOUS
  <2>3. Spelled(q, r, Lead(t, i + 1))
    BY <1>2, <2>1, <2>2 DEF IsOperand
  <2>4. m # 1 /\ (m = 2 => i = 1) /\ (m = 3 /\ i # 1 => i = 2)
    BY <1>1, <1>2, <1>5, Slots
  <2>5. t.fix \in {"ternary", "call"} /\ (t.fix = "ternary" => i = 2) /\ (t.fix = "call" => i # 1)
    <3>1. t.fix \notin {"prefix", "group", "sizeof"}
      <4>1. m # 1
        BY <2>4
      <4> QED BY <1>1, <4>1 DEF Arity
    <3>2. t.fix # "cast"
      <4>1. t.fix = "cast" => m = 2
        BY <1>1 DEF Arity
      <4>2. m = 2 => i = 1
        BY <2>4
      <4>3. IsOperand(ns, t, i)
        BY <1>1, <1>2
      <4> QED BY <4>1, <4>2, <4>3 DEF IsOperand, Kid
    <3>3. t.fix \notin {"index", "assign", "binary"}
      <4>1. t.fix \in {"index", "assign", "binary"} => m = 2 /\ i # 1
        BY <1>1 DEF Arity, Lead
      <4>2. m = 2 => i = 1
        BY <2>4
      <4> QED BY <4>1, <4>2
    <3>4. t.fix = "ternary" => m = 3 /\ i # 1
      BY <1>1 DEF Arity, Lead
    <3>5. m = 3 /\ i # 1 => i = 2
      BY <2>4
    <3>6. t.fix = "call" => i # 1
      BY DEF Lead
    <3> QED BY <1>1, <3>1, <3>2, <3>3, <3>4, <3>5, <3>6 DEF Fixes
  <2>6. \E w \in Closers : Lead(t, i + 1) = <<w>>
    <3>1. i + 1 # 1 /\ (i = 2 => i + 1 = 3) /\ (i # 1 => i + 1 # 2)
      BY <1>2, <2>1, SMT
    <3>2. t.fix = "ternary" => Lead(t, i + 1) = <<<<":">>>>
      BY <2>5, <3>1 DEF Lead
    <3>3. t.fix = "call" => Lead(t, i + 1) = <<<<",">>>>
      BY <2>5, <3>1 DEF Lead
    <3> QED BY <2>5, <3>2, <3>3 DEF Closers
  <2> QED BY <1>3, <2>3, <2>6, SpelledOne, ClosersBindNothing
<1> QED BY <1>4, <1>5

\* What an expression reads is left of what it reads it with.
LEMMA InnerLeast ==
  ASSUME NEW t, t.fix \in Fixes \ {"field", "postfix"}, t.fix = "binary" => Tightness(t.sym) \in 4 .. 22,
         NEW i, i # 1 \/ Lead(t, 1) # <<>>
  PROVE  /\ ReadsWith(Least(t, i), InnerBp(t))
         /\ t.fix = "binary" => Least(t, i) = Tightness(t.sym) + 1 /\ InnerBp(t) = Tightness(t.sym) + 1
         /\ t.fix \in {"prefix", "cast"} => Least(t, i) = 30 /\ InnerBp(t) = 30
<1>1. CASE t.fix = "binary"
  <2>1. i # 1
    BY <1>1 DEF Lead
  <2>2. Least(t, i) = Tightness(t.sym) + 1 /\ InnerBp(t) = Tightness(t.sym) + 1
    BY <1>1, <2>1 DEF Least, InnerBp
  <2> QED BY <1>1, <2>2, SMT DEF ReadsWith
<1>2. CASE t.fix \in {"prefix", "cast"}
  BY <1>2 DEF Least, InnerBp, ReadsWith
<1>3. CASE t.fix \in {"assign", "ternary", "index", "call"}
  <2>1. i # 1
    BY <1>3 DEF Lead
  <2> QED BY <1>3, <2>1 DEF Least, InnerBp, ReadsWith
<1>4. CASE t.fix \in {"group", "sizeof"}
  <2>1. Least(t, i) = 2 /\ InnerBp(t) = 0
    BY <1>4 DEF Least, InnerBp
  <2> QED BY <1>4, <2>1 DEF ReadsWith
<1> QED BY <1>1, <1>2, <1>3, <1>4 DEF Fixes

LEMMA KidFits ==
  ASSUME NEW ns, NEW low, NEW p, Derivation(ns, low, p), NEW n \in 1 .. Len(ns), NEW t, t = ns[n], Tight(ns, n),
         t.fix \notin {"leaf", "type", "field", "postfix"}, NEW i \in 1 .. Len(t.kids), i # 1 \/ Lead(t, 1) # <<>>,
         NEW k, k = t.kids[i], ns[k].fix # "type"
  PROVE  Fits(ns, k, InnerBp(t))
<1> DEFINE u == Power(WordAt(ns[k].to))
           v == Least(t, i)
           e == Level(ns[k])
           b == Bound(ns[k])
           m == InnerBp(t)
           l == Tightness(t.sym)
<1>1. t.fix \in Fixes \ {"field", "postfix"} /\ t.sym \in Symbols(t)
  BY FormFacts
<1>2. t.fix = "binary" => Tightness(t.sym) \in 4 .. 22
  BY <1>1, Levels
<1>3. /\ ReadsWith(v, m)
      /\ t.fix = "binary" => v = Tightness(t.sym) + 1 /\ m = Tightness(t.sym) + 1
      /\ t.fix \in {"prefix", "cast"} => v = 30 /\ m = 30
  BY <1>1, <1>2, InnerLeast
<1>4. e >= v
  <2>1. IsOperand(ns, t, i)
    BY FormFacts
  <2> QED BY <2>1 DEF IsOperand, Kid
<1>5. k \in 1 .. Len(ns)
  BY NodeFacts
<1>6. HasBound(e, b)
  <2> PICK s : s = ns[k]
    OBVIOUS
  <2>1. s.fix \in {"leaf", "type"} \/ (s.fix \in Fixes /\ s.sym \in Symbols(s))
    BY <1>5, FormFacts
  <2> QED BY <2>1, BoundIs
<1>7. OfPowers(u)
  BY PowerIs
<1>8. (t.fix = "binary" => Bound(t) = l) /\ (t.fix \in {"prefix", "cast"} => Bound(t) = 29) /\ (t.fix \in {"assign", "ternary"} => Bound(t) = 0)
  BY DEF Bound
<1>9. (ns[k].to = t.to /\ t.fix \in {"prefix", "cast", "assign", "binary", "ternary"} /\ u <= Bound(t)) \/ u = 0
  BY BehindKid DEF Tight
<1>10. e >= m /\ u <= b /\ (u = 0 \/ u < m)
  <2> HIDE DEF u, v, e, b, m, l
  <2>1. e >= m /\ 0 <= b /\ (u <= 0 => u = 0)
    BY <1>3, <1>4, <1>6, <1>7, Between
  <2>2. ASSUME t.fix = "binary", u <= l PROVE u <= b /\ u < m
    <3>1. l \in 4 .. 22 /\ v = l + 1 /\ m = l + 1
      BY <1>2, <1>3, <2>2 DEF l
    <3> QED BY <1>3, <1>4, <1>6, <1>7, <2>2, <3>1, BetweenOperators
  <2>3. ASSUME t.fix \in {"prefix", "cast"}, u <= 29 PROVE u <= b /\ u < m
    <3>1. v = 30 /\ m = 30
      BY <1>3, <2>3
    <3> QED BY <1>3, <1>4, <1>6, <1>7, <2>3, <3>1, Between
  <2> QED BY <1>8, <1>9, <2>1, <2>2, <2>3
<1> QED BY <1>10 DEF Fits, Tight

\* The word behind a first operand.
OpWord(t) == CASE t.fix = "call"    -> <<"(">>
               [] t.fix = "index"   -> <<"[">>
               [] t.fix = "ternary" -> <<"?">>
               [] OTHER             -> t.sym

LEMMA TwoOrMore == ASSUME NEW m \in Nat \ {0}, m # 1 PROVE 2 \in 1 .. m /\ 2 \in 2 .. m
BY SMT

\* The second operand is behind a word that is at q, and begins where the first ends.
SecondAt(ns, low, t, q) ==
  /\ t.fix # "postfix" /\ 2 \in 1 .. Len(t.kids) /\ t.kids[2] \in 1 .. Len(ns)
  /\ ns[t.kids[2]].from = q + 1 /\ low[t.kids[2]] = t.kids[1] + 1

LEMMA LedWord ==
  ASSUME NEW ns, NEW low, NEW p, Derivation(ns, low, p), NEW n \in 1 .. Len(ns), NEW t, t = ns[n], Led(t),
         NEW k, k = t.kids[1], NEW q, q = ns[k].to
  PROVE  /\ q \in Nat /\ Is(q, OpWord(t)) /\ k \in Nat
         /\ Len(t.kids) = 1 => /\ t.fix \in {"postfix", "call"} /\ n = k + 1
                               /\ t.fix = "postfix" => t.to = q + 1
                               /\ t.fix = "call" => t.to = q + 2 /\ Is(q + 1, <<")">>)
         /\ Len(t.kids) # 1 => SecondAt(ns, low, t, q)
<1>1. /\ t.fix \in {"postfix", "index", "field", "call", "assign", "ternary", "binary"} /\ k \in 1 .. Len(ns)
  BY LedFacts
<1>2. /\ Len(t.kids) \in Arity(t) /\ Len(t.kids) \in Nat \ {0} /\ t.kids # <<>> /\ Spelled(Behind(ns, t, Len(t.kids)), t.to, Close(t))
      /\ \A i \in 1 .. Len(t.kids) : IsOperand(ns, t, i)
  BY <1>1, FormFacts
<1>3. q \in Nat /\ Behind(ns, t, 1) = q /\ k \in Nat
  <2>1. q \in Nat /\ k \in Nat
    BY <1>1, NodeFacts
  <2>2. Behind(ns, t, 1) = q
    BY DEF Behind, Kid
  <2> QED BY <2>1, <2>2
<1>4. CASE Len(t.kids) = 1
  <2>1. t.fix \in {"postfix", "call"}
    BY <1>1, <1>2, <1>4 DEF Arity
  <2>2. n = k + 1
    BY <1>2, <1>4, NodeFacts
  <2>3. Spelled(q, t.to, Close(t))
    BY <1>2, <1>3, <1>4
  <2>4. CASE t.fix = "postfix"
    <3>1. Close(t) = <<t.sym>>
      BY <2>4 DEF Close
    <3>2. t.to = q + 1 /\ Is(q, t.sym)
      BY <1>3, <2>3, <3>1, SpelledOne
    <3>3. OpWord(t) = t.sym
      BY <2>4 DEF OpWord
    <3> QED BY <1>3, <1>4, <2>1, <2>2, <2>4, <3>2, <3>3
  <2>5. CASE t.fix = "call"
    <3>1. Close(t) = <<<<"(">>, <<")">>>>
      BY <1>4, <2>5 DEF Close
    <3>2. t.to = q + 2 /\ Is(q, <<"(">>) /\ Is(q + 1, <<")">>)
      BY <1>3, <2>3, <3>1, SpelledTwo
    <3>3. OpWord(t) = <<"(">>
      BY <2>5 DEF OpWord
    <3> QED BY <1>3, <1>4, <2>1, <2>2, <2>5, <3>2, <3>3
  <2> QED BY <2>1, <2>4, <2>5
<1>5. CASE Len(t.kids) # 1
  <2>1. 2 \in 1 .. Len(t.kids) /\ 2 \in 2 .. Len(t.kids)
    BY <1>2, <1>5, TwoOrMore
  <2> PICK c : c = t.kids[2]
    OBVIOUS
  <2>2. c \in 1 .. Len(ns) /\ low[c] = k + 1
    <3>1. low[t.kids[2]] = t.kids[2 - 1] + 1
      BY <1>2, <2>1, NodeFacts
    <3>2. 2 - 1 = 1
      BY SMT
    <3> QED BY <2>1, <3>1, <3>2, NodeFacts
  <2>3. IsOperand(ns, t, 2)
    BY <1>2, <2>1
  <2> PICK r : r = ns[c].from
    OBVIOUS
  <2>4. Spelled(q, r, Lead(t, 2))
    <3>1. 2 - 1 = 1
      BY SMT
    <3>2. Spelled(Behind(ns, t, 2 - 1), r, Lead(t, 2))
      BY <2>3 DEF IsOperand, Kid
    <3> QED BY <1>3, <3>1, <3>2
  <2>5. t.fix # "postfix"
    BY <1>2, <1>5 DEF Arity
  <2>6. Lead(t, 2) = <<OpWord(t)>>
    BY <1>1, <2>5 DEF Lead, OpWord
  <2>7. r = q + 1 /\ Is(q, OpWord(t))
    BY <1>3, <2>4, <2>6, SpelledOne
  <2>8. SecondAt(ns, low, t, q)
    BY <2>1, <2>2, <2>5, <2>7 DEF SecondAt
  <2> QED BY <1>3, <1>5, <2>7, <2>8
<1> QED BY <1>4, <1>5

LEMMA GrammarBinds == ASSUME NEW w \in UNION {Grammar[i] : i \in DOMAIN Grammar} PROVE BinaryBp(w) # 0
<1>1. DOMAIN Grammar = 1 .. 10
  BY DEF Grammar
<1>2. PICK i \in 1 .. 10 : w \in Grammar[i]
  BY <1>1
<1>3. i \in {1, 2, 3, 4, 5, 6, 7, 8, 9, 10}
  BY SMT
<1> QED BY <1>2, <1>3 DEF Grammar, BinaryBp

\* What stands behind a first operand binds as its level says, and is never a keyword.
LEMMA OpWords ==
  ASSUME NEW t, t.fix \in {"postfix", "index", "field", "call", "assign", "ternary", "binary"}, t.sym \in Symbols(t),
         NEW w, w = OpWord(t)
  PROVE  /\ w \notin Keywords
         /\ t.fix \in {"postfix", "index", "field", "call"} => w \in Strong /\ Level(t) = 40 /\ Least(t, 1) = 40
         /\ t.fix = "postfix" => w \in PostfixOps
         /\ t.fix = "field"   => w \in FieldOps
         /\ t.fix = "assign"  => w \in AssignOps /\ Power(w) = 2 /\ LeftBp(w) = 2 /\ Level(t) = 2 /\ Least(t, 1) = 4
         /\ t.fix = "ternary" => Power(w) = 3 /\ LeftBp(w) = 3 /\ Level(t) = 3 /\ Least(t, 1) = 4
         /\ t.fix = "binary"  => /\ BinaryBp(w) # 0 /\ BinaryBp(w) \in 4 .. 22 /\ Power(w) = BinaryBp(w) /\ LeftBp(w) = BinaryBp(w)
                                 /\ Level(t) = BinaryBp(w) /\ Least(t, 1) = BinaryBp(w) /\ Tightness(w) = BinaryBp(w)
<1>1. CASE t.fix \in {"postfix", "index", "field", "call"}
  BY <1>1 DEF OpWord, Symbols, Keywords, TypeWords, SizeofWord, Strong, PostfixOps, FieldOps, Level, Least
<1>2. CASE t.fix = "assign"
  <2>1. w \in AssignOps /\ Level(t) = 2 /\ Least(t, 1) = 4
    BY <1>2 DEF OpWord, Symbols, Level, Least
  <2>2. w \notin Keywords
    BY <2>1 DEF AssignOps, Keywords, TypeWords, SizeofWord
  <2> QED BY <1>2, <2>1, <2>2, Powers
<1>3. CASE t.fix = "ternary"
  <2>1. w = <<"?">> /\ Level(t) = 3 /\ Least(t, 1) = 4
    BY <1>3 DEF OpWord, Level, Least
  <2>2. w \notin Keywords
    BY <2>1 DEF Keywords, TypeWords, SizeofWord
  <2> QED BY <1>3, <2>1, <2>2, Powers
<1>4. CASE t.fix = "binary"
  <2>1. w = t.sym /\ w \in UNION {Grammar[i] : i \in DOMAIN Grammar} /\ Level(t) = Tightness(w) /\ Least(t, 1) = Tightness(w)
    BY <1>4 DEF OpWord, Symbols, Level, Least
  <2>2. BinaryBp(w) # 0
    BY <2>1, GrammarBinds
  <2>3. Tightness(w) = BinaryBp(w) /\ BinaryBp(w) \in 4 .. 22
    BY <2>2, TightnessIs
  <2>4. w \notin Keywords
    BY <2>2 DEF BinaryBp, Keywords, TypeWords, SizeofWord
  <2> QED BY <1>4, <2>1, <2>2, <2>3, <2>4, Powers
<1> QED BY <1>1, <1>2, <1>3, <1>4

LEMMA Covers ==
  ASSUME NEW e, NEW b, HasBound(e, b), NEW u, OfPowers(u)
  PROVE  (e >= 40 => u <= b) /\ (e >= 4 /\ u <= 3 => u <= b) /\ (u <= 22 /\ u >= 4 /\ e >= u => u <= b) /\ (u = 0 => u <= b)
BY SMT DEF HasBound, OfPowers

LEMMA NodeBound ==
  ASSUME NEW ns, NEW low, NEW p, Derivation(ns, low, p), NEW n \in 1 .. Len(ns)
  PROVE  HasBound(Level(ns[n]), Bound(ns[n]))
<1> PICK t : t = ns[n]
  OBVIOUS
<1>1. t.fix \in {"leaf", "type"} \/ (t.fix \in Fixes /\ t.sym \in Symbols(t))
  BY FormFacts
<1> QED BY <1>1, BoundIs

\* What stands behind a first operand takes it.
LEMMA LedTight ==
  ASSUME NEW ns, NEW low, NEW p, Derivation(ns, low, p), NEW n \in 1 .. Len(ns), NEW t, t = ns[n], Led(t)
  PROVE  Tight(ns, t.kids[1])
<1> PICK k, w : k = t.kids[1] /\ w = OpWord(t)
  OBVIOUS
<1> DEFINE e == Level(ns[k])
           b == Bound(ns[k])
           u == Power(WordAt(ns[k].to))
<1>1. t.fix \in {"postfix", "index", "field", "call", "assign", "ternary", "binary"} /\ k \in 1 .. Len(ns) /\ e >= Least(t, 1)
  BY LedFacts
<1>2. t.sym \in Symbols(t)
  BY <1>1, FormFacts
<1>3. Is(ns[k].to, w)
  BY LedWord
<1>4. u = Power(w) \/ u = 0
  BY <1>3, WordIs, NoPower
<1>5. HasBound(e, b) /\ OfPowers(u)
  BY <1>1, NodeBound, PowerIs
<1>6. /\ t.fix \in {"postfix", "index", "field", "call"} => Least(t, 1) = 40
      /\ t.fix = "assign"  => Power(w) = 2 /\ Least(t, 1) = 4
      /\ t.fix = "ternary" => Power(w) = 3 /\ Least(t, 1) = 4
      /\ t.fix = "binary"  => BinaryBp(w) \in 4 .. 22 /\ Power(w) = BinaryBp(w) /\ Least(t, 1) = BinaryBp(w)
  BY <1>1, <1>2, OpWords
<1> HIDE DEF e, b, u
<1>7. u <= b
  <2>1. CASE u = 0
    BY <1>5, <2>1, Covers
  <2>2. CASE t.fix \in {"postfix", "index", "field", "call"}
    BY <1>1, <1>5, <1>6, <2>2, Covers
  <2>3. CASE t.fix \in {"assign", "ternary"} /\ u # 0
    <3>1. u \in {2, 3} /\ e >= 4
      BY <1>1, <1>4, <1>6, <2>3
    <3>2. u <= 3
      BY <3>1, SMT
    <3> QED BY <1>5, <3>1, <3>2, Covers
  <2>4. CASE t.fix = "binary" /\ u # 0
    <3>1. u \in 4 .. 22 /\ e >= u
      BY <1>1, <1>4, <1>6, <2>4
    <3>2. u <= 22 /\ u >= 4
      BY <3>1, SMT
    <3> QED BY <1>5, <3>1, <3>2, Covers
  <2> QED BY <1>1, <2>1, <2>2, <2>3, <2>4
<1> QED BY <1>7 DEF Tight, e, b, u

LEMMA SpineTight ==
  ASSUME NEW ns, NEW low, NEW p, Derivation(ns, low, p), NEW o \in 1 .. Len(ns), Tight(ns, o), NEW n \in Spine(ns, o)
  PROVE  Tight(ns, n)
<1>1. CASE n = o
  BY <1>1
<1>2. CASE n # o
  <2>1. PICK m \in Spine(ns, o) : Led(ns[m]) /\ ns[m].kids[1] = n
    BY <1>2, SpineParent
  <2>2. m \in 1 .. Len(ns)
    BY DEF Spine
  <2> QED BY <2>1, <2>2, LedTight
<1> QED BY <1>1, <1>2

\* The words in front of an operand that is not the first of all.
LEMMA HeadWords ==
  ASSUME NEW ns, NEW low, NEW p, Derivation(ns, low, p), NEW n \in 1 .. Len(ns), NEW t, t = ns[n], NEW q, q = t.from,
         t.fix \in {"prefix", "group", "sizeof", "cast"}, NEW k, k = t.kids[1]
  PROVE  /\ k \in 1 .. Len(ns) /\ low[k] = low[n] /\ q \in Nat
         /\ t.fix = "prefix" => t.sym \in PrefixOps /\ Is(q, t.sym) /\ ns[k].from = q + 1 /\ Len(t.kids) = 1 /\ ns[k].fix # "type"
         /\ t.fix = "group"  => t.sym = <<>> /\ Is(q, <<"(">>) /\ ns[k].from = q + 1 /\ Len(t.kids) = 1 /\ ns[k].fix # "type"
         /\ t.fix = "sizeof" => /\ t.sym = <<>> /\ Is(q, SizeofWord) /\ Is(q + 1, <<"(">>) /\ ns[k].from = q + 2 /\ Len(t.kids) = 1
                                /\ Is(ns[k].to, <<")">>) /\ t.to = ns[k].to + 1 /\ n = k + 1
         /\ t.fix = "cast"   => /\ t.sym = <<>> /\ Is(q, <<"(">>) /\ ns[k].from = q + 1 /\ ns[k].fix = "type" /\ Len(t.kids) = 2
                                /\ Is(ns[k].to, <<")">>) /\ ns[t.kids[2]].from = ns[k].to + 1
                                /\ t.kids[2] \in 1 .. Len(ns) /\ low[t.kids[2]] = k + 1 /\ ns[t.kids[2]].fix # "type"
<1> PICK m, r, e : m = Len(t.kids) /\ r = ns[k].from /\ e = ns[k].to
  OBVIOUS
<1>1. /\ t.sym \in Symbols(t) /\ m \in Arity(t) /\ m \in Nat \ {0} /\ t.kids # <<>> /\ Spelled(Behind(ns, t, m), t.to, Close(t))
      /\ \A i \in 1 .. m : IsOperand(ns, t, i)
  BY FormFacts
<1>2. 1 \in 1 .. m /\ 1 - 1 = 0
  BY <1>1, SMT
<1>3. k \in 1 .. Len(ns) /\ low[k] = low[n] /\ q \in Nat
  BY <1>1, <1>2, NodeFacts
<1>4. IsOperand(ns, t, 1)
  BY <1>1, <1>2
<1>5. Spelled(q, r, Lead(t, 1))
  <2>1. Spelled(Behind(ns, t, 1 - 1), r, Lead(t, 1))
    BY <1>4 DEF IsOperand, Kid
  <2> QED BY <1>2, <2>1 DEF Behind
<1>6. e \in Nat /\ Behind(ns, t, 1) = e
  <2>1. e \in Nat
    BY <1>3, NodeFacts
  <2> QED BY <2>1 DEF Behind, Kid
<1>7. CASE t.fix = "prefix"
  <2>1. Lead(t, 1) = <<t.sym>>
    BY <1>7 DEF Lead
  <2>2. Is(q, t.sym) /\ r = q + 1
    BY <1>3, <1>5, <2>1, SpelledOne
  <2> QED BY <1>1, <1>3, <1>4, <1>7, <2>2 DEF Symbols, Arity, IsOperand, Kid
<1>8. CASE t.fix = "group"
  <2>1. Lead(t, 1) = <<<<"(">>>>
    BY <1>8 DEF Lead
  <2>2. Is(q, <<"(">>) /\ r = q + 1
    BY <1>3, <1>5, <2>1, SpelledOne
  <2> QED BY <1>1, <1>3, <1>4, <1>8, <2>2 DEF Symbols, Arity, IsOperand, Kid
<1>9. CASE t.fix = "sizeof"
  <2>1. Lead(t, 1) = <<SizeofWord, <<"(">>>> /\ Close(t) = <<<<")">>>> /\ m = 1 /\ t.sym = <<>>
    BY <1>1, <1>9 DEF Lead, Close, Arity, Symbols
  <2>2. Is(q, SizeofWord) /\ Is(q + 1, <<"(">>) /\ r = q + 2
    BY <1>3, <1>5, <2>1, SpelledTwo
  <2>3. Spelled(e, t.to, <<<<")">>>>)
    BY <1>1, <1>6, <2>1
  <2>4. Is(e, <<")">>) /\ t.to = e + 1
    BY <1>6, <2>3, SpelledOne
  <2>5. n = k + 1
    <3>1. t.kids[Len(t.kids)] + 1 = n
      BY <1>1, NodeFacts
    <3> QED BY <2>1, <3>1
  <2> QED BY <1>3, <1>9, <2>1, <2>2, <2>4, <2>5
<1>10. CASE t.fix = "cast"
  <2>1. Lead(t, 1) = <<<<"(">>>> /\ Lead(t, 2) = <<<<")">>>> /\ m = 2 /\ t.sym = <<>>
    BY <1>1, <1>10 DEF Lead, Arity, Symbols
  <2>2. Is(q, <<"(">>) /\ r = q + 1
    BY <1>3, <1>5, <2>1, SpelledOne
  <2>3. ns[k].fix = "type"
    BY <1>4, <1>10 DEF IsOperand, Kid
  <2>4. 2 \in 1 .. m /\ 2 \in 2 .. m /\ 2 - 1 = 1
    BY <2>1, SMT
  <2> PICK c, f : c = t.kids[2] /\ f = ns[t.kids[2]].from
    OBVIOUS
  <2>5. IsOperand(ns, t, 2)
    BY <1>1, <2>4
  <2>6. Spelled(e, f, <<<<")">>>>)
    <3>1. Spelled(Behind(ns, t, 2 - 1), f, Lead(t, 2))
      BY <2>5 DEF IsOperand, Kid
    <3> QED BY <1>6, <2>1, <2>4, <3>1
  <2>7. Is(e, <<")">>) /\ f = e + 1
    BY <1>6, <2>6, SpelledOne
  <2>8. c \in 1 .. Len(ns) /\ low[c] = k + 1
    <3>1. low[t.kids[2]] = t.kids[2 - 1] + 1
      BY <1>1, <2>4, NodeFacts
    <3> QED BY <2>4, <3>1, NodeFacts
  <2>9. ns[c].fix # "type"
    BY <1>10, <2>5 DEF IsOperand, Kid
  <2> QED BY <1>3, <1>10, <2>1, <2>2, <2>3, <2>7, <2>8, <2>9
<1> QED BY <1>3, <1>7, <1>8, <1>9, <1>10
-----------------------------------------------------------------------------
(* The parser on its way to a derivation.                                  *)

\* The expression d of ns is the one that a frame waits to complete.
Pending(ns, d, f) ==
  /\ d \in 1 .. Len(ns) /\ ns[d].fix = f.fix /\ ns[d].sym = f.sym /\ ns[d].from = f.from
  /\ Len(f.kids) + 1 \in 1 .. Len(ns[d].kids) /\ \A i \in 1 .. Len(f.kids) : ns[d].kids[i] = f.kids[i]

Prefixed(ns) == Len(nodes) <= Len(ns) /\ \A n \in 1 .. Len(nodes) : nodes[n] = ns[n]

\* What was made is the beginning of ns.  Each frame will be the expression aim[i] of it,
\* as a left operand of goal[i] or itself: what is read up to the power that is asked for.
Follows(ns, low, goal, aim) ==
  /\ Prefixed(ns) /\ goal[1] = Len(ns)
  /\ \A i \in 1 .. Len(frames) + 1 : goal[i] \in 1 .. Len(ns) /\ \A m : m = MinOf(i) => Fits(ns, goal[i], m)
  /\ \A i \in 1 .. Len(frames) : \A f : f = frames[i] =>
       aim[i] \in Spine(ns, goal[i]) /\ Pending(ns, aim[i], f) /\ goal[i + 1] = ns[aim[i]].kids[Len(f.kids) + 1]
  /\ \A o : o = goal[Len(frames) + 1] =>
       /\ lhs = 0 => low[o] = Len(nodes) + 1 /\ ns[o].from = start
       /\ lhs # 0 => lhs = Len(nodes) /\ lhs \in Spine(ns, o)

LEMMA FitsStays == ASSUME input' = input, NEW ns, NEW n, NEW m, Fits(ns, n, m) PROVE Fits(ns, n, m)'
BY DEF Fits, Tight, WordAt

LEMMA FollowYield ==
  ASSUME NEW ns, NEW low, NEW goal, NEW aim, Follows(ns, low, goal, aim), UNCHANGED <<input, min, frames>>,
         Prefixed(ns)', lhs' = Len(nodes'), lhs' # 0, NEW o, o = goal[Len(frames) + 1], lhs' \in Spine(ns, o)
  PROVE  Follows(ns, low, goal, aim)'
<1>1. ASSUME NEW i \in 1 .. Len(frames) + 1, NEW m, m = MinOf(i)' PROVE goal[i] \in 1 .. Len(ns) /\ Fits(ns, goal[i], m)'
  <2>1. m = MinOf(i)
    BY <1>1 DEF MinOf
  <2> PICK g : g = goal[i]
    OBVIOUS
  <2>2. g \in 1 .. Len(ns) /\ Fits(ns, g, m)
    BY <2>1 DEF Follows
  <2>3. Fits(ns, g, m)'
    BY <2>2, FitsStays
  <2> QED BY <2>2, <2>3
<1>2. \A i \in 1 .. Len(frames) + 1 : goal[i] \in 1 .. Len(ns)
  BY DEF Follows
<1> QED BY <1>1, <1>2 DEF Follows

\* An operand is read next.
LEMMA FollowsOperand ==
  ASSUME NEW ns, NEW low, NEW goal, NEW aim, NEW n, n = Len(frames'), Prefixed(ns)', goal[1] = Len(ns),
         \A i \in 1 .. n + 1 : goal[i] \in 1 .. Len(ns),
         \A i \in 1 .. n + 1 : \A e : e = MinOf(i)' => Fits(ns, goal[i], e)',
         \A i \in 1 .. n : \A e : e = frames'[i] =>
           aim[i] \in Spine(ns, goal[i]) /\ Pending(ns, aim[i], e) /\ goal[i + 1] = ns[aim[i]].kids[Len(e.kids) + 1],
         lhs' = 0, NEW o, o = goal[n + 1], low[o] = Len(nodes') + 1, ns[o].from = start'
  PROVE  Follows(ns, low, goal, aim)'
BY DEF Follows

LEMMA FollowOpen ==
  ASSUME Typed, NEW ns, NEW low, NEW goal, NEW aim, Follows(ns, low, goal, aim), Prefixed(ns)',
         NEW fix, NEW sym, NEW kids, NEW q, NEW bp, Operand(fix, sym, kids, q, bp),
         NEW d \in Spine(ns, goal[Len(frames) + 1]),
         ns[d].fix = fix, ns[d].sym = sym, ns[d].from = start,
         Len(kids) + 1 \in 1 .. Len(ns[d].kids), \A i \in 1 .. Len(kids) : ns[d].kids[i] = kids[i],
         NEW c \in 1 .. Len(ns), c = ns[d].kids[Len(kids) + 1], ns[c].from = q, low[c] = Len(nodes') + 1, Fits(ns, c, bp)
  PROVE  \E goal2, aim2 : Follows(ns, low, goal2, aim2)'
<1> PICK f, m : f = [fix |-> fix, sym |-> sym, kids |-> kids, from |-> start, min |-> min] /\ m = Len(frames)
  OBVIOUS
<1> DEFINE goal2 == [i \in 1 .. m + 2 |-> IF i = m + 2 THEN c ELSE goal[i]]
           aim2  == [i \in 1 .. m + 1 |-> IF i = m + 1 THEN d ELSE aim[i]]
<1>1. frames' = Append(frames, f) /\ lhs' = 0 /\ min' = bp /\ start' = q /\ input' = input
  BY DEF Operand, Call
<1>2. m \in Nat /\ Len(frames') = m + 1 /\ frames'[m + 1] = f /\ \A i \in 1 .. m : frames'[i] = frames[i]
  <2>1. frames \in Seq(FrameSet)
    BY DEF Typed
  <2> QED BY <1>1, <2>1, AppendProperties, LenProperties
<1>3. /\ goal2[m + 2] = c /\ \A i \in 1 .. m + 1 : goal2[i] = goal[i]
      /\ aim2[m + 1] = d /\ \A i \in 1 .. m : aim2[i] = aim[i]
  <2>1. /\ m + 2 \in 1 .. m + 2 /\ \A i \in 1 .. m + 1 : i \in 1 .. m + 2 /\ i # m + 2
        /\ m + 1 \in 1 .. m + 1 /\ \A i \in 1 .. m : i \in 1 .. m + 1 /\ i # m + 1
    BY <1>2, SMT
  <2> QED BY <2>1
<1> HIDE DEF goal2, aim2
<1>4. f.kids = kids /\ f.fix = fix /\ f.sym = sym /\ f.from = start /\ f.min = min
  OBVIOUS
<1>5. Pending(ns, d, f)
  <2>1. d \in 1 .. Len(ns)
    BY DEF Spine
  <2> QED BY <1>4, <2>1 DEF Pending
<1>6. goal2[1] = Len(ns)
  <2>1. 1 \in 1 .. m + 1
    BY <1>2, SMT
  <2> QED BY <1>3, <2>1 DEF Follows
<1>7. ASSUME NEW i \in 1 .. m + 2, NEW e, e = MinOf(i)' PROVE goal2[i] \in 1 .. Len(ns) /\ Fits(ns, goal2[i], e)'
  <2>1. CASE i = m + 2
    <3>1. i > m + 1
      BY <1>2, <2>1, SMT
    <3>2. e = bp
      BY <1>1, <1>2, <1>7, <3>1 DEF MinOf
    <3>3. Fits(ns, c, bp)'
      BY <1>1, FitsStays
    <3> QED BY <1>3, <2>1, <3>2, <3>3
  <2>2. CASE i # m + 2
    <3>1. i \in 1 .. m + 1 /\ ~ (i > m + 1)
      BY <1>2, <2>2, SMT
    <3>2. e = frames'[i].min
      BY <1>2, <1>7, <3>1 DEF MinOf
    <3>3. e = MinOf(i)
      <4>1. CASE i = m + 1
        <5>1. i > m
          BY <1>2, <4>1, SMT
        <5> QED BY <1>2, <1>4, <3>2, <4>1, <5>1 DEF MinOf
      <4>2. CASE i # m + 1
        <5>1. i \in 1 .. m /\ ~ (i > m)
          BY <1>2, <3>1, <4>2, SMT
        <5> QED BY <1>2, <3>2, <5>1 DEF MinOf
      <4> QED BY <4>1, <4>2
    <3> PICK g : g = goal[i]
      OBVIOUS
    <3>4. g \in 1 .. Len(ns) /\ Fits(ns, g, e)
      BY <3>1, <3>3 DEF Follows
    <3>5. Fits(ns, g, e)'
      BY <1>1, <3>4, FitsStays
    <3> QED BY <1>3, <3>1, <3>4, <3>5
  <2> QED BY <2>1, <2>2
<1>8. ASSUME NEW i \in 1 .. m + 1, NEW e, e = frames'[i]
      PROVE  aim2[i] \in Spine(ns, goal2[i]) /\ Pending(ns, aim2[i], e) /\ goal2[i + 1] = ns[aim2[i]].kids[Len(e.kids) + 1]
  <2>1. CASE i = m + 1
    <3>1. i + 1 = m + 2 /\ i \in 1 .. m + 1
      BY <1>2, <2>1, SMT
    <3> QED BY <1>2, <1>3, <1>4, <1>5, <1>8, <2>1, <3>1
  <2>2. CASE i # m + 1
    <3>1. i \in 1 .. m /\ i + 1 \in 1 .. m + 1
      BY <1>2, <2>2, SMT
    <3>2. aim[i] \in Spine(ns, goal[i]) /\ Pending(ns, aim[i], e) /\ goal[i + 1] = ns[aim[i]].kids[Len(e.kids) + 1]
      BY <1>2, <1>8, <3>1 DEF Follows
    <3> QED BY <1>3, <3>1, <3>2
  <2> QED BY <2>1, <2>2
<1>9. m + 1 + 1 = m + 2
  BY <1>2, SMT
<1>10. \A i \in 1 .. m + 2 : goal2[i] \in 1 .. Len(ns)
  <2>1. \A i \in 1 .. m + 2 : i # m + 2 => i \in 1 .. m + 1
    BY <1>2, SMT
  <2>2. \A i \in 1 .. m + 1 : goal[i] \in 1 .. Len(ns)
    BY DEF Follows
  <2> QED BY <1>3, <2>1, <2>2
<1>11. Follows(ns, low, goal2, aim2)'
  <2> DEFINE n == m + 1
  <2>1. n = Len(frames') /\ c = goal2[n + 1] /\ 1 .. n + 1 = 1 .. m + 2
    BY <1>2, <1>3, <1>9
  <2>2. \A i \in 1 .. n : \A e : e = frames'[i] =>
          aim2[i] \in Spine(ns, goal2[i]) /\ Pending(ns, aim2[i], e) /\ goal2[i + 1] = ns[aim2[i]].kids[Len(e.kids) + 1]
    BY <1>8
  <2> HIDE DEF n
  <2>3. \A i \in 1 .. n + 1 : goal2[i] \in 1 .. Len(ns)
    BY <1>10, <2>1
  <2>4. \A i \in 1 .. n + 1 : \A e : e = MinOf(i)' => Fits(ns, goal2[i], e)'
    BY <1>7, <2>1
  <2>5. lhs' = 0 /\ low[c] = Len(nodes') + 1 /\ ns[c].from = start'
    BY <1>1
  <2> QED BY <1>6, <2>1, <2>2, <2>3, <2>4, <2>5, FollowsOperand
<1> QED BY <1>11

LEMMA FollowEnd ==
  ASSUME Typed, frames # <<>>, NEW ns, NEW low, NEW goal, NEW aim, Follows(ns, low, goal, aim), NEW q, End(q), Prefixed(ns)',
         NEW m, m = Len(frames), aim[m] = Len(nodes) + 1
  PROVE  Follows(ns, low, goal, aim)'
<1> PICK f, k : f = frames[m] /\ k = Len(nodes) + 1
  OBVIOUS
<1>1. lhs' = k /\ min' = f.min /\ frames' = SubSeq(frames, 1, m - 1) /\ input' = input /\ Len(nodes') = k /\ k # 0
  <2>1. nodes \in Seq(NodeSet) /\ Len(nodes) \in Nat
    BY LenProperties DEF Typed
  <2> PICK t : t = Made(Top.fix, Top.sym, Kids, Top.from, q)
    OBVIOUS
  <2>2. nodes' = Append(nodes, t)
    BY DEF End
  <2>3. Len(nodes') = k /\ k # 0
    BY <2>1, <2>2, SMT
  <2> QED BY <2>3 DEF End, Top
<1>2. m \in Nat \ {0} /\ Len(frames') = m - 1 /\ \A i \in 1 .. m - 1 : frames'[i] = frames[i]
  <2>1. frames \in Seq(FrameSet)
    BY DEF Typed
  <2>2. m \in Nat \ {0}
    BY <2>1, EmptySeq, LenProperties
  <2> QED BY <1>1, <2>1, <2>2, SMT
<1>3. m - 1 + 1 = m /\ m \in 1 .. m + 1 /\ m \in 1 .. m /\ \A i \in 1 .. m : i \in 1 .. m + 1
  BY <1>2, SMT
<1>4. ASSUME NEW i \in 1 .. m, NEW e, e = MinOf(i)' PROVE goal[i] \in 1 .. Len(ns) /\ Fits(ns, goal[i], e)'
  <2>1. e = MinOf(i)
    <3>1. CASE i = m
      <4>1. i > m - 1 /\ ~ (i > m)
        BY <1>2, <3>1, SMT
      <4> QED BY <1>1, <1>2, <1>4, <3>1, <4>1 DEF MinOf
    <3>2. CASE i # m
      <4>1. i \in 1 .. m - 1 /\ ~ (i > m - 1) /\ ~ (i > m)
        BY <1>2, <3>2, SMT
      <4> QED BY <1>2, <1>4, <4>1 DEF MinOf
    <3> QED BY <3>1, <3>2
  <2> PICK g : g = goal[i]
    OBVIOUS
  <2>2. g \in 1 .. Len(ns) /\ Fits(ns, g, e)
    BY <1>3, <2>1 DEF Follows
  <2>3. Fits(ns, g, e)'
    BY <1>1, <2>2, FitsStays
  <2> QED BY <2>2, <2>3
<1>5. \A i \in 1 .. m : goal[i] \in 1 .. Len(ns)
  BY <1>3 DEF Follows
<1>6. ASSUME NEW i \in 1 .. m - 1, NEW e, e = frames'[i]
      PROVE  aim[i] \in Spine(ns, goal[i]) /\ Pending(ns, aim[i], e) /\ goal[i + 1] = ns[aim[i]].kids[Len(e.kids) + 1]
  <2>1. i \in 1 .. m /\ e = frames[i]
    BY <1>2, <1>6, SMT
  <2> QED BY <2>1 DEF Follows
<1>7. k \in Spine(ns, goal[m])
  BY <1>3 DEF Follows
<1>8. goal[1] = Len(ns)
  BY DEF Follows
<1> QED BY <1>1, <1>2, <1>3, <1>4, <1>5, <1>6, <1>7, <1>8 DEF Follows

LEMMA FollowAnother ==
  ASSUME Typed, frames # <<>>, NEW ns, NEW low, NEW goal, NEW aim, Follows(ns, low, goal, aim), Another,
         NEW m, m = Len(frames), NEW d, d = aim[m], Kids \in Seq(Nat),
         Len(Kids) + 1 \in 1 .. Len(ns[d].kids), \A i \in 1 .. Len(Kids) : ns[d].kids[i] = Kids[i],
         NEW c \in 1 .. Len(ns), c = ns[d].kids[Len(Kids) + 1], ns[c].from = at + 1, low[c] = Len(nodes) + 1, Fits(ns, c, 0)
  PROVE  \E goal2, aim2 : Follows(ns, low, goal2, aim2)'
<1> PICK f, g : f = frames[m] /\ g = [f EXCEPT !.kids = Kids]
  OBVIOUS
<1> DEFINE goal2 == [i \in 1 .. m + 1 |-> IF i = m + 1 THEN c ELSE goal[i]]
<1>1. m \in Nat \ {0} /\ frames \in Seq(FrameSet) /\ f \in FrameSet
  <2>1. frames \in Seq(FrameSet)
    BY DEF Typed
  <2>2. m \in Nat \ {0}
    BY <2>1, EmptySeq, LenProperties
  <2>3. m \in 1 .. m
    BY <2>2, SMT
  <2> QED BY <2>1, <2>2, <2>3, ElementOfSeq
<1>2. /\ m \in 1 .. m /\ m + 1 \in 1 .. m + 1 /\ m - 1 + 1 = m /\ \A i \in 1 .. m : i \in 1 .. m + 1 /\ i # m + 1 /\ ~ (i > m) /\ i + 1 \in 1 .. m + 1
      /\ m + 1 > m /\ \A i \in 1 .. m + 1 : i # m + 1 => i \in 1 .. m
  BY <1>1, SMT
<1>3. lhs' = 0 /\ min' = 0 /\ start' = at + 1 /\ input' = input /\ nodes' = nodes /\ frames' = [frames EXCEPT ![m].kids = Kids]
  BY DEF Another, Call
<1>4. /\ g.fix = f.fix /\ g.sym = f.sym /\ g.from = f.from /\ g.min = f.min /\ g.kids = Kids
  BY <1>1 DEF FrameSet
<1>5. Len(frames') = m /\ \A i \in 1 .. m : frames'[i] = IF i = m THEN g ELSE frames[i]
  <2>1. frames' = [frames EXCEPT ![m] = g]
    BY <1>3
  <2> QED BY <1>1, <2>1, ExceptSeq
<1>6. goal2[m + 1] = c /\ \A i \in 1 .. m : goal2[i] = goal[i]
  BY <1>2
<1> HIDE DEF goal2
<1>7. d \in Spine(ns, goal[m]) /\ Pending(ns, d, f)
  BY <1>2 DEF Follows
<1>8. Pending(ns, d, g)
  BY <1>4, <1>7 DEF Pending
<1>9. goal2[1] = Len(ns)
  <2>1. 1 \in 1 .. m
    BY <1>1, SMT
  <2> QED BY <1>6, <2>1 DEF Follows
<1>10. ASSUME NEW i \in 1 .. m + 1, NEW e, e = MinOf(i)' PROVE goal2[i] \in 1 .. Len(ns) /\ Fits(ns, goal2[i], e)'
  <2>1. CASE i = m + 1
    <3>1. e = 0
      BY <1>2, <1>3, <1>5, <1>10, <2>1 DEF MinOf
    <3>2. Fits(ns, c, 0)'
      BY <1>3, FitsStays
    <3> QED BY <1>6, <2>1, <3>1, <3>2
  <2>2. CASE i # m + 1
    <3>1. i \in 1 .. m /\ ~ (i > m)
      BY <1>2, <2>2
    <3>2. e = MinOf(i)
      BY <1>4, <1>5, <1>10, <3>1 DEF MinOf
    <3> PICK h : h = goal[i]
      OBVIOUS
    <3>3. h \in 1 .. Len(ns) /\ Fits(ns, h, e)
      BY <3>2 DEF Follows
    <3>4. Fits(ns, h, e)'
      BY <1>3, <3>3, FitsStays
    <3> QED BY <1>6, <3>1, <3>3, <3>4
  <2> QED BY <2>1, <2>2
<1>11. ASSUME NEW i \in 1 .. m, NEW e, e = frames'[i]
      PROVE  aim[i] \in Spine(ns, goal2[i]) /\ Pending(ns, aim[i], e) /\ goal2[i + 1] = ns[aim[i]].kids[Len(e.kids) + 1]
  <2>1. CASE i = m
    BY <1>2, <1>4, <1>5, <1>6, <1>7, <1>8, <1>11, <2>1
  <2>2. CASE i # m
    <3>1. i + 1 \in 1 .. m
      BY <1>1, <2>2, SMT
    <3>2. aim[i] \in Spine(ns, goal[i]) /\ Pending(ns, aim[i], e) /\ goal[i + 1] = ns[aim[i]].kids[Len(e.kids) + 1]
      <4>1. e = frames[i]
        BY <1>5, <1>11, <2>2
      <4> QED BY <4>1 DEF Follows
    <3> QED BY <1>6, <3>1, <3>2
  <2> QED BY <2>1, <2>2
<1>12. \A i \in 1 .. m + 1 : goal2[i] \in 1 .. Len(ns)
  BY <1>2, <1>6 DEF Follows
<1>13. Prefixed(ns)'
  BY <1>3 DEF Follows, Prefixed
<1>14. Follows(ns, low, goal2, aim)'
  <2>1. m = Len(frames') /\ c = goal2[m + 1]
    BY <1>5, <1>6
  <2>2. \A i \in 1 .. m : \A e : e = frames'[i] =>
          aim[i] \in Spine(ns, goal2[i]) /\ Pending(ns, aim[i], e) /\ goal2[i + 1] = ns[aim[i]].kids[Len(e.kids) + 1]
    BY <1>11
  <2>3. \A i \in 1 .. m + 1 : \A e : e = MinOf(i)' => Fits(ns, goal2[i], e)'
    BY <1>10
  <2>4. lhs' = 0 /\ low[c] = Len(nodes') + 1 /\ ns[c].from = start'
    BY <1>3
  <2> QED BY <1>9, <1>12, <1>13, <2>1, <2>2, <2>3, <2>4, FollowsOperand
<1> QED BY <1>14
-----------------------------------------------------------------------------
(* What an expression begins with.                                         *)

LEMMA OperatorAt ==
  ASSUME Lexed, NEW q \in 1 .. Len(input), NEW w, Is(q, w), w \notin Keywords
  PROVE  input[q].kind = "punct" /\ WordAt(q) = w /\ ~ IsType(q)
BY DEF Lexed, Is, WordAt, IsType

LEMMA KeywordAt ==
  ASSUME Lexed, NEW q \in 1 .. Len(input), NEW w, Is(q, w), w \in Keywords
  PROVE  input[q].kind = "keyword" /\ WordAt(q) = <<>>
BY DEF Lexed, Is, WordAt

LEMMA PrefixWords ==
  /\ \A w \in PrefixOps : w \notin Keywords /\ w # <<"(">> /\ w # <<")">> /\ w # SizeofWord
  /\ <<"(">> \notin Keywords \cup PrefixOps /\ <<")">> \notin Keywords /\ <<"(">> # <<")">>
  /\ SizeofWord \in Keywords /\ SizeofWord \notin TypeWords /\ SizeofWord # <<"(">> /\ SizeofWord # <<")">>
BY DEF PrefixOps, Keywords, TypeWords, SizeofWord

\* An expression that begins with the token q.
Begins(f, q) ==
  /\ f = "leaf"   => input[q].kind \in LeafKinds
  /\ f = "prefix" => WordAt(q) \in PrefixOps
  /\ f \in {"group", "cast"} => Is(q, <<"(">>)
  /\ f = "sizeof" => Is(q, SizeofWord)
  /\ f \in {"leaf", "prefix", "group", "sizeof", "cast"}

LEMMA HeadBegins ==
  ASSUME Lexed, NEW ns, NEW low, NEW p, Derivation(ns, low, p), NEW h \in 1 .. Len(ns),
         NEW t, t = ns[h], NEW f, f = t.fix, f \in {"leaf", "prefix", "group", "sizeof", "cast"}, NEW q \in 1 .. Len(input), q = t.from
  PROVE  Begins(f, q)
<1>1. CASE f = "leaf"
  <2>1. IsLeaf(t)
    BY <1>1, NodeFacts
  <2> QED BY <1>1, <2>1 DEF IsLeaf, Begins
<1>2. CASE f # "leaf"
  <2>1. /\ f = "prefix" => t.sym \in PrefixOps /\ Is(q, t.sym)
        /\ f = "group"  => Is(q, <<"(">>)
        /\ f = "sizeof" => Is(q, SizeofWord)
        /\ f = "cast"   => Is(q, <<"(">>)
    BY <1>2, HeadWords
  <2>2. f = "prefix" => WordAt(q) \in PrefixOps
    <3> SUFFICES ASSUME f = "prefix" PROVE WordAt(q) \in PrefixOps
      OBVIOUS
    <3> PICK w : w = t.sym
      OBVIOUS
    <3>1. w \in PrefixOps /\ Is(q, w) /\ w \notin Keywords
      BY <2>1, PrefixWords
    <3>2. WordAt(q) = w
      BY <3>1, OperatorAt
    <3> QED BY <3>1, <3>2
  <2> QED BY <1>2, <2>1, <2>2 DEF Begins
<1> QED BY <1>1, <1>2

LEMMA BeginsOnce ==
  ASSUME Lexed, NEW q \in 1 .. Len(input), NEW f, Begins(f, q)
  PROVE  /\ input[q].kind \in LeafKinds => f = "leaf"
         /\ WordAt(q) \in PrefixOps => f = "prefix"
         /\ Is(q, <<"(">>) => f \in {"group", "cast"}
         /\ Is(q, SizeofWord) => f = "sizeof"
         /\ ~ Is(q, <<")">>) /\ ~ IsType(q)
<1>1. CASE f = "leaf"
  <2>1. input[q].kind \in LeafKinds /\ input[q].kind \notin {"punct", "keyword"}
    BY <1>1 DEF Begins, LeafKinds
  <2>2. WordAt(q) = <<>> /\ <<>> \notin PrefixOps
    BY <2>1, InfixIsNotStrong DEF WordAt
  <2> QED BY <1>1, <2>1, <2>2 DEF Is, IsType
<1>2. CASE f = "prefix"
  <2>1. WordAt(q) \in PrefixOps /\ <<>> \notin PrefixOps
    BY <1>2, InfixIsNotStrong DEF Begins
  <2>2. input[q].kind = "punct" /\ input[q].text \in PrefixOps
    BY <2>1 DEF WordAt
  <2>3. ~ Is(q, <<"(">>) /\ ~ Is(q, <<")">>) /\ ~ Is(q, SizeofWord)
    BY <2>2, PrefixWords DEF Is
  <2> QED BY <1>2, <2>2, <2>3 DEF IsType, LeafKinds
<1>3. CASE f \in {"group", "cast"}
  <2>1. Is(q, <<"(">>)
    BY <1>3 DEF Begins
  <2>2. input[q].kind = "punct" /\ WordAt(q) = <<"(">> /\ ~ IsType(q)
    BY <2>1, OperatorAt, PrefixWords
  <2>3. ~ Is(q, <<")">>) /\ ~ Is(q, SizeofWord)
    BY <2>1, PrefixWords DEF Is
  <2> QED BY <1>3, <2>1, <2>2, <2>3, PrefixWords DEF LeafKinds
<1>4. CASE f = "sizeof"
  <2>1. Is(q, SizeofWord)
    BY <1>4 DEF Begins
  <2>2. input[q].kind = "keyword" /\ WordAt(q) = <<>> /\ <<>> \notin PrefixOps
    BY <2>1, KeywordAt, PrefixWords, InfixIsNotStrong
  <2>3. ~ Is(q, <<")">>) /\ ~ Is(q, <<"(">>) /\ ~ IsType(q)
    BY <2>1, PrefixWords DEF Is, IsType
  <2> QED BY <1>4, <2>1, <2>2, <2>3 DEF LeafKinds
<1> QED BY <1>1, <1>2, <1>3, <1>4 DEF Begins

\* No expression begins with a type or a closing parenthesis.
LEMMA NotFirst ==
  ASSUME Lexed, NEW ns, NEW low, NEW p, Derivation(ns, low, p), NEW k \in 1 .. Len(ns), ns[k].fix # "type",
         NEW q \in 1 .. Len(input), q = ns[k].from
  PROVE  ~ Is(q, <<")">>) /\ ~ IsType(q)
<1>1. PICK h \in Spine(ns, k) : ns[h].fix \in {"leaf", "prefix", "group", "sizeof", "cast"}
  BY SpineHead
<1>2. h \in 1 .. Len(ns) /\ ns[h].from = q
  BY SpineFacts
<1>3. Begins(ns[h].fix, q)
  BY <1>1, <1>2, HeadBegins
<1> QED BY <1>3, BeginsOnce

Shut(q) == Is(q, <<")">>)

\* A type is read to its end.
LEMMA TypeIsRead ==
  ASSUME Lexed, Typed, NEW ns, NEW low, NEW p, Derivation(ns, low, p), NEW k \in 1 .. Len(ns), ns[k].fix = "type",
         NEW q \in 1 .. Len(input), q = ns[k].from, Shut(ns[k].to)
  PROVE  IsType(q) /\ AfterType(q) = ns[k].to /\ ns[k] = TypeAt(q) /\ low[k] = k
<1> PICK t, e, a : t = ns[k] /\ e = ns[k].to /\ a = AfterType(q)
  OBVIOUS
<1>1. IsLeaf(t) /\ t \in NodeSet /\ e \in Nat /\ q \in Nat
  BY NodeFacts
<1>2. t.kids = <<>> /\ t.sym = input[q].text /\ IsType(q) /\ q < e /\ \A i \in q + 1 .. e - 1 : Is(i, <<"*">>)
  BY <1>1 DEF IsLeaf
<1>3. /\ a \in q + 1 .. Len(input) /\ ~ Is(a, <<"*">>) /\ \A i \in q + 1 .. a - 1 : Is(i, <<"*">>)
  <2>1. /\ a \in 1 .. Len(input) /\ q < a /\ ~ Is(a, <<"*">>) /\ \A i \in q + 1 .. a - 1 : Is(i, <<"*">>)
    BY <1>2, TypeEnds
  <2> QED BY <1>1, <2>1, SMT
<1>4. ~ Is(e, <<"*">>)
  BY DEF Is, Shut
<1>5. a = e
  <2>1. ~ (a < e)
    <3> SUFFICES ASSUME a < e PROVE FALSE
      OBVIOUS
    <3>1. a \in q + 1 .. e - 1
      BY <1>1, <1>3, SMT
    <3> QED BY <1>2, <1>3, <3>1
  <2>2. ~ (e < a)
    <3> SUFFICES ASSUME e < a PROVE FALSE
      OBVIOUS
    <3>1. e \in q + 1 .. a - 1
      BY <1>1, <1>2, <1>3, SMT
    <3> QED BY <1>3, <1>4, <3>1
  <2> QED BY <1>1, <1>3, <2>1, <2>2, SMT
<1>6. t = TypeAt(q)
  <2>1. t = [fix |-> t.fix, sym |-> t.sym, kids |-> t.kids, from |-> t.from, to |-> t.to]
    BY <1>1 DEF NodeSet
  <2> QED BY <1>2, <1>5, <2>1 DEF TypeAt, Made
<1>7. low[k] = k
  BY <1>2, NodeFacts
<1> QED BY <1>2, <1>5, <1>6, <1>7
-----------------------------------------------------------------------------
(* parse_prefix on the way to a derivation.                                *)

OnTheWay(ns, low) == outcome = "none" /\ \E goal, aim : Follows(ns, low, goal, aim)

LEMMA ReadHead ==
  ASSUME ParseInv, Lexed, NEW ns, NEW low, NEW p, Derivation(ns, low, p), NEW goal, NEW aim, Follows(ns, low, goal, aim), Reading
  PROVE  \E h \in Spine(ns, goal[Len(frames) + 1]) :
           /\ h \in 1 .. Len(ns) /\ Tight(ns, h) /\ low[h] = Len(nodes) + 1 /\ ns[h].from = at /\ ns[h].from = start
           /\ Begins(ns[h].fix, at)
<1> PICK m, o : m = Len(frames) + 1 /\ o = goal[Len(frames) + 1]
  OBVIOUS
<1>1. Typed /\ start = at /\ at \in 1 .. Len(input)
  BY ReadingStarts
<1>2. m \in 1 .. m
  <2>1. Len(frames) \in Nat
    BY <1>1, LenProperties DEF Typed
  <2> QED BY <2>1, SMT
<1>3. o \in 1 .. Len(ns) /\ ns[o].fix # "type" /\ Tight(ns, o)
  BY <1>2 DEF Follows, Fits
<1>4. low[o] = Len(nodes) + 1 /\ ns[o].from = start
  BY DEF Follows, Reading
<1>5. PICK h \in Spine(ns, o) : ns[h].fix \in {"leaf", "prefix", "group", "sizeof", "cast"}
  BY <1>3, SpineHead
<1>6. h \in 1 .. Len(ns) /\ low[h] = low[o] /\ ns[h].from = ns[o].from
  BY <1>3, SpineFacts
<1>7. Tight(ns, h)
  BY <1>3, SpineTight
<1>8. Begins(ns[h].fix, at)
  <2>1. at = ns[h].from
    BY <1>1, <1>4, <1>6
  <2> QED BY <1>1, <1>5, <1>6, <2>1, HeadBegins
<1> QED BY <1>1, <1>4, <1>6, <1>7, <1>8

\* The frame of what was begun, for the first operand.
LEMMA HeadOpens ==
  ASSUME Typed, NEW ns, NEW low, NEW p, Derivation(ns, low, p), NEW goal, NEW aim, Follows(ns, low, goal, aim), outcome = "none",
         NEW h \in Spine(ns, goal[Len(frames) + 1]), h \in 1 .. Len(ns), Tight(ns, h), low[h] = Len(nodes) + 1, ns[h].from = start,
         NEW fix, fix = ns[h].fix, fix \in {"prefix", "group", "sizeof"}, NEW sym, sym = ns[h].sym,
         NEW c, c = ns[h].kids[1], ns[c].fix # "type",
         NEW q, q = ns[c].from, NEW bp, bp = InnerBp(ns[h]), Operand(fix, sym, <<>>, q, bp), UNCHANGED nodes
  PROVE  OnTheWay(ns, low)'
<1> PICK t : t = ns[h]
  OBVIOUS
<1>1. Len(t.kids) \in Nat \ {0}
  BY FormFacts
<1>2. 1 \in 1 .. Len(t.kids) /\ 0 + 1 = 1 /\ Len(<<>>) = 0
  BY <1>1, SMT
<1>3. c \in 1 .. Len(ns) /\ low[c] = Len(nodes) + 1
  BY HeadWords
<1>4. Lead(t, 1) # <<>>
  BY DEF Lead
<1>5. Fits(ns, c, bp)
  <2>1. t.fix \notin {"leaf", "type", "field", "postfix"}
    OBVIOUS
  <2> QED BY <1>2, <1>4, <2>1, KidFits
<1>6. Prefixed(ns)'
  BY DEF Follows, Prefixed
<1>7. Len(<<>>) + 1 \in 1 .. Len(ns[h].kids) /\ c = ns[h].kids[Len(<<>>) + 1] /\ \A i \in 1 .. Len(<<>>) : ns[h].kids[i] = <<>>[i]
  BY <1>2
<1>8. low[c] = Len(nodes') + 1
  BY <1>3
<1> PICK ks : ks = <<>>
  OBVIOUS
<1>9. Operand(fix, sym, ks, q, bp) /\ Len(ks) + 1 \in 1 .. Len(ns[h].kids) /\ c = ns[h].kids[Len(ks) + 1] /\ \A i \in 1 .. Len(ks) : ns[h].kids[i] = ks[i]
  BY <1>7
<1>10. \E goal2, aim2 : Follows(ns, low, goal2, aim2)'
  BY <1>3, <1>5, <1>6, <1>8, <1>9, FollowOpen
<1>11. outcome' = "none"
  BY DEF Operand, Call
<1> QED BY <1>10, <1>11 DEF OnTheWay

LEMMA PrefixFollows ==
  ASSUME ParseInv, Lexed, NEW ns, NEW low, NEW p, Derivation(ns, low, p), OnTheWay(ns, low), Prefix
  PROVE  OnTheWay(ns, low)'
<1> PICK goal, aim : Follows(ns, low, goal, aim)
  BY DEF OnTheWay
<1>1. Reading /\ Word \in PrefixOps /\ Operand("prefix", Word, <<>>, at + 1, 30) /\ UNCHANGED nodes
  BY DEF Prefix, PrefixBp
<1>2. Typed /\ at \in 1 .. Len(input) /\ outcome = "none" /\ Word = WordAt(at)
  BY <1>1, ReadingStarts DEF Word, WordAt
<1>3. PICK h \in Spine(ns, goal[Len(frames) + 1]) :
           /\ h \in 1 .. Len(ns) /\ Tight(ns, h) /\ low[h] = Len(nodes) + 1 /\ ns[h].from = at /\ ns[h].from = start
           /\ Begins(ns[h].fix, at)
  BY <1>1, ReadHead
<1> PICK t, c, w : t = ns[h] /\ c = ns[h].kids[1] /\ w = Word
  OBVIOUS
<1>4. t.fix = "prefix"
  BY <1>1, <1>2, <1>3, BeginsOnce
<1>5. t.sym \in PrefixOps /\ Is(at, t.sym) /\ ns[c].from = at + 1 /\ ns[c].fix # "type"
  BY <1>3, <1>4, HeadWords
<1>6. t.sym = w
  <2> PICK v : v = t.sym
    OBVIOUS
  <2>1. Is(at, v) /\ v \notin Keywords
    BY <1>5, PrefixWords
  <2>2. WordAt(at) = v
    BY <1>2, <2>1, OperatorAt
  <2> QED BY <1>2, <2>2
<1>7. InnerBp(t) = 30
  BY <1>4 DEF InnerBp
<1> PICK q, bp : q = at + 1 /\ bp = 30
  OBVIOUS
<1>8. Operand("prefix", w, <<>>, q, bp) /\ UNCHANGED nodes
  BY <1>1
<1> QED BY <1>2, <1>3, <1>4, <1>5, <1>6, <1>7, <1>8, HeadOpens

LEMMA GroupFollows ==
  ASSUME ParseInv, Lexed, NEW ns, NEW low, NEW p, Derivation(ns, low, p), OnTheWay(ns, low), Group
  PROVE  OnTheWay(ns, low)'
<1> PICK goal, aim : Follows(ns, low, goal, aim)
  BY DEF OnTheWay
<1>1. Reading /\ Is(at, <<"(">>) /\ ~ IsType(at + 1) /\ Operand("group", <<>>, <<>>, at + 1, 0) /\ UNCHANGED nodes
  BY DEF Group
<1>2. Typed /\ at \in 1 .. Len(input) /\ outcome = "none"
  BY <1>1, ReadingStarts
<1>3. PICK h \in Spine(ns, goal[Len(frames) + 1]) :
           /\ h \in 1 .. Len(ns) /\ Tight(ns, h) /\ low[h] = Len(nodes) + 1 /\ ns[h].from = at /\ ns[h].from = start
           /\ Begins(ns[h].fix, at)
  BY <1>1, ReadHead
<1> PICK t, c : t = ns[h] /\ c = ns[h].kids[1]
  OBVIOUS
<1>4. t.fix \in {"group", "cast"}
  BY <1>1, <1>2, <1>3, BeginsOnce
<1>5. t.fix # "cast"
  <2> SUFFICES ASSUME t.fix = "cast" PROVE FALSE
    OBVIOUS
  <2>1. c \in 1 .. Len(ns) /\ ns[c].fix = "type" /\ ns[c].from = at + 1
    BY <1>3, HeadWords
  <2>2. IsLeaf(ns[c])
    BY <2>1, NodeFacts
  <2> QED BY <1>1, <2>1, <2>2 DEF IsLeaf
<1>6. t.fix = "group" /\ t.sym = <<>> /\ ns[c].from = at + 1 /\ ns[c].fix # "type"
  BY <1>3, <1>4, <1>5, HeadWords
<1>7. InnerBp(t) = 0
  BY <1>6 DEF InnerBp
<1> PICK q, bp, w : q = at + 1 /\ bp = 0 /\ w = <<>>
  OBVIOUS
<1>8. Operand("group", w, <<>>, q, bp) /\ UNCHANGED nodes
  BY <1>1
<1> QED BY <1>2, <1>3, <1>6, <1>7, <1>8, HeadOpens

LEMMA NoOperandNever ==
  ASSUME ParseInv, Lexed, NEW ns, NEW low, NEW p, Derivation(ns, low, p), OnTheWay(ns, low), NoOperand
  PROVE  FALSE
<1> PICK goal, aim : Follows(ns, low, goal, aim)
  BY DEF OnTheWay
<1>1. /\ Reading /\ input[at].kind \notin LeafKinds /\ Word \notin PrefixOps
      /\ ~ Is(at, SizeofWord) /\ ~ Is(at, <<"(">>)
  BY DEF NoOperand
<1>2. PICK h : Begins(ns[h].fix, at)
  BY <1>1, ReadHead
<1>3. Word = WordAt(at)
  BY DEF Word, WordAt
<1> QED BY <1>1, <1>2, <1>3 DEF Begins

\* The list grows by the next of ns.
LEMMA PrefixedGrows ==
  ASSUME Typed, NEW ns, Prefixed(ns), NEW t, nodes' = Append(nodes, t), NEW k, k = Len(nodes) + 1, k \in 1 .. Len(ns), ns[k] = t
  PROVE  Prefixed(ns)' /\ Len(nodes') = k /\ k # 0
<1>1. nodes \in Seq(NodeSet) /\ Len(nodes) \in Nat
  BY LenProperties DEF Typed
<1>2. Len(nodes') = k /\ nodes'[k] = t /\ \A n \in 1 .. Len(nodes) : nodes'[n] = nodes[n]
  BY <1>1, AppendProperties
<1>3. \A n \in 1 .. k : n = k \/ n \in 1 .. Len(nodes)
  BY <1>1, SMT
<1>4. k <= Len(ns) /\ k # 0
  BY <1>1, SMT
<1> QED BY <1>2, <1>3, <1>4 DEF Prefixed

LEMMA PrefixedGrowsTwice ==
  ASSUME Typed, NEW ns, Prefixed(ns), NEW t, NEW u, nodes' = nodes \o <<t, u>>, NEW k, k = Len(nodes) + 1, k + 1 \in 1 .. Len(ns), ns[k] = t, ns[k + 1] = u
  PROVE  Prefixed(ns)' /\ Len(nodes') = k + 1 /\ k + 1 # 0
<1> PICK new : new = <<t, u>>
  OBVIOUS
<1>1. nodes \in Seq(NodeSet) /\ Len(nodes) \in Nat /\ Len(new) = 2 /\ new[1] = t /\ new[2] = u
  BY LenProperties DEF Typed
<1>2. Len(nodes') = k + 1 /\ nodes'[k] = t /\ nodes'[k + 1] = u /\ \A n \in 1 .. Len(nodes) : nodes'[n] = nodes[n]
  BY <1>1, SMT
<1>3. \A n \in 1 .. k + 1 : n = k + 1 \/ n = k \/ n \in 1 .. Len(nodes)
  BY <1>1, SMT
<1>4. k + 1 <= Len(ns) /\ k + 1 # 0
  BY <1>1, SMT
<1> QED BY <1>2, <1>3, <1>4 DEF Prefixed

LEMMA YieldFollows ==
  ASSUME NEW ns, NEW low, NEW goal, NEW aim, Follows(ns, low, goal, aim), outcome = "none", NEW new, NEW q, Yield(new, q),
         Prefixed(ns)', NEW d, d = Len(nodes) + Len(new), Len(nodes') = d, d # 0, d \in Spine(ns, goal[Len(frames) + 1])
  PROVE  OnTheWay(ns, low)'
<1>1. lhs' = d /\ UNCHANGED <<input, min, frames>> /\ outcome' = "none"
  BY DEF Yield
<1>2. Follows(ns, low, goal, aim)'
  BY <1>1, FollowYield
<1> QED BY <1>1, <1>2 DEF OnTheWay

LEMMA NodeIs ==
  ASSUME NEW t \in NodeSet
  PROVE  t = Made(t.fix, t.sym, t.kids, t.from, t.to)
BY DEF NodeSet, Made

LEMMA OneKid == ASSUME NEW s \in Seq(Nat), NEW k, Len(s) = 1, s[1] = k PROVE s = <<k>>
<1>1. s = [i \in 1 .. 1 |-> s[i]]
  BY SMT
<1>2. \A i \in 1 .. 1 : i = 1
  BY SMT
<1> QED BY <1>1, <1>2

LEMMA AtomFollows ==
  ASSUME ParseInv, Lexed, NEW ns, NEW low, NEW p, Derivation(ns, low, p), OnTheWay(ns, low), Atom
  PROVE  OnTheWay(ns, low)'
<1> PICK goal, aim : Follows(ns, low, goal, aim)
  BY DEF OnTheWay
<1> PICK u, new : u = Made("leaf", input[at].text, <<>>, start, at + 1) /\ new = <<u>>
  OBVIOUS
<1>1. Reading /\ input[at].kind \in LeafKinds /\ Yield(new, at + 1)
  BY DEF Atom
<1>2. Typed /\ at \in 1 .. Len(input) /\ outcome = "none" /\ Len(nodes) \in Nat /\ nodes \in Seq(NodeSet)
  BY <1>1, ReadingStarts DEF Typed
<1>3. PICK h \in Spine(ns, goal[Len(frames) + 1]) :
           /\ h \in 1 .. Len(ns) /\ Tight(ns, h) /\ low[h] = Len(nodes) + 1 /\ ns[h].from = at /\ ns[h].from = start
           /\ Begins(ns[h].fix, at)
  BY <1>1, ReadHead
<1> PICK t : t = ns[h]
  OBVIOUS
<1>4. t.fix = "leaf"
  BY <1>1, <1>2, <1>3, BeginsOnce
<1>5. IsLeaf(t) /\ t \in NodeSet /\ t.from = at /\ t.from = start
  BY <1>3, <1>4, NodeFacts
<1>6. t.kids = <<>> /\ t.sym = input[at].text /\ t.to = at + 1
  BY <1>4, <1>5 DEF IsLeaf
<1>7. h = Len(nodes) + 1
  BY <1>3, <1>6, NodeFacts
<1>8. t = u
  <2>1. t = Made("leaf", input[at].text, <<>>, start, at + 1)
    BY <1>4, <1>5, <1>6, NodeIs
  <2> QED BY <2>1
<1>9. nodes' = Append(nodes, t) /\ Len(new) = 1
  <2>1. nodes' = nodes \o <<t>>
    BY <1>1, <1>8 DEF Yield
  <2>2. nodes \o <<t>> = Append(nodes, t)
    BY <1>2, <1>5, SMT
  <2> QED BY <2>1, <2>2
<1>10. Prefixed(ns)' /\ Len(nodes') = h /\ h # 0
  <2>1. Prefixed(ns)
    BY DEF Follows
  <2> QED BY <1>2, <1>3, <1>7, <1>9, <2>1, PrefixedGrows
<1>11. h = Len(nodes) + Len(new)
  BY <1>7, <1>9
<1> QED BY <1>1, <1>2, <1>10, <1>11, YieldFollows

LEMMA SizeofFollows ==
  ASSUME ParseInv, Lexed, NEW ns, NEW low, NEW p, Derivation(ns, low, p), OnTheWay(ns, low), Sizeof
  PROVE  OnTheWay(ns, low)'
<1> PICK goal, aim : Follows(ns, low, goal, aim)
  BY DEF OnTheWay
<1> DEFINE q == at + 2
           e == AfterType(q)
           r == e + 1
           k == Len(nodes) + 1
<1>1. Reading /\ Is(at, SizeofWord)
  BY DEF Sizeof
<1>2. /\ Is(at + 1, <<"(">>) /\ ~ IsType(q) => Operand("sizeof", <<>>, <<>>, q, 0) /\ UNCHANGED nodes
      /\ Is(at + 1, <<"(">>) /\ IsType(q) /\ Is(e, <<")">>) => Yield(<<TypeAt(q), Made("sizeof", <<>>, <<k>>, start, r)>>, r)
  BY DEF Sizeof
<1>3. Typed /\ at \in 1 .. Len(input) /\ outcome = "none" /\ Len(nodes) \in Nat /\ at \in Int
  BY <1>1, ReadingStarts
<1>4. PICK h \in Spine(ns, goal[Len(frames) + 1]) :
           /\ h \in 1 .. Len(ns) /\ Tight(ns, h) /\ low[h] = Len(nodes) + 1 /\ ns[h].from = at /\ ns[h].from = start
           /\ Begins(ns[h].fix, at)
  BY <1>1, ReadHead
<1> PICK t, c : t = ns[h] /\ c = ns[h].kids[1]
  OBVIOUS
<1>5. t.fix = "sizeof"
  BY <1>1, <1>3, <1>4, BeginsOnce
<1>6. /\ c \in 1 .. Len(ns) /\ low[c] = k /\ t.sym = <<>> /\ Is(at + 1, <<"(">>) /\ ns[c].from = q /\ Len(t.kids) = 1
      /\ Is(ns[c].to, <<")">>) /\ t.to = ns[c].to + 1 /\ h = c + 1
  BY <1>4, <1>5, HeadWords
<1>7. q \in 1 .. Len(input)
  <2>1. at + 1 \in 1 .. Len(input)
    BY <1>1, <1>3, NextToken
  <2>2. at + 1 + 1 \in 1 .. Len(input)
    BY <1>3, <1>6, <2>1, NextToken
  <2>3. at + 1 + 1 = at + 2
    BY <1>3, SMT
  <2> QED BY <2>2, <2>3
<1> HIDE DEF q, e, r, k
<1>8. /\ IsType(q) <=> ns[c].fix = "type"
      /\ IsType(q) => low[c] = c /\ ns[c] = TypeAt(q) /\ ns[c].to = e /\ Is(e, <<")">>)
  <2>1. CASE ns[c].fix = "type"
    <3>1. Shut(ns[c].to) /\ q = ns[c].from /\ Typed /\ c \in 1 .. Len(ns)
      BY <1>3, <1>6 DEF Shut
    <3>2. IsType(q) /\ AfterType(q) = ns[c].to /\ ns[c] = TypeAt(q) /\ low[c] = c
      BY <1>7, <2>1, <3>1, TypeIsRead
    <3> QED BY <1>6, <2>1, <3>2 DEF e, k
  <2>2. CASE ns[c].fix # "type"
    <3>1. ~ IsType(q)
      BY <1>6, <1>7, <2>2, NotFirst
    <3> QED BY <2>2, <3>1
  <2> QED BY <2>1, <2>2
<1>9. CASE ~ IsType(q)
  <2>1. InnerBp(t) = 0
    BY <1>5 DEF InnerBp
  <2> PICK bp, w : bp = 0 /\ w = <<>>
    OBVIOUS
  <2>2. Operand("sizeof", w, <<>>, q, bp) /\ UNCHANGED nodes /\ ns[c].fix # "type"
    BY <1>2, <1>6, <1>8, <1>9
  <2> QED BY <1>3, <1>4, <1>5, <1>6, <2>1, <2>2, HeadOpens
<1>10. CASE IsType(q)
  <2> PICK u, new : u = TypeAt(q) /\ new = <<TypeAt(q), t>>
    OBVIOUS
  <2>1. t \in NodeSet /\ t.kids \in Seq(Nat)
    BY <1>4, NodeFacts
  <2>2. t.kids = <<k>>
    BY <1>6, <1>8, <1>10, <2>1, OneKid
  <2>3. t.to = r
    BY <1>6, <1>8, <1>10 DEF r
  <2>4. t = Made("sizeof", <<>>, <<k>>, start, r)
    BY <1>4, <1>5, <1>6, <2>1, <2>2, <2>3, NodeIs
  <2>5. Yield(new, r)
    BY <1>2, <1>6, <1>8, <1>10, <2>4
  <2>6. nodes' = nodes \o <<u, t>> /\ Len(new) = 2
    BY <2>5 DEF Yield
  <2>7. k + 1 \in 1 .. Len(ns) /\ ns[k] = u /\ ns[k + 1] = t /\ h = k + 1
    <3>1. c = k /\ ns[c] = u /\ h = c + 1
      <4>1. h = c + 1 /\ low[c] = k
        BY <1>6
      <4>2. low[c] = c /\ ns[c] = TypeAt(q)
        BY <1>8, <1>10
      <4> QED BY <4>1, <4>2
    <3>2. h \in 1 .. Len(ns)
      BY <1>4
    <3>3. h = k + 1
      BY <3>1
    <3>4. k + 1 \in 1 .. Len(ns) /\ ns[k + 1] = t
      BY <3>2, <3>3
    <3> QED BY <3>1, <3>3, <3>4
  <2>8. Prefixed(ns)' /\ Len(nodes') = k + 1 /\ k + 1 # 0
    <3>1. Prefixed(ns)
      BY DEF Follows
    <3> QED BY <1>3, <2>6, <2>7, <3>1, PrefixedGrowsTwice DEF k
  <2>9. h = Len(nodes) + Len(new)
    BY <1>3, <2>6, <2>7, SMT DEF k
  <2> QED BY <1>3, <2>5, <2>7, <2>8, <2>9, YieldFollows
<1> QED BY <1>9, <1>10

LEMMA CastWords ==
  ASSUME NEW ns, NEW low, NEW p, Derivation(ns, low, p), NEW n \in 1 .. Len(ns), NEW t, t = ns[n], t.fix = "cast",
         NEW c, c = t.kids[1], NEW d, d = t.kids[2]
  PROVE  /\ c \in 1 .. Len(ns) /\ low[c] = low[n] /\ t.sym = <<>> /\ ns[c].from = t.from + 1 /\ ns[c].fix = "type" /\ Len(t.kids) = 2
         /\ Is(ns[c].to, <<")">>) /\ ns[d].from = ns[c].to + 1 /\ d \in 1 .. Len(ns) /\ low[d] = c + 1 /\ ns[d].fix # "type"
<1>1. t.fix \in {"prefix", "group", "sizeof", "cast"}
  OBVIOUS
<1>2. c \in 1 .. Len(ns) /\ low[c] = low[n] /\ t.sym = <<>> /\ ns[c].from = t.from + 1 /\ ns[c].fix = "type" /\ Len(t.kids) = 2
  BY <1>1, HeadWords
<1>3. Is(ns[c].to, <<")">>) /\ ns[t.kids[2]].from = ns[c].to + 1 
  BY <1>1, HeadWords
<1>4. t.kids[2] \in 1 .. Len(ns) /\ low[t.kids[2]] = c + 1 /\ ns[t.kids[2]].fix # "type"
  BY <1>1, HeadWords
<1> QED BY <1>2, <1>3, <1>4

\* The frame of what was begun, with the operands it has, for the next one.
LEMMA OpenFollows ==
  ASSUME Typed, NEW ns, NEW low, NEW p, Derivation(ns, low, p), NEW goal, NEW aim, Follows(ns, low, goal, aim), outcome = "none",
         NEW d \in Spine(ns, goal[Len(frames) + 1]), Tight(ns, d), NEW t, t = ns[d], t.from = start,
         NEW fix, fix = t.fix, fix \notin {"leaf", "type", "field", "postfix"}, NEW sym, sym = t.sym,
         NEW kids, NEW i \in 1 .. Len(t.kids), i = Len(kids) + 1, i # 1 \/ Lead(t, 1) # <<>>, \A j \in 1 .. Len(kids) : t.kids[j] = kids[j],
         NEW c, c = t.kids[i], ns[c].fix # "type", NEW q, q = ns[c].from, low[c] = Len(nodes') + 1,
         NEW bp, bp = InnerBp(t), Operand(fix, sym, kids, q, bp), Prefixed(ns)'
  PROVE  OnTheWay(ns, low)'
<1>1. d \in 1 .. Len(ns)
  BY DEF Spine
<1>2. c \in 1 .. Len(ns)
  BY <1>1, NodeFacts
<1>3. Fits(ns, c, bp)
  BY <1>1, KidFits
<1>4. Len(kids) + 1 \in 1 .. Len(ns[d].kids) /\ c = ns[d].kids[Len(kids) + 1] /\ \A j \in 1 .. Len(kids) : ns[d].kids[j] = kids[j]
  OBVIOUS
<1>5. \E goal2, aim2 : Follows(ns, low, goal2, aim2)'
  BY <1>2, <1>3, <1>4, FollowOpen
<1>6. outcome' = "none"
  BY DEF Operand, Call
<1> QED BY <1>5, <1>6 DEF OnTheWay

LEMMA CastFollows ==
  ASSUME ParseInv, Lexed, NEW ns, NEW low, NEW p, Derivation(ns, low, p), OnTheWay(ns, low), Cast
  PROVE  OnTheWay(ns, low)'
<1> PICK goal, aim : Follows(ns, low, goal, aim)
  BY DEF OnTheWay
<1> DEFINE q == at + 1
           e == AfterType(q)
           r == e + 1
           k == Len(nodes) + 1
<1>1. Reading /\ Is(at, <<"(">>) /\ IsType(q)
  BY DEF Cast
<1>2. Is(e, <<")">>) => Operand("cast", <<>>, <<k>>, r, 30) /\ nodes' = Append(nodes, TypeAt(q))
  BY DEF Cast, PrefixBp
<1>3. Typed /\ at \in 1 .. Len(input) /\ outcome = "none" /\ Len(nodes) \in Nat /\ at \in Int
  BY <1>1, ReadingStarts
<1>4. PICK h \in Spine(ns, goal[Len(frames) + 1]) :
           /\ h \in 1 .. Len(ns) /\ Tight(ns, h) /\ low[h] = Len(nodes) + 1 /\ ns[h].from = at /\ ns[h].from = start
           /\ Begins(ns[h].fix, at)
  BY <1>1, ReadHead
<1> DEFINE t == ns[h]
           c == t.kids[1]
           d == t.kids[2]
<1>5. q \in 1 .. Len(input)
  BY <1>1, <1>3, NextToken
<1>6. t.fix = "cast"
  <2>1. t.fix \in {"group", "cast"}
    BY <1>1, <1>3, <1>4, BeginsOnce
  <2>2. t.fix # "group"
    <3> SUFFICES ASSUME t.fix = "group" PROVE FALSE
      OBVIOUS
    <3>1. c \in 1 .. Len(ns) /\ ns[c].fix # "type" /\ ns[c].from = q
      BY <1>4, HeadWords
    <3> QED BY <1>1, <1>5, <3>1, NotFirst
  <2> QED BY <2>1, <2>2
<1>7. /\ c \in 1 .. Len(ns) /\ low[c] = k /\ t.sym = <<>> /\ ns[c].from = q /\ ns[c].fix = "type" /\ Len(t.kids) = 2
      /\ Is(ns[c].to, <<")">>) /\ ns[d].from = ns[c].to + 1 /\ d \in 1 .. Len(ns) /\ low[d] = c + 1 /\ ns[d].fix # "type"
  BY <1>4, <1>6, CastWords
<1> HIDE DEF q, e, r, k
<1>8. c = k /\ ns[c] = TypeAt(q) /\ ns[c].to = e /\ Is(e, <<")">>)
  <2>1. Shut(ns[c].to) /\ q = ns[c].from /\ Typed /\ c \in 1 .. Len(ns) /\ ns[c].fix = "type"
    BY <1>3, <1>7 DEF Shut
  <2>2. AfterType(q) = ns[c].to /\ ns[c] = TypeAt(q) /\ low[c] = c
    BY <1>5, <2>1, TypeIsRead
  <2> QED BY <1>7, <2>2 DEF e
<1> DEFINE w  == <<>>
           ks == <<k>>
           i  == 2
           bp == 30
<1>9. Operand("cast", w, ks, r, bp) /\ nodes' = Append(nodes, TypeAt(q))
  BY <1>2, <1>8
<1>10. Prefixed(ns)' /\ Len(nodes') = k
  <2>1. Prefixed(ns)
    BY DEF Follows
  <2> QED BY <1>3, <1>7, <1>8, <1>9, <2>1, PrefixedGrows DEF k
<1>11. Len(ks) = 1 /\ 2 \in 1 .. Len(t.kids) /\ 2 = Len(ks) + 1 /\ 2 # 1 /\ \A j \in 1 .. Len(ks) : t.kids[j] = ks[j]
  <2>1. Len(ks) = 1 /\ ks[1] = k /\ 2 \in 1 .. 2 /\ 1 + 1 = 2
    OBVIOUS
  <2>2. \A j \in 1 .. 1 : j = 1
    BY SMT
  <2>3. t.kids[1] = k
    BY <1>8
  <2> QED BY <1>7, <2>1, <2>2, <2>3
<1>12. t.fix \notin {"leaf", "type", "field", "postfix"} /\ bp = InnerBp(t) /\ w = t.sym
  BY <1>6, <1>7 DEF InnerBp
<1>13. low[d] = Len(nodes') + 1 /\ r = ns[d].from /\ ns[d].fix # "type"
  BY <1>7, <1>8, <1>10 DEF r
<1>14. Operand(t.fix, w, ks, r, bp) /\ t.from = start /\ Tight(ns, h)
  BY <1>4, <1>6, <1>9
<1>15. /\ i \in 1 .. Len(t.kids) /\ i = Len(ks) + 1 /\ (i # 1 \/ Lead(t, 1) # <<>>) /\ \A j \in 1 .. Len(ks) : t.kids[j] = ks[j]
       /\ d = t.kids[i] /\ t = ns[h]
  BY <1>11
<1>16. Typed /\ outcome = "none" /\ Prefixed(ns)'
  BY <1>3, <1>10
<1> HIDE DEF w, ks, i, bp, t, c, d
<1> QED BY <1>12, <1>13, <1>14, <1>15, <1>16, OpenFollows
-----------------------------------------------------------------------------
(* The loop of parse_pratt on the way to a derivation.                     *)

LEMMA HeldFacts ==
  ASSUME ParseInv, NEW ns, NEW low, NEW p, Derivation(ns, low, p), NEW goal, NEW aim, Follows(ns, low, goal, aim), Looping,
         NEW o, o = goal[Len(frames) + 1]
  PROVE  /\ lhs = Len(nodes) /\ lhs \in Spine(ns, o) /\ lhs \in 1 .. Len(ns) /\ ns[lhs] = nodes[lhs] /\ ns[lhs].to = at /\ ns[lhs].from = start
         /\ o \in 1 .. Len(ns) /\ ns[o].from = start /\ ns[o].fix # "type" /\ Fits(ns, o, min) /\ Typed /\ outcome = "none"
<1> PICK m : m = Len(frames)
  OBVIOUS
<1>1. Typed /\ lhs \in 1 .. Len(nodes) /\ nodes[lhs].from = start /\ nodes[lhs].to = at /\ outcome = "none"
  BY OperandIsRead, LoopingStarts
<1>2. m + 1 \in 1 .. m + 1 /\ m + 1 > m
  <2>1. m \in Nat
    BY <1>1, LenProperties DEF Typed
  <2> QED BY <2>1, SMT
<1>3. Fits(ns, o, min) /\ o \in 1 .. Len(ns)
  <2>1. min = MinOf(m + 1)
    BY <1>2 DEF MinOf
  <2> QED BY <1>2, <2>1 DEF Follows
<1>4. lhs = Len(nodes) /\ lhs \in Spine(ns, o) /\ ns[lhs] = nodes[lhs]
  BY <1>1 DEF Follows, Looping, Prefixed
<1>5. ns[o].fix # "type"
  BY <1>3 DEF Fits
<1>6. lhs \in 1 .. Len(ns) /\ ns[lhs].from = ns[o].from
  BY <1>3, <1>4, <1>5, SpineFacts
<1>7. ns[lhs].to = at /\ ns[lhs].from = start /\ ns[o].from = start
  BY <1>1, <1>4, <1>6
<1> QED BY <1>1, <1>3, <1>4, <1>5, <1>6, <1>7

\* What was read is a first operand, of d.
LEMMA HeldLed ==
  ASSUME ParseInv, Lexed, NEW ns, NEW low, NEW p, Derivation(ns, low, p), NEW goal, NEW aim, Follows(ns, low, goal, aim), Looping,
         NEW o, o = goal[Len(frames) + 1], lhs # o
  PROVE  \E d \in Spine(ns, o) :
           /\ d \in 1 .. Len(ns) /\ Led(ns[d]) /\ ns[d].kids[1] = lhs /\ Tight(ns, d) /\ ns[d].from = start
           /\ ns[d].fix \in {"postfix", "index", "field", "call", "assign", "ternary", "binary"} /\ ns[d].sym \in Symbols(ns[d])
           /\ Word = OpWord(ns[d]) /\ Is(at, OpWord(ns[d])) /\ Level(ns[d]) >= Level(ns[o])
<1>1. /\ lhs \in Spine(ns, o) /\ lhs \in 1 .. Len(ns) /\ ns[lhs].to = at /\ Typed
      /\ o \in 1 .. Len(ns) /\ ns[o].from = start /\ ns[o].fix # "type" /\ Fits(ns, o, min)
  BY HeldFacts
<1>2. PICK d \in Spine(ns, o) : Led(ns[d]) /\ ns[d].kids[1] = lhs
  BY <1>1, SpineParent
<1>3. d \in 1 .. Len(ns) /\ ns[d].from = start /\ Level(ns[d]) >= Level(ns[o])
  BY <1>1, SpineFacts
<1>4. Tight(ns, d)
  <2>1. Tight(ns, o)
    BY <1>1 DEF Fits
  <2> QED BY <1>1, <2>1, SpineTight
<1>5. ns[d].fix \in {"postfix", "index", "field", "call", "assign", "ternary", "binary"}
  BY <1>2, <1>3, LedFacts
<1>6. ns[d].sym \in Symbols(ns[d])
  BY <1>3, <1>5, FormFacts
<1>7. Is(at, OpWord(ns[d]))
  BY <1>1, <1>2, <1>3, LedWord
<1>8. Word = OpWord(ns[d])
  <2> PICK w : w = OpWord(ns[d])
    OBVIOUS
  <2>1. w \notin Keywords
    BY <1>5, <1>6, OpWords
  <2>2. at \in 1 .. Len(input) /\ Is(at, w)
    BY <1>1, <1>7 DEF Typed
  <2>3. WordAt(at) = w
    BY <2>1, <2>2, OperatorAt
  <2> QED BY <2>3 DEF Word, WordAt
<1> QED BY <1>2, <1>3, <1>4, <1>5, <1>6, <1>7, <1>8

LEMMA Weaker == ASSUME NEW u, OfPowers(u), NEW m \in 0 .. 30, u = 0 \/ u < m PROVE u # 40 /\ ~ (u # 0 /\ u >= m)
BY SMT DEF OfPowers

\* It is complete just when nothing behind it binds.
LEMMA HeldBinds ==
  ASSUME ParseInv, Lexed, NEW ns, NEW low, NEW p, Derivation(ns, low, p), NEW goal, NEW aim, Follows(ns, low, goal, aim), Looping,
         NEW o, o = goal[Len(frames) + 1]
  PROVE  lhs # o <=> Word \in Strong \/ Binds
<1>1. /\ lhs \in 1 .. Len(ns) /\ ns[lhs].to = at /\ o \in 1 .. Len(ns) /\ Fits(ns, o, min)
  BY HeldFacts
<1>2. min \in 0 .. 30 /\ Word = WordAt(at)
  BY OperandIsRead DEF Word, WordAt
<1> PICK w : w = Word
  OBVIOUS
<1>3. ASSUME lhs = o PROVE ~ (Word \in Strong \/ Binds)
  <2> PICK u : u = Power(w)
    OBVIOUS
  <2>1. u = 0 \/ u < min
    BY <1>1, <1>2, <1>3 DEF Fits
  <2>2. u # 40 /\ ~ (u # 0 /\ u >= min)
    BY <1>2, <2>1, PowerIs, Weaker
  <2>3. u = IF w \in Strong THEN 40 ELSE LeftBp(w)
    BY Powers
  <2> QED BY <2>2, <2>3 DEF Binds
<1>4. ASSUME lhs # o PROVE Word \in Strong \/ Binds
  <2>1. PICK d \in Spine(ns, o) :
           /\ d \in 1 .. Len(ns) /\ ns[d].fix \in {"postfix", "index", "field", "call", "assign", "ternary", "binary"} /\ ns[d].sym \in Symbols(ns[d])
           /\ Word = OpWord(ns[d]) /\ Level(ns[d]) >= Level(ns[o])
    BY <1>4, HeldLed
  <2> PICK t : t = ns[d]
    OBVIOUS
  <2>2. CASE t.fix \in {"postfix", "index", "field", "call"}
    BY <2>1, <2>2, OpWords
  <2>3. CASE t.fix \in {"assign", "ternary", "binary"}
    <3>1. LeftBp(w) = Level(t) /\ LeftBp(w) # 0
      <4>1. /\ t.fix = "assign"  => LeftBp(w) = 2 /\ Level(t) = 2
            /\ t.fix = "ternary" => LeftBp(w) = 3 /\ Level(t) = 3
            /\ t.fix = "binary"  => BinaryBp(w) # 0 /\ LeftBp(w) = BinaryBp(w) /\ Level(t) = BinaryBp(w)
        BY <2>1, OpWords
      <4> QED BY <2>3, <4>1
    <3>2. Level(t) >= min
      <4> PICK a, b : a = Level(t) /\ b = Level(ns[o])
        OBVIOUS
      <4>1. a >= b /\ b >= min
        BY <1>1, <2>1 DEF Fits
      <4>2. a \in 2 .. 40 /\ b \in 2 .. 40
        BY <1>1, <2>1, NodeLevel
      <4> QED BY <1>2, <4>1, <4>2, SMT
    <3> QED BY <3>1, <3>2 DEF Binds
  <2> QED BY <2>1, <2>2, <2>3
<1> QED BY <1>3, <1>4

\* The words tell the forms.
LEMMA FormOf ==
  ASSUME NEW t, t.fix \in {"postfix", "index", "field", "call", "assign", "ternary", "binary"}, t.sym \in Symbols(t), NEW w, w = OpWord(t)
  PROVE  /\ w \in PostfixOps => t.fix = "postfix" /\ t.sym = w
         /\ w = <<"(">>      => t.fix = "call" /\ t.sym = <<>>
         /\ w = <<"[">>      => t.fix = "index" /\ t.sym = <<>>
         /\ w \in FieldOps   => t.fix = "field" /\ t.sym = w
         /\ w \in AssignOps  => t.fix = "assign" /\ t.sym = w
         /\ w = <<"?">>      => t.fix = "ternary" /\ t.sym = <<>>
         /\ BinaryBp(w) # 0  => t.fix = "binary" /\ t.sym = w
<1>1. /\ t.fix \in {"postfix", "field", "assign", "binary"} => t.sym = w
      /\ t.fix \in {"call", "index", "ternary"} => t.sym = <<>>
      /\ t.fix = "call" => w = <<"(">>
      /\ t.fix = "index" => w = <<"[">>
      /\ t.fix = "ternary" => w = <<"?">>
  BY DEF OpWord, Symbols
<1>2. /\ t.fix = "postfix" => w \in PostfixOps
      /\ t.fix = "field"   => w \in FieldOps
      /\ t.fix = "assign"  => w \in AssignOps
      /\ t.fix = "binary"  => BinaryBp(w) # 0
  BY OpWords
<1>3. \A v \in PostfixOps : v \notin FieldOps \cup AssignOps \cup {<<"(">>, <<"[">>, <<"?">>}
  BY DEF PostfixOps, FieldOps, AssignOps
<1>4. \A v \in FieldOps \cup {<<"(">>, <<"[">>} : v \notin AssignOps \cup PostfixOps /\ v # <<"?">>
  BY DEF PostfixOps, FieldOps, AssignOps
<1>5. <<"(">> \notin FieldOps /\ <<"[">> \notin FieldOps /\ <<"(">> # <<"[">> /\ <<"?">> \notin AssignOps
  BY DEF FieldOps, AssignOps
<1>6. BinaryBp(w) # 0 => w \notin AssignOps /\ w # <<"?">> /\ w \notin PostfixOps \cup FieldOps /\ w # <<"(">> /\ w # <<"[">>
  BY BinaryIsInfix DEF Strong
<1> QED BY <1>1, <1>2, <1>3, <1>4, <1>5, <1>6

\* What was read is a first operand of the expression d, with the word at hand behind it.
Takes(ns, o, d) ==
  /\ d \in 1 .. Len(ns) /\ Led(ns[d]) /\ ns[d].kids[1] = lhs /\ Tight(ns, d) /\ ns[d].from = start /\ d \in Spine(ns, o)
  /\ ns[d].fix \in {"postfix", "index", "field", "call", "assign", "ternary", "binary"} /\ ns[d].sym \in Symbols(ns[d])
  /\ Word = OpWord(ns[d]) /\ ns[lhs].to = at

LEMMA TakesOne ==
  ASSUME ParseInv, Lexed, NEW ns, NEW low, NEW p, Derivation(ns, low, p), NEW goal, NEW aim, Follows(ns, low, goal, aim), Looping,
         Word \in Strong \/ Binds
  PROVE  \E d : Takes(ns, goal[Len(frames) + 1], d)
<1> PICK o : o = goal[Len(frames) + 1]
  OBVIOUS
<1>1. lhs # o
  BY HeldBinds
<1>2. ns[lhs].to = at
  BY HeldFacts
<1> QED BY <1>1, <1>2, HeldLed DEF Takes

\* What stands behind the word.
LEMMA LedNext ==
  ASSUME NEW ns, NEW low, NEW p, Derivation(ns, low, p), NEW n \in 1 .. Len(ns), NEW t, t = ns[n], Led(t), Len(t.kids) # 1,
         NEW k, k = t.kids[1], NEW e, e = ns[k].to, NEW c, c = t.kids[2]
  PROVE  t.fix # "postfix" /\ 2 \in 1 .. Len(t.kids) /\ c \in 1 .. Len(ns) /\ ns[c].from = e + 1 /\ low[c] = k + 1 /\ ns[c].fix # "type"
<1>1. SecondAt(ns, low, t, e)
  BY LedWord
<1>2. t.fix # "postfix" /\ 2 \in 1 .. Len(t.kids) /\ c \in 1 .. Len(ns) /\ low[c] = k + 1
  BY <1>1 DEF SecondAt
<1>3. ns[c].from = e + 1
  BY <1>1 DEF SecondAt
<1>4. t.fix \in {"postfix", "index", "field", "call", "assign", "ternary", "binary"}
  BY LedFacts
<1>5. IsOperand(ns, t, 2)
  BY <1>2, <1>4, FormFacts
<1>6. ns[c].fix # "type"
  BY <1>4, <1>5 DEF IsOperand, Kid
<1> QED BY <1>2, <1>3, <1>6

\* The frame of an operator, for its right operand.
LEMMA LoopFollows ==
  ASSUME ParseInv, Lexed, NEW ns, NEW low, NEW p, Derivation(ns, low, p), NEW goal, NEW aim, Follows(ns, low, goal, aim), Looping,
         NEW d, Takes(ns, goal[Len(frames) + 1], d), NEW t, t = ns[d], Len(t.kids) # 1, NEW fix, fix = t.fix, fix # "field",
         NEW sym, sym = t.sym, NEW bp, bp = InnerBp(t), Operand(fix, sym, <<lhs>>, at + 1, bp), UNCHANGED nodes
  PROVE  OnTheWay(ns, low)'
<1> DEFINE ks == <<lhs>>
           i  == 2
           q  == at + 1
           c  == t.kids[i]
<1>1. /\ Typed /\ outcome = "none" /\ lhs = Len(nodes)
  BY HeldFacts
<1>2. /\ d \in 1 .. Len(ns) /\ Led(t) /\ t.kids[1] = lhs /\ Tight(ns, d) /\ t.from = start /\ d \in Spine(ns, goal[Len(frames) + 1])
      /\ fix \in {"index", "field", "postfix", "call", "assign", "ternary", "binary"} /\ ns[lhs].to = at
  BY DEF Takes
<1>3. /\ t.fix # "postfix" /\ i \in 1 .. Len(t.kids) /\ c \in 1 .. Len(ns) /\ ns[c].from = q /\ low[c] = lhs + 1 /\ ns[c].fix # "type"
  <2> PICK k, e : k = lhs /\ e = at
    OBVIOUS
  <2>1. k = t.kids[1] /\ e = ns[k].to /\ Led(t) /\ d \in 1 .. Len(ns)
    BY <1>2
  <2>2. t.fix # "postfix" /\ 2 \in 1 .. Len(t.kids) /\ c \in 1 .. Len(ns) /\ ns[c].from = e + 1 /\ low[c] = k + 1 /\ ns[c].fix # "type"
    BY <2>1, LedNext
  <2> QED BY <2>2
<1>4. i = Len(ks) + 1 /\ i # 1 /\ \A j \in 1 .. Len(ks) : t.kids[j] = ks[j]
  <2>1. Len(ks) = 1 /\ ks[1] = lhs /\ 1 + 1 = 2 /\ 2 # 1
    OBVIOUS
  <2>2. \A j \in 1 .. 1 : j = 1
    BY SMT
  <2> QED BY <1>2, <2>1, <2>2
<1>5. Prefixed(ns)'
  BY DEF Follows, Prefixed
<1>6. low[c] = Len(nodes') + 1
  BY <1>1, <1>3
<1>7. Operand(fix, sym, ks, q, bp) /\ c = t.kids[i]
  OBVIOUS
<1>8. fix \notin {"leaf", "type", "field", "postfix"}
  BY <1>2, <1>3
<1> HIDE DEF ks, i, q, c
<1> QED BY <1>1, <1>2, <1>3, <1>4, <1>5, <1>6, <1>7, <1>8, OpenFollows

LEMMA SubscriptFollows ==
  ASSUME ParseInv, Lexed, NEW ns, NEW low, NEW p, Derivation(ns, low, p), OnTheWay(ns, low), Subscript
  PROVE  OnTheWay(ns, low)'
<1> PICK goal, aim : Follows(ns, low, goal, aim)
  BY DEF OnTheWay
<1>1. Looping /\ Word = <<"[">> /\ Operand("index", <<>>, <<lhs>>, at + 1, 0) /\ UNCHANGED nodes
  BY DEF Subscript
<1>2. PICK d : Takes(ns, goal[Len(frames) + 1], d)
  BY <1>1, TakesOne DEF Strong
<1> DEFINE t   == ns[d]
           bp  == 0
           sym == <<>>
<1>3. t.fix = "index" /\ t.sym = sym
  BY <1>1, <1>2, FormOf DEF Takes
<1>4. Len(t.kids) # 1
  <2>1. Len(t.kids) \in Arity(t)
    BY <1>2, <1>3, FormFacts DEF Takes
  <2>2. Arity(t) = {2}
    BY <1>3 DEF Arity
  <2> QED BY <2>1, <2>2
<1>5. bp = InnerBp(t)
  BY <1>3 DEF InnerBp
<1>6. Looping /\ Operand("index", sym, <<lhs>>, at + 1, bp) /\ UNCHANGED nodes /\ t = ns[d]
  BY <1>1
<1> HIDE DEF t, bp, sym
<1> QED BY <1>2, <1>3, <1>4, <1>5, <1>6, LoopFollows

LEMMA AssignFollows ==
  ASSUME ParseInv, Lexed, NEW ns, NEW low, NEW p, Derivation(ns, low, p), OnTheWay(ns, low), Assign
  PROVE  OnTheWay(ns, low)'
<1> PICK goal, aim : Follows(ns, low, goal, aim)
  BY DEF OnTheWay
<1>1. Looping /\ Binds /\ Word \in AssignOps /\ Operand("assign", Word, <<lhs>>, at + 1, 1) /\ UNCHANGED nodes
  BY DEF Assign, AssignBp
<1>2. PICK d : Takes(ns, goal[Len(frames) + 1], d)
  BY <1>1, TakesOne
<1> DEFINE t   == ns[d]
           bp  == 1
           sym == Word
<1>3. t.fix = "assign" /\ t.sym = sym
  BY <1>1, <1>2, FormOf DEF Takes
<1>4. Len(t.kids) # 1
  <2>1. Len(t.kids) \in Arity(t)
    BY <1>2, <1>3, FormFacts DEF Takes
  <2> QED BY <1>3, <2>1 DEF Arity
<1>5. bp = InnerBp(t)
  BY <1>3 DEF InnerBp
<1>6. Looping /\ Operand("assign", sym, <<lhs>>, at + 1, bp) /\ UNCHANGED nodes /\ t = ns[d]
  BY <1>1
<1> HIDE DEF t, bp, sym
<1> QED BY <1>2, <1>3, <1>4, <1>5, <1>6, LoopFollows

LEMMA TernaryFollows ==
  ASSUME ParseInv, Lexed, NEW ns, NEW low, NEW p, Derivation(ns, low, p), OnTheWay(ns, low), Ternary
  PROVE  OnTheWay(ns, low)'
<1> PICK goal, aim : Follows(ns, low, goal, aim)
  BY DEF OnTheWay
<1>1. Looping /\ Binds /\ Word = <<"?">> /\ Operand("ternary", <<>>, <<lhs>>, at + 1, 0) /\ UNCHANGED nodes
  BY DEF Ternary
<1>2. PICK d : Takes(ns, goal[Len(frames) + 1], d)
  BY <1>1, TakesOne
<1> DEFINE t   == ns[d]
           bp  == 0
           sym == <<>>
<1>3. t.fix = "ternary" /\ t.sym = sym
  BY <1>1, <1>2, FormOf DEF Takes
<1>4. Len(t.kids) # 1
  <2>1. Len(t.kids) \in Arity(t)
    BY <1>2, <1>3, FormFacts DEF Takes
  <2>2. t.fix = "ternary"
    BY <1>3
  <2> HIDE DEF t, bp, sym
  <2>3. Arity(t) = {3}
    BY <2>2 DEF Arity
  <2> QED BY <2>1, <2>3
<1>5. bp = InnerBp(t)
  BY <1>3 DEF InnerBp
<1>6. Looping /\ Operand("ternary", sym, <<lhs>>, at + 1, bp) /\ UNCHANGED nodes /\ t = ns[d]
  BY <1>1
<1> HIDE DEF t, bp, sym
<1> QED BY <1>2, <1>3, <1>4, <1>5, <1>6, LoopFollows

LEMMA BinaryFollows ==
  ASSUME ParseInv, Lexed, NEW ns, NEW low, NEW p, Derivation(ns, low, p), OnTheWay(ns, low), Binary
  PROVE  OnTheWay(ns, low)'
<1> PICK goal, aim : Follows(ns, low, goal, aim)
  BY DEF OnTheWay
<1> DEFINE w  == Word
           bp == BinaryBp(w) + 1
<1>1. Looping /\ Binds /\ BinaryBp(w) # 0 /\ Operand("binary", w, <<lhs>>, at + 1, bp) /\ UNCHANGED nodes
  BY DEF Binary
<1>2. PICK d : Takes(ns, goal[Len(frames) + 1], d)
  BY <1>1, TakesOne
<1> DEFINE t == ns[d]
<1>3. t.fix = "binary" /\ t.sym = w
  BY <1>1, <1>2, FormOf DEF Takes
<1>4. Len(t.kids) # 1
  <2>1. Len(t.kids) \in Arity(t)
    BY <1>2, <1>3, FormFacts DEF Takes
  <2> QED BY <1>3, <2>1 DEF Arity
<1>5. bp = InnerBp(t)
  <2>1. Tightness(w) = BinaryBp(w)
    BY <1>1, TightnessIs
  <2> QED BY <1>3, <2>1 DEF InnerBp
<1>6. Looping /\ Operand("binary", w, <<lhs>>, at + 1, bp) /\ UNCHANGED nodes /\ t = ns[d]
  BY <1>1
<1> HIDE DEF t, bp, w
<1> QED BY <1>2, <1>3, <1>4, <1>5, <1>6, LoopFollows

\* What the loop makes at once.
LEMMA LoopYields ==
  ASSUME ParseInv, Lexed, NEW ns, NEW low, NEW p, Derivation(ns, low, p), NEW goal, NEW aim, Follows(ns, low, goal, aim), Looping,
         NEW d, Takes(ns, goal[Len(frames) + 1], d), NEW t, t = ns[d], Len(t.kids) = 1, NEW fix, fix = t.fix,
         NEW sym, sym = t.sym, NEW q, q = t.to, NEW new, new = <<Made(fix, sym, <<lhs>>, start, q)>>, Yield(new, q)
  PROVE  OnTheWay(ns, low)'
<1>1. /\ Typed /\ outcome = "none" /\ lhs = Len(nodes) /\ nodes \in Seq(NodeSet)
  BY HeldFacts DEF Typed
<1>2. /\ d \in 1 .. Len(ns) /\ Led(t) /\ t.kids[1] = lhs /\ t.from = start /\ d \in Spine(ns, goal[Len(frames) + 1])
  BY DEF Takes
<1>3. d = lhs + 1
  <2> PICK k, e : k = lhs /\ e = ns[k].to
    OBVIOUS
  <2>1. k = t.kids[1]
    BY <1>2
  <2>2. d = k + 1
    BY <1>2, <2>1, LedWord
  <2> QED BY <2>2
<1>4. t \in NodeSet /\ t.kids \in Seq(Nat)
  BY <1>2, NodeFacts
<1>5. t.kids = <<lhs>>
  BY <1>2, <1>4, OneKid
<1>6. t = Made(fix, sym, <<lhs>>, start, q)
  BY <1>2, <1>4, <1>5, NodeIs
<1>7. nodes' = Append(nodes, t) /\ Len(new) = 1
  <2>1. nodes' = nodes \o <<t>>
    BY <1>6 DEF Yield
  <2>2. nodes \o <<t>> = Append(nodes, t)
    BY <1>1, <1>4, SMT
  <2> QED BY <2>1, <2>2
<1> DEFINE l == Len(nodes) + 1
<1>8. d = l /\ d = Len(nodes) + Len(new)
  BY <1>1, <1>3, <1>7
<1>9. Prefixed(ns)
  BY DEF Follows
<1> HIDE DEF l
<1>10. Prefixed(ns)' /\ Len(nodes') = l /\ l # 0
  BY <1>1, <1>2, <1>7, <1>8, <1>9, PrefixedGrows DEF l
<1> QED BY <1>1, <1>2, <1>8, <1>10, YieldFollows

LEMMA PostfixFollows ==
  ASSUME ParseInv, Lexed, NEW ns, NEW low, NEW p, Derivation(ns, low, p), OnTheWay(ns, low), Postfix
  PROVE  OnTheWay(ns, low)'
<1> PICK goal, aim : Follows(ns, low, goal, aim)
  BY DEF OnTheWay
<1> DEFINE w == Word
           q == at + 1
<1>1. Looping /\ w \in PostfixOps /\ Yield(<<Made("postfix", w, <<lhs>>, start, q)>>, q)
  BY DEF Postfix
<1>2. PICK d : Takes(ns, goal[Len(frames) + 1], d)
  BY <1>1, TakesOne DEF Strong
<1> DEFINE t == ns[d]
<1>3. t.fix = "postfix" /\ t.sym = w
  BY <1>1, <1>2, FormOf DEF Takes
<1>4. Len(t.kids) = 1
  <2>1. Len(t.kids) \in Arity(t)
    BY <1>2, <1>3, FormFacts DEF Takes
  <2> QED BY <1>3, <2>1 DEF Arity
<1>5. t.to = q
  <2> PICK k, e : k = lhs /\ e = at
    OBVIOUS
  <2>1. k = t.kids[1] /\ e = ns[k].to /\ Led(t) /\ d \in 1 .. Len(ns)
    BY <1>2 DEF Takes
  <2>2. t.to = e + 1
    BY <1>3, <1>4, <2>1, LedWord
  <2> QED BY <2>2
<1>6. t = ns[d]
  OBVIOUS
<1> HIDE DEF t, w, q
<1> QED BY <1>1, <1>2, <1>3, <1>4, <1>5, <1>6, LoopYields

LEMMA ArgumentsFollows ==
  ASSUME ParseInv, Lexed, NEW ns, NEW low, NEW p, Derivation(ns, low, p), OnTheWay(ns, low), Arguments
  PROVE  OnTheWay(ns, low)'
<1> PICK goal, aim : Follows(ns, low, goal, aim)
  BY DEF OnTheWay
<1> DEFINE w  == <<>>
           q  == at + 1
           r  == at + 2
           bp == 0
<1>1. /\ Looping /\ Word = <<"(">>
      /\ Is(q, <<")">>) => Yield(<<Made("call", w, <<lhs>>, start, r)>>, r)
      /\ ~ Is(q, <<")">>) => Operand("call", w, <<lhs>>, q, bp) /\ UNCHANGED nodes
  BY DEF Arguments
<1>2. PICK d : Takes(ns, goal[Len(frames) + 1], d)
  BY <1>1, TakesOne DEF Strong
<1> DEFINE t == ns[d]
<1>3. t.fix = "call" /\ t.sym = w
  BY <1>1, <1>2, FormOf DEF Takes
<1>4. t = ns[d] /\ d \in 1 .. Len(ns) /\ Led(t) /\ t.kids[1] = lhs /\ ns[lhs].to = at
  BY <1>2 DEF Takes
<1>5. Len(t.kids) = 1 => t.to = r /\ Is(q, <<")">>)
  <2> PICK k, e : k = lhs /\ e = at
    OBVIOUS
  <2>1. k = t.kids[1] /\ e = ns[k].to /\ Led(t) /\ d \in 1 .. Len(ns)
    BY <1>4
  <2>2. Len(t.kids) = 1 => t.to = e + 2 /\ Is(e + 1, <<")">>)
    BY <1>3, <2>1, LedWord
  <2> QED BY <2>2
<1>6. Len(t.kids) # 1 => ~ Is(q, <<")">>)
  <2> SUFFICES ASSUME Len(t.kids) # 1 PROVE ~ Is(q, <<")">>)
    OBVIOUS
  <2> PICK k, e, c : k = lhs /\ e = at /\ c = t.kids[2]
    OBVIOUS
  <2>1. k = t.kids[1] /\ e = ns[k].to /\ Led(t) /\ d \in 1 .. Len(ns)
    BY <1>4
  <2>2. c \in 1 .. Len(ns) /\ ns[c].from = e + 1 /\ ns[c].fix # "type"
    BY <2>1, LedNext
  <2>3. Is(at, <<"(">>) /\ Typed /\ at \in 1 .. Len(input)
    BY <1>1, WordIsThere, OperandIsRead, LoopingStarts
  <2>4. q \in 1 .. Len(input)
    BY <2>3, NextToken
  <2>5. q = ns[c].from
    BY <2>2
  <2> HIDE DEF q
  <2> QED BY <2>2, <2>4, <2>5, NotFirst
<1>7. bp = InnerBp(t)
  BY <1>3 DEF InnerBp
<1>8. CASE Len(t.kids) = 1
  <2>1. Yield(<<Made("call", w, <<lhs>>, start, r)>>, r)
    BY <1>1, <1>5, <1>8
  <2>2. t.to = r
    BY <1>5, <1>8
  <2> HIDE DEF t, w, q, r, bp
  <2> QED BY <1>1, <1>2, <1>3, <1>4, <1>8, <2>1, <2>2, LoopYields
<1>9. CASE Len(t.kids) # 1
  <2>1. Operand("call", w, <<lhs>>, at + 1, bp) /\ UNCHANGED nodes
    BY <1>1, <1>6, <1>9
  <2> HIDE DEF t, w, q, r, bp
  <2> QED BY <1>1, <1>2, <1>3, <1>4, <1>7, <1>9, <2>1, LoopFollows
<1> QED BY <1>8, <1>9

LEMMA TwoKids == ASSUME NEW s \in Seq(Nat), NEW k, NEW c, Len(s) = 2, s[1] = k, s[2] = c PROVE s = <<k, c>>
<1>1. s = [i \in 1 .. 2 |-> s[i]]
  BY SMT
<1>2. \A i \in 1 .. 2 : i = 1 \/ i = 2
  BY SMT
<1> QED BY <1>1, <1>2

\* A member of what was read, and its name.
\* The expression n is the field t of k, which ends at e.
FieldAt(ns, n, t, k, e, c) ==
  /\ input[e + 1].kind = "ident" /\ ns[c] = Made("leaf", input[e + 1].text, <<>>, e + 1, e + 2) /\ c = k + 1
  /\ t = Made("field", t.sym, <<k, c>>, t.from, e + 2) /\ n = c + 1 /\ c \in 1 .. Len(ns)

LEMMA FieldFacts ==
  ASSUME NEW ns, NEW low, NEW p, Derivation(ns, low, p), NEW n \in 1 .. Len(ns), NEW t, t = ns[n], t.fix = "field", Led(t),
         NEW k, k = t.kids[1], NEW e, e = ns[k].to, NEW c, c = t.kids[2], NEW u, u = ns[c]
  PROVE  FieldAt(ns, n, t, k, e, c)
<1>1. Len(t.kids) = 2
  <2>1. Len(t.kids) \in Arity(t)
    BY FormFacts
  <2>2. Arity(t) = {2}
    BY DEF Arity
  <2> QED BY <2>1, <2>2
<1>2. 2 \in 1 .. Len(t.kids) /\ c \in 1 .. Len(ns) /\ u.from = e + 1 /\ low[c] = k + 1
  <2>1. Len(t.kids) # 1
    BY <1>1
  <2> QED BY <2>1, LedNext
<1>3. e \in Nat
  BY LedWord
<1>4. IsOperand(ns, t, 2) /\ Spelled(Behind(ns, t, 2), t.to, Close(t))
  BY <1>1, <1>2, FormFacts
<1>5. u.fix = "leaf" /\ input[e + 1].kind = "ident"
  BY <1>2, <1>4 DEF IsOperand, Kid
<1>6. IsLeaf(u) /\ u \in NodeSet
  BY <1>2, <1>5, NodeFacts
<1>7. u.kids = <<>> /\ u.sym = input[e + 1].text /\ u.to = e + 2
  <2>1. u.kids = <<>> /\ u.sym = input[u.from].text /\ u.to = u.from + 1
    BY <1>5, <1>6 DEF IsLeaf
  <2>2. e + 1 + 1 = e + 2
    BY <1>3, SMT
  <2> QED BY <1>2, <2>1, <2>2
<1>8. u = Made("leaf", input[e + 1].text, <<>>, e + 1, e + 2)
  BY <1>2, <1>5, <1>6, <1>7, NodeIs
<1>9. c = k + 1
  <2>1. c = low[c]
    BY <1>2, <1>7, NodeFacts
  <2> QED BY <1>2, <2>1
<1>10. n = c + 1
  <2>1. t.kids # <<>>
    BY <1>1
  <2>2. t.kids[Len(t.kids)] + 1 = n
    BY <2>1, NodeFacts
  <2> QED BY <1>1, <2>2
<1>11. t.to = e + 2
  <2> PICK q, z : q = u.to /\ z = t.to
    OBVIOUS
  <2>1. Behind(ns, t, 2) = q /\ q \in Nat
    BY <1>2, NodeFacts DEF Behind, Kid
  <2>2. Close(t) = <<>>
    BY DEF Close
  <2>3. Spelled(q, z, <<>>)
    BY <1>4, <2>1, <2>2
  <2>4. z = q
    BY <2>1, <2>3, SpelledNone
  <2> QED BY <1>7, <2>4
<1>12. t \in NodeSet /\ t.kids \in Seq(Nat)
  BY NodeFacts
<1>13. t.kids = <<k, c>>
  BY <1>1, <1>12, TwoKids
<1>14. t = Made("field", t.sym, <<k, c>>, t.from, e + 2)
  BY <1>11, <1>12, <1>13, NodeIs
<1> QED BY <1>2, <1>5, <1>8, <1>9, <1>10, <1>14 DEF FieldAt

LEMMA FieldFollows ==
  ASSUME ParseInv, Lexed, NEW ns, NEW low, NEW p, Derivation(ns, low, p), OnTheWay(ns, low), Field
  PROVE  OnTheWay(ns, low)'
<1> PICK goal, aim : Follows(ns, low, goal, aim)
  BY DEF OnTheWay
<1> DEFINE w == Word
           q == at + 1
           r == at + 2
           l == Len(nodes) + 1
           u == Made("leaf", input[q].text, <<>>, q, r)
           v == Made("field", w, <<lhs, l>>, start, r)
           new == <<u, v>>
<1>1. Looping /\ w \in FieldOps /\ (input[q].kind = "ident" => Yield(new, r))
  BY DEF Field
<1>2. PICK d : Takes(ns, goal[Len(frames) + 1], d)
  BY <1>1, TakesOne DEF Strong
<1> DEFINE t == ns[d]
           c == t.kids[2]
<1>3. t.fix = "field" /\ t.sym = w
  BY <1>1, <1>2, FormOf DEF Takes
<1>4. d \in 1 .. Len(ns) /\ Led(t) /\ t.kids[1] = lhs /\ ns[lhs].to = at /\ t.from = start /\ d \in Spine(ns, goal[Len(frames) + 1])
  BY <1>2 DEF Takes
<1>5. Typed /\ outcome = "none" /\ lhs = Len(nodes) /\ Prefixed(ns)
  <2>1. Prefixed(ns)
    BY DEF Follows
  <2> QED BY <1>1, <2>1, HeldFacts
<1>6. Len(nodes) \in Nat
  BY <1>5, LenProperties DEF Typed
<1>7. /\ input[q].kind = "ident" /\ ns[c] = u /\ c = lhs + 1 /\ t = Made("field", w, <<lhs, c>>, start, r) /\ d = c + 1
  <2> PICK k, e : k = lhs /\ e = at
    OBVIOUS
  <2>1. k = t.kids[1] /\ e = ns[k].to /\ Led(t) /\ d \in 1 .. Len(ns)
    BY <1>4
  <2>2. /\ input[e + 1].kind = "ident" /\ ns[c] = Made("leaf", input[e + 1].text, <<>>, e + 1, e + 2) /\ c = k + 1
        /\ t = Made("field", t.sym, <<k, c>>, t.from, e + 2) /\ d = c + 1
    <3>1. FieldAt(ns, d, t, k, e, c)
      BY <1>3, <2>1, FieldFacts
    <3> QED BY <3>1 DEF FieldAt
  <2> QED BY <1>3, <1>4, <2>2
<1>8. Yield(new, r)
  BY <1>1, <1>7
<1> HIDE DEF c, t, u, q, r, w
<1>9. c = l /\ t = v /\ d = l + 1
  <2>1. c = l
    BY <1>5, <1>7
  <2> QED BY <1>7, <2>1
<1>10. ns[l] = u /\ ns[l + 1] = v /\ l + 1 \in 1 .. Len(ns)
  BY <1>4, <1>7, <1>9 DEF t
<1>11. nodes' = nodes \o <<u, v>> /\ Len(new) = 2
  BY <1>8 DEF Yield
<1>12. d = Len(nodes) + Len(new)
  <2>1. Len(nodes) + 1 + 1 = Len(nodes) + 2
    BY <1>6, SMT
  <2> QED BY <1>9, <1>11, <2>1
<1> HIDE DEF v, new, l
<1>13. Prefixed(ns)' /\ Len(nodes') = l + 1 /\ l + 1 # 0
  BY <1>5, <1>10, <1>11, PrefixedGrowsTwice DEF l
<1>14. Len(nodes') = d /\ d # 0
  BY <1>9, <1>13
<1> QED BY <1>4, <1>5, <1>8, <1>12, <1>13, <1>14, YieldFollows
-----------------------------------------------------------------------------
(* The operand is read, on the way to a derivation.                        *)

LEMMA SameSeq ==
  ASSUME NEW s \in Seq(Nat), NEW u \in Seq(Nat), Len(s) = Len(u), \A i \in 1 .. Len(u) : s[i] = u[i]
  PROVE  s = u
<1>1. s = [i \in 1 .. Len(s) |-> s[i]] /\ u = [i \in 1 .. Len(u) |-> u[i]]
  BY SMT
<1> QED BY <1>1

\* The frame gets its operand of d.
Gives(ns, goal, m, d) ==
  /\ m = Len(frames) /\ m \in Nat \ {0} /\ d \in 1 .. Len(ns) /\ d \in Spine(ns, goal[m]) /\ Tight(ns, d)
  /\ ns[d].fix = Top.fix /\ ns[d].sym = Top.sym /\ ns[d].from = Top.from
  /\ Kids \in Seq(Nat) /\ Len(Kids) \in 1 .. Len(ns[d].kids) /\ \A i \in 1 .. Len(Kids) : ns[d].kids[i] = Kids[i]
  /\ ns[d].kids[Len(Kids)] = lhs

LEMMA BackGives ==
  ASSUME ParseInv, Lexed, NEW ns, NEW low, NEW p, Derivation(ns, low, p), NEW goal, NEW aim, Follows(ns, low, goal, aim), Back,
         NEW m, m = Len(frames), NEW d, d = aim[m], NEW f, f = Top
  PROVE  /\ Gives(ns, goal, m, d) /\ Len(Kids) = Len(f.kids) + 1 /\ Len(f.kids) \in Nat
         /\ f.fix \in Fixes \ {"postfix", "field"} /\ Len(f.kids) \in Waiting(f)
<1> DEFINE o == goal[m + 1]
           t == ns[d]
           j == Len(Kids)
<1>1. Looping /\ ~ (Word \in Strong) /\ ~ Binds /\ frames # <<>>
  BY DEF Back, Left, Strong
<1>2. /\ m \in Nat \ {0} /\ f = frames[m] /\ f.kids \in Seq(Nat) /\ Len(f.kids) \in Nat /\ IsStart(f, start)
  BY TopFacts
<1>3. lhs = o
  BY <1>1, HeldBinds
<1>4. Typed /\ lhs \in 1 .. Len(nodes) /\ Len(nodes) \in Nat
  BY <1>1, OperandIsRead
<1>5. Kids \in Seq(Nat) /\ j = Len(f.kids) + 1 /\ Kids[j] = lhs /\ \A i \in 1 .. Len(f.kids) : Kids[i] = f.kids[i]
  <2>1. lhs \in Nat
    BY <1>4, SMT
  <2> QED BY <1>2, <2>1, AppendProperties DEF Kids
<1>6. m \in 1 .. m /\ m \in 1 .. m + 1
  BY <1>2, SMT
<1>7. d \in Spine(ns, goal[m]) /\ Pending(ns, d, f) /\ o = t.kids[Len(f.kids) + 1]
  BY <1>2, <1>6 DEF Follows
<1>8. Tight(ns, d)
  <2> PICK g : g = goal[m]
    OBVIOUS
  <2>1. g \in 1 .. Len(ns) /\ Tight(ns, g)
    BY <1>6 DEF Follows, Fits
  <2> QED BY <1>7, <2>1, SpineTight
<1>9. d \in 1 .. Len(ns) /\ t.fix = f.fix /\ t.sym = f.sym /\ t.from = f.from /\ j \in 1 .. Len(t.kids) /\ t.kids[j] = lhs
  BY <1>3, <1>5, <1>7 DEF Pending
<1>10. \A i \in 1 .. j : t.kids[i] = Kids[i]
  <2>1. \A i \in 1 .. Len(f.kids) : t.kids[i] = Kids[i]
    BY <1>5, <1>7 DEF Pending
  <2>2. \A i \in 1 .. Len(f.kids) + 1 : i = Len(f.kids) + 1 \/ i \in 1 .. Len(f.kids)
    BY <1>2, SMT
  <2> QED BY <1>5, <1>9, <2>1, <2>2
<1>11. f.fix \in Fixes \ {"postfix", "field"} /\ Len(f.kids) \in Waiting(f)
  BY <1>2 DEF IsStart
<1> QED BY <1>2, <1>5, <1>6, <1>7, <1>8, <1>9, <1>10, <1>11 DEF Gives

\* What stands behind it.
LEMMA GivenBehind ==
  ASSUME ParseInv, NEW ns, NEW low, NEW p, Derivation(ns, low, p), NEW goal, NEW aim, Follows(ns, low, goal, aim), Back,
         NEW m, NEW d, Gives(ns, goal, m, d), NEW t, t = ns[d], t.fix \in Fixes
  PROVE  /\ Len(Kids) \in Nat \ {0} /\ Len(t.kids) \in Nat \ {0} /\ Len(t.kids) \in Arity(t) /\ at \in Nat /\ Typed /\ outcome = "none"
         /\ Behind(ns, t, Len(Kids)) = at
         /\ Len(Kids) = Len(t.kids) => t.kids = Kids /\ d = Len(nodes) + 1 /\ Spelled(at, t.to, Close(t))
<1> DEFINE j == Len(Kids)
<1>1. Looping
  BY DEF Back, Left
<1>2. Typed /\ outcome = "none" /\ lhs = Len(nodes) /\ ns[lhs].to = at
  BY <1>1, HeldFacts
<1>3. at \in Nat
  <2>1. at \in 1 .. Len(input)
    BY <1>2 DEF Typed
  <2> QED BY <2>1, SMT
<1>4. d \in 1 .. Len(ns) /\ Kids \in Seq(Nat) /\ j \in 1 .. Len(t.kids) /\ t.kids[j] = lhs /\ \A i \in 1 .. j : t.kids[i] = Kids[i]
  BY DEF Gives
<1>5. t.fix \notin {"leaf", "type"}
  BY DEF Fixes
<1>6. Len(t.kids) \in Arity(t) /\ Len(t.kids) \in Nat \ {0} /\ t.kids # <<>> /\ Spelled(Behind(ns, t, Len(t.kids)), t.to, Close(t))
  BY <1>4, <1>5, FormFacts
<1>7. j \in Nat \ {0}
  BY <1>4, <1>6, SMT
<1>8. Behind(ns, t, j) = at
  BY <1>2, <1>4, <1>7 DEF Behind, Kid
<1>9. t.kids \in Seq(Nat) /\ t.kids[Len(t.kids)] + 1 = d
  BY <1>4, <1>6, NodeFacts
<1>10. ASSUME j = Len(t.kids) PROVE t.kids = Kids /\ d = Len(nodes) + 1 /\ Spelled(at, t.to, Close(t))
  <2>1. t.kids = Kids
    BY <1>4, <1>9, <1>10, SameSeq
  <2>2. d = Len(nodes) + 1
    BY <1>2, <1>4, <1>9, <1>10
  <2> QED BY <1>6, <1>8, <1>10, <2>1, <2>2
<1> QED BY <1>2, <1>3, <1>6, <1>7, <1>8, <1>10

LEMMA EndFollows ==
  ASSUME ParseInv, NEW ns, NEW low, NEW p, Derivation(ns, low, p), NEW goal, NEW aim, Follows(ns, low, goal, aim), Back,
         NEW m, NEW d, d = aim[m], Gives(ns, goal, m, d), NEW t, t = ns[d], t.fix \in Fixes, Len(Kids) = Len(t.kids), NEW q, t.to = q, End(q)
  PROVE  OnTheWay(ns, low)'
<1> DEFINE l == Len(nodes) + 1
<1>1. t.kids = Kids /\ d = l /\ Typed /\ outcome = "none" /\ frames # <<>>
  BY GivenBehind DEF Back
<1>2. t.fix = Top.fix /\ t.sym = Top.sym /\ t.from = Top.from /\ d \in 1 .. Len(ns) /\ m = Len(frames)
  BY DEF Gives
<1>3. t \in NodeSet
  BY <1>2, NodeFacts
<1>4. t = Made(Top.fix, Top.sym, Kids, Top.from, q)
  BY <1>1, <1>2, <1>3, NodeIs
<1>5. nodes' = Append(nodes, t)
  BY <1>4 DEF End
<1>6. Prefixed(ns)
  BY DEF Follows
<1> HIDE DEF l
<1>7. Prefixed(ns)'
  BY <1>1, <1>2, <1>5, <1>6, PrefixedGrows DEF l
<1>8. Follows(ns, low, goal, aim)'
  <2>1. aim[m] = Len(nodes) + 1
    BY <1>1 DEF l
  <2> QED BY <1>1, <1>2, <1>7, <2>1, FollowEnd
<1>9. outcome' = "none"
  BY <1>1 DEF End
<1> QED BY <1>8, <1>9 DEF OnTheWay

LEMMA EndLastFollows ==
  ASSUME ParseInv, Lexed, NEW ns, NEW low, NEW p, Derivation(ns, low, p), OnTheWay(ns, low), EndLast
  PROVE  OnTheWay(ns, low)'
<1> PICK goal, aim : Follows(ns, low, goal, aim)
  BY DEF OnTheWay
<1> PICK m, d, t, f : m = Len(frames) /\ d = aim[m] /\ t = ns[d] /\ f = Top
  OBVIOUS
<1>1. Back /\ (f.fix \in {"prefix", "cast", "assign", "binary"} \/ (f.fix = "ternary" /\ Len(Kids) = 3)) /\ End(at)
  BY DEF EndLast
<1>2. /\ Gives(ns, goal, m, d) /\ Len(Kids) = Len(f.kids) + 1 /\ Len(f.kids) \in Waiting(f) /\ f.fix \in Fixes
  BY <1>1, BackGives
<1>3. t.fix = f.fix
  BY <1>2 DEF Gives
<1>4. Len(t.kids) \in Arity(t) /\ at \in Nat /\ (Len(Kids) = Len(t.kids) => Spelled(at, t.to, Close(t)))
  BY <1>1, <1>2, <1>3, GivenBehind
<1> DEFINE j == Len(Kids)
           n == Len(f.kids)
           l == Len(t.kids)
<1>5. j = l
  <2>1. j = n + 1 /\ n \in Waiting(f) /\ l \in Arity(t)
    BY <1>2, <1>4
  <2>2. f.fix = "ternary" => j = 3
    BY <1>1
  <2> HIDE DEF j, n, l
  <2>3. CASE f.fix = "prefix"
    <3>1. n = 0 /\ l = 1
      BY <1>3, <2>1, <2>3 DEF Waiting, Arity
    <3> QED BY <2>1, <3>1, SMT
  <2>4. CASE f.fix \in {"cast", "assign", "binary"}
    <3>1. n = 1 /\ l = 2
      BY <1>3, <2>1, <2>4 DEF Waiting, Arity
    <3> QED BY <2>1, <3>1, SMT
  <2>5. CASE f.fix = "ternary"
    BY <1>3, <2>1, <2>2, <2>5 DEF Arity
  <2> QED BY <1>1, <2>3, <2>4, <2>5
<1>6. t.to = at
  <2> PICK e : e = t.to
    OBVIOUS
  <2>1. Close(t) = <<>>
    BY <1>1, <1>3 DEF Close
  <2>2. Spelled(at, e, <<>>)
    BY <1>4, <1>5, <2>1
  <2>3. e = at
    BY <1>4, <2>2, SpelledNone
  <2> QED BY <2>3
<1>7. t.fix \in Fixes /\ End(at)
  BY <1>1, <1>2, <1>3
<1> QED BY <1>1, <1>2, <1>5, <1>6, <1>7, EndFollows
-----------------------------------------------------------------------------
LEMMA Onward ==
  ASSUME NEW j \in Nat \ {0}, NEW i, i = j + 1, NEW l \in Nat, i \in 1 .. l
  PROVE  i - 1 = j /\ i # 1 /\ i \in 2 .. l
BY SMT

LEMMA KidOrder ==
  ASSUME NEW ns, NEW low, NEW p, Derivation(ns, low, p), NEW n \in 1 .. Len(ns), NEW t, t = ns[n], t.kids # <<>>
  PROVE  \A k \in 2 .. Len(t.kids) : low[t.kids[k]] = t.kids[k - 1] + 1
BY NodeFacts

\* The operand behind the one that was read, and the word between them.
Further(i, l) == i = Len(Kids) + 1 /\ i \in 1 .. l /\ i # 2
Parting(t) == IF t.fix = "call" THEN <<",">> ELSE <<":">>
Comes(ns, low, c) == c \in 1 .. Len(ns) /\ ns[c].from = at + 1 /\ low[c] = Len(nodes) + 1 /\ Fits(ns, c, 0)

LEMMA GivenNext ==
  ASSUME ParseInv, Lexed, NEW ns, NEW low, NEW p, Derivation(ns, low, p), NEW goal, NEW aim, Follows(ns, low, goal, aim), Back,
         NEW m, NEW d, Gives(ns, goal, m, d), NEW t, t = ns[d], t.fix \in {"call", "ternary"},
         NEW i, Further(i, Len(t.kids)), NEW c, c = t.kids[i]
  PROVE  Is(at, Parting(t)) /\ Comes(ns, low, c)
<1> DEFINE j == Len(Kids)
           w == Parting(t)
<1>1. t.fix \in Fixes /\ t.fix \notin {"leaf", "type", "field", "postfix", "cast", "sizeof"}
  BY DEF Fixes
<1>2. Looping
  BY DEF Back, Left
<1>3. lhs = Len(nodes)
  BY <1>2, HeldFacts
<1>4. j \in Nat \ {0} /\ Len(t.kids) \in Nat /\ at \in Nat /\ Behind(ns, t, j) = at
  BY <1>1, GivenBehind
<1>5. d \in 1 .. Len(ns) /\ Tight(ns, d) /\ t.kids[j] = lhs
  BY DEF Gives
<1>6. i - 1 = j /\ i # 1 /\ i \in 2 .. Len(t.kids)
  <2> HIDE DEF j
  <2>1. i = j + 1
    BY DEF j, Further
  <2>2. i \in 1 .. Len(t.kids)
    BY DEF Further
  <2> QED BY <1>4, <2>2, <2>1, Onward
<1>7. IsOperand(ns, t, i)
  <2>1. i \in 1 .. Len(t.kids)
    BY DEF Further
  <2> QED BY <1>1, <1>5, <2>1, FormFacts
<1>8. c \in 1 .. Len(ns) /\ low[c] = t.kids[i - 1] + 1
  <2>1. t.kids # <<>>
    BY <1>1, <1>5, FormFacts
  <2>2. \A k \in 1 .. Len(t.kids) : t.kids[k] \in 1 .. Len(ns)
    BY <1>5, NodeFacts
  <2>3. \A k \in 2 .. Len(t.kids) : low[t.kids[k]] = t.kids[k - 1] + 1
    BY <1>5, <2>1, KidOrder
  <2> QED BY <1>6, <2>2, <2>3
<1>9. ns[c].fix # "type"
  BY <1>1, <1>7 DEF IsOperand, Kid
<1>10. Lead(t, i) = <<w>>
  <2>1. i # 2
    BY DEF Further
  <2> QED BY <1>6, <2>1 DEF Lead, Parting
<1> DEFINE q == ns[c].from
<1>11. q = at + 1 /\ Is(at, w)
  <2>1. Spelled(at, q, <<w>>)
    BY <1>4, <1>6, <1>7, <1>10 DEF IsOperand, Kid
  <2> HIDE DEF q
  <2> QED BY <1>4, <2>1, SpelledOne
<1>12. Fits(ns, c, InnerBp(t))
  <2>1. i \in 1 .. Len(t.kids) /\ i # 1
    BY <1>6 DEF Further
  <2> QED BY <1>1, <1>5, <1>9, <2>1, KidFits
<1>13. InnerBp(t) = 0
  BY DEF InnerBp
<1>14. low[c] = Len(nodes) + 1
  BY <1>3, <1>5, <1>6, <1>8
<1> QED BY <1>8, <1>11, <1>12, <1>13, <1>14 DEF Comes

LEMMA AnotherFollows ==
  ASSUME ParseInv, Lexed, NEW ns, NEW low, NEW p, Derivation(ns, low, p), NEW goal, NEW aim, Follows(ns, low, goal, aim), Back, Another,
         NEW m, NEW d, d = aim[m], Gives(ns, goal, m, d), NEW t, t = ns[d], t.fix \in {"call", "ternary"},
         NEW i, Further(i, Len(t.kids))
  PROVE  OnTheWay(ns, low)'
<1> DEFINE c == t.kids[i]
<1>1. Comes(ns, low, c)
  <2>1. c = t.kids[i]
    OBVIOUS
  <2> HIDE DEF c
  <2> QED BY <2>1, GivenNext
<1>2. m = Len(frames) /\ Kids \in Seq(Nat) /\ \A k \in 1 .. Len(Kids) : t.kids[k] = Kids[k]
  BY DEF Gives
<1>3. Typed /\ frames # <<>> /\ outcome = "none"
  BY DEF ParseInv, Back, Left, Looping
<1>4. \E goal2, aim2 : Follows(ns, low, goal2, aim2)'
  <2> HIDE DEF c
  <2>1. c = t.kids[Len(Kids) + 1] /\ Len(Kids) + 1 \in 1 .. Len(t.kids)
    BY DEF c, Further
  <2>2. c \in 1 .. Len(ns) /\ ns[c].from = at + 1 /\ low[c] = Len(nodes) + 1 /\ Fits(ns, c, 0)
    BY <1>1 DEF Comes
  <2> QED BY <1>2, <1>3, <2>1, <2>2, FollowAnother
<1>5. outcome' = "none"
  BY <1>3 DEF Another, Call
<1> QED BY <1>4, <1>5 DEF OnTheWay

LEMMA OtherwiseFollows ==
  ASSUME ParseInv, Lexed, NEW ns, NEW low, NEW p, Derivation(ns, low, p), OnTheWay(ns, low), Otherwise
  PROVE  OnTheWay(ns, low)'
<1> PICK goal, aim : Follows(ns, low, goal, aim)
  BY DEF OnTheWay
<1> PICK m, d, t, f : m = Len(frames) /\ d = aim[m] /\ t = ns[d] /\ f = Top
  OBVIOUS
<1>1. Back /\ f.fix = "ternary" /\ Len(Kids) = 2 /\ IF Is(at, <<":">>) THEN Another ELSE Unexpected(at)
  BY DEF Otherwise
<1>2. Gives(ns, goal, m, d) /\ f.fix \in Fixes
  BY <1>1, BackGives
<1>3. t.fix = "ternary"
  BY <1>1, <1>2 DEF Gives
<1>4. Len(t.kids) = 3
  <2>1. Len(t.kids) \in Arity(t)
    BY <1>1, <1>2, <1>3, GivenBehind DEF Fixes
  <2> QED BY <1>3, <2>1 DEF Arity
<1>5. Further(3, Len(t.kids))
  <2>1. 3 = 2 + 1 /\ 3 \in 1 .. 3 /\ 3 # 2
    BY SMT
  <2> QED BY <1>1, <1>4, <2>1 DEF Further
<1>6. t.fix \in {"call", "ternary"}
  BY <1>3
<1>7. Is(at, <<":">>)
  <2> DEFINE c == t.kids[3]
  <2>1. c = t.kids[3]
    OBVIOUS
  <2>2. Back /\ Gives(ns, goal, m, d)
    BY <1>1, <1>2
  <2> HIDE DEF c
  <2>3. Is(at, Parting(t))
    BY <1>5, <1>6, <2>1, <2>2, GivenNext
  <2> QED BY <1>3, <2>3 DEF Parting
<1>8. Another
  BY <1>1, <1>7
<1> QED BY <1>1, <1>2, <1>5, <1>6, <1>8, AnotherFollows

\* The words behind an operand are not those behind the last.
LEMMA CloserWords ==
  ASSUME NEW q, NEW w, NEW x, Is(q, w), Is(q, x)
  PROVE  w = x
BY DEF Is

LEMMA Ends ==
  ASSUME NEW j \in Nat, NEW l \in Nat, j \in 1 .. l, j # l
  PROVE  j + 1 \in 1 .. l
BY SMT

LEMMA NextArgumentFollows ==
  ASSUME ParseInv, Lexed, NEW ns, NEW low, NEW p, Derivation(ns, low, p), OnTheWay(ns, low), NextArgument
  PROVE  OnTheWay(ns, low)'
<1> PICK goal, aim : Follows(ns, low, goal, aim)
  BY DEF OnTheWay
<1> PICK m, d, t, f : m = Len(frames) /\ d = aim[m] /\ t = ns[d] /\ f = Top
  OBVIOUS
<1>1. Back /\ f.fix = "call" /\ Is(at, <<",">>) /\ Another
  BY DEF NextArgument
<1>2. /\ Gives(ns, goal, m, d) /\ f.fix \in Fixes
      /\ Len(Kids) = Len(f.kids) + 1 /\ Len(f.kids) \in Waiting(f)
  BY <1>1, BackGives
<1>3. t.fix = "call" /\ t.fix \in {"call", "ternary"} /\ t.fix \in Fixes /\ Len(Kids) \in 1 .. Len(t.kids)
  BY <1>1, <1>2 DEF Gives
<1>4. /\ Len(Kids) \in Nat \ {0} /\ Len(t.kids) \in Nat \ {0} /\ at \in Nat
      /\ Len(Kids) = Len(t.kids) => Spelled(at, t.to, Close(t)) /\ t.kids = Kids
  <2>1. Back /\ Gives(ns, goal, m, d) /\ t.fix \in Fixes
    BY <1>1, <1>2, <1>3
  <2> QED BY <2>1, GivenBehind
<1> DEFINE j == Len(Kids)
           n == Len(f.kids)
           l == Len(t.kids)
<1>5. j # 1 /\ j + 1 # 2
  <2>1. n \in Nat \ {0}
    BY <1>1, <1>2 DEF Waiting
  <2>2. j = n + 1
    BY <1>2
  <2> HIDE DEF j, n
  <2> QED BY <2>1, <2>2, SMT
<1>6. j # l
  <2> SUFFICES ASSUME j = l PROVE FALSE
    OBVIOUS
  <2> DEFINE e == t.to
  <2>1. Close(t) = <<<<")">>>>
    BY <1>3, <1>5 DEF Close
  <2>2. Spelled(at, e, <<<<")">>>>)
    BY <1>4, <2>1
  <2> HIDE DEF e
  <2>3. Is(at, <<")">>)
    BY <1>4, <2>2, SpelledOne
  <2>4. <<")">> = <<",">>
    BY <1>1, <2>3, CloserWords
  <2> QED BY <2>4, SMT
<1>7. j + 1 \in 1 .. l
  <2>1. j \in Nat /\ l \in Nat /\ j \in 1 .. l
    BY <1>3, <1>4
  <2> HIDE DEF j, l
  <2> QED BY <1>6, <2>1, Ends
<1>8. Further(j + 1, l)
  BY <1>5, <1>7 DEF Further
<1> QED BY <1>1, <1>2, <1>3, <1>8, AnotherFollows
-----------------------------------------------------------------------------
Successor(j, n) == j = n + 1

LEMMA Successors ==
  ASSUME NEW j, NEW n, Successor(j, n), NEW l
  PROVE  /\ n = 0 /\ l = 1 => j = l
         /\ n = 1 /\ l = 2 => j = l
         /\ n \in Nat \ {0} => j # 1 /\ j + 1 # 2
BY SMT DEF Successor

Ending == Back /\ Top.fix \in {"group", "sizeof", "index", "call"} /\ ~ (Top.fix = "call" /\ Is(at, <<",">>))
GivesLast(ns, goal, m, d) ==
  /\ Gives(ns, goal, m, d) /\ ns[d].fix = Top.fix /\ Len(Kids) = Len(ns[d].kids)
  /\ ns[d].fix = "call" => Len(ns[d].kids) # 1

\* Where a call ends there is no comma, and where it has another argument there is one.
LEMMA ClosedIsLast ==
  ASSUME ParseInv, Lexed, NEW ns, NEW low, NEW p, Derivation(ns, low, p), NEW goal, NEW aim, Follows(ns, low, goal, aim),
         Ending, NEW m, m = Len(frames), NEW d, d = aim[m]
  PROVE  GivesLast(ns, goal, m, d)
<1> PICK f, t : f = Top /\ t = ns[d]
  OBVIOUS
<1>1. Back /\ f.fix \in {"group", "sizeof", "index", "call"} /\ ~ (f.fix = "call" /\ Is(at, <<",">>))
  BY DEF Ending
<1>2. /\ Gives(ns, goal, m, d) /\ f.fix \in Fixes
      /\ Len(Kids) = Len(f.kids) + 1 /\ Len(f.kids) \in Waiting(f)
  <2>1. Back
    BY <1>1
  <2> QED BY <2>1, BackGives
<1>3. t.fix = f.fix /\ Len(Kids) \in 1 .. Len(t.kids)
  BY <1>2 DEF Gives
<1>4. Len(t.kids) \in Arity(t) /\ Len(Kids) \in Nat \ {0} /\ Len(t.kids) \in Nat \ {0}
  <2>1. t.fix \in Fixes
    BY <1>2, <1>3
  <2>2. Back
    BY <1>1
  <2> QED BY <1>2, <2>1, <2>2, GivenBehind
<1> DEFINE j == Len(Kids)
           n == Len(f.kids)
           l == Len(t.kids)
<1>5. n \in Waiting(f) /\ l \in Arity(t)
  BY <1>2, <1>4
<1>6. Successor(j, n)
  BY <1>2 DEF Successor
<1>7. ASSUME f.fix \in {"group", "sizeof"} PROVE Len(Kids) = Len(t.kids) /\ t.fix # "call"
  <2> HIDE DEF j, n, l
  <2>1. n = 0 /\ l = 1
    BY <1>3, <1>5, <1>7 DEF Waiting, Arity
  <2>2. j = l
    BY <1>6, <2>1, Successors
  <2> QED BY <1>2, <1>3, <1>7, <2>2 DEF j, l
<1>8. ASSUME f.fix = "index" PROVE Len(Kids) = Len(t.kids) /\ t.fix # "call"
  <2> HIDE DEF j, n, l
  <2>1. n = 1 /\ l = 2
    BY <1>3, <1>5, <1>8 DEF Waiting, Arity
  <2>2. j = l
    BY <1>6, <2>1, Successors
  <2> QED BY <1>2, <1>3, <1>8, <2>2 DEF j, l
<1>9. ASSUME f.fix = "call" PROVE Len(Kids) = Len(t.kids) /\ Len(t.kids) # 1
  <2>1. n \in Nat \ {0} /\ l \in Nat
    BY <1>4, <1>5, <1>9 DEF Waiting
  <2>2. j # 1 /\ j + 1 # 2
    <3> HIDE DEF j, n, l
    <3> QED BY <1>6, <2>1, Successors
  <2>3. j = l
    <3> SUFFICES ASSUME j # l PROVE FALSE
      OBVIOUS
    <3>1. j \in Nat /\ j \in 1 .. l
      BY <1>3, <1>4
    <3>2. j + 1 \in 1 .. l
      <4> HIDE DEF j, n, l
      <4> QED BY <2>1, <3>1, Ends
    <3>3. Further(j + 1, l)
      BY <2>2, <3>2 DEF Further
    <3> DEFINE c == t.kids[j + 1]
               i == j + 1
    <3>4. c = t.kids[i] /\ Further(i, Len(t.kids))
      BY <3>3
    <3>5. t.fix \in {"call", "ternary"}
      BY <1>3, <1>9
    <3>6. Back
      BY <1>1
    <3> HIDE DEF c, i, j, n, l
    <3>7. Is(at, Parting(t))
      BY <1>2, <3>6, <3>4, <3>5, GivenNext
    <3> QED BY <1>3, <1>9, <1>1, <3>7 DEF Parting
  <2>4. l # 1
    BY <2>2, <2>3
  <2> HIDE DEF j, l
  <2> QED BY <1>2, <1>3, <1>9, <2>3, <2>4 DEF j, l
<1>10. Len(Kids) = Len(t.kids) /\ (t.fix = "call" => Len(t.kids) # 1)
  BY <1>7, <1>8, <1>9, <1>1
<1> QED BY <1>2, <1>3, <1>10 DEF GivesLast

LEMMA EndClosedFollows ==
  ASSUME ParseInv, Lexed, NEW ns, NEW low, NEW p, Derivation(ns, low, p), OnTheWay(ns, low), EndClosed
  PROVE  OnTheWay(ns, low)'
<1> PICK goal, aim : Follows(ns, low, goal, aim)
  BY DEF OnTheWay
<1> PICK m, d, t, f, w : m = Len(frames) /\ d = aim[m] /\ t = ns[d] /\ f = Top /\ w = Closer
  OBVIOUS
<1>1. /\ Back /\ f.fix \in {"group", "sizeof", "index", "call"} /\ ~ (f.fix = "call" /\ Is(at, <<",">>))
      /\ IF Is(at, w) THEN End(at + 1) ELSE Unexpected(at)
  BY DEF EndClosed
<1>2. Gives(ns, goal, m, d) /\ t.fix = f.fix /\ Len(Kids) = Len(t.kids) /\ (t.fix = "call" => Len(t.kids) # 1)
  <2>1. Ending
    BY <1>1 DEF Ending
  <2>2. GivesLast(ns, goal, m, d)
    BY <2>1, ClosedIsLast
  <2> QED BY <2>2 DEF GivesLast
<1>3. t.fix \in Fixes
  BY <1>1, <1>2 DEF Fixes
<1>4. at \in Nat /\ Spelled(at, t.to, Close(t))
  <2>1. Back
    BY <1>1
  <2> QED BY <1>2, <1>3, <2>1, GivenBehind
<1>5. Close(t) = <<w>>
  BY <1>1, <1>2 DEF Close, Closer
<1> DEFINE e == t.to
<1>6. e = at + 1 /\ Is(at, w)
  <2>1. Spelled(at, e, <<w>>)
    BY <1>4, <1>5
  <2> HIDE DEF e
  <2> QED BY <1>4, <2>1, SpelledOne
<1> DEFINE q == at + 1
<1>7. End(q) /\ t.to = q /\ Back
  BY <1>1, <1>6
<1> HIDE DEF q
<1> QED BY <1>2, <1>3, <1>7, EndFollows
-----------------------------------------------------------------------------
(* The parser returns, and what it made is the derivation.                 *)

LEMMA SameNodes ==
  ASSUME NEW s, NEW u, s \in Seq(NodeSet), u \in Seq(NodeSet), Len(s) = Len(u), \A i \in 1 .. Len(s) : s[i] = u[i]
  PROVE  s = u
<1>1. s = [i \in 1 .. Len(s) |-> s[i]] /\ u = [i \in 1 .. Len(u) |-> u[i]]
  BY SMT
<1> QED BY <1>1

LEMMA ReturnFollows ==
  ASSUME ParseInv, Lexed, NEW ns, NEW low, NEW p, Derivation(ns, low, p), OnTheWay(ns, low), Return
  PROVE  nodes = ns /\ at = p
<1> PICK goal, aim : Follows(ns, low, goal, aim)
  BY DEF OnTheWay
<1>1. Looping /\ ~ (Word \in Strong) /\ ~ Binds /\ frames = <<>>
  BY DEF Return, Left, Strong
<1> DEFINE o == goal[Len(frames) + 1]
<1>2. o = Len(ns)
  <2>1. Len(frames) = 0
    BY <1>1
  <2>2. Len(frames) + 1 = 1
    BY <2>1, SMT
  <2>3. goal[1] = Len(ns)
    BY DEF Follows
  <2> QED BY <2>2, <2>3
<1>3. o = goal[Len(frames) + 1]
  OBVIOUS
<1> HIDE DEF o
<1>4. lhs = o
  BY <1>1, <1>3, HeldBinds
<1>5. lhs = Len(nodes) /\ ns[lhs].to = at /\ Typed
  BY <1>1, <1>3, HeldFacts
<1>6. Len(nodes) = Len(ns) /\ ns[Len(ns)].to = p
  BY <1>2, <1>4, <1>5 DEF Derivation
<1>7. nodes = ns
  <2>1. nodes \in Seq(NodeSet) /\ ns \in Seq(NodeSet)
    BY <1>5 DEF Typed, Derivation
  <2>2. \A i \in 1 .. Len(nodes) : nodes[i] = ns[i]
    BY DEF Follows, Prefixed
  <2> QED BY <1>6, <2>1, <2>2, SameNodes
<1> QED BY <1>2, <1>4, <1>5, <1>6, <1>7
-----------------------------------------------------------------------------
(* The lexer tells keywords from operators and names by their text.        *)

Kept(s, t) ==
  /\ t.kind = "keyword" => Text(s, t) \in Keywords
  /\ t.kind = "punct" => Text(s, t) \notin Keywords
WordsKept == \A i \in 1 .. Len(tokens) : Kept(text, tokens[i])

LEMMA KeywordsBegin == \A w \in Keywords : w[1] \notin Operator
<1>1. <<"I", "8">>[1] = "I" /\ SizeofWord[1] = "s" /\ <<"i", "f">>[1] = "i"
  BY DEF SizeofWord
<1>2. "I" \notin Operator /\ "s" \notin Operator /\ "i" \notin Operator
  BY DEF Operator, Single
<1> DEFINE a == <<"I", "8">>
           b == SizeofWord
           c == <<"i", "f">>
<1>3. Keywords = {a, b, c}
  BY DEF Keywords, TypeWords
<1> HIDE DEF a, b, c
<1>4. a[1] = "I" /\ b[1] = "s" /\ c[1] = "i"
  BY <1>1 DEF a, b, c
<1> QED BY <1>2, <1>3, <1>4

LEMMA TextBegins ==
  ASSUME NEW S, NEW s \in Seq(S), NEW p \in 1 .. Len(s), NEW q \in p + 1 .. Len(s) + 1
  PROVE  SubSeq(s, p, q - 1)[1] = s[p]
<1>1. Len(s) \in Nat
  BY LenProperties
<1>2. p \in 1 .. Len(s) + 1 /\ q - 1 \in p - 1 .. Len(s) /\ q - 1 - p + 1 >= 1 /\ p + 1 - 1 = p
  BY <1>1, SMT
<1>3. 1 \in 1 .. q - 1 - p + 1
  BY <1>2, SMT
<1> QED BY <1>2, <1>3, SubSeqProperties

LEMMA PunctuationKept ==
  ASSUME NEW S, NEW s \in Seq(S), NEW p \in 1 .. Len(s), NEW t, t = Punctuation(s, p), Placed(s, p, t), t.kind \in Kinds
  PROVE  Kept(s, t)
<1>1. s[p] \in Operator /\ t.kind = "punct"
  BY DEF Punctuation, Error, Token, Kinds
<1>2. t.from = p /\ t.to \in p + 1 .. Len(s) + 1
  BY <1>1 DEF Placed
<1>3. Text(s, t)[1] = s[p]
  BY <1>2, TextBegins DEF Text
<1> QED BY <1>1, <1>3, KeywordsBegin DEF Kept

LEMMA TokenKept ==
  ASSUME NEW S, NEW s \in Seq(S), IsText(s), NEW p \in 1 .. Len(s) + 1, NEW t, t = TokenAt(s, p), t.kind \notin Errors
  PROVE  Kept(s, t)
<1> DEFINE c == Peek(s, p)
<1>1. Placed(s, p, t)
  BY TokenAtSound DEF Sound
<1>2. CASE t = Identifier(s, p)
  BY <1>2 DEF Identifier, Token, Kept, Text
<1>3. CASE t = Punctuation(s, p) /\ c # None
  <2>1. p \in 1 .. Len(s)
    BY <1>3, PeekInside
  <2>2. t.kind \in Kinds
    BY <1>1 DEF Placed, IsToken
  <2> QED BY <1>1, <1>3, <2>1, <2>2, PunctuationKept
<1>4. CASE t \in {Token("eof", p, p), Directive(s, p), CharLit(s, p), Number(s, p)}
  <2>1. t = Token("eof", p, p) => t.kind = "eof"
    BY DEF Token
  <2>2. t = Directive(s, p) => t.kind \in {"directive", "hash"}
    <3> DEFINE w == After(s, p + 1, {" "})
               q == After(s, w, WordChar)
               k == IF SubSeq(s, w, q - 1) \in Directives THEN "directive" ELSE "hash"
    <3>1. k \in {"directive", "hash"} /\ Directive(s, p) = Token(k, p, q)
      BY DEF Directive
    <3> HIDE DEF k, q, w
    <3> QED BY <3>1, TokenFields
  <2>3. t = CharLit(s, p) => t.kind \in {"char"} \cup Errors
    BY DEF CharLit, Token, Error, BadEscape, Errors
  <2>4. t = Number(s, p) => t.kind \in {"int", "float"} \cup Errors
    BY DEF Number, Radix, Fraction, Token, Error, Errors
  <2> QED BY <1>4, <2>1, <2>2, <2>3, <2>4 DEF Kept
<1>5. t \in {Token("eof", p, p), Directive(s, p), CharLit(s, p), Number(s, p), Identifier(s, p)} \/ (t = Punctuation(s, p) /\ c # None)
  BY DEF TokenAt
<1> QED BY <1>2, <1>3, <1>4, <1>5

LEMMA WordsStart == LexInit => text \in Texts /\ WordsKept
<1> SUFFICES ASSUME LexInit PROVE text \in Texts /\ WordsKept
  OBVIOUS
<1>1. text \in Texts /\ tokens = <<>>
  BY DEF LexInit, Begin
<1>2. \A i \in 1 .. Len(tokens) : FALSE
  BY <1>1, SMT
<1> QED BY <1>1, <1>2 DEF WordsKept

LEMMA KeptAppend ==
  ASSUME NEW T, tokens \in Seq(T), WordsKept, NEW t \in T, Kept(text, t), tokens' = Append(tokens, t), text' = text
  PROVE  WordsKept'
<1>1. Len(tokens) \in Nat /\ Len(tokens') = Len(tokens) + 1 /\ tokens'[Len(tokens) + 1] = t /\ \A i \in 1 .. Len(tokens) : tokens'[i] = tokens[i]
  BY LenProperties, AppendProperties
<1>2. \A i \in 1 .. Len(tokens) + 1 : i \in 1 .. Len(tokens) \/ i = Len(tokens) + 1
  BY <1>1, SMT
<1>3. ASSUME NEW i \in 1 .. Len(tokens') PROVE Kept(text, tokens'[i])
  BY <1>1, <1>2, <1>3 DEF WordsKept
<1>4. \A i \in 1 .. Len(tokens') : Kept(text', tokens'[i])
  BY <1>3
<1> QED BY <1>4 DEF WordsKept, Kept, Text

LEMMA WordsStayKept ==
  ASSUME LexInv, LexInv', text \in Texts, WordsKept, [Tokenize]_lexVars
  PROVE  (text \in Texts /\ WordsKept)'
<1> DEFINE T == [kind : Kinds, from : Nat, to : 1 .. Len(text) + 1]
<1>1. IsText(text) /\ pos \in 1 .. Len(text) + 1 /\ tokens \in Seq(T) /\ text \in Seq(STRING \ {None})
  BY TextsAssumption DEF LexInv, LexTypes
<1>2. text' = text
  BY DEF Tokenize, lexVars, SkipBlank, SkipLine, SkipBlock, TakeToken, OpenString, ReadPlain, ReadEscape, LoseString, CloseString, GiveUp, GoTo
<1>3. CASE tokens' = tokens
  BY <1>2, <1>3 DEF WordsKept, Kept, Text
<1>4. ASSUME NEW t, tokens' = Append(tokens, t), Kept(text, t) PROVE WordsKept'
  <2>1. t \in T
    <3>1. tokens' \in Seq(T)
      BY <1>2 DEF LexInv, LexTypes
    <3> HIDE DEF T
    <3> QED BY <1>1, <1>4, <3>1, SMT
  <2> HIDE DEF T
  <2> QED BY <1>1, <1>2, <1>4, <2>1, KeptAppend
<1>5. CASE TakeToken
  <2> PICK t : t = TokenAt(text, pos)
    OBVIOUS
  <2>1. CASE t.kind \in Errors
    <3>1. tokens' = tokens
      BY <1>5, <2>1 DEF TakeToken, GiveUp
    <3> QED BY <1>2, <1>3, <3>1
  <2>2. CASE t.kind \notin Errors
    <3>1. Kept(text, t)
      BY <1>1, <2>2, TokenKept
    <3>2. tokens' = Append(tokens, t)
      BY <1>5, <2>2 DEF TakeToken
    <3> QED BY <1>2, <1>4, <3>1, <3>2
  <2> QED BY <2>1, <2>2
<1>6. CASE CloseString
  <2> PICK t : t = Token("string", quote, pos + 1)
    OBVIOUS
  <2>1. Kept(text, t)
    BY DEF Kept, Token
  <2>2. tokens' = Append(tokens, t)
    BY <1>6 DEF CloseString
  <2> QED BY <1>2, <1>4, <2>1, <2>2
<1>7. CASE ~ TakeToken /\ ~ CloseString
  <2>1. tokens' = tokens
    BY <1>7 DEF Tokenize, lexVars, SkipBlank, SkipLine, SkipBlock, OpenString, ReadPlain, ReadEscape, LoseString, GiveUp, GoTo
  <2> QED BY <1>2, <1>3, <2>1
<1> QED BY <1>2, <1>5, <1>6, <1>7

\* Parser::new, as in Syntax.
Handed == input = [i \in DOMAIN tokens |-> [kind |-> tokens[i].kind, text |-> Text(text, tokens[i])]]

\* lexer.rs, lex_ident: whatever the text, of the tokens that the parser is handed those
\* called keywords are keywords and the operators are none: what it takes for granted of them.
THEOREM TokensAreLexed == LexSpec => [](Handed => Lexed)
<1>1. LexInv /\ text \in Texts /\ WordsKept /\ [Tokenize]_lexVars => (LexInv /\ text \in Texts /\ WordsKept)'
  BY LexNext, WordsStayKept
<1>2. LexInv /\ WordsKept => (Handed => Lexed)
  <2> SUFFICES ASSUME LexInv, WordsKept, Handed PROVE Lexed
    OBVIOUS
  <2> DEFINE T == [kind : Kinds, from : Nat, to : 1 .. Len(text) + 1]
  <2>1. tokens \in Seq(T)
    BY DEF LexInv, LexTypes
  <2> HIDE DEF T
  <2>2. DOMAIN tokens = 1 .. Len(tokens) /\ Len(tokens) \in Nat
    BY <2>1, LenProperties
  <2>3. Len(input) = Len(tokens)
    BY <2>2, SMT DEF Handed
  <2>4. ASSUME NEW i \in 1 .. Len(input) PROVE input[i].kind = tokens[i].kind /\ input[i].text = Text(text, tokens[i])
    BY <2>2, <2>3 DEF Handed
  <2> QED BY <2>3, <2>4 DEF WordsKept, Kept, Lexed
<1> QED BY <1>1, <1>2, LexStarts, WordsStart, PTL DEF LexSpec
-----------------------------------------------------------------------------
\* The parser is on the way to the derivation ns, or has it.
Reached(ns, low, p) ==
  /\ outcome = "none" => OnTheWay(ns, low)
  /\ outcome \in {"none", "tree"} /\ (outcome = "tree" => nodes = ns /\ at = p)

LEMMA InputStays ==
  ASSUME ParseStep
  PROVE  input' = input /\ outcome = "none"
<1>1. outcome = "none"
  BY DEF ParseStep, Prefix, Sizeof, Group, Cast, Atom, NoOperand, Postfix, Arguments, Subscript, Field, Assign, Ternary,
         Binary, EndLast, EndClosed, NextArgument, Otherwise, Return, Back, Left, Reading, Looping
<1>2. input' = input
  BY DEF ParseStep, Prefix, Sizeof, Group, Cast, Atom, NoOperand, Postfix, Arguments, Subscript, Field, Assign,
         Ternary, Binary, EndLast, EndClosed, NextArgument, Otherwise, Return, Operand, Call, Yield, End, Another, Unexpected, Refuse
<1> QED BY <1>1, <1>2

LEMMA WordsStay ==
  ASSUME input' = input, NEW q, NEW w
  PROVE  (Is(q, w)' <=> Is(q, w)) /\ (IsType(q)' <=> IsType(q))
BY DEF Is, IsType

LEMMA SpelledRemains ==
  ASSUME input' = input, NEW q, NEW e, NEW ws, Spelled(q, e, ws)
  PROVE  Spelled(q, e, ws)'
<1>1. e = q + Len(ws) /\ \A j \in 1 .. Len(ws) : Is(q + j - 1, ws[j])
  BY DEF Spelled
<1>2. ASSUME NEW j \in 1 .. Len(ws) PROVE Is(q + j - 1, ws[j])'
  <2> DEFINE x == q + j - 1
             w == ws[j]
  <2>1. Is(x, w)
    BY <1>1
  <2> HIDE DEF x, w
  <2>2. Is(x, w)'
    BY <2>1, WordsStay
  <2> QED BY <2>2 DEF x, w
<1> QED BY <1>1, <1>2 DEF Spelled

LEMMA OperandRemains ==
  ASSUME input' = input, NEW ns, NEW t, NEW i, IsOperand(ns, t, i)
  PROVE  IsOperand(ns, t, i)'
<1> DEFINE b == Behind(ns, t, i - 1)
           e == Kid(ns, t, i).from
           ws == Lead(t, i)
<1>1. Spelled(b, e, ws)
  BY DEF IsOperand
<1>2. Spelled(b, e, ws)'
  <2> HIDE DEF b, e, ws
  <2> QED BY <1>1, SpelledRemains
<1> QED BY <1>2 DEF IsOperand

LEMMA FormRemains ==
  ASSUME input' = input, NEW ns, NEW t, IsForm(ns, t)
  PROVE  IsForm(ns, t)'
<1> DEFINE b == Behind(ns, t, Len(t.kids))
           e == t.to
           ws == Close(t)
<1>1. Spelled(b, e, ws)
  BY DEF IsForm
<1>2. Spelled(b, e, ws)'
  <2> HIDE DEF b, e, ws
  <2> QED BY <1>1, SpelledRemains
<1>3. \A i \in 1 .. Len(t.kids) : IsOperand(ns, t, i)'
  BY OperandRemains DEF IsForm
<1> QED BY <1>2, <1>3 DEF IsForm

LEMMA LeafRemains ==
  ASSUME input' = input, NEW t, IsLeaf(t)
  PROVE  IsLeaf(t)'
BY DEF IsLeaf, Is, IsType

LEMMA RuleRemains ==
  ASSUME input' = input, NEW ns, NEW n, Rule(ns, n)
  PROVE  Rule(ns, n)'
BY LeafRemains, FormRemains DEF Rule

LEMMA DerivationStays ==
  ASSUME input' = input, NEW ns, NEW low, NEW p, Derivation(ns, low, p), Lexed
  PROVE  Derivation(ns, low, p)' /\ Lexed'
<1>1. \A n \in 1 .. Len(ns) : Rule(ns, n)'
  BY RuleRemains DEF Derivation
<1>2. Derivation(ns, low, p)'
  BY <1>1 DEF Derivation
<1> QED BY <1>2 DEF Lexed

LEMMA WayStays ==
  ASSUME UNCHANGED parsing, NEW ns, NEW low, OnTheWay(ns, low)
  PROVE  OnTheWay(ns, low)'
<1>1. UNCHANGED <<input, at, min, start, lhs, frames, nodes, outcome>>
  BY DEF parsing
<1> PICK goal, aim : Follows(ns, low, goal, aim)
  BY DEF OnTheWay
<1>2. ASSUME NEW i \in 1 .. Len(frames) + 1, NEW m, m = MinOf(i)' PROVE goal[i] \in 1 .. Len(ns) /\ Fits(ns, goal[i], m)'
  <2>1. m = MinOf(i)
    BY <1>1, <1>2 DEF MinOf
  <2> PICK g : g = goal[i]
    OBVIOUS
  <2>2. g \in 1 .. Len(ns) /\ Fits(ns, g, m)
    BY <2>1 DEF Follows
  <2>3. Fits(ns, g, m)'
    BY <1>1, <2>2, FitsStays
  <2> QED BY <2>2, <2>3
<1>3. \A i \in 1 .. Len(frames) + 1 : goal[i] \in 1 .. Len(ns)
  BY DEF Follows
<1>4. Prefixed(ns)'
  BY <1>1 DEF Follows, Prefixed
<1>5. Follows(ns, low, goal, aim)'
  BY <1>1, <1>2, <1>3, <1>4 DEF Follows
<1>6. outcome' = "none"
  BY <1>1 DEF OnTheWay
<1> QED BY <1>5, <1>6 DEF OnTheWay

LEMMA ReachedStays ==
  ASSUME ParseInv, Lexed, NEW ns, NEW low, NEW p, Derivation(ns, low, p), Reached(ns, low, p), [ParseStep]_parsing
  PROVE  Reached(ns, low, p)'
<1>1. CASE UNCHANGED parsing
  <2>1. UNCHANGED <<at, nodes, outcome>>
    BY <1>1 DEF parsing
  <2> QED BY <1>1, <2>1, WayStays DEF Reached
<1>2. CASE Return
  <2>1. nodes = ns /\ at = p
    BY <1>2, ReturnFollows DEF Reached, Return, Left, Looping
  <2>2. outcome' = "tree" /\ nodes' = nodes /\ at' = at
    BY <1>2 DEF Return
  <2> QED BY <2>1, <2>2 DEF Reached
<1>3. CASE ParseStep /\ ~ Return
  <2>1. OnTheWay(ns, low)
    BY <1>3, InputStays DEF Reached
  <2>2. OnTheWay(ns, low)'
    BY <1>3, <2>1, PrefixFollows, SizeofFollows, GroupFollows, CastFollows, AtomFollows, NoOperandNever, PostfixFollows, ArgumentsFollows,
       SubscriptFollows, FieldFollows, AssignFollows, TernaryFollows, BinaryFollows, EndLastFollows, EndClosedFollows,
       NextArgumentFollows, OtherwiseFollows DEF ParseStep
  <2>3. outcome' = "none"
    BY <2>2 DEF OnTheWay
  <2> QED BY <2>2, <2>3 DEF Reached
<1> QED BY <1>1, <1>2, <1>3

LEMMA ReachedFirst ==
  ASSUME ParseInit, NEW ns, NEW low, NEW p, Derivation(ns, low, p), Power(WordAt(p)) = 0
  PROVE  Reached(ns, low, p)
<1> DEFINE g == Len(ns)
<1>1. /\ frames = <<>> /\ nodes = <<>> /\ outcome = "none" /\ min = 0 /\ start = 1 /\ lhs = 0
  BY DEF ParseInit, Begun
<1>2. g \in 1 .. Len(ns) /\ g \in Nat
  <2>1. Len(ns) \in Nat /\ Len(ns) # 0
    BY LenProperties, EmptySeq DEF Derivation
  <2> QED BY <2>1, SMT
<1>3. ns[g].from = 1 /\ ns[g].to = p /\ ns[g].fix # "type" /\ low[g] = 1
  BY DEF Derivation
<1> HIDE DEF g
<1>4. Fits(ns, g, 0)
  <2>1. Level(ns[g]) \in 2 .. 40 /\ HasBound(Level(ns[g]), Bound(ns[g]))
    BY <1>2, NodeLevel, NodeBound
  <2> PICK e, b, u : e = Level(ns[g]) /\ b = Bound(ns[g]) /\ u = Power(WordAt(p))
    OBVIOUS
  <2>2. e >= 0
    <3>1. e \in 2 .. 40
      BY <2>1
    <3> QED BY <3>1, SMT
  <2>3. u <= b
    <3>1. HasBound(e, b) /\ OfPowers(u) /\ u = 0
      BY <2>1, PowerIs
    <3> QED BY <3>1, Covers
  <2> QED BY <1>3, <2>2, <2>3 DEF Fits, Tight
<1>5. Len(frames) = 0 /\ Len(nodes) = 0 /\ Len(frames) + 1 = 1
  <2>1. Len(frames) = 0 /\ Len(nodes) = 0
    BY <1>1
  <2> QED BY <2>1, SMT
<1> DEFINE goal == [i \in {1} |-> g]
           aim == [i \in {} |-> g]
<1>6. Follows(ns, low, goal, aim)
  <2>1. Prefixed(ns)
    <3>1. Len(ns) \in Nat /\ \A n \in 1 .. 0 : FALSE
      BY LenProperties, SMT DEF Derivation
    <3>2. 0 <= Len(ns)
      BY <3>1, SMT
    <3> QED BY <1>5, <3>1, <3>2 DEF Prefixed
  <2>2. goal[1] = g /\ g = Len(ns)
    BY DEF g
  <2>3. ASSUME NEW i \in 1 .. 1, NEW m, m = MinOf(i) PROVE goal[i] \in 1 .. Len(ns) /\ Fits(ns, goal[i], m)
    <3>1. i = 1 /\ 1 > 0
      BY SMT
    <3>2. m = 0
      BY <1>1, <1>5, <2>3, <3>1 DEF MinOf
    <3> QED BY <1>2, <1>4, <2>2, <3>1, <3>2
  <2>4. \A i \in 1 .. 0 : FALSE
    BY SMT
  <2>5. low[g] = Len(nodes) + 1 /\ ns[g].from = start
    BY <1>1, <1>3, <1>5, SMT
  <2> HIDE DEF goal, aim
  <2> QED BY <1>1, <1>5, <2>1, <2>2, <2>3, <2>4, <2>5 DEF Follows
<1> QED BY <1>1, <1>6 DEF Reached, OnTheWay

\* parser.rs, parse_pratt and parse_prefix: an expression that the grammar with levels derives
\* from the first tokens, if the word behind it binds nothing, is what the parser makes of them.
\* It is never refused and never read in another way, whatever its length and depth: a text that
\* the parser has read has that derivation and no other.
THEOREM DerivationsAreFound ==
  ASSUME NEW ns, NEW low, NEW p
  PROVE  ParseSpec /\ Lexed /\ Derivation(ns, low, p) /\ Power(WordAt(p)) = 0
           => [](outcome \in {"none", "tree"} /\ (outcome = "tree" => nodes = ns /\ at = p))
<1> DEFINE D == Lexed /\ Derivation(ns, low, p)
           R == Reached(ns, low, p)
           Q == outcome \in {"none", "tree"} /\ (outcome = "tree" => nodes = ns /\ at = p)
<1>1. ParseInit /\ D /\ Power(WordAt(p)) = 0 => ParseInv /\ R
  BY ParseStart, ReachedFirst
<1>2. ParseInv /\ D /\ R /\ [ParseStep]_parsing => (ParseInv /\ D /\ R)'
  <2> SUFFICES ASSUME ParseInv, D, R, [ParseStep]_parsing PROVE (ParseInv /\ D /\ R)'
    OBVIOUS
  <2>1. input' = input
    BY InputStays DEF parsing
  <2>2. D'
    BY <2>1, DerivationStays
  <2>3. R'
    BY ReachedStays
  <2> QED BY <2>2, <2>3, ParseKeeps
<1>3. R => Q
  BY DEF Reached
<1> HIDE DEF D, R, Q
<1>4. ParseSpec /\ D /\ Power(WordAt(p)) = 0 => []Q
  BY <1>1, <1>2, <1>3, PTL DEF ParseSpec
<1> QED BY <1>4 DEF D, Q
=============================================================================
