------------------------------ MODULE InterpProofs ------------------------------
(***************************************************************************)
(* For every call limit and every program: the call depth is the number of *)
(* calls in progress, the scopes are those of the open frames, a scope is  *)
(* left behind by nothing but a failed for header, and a signal ends at    *)
(* the frame it is for.                                                    *)
(*                                                                         *)
(* The interpreter has many actions and few ways to move its stack.  Each  *)
(* action is first shown to be one of the moves below; every property is   *)
(* then proved once for each move.                                         *)
(***************************************************************************)
EXTENDS Interp, TLAPS, FiniteSetTheorems, SequenceTheorems, WellFoundedInduction

\* The places a frame of the kind can be at, as far as the proofs tell them apart.
Fits(kind, at) ==
  /\ kind = "module" => at \in {"globals", "main", "done"}
  /\ kind \in {"call", "block"} => at = "body"

\* The module is the first frame and no other; it runs nothing but calls.
Shaped ==
  /\ \A i \in DOMAIN stack :
       /\ (stack[i].kind = "module") <=> (i = 1)
       /\ Fits(stack[i].kind, stack[i].at)
  /\ Len(stack) >= 2 => stack[2].kind = "call"

\* The frame a signal is for: the innermost that catches it.
Catcher(s, sig, c) ==
  /\ c \in DOMAIN s /\ s[c].kind \in Catchers(sig)
  /\ \A j \in DOMAIN s : s[j].kind \in Catchers(sig) => j <= c

\* How long the stack is when the frame at c has dealt with the signal.
LengthAfter(s, sig, c) == IF sig = "continue" /\ s[c].kind # "call" THEN c ELSE c - 1

\* A signal on its way out has a frame it is for, and due says where that ends.
Aimed ==
  signal # "none" =>
    \E c \in DOMAIN stack : Catcher(stack, signal, c) /\ due = LengthAfter(stack, signal, c)

\* The inductive invariant.  Shaped gives every signal a frame it is for (Aimed) and
\* every frame but the module one to go back to; DepthCounts keeps the depth of TypeOK
\* from falling below 0, and ScopesSuffice gives every PopScope a scope to pop.
IInv ==
  /\ TypeOK /\ Shaped /\ Aimed
  /\ DepthCounts /\ ScopesSuffice /\ ScopesNested
-----------------------------------------------------------------------------
(* The moves.                                                              *)

\* t has the frames of s, which may be at another place.
Alike(s, t) ==
  /\ t \in Seq(Frames) /\ Len(t) = Len(s)
  /\ \A i \in 1 .. Len(s) :
       /\ t[i].kind = s[i].kind /\ t[i].below = s[i].below
       /\ Fits(t[i].kind, t[i].at)

\* Nothing is done to the scopes but to define names in the last.
OnlyLast ==
  /\ scopes' \in Seq(SUBSET Names) /\ Len(scopes') = Len(scopes)
  /\ \A k \in 1 .. Len(scopes) : k # Len(scopes) => scopes'[k] = scopes[k]

Stay == stack # <<>> /\ Alike(stack, stack') /\ OnlyLast /\ depth' = depth

Nest ==
  /\ \E f \in Frames :
       /\ f.kind \notin Scoped \cup {"module"} /\ Len(stack) >= 2
       /\ stack' = Append(stack, f)
  /\ UNCHANGED <<scopes, depth>>

Open ==
  /\ signal = "none" /\ signal' = "none"
  /\ \E f \in Frames, names \in SUBSET Names :
       /\ f.kind \in Scoped /\ f.below = scopes /\ Fits(f.kind, f.at)
       /\ stack # <<>> /\ (Len(stack) = 1 => f.kind = "call")
       /\ stack' = Append(stack, f) /\ scopes' = Append(scopes, names)
       /\ f.kind = "call" => depth < MaxDepth
       /\ depth' = IF f.kind = "call" THEN depth + 1 ELSE depth

\* The top frame ends, with or without the signal.
Leave ==
  /\ Len(stack) >= 2 /\ Top.kind \notin Scoped
  /\ Alike(Pop(stack), stack')
  /\ OnlyLast /\ depth' = depth

Close ==
  /\ Len(stack) >= 2 /\ Top.kind \in Scoped
  /\ Alike(Pop(stack), stack')
  /\ scopes' = Pop(scopes)
  /\ depth' = IF Top.kind = "call" THEN depth - 1 ELSE depth

\* The moves within a module that keep scopes and frames in step.
Inner == Stay \/ Nest \/ Open \/ Leave \/ Close

\* The failed header of a for.
Abandon ==
  /\ Len(stack) >= 2 /\ Top.kind = "for" /\ Top.at # "body"
  /\ signal = "error" /\ signal' = "error"
  /\ stack' = Pop(stack)
  /\ UNCHANGED <<scopes, depth>>

Enter ==
  /\ stack = <<>> /\ signal' = signal
  /\ stack' = <<Frame("module", "globals", scopes)>>
  /\ UNCHANGED <<scopes, depth>>

Quit ==
  /\ Len(stack) = 1 /\ stack' = <<>>
  /\ UNCHANGED <<scopes, depth>>

Renew == stack = <<>> /\ stack' = <<>> /\ scopes' = <<{}>> /\ depth' = 0

\* And of the signal.
Quiet == (signal = "none" \/ stack = <<>>) /\ UNCHANGED <<signal, due>>

Raised ==
  /\ signal = "none" /\ stack' = stack
  /\ \E sig \in Signals :
       Raise(sig) /\ \E i \in DOMAIN stack : stack[i].kind \in Catchers(sig)

Passed ==
  /\ signal # "none" /\ stack # <<>> /\ Top.kind \notin Catchers(signal)
  /\ stack' = Pop(stack) /\ UNCHANGED <<signal, due>>

Landed ==
  /\ signal # "none" /\ stack # <<>> /\ Top.kind \in Catchers(signal)
  /\ Len(stack') = LengthAfter(stack, signal, Len(stack)) /\ Land

Move ==
  /\ Inner \/ Abandon \/ Enter \/ Quit \/ Renew
  /\ Quiet \/ Raised \/ Passed \/ Landed
  /\ hasMain' \in BOOLEAN
-----------------------------------------------------------------------------
(* Frames, and what the operators on the stack do.                         *)

LEMMA FrameType ==
  ASSUME NEW kind \in Kinds, NEW at \in Places, NEW below \in Seq(SUBSET Names)
  PROVE  /\ Frame(kind, at, below) \in Frames
         /\ Frame(kind, at, below).kind = kind
         /\ Frame(kind, at, below).at = at
         /\ Frame(kind, at, below).below = below
BY DEF Frame, Frames

LEMMA PlainFrameType ==
  ASSUME NEW kind \in Kinds, NEW at \in Places
  PROVE  Frame(kind, at, <<>>) \in Frames /\ Frame(kind, at, <<>>).kind = kind
<1>1. <<>> \in Seq(SUBSET Names)
  BY EmptySeq
<1> QED
  BY <1>1 DEF Frame, Frames

LEMMA FrameParts ==
  ASSUME NEW f \in Frames
  PROVE  f.kind \in Kinds /\ f.at \in Places /\ f.below \in Seq(SUBSET Names)
BY DEF Frames

LEMMA PopFacts ==
  ASSUME NEW S, NEW s \in Seq(S), Len(s) >= 1
  PROVE  /\ Pop(s) \in Seq(S) /\ Len(Pop(s)) = Len(s) - 1
         /\ \A i \in 1 .. Len(s) - 1 : Pop(s)[i] = s[i]
<1> DEFINE n == Len(s) - 1
<1>1. n \in Nat /\ 1 \in Int /\ n \in Int
  BY LenProperties
<1>2. \A i \in 1 .. n : s[i] \in S
  BY <1>1, ElementOfSeq, LenProperties
<1> HIDE DEF n
<1>3. /\ SubSeq(s, 1, n) \in Seq(S)
      /\ Len(SubSeq(s, 1, n)) = IF 1 <= n THEN n - 1 + 1 ELSE 0
      /\ \A i \in 1 .. n - 1 + 1 : SubSeq(s, 1, n)[i] = s[1 + i - 1]
  BY <1>1, <1>2, SubSeqProperties
<1>4. \A i \in 1 .. n : SubSeq(s, 1, n)[i] = s[i]
  <2> TAKE i \in 1 .. n
  <2>1. i \in 1 .. n - 1 + 1 /\ 1 + i - 1 = i
    BY <1>1
  <2> QED
    BY <1>3, <2>1
<1>5. Len(SubSeq(s, 1, n)) = n
  BY <1>1, <1>3
<1> QED
  BY <1>3, <1>4, <1>5 DEF Pop, n

\* A frame may be put at another place; that of the module is one of its own.
LEMMA MoveToAlike ==
  ASSUME NEW s \in Seq(Frames), NEW at \in Places, Len(s) >= 1,
         Fits(s[Len(s)].kind, at),
         \A i \in DOMAIN s : Fits(s[i].kind, s[i].at)
  PROVE  Alike(s, MoveTo(s, at))
<1> DEFINE n == Len(s)
           e == [s[n] EXCEPT !.at = at]
<1>1. n \in 1 .. Len(s) /\ DOMAIN s = 1 .. Len(s)
  BY LenProperties
<1>2. s[n] \in Frames
  BY <1>1, ElementOfSeq
<1>3. e \in Frames /\ e.kind = s[n].kind /\ e.below = s[n].below /\ e.at = at
  BY <1>2 DEF Frames
<1>4. MoveTo(s, at) = [s EXCEPT ![n] = e]
  BY DEF MoveTo
<1> HIDE DEF n, e
<1>5. /\ [s EXCEPT ![n] = e] \in Seq(Frames)
      /\ Len([s EXCEPT ![n] = e]) = Len(s)
      /\ \A j \in 1 .. Len(s) : [s EXCEPT ![n] = e][j] = IF j = n THEN e ELSE s[j]
  BY <1>1, <1>3, ExceptSeq
<1>6. n = Len(s)
  BY DEF n
<1> QED
  BY <1>1, <1>3, <1>4, <1>5, <1>6 DEF Alike

LEMMA AlikeSelf ==
  ASSUME NEW s \in Seq(Frames),
         \A i \in DOMAIN s : Fits(s[i].kind, s[i].at)
  PROVE  Alike(s, s)
BY LenProperties DEF Alike

LEMMA OnwardPlace ==
  ASSUME NEW f \in Frames
  PROVE  /\ Onward(f) \in Places
         /\ Fits(f.kind, f.at) => Fits(f.kind, Onward(f))
BY FrameParts DEF Onward, Places, Fits, Evaluating, Hosting

\* What the actions on a running or unwinding frame have in common.
LEMMA TopFacts ==
  ASSUME TypeOK, Shaped, stack # <<>>
  PROVE  /\ Len(stack) \in Nat /\ Len(stack) >= 1 /\ DOMAIN stack = 1 .. Len(stack)
         /\ Len(stack) \in DOMAIN stack
         /\ Top \in Frames /\ Top.kind \in Kinds /\ Top.at \in Places
         /\ (Top.kind = "module") <=> (Len(stack) = 1)
         /\ Fits(Top.kind, Top.at)
         /\ Alike(stack, stack)
<1>1. stack \in Seq(Frames)
  BY DEF TypeOK
<1>2. Len(stack) \in Nat /\ Len(stack) >= 1 /\ DOMAIN stack = 1 .. Len(stack)
  BY <1>1, LenProperties, EmptySeq
<1>3. Len(stack) \in DOMAIN stack
  BY <1>2
<1>4. Top \in Frames
  BY <1>1, <1>2, <1>3, ElementOfSeq DEF Top
<1>5. Top.kind \in Kinds /\ Top.at \in Places
  BY <1>4, FrameParts
<1>6. Alike(stack, stack)
  BY <1>1, AlikeSelf DEF Shaped
<1> QED
  BY <1>2, <1>3, <1>4, <1>5, <1>6 DEF Shaped, Top

LEMMA TopMoves ==
  ASSUME TypeOK, Shaped, stack # <<>>, NEW at \in Places,
         Fits(Top.kind, at)
  PROVE  Alike(stack, MoveTo(stack, at)) /\ Len(MoveTo(stack, at)) = Len(stack)
<1>1. stack \in Seq(Frames)
  BY DEF TypeOK
<1>2. Alike(stack, MoveTo(stack, at))
  BY <1>1, TopFacts, MoveToAlike DEF Shaped, Top
<1> QED
  BY <1>2 DEF Alike

LEMMA TopPops ==
  ASSUME TypeOK, Shaped, Len(stack) >= 2
  PROVE  /\ Alike(Pop(stack), Pop(stack)) /\ Alike(Pop(stack), Completed)
         /\ Len(Pop(stack)) = Len(stack) - 1 /\ Len(Completed) = Len(stack) - 1
<1> DEFINE s == Pop(stack)
<1>1. stack \in Seq(Frames) /\ Len(stack) \in Nat /\ Len(stack) >= 1
  BY LenProperties DEF TypeOK
<1>2. /\ s \in Seq(Frames) /\ Len(s) = Len(stack) - 1 /\ Len(s) >= 1
      /\ \A i \in 1 .. Len(stack) - 1 : s[i] = stack[i]
  BY <1>1, PopFacts
<1>3. DOMAIN s = 1 .. Len(stack) - 1 /\ DOMAIN stack = 1 .. Len(stack)
  BY <1>1, <1>2, LenProperties
<1>4. \A i \in DOMAIN s : i \in DOMAIN stack
  BY <1>1, <1>3
<1>5. \A i \in DOMAIN s : Fits(s[i].kind, s[i].at)
  BY <1>2, <1>3, <1>4 DEF Shaped
<1> HIDE DEF s
<1>6. s[Len(s)] \in Frames /\ Len(s) \in DOMAIN s
  BY <1>1, <1>2, <1>3, ElementOfSeq
<1>7. /\ Onward(s[Len(s)]) \in Places
      /\ Fits(s[Len(s)].kind, Onward(s[Len(s)]))
  BY <1>5, <1>6, OnwardPlace
<1>8. Alike(s, MoveTo(s, Onward(s[Len(s)])))
  BY <1>2, <1>5, <1>7, MoveToAlike
<1>9. Alike(s, s)
  BY <1>2, <1>5, AlikeSelf
<1> QED
  BY <1>2, <1>8, <1>9 DEF Completed, s, Alike

\* The names a scope gains are in the last.
LEMMA DefineOnlyLast ==
  ASSUME scopes \in Seq(SUBSET Names), Len(scopes) >= 1, NEW x \in Names, Define(x)
  PROVE  OnlyLast
<1> DEFINE n == Len(scopes)
           e == scopes[n] \cup {x}
<1>1. n \in 1 .. Len(scopes)
  BY LenProperties
<1>2. e \in SUBSET Names
  BY <1>1, ElementOfSeq
<1>3. scopes' = [scopes EXCEPT ![n] = e]
  BY DEF Define
<1> HIDE DEF n, e
<1>4. /\ [scopes EXCEPT ![n] = e] \in Seq(SUBSET Names)
      /\ Len([scopes EXCEPT ![n] = e]) = Len(scopes)
      /\ \A j \in 1 .. Len(scopes) : [scopes EXCEPT ![n] = e][j] = IF j = n THEN e ELSE scopes[j]
  BY <1>1, <1>2, ExceptSeq
<1> QED
  BY <1>3, <1>4 DEF OnlyLast, n

LEMMA KeepOnlyLast ==
  ASSUME scopes \in Seq(SUBSET Names), UNCHANGED scopes
  PROVE  OnlyLast
BY DEF OnlyLast
-----------------------------------------------------------------------------
(* The frame a signal is for.                                              *)

LEMMA GreatestIndex ==
  ASSUME NEW n \in Nat, NEW T \in SUBSET (1 .. n), T # {}
  PROVE  \E c \in T : \A j \in T : j <= c
<1> DEFINE U == {n - i : i \in T}
<1>1. U \subseteq Nat /\ U # {}
  <2>1. \A i \in T : n - i \in Nat
    <3> TAKE i \in T
    <3>1. i \in 1 .. n
      OBVIOUS
    <3> QED
      BY <3>1
  <2>2. PICK i \in T : TRUE
    OBVIOUS
  <2>3. n - i \in U
    OBVIOUS
  <2>4. \A v \in U : v \in Nat
    BY <2>1
  <2> HIDE DEF U
  <2> QED
    BY <2>3, <2>4
<1>2. PICK u \in U : \A v \in U : ~ (<<v, u>> \in OpToRel(<, Nat))
  <2> HIDE DEF U
  <2> QED
    BY <1>1, NatLessThanWellFounded, WFMin
<1>3. \A v \in U : ~ (v < u)
  <2> SUFFICES ASSUME NEW v \in U, v < u PROVE FALSE
    OBVIOUS
  <2>1. <<v, u>> \in Nat \X Nat
    BY <1>1
  <2>2. <<v, u>>[1] < <<v, u>>[2]
    OBVIOUS
  <2> HIDE DEF U
  <2>3. <<v, u>> \in OpToRel(<, Nat)
    BY <2>1, <2>2 DEF OpToRel
  <2> QED
    BY <1>2, <2>3
<1>4. PICK c \in T : u = n - c
  BY <1>2
<1>5. \A j \in T : j <= c
  BY <1>3, <1>4
<1> QED
  BY <1>4, <1>5

LEMMA CatcherExists ==
  ASSUME NEW s \in Seq(Frames), NEW sig, \E i \in DOMAIN s : s[i].kind \in Catchers(sig)
  PROVE  \E c \in DOMAIN s : Catcher(s, sig, c)
<1> DEFINE T == {i \in DOMAIN s : s[i].kind \in Catchers(sig)}
<1>1. T \in SUBSET (1 .. Len(s)) /\ T # {} /\ Len(s) \in Nat
  BY LenProperties
<1>2. PICK c \in T : \A j \in T : j <= c
  <2> HIDE DEF T
  <2> QED
    BY <1>1, GreatestIndex
<1> QED
  BY <1>2 DEF Catcher

\* Landing is what its CHOOSE is meant to find.
LEMMA LandingIs ==
  ASSUME NEW s \in Seq(Frames), NEW sig, NEW c \in DOMAIN s, Catcher(s, sig, c)
  PROVE  Landing(s, sig) = LengthAfter(s, sig, c)
<1> DEFINE P(i) == /\ s[i].kind \in Catchers(sig)
                   /\ \A j \in DOMAIN s : s[j].kind \in Catchers(sig) => j <= i
           d == CHOOSE i \in DOMAIN s : P(i)
<1>1. P(c)
  BY DEF Catcher
<1>2. d \in DOMAIN s /\ P(d)
  BY <1>1
<1>3. d <= c /\ c <= d
  BY <1>1, <1>2
<1>4. d = c
  <2>1. c \in Int /\ d \in Int
    BY <1>2, LenProperties
  <2> QED
    BY <1>3, <2>1
<1> HIDE DEF d
<1>5. Landing(s, sig) = IF sig = "continue" /\ s[d].kind # "call" THEN d ELSE d - 1
  BY DEF Landing, d
<1> QED
  BY <1>4, <1>5 DEF LengthAfter

\* Within a call every signal has a frame it is for.
LEMMA EverySignalCaught ==
  ASSUME TypeOK, Shaped, stack # <<>>, NEW sig \in Signals,
         sig = "error" \/ Len(stack) >= 2
  PROVE  \E i \in DOMAIN stack : stack[i].kind \in Catchers(sig)
<1>1. CASE sig = "error"
  BY <1>1, TopFacts DEF Shaped, Catchers
<1>2. CASE sig # "error"
  <2>1. 2 \in DOMAIN stack /\ stack[2].kind = "call"
    BY <1>2, TopFacts DEF Shaped
  <2> QED
    BY <1>2, <2>1 DEF Catchers, Signals
<1> QED
  BY <1>1, <1>2
-----------------------------------------------------------------------------
(* Counting frames.                                                        *)

\* The frames at i and above whose kind is in K.
Those(s, K, i) == {j \in DOMAIN s : s[j].kind \in K /\ j >= i}
Count(s, K, i) == Cardinality(Those(s, K, i))

LEMMA CountType ==
  ASSUME NEW s \in Seq(Frames), NEW K, NEW i \in Nat
  PROVE  IsFiniteSet(Those(s, K, i)) /\ Count(s, K, i) \in Nat
<1>1. Those(s, K, i) \in SUBSET (1 .. Len(s)) /\ Len(s) \in Nat
  BY LenProperties DEF Those
<1>2. IsFiniteSet(1 .. Len(s))
  BY <1>1, FS_Interval
<1> QED
  BY <1>1, <1>2, FS_Subset, FS_CardinalityType DEF Count

LEMMA CountAlike ==
  ASSUME NEW s \in Seq(Frames), NEW t, Alike(s, t), NEW K, NEW i \in Nat
  PROVE  Count(t, K, i) = Count(s, K, i)
<1>1. DOMAIN s = 1 .. Len(s) /\ DOMAIN t = 1 .. Len(s)
  BY LenProperties DEF Alike
<1>2. Those(t, K, i) = Those(s, K, i)
  BY <1>1 DEF Alike, Those
<1> QED
  BY <1>2 DEF Count

LEMMA CountEmpty ==
  ASSUME NEW K, NEW i \in Nat
  PROVE  Count(<<>>, K, i) = 0
<1>1. Those(<<>>, K, i) = {}
  BY DEF Those
<1> QED
  BY <1>1, FS_EmptySet DEF Count

LEMMA CountAppend ==
  ASSUME NEW s \in Seq(Frames), NEW f \in Frames, NEW K, NEW i \in Nat
  PROVE  Count(Append(s, f), K, i) =
           Count(s, K, i) + IF f.kind \in K /\ i <= Len(s) + 1 THEN 1 ELSE 0
<1> DEFINE n == Len(s) + 1
           t == Append(s, f)
<1>1. /\ t \in Seq(Frames) /\ Len(t) = n /\ t[n] = f
      /\ \A j \in 1 .. Len(s) : t[j] = s[j]
  BY AppendProperties
<1>2. DOMAIN s = 1 .. Len(s) /\ DOMAIN t = 1 .. n /\ Len(s) \in Nat
  BY <1>1, LenProperties
<1>3. IsFiniteSet(Those(s, K, i)) /\ Count(s, K, i) \in Nat
  BY CountType
<1>4. n \notin Those(s, K, i)
  BY <1>2 DEF Those
<1>5. 1 .. n = (1 .. Len(s)) \cup {n}
  BY <1>2
<1> HIDE DEF t
<1>6. CASE f.kind \in K /\ i <= n
  <2>1. Those(t, K, i) = Those(s, K, i) \cup {n}
    BY <1>1, <1>2, <1>5, <1>6 DEF Those
  <2>2. Count(t, K, i) = Count(s, K, i) + 1
    <3> HIDE DEF n
    <3> QED
      BY <1>3, <1>4, <2>1, FS_AddElement DEF Count
  <2> QED
    BY <1>6, <2>2 DEF t
<1>7. CASE ~ (f.kind \in K /\ i <= n)
  <2>1. Those(t, K, i) = Those(s, K, i)
    BY <1>1, <1>2, <1>5, <1>7 DEF Those
  <2>2. Count(t, K, i) = Count(s, K, i) + 0
    BY <1>3, <2>1 DEF Count
  <2> QED
    BY <1>7, <2>2 DEF t
<1> QED
  BY <1>6, <1>7

LEMMA CountPop ==
  ASSUME NEW s \in Seq(Frames), Len(s) >= 1, NEW K, NEW i \in Nat
  PROVE  Count(s, K, i) =
           Count(Pop(s), K, i) + IF s[Len(s)].kind \in K /\ i <= Len(s) THEN 1 ELSE 0
<1> DEFINE n == Len(s)
           t == Pop(s)
<1>1. /\ t \in Seq(Frames) /\ Len(t) = n - 1
      /\ \A j \in 1 .. n - 1 : t[j] = s[j]
  BY PopFacts
<1>2. DOMAIN s = 1 .. n /\ DOMAIN t = 1 .. n - 1 /\ n \in Nat
  BY <1>1, LenProperties
<1>3. IsFiniteSet(Those(t, K, i)) /\ Count(t, K, i) \in Nat
  BY <1>1, CountType
<1>4. n \notin Those(t, K, i)
  BY <1>2 DEF Those
<1>5. 1 .. n = (1 .. n - 1) \cup {n}
  BY <1>2
<1> HIDE DEF t
<1>6. CASE s[n].kind \in K /\ i <= n
  <2>1. Those(s, K, i) = Those(t, K, i) \cup {n}
    BY <1>1, <1>2, <1>5, <1>6 DEF Those
  <2>2. Count(s, K, i) = Count(t, K, i) + 1
    <3> HIDE DEF n
    <3> QED
      BY <1>3, <1>4, <2>1, FS_AddElement DEF Count
  <2> QED
    BY <1>6, <2>2 DEF t
<1>7. CASE ~ (s[n].kind \in K /\ i <= n)
  <2>1. Those(s, K, i) = Those(t, K, i)
    BY <1>1, <1>2, <1>5, <1>7 DEF Those
  <2>2. Count(s, K, i) = Count(t, K, i) + 0
    BY <1>3, <2>1 DEF Count
  <2> QED
    BY <1>7, <2>2 DEF t
<1> QED
  BY <1>6, <1>7

\* The counts of the properties are these.
LEMMA CountsAre ==
  ASSUME stack \in Seq(Frames)
  PROVE  /\ Cardinality(Calls) = Count(stack, {"call"}, 1)
         /\ Cardinality(Openers) = Count(stack, Scoped, 1)
         /\ \A i : Cardinality({j \in Openers : j >= i}) = Count(stack, Scoped, i)
<1>1. DOMAIN stack = 1 .. Len(stack) /\ Len(stack) \in Nat
  BY LenProperties
<1>2. Calls = Those(stack, {"call"}, 1) /\ Openers = Those(stack, Scoped, 1)
  BY <1>1 DEF Calls, Openers, Those
<1>3. \A i : {j \in Openers : j >= i} = Those(stack, Scoped, i)
  BY DEF Openers, Those
<1> QED
  BY <1>2, <1>3 DEF Count

LEMMA NewCountsAre ==
  ASSUME stack' \in Seq(Frames)
  PROVE  /\ Cardinality(Calls') = Count(stack', {"call"}, 1)
         /\ Cardinality(Openers') = Count(stack', Scoped, 1)
         /\ \A i : Cardinality({j \in Openers' : j >= i}) = Count(stack', Scoped, i)
<1>1. DOMAIN stack' = 1 .. Len(stack') /\ Len(stack') \in Nat
  BY LenProperties
<1>2. Calls' = Those(stack', {"call"}, 1) /\ Openers' = Those(stack', Scoped, 1)
  BY <1>1 DEF Calls, Openers, Those
<1>3. \A i : {j \in Openers' : j >= i} = Those(stack', Scoped, i)
  BY DEF Openers, Those
<1> QED
  BY <1>2, <1>3 DEF Count
-----------------------------------------------------------------------------
(* Every action is a move.                                                 *)

LEMMA RaiseMoves ==
  ASSUME IInv, stack # <<>>, signal = "none", NEW sig \in Signals,
         sig = "error" \/ Len(stack) >= 2,
         Raise(sig), UNCHANGED <<stack, scopes, depth, hasMain>>
  PROVE  Move
<1>1. Raised
  BY EverySignalCaught DEF IInv, Raised
<1>2. Stay
  BY TopFacts, KeepOnlyLast DEF IInv, TypeOK, Stay
<1> QED
  BY <1>1, <1>2 DEF Inner, Move, IInv, TypeOK

\* A statement is run within a call.
LEMMA StatementInCall ==
  ASSUME IInv, AtStatement \/ Running("init") \/ Running("body")
  PROVE  stack # <<>> /\ signal = "none" /\ Len(stack) >= 2
<1>1. stack # <<>> /\ signal = "none" /\ Top.at \in Hosting \cup {"init"}
  BY DEF AtStatement, Running, Hosting
<1>2. Top.kind # "module"
  BY <1>1, TopFacts DEF IInv, Hosting, Fits
<1> QED
  BY <1>1, <1>2, TopFacts DEF IInv

\* An action that only moves the top frame to another place.
LEMMA PlaceMoves ==
  ASSUME IInv, stack # <<>>, signal = "none", NEW at \in Places,
         Fits(Top.kind, at), stack' = MoveTo(stack, at),
         UNCHANGED <<scopes, depth, signal, due>>, hasMain' \in BOOLEAN
  PROVE  Move
BY TopMoves, KeepOnlyLast DEF IInv, TypeOK, Stay, Quiet, Inner, Move

\* An action that completes a frame without a scope.
LEMMA CompletedMoves ==
  ASSUME IInv, Len(stack) >= 2, signal = "none", Top.kind \notin Scoped,
         stack' = Completed, OnlyLast,
         UNCHANGED <<depth, signal, hasMain, due>>
  PROVE  Move
BY TopPops DEF IInv, TypeOK, Leave, Quiet, Inner, Move

\* An action that completes a frame with a scope, other than a call.
LEMMA ScopedCompletedMoves ==
  ASSUME IInv, Len(stack) >= 2, signal = "none", Top.kind \in Scoped \ {"call"},
         stack' = Completed, PopScope,
         UNCHANGED <<depth, signal, hasMain, due>>
  PROVE  Move
BY TopPops DEF IInv, TypeOK, Close, Quiet, Inner, Move, PopScope

LEMMA ScopeLeft ==
  ASSUME IInv
  PROVE  scopes \in Seq(SUBSET Names) /\ Len(scopes) \in Nat /\ Len(scopes) >= 1
<1>1. IsFiniteSet(Openers) /\ Cardinality(Openers) \in Nat
  <2>1. Openers \in SUBSET (1 .. Len(stack)) /\ Len(stack) \in Nat
    BY LenProperties DEF IInv, TypeOK, Openers
  <2>2. IsFiniteSet(1 .. Len(stack))
    BY <2>1, FS_Interval
  <2> QED
    BY <2>1, <2>2, FS_Subset, FS_CardinalityType
<1> QED
  BY <1>1, LenProperties DEF IInv, TypeOK, ScopesSuffice
\* The top frame, when it is not the module, is in a call.
LEMMA NotModule ==
  ASSUME IInv, stack # <<>>, Top.kind # "module" \/ Top.at \notin {"globals", "main", "done"}
  PROVE  Len(stack) >= 2 /\ Len(stack) \in Nat /\ Top.kind # "module"
BY TopFacts DEF IInv, Fits

LEMMA RunningActionIsMove ==
  ASSUME IInv, Next, ~ Unwind
  PROVE  Move
<1> USE DEF IInv
<1>1. ASSUME NEW m \in BOOLEAN, StartModule(m) PROVE Move
  BY <1>1 DEF StartModule, TypeOK, Enter, Quiet, Inner, Move
<1>2. ASSUME NEW x \in Names, GlobalVar(x) \/ Assign(x) PROVE Move
  <2>1. OnlyLast
    BY <1>2, ScopeLeft, DefineOnlyLast DEF GlobalVar, Assign
  <2>2. stack # <<>> /\ signal = "none"
    BY <1>2 DEF GlobalVar, Assign, Running
  <2> QED
    BY <1>2, <2>1, <2>2, TopFacts DEF GlobalVar, Assign, TypeOK, Stay, Quiet, Inner, Move
<1>3. ASSUME NEW x \in Names, EndDecl(x) PROVE Move
  <2>1. OnlyLast
    BY <1>3, ScopeLeft, DefineOnlyLast DEF EndDecl
  <2>2. stack # <<>> /\ signal = "none" /\ Top.kind = "decl"
    BY <1>3 DEF EndDecl, Running
  <2> QED
    BY <1>3, <2>1, <2>2, NotModule, CompletedMoves DEF EndDecl, Scoped
<1>4. ASSUME GlobalsDone PROVE Move
  <2>1. stack # <<>> /\ signal = "none" /\ Top.at = "globals"
    BY <1>4 DEF GlobalsDone, Running
  <2>2. Top.kind \notin {"call", "block"}
    BY <2>1, TopFacts DEF Fits
  <2>3. \A at \in {"main", "done"} : at \in Places /\ Fits(Top.kind, at)
    BY <2>2 DEF Places, Fits
  <2>4. /\ \E at \in {"main", "done"} : stack' = MoveTo(stack, at)
        /\ UNCHANGED <<scopes, depth, signal, hasMain, due>>
    BY <1>4 DEF GlobalsDone
  <2> QED
    BY <2>1, <2>3, <2>4, PlaceMoves DEF TypeOK
<1>5. ASSUME EndModule PROVE Move
  <2>1. Len(stack) = 1
    BY <1>5, TopFacts DEF EndModule, Running
  <2> QED
    BY <1>5, <2>1 DEF EndModule, Running, Quit, Quiet, Inner, Move, TypeOK
<1>6. ASSUME Reset PROVE Move
  BY <1>6 DEF Reset, Renew, Quiet, Inner, Move
<1>7. ASSUME NEW params \in SUBSET Names, Call(params) PROVE Move
  <2> DEFINE f == Frame("call", "body", scopes)
  <2>1. f \in Frames /\ f.kind = "call" /\ f.below = scopes /\ Fits(f.kind, f.at)
    BY FrameType DEF TypeOK, Kinds, Places, Hosting, Fits
  <2> HIDE DEF f
  <2>2. stack # <<>> /\ signal = "none"
    BY <1>7 DEF Call, Calling, Running
  <2>3. stack' = Append(stack, f) /\ scopes' = Append(scopes, params) /\ depth' = depth + 1
    BY <1>7 DEF Call, Push, PushScope, f
  <2> QED
    BY <1>7, <2>1, <2>2, <2>3 DEF Call, Open, Scoped, Quiet, Inner, Move, TypeOK
<1>8. ASSUME CallTooDeep \/ Fail PROVE Move
  BY <1>8, RaiseMoves DEF CallTooDeep, Fail, Calling, Running, Signals
<1>9. ASSUME EndCall PROVE Move
  <2>1. Len(stack) >= 2
    BY <1>9, NotModule DEF EndCall, Running
  <2> QED
    BY <1>9, <2>1, TopPops DEF EndCall, Running, PopScope, Scoped, Close, Quiet, Inner, Move, TypeOK
<1>10. ASSUME NEW kind \in {"expr", "decl", "return", "switch", "if", "while", "do"},
              Begin(kind)
       PROVE  Move
  <2> DEFINE at == CASE kind \in {"expr", "decl", "return", "switch"} -> "value"
                     [] kind \in {"if", "while"}                      -> "cond"
                     [] kind = "do"                                   -> "body"
             f  == Frame(kind, at, <<>>)
  <2>1. at \in Places /\ kind \in Kinds /\ kind \notin Scoped \cup {"module"}
    BY DEF Places, Evaluating, Hosting, Kinds, Scoped
  <2>2. f \in Frames /\ f.kind = kind
    <3> HIDE DEF at
    <3> QED
      BY <2>1, PlainFrameType
  <2>3. stack' = Append(stack, f)
    BY <1>10 DEF Begin, Push
  <2> HIDE DEF f, at
  <2> QED
    BY <1>10, <2>1, <2>2, <2>3, StatementInCall DEF Begin, Nest, Quiet, Inner, Move, TypeOK
<1>11. ASSUME NEW kind \in {"block", "for"}, BeginScoped(kind) PROVE Move
  <2> DEFINE at == IF kind = "for" THEN "init" ELSE "body"
             f  == Frame(kind, at, scopes)
  <2>1. /\ at \in Places /\ kind \in Kinds /\ kind \in Scoped /\ kind # "call"
        /\ Fits(kind, at)
    BY DEF Places, Hosting, Kinds, Scoped, Fits
  <2>2. f \in Frames /\ f.kind = kind /\ f.below = scopes /\ f.at = at
    <3> HIDE DEF at
    <3> QED
      BY <2>1, FrameType DEF TypeOK
  <2>3. stack' = Append(stack, f) /\ scopes' = Append(scopes, {})
    BY <1>11 DEF BeginScoped, Push, PushScope
  <2> HIDE DEF f, at
  <2>4. stack # <<>> /\ signal = "none" /\ Len(stack) >= 2
    BY <1>11, StatementInCall DEF BeginScoped
  <2>5. UNCHANGED <<depth, signal, hasMain, due>>
    BY <1>11 DEF BeginScoped
  <2>6. f.kind \in Scoped /\ Fits(f.kind, f.at) /\ f.kind # "call"
    BY <2>1, <2>2
  <2>7. signal' = "none" /\ depth' = IF f.kind = "call" THEN depth + 1 ELSE depth
    BY <2>4, <2>5, <2>6
  <2>8. Len(stack) = 1 => f.kind = "call"
    BY <2>4
  <2>9. {} \in SUBSET Names
    OBVIOUS
  <2>10. Open
    BY <2>2, <2>3, <2>4, <2>6, <2>7, <2>8, <2>9 DEF Open
  <2> QED
    BY <2>4, <2>5, <2>10 DEF Quiet, Inner, Move, TypeOK
<1>12. ASSUME Asm PROVE Move
  <2>1. stack # <<>> /\ signal = "none" /\ Len(stack) >= 2
    BY <1>12, StatementInCall DEF Asm
  <2>2. Top \in Frames /\ Fits(Top.kind, Top.at)
    BY <2>1, TopFacts
  <2>3. Onward(Top) \in Places /\ Fits(Top.kind, Onward(Top))
    BY <2>2, OnwardPlace
  <2> QED
    BY <1>12, <2>1, <2>2, <2>3, PlaceMoves DEF Asm, TypeOK
<1>13. ASSUME NEW sig \in {"return", "break", "continue"}, Jump(sig) PROVE Move
  BY <1>13, StatementInCall, RaiseMoves DEF Jump, Signals
<1>14. ASSUME EndReturn PROVE Move
  BY <1>14, NotModule, RaiseMoves DEF EndReturn, Running, Signals
<1>15. ASSUME EndExpr \/ EndIf \/ EndSwitch PROVE Move
  <2>1. /\ stack # <<>> /\ signal = "none"
        /\ Top.kind # "module" /\ Top.kind \notin Scoped
    BY <1>15 DEF EndExpr, EndIf, EndSwitch, Running, Scoped
  <2> QED
    BY <1>15, <2>1, NotModule, KeepOnlyLast, CompletedMoves
       DEF EndExpr, EndIf, EndSwitch, TypeOK
<1>16. ASSUME EndBlock PROVE Move
  BY <1>16, NotModule, ScopedCompletedMoves DEF EndBlock, Running, Scoped
<1>17. ASSUME CondTrue \/ Else \/ ForNoInit \/ EndStep \/ SwitchValue \/ Matched PROVE Move
  <2>1. /\ stack # <<>> /\ signal = "none"
        /\ Top.at \in {"cond", "init", "step", "value", "case"}
    BY <1>17 DEF CondTrue, Else, ForNoInit, EndStep, SwitchValue, Matched, Running
  <2>2. Top.kind \notin {"module", "call", "block"}
    BY <2>1, TopFacts DEF Fits
  <2>3. \A at \in {"branch", "body", "cond", "case"} : at \in Places /\ Fits(Top.kind, at)
    BY <2>2 DEF Places, Hosting, Evaluating, Fits
  <2>4. /\ \E at \in {"branch", "body", "cond", "case"} : stack' = MoveTo(stack, at)
        /\ UNCHANGED <<scopes, depth, signal, hasMain, due>>
    BY <1>17 DEF CondTrue, Else, ForNoInit, EndStep, SwitchValue, Matched
  <2> QED
    BY <2>1, <2>2, <2>3, <2>4, PlaceMoves DEF TypeOK
<1>18. ASSUME CondFalse PROVE Move
  <2>1. stack # <<>> /\ signal = "none" /\ Top.at = "cond"
    BY <1>18 DEF CondFalse, Running
  <2>2. Len(stack) >= 2 /\ Top.kind \notin {"module", "call", "block"}
    BY <2>1, NotModule, TopFacts DEF Fits
  <2>3. CASE Top.kind \notin Scoped
    BY <1>18, <2>1, <2>2, <2>3, KeepOnlyLast, CompletedMoves DEF CondFalse, TypeOK, Scoped
  <2>4. CASE Top.kind = "for"
    BY <1>18, <2>1, <2>2, <2>4, ScopedCompletedMoves DEF CondFalse, Scoped
  <2> QED
    BY <2>2, <2>3, <2>4 DEF Scoped
<1>19. ASSUME NEW kind \in {"expr", "decl"}, ForInit(kind) PROVE Move
  <2> DEFINE f == Frame(kind, "value", <<>>)
  <2>1. f \in Frames /\ f.kind = kind
    BY PlainFrameType DEF Places, Evaluating, Kinds
  <2>2. stack' = Append(stack, f)
    BY <1>19 DEF ForInit, Push
  <2> HIDE DEF f
  <2> QED
    BY <1>19, <2>1, <2>2, StatementInCall DEF ForInit, Scoped, Nest, Quiet, Inner, Move, TypeOK
<1> QED
  BY <1>1, <1>2, <1>3, <1>4, <1>5, <1>6, <1>7, <1>8, <1>9, <1>10, <1>11, <1>12, <1>13,
     <1>14, <1>15, <1>16, <1>17, <1>18, <1>19 DEF Next

LEMMA UnwindingActionIsMove ==
  ASSUME IInv, Unwind
  PROVE  Move
<1> USE DEF IInv
<1>1. ASSUME stack # <<>>, Top.kind # "module"
      PROVE  /\ Len(stack) >= 2 /\ Len(stack) \in Nat
             /\ Alike(Pop(stack), Pop(stack)) /\ Alike(Pop(stack), Completed)
             /\ Len(Completed) = Len(stack) - 1
  BY <1>1, NotModule, TopPops
<1>2. ASSUME Pass PROVE Move
  <2>1. /\ stack # <<>> /\ signal # "none" /\ signal \in Signals
        /\ stack' = Pop(stack) /\ UNCHANGED <<scopes, depth, signal, hasMain, due>>
    BY <1>2 DEF Pass, Unwinding, Signals
  <2>2. Top.kind \notin Scoped \cup {"module"} /\ Top.kind \notin Catchers(signal)
    BY <1>2, <2>1 DEF Pass, Transparent, Scoped, Catchers, Loops, Signals
  <2>3. OnlyLast
    BY <2>1, KeepOnlyLast DEF TypeOK
  <2>4. Leave
    BY <1>1, <2>1, <2>2, <2>3 DEF Leave
  <2> QED
    BY <2>1, <2>2, <2>4 DEF Passed, Inner, Move, TypeOK
<1>3. ASSUME CallSignal PROVE Move
  <2>1. /\ stack # <<>> /\ signal # "none" /\ signal \in Signals /\ Top.kind = "call"
        /\ scopes' = Pop(scopes) /\ depth' = depth - 1 /\ hasMain' = hasMain
    BY <1>3 DEF CallSignal, Unwinding, Signals, PopScope
  <2>2. CASE signal = "error"
    <3>1. stack' = Pop(stack) /\ UNCHANGED <<signal, due>> /\ Top.kind \notin Catchers(signal)
      BY <1>3, <2>1, <2>2 DEF CallSignal, Catchers
    <3>2. Close /\ Passed
      BY <1>1, <2>1, <3>1 DEF Close, Passed, Scoped
    <3> QED
      BY <2>1, <3>2 DEF Inner, Move, TypeOK
  <2>3. CASE signal # "error"
    <3>1. stack' = Completed /\ Land /\ Top.kind \in Catchers(signal)
      BY <1>3, <2>1, <2>3 DEF CallSignal, Catchers, Signals
    <3>2. Len(stack') = LengthAfter(stack, signal, Len(stack))
      BY <1>1, <2>1, <3>1 DEF LengthAfter, Top
    <3>3. Close /\ Landed
      BY <1>1, <2>1, <3>1, <3>2 DEF Close, Landed, Scoped
    <3> QED
      BY <2>1, <3>3 DEF Inner, Move, TypeOK
  <2> QED
    BY <2>2, <2>3
<1>4. ASSUME BlockSignal \/ ForBodySignal PROVE Move
  <2>1. /\ stack # <<>> /\ signal # "none" /\ Top.kind \in Scoped \ {"call"}
        /\ scopes' = Pop(scopes) /\ stack' = Pop(stack)
        /\ UNCHANGED <<depth, signal, hasMain, due>>
    BY <1>4 DEF BlockSignal, ForBodySignal, Unwinding, Signals, PopScope, Scoped
  <2>2. Top.kind \notin Catchers(signal) /\ Top.kind # "module"
    BY <1>4 DEF BlockSignal, ForBodySignal, Unwinding, Signals, Catchers, Loops
  <2>3. Close /\ Passed
    BY <1>1, <2>1, <2>2 DEF Close, Passed, Scoped
  <2> QED
    BY <2>1, <2>3 DEF Inner, Move, TypeOK
<1>5. ASSUME ForHeaderError PROVE Move
  <2>1. /\ stack # <<>> /\ signal = "error" /\ Top.kind = "for" /\ Top.at # "body"
        /\ stack' = Pop(stack) /\ UNCHANGED <<scopes, depth, signal, hasMain, due>>
    BY <1>5 DEF ForHeaderError, Unwinding
  <2>2. Top.kind \notin Catchers(signal)
    BY <2>1 DEF Catchers
  <2>3. Abandon /\ Passed
    BY <1>1, <2>1, <2>2 DEF Abandon, Passed
  <2> QED
    BY <2>1, <2>3 DEF Inner, Move, TypeOK
<1>6. ASSUME BreakLoop PROVE Move
  <2>1. /\ stack # <<>> /\ signal = "break" /\ Top.kind \in Loops \cup {"switch"}
        /\ stack' = Completed /\ Land /\ depth' = depth /\ hasMain' = hasMain
        /\ IF Top.kind = "for" THEN scopes' = Pop(scopes) ELSE UNCHANGED scopes
    BY <1>6 DEF BreakLoop, Unwinding, PopScope
  <2>2. Top.kind \in Catchers(signal) /\ Top.kind # "module" /\ Top.kind # "call"
    BY <2>1 DEF Catchers, Loops
  <2>3. Len(stack') = LengthAfter(stack, signal, Len(stack))
    BY <1>1, <2>1, <2>2 DEF LengthAfter
  <2>4. Landed
    BY <2>1, <2>2, <2>3 DEF Landed
  <2>5. CASE Top.kind = "for"
    BY <1>1, <2>1, <2>2, <2>4, <2>5 DEF Close, Scoped, Inner, Move, TypeOK
  <2>6. CASE Top.kind # "for"
    <3>1. Top.kind \notin Scoped
      BY <2>1, <2>6 DEF Loops, Scoped
    <3>2. OnlyLast
      BY <2>1, <2>6, KeepOnlyLast DEF TypeOK
    <3> QED
      BY <1>1, <2>1, <2>2, <2>4, <3>1, <3>2 DEF Leave, Inner, Move, TypeOK
  <2> QED
    BY <2>5, <2>6
<1>7. ASSUME ContinueLoop PROVE Move
  <2>1. /\ stack # <<>> /\ signal = "continue" /\ Top.kind \in Loops
        /\ stack' = MoveTo(stack, Onward(Top)) /\ Land /\ UNCHANGED <<scopes, depth, hasMain>>
    BY <1>7 DEF ContinueLoop, Unwinding
  <2>2. Top.kind \in Catchers(signal) /\ Top.kind # "call"
    BY <2>1 DEF Catchers, Loops
  <2>3. Onward(Top) \in Places /\ Fits(Top.kind, Onward(Top))
    BY <2>1, TopFacts, OnwardPlace
  <2>4. Alike(stack, stack') /\ Len(stack') = Len(stack)
    BY <2>1, <2>3, TopMoves
  <2>5. Len(stack') = LengthAfter(stack, signal, Len(stack))
    BY <2>1, <2>2, <2>4 DEF LengthAfter, Top
  <2>6. Stay /\ Landed
    BY <2>1, <2>2, <2>4, <2>5, KeepOnlyLast DEF TypeOK, Stay, Landed
  <2> QED
    BY <2>1, <2>6 DEF Inner, Move, TypeOK
<1>8. ASSUME ModuleError PROVE Move
  <2>1. /\ stack # <<>> /\ signal = "error" /\ Top.kind = "module"
        /\ stack' = <<>> /\ Land /\ UNCHANGED <<scopes, depth, hasMain>>
    BY <1>8 DEF ModuleError, Unwinding
  <2>2. Len(stack) = 1 /\ Top.kind \in Catchers(signal)
    BY <2>1, TopFacts DEF Catchers
  <2>3. Len(stack') = LengthAfter(stack, signal, Len(stack))
    BY <2>1, <2>2 DEF LengthAfter
  <2> QED
    BY <2>1, <2>2, <2>3 DEF Quit, Landed, Inner, Move, TypeOK
<1> QED
  BY <1>2, <1>3, <1>4, <1>5, <1>6, <1>7, <1>8 DEF Unwind

LEMMA ActionIsMove ==
  ASSUME IInv, Next
  PROVE  Move
BY RunningActionIsMove, UnwindingActionIsMove
-----------------------------------------------------------------------------
(* What the moves do to the counts.                                        *)

LEMMA OnlyLastFacts ==
  ASSUME OnlyLast
  PROVE  scopes' \in Seq(SUBSET Names) /\ Len(scopes') = Len(scopes)
BY DEF OnlyLast

\* A frame and its scope come and go together, a call and its depth too; the frames
\* below keep their kind and what they were started on.
LEMMA InnerBalance ==
  ASSUME IInv, Inner, NEW i \in 1 .. Len(stack)
  PROVE  /\ stack' \in Seq(Frames) /\ scopes' \in Seq(SUBSET Names)
         /\ Len(scopes') - Count(stack', Scoped, i) = Len(scopes) - Count(stack, Scoped, i)
         /\ depth' - Count(stack', {"call"}, 1) = depth - Count(stack, {"call"}, 1)
<1>1. /\ stack \in Seq(Frames) /\ scopes \in Seq(SUBSET Names) /\ depth \in Int
      /\ Len(stack) \in Nat /\ Len(scopes) \in Nat /\ Len(scopes) >= 1
      /\ i \in Nat /\ i <= Len(stack) /\ 1 \in Nat /\ 1 <= Len(stack)
  BY ScopeLeft, LenProperties DEF IInv, TypeOK
<1>2. Count(stack, Scoped, i) \in Nat /\ Count(stack, {"call"}, 1) \in Nat
  BY <1>1, CountType
<1>3. CASE Stay
  <2>1. stack' \in Seq(Frames) /\ OnlyLast /\ depth' = depth
    BY <1>3 DEF Stay, Alike
  <2>2. /\ Count(stack', Scoped, i) = Count(stack, Scoped, i)
        /\ Count(stack', {"call"}, 1) = Count(stack, {"call"}, 1)
    BY <1>1, <1>3, CountAlike DEF Stay
  <2> QED
    BY <2>1, <2>2, OnlyLastFacts
<1>4. CASE Nest
  <2>1. PICK f \in Frames : f.kind \notin Scoped \cup {"module"} /\ stack' = Append(stack, f)
    BY <1>4 DEF Nest
  <2>2. f.kind \notin Scoped /\ f.kind \notin {"call"}
    BY <2>1 DEF Scoped
  <2>3. /\ Count(stack', Scoped, i) = Count(stack, Scoped, i) + 0
        /\ Count(stack', {"call"}, 1) = Count(stack, {"call"}, 1) + 0
    BY <1>1, <2>1, <2>2, CountAppend
  <2>4. stack' \in Seq(Frames) /\ scopes' = scopes /\ depth' = depth
    BY <1>1, <1>4, <2>1, AppendProperties DEF Nest
  <2> QED
    BY <1>1, <1>2, <2>3, <2>4
<1>5. CASE Open
  <2>1. PICK f \in Frames, names \in SUBSET Names :
          /\ f.kind \in Scoped
          /\ stack' = Append(stack, f) /\ scopes' = Append(scopes, names)
          /\ depth' = IF f.kind = "call" THEN depth + 1 ELSE depth
    BY <1>5 DEF Open
  <2>2. Count(stack', Scoped, i) = Count(stack, Scoped, i) + 1
    BY <1>1, <2>1, CountAppend
  <2>3. Count(stack', {"call"}, 1) =
          Count(stack, {"call"}, 1) + IF f.kind = "call" THEN 1 ELSE 0
    BY <1>1, <2>1, CountAppend
  <2>4. stack' \in Seq(Frames) /\ scopes' \in Seq(SUBSET Names) /\ Len(scopes') = Len(scopes) + 1
    BY <1>1, <2>1, AppendProperties
  <2>5. Len(scopes') - Count(stack', Scoped, i) = Len(scopes) - Count(stack, Scoped, i)
    BY <1>1, <1>2, <2>2, <2>4
  <2>6. depth' - Count(stack', {"call"}, 1) = depth - Count(stack, {"call"}, 1)
    BY <1>1, <1>2, <2>1, <2>3
  <2> QED
    BY <2>4, <2>5, <2>6
<1>6. ASSUME Leave \/ Close
      PROVE  /\ stack' \in Seq(Frames)
             /\ Count(stack, Scoped, i) =
                  Count(stack', Scoped, i) + IF Top.kind \in Scoped THEN 1 ELSE 0
             /\ Count(stack, {"call"}, 1) =
                  Count(stack', {"call"}, 1) + IF Top.kind = "call" THEN 1 ELSE 0
             /\ Count(stack', Scoped, i) \in Nat /\ Count(stack', {"call"}, 1) \in Nat
  <2>1. Pop(stack) \in Seq(Frames) /\ Alike(Pop(stack), stack')
    BY <1>1, <1>6, PopFacts DEF Leave, Close
  <2>2. stack' \in Seq(Frames)
    BY <2>1 DEF Alike
  <2>3. /\ Count(stack', Scoped, i) = Count(Pop(stack), Scoped, i)
        /\ Count(stack', {"call"}, 1) = Count(Pop(stack), {"call"}, 1)
    BY <1>1, <2>1, CountAlike
  <2>4. /\ Count(stack, Scoped, i) =
             Count(Pop(stack), Scoped, i) + IF Top.kind \in Scoped THEN 1 ELSE 0
        /\ Count(stack, {"call"}, 1) =
             Count(Pop(stack), {"call"}, 1) + IF Top.kind = "call" THEN 1 ELSE 0
    BY <1>1, CountPop DEF Top
  <2>5. Count(stack', Scoped, i) \in Nat /\ Count(stack', {"call"}, 1) \in Nat
    BY <1>1, <2>2, CountType
  <2> QED
    BY <2>2, <2>3, <2>4, <2>5
<1>7. CASE Leave
  <2>1. Top.kind \notin Scoped /\ Top.kind # "call" /\ OnlyLast /\ depth' = depth
    BY <1>7 DEF Leave, Scoped
  <2> QED
    BY <1>1, <1>2, <1>6, <1>7, <2>1, OnlyLastFacts
<1>8. CASE Close
  <2>1. /\ Top.kind \in Scoped /\ scopes' = Pop(scopes)
        /\ depth' = IF Top.kind = "call" THEN depth - 1 ELSE depth
    BY <1>8 DEF Close
  <2>2. scopes' \in Seq(SUBSET Names) /\ Len(scopes') = Len(scopes) - 1
    BY <1>1, <2>1, PopFacts
  <2> QED
    BY <1>1, <1>2, <1>6, <1>8, <2>1, <2>2
<1> QED
  BY <1>3, <1>4, <1>5, <1>7, <1>8 DEF Inner

\* The scopes that no frame will pop.
Left(s, sc) == Len(sc) - Count(s, Scoped, 1)

\* The same for every move: only a failed for header leaves a scope behind.
LEMMA Balance ==
  ASSUME IInv, Move
  PROVE  /\ stack' \in Seq(Frames) /\ scopes' \in Seq(SUBSET Names)
         /\ depth' = Count(stack', {"call"}, 1)
         /\ \/ Left(stack', scopes') = Left(stack, scopes)
            \/ Left(stack', scopes') = 1
            \/ Abandon /\ Left(stack', scopes') = Left(stack, scopes) + 1
<1>1. /\ stack \in Seq(Frames) /\ scopes \in Seq(SUBSET Names) /\ depth \in Int
      /\ Len(stack) \in Nat /\ Len(scopes) \in Nat /\ 1 \in Nat
  BY ScopeLeft, LenProperties DEF IInv, TypeOK
<1>2. /\ Count(stack, Scoped, 1) \in Nat /\ Count(stack, {"call"}, 1) \in Nat
      /\ depth = Count(stack, {"call"}, 1)
  BY <1>1, CountType, CountsAre DEF IInv, DepthCounts
<1>3. CASE Inner
  <2>1. 1 \in 1 .. Len(stack)
    <3>1. stack # <<>>
      BY <1>1, <1>3 DEF Inner, Stay, Nest, Open, Leave, Close
    <3> QED
      BY <1>1, <3>1, EmptySeq
  <2>2. stack' \in Seq(Frames) /\ depth' \in Int
    BY <1>1, <1>3, <2>1, InnerBalance DEF Inner, Stay, Nest, Open, Leave, Close
  <2>3. /\ scopes' \in Seq(SUBSET Names)
        /\ Len(scopes') - Count(stack', Scoped, 1) = Len(scopes) - Count(stack, Scoped, 1)
        /\ depth' - Count(stack', {"call"}, 1) = depth - Count(stack, {"call"}, 1)
    BY <1>3, <2>1, InnerBalance
  <2>4. Count(stack', {"call"}, 1) \in Nat
    BY <1>1, <2>2, CountType
  <2> QED
    BY <1>1, <1>2, <2>2, <2>3, <2>4 DEF Left
<1>4. CASE Abandon
  <2>1. /\ Len(stack) >= 1 /\ stack' = Pop(stack) /\ Top.kind = "for"
        /\ scopes' = scopes /\ depth' = depth
    BY <1>1, <1>4 DEF Abandon
  <2>2. stack' \in Seq(Frames)
    BY <1>1, <2>1, PopFacts
  <2>3. Count(stack', Scoped, 1) \in Nat /\ Count(stack', {"call"}, 1) \in Nat
    BY <1>1, <2>2, CountType
  <2>4. /\ Count(stack, Scoped, 1) = Count(stack', Scoped, 1) + 1
        /\ Count(stack, {"call"}, 1) = Count(stack', {"call"}, 1) + 0
    BY <1>1, <2>1, CountPop DEF Top, Scoped
  <2> QED
    BY <1>1, <1>2, <1>4, <2>1, <2>2, <2>3, <2>4 DEF Left
<1>5. ASSUME stack = <<>> \/ (Len(stack) = 1 /\ Top.kind = "module")
      PROVE  Count(stack, Scoped, 1) = 0 /\ Count(stack, {"call"}, 1) = 0
  <2>1. CASE stack = <<>>
    BY <1>1, <2>1, CountEmpty
  <2>2. CASE Len(stack) = 1 /\ Top.kind = "module"
    <3>0. Len(stack) >= 1 /\ Len(stack) - 1 = 0
      BY <2>2
    <3>1. Pop(stack) \in Seq(Frames) /\ Len(Pop(stack)) = 0
      BY <1>1, <3>0, PopFacts
    <3>2. Pop(stack) = <<>>
      BY <3>1, EmptySeq
    <3>3. /\ Count(stack, Scoped, 1) = Count(<<>>, Scoped, 1) + 0
          /\ Count(stack, {"call"}, 1) = Count(<<>>, {"call"}, 1) + 0
      BY <1>1, <2>2, <3>0, <3>2, CountPop DEF Top, Scoped
    <3> QED
      BY <1>1, <3>3, CountEmpty
  <2> QED
    BY <1>5, <2>1, <2>2
<1>6. <<>> \in Seq(Frames)
  BY EmptySeq
<1>7. CASE Enter
  <2> DEFINE f == Frame("module", "globals", scopes)
  <2>1. f \in Frames /\ f.kind = "module"
    BY <1>1, FrameType DEF Kinds, Places, Evaluating
  <2>2. stack' = Append(<<>>, f) /\ scopes' = scopes /\ depth' = depth
    BY <1>7 DEF Enter
  <2>3. f.kind \notin Scoped /\ f.kind \notin {"call"}
    BY <2>1 DEF Scoped
  <2> HIDE DEF f
  <2>4. /\ Count(stack', Scoped, 1) = Count(<<>>, Scoped, 1) + 0
        /\ Count(stack', {"call"}, 1) = Count(<<>>, {"call"}, 1) + 0
    BY <1>1, <1>6, <2>1, <2>2, <2>3, CountAppend
  <2>5. stack' \in Seq(Frames)
    BY <1>6, <2>1, <2>2, AppendProperties
  <2>6. Count(<<>>, Scoped, 1) = 0 /\ Count(<<>>, {"call"}, 1) = 0
    BY <1>1, CountEmpty
  <2> QED
    BY <1>1, <1>2, <1>5, <1>7, <2>2, <2>4, <2>5, <2>6 DEF Enter, Left
<1>8. CASE Quit
  <2>1. Len(stack) = 1 /\ stack' = <<>> /\ scopes' = scopes /\ depth' = depth
    BY <1>8 DEF Quit
  <2>2. Top.kind = "module"
    BY <2>1, EmptySeq, TopFacts DEF IInv
  <2>3. Count(<<>>, Scoped, 1) = 0 /\ Count(<<>>, {"call"}, 1) = 0
    BY <1>1, CountEmpty
  <2> QED
    BY <1>1, <1>2, <1>5, <1>6, <2>1, <2>2, <2>3 DEF Left
<1>9. CASE Renew
  <2>1. stack' = <<>> /\ scopes' = <<{}>> /\ depth' = 0
    BY <1>9 DEF Renew
  <2>2. <<{}>> \in Seq(SUBSET Names) /\ Len(<<{}>>) = 1
    OBVIOUS
  <2>3. Count(<<>>, Scoped, 1) = 0 /\ Count(<<>>, {"call"}, 1) = 0
    BY <1>1, CountEmpty
  <2> QED
    BY <1>6, <2>1, <2>2, <2>3 DEF Left
<1> QED
  BY <1>3, <1>4, <1>7, <1>8, <1>9 DEF Move
-----------------------------------------------------------------------------
(* Each part of the invariant is kept.                                     *)

LEMMA CountsKept ==
  ASSUME IInv, Move
  PROVE  /\ stack' \in Seq(Frames) /\ scopes' \in Seq(SUBSET Names) /\ depth' \in 0 .. MaxDepth
         /\ DepthCounts' /\ ScopesSuffice'
<1>1. stack' \in Seq(Frames) /\ scopes' \in Seq(SUBSET Names) /\ depth' = Count(stack', {"call"}, 1)
  BY Balance
<1>2. stack \in Seq(Frames) /\ scopes \in Seq(SUBSET Names) /\ depth \in 0 .. MaxDepth
  BY DEF IInv, TypeOK
<1>3. Len(scopes) \in Nat /\ Len(scopes') \in Nat
  BY <1>1, <1>2, LenProperties
<1>4. /\ Count(stack, Scoped, 1) \in Nat
      /\ Count(stack', Scoped, 1) \in Nat /\ Count(stack', {"call"}, 1) \in Nat
  BY <1>1, <1>2, CountType
<1>5. /\ Len(scopes) >= 1 + Count(stack, Scoped, 1)
      /\ Left(stack', scopes') >= 1 => Len(scopes') >= 1 + Count(stack', Scoped, 1)
  BY <1>2, <1>3, <1>4, CountsAre DEF IInv, ScopesSuffice, Left
<1>6. Left(stack, scopes) \in Int /\ Left(stack, scopes) >= 1
  BY <1>3, <1>4, <1>5 DEF Left
<1>7. Left(stack', scopes') >= 1
  BY <1>6, Balance
<1>8. DepthCounts' /\ ScopesSuffice'
  BY <1>1, <1>5, <1>7, NewCountsAre DEF DepthCounts, ScopesSuffice
<1>9. depth' <= MaxDepth
  <2>1. CASE depth' \in {depth, depth - 1, 0}
    BY <1>2, <2>1, DepthAssumption
  <2>2. CASE Open
    BY <1>2, <2>2, DepthAssumption DEF Open
  <2> QED
    BY <2>1, <2>2 DEF Move, Inner, Stay, Nest, Leave, Close, Abandon, Enter, Quit, Renew
<1> QED
  BY <1>1, <1>4, <1>8, <1>9, DepthAssumption

LEMMA SignalTypeKept ==
  ASSUME IInv, Move
  PROVE  signal' \in Signals \cup {"none"} /\ due' \in Nat /\ Aimed'
<1>1. /\ stack \in Seq(Frames) /\ Len(stack) \in Nat /\ DOMAIN stack = 1 .. Len(stack)
      /\ signal \in Signals \cup {"none"} /\ due \in Nat
  BY LenProperties DEF IInv, TypeOK
<1>2. CASE Quiet
  <2>1. signal' = "none" \/ stack = <<>>
    BY <1>2 DEF Quiet
  <2>2. stack = <<>> => signal = "none"
    BY EmptySeq, <1>1 DEF IInv, Aimed
  <2> QED
    BY <1>1, <1>2, <2>1, <2>2 DEF Quiet, Aimed
<1>3. CASE Raised
  <2>1. PICK sig \in Signals : Raise(sig) /\ \E i \in DOMAIN stack : stack[i].kind \in Catchers(sig)
    BY <1>3 DEF Raised
  <2>2. PICK c \in DOMAIN stack : Catcher(stack, sig, c)
    BY <1>1, <2>1, CatcherExists
  <2>3. signal' = sig /\ due' = LengthAfter(stack, sig, c) /\ stack' = stack
    BY <1>1, <1>3, <2>1, <2>2, LandingIs DEF Raise, Raised
  <2>4. due' \in Nat
    BY <1>1, <2>3 DEF LengthAfter
  <2> QED
    BY <2>2, <2>3, <2>4 DEF Aimed
<1>4. CASE Passed
  <2>1. /\ signal # "none" /\ stack # <<>> /\ Top.kind \notin Catchers(signal)
        /\ stack' = Pop(stack) /\ signal' = signal /\ due' = due
    BY <1>4 DEF Passed
  <2>2. PICK c \in DOMAIN stack : Catcher(stack, signal, c) /\ due = LengthAfter(stack, signal, c)
    BY <2>1 DEF IInv, Aimed
  <2>3. c # Len(stack)
    BY <2>1, <2>2 DEF Catcher, Top
  <2>4. /\ stack' \in Seq(Frames) /\ Len(stack') = Len(stack) - 1
        /\ \A j \in 1 .. Len(stack) - 1 : stack'[j] = stack[j]
    <3>1. Len(stack) >= 1
      BY <1>1, <2>1, EmptySeq
    <3> QED
      BY <1>1, <2>1, <3>1, PopFacts
  <2>5. DOMAIN stack' = 1 .. Len(stack) - 1
    BY <2>4, LenProperties
  <2>6. c \in DOMAIN stack' /\ \A j \in DOMAIN stack' : j \in DOMAIN stack
    BY <1>1, <2>2, <2>3, <2>5
  <2>7. Catcher(stack', signal, c) /\ LengthAfter(stack', signal, c) = LengthAfter(stack, signal, c)
    BY <2>2, <2>4, <2>5, <2>6 DEF Catcher, LengthAfter
  <2> QED
    BY <1>1, <2>1, <2>2, <2>6, <2>7 DEF Aimed
<1>5. CASE Landed
  BY <1>5 DEF Landed, Land, Aimed
<1> QED
  BY <1>2, <1>3, <1>4, <1>5 DEF Move

\* The frames that stay keep their kind and what they were started on; at most one
\* frame is new.
LEMMA FramesKept ==
  ASSUME IInv, Inner \/ Abandon
  PROVE  /\ Len(stack) \in Nat /\ Len(stack) >= 1
         /\ stack' \in Seq(Frames) /\ DOMAIN stack' = 1 .. Len(stack') /\ Len(stack') >= 1
         /\ \A j \in DOMAIN stack' :
              /\ Fits(stack'[j].kind, stack'[j].at)
              /\ j <= Len(stack) =>
                   stack'[j].kind = stack[j].kind /\ stack'[j].below = stack[j].below
              /\ j > Len(stack) =>
                   /\ j = Len(stack) + 1 /\ j >= 2 /\ stack'[j].kind # "module"
                   /\ j = 2 => stack'[j].kind = "call"
                   /\ stack'[j].kind \in Scoped => Open /\ stack'[j].below = scopes
<1>1. stack \in Seq(Frames) /\ Len(stack) \in Nat /\ DOMAIN stack = 1 .. Len(stack)
  BY LenProperties DEF IInv, TypeOK
<1>2. Len(stack) >= 1 /\ stack # <<>>
  BY <1>1, EmptySeq DEF Inner, Abandon, Stay, Nest, Open, Leave, Close
<1>3. CASE Stay
  <2>1. DOMAIN stack' = 1 .. Len(stack')
    BY <1>3, LenProperties DEF Stay, Alike
  <2> QED
    BY <1>1, <1>2, <1>3, <2>1 DEF Stay, Alike
<1>4. ASSUME NEW f \in Frames, stack' = Append(stack, f), f.kind # "module", Fits(f.kind, f.at),
             Len(stack) = 1 => f.kind = "call",
             f.kind \in Scoped => Open /\ f.below = scopes
      PROVE  /\ stack' \in Seq(Frames) /\ DOMAIN stack' = 1 .. Len(stack') /\ Len(stack') >= 1
             /\ \A j \in DOMAIN stack' :
                  /\ Fits(stack'[j].kind, stack'[j].at)
                  /\ j <= Len(stack) =>
                       stack'[j].kind = stack[j].kind /\ stack'[j].below = stack[j].below
                  /\ j > Len(stack) =>
                       /\ j = Len(stack) + 1 /\ j >= 2 /\ stack'[j].kind # "module"
                       /\ j = 2 => stack'[j].kind = "call"
                       /\ stack'[j].kind \in Scoped => Open /\ stack'[j].below = scopes
  <2>1. /\ stack' \in Seq(Frames) /\ Len(stack') = Len(stack) + 1
        /\ \A j \in 1 .. Len(stack) : stack'[j] = stack[j]
        /\ stack'[Len(stack) + 1] = f
    BY <1>1, <1>4, AppendProperties
  <2>2. DOMAIN stack' = 1 .. Len(stack) + 1
    BY <2>1, LenProperties
  <2>3. ASSUME NEW j \in 1 .. Len(stack) PROVE Fits(stack'[j].kind, stack'[j].at)
    BY <1>1, <2>1 DEF IInv, Shaped
  <2> QED
    BY <1>1, <1>2, <1>4, <2>1, <2>2, <2>3
<1>5. CASE Nest
  <2>1. PICK f \in Frames : /\ f.kind \notin Scoped \cup {"module"} /\ Len(stack) >= 2
                            /\ stack' = Append(stack, f)
    BY <1>5 DEF Nest
  <2>2. Fits(f.kind, f.at)
    BY <2>1 DEF Fits, Scoped
  <2>3. Len(stack) # 1
    BY <2>1
  <2> QED
    BY <1>1, <1>2, <1>4, <2>1, <2>2, <2>3
<1>6. CASE Open
  <2>1. PICK f \in Frames : /\ f.kind \in Scoped /\ f.below = scopes /\ Fits(f.kind, f.at)
                            /\ Len(stack) = 1 => f.kind = "call"
                            /\ stack' = Append(stack, f)
    BY <1>6 DEF Open
  <2>2. f.kind # "module"
    BY <2>1 DEF Scoped
  <2> QED
    BY <1>1, <1>2, <1>4, <1>6, <2>1, <2>2
<1>7. CASE Leave \/ Close \/ Abandon
  <2>1. Len(stack) >= 2
    BY <1>7 DEF Leave, Close, Abandon
  <2>2. Alike(Pop(stack), stack')
    BY <1>7, <2>1, TopPops DEF Leave, Close, Abandon, IInv
  <2>3. /\ Len(Pop(stack)) = Len(stack) - 1
        /\ \A j \in 1 .. Len(stack) - 1 : Pop(stack)[j] = stack[j]
    BY <1>1, <1>2, PopFacts
  <2>4. stack' \in Seq(Frames) /\ Len(stack') = Len(stack) - 1 /\ DOMAIN stack' = 1 .. Len(stack')
    BY <2>2, <2>3, LenProperties DEF Alike
  <2> QED
    BY <1>1, <1>2, <2>1, <2>2, <2>3, <2>4 DEF Alike
<1> QED
  BY <1>3, <1>5, <1>6, <1>7 DEF Inner

LEMMA ShapedKept ==
  ASSUME IInv, Move
  PROVE  Shaped'
<1>1. CASE Inner \/ Abandon
  <2>1. DOMAIN stack = 1 .. Len(stack)
    BY LenProperties DEF IInv, TypeOK
  <2>2. ASSUME NEW j \in DOMAIN stack'
        PROVE  (stack'[j].kind = "module") <=> (j = 1)
    <3>1. CASE j <= Len(stack)
      <4>1. j \in DOMAIN stack
        BY <1>1, <2>1, <3>1, FramesKept
      <4> QED
        BY <1>1, <3>1, <4>1, FramesKept DEF IInv, Shaped
    <3>2. CASE j > Len(stack)
      BY <1>1, <3>2, FramesKept
    <3> QED
      BY <1>1, <3>1, <3>2, FramesKept
  <2>3. ASSUME Len(stack') >= 2 PROVE stack'[2].kind = "call"
    <3>1. 2 \in DOMAIN stack'
      BY <1>1, <2>3, FramesKept, CountsKept, LenProperties
    <3>2. CASE 2 <= Len(stack)
      BY <1>1, <3>1, <3>2, FramesKept DEF IInv, Shaped
    <3>3. CASE 2 > Len(stack)
      BY <1>1, <3>1, <3>3, FramesKept
    <3> QED
      BY <1>1, <3>2, <3>3, FramesKept
  <2> QED
    BY <1>1, <2>2, <2>3, FramesKept DEF Shaped
<1>2. CASE Enter
  BY <1>2 DEF Enter, Frame, Shaped, Fits
<1>3. CASE Quit \/ Renew
  BY <1>3 DEF Quit, Renew, Shaped
<1> QED
  BY <1>1, <1>2, <1>3 DEF Move

\* A frame that opens a scope counts itself.
LEMMA OpenerCounts ==
  ASSUME NEW s \in Seq(Frames), NEW i \in DOMAIN s, s[i].kind \in Scoped
  PROVE  Count(s, Scoped, i) >= 1
<1>1. i \in Nat /\ i \in Those(s, Scoped, i)
  BY LenProperties DEF Those
<1>2. IsFiniteSet(Those(s, Scoped, i)) /\ Count(s, Scoped, i) \in Nat
  BY <1>1, CountType
<1>3. Count(s, Scoped, i) # 0
  BY <1>1, <1>2, FS_EmptySet DEF Count
<1> QED
  BY <1>2, <1>3

LEMMA NoneAbove ==
  ASSUME NEW s \in Seq(Frames), NEW K
  PROVE  Count(s, K, Len(s) + 1) = 0
<1>1. Those(s, K, Len(s) + 1) = {}
  BY LenProperties DEF Those
<1> QED
  BY <1>1, FS_EmptySet DEF Count

\* An error that is dealt with leaves no frame.
LEMMA ErrorEndsModule ==
  ASSUME IInv, Move, signal = "error", signal' # "error"
  PROVE  Len(stack') = 0
<1>1. Landed
  BY DEF Move, Quiet, Raised, Passed
<1>2. stack # <<>> /\ Top.kind = "module" /\ Len(stack') = LengthAfter(stack, signal, Len(stack))
  BY <1>1 DEF Landed, Catchers
<1>3. Len(stack) = 1
  BY <1>2, TopFacts DEF IInv
<1> QED
  BY <1>2, <1>3 DEF LengthAfter

\* ScopesNested for one frame.
Nested(s, sc, i) ==
  LET base == s[i].below
  IN  /\ Len(sc) = Len(base) + Count(s, Scoped, i)
      /\ \A k \in DOMAIN base : sc[k] = base[k] \/ (i = 1 /\ k = Len(base))

LEMMA NestedIs ==
  ASSUME IInv, signal # "error", NEW i \in DOMAIN stack, i = 1 \/ stack[i].kind \in Scoped
  PROVE  Nested(stack, scopes, i)
<1>1. stack \in Seq(Frames)
  BY DEF IInv, TypeOK
<1>2. i \in (Openers \cup {1}) \cap DOMAIN stack
  BY DEF Openers
<1> QED
  BY <1>1, <1>2, CountsAre DEF IInv, ScopesNested, Nested

LEMMA NestedKept ==
  ASSUME IInv, Move
  PROVE  ScopesNested'
<1> SUFFICES ASSUME signal' # "error", NEW i \in DOMAIN stack',
                    i = 1 \/ stack'[i].kind \in Scoped
             PROVE  Nested(stack', scopes', i)
  <2>1. stack' \in Seq(Frames)
    BY CountsKept
  <2> QED
    BY <2>1, NewCountsAre DEF ScopesNested, Openers, Nested
<1>1. /\ stack \in Seq(Frames) /\ scopes \in Seq(SUBSET Names)
      /\ stack' \in Seq(Frames) /\ scopes' \in Seq(SUBSET Names)
      /\ Len(scopes) \in Nat /\ DOMAIN stack = 1 .. Len(stack) /\ Len(stack) \in Nat
      /\ DOMAIN stack' = 1 .. Len(stack') /\ Len(stack') \in Nat /\ i \in Nat /\ i >= 1
  BY CountsKept, LenProperties DEF IInv, TypeOK
<1>2. signal # "error"
  BY <1>1, ErrorEndsModule
<1>3. CASE Inner
  <2>1. ASSUME i <= Len(stack) PROVE Nested(stack', scopes', i)
    <3> DEFINE base == stack[i].below
    <3>1. i \in DOMAIN stack /\ (i = 1 \/ stack[i].kind \in Scoped) /\ stack'[i].below = base
      BY <1>1, <1>3, <2>1, FramesKept
    <3>2. Nested(stack, scopes, i)
      BY <1>2, <3>1, NestedIs
    <3>3. base \in Seq(SUBSET Names) /\ Len(base) \in Nat /\ DOMAIN base = 1 .. Len(base)
      <4>1. stack[i] \in Frames
        BY <1>1, <3>1, ElementOfSeq
      <4>2. base \in Seq(SUBSET Names)
        BY <4>1, FrameParts
      <4> QED
        BY <4>2, LenProperties
    <3>4. Len(scopes) = Len(base) + Count(stack, Scoped, i)
      BY <3>2 DEF Nested
    <3>5. ASSUME NEW k \in DOMAIN base PROVE scopes[k] = base[k] \/ (i = 1 /\ k = Len(base))
      BY <3>2, <3>5 DEF Nested
    <3> HIDE DEF base
    <3>6. /\ Count(stack, Scoped, i) \in Nat /\ Count(stack', Scoped, i) \in Nat
          /\ i # 1 => Count(stack, Scoped, i) >= 1
      BY <1>1, <3>1, CountType, OpenerCounts
    <3>7. Len(scopes') = Len(base) + Count(stack', Scoped, i)
      <4>1. Len(scopes') - Count(stack', Scoped, i) = Len(scopes) - Count(stack, Scoped, i)
        BY <1>1, <1>3, <3>1, InnerBalance
      <4>2. Len(scopes') \in Nat
        BY <1>1, LenProperties
      <4> QED
        BY <1>1, <3>3, <3>4, <3>6, <4>1, <4>2
    <3>8. ASSUME NEW k \in DOMAIN base
          PROVE  scopes'[k] = scopes[k] \/ (i = 1 /\ k = Len(base))
      <4>1. k \in 1 .. Len(scopes) /\ k \in 1 .. Len(scopes')
        BY <1>1, <3>3, <3>4, <3>6, <3>7
      <4>2. CASE Stay \/ Leave
        <5>1. k # Len(scopes) => scopes'[k] = scopes[k]
          BY <4>1, <4>2 DEF Stay, Leave, OnlyLast
        <5>2. k = Len(scopes) => i = 1 /\ k = Len(base)
          BY <1>1, <3>3, <3>4, <3>6
        <5> QED
          BY <5>1, <5>2
      <4>3. CASE Nest
        BY <4>3 DEF Nest
      <4>4. CASE Open
        BY <1>1, <4>1, <4>4, AppendProperties DEF Open
      <4>5. CASE Close
        <5>1. scopes' = Pop(scopes) /\ Len(scopes) >= 1
          BY <4>5, ScopeLeft DEF Close
        <5>2. /\ Len(scopes') = Len(scopes) - 1
              /\ \A j \in 1 .. Len(scopes) - 1 : scopes'[j] = scopes[j]
          BY <1>1, <5>1, PopFacts
        <5> QED
          BY <4>1, <5>2
      <4> QED
        BY <1>3, <4>2, <4>3, <4>4, <4>5 DEF Inner
    <3>9. \A k \in DOMAIN base : scopes'[k] = base[k] \/ (i = 1 /\ k = Len(base))
      BY <3>5, <3>8
    <3> QED
      BY <3>1, <3>7, <3>9 DEF Nested
  <2>2. ASSUME i > Len(stack) PROVE Nested(stack', scopes', i)
    <3>1. i = Len(stack) + 1 /\ i >= 2 /\ stack'[i].kind \in Scoped
      BY <1>3, <2>2, FramesKept
    <3>2. Open /\ stack'[i].below = scopes
      BY <1>3, <2>2, <3>1, FramesKept
    <3>3. PICK f \in Frames, names \in SUBSET Names :
            f.kind \in Scoped /\ stack' = Append(stack, f) /\ scopes' = Append(scopes, names)
      BY <3>2 DEF Open
    <3>4. Count(stack', Scoped, i) = Count(stack, Scoped, i) + 1
      BY <1>1, <3>1, <3>3, CountAppend
    <3>5. Count(stack, Scoped, i) = 0
      BY <1>1, <3>1, NoneAbove
    <3>6. /\ Len(scopes') = Len(scopes) + 1 /\ DOMAIN scopes = 1 .. Len(scopes)
          /\ \A k \in 1 .. Len(scopes) : scopes'[k] = scopes[k]
      BY <1>1, <3>3, AppendProperties, LenProperties
    <3> QED
      BY <1>1, <3>2, <3>4, <3>5, <3>6 DEF Nested
  <2> QED
    BY <1>1, <2>1, <2>2
<1>4. CASE Abandon
  BY <1>4 DEF Abandon
<1>5. CASE Enter
  <2>1. /\ stack' = <<Frame("module", "globals", scopes)>> /\ scopes' = scopes
    BY <1>5 DEF Enter
  <2>2. i = 1 /\ stack'[i].kind = "module" /\ stack'[i].below = scopes
    BY <1>1, <2>1 DEF Frame
  <2>3. Count(stack', Scoped, 1) = 0
    <3>1. Those(stack', Scoped, 1) = {}
      BY <2>1 DEF Those, Frame, Scoped
    <3> QED
      BY <3>1, FS_EmptySet DEF Count
  <2> QED
    BY <1>1, <2>1, <2>2, <2>3 DEF Nested
<1>6. CASE Quit \/ Renew
  BY <1>1, <1>6 DEF Quit, Renew
<1> QED
  BY <1>3, <1>4, <1>5, <1>6 DEF Move
-----------------------------------------------------------------------------
(* The theorems.                                                           *)

LEMMA InitIInv == Init => IInv
<1> SUFFICES ASSUME Init PROVE IInv
  OBVIOUS
<1>1. <<>> \in Seq(Frames) /\ <<{}>> \in Seq(SUBSET Names) /\ Len(<<{}>>) = 1
  BY EmptySeq
<1>2. stack \in Seq(Frames) /\ Cardinality(Calls) = 0 /\ Cardinality(Openers) = 0
  <2>1. Count(<<>>, {"call"}, 1) = 0 /\ Count(<<>>, Scoped, 1) = 0
    BY CountEmpty
  <2>2. stack = <<>> /\ stack \in Seq(Frames)
    BY <1>1 DEF Init
  <2> QED
    BY <2>1, <2>2, CountsAre
<1>3. TypeOK
  <2>1. 0 \in 0 .. MaxDepth
    BY DepthAssumption
  <2> QED
    BY <1>1, <1>2, <2>1 DEF Init, TypeOK
<1>4. Shaped /\ Aimed /\ ScopesNested
  BY DEF Init, Shaped, Aimed, ScopesNested
<1>5. DepthCounts /\ ScopesSuffice
  BY <1>1, <1>2 DEF Init, DepthCounts, ScopesSuffice
<1> QED
  BY <1>3, <1>4, <1>5 DEF IInv

LEMMA NextIInv == IInv /\ [Next]_vars => IInv'
<1>1. ASSUME IInv, Next PROVE IInv'
  <2>1. Move
    BY <1>1, ActionIsMove
  <2>2. hasMain' \in BOOLEAN
    BY <2>1 DEF Move
  <2>3. TypeOK'
    BY <1>1, <2>1, <2>2, CountsKept, SignalTypeKept DEF TypeOK
  <2> QED
    BY <1>1, <2>1, <2>3, CountsKept, SignalTypeKept, ShapedKept, NestedKept DEF IInv
<1>2. ASSUME IInv, UNCHANGED vars PROVE IInv'
  <2>1. TypeOK' /\ Shaped'
    BY <1>2 DEF vars, IInv, TypeOK, Shaped
  <2>2. Aimed'
    BY <1>2 DEF vars, IInv, Aimed
  <2>3. DepthCounts' /\ ScopesSuffice' /\ ScopesNested'
    <3>1. Calls' = Calls /\ Openers' = Openers
      BY <1>2 DEF vars, Calls, Openers
    <3> QED
      BY <1>2, <3>1 DEF vars, IInv, DepthCounts, ScopesSuffice, ScopesNested
  <2> QED
    BY <2>1, <2>2, <2>3 DEF IInv
<1> QED
  BY <1>1, <1>2

\* The invariant holds in every state of every run.
THEOREM Invariant == Spec => []IInv
<1> QED
  BY InitIInv, NextIInv, PTL DEF Spec

\* The state keeps its shape; the calls in progress never pass the limit (vm.rs:182).
THEOREM TypeCorrect == Spec => []TypeOK
<1>1. IInv => TypeOK
  BY DEF IInv
<1> QED
  BY <1>1, Invariant, PTL

\* However calls end, call_depth is the number of those in progress.
THEOREM DepthIsCounted == Spec => []DepthCounts
<1>1. IInv => DepthCounts
  BY DEF IInv
<1> QED
  BY <1>1, Invariant, PTL

\* The global scope is never popped, however statements and calls end.
THEOREM GlobalScopeStays == Spec => []ScopesSuffice
<1>1. IInv => ScopesSuffice
  BY DEF IInv
<1> QED
  BY <1>1, Invariant, PTL

\* What ends without an error puts the scopes back as it found them.
THEOREM ScopesRestored == Spec => []ScopesNested
<1>1. IInv => ScopesNested
  BY DEF IInv
<1> QED
  BY <1>1, Invariant, PTL

\* A scope is left behind only by an error in the header of a for.
THEOREM OnlyForHeadersLeak == Spec => StaleFromForHeader
<1> DEFINE Leaks == Stale' > Stale =>
       Stale' = Stale + 1 /\ signal = "error" /\ Top.kind = "for" /\ Top.at # "body"
<1>1. ASSUME IInv, Next PROVE Leaks
  <2>1. Move
    BY <1>1, ActionIsMove
  <2>2. /\ stack \in Seq(Frames) /\ scopes \in Seq(SUBSET Names)
        /\ stack' \in Seq(Frames) /\ scopes' \in Seq(SUBSET Names)
    BY <1>1, <2>1, CountsKept DEF IInv, TypeOK
  <2>3. /\ Len(scopes) \in Nat /\ Len(scopes') \in Nat
        /\ Count(stack, Scoped, 1) \in Nat /\ Count(stack', Scoped, 1) \in Nat
    BY <2>2, LenProperties, CountType
  <2>4. Left(stack, scopes) \in Int /\ Left(stack', scopes') \in Int
    BY <2>3 DEF Left
  <2>5. Stale = Left(stack, scopes) - 1 /\ Stale' = Left(stack', scopes') - 1
    BY <2>2, <2>3, CountsAre, NewCountsAre DEF Stale, Left
  <2>6. Left(stack, scopes) >= 1
    BY <1>1, <2>2, <2>3, CountsAre DEF IInv, ScopesSuffice, Left
  <2>7. \/ Left(stack', scopes') = Left(stack, scopes)
        \/ Left(stack', scopes') = 1
        \/ Abandon /\ Left(stack', scopes') = Left(stack, scopes) + 1
    BY <1>1, <2>1, Balance
  <2>8. Abandon => signal = "error" /\ Top.kind = "for" /\ Top.at # "body"
    BY DEF Abandon
  <2> QED
    BY <2>4, <2>5, <2>6, <2>7, <2>8
<1>2. IInv /\ [Next]_vars => [Leaks]_vars
  BY <1>1
<1> QED
  BY <1>2, Invariant, PTL DEF Spec, StaleFromForHeader

\* Every signal that ends, ends at the innermost frame that is for it.
THEOREM SignalsReachTheirFrame == Spec => SignalsLand
<1>1. ASSUME IInv, Next, signal # "none", signal' = "none" PROVE Len(stack') = due
  <2>1. Move
    BY <1>1, ActionIsMove
  <2>2. Landed
    BY <1>1, <2>1 DEF Move, Quiet, Raised, Passed
  <2>3. PICK c \in DOMAIN stack : Catcher(stack, signal, c) /\ due = LengthAfter(stack, signal, c)
    BY <1>1 DEF IInv, Aimed
  <2>4. /\ stack # <<>> /\ Top.kind \in Catchers(signal)
        /\ Len(stack') = LengthAfter(stack, signal, Len(stack))
    BY <2>2 DEF Landed
  <2>5. Len(stack) \in Nat /\ DOMAIN stack = 1 .. Len(stack) /\ Len(stack) \in DOMAIN stack
    BY <1>1, <2>4, TopFacts DEF IInv
  <2>6. c = Len(stack)
    BY <2>3, <2>4, <2>5 DEF Catcher, Top
  <2> QED
    BY <2>3, <2>4, <2>6
<1>2. IInv /\ [Next]_vars => [signal # "none" /\ signal' = "none" => Len(stack') = due]_vars
  BY <1>1
<1> QED
  BY <1>2, Invariant, PTL DEF Spec, SignalsLand
=============================================================================
