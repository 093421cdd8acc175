----------------------------- MODULE CodegenProofs -----------------------------
(***************************************************************************)
(* For every program, every number of blocks and every depth of nesting:   *)
(* nothing is emitted behind a terminator, break and continue go to the    *)
(* innermost loop, a block that has yet to be filled is nobody else's, and *)
(* only an arm or a case leaves a block open.                              *)
(*                                                                         *)
(* Every action is first shown to be one of ten moves of the recursion and *)
(* the builder; each part of the invariant is then proved once per move.   *)
(***************************************************************************)
EXTENDS Codegen, TLAPS, FiniteSetTheorems, SequenceTheorems

\* The places where a statement is about to be emitted in any case.
Starts == {"arm", "else", "body"}
\* The statements whose locals are their own.
Scoping == {"function", "block", "for"}

\* The frames emit_stmt makes.
Fits(f) ==
  \/ f.kind = "function" /\ f.at \in {"list", "bodyDone"} /\ Len(f.own) = 0
  \/ f.kind = "block" /\ f.at = "list" /\ Len(f.own) = 0
  \/ f.kind = "if" /\ f.at \in {"arm", "armDone", "else", "elseDone"} /\ Len(f.own) = 3
  \/ f.kind \in {"while", "do"} /\ f.at \in {"body", "bodyDone"} /\ Len(f.own) = 3
  \/ f.kind = "for" /\ f.at \in {"body", "bodyDone"} /\ Len(f.own) = 4
  \/ f.kind = "switch" /\ f.at = "list" /\ Len(f.own) >= 2

Distinct(f) == \A j, k \in DOMAIN f.own : f.own[j] = f.own[k] => j = k

\* The block in which the statement's current arm or case began, whose end is asked
\* later of just this block.
Begun(f) ==
  CASE f.kind = "if" /\ f.at \in {"arm", "armDone"} -> {f.own[1]}
    [] f.kind = "if" /\ f.at \in {"else", "elseDone"} -> {f.own[2]}
    [] f.kind = "switch" -> {f.own[2]}
    [] OTHER -> {}

Shaped ==
  \A i \in DOMAIN work :
    /\ Fits(work[i]) /\ Distinct(work[i])
    /\ work[i].kind = "function" <=> i = 1
    /\ i < Len(work) => work[i].at \notin Starts

\* The blocks yet to be filled are open, and the builder is in none of them.
Fresh ==
  \A i \in DOMAIN work : \A b \in Left(work[i]) : b \in DOMAIN ended /\ ~ ended[b] /\ b # cur

Apart == \A i, j \in DOMAIN work : i # j => Left(work[i]) \cap Left(work[j]) = {}

\* As long as the block in which an arm began is open the builder is still in it,
\* and nothing but blocks has been opened since.
StillThere ==
  \A i \in DOMAIN work : \A b \in Begun(work[i]) :
    /\ b \in DOMAIN ended
    /\ ended[b] \/ (b = cur /\ \A k \in DOMAIN work : k > i => work[k].kind = "block")

Started == work # <<>> /\ Top.at \in Starts => ~ ended[cur]

ScopesMatch == Len(scopes) = Depth(Scoping, Len(work))

IInv ==
  /\ TypeOK /\ Len(ended) <= MaxBlocks
  /\ Shaped /\ Fresh /\ Apart /\ StillThere /\ Started
  /\ OnlyRestsLate /\ LoopsMatch /\ ScopesMatch
-----------------------------------------------------------------------------
(* The moves of the recursion: w is work after them.                       *)

Below(w) == \A i \in 1 .. Len(work) - 1 : w[i] = work[i]

\* The statement in the list, the arm or the body is through, or in progress.
Onwards(g) ==
  /\ g \in Frames /\ g.kind = Top.kind /\ g.own = Top.own
  /\ Left(g) = Left(Top) /\ Begun(g) = Begun(Top)
  /\ Fits(g) /\ g.at \notin Starts

Resumed(w) ==
  /\ w \in Seq(Frames) /\ Len(w) = Len(work) /\ Below(w)
  /\ Onwards(w[Len(work)])

Nested(w, f) ==
  /\ w \in Seq(Frames) /\ Len(w) = Len(work) + 1 /\ Below(w)
  /\ Onwards(w[Len(work)])
  /\ w[Len(work) + 1] = f

\* The last frame is now g.
Turned(w, g) ==
  /\ w \in Seq(Frames) /\ Len(w) = Len(work) /\ Below(w)
  /\ w[Len(work)] = g

Popped(w) == w \in Seq(Frames) /\ Len(w) = Len(work) - 1 /\ Below(w)

\* The moves of the builder.  In every one what had ended remains so.
Stays ==
  /\ cur' = cur /\ Len(ended') = Len(ended)
  /\ \A b \in DOMAIN ended : (b # cur => ended'[b] = ended[b]) /\ (ended[b] => ended'[b])

\* It goes on in a new block; that in which it was has ended.
Grows ==
  /\ Len(ended') >= Len(ended)
  /\ cur' \in Len(ended) + 1 .. Len(ended') /\ ~ ended'[cur']
  /\ ended'[cur]
  /\ \A b \in DOMAIN ended : b # cur => ended'[b] = ended[b]

\* It goes on in a block of the last statement.  Only the end of an arm or a case
\* may leave the old one open.
Turns ==
  /\ cur' \in Left(Top) /\ ~ ended'[cur'] /\ Len(ended') = Len(ended)
  /\ \A b \in DOMAIN ended :
       /\ b \notin Left(Top) \cup {cur} => ended'[b] = ended[b]
       /\ ended[b] => ended'[b]
  /\ ended'[cur] \/ Top.at \in {"armDone", "elseDone"} \/ Top.kind = "switch"

\* A simple statement.
Plain == AtStatement /\ Resumed(work') /\ Stays /\ loops' = loops /\ Len(scopes') = Len(scopes)

\* A switch without cases.
Skips == AtStatement /\ Resumed(work') /\ Grows /\ loops' = loops /\ Len(scopes') = Len(scopes)

\* A compound statement f begins.
Enters(f) ==
  /\ AtStatement /\ Nested(work', f) /\ Grows
  /\ f.kind \notin {"function", "block"} /\ Fits(f) /\ Distinct(f)
  /\ \A k \in DOMAIN f.own : f.own[k] \in Len(ended) + 1 .. Len(ended')
  /\ \A b \in Left(f) : b \in Len(ended) + 1 .. Len(ended') /\ ~ ended'[b] /\ b # cur'
  /\ Begun(f) \subseteq {cur'}
  /\ f.kind \in Catchers => Targets(f) \in (1 .. MaxBlocks) \X (1 .. MaxBlocks)
  /\ loops' = IF f.kind \in Catchers THEN Append(loops, Targets(f)) ELSE loops
  /\ Len(scopes') = Len(scopes) + IF f.kind \in Scoping THEN 1 ELSE 0

EntersBlock(f) ==
  /\ AtStatement /\ Nested(work', f) /\ UNCHANGED <<ended, cur, loops>>
  /\ f = Frame("block", "list", <<>>)
  /\ Len(scopes') = Len(scopes) + 1

LeavesBlock ==
  /\ work # <<>> /\ Top.kind = "block" /\ Popped(work') /\ UNCHANGED <<ended, cur, loops>>
  /\ Len(scopes') = Len(scopes) - 1

\* From an arm to the else, from a case to the next.
TurnsTo(g) ==
  /\ work # <<>> /\ Turned(work', g) /\ Turns
  /\ g.kind = Top.kind /\ Top.kind \in {"if", "switch"} /\ Fits(g) /\ Distinct(g)
  /\ \A k \in DOMAIN g.own : g.own[k] \in DOMAIN ended
  /\ Left(g) = Left(Top) \ {cur'} /\ Begun(g) = {cur'}
  /\ \A b \in Left(g) : ended'[b] = ended[b]
  /\ g.kind \in Catchers => Targets(g) = Targets(Top)
  /\ loops' = loops /\ Len(scopes') = Len(scopes)

\* The last statement ends.
Finishes ==
  /\ work # <<>> /\ Popped(work') /\ Turns
  /\ Top.kind \notin {"function", "block"}
  /\ \A b \in Left(Top) : b = cur' \/ ended'[b]
  /\ loops' = IF Top.kind \in Catchers THEN Pop(loops) ELSE loops
  /\ Len(scopes') = Len(scopes) - IF Top.kind \in Scoping THEN 1 ELSE 0

\* The function's last block returns.
Returns(g) ==
  /\ work # <<>> /\ Top.kind = "function" /\ Turned(work', g) /\ Stays
  /\ ended'[cur]
  /\ g.kind = "function" /\ Fits(g) /\ g.at = "bodyDone" /\ Distinct(g)
  /\ loops' = loops /\ Len(scopes') = Len(scopes)

Begins ==
  /\ work = <<>> /\ work' = <<Frame("function", "list", <<>>)>>
  /\ ended' = <<FALSE>> /\ cur' = 1 /\ loops' = loops /\ Len(scopes') = 1

Quits ==
  /\ work' = <<>> /\ ended' = <<>> /\ cur' = 0
  /\ loops' = <<>> /\ scopes' = <<>>

Move ==
  \/ Plain \/ Skips
  \/ (\E f \in Frames : Enters(f)) \/ (\E f \in Frames : EntersBlock(f)) \/ LeavesBlock
  \/ (\E g \in Frames : TurnsTo(g)) \/ Finishes
  \/ (\E g \in Frames : Returns(g)) \/ Begins \/ Quits

\* What else an action may change.
Typed ==
  /\ ended' \in Seq(BOOLEAN) /\ Len(ended') <= MaxBlocks
  /\ loops' \in Seq((1 .. MaxBlocks) \X (1 .. MaxBlocks))
  /\ locals' \in [Names -> 0 .. MaxDecls] /\ scopes' \in Seq([Names -> 0 .. MaxDecls])
  /\ late' \subseteq {"rest"}
-----------------------------------------------------------------------------
(* What the operators on work do.                                          *)

LEMMA TopFacts ==
  ASSUME TypeOK, Shaped, work # <<>>
  PROVE  /\ work \in Seq(Frames) /\ Len(work) \in Nat /\ Len(work) >= 1
         /\ DOMAIN work = 1 .. Len(work) /\ Len(work) \in DOMAIN work
         /\ Top \in Frames /\ Fits(Top) /\ Distinct(Top)
         /\ Top.kind = "function" <=> Len(work) = 1
         /\ ended \in Seq(BOOLEAN) /\ DOMAIN ended = 1 .. Len(ended) /\ Len(ended) \in Nat
         /\ cur \in DOMAIN ended
         /\ \A k \in DOMAIN Top.own : Top.own[k] \in DOMAIN ended
<1>1. work \in Seq(Frames) /\ ended \in Seq(BOOLEAN) /\ cur \in DOMAIN ended
  BY DEF TypeOK
<1>2. Len(work) \in Nat /\ Len(work) >= 1 /\ DOMAIN work = 1 .. Len(work)
  BY <1>1, LenProperties, EmptySeq
<1>3. Len(work) \in DOMAIN work
  BY <1>2
<1>4. Top \in Frames
  BY <1>1, <1>2, <1>3, ElementOfSeq DEF Top
<1>5. DOMAIN ended = 1 .. Len(ended) /\ Len(ended) \in Nat
  BY <1>1, LenProperties
<1> QED
  BY <1>1, <1>2, <1>3, <1>4, <1>5 DEF Shaped, Top, TypeOK

LEMMA WorkLength ==
  ASSUME TypeOK, work # <<>>
  PROVE  Len(work) \in Nat /\ Len(work) >= 1 /\ DOMAIN work = 1 .. Len(work)
<1>1. work \in Seq(Frames)
  BY DEF TypeOK
<1> QED BY <1>1, LenProperties, EmptySeq

LEMMA PopFacts ==
  ASSUME NEW S, NEW s \in Seq(S), Len(s) >= 1
  PROVE  /\ Pop(s) \in Seq(S) /\ Len(Pop(s)) = Len(s) - 1
         /\ \A i \in 1 .. Len(s) - 1 : Pop(s)[i] = s[i]
<1> DEFINE n == Len(s) - 1
<1>1. n \in Nat /\ 1 \in Int /\ n \in Int
  BY LenProperties
<1>2. \A i \in 1 .. n : s[i] \in S
  BY <1>1, ElementOfSeq, LenProperties
<1> HIDE DEF n
<1>3. /\ SubSeq(s, 1, n) \in Seq(S)
      /\ Len(SubSeq(s, 1, n)) = IF 1 <= n THEN n - 1 + 1 ELSE 0
      /\ \A i \in 1 .. n - 1 + 1 : SubSeq(s, 1, n)[i] = s[1 + i - 1]
  BY <1>1, <1>2, SubSeqProperties
<1>4. \A i \in 1 .. n : SubSeq(s, 1, n)[i] = s[i]
  <2> TAKE i \in 1 .. n
  <2>1. i \in 1 .. n - 1 + 1 /\ 1 + i - 1 = i
    BY <1>1
  <2> QED BY <1>3, <2>1
<1>5. Len(SubSeq(s, 1, n)) = n
  BY <1>1, <1>3
<1> QED BY <1>3, <1>4, <1>5 DEF Pop, n

\* A frame of s put at another place.
LEMMA PutFacts ==
  ASSUME TypeOK, Shaped, work # <<>>, NEW g \in Frames
  PROVE  Turned([work EXCEPT ![Len(work)] = g], g)
<1> DEFINE w == [work EXCEPT ![Len(work)] = g]
<1>1. Len(work) \in 1 .. Len(work) /\ work \in Seq(Frames) /\ Len(work) \in Nat
  BY TopFacts
<1>2. /\ w \in Seq(Frames) /\ Len(w) = Len(work)
      /\ \A j \in 1 .. Len(work) : w[j] = IF j = Len(work) THEN g ELSE work[j]
  BY <1>1, ExceptSeq
<1> HIDE DEF w
<1>3. Below(w) /\ w[Len(work)] = g
  BY <1>1, <1>2 DEF Below
<1>4. Turned(w, g)
  BY <1>2, <1>3 DEF Turned
<1> QED BY <1>4 DEF w

LEMMA MoveToFacts ==
  ASSUME TypeOK, Shaped, work # <<>>, NEW at \in Places
  PROVE  LET g == [Top EXCEPT !.at = at] IN g \in Frames /\ Turned(MoveTo(at), g)
<1> DEFINE g == [Top EXCEPT !.at = at]
<1>1. g \in Frames
  BY TopFacts DEF Frames
<1>2. MoveTo(at) = [work EXCEPT ![Len(work)] = g]
  BY TopFacts DEF MoveTo, Top
<1> QED
  BY <1>1, <1>2, PutFacts

LEMMA OnwardFacts ==
  ASSUME NEW f \in Frames, Fits(f), NEW g, g = [f EXCEPT !.at = Onward(f.at)]
  PROVE  /\ g \in Frames /\ g.kind = f.kind /\ g.own = f.own
         /\ Left(g) = Left(f) /\ Begun(g) = Begun(f) /\ Fits(g) /\ g.at \notin Starts
<1>1. f.at \in Places
  BY DEF Frames
<1>2. Onward(f.at) \in Places
  BY <1>1 DEF Onward, Places
<1>3. g \in Frames /\ g.kind = f.kind /\ g.own = f.own /\ g.at = Onward(f.at)
  BY <1>2 DEF Frames
<1>4. CASE f.kind = "if"
  <2>1. Fits(g) /\ g.at \notin Starts
    BY <1>3, <1>4 DEF Fits, Onward, Starts
  <2>2. CASE f.at \in {"arm", "armDone"}
    <3>1. g.at = "armDone"
      BY <1>3, <2>2 DEF Onward
    <3> QED BY <1>3, <1>4, <2>1, <2>2, <3>1 DEF Left, Begun
  <2>3. CASE f.at \in {"else", "elseDone"}
    <3>1. g.at = "elseDone"
      BY <1>3, <2>3 DEF Onward
    <3> QED BY <1>3, <1>4, <2>1, <2>3, <3>1 DEF Left, Begun
  <2> QED BY <1>4, <2>2, <2>3 DEF Fits
<1>5. CASE f.kind # "if"
  <2>1. Fits(g) /\ g.at \notin Starts
    BY <1>3, <1>5 DEF Fits, Onward, Starts
  <2>2. Left(g) = Left(f)
    BY <1>3, <1>5 DEF Left
  <2>3. Begun(g) = Begun(f)
    BY <1>3, <1>5 DEF Begun
  <2> QED BY <1>3, <2>1, <2>2, <2>3
<1> QED BY <1>4, <1>5

LEMMA AdvanceFacts ==
  ASSUME TypeOK, Shaped, work # <<>>
  PROVE  Resumed(Advance)
<1> DEFINE g == [Top EXCEPT !.at = Onward(Top.at)]
<1>1. Advance = [work EXCEPT ![Len(work)] = g]
  BY TopFacts DEF Advance, Top
<1>2. g \in Frames /\ Onwards(g)
  <2>1. Top \in Frames /\ Fits(Top)
    BY TopFacts
  <2> QED BY <2>1, OnwardFacts DEF Onwards
<1> HIDE DEF g
<1>3. Turned(Advance, g)
  BY <1>1, <1>2, PutFacts
<1> QED
  BY <1>2, <1>3 DEF Turned, Resumed

LEMMA PushFacts ==
  ASSUME TypeOK, Shaped, work # <<>>, NEW f \in Frames
  PROVE  Nested(Push(f), f)
<1> DEFINE a == Advance
<1>1. a \in Seq(Frames) /\ Len(a) = Len(work) /\ Below(a) /\ Onwards(a[Len(work)])
  BY AdvanceFacts DEF Resumed
<1> HIDE DEF a
<1>2. /\ Append(a, f) \in Seq(Frames) /\ Len(Append(a, f)) = Len(work) + 1
      /\ \A i \in 1 .. Len(work) : Append(a, f)[i] = a[i]
      /\ Append(a, f)[Len(work) + 1] = f
  BY <1>1, AppendProperties
<1>3. Below(Append(a, f)) /\ Append(a, f)[Len(work)] = a[Len(work)]
  BY <1>1, <1>2, TopFacts DEF Below
<1> QED
  BY <1>1, <1>2, <1>3 DEF Nested, Push, a

LEMMA WorkPops ==
  ASSUME TypeOK, Shaped, work # <<>>
  PROVE  Popped(Pop(work))
BY TopFacts, PopFacts DEF Popped, Below
-----------------------------------------------------------------------------
(* Frames and their order.                                                 *)

\* The frames there were keep what the invariant says of them.
LEMMA KeptParts ==
  ASSUME TypeOK, Shaped, work # <<>>, NEW w, Below(w), Onwards(w[Len(work)])
  PROVE  \A i \in 1 .. Len(work) :
           /\ w[i].kind = work[i].kind /\ w[i].own = work[i].own
           /\ Left(w[i]) = Left(work[i]) /\ Begun(w[i]) = Begun(work[i])
           /\ Fits(w[i]) /\ Distinct(w[i]) /\ w[i].at \notin Starts
<1> TAKE i \in 1 .. Len(work)
<1>1. CASE i = Len(work)
  BY <1>1, TopFacts DEF Onwards, Top, Distinct
<1>2. CASE i # Len(work)
  <2>1. i \in DOMAIN work /\ i < Len(work) /\ i \in 1 .. Len(work) - 1
    <3>1. Len(work) \in Nat /\ DOMAIN work = 1 .. Len(work)
      BY WorkLength
    <3>2. i \in 1 .. Len(work)
      OBVIOUS
    <3>3. \A n \in Nat : i \in 1 .. n /\ i # n => i < n /\ i \in 1 .. n - 1
      OBVIOUS
    <3> QED BY <1>2, <3>1, <3>2, <3>3
  <2>2. w[i] = work[i]
    BY <2>1 DEF Below
  <2> QED BY <2>1, <2>2 DEF Shaped
<1> QED BY <1>1, <1>2

\* How work' is made, for those moves that do not empty it.
Made ==
  \/ Resumed(work')
  \/ \E f \in Frames : Nested(work', f) /\ Fits(f) /\ Distinct(f) /\ f.kind # "function"
  \/ Popped(work')
  \/ \E g \in Frames : Turned(work', g) /\ Fits(g) /\ Distinct(g) /\ g.kind = Top.kind

LEMMA MoveMakes ==
  ASSUME IInv, Move
  PROVE  (work # <<>> /\ Made) \/ Begins \/ Quits
<1>1. CASE Plain \/ Skips
  BY <1>1 DEF Plain, Skips, AtStatement, Made
<1>2. ASSUME NEW f \in Frames, Enters(f) PROVE work # <<>> /\ Made
  BY <1>2 DEF Enters, AtStatement, Made
<1>3. ASSUME NEW f \in Frames, EntersBlock(f) PROVE work # <<>> /\ Made
  <2>1. f.kind = "block" /\ f.at = "list" /\ f.own = <<>>
    BY <1>3 DEF EntersBlock, Frame
  <2>2. Fits(f) /\ Distinct(f)
    BY <2>1 DEF Fits, Distinct
  <2> QED BY <1>3, <2>1, <2>2 DEF EntersBlock, AtStatement, Made
<1>4. CASE LeavesBlock \/ Finishes
  BY <1>4 DEF LeavesBlock, Finishes, Made
<1>5. ASSUME NEW g \in Frames, TurnsTo(g) \/ Returns(g) PROVE work # <<>> /\ Made
  BY <1>5 DEF TurnsTo, Returns, Made
<1> QED BY <1>1, <1>2, <1>3, <1>4, <1>5 DEF Move

LEMMA FirstFrame ==
  /\ Frame("function", "list", <<>>) \in Frames
  /\ Fits(Frame("function", "list", <<>>)) /\ Distinct(Frame("function", "list", <<>>))
  /\ Frame("function", "list", <<>>).kind = "function"
  /\ Frame("function", "list", <<>>).at = "list" /\ Frame("function", "list", <<>>).own = <<>>
<1>1. <<>> \in Seq(1 .. MaxBlocks)
  BY EmptySeq
<1> QED BY <1>1 DEF Frame, Frames, Fits, Distinct, Places

LEMMA ShapedKept ==
  ASSUME IInv, Move
  PROVE  Shaped' /\ work' \in Seq(Frames)
<1>1. ASSUME work # <<>>, Resumed(work') PROVE Shaped' /\ work' \in Seq(Frames)
  <2>1. DOMAIN work' = 1 .. Len(work) /\ work' \in Seq(Frames) /\ Len(work') = Len(work)
    BY <1>1, LenProperties DEF Resumed
  <2>2. \A i \in 1 .. Len(work) :
          work'[i].kind = work[i].kind /\ Fits(work'[i]) /\ Distinct(work'[i]) /\ work'[i].at \notin Starts
    BY <1>1, KeptParts DEF Resumed, IInv
  <2> QED BY <1>1, <2>1, <2>2, TopFacts DEF Shaped, IInv
<1>2. ASSUME work # <<>>, NEW f \in Frames, Nested(work', f), Fits(f), Distinct(f), f.kind # "function"
      PROVE  Shaped' /\ work' \in Seq(Frames)
  <2>1. DOMAIN work' = 1 .. Len(work) + 1 /\ work' \in Seq(Frames) /\ Len(work') = Len(work) + 1
    BY <1>2, LenProperties DEF Nested
  <2>2. \A i \in 1 .. Len(work) :
          work'[i].kind = work[i].kind /\ Fits(work'[i]) /\ Distinct(work'[i]) /\ work'[i].at \notin Starts
    BY <1>2, KeptParts DEF Nested, IInv
  <2>3. work'[Len(work) + 1] = f
    BY <1>2 DEF Nested
  <2>4. Len(work) \in Nat /\ Len(work) >= 1 /\ DOMAIN work = 1 .. Len(work)
    BY <1>2, TopFacts DEF IInv
  <2>5. \A i \in DOMAIN work' : i \in 1 .. Len(work) \/ i = Len(work) + 1
    BY <2>1, <2>4
  <2>6. \A i \in 1 .. Len(work) : work'[i].kind = "function" <=> i = 1
    BY <2>2, <2>4 DEF Shaped, IInv
  <2>7. Len(work) + 1 # 1 /\ ~ (Len(work) + 1 < Len(work'))
    BY <2>1, <2>4
  <2> QED BY <1>2, <2>1, <2>2, <2>3, <2>5, <2>6, <2>7 DEF Shaped
<1>3. ASSUME work # <<>>, Popped(work') PROVE Shaped' /\ work' \in Seq(Frames)
  <2>1. DOMAIN work' = 1 .. Len(work) - 1 /\ work' \in Seq(Frames) /\ Len(work') = Len(work) - 1
    BY <1>3, LenProperties DEF Popped
  <2>2. \A i \in 1 .. Len(work) - 1 : work'[i] = work[i] /\ i \in DOMAIN work /\ i < Len(work)
    BY <1>3, TopFacts DEF Popped, Below, IInv
  <2> QED BY <2>1, <2>2 DEF Shaped, IInv
<1>4. ASSUME work # <<>>, NEW g \in Frames, Turned(work', g), Fits(g), Distinct(g), g.kind = Top.kind
      PROVE  Shaped' /\ work' \in Seq(Frames)
  <2>1. DOMAIN work' = 1 .. Len(work) /\ work' \in Seq(Frames) /\ Len(work') = Len(work)
    BY <1>4, LenProperties DEF Turned
  <2>2. Len(work) \in Nat /\ DOMAIN work = 1 .. Len(work)
    BY <1>4, TopFacts DEF IInv
  <2>3. \A i \in 1 .. Len(work) : i # Len(work) => work'[i] = work[i] /\ i \in DOMAIN work
    BY <1>4, <2>2 DEF Turned, Below
  <2>4. work'[Len(work)] = g /\ (g.kind = "function" <=> Len(work) = 1)
    BY <1>4, TopFacts DEF Turned, IInv
  <2>5. \A i \in DOMAIN work' : i = Len(work) \/ (i # Len(work) /\ i \in 1 .. Len(work) /\ i < Len(work))
    BY <2>1, <2>2
  <2>6. ~ (Len(work) < Len(work'))
    BY <2>1, <2>2
  <2>7. \A i \in DOMAIN work : /\ Fits(work[i]) /\ Distinct(work[i])
                               /\ work[i].kind = "function" <=> i = 1
                               /\ i < Len(work) => work[i].at \notin Starts
    BY DEF Shaped, IInv
  <2>8. ASSUME NEW i \in DOMAIN work'
        PROVE /\ Fits(work'[i]) /\ Distinct(work'[i])
              /\ work'[i].kind = "function" <=> i = 1
              /\ i < Len(work') => work'[i].at \notin Starts
    <3>1. CASE i = Len(work)
      BY <1>4, <2>4, <2>6, <3>1
    <3>2. CASE i # Len(work)
      BY <2>1, <2>3, <2>5, <2>7, <3>2
    <3> QED BY <3>1, <3>2
  <2> QED BY <2>1, <2>8 DEF Shaped
<1>5. CASE Begins
  <2>1. work' = <<Frame("function", "list", <<>>)>>
    BY <1>5 DEF Begins
  <2> DEFINE f == Frame("function", "list", <<>>)
  <2>2. f \in Frames /\ Fits(f) /\ Distinct(f) /\ f.kind = "function"
    BY FirstFrame
  <2> HIDE DEF f
  <2>3. work' = <<f>>
    BY <2>1 DEF f
  <2>4. work' \in Seq(Frames) /\ Len(work') = 1 /\ work'[1] = f /\ DOMAIN work' = {1}
    BY <2>2, <2>3
  <2> QED BY <2>2, <2>4 DEF Shaped
<1>6. CASE Quits
  <2>1. work' = <<>> /\ work' \in Seq(Frames)
    BY <1>6, EmptySeq DEF Quits
  <2> QED BY <2>1 DEF Shaped
<1> QED BY <1>1, <1>2, <1>3, <1>4, <1>5, <1>6, MoveMakes DEF Made
-----------------------------------------------------------------------------
(* The blocks.                                                             *)

LEMMA Indices ==
  ASSUME NEW n \in Nat
  PROVE  /\ \A i \in 1 .. n : i # n => i < n /\ i \in 1 .. n - 1
         /\ \A i \in 1 .. n - 1 : i # n /\ i < n /\ i \in 1 .. n
OBVIOUS

LEMMA EndedTypes ==
  ASSUME IInv, Typed
  PROVE  /\ DOMAIN ended = 1 .. Len(ended) /\ Len(ended) \in Nat
         /\ DOMAIN ended' = 1 .. Len(ended') /\ Len(ended') \in Nat
         /\ work # <<>> => cur \in DOMAIN ended
BY LenProperties DEF IInv, TypeOK, Typed

\* A block that is not the builder's stays as it is, if it is not one to which the
\* builder turns; and what has ended has ended.
LEMMA Untouched ==
  ASSUME IInv, Typed, work # <<>>, NEW b \in DOMAIN ended
  PROVE  /\ Stays \/ Grows \/ Turns => b \in DOMAIN ended' /\ (ended[b] => ended'[b])
         /\ Stays /\ ~ ended[b] /\ b # cur => ~ ended'[b] /\ b # cur'
         /\ Grows /\ ~ ended[b] /\ b # cur => ~ ended'[b] /\ b # cur'
         /\ Turns /\ ~ ended[b] /\ b # cur /\ b \notin Left(Top) => ~ ended'[b] /\ b # cur'
<1>1. CASE Stays
  <2>1. b \in DOMAIN ended'
    BY <1>1, EndedTypes DEF Stays
  <2>2. (b # cur => ended'[b] = ended[b]) /\ (ended[b] => ended'[b]) /\ cur' = cur
    BY <1>1 DEF Stays
  <2>3. Grows => ~ ended'[cur'] /\ ended'[cur]
    BY DEF Grows
  <2>4. Turns /\ b \notin Left(Top) => b # cur'
    BY DEF Turns
  <2>5. Grows => b # cur'
    BY EndedTypes DEF Grows
  <2> QED BY <1>1, <2>1, <2>2, <2>4, <2>5
<1>2. CASE Grows
  <2>1. b \in DOMAIN ended' /\ b # cur'
    BY <1>2, EndedTypes DEF Grows
  <2>2. (b # cur => ended'[b] = ended[b]) /\ ended'[cur]
    BY <1>2 DEF Grows
  <2> QED BY <1>2, <2>1, <2>2
<1>3. CASE Turns
  <2>1. b \in DOMAIN ended'
    BY <1>3, EndedTypes DEF Turns
  <2>2. /\ b \notin Left(Top) \cup {cur} => ended'[b] = ended[b]
        /\ ended[b] => ended'[b]
        /\ cur' \in Left(Top)
    BY <1>3 DEF Turns
  <2>3. Stays /\ ended[b] => ended'[b]
    BY DEF Stays
  <2>4. Stays /\ b # cur => ended'[b] = ended[b] /\ b # cur'
    BY DEF Stays
  <2>5. Grows /\ b # cur => ended'[b] = ended[b] /\ b # cur'
    BY EndedTypes DEF Grows
  <2> QED BY <2>1, <2>2, <2>4, <2>5
<1> QED BY <1>1, <1>2, <1>3

\* Of the frame below the last the blocks are none of the last's.
LEMMA LeftBelow ==
  ASSUME IInv, work # <<>>, NEW i \in 1 .. Len(work) - 1, NEW b \in Left(work[i])
  PROVE  b \in DOMAIN ended /\ ~ ended[b] /\ b # cur /\ b \notin Left(Top)
<1>1. Len(work) \in Nat /\ Len(work) >= 1 /\ DOMAIN work = 1 .. Len(work)
  BY WorkLength DEF IInv
<1>2. i \in DOMAIN work /\ Len(work) \in DOMAIN work /\ i # Len(work)
  <2>1. Len(work) \in 1 .. Len(work)
    BY <1>1
  <2>2. i \in 1 .. Len(work) /\ i # Len(work)
    BY <1>1, Indices
  <2> QED BY <1>1, <2>1, <2>2
<1>3. Left(work[i]) \cap Left(work[Len(work)]) = {}
  BY <1>2 DEF IInv, Apart
<1> QED BY <1>2, <1>3 DEF IInv, Fresh, Top

LEMMA FreshKept ==
  ASSUME IInv, Move, Typed
  PROVE  Fresh' /\ Apart'
<1>1. CASE Plain \/ Skips
  <2>1. work # <<>> /\ Resumed(work') /\ (Stays \/ Grows)
    BY <1>1 DEF Plain, Skips, AtStatement
  <2>2. DOMAIN work' = 1 .. Len(work) /\ DOMAIN work = 1 .. Len(work)
    BY <2>1, LenProperties, WorkLength DEF Resumed, IInv
  <2>3. \A i \in 1 .. Len(work) : Left(work'[i]) = Left(work[i])
    BY <2>1, KeptParts DEF Resumed, IInv
  <2>4. Apart'
    BY <2>2, <2>3, Zenon DEF Apart, IInv
  <2>5. ASSUME NEW i \in DOMAIN work', NEW b \in Left(work'[i])
        PROVE  b \in DOMAIN ended' /\ ~ ended'[b] /\ b # cur'
    <3>1. b \in DOMAIN ended /\ ~ ended[b] /\ b # cur
      BY <2>2, <2>3, <2>5 DEF Fresh, IInv
    <3> QED BY <2>1, <3>1, Untouched
  <2> QED BY <2>4, <2>5 DEF Fresh
<1>2. ASSUME NEW f \in Frames, Enters(f) \/ EntersBlock(f) PROVE Fresh' /\ Apart'
  <2>1. work # <<>> /\ Nested(work', f) /\ (Stays \/ Grows)
    BY <1>2 DEF Enters, EntersBlock, AtStatement, Stays
  <2>2. /\ DOMAIN work' = 1 .. Len(work) + 1 /\ DOMAIN work = 1 .. Len(work)
        /\ Len(work) \in Nat
    BY <2>1, LenProperties, WorkLength DEF Nested, IInv
  <2>3. \A i \in 1 .. Len(work) : Left(work'[i]) = Left(work[i])
    BY <2>1, KeptParts DEF Nested, IInv
  <2>4. work'[Len(work) + 1] = f
    BY <2>1 DEF Nested
  <2>5. \A i \in DOMAIN work' : i \in 1 .. Len(work) \/ i = Len(work) + 1
    BY <2>2
  <2>6. ASSUME NEW i \in 1 .. Len(work), NEW b \in Left(work'[i])
        PROVE  b \in DOMAIN ended /\ b \in DOMAIN ended' /\ ~ ended'[b] /\ b # cur'
    <3>1. b \in DOMAIN ended /\ ~ ended[b] /\ b # cur
      BY <2>2, <2>3, <2>6 DEF Fresh, IInv
    <3> QED BY <2>1, <3>1, Untouched
  <2>7. ASSUME NEW b \in Left(f)
        PROVE  b \notin DOMAIN ended /\ b \in DOMAIN ended' /\ ~ ended'[b] /\ b # cur'
    <3>1. CASE Enters(f)
      <4>1. b \in Len(ended) + 1 .. Len(ended') /\ ~ ended'[b] /\ b # cur'
        BY <2>7, <3>1 DEF Enters
      <4> QED BY <4>1, EndedTypes
    <3>2. CASE EntersBlock(f)
      <4>1. f.kind = "block"
        BY <3>2 DEF EntersBlock, Frame
      <4> QED BY <2>7, <4>1 DEF Left
    <3> QED BY <1>2, <3>1, <3>2
  <2>8. Fresh'
    <3> SUFFICES ASSUME NEW i \in DOMAIN work', NEW b \in Left(work'[i])
                 PROVE  b \in DOMAIN ended' /\ ~ ended'[b] /\ b # cur'
      BY DEF Fresh
    <3> QED BY <2>4, <2>5, <2>6, <2>7
  <2>9. Apart'
    <3> SUFFICES ASSUME NEW i \in DOMAIN work', NEW j \in DOMAIN work', i # j,
                        NEW b \in Left(work'[i]), b \in Left(work'[j])
                 PROVE  FALSE
      BY DEF Apart
    <3>1. CASE i \in 1 .. Len(work) /\ j \in 1 .. Len(work)
      BY <2>2, <2>3, <3>1, Zenon DEF Apart, IInv
    <3>2. CASE i = Len(work) + 1 /\ j \in 1 .. Len(work)
      BY <2>4, <2>6, <2>7, <3>2
    <3>3. CASE j = Len(work) + 1 /\ i \in 1 .. Len(work)
      BY <2>4, <2>6, <2>7, <3>3
    <3> QED BY <2>5, <3>1, <3>2, <3>3
  <2> QED BY <2>8, <2>9
<1>3. CASE LeavesBlock \/ Finishes
  <2>1. work # <<>> /\ Popped(work') /\ (Stays \/ Turns)
    BY <1>3 DEF LeavesBlock, Finishes, Stays
  <2>2. DOMAIN work' = 1 .. Len(work) - 1 /\ DOMAIN work = 1 .. Len(work) /\ Len(work) \in Nat
    BY <2>1, LenProperties, WorkLength DEF Popped, IInv
  <2>3. \A i \in 1 .. Len(work) - 1 : work'[i] = work[i] /\ i \in DOMAIN work
    BY <2>1, <2>2 DEF Popped, Below
  <2>4. Apart'
    BY <2>2, <2>3, Zenon DEF Apart, IInv
  <2>5. ASSUME NEW i \in DOMAIN work', NEW b \in Left(work'[i])
        PROVE  b \in DOMAIN ended' /\ ~ ended'[b] /\ b # cur'
    <3>1. b \in DOMAIN ended /\ ~ ended[b] /\ b # cur /\ b \notin Left(Top)
      BY <2>1, <2>2, <2>3, <2>5, LeftBelow
    <3> QED BY <2>1, <3>1, Untouched
  <2> QED BY <2>4, <2>5 DEF Fresh
<1>4. ASSUME NEW g \in Frames, TurnsTo(g) \/ Returns(g) PROVE Fresh' /\ Apart'
  <2>1. work # <<>> /\ Turned(work', g) /\ (Stays \/ Turns)
    BY <1>4 DEF TurnsTo, Returns
  <2>2. DOMAIN work' = 1 .. Len(work) /\ DOMAIN work = 1 .. Len(work) /\ Len(work) \in Nat
        /\ Len(work) \in DOMAIN work
    BY <2>1, LenProperties, WorkLength DEF Turned, IInv
  <2>3. \A i \in 1 .. Len(work) : i # Len(work) => i \in 1 .. Len(work) - 1
    BY <2>2, Indices
  <2>4. \A i \in 1 .. Len(work) - 1 : work'[i] = work[i]
    BY <2>1 DEF Turned, Below
  <2>5. work'[Len(work)] = g
    BY <2>1 DEF Turned
  <2>6. ASSUME NEW b \in Left(g)
        PROVE  b \in Left(Top) /\ b \in DOMAIN ended' /\ ~ ended'[b] /\ b # cur'
    <3>1. CASE TurnsTo(g)
      <4>1. b \in Left(Top) /\ b # cur' /\ ended'[b] = ended[b] /\ Turns
        BY <2>6, <3>1 DEF TurnsTo
      <4>2. b \in DOMAIN ended /\ ~ ended[b]
        BY <2>2, <4>1 DEF Fresh, IInv, Top
      <4> QED BY <2>1, <4>1, <4>2, Untouched
    <3>2. CASE Returns(g)
      <4>1. g.kind = "function"
        BY <3>2 DEF Returns
      <4> QED BY <2>6, <4>1 DEF Left
    <3> QED BY <1>4, <3>1, <3>2
  <2>7. ASSUME NEW i \in 1 .. Len(work) - 1, NEW b \in Left(work'[i])
        PROVE  b \in DOMAIN ended' /\ ~ ended'[b] /\ b # cur'
    <3>1. b \in DOMAIN ended /\ ~ ended[b] /\ b # cur /\ b \notin Left(Top)
      BY <2>1, <2>4, <2>7, LeftBelow
    <3> QED BY <2>1, <3>1, Untouched
  <2>8. Fresh'
    <3> SUFFICES ASSUME NEW i \in DOMAIN work', NEW b \in Left(work'[i])
                 PROVE  b \in DOMAIN ended' /\ ~ ended'[b] /\ b # cur'
      BY DEF Fresh
    <3> QED BY <2>2, <2>3, <2>5, <2>6, <2>7
  <2>9. \A i \in 1 .. Len(work) : Left(work'[i]) \subseteq Left(work[i])
    BY <2>3, <2>4, <2>5, <2>6 DEF Top
  <2>10. Apart'
    <3> SUFFICES ASSUME NEW i \in DOMAIN work', NEW j \in DOMAIN work', i # j
                 PROVE  Left(work'[i]) \cap Left(work'[j]) = {}
      BY DEF Apart
    <3>1. Left(work[i]) \cap Left(work[j]) = {}
      BY <2>2 DEF Apart, IInv
    <3> QED BY <2>2, <2>9, <3>1, Zenon
  <2> QED BY <2>8, <2>10
<1>5. CASE Begins
  <2>1. work' = <<Frame("function", "list", <<>>)>>
    BY <1>5 DEF Begins
  <2> DEFINE f == Frame("function", "list", <<>>)
  <2>2. f.kind = "function"
    BY FirstFrame
  <2> HIDE DEF f
  <2>3. DOMAIN work' = {1} /\ work'[1] = f
    BY <2>1 DEF f
  <2>4. Left(f) = {}
    BY <2>2 DEF Left
  <2> QED BY <2>3, <2>4 DEF Fresh, Apart
<1>6. CASE Quits
  <2>1. DOMAIN work' = {}
    BY <1>6 DEF Quits
  <2> QED BY <2>1 DEF Fresh, Apart
<1> QED BY <1>1, <1>2, <1>3, <1>4, <1>5, <1>6 DEF Move

LEMMA BuilderType ==
  ASSUME IInv, Move, Typed
  PROVE  cur' \in (IF work' = <<>> THEN {0} ELSE DOMAIN ended')
<1>1. CASE Plain \/ \E g \in Frames : Returns(g)
  <2>1. work # <<>> /\ Stays
    BY <1>1 DEF Plain, Returns, AtStatement
  <2>2. work' # <<>>
    <3>1. Len(work') = Len(work)
      BY <1>1 DEF Plain, Returns, Resumed, Turned
    <3>2. Len(work) >= 1 /\ Len(work) \in Nat
      BY <2>1, WorkLength DEF IInv
    <3> QED BY <3>1, <3>2
  <2> QED BY <2>1, <2>2, EndedTypes DEF Stays
<1>2. CASE Skips \/ \E f \in Frames : Enters(f)
  <2>1. work # <<>> /\ Grows
    BY <1>2 DEF Skips, Enters, AtStatement
  <2>2. cur' \in DOMAIN ended'
    BY <2>1, EndedTypes DEF Grows
  <2>3. Len(work') >= 1
    <3>1. Len(work') = Len(work) \/ Len(work') = Len(work) + 1
      BY <1>2 DEF Skips, Enters, Resumed, Nested
    <3>2. Len(work) >= 1 /\ Len(work) \in Nat
      BY <2>1, WorkLength DEF IInv
    <3> QED BY <3>1, <3>2
  <2>4. work' # <<>>
    BY <2>3
  <2> QED BY <2>2, <2>4
<1>3. CASE (\E f \in Frames : EntersBlock(f)) \/ LeavesBlock
  <2>1. work # <<>> /\ cur' = cur /\ ended' = ended
    BY <1>3 DEF EntersBlock, LeavesBlock, AtStatement
  <2>2. Len(work') >= 1
    <3>1. Len(work) >= 1 /\ Len(work) \in Nat
      BY <2>1, WorkLength DEF IInv
    <3>2. CASE \E f \in Frames : EntersBlock(f)
      BY <3>1, <3>2 DEF EntersBlock, Nested
    <3>3. CASE LeavesBlock
      <4>1. Len(work) # 1
        BY <2>1, <3>3, TopFacts DEF LeavesBlock, IInv
      <4> QED BY <3>1, <3>3, <4>1 DEF LeavesBlock, Popped
    <3> QED BY <1>3, <3>2, <3>3
  <2>3. work' # <<>>
    BY <2>2
  <2> QED BY <2>1, <2>3, EndedTypes
<1>4. CASE Finishes \/ \E g \in Frames : TurnsTo(g)
  <2>1. work # <<>> /\ Turns
    BY <1>4 DEF Finishes, TurnsTo
  <2>2. cur' \in DOMAIN ended'
    <3>1. Len(work) \in DOMAIN work /\ cur' \in Left(work[Len(work)])
      BY <2>1, TopFacts DEF IInv, Turns, Top
    <3>2. cur' \in DOMAIN ended
      BY <3>1 DEF IInv, Fresh
    <3> QED BY <2>1, <3>2, EndedTypes DEF Turns
  <2>3. Len(work') >= 1
    <3>1. Len(work) >= 1 /\ Len(work) \in Nat
      BY <2>1, WorkLength DEF IInv
    <3>2. CASE \E g \in Frames : TurnsTo(g)
      BY <3>1, <3>2 DEF TurnsTo, Turned
    <3>3. CASE Finishes
      <4>1. Len(work) # 1
        BY <2>1, <3>3, TopFacts DEF Finishes, IInv
      <4> QED BY <3>1, <3>3, <4>1 DEF Finishes, Popped
    <3> QED BY <1>4, <3>2, <3>3
  <2>4. work' # <<>>
    BY <2>3
  <2> QED BY <2>2, <2>4
<1>5. CASE Begins
  BY <1>5 DEF Begins
<1>6. CASE Quits
  BY <1>6 DEF Quits
<1> QED BY <1>1, <1>2, <1>3, <1>4, <1>5, <1>6 DEF Move

LEMMA StartedKept ==
  ASSUME IInv, Move, Typed
  PROVE  Started'
<1>1. CASE Skips \/ (\E f \in Frames : Enters(f)) \/ Finishes \/ (\E g \in Frames : TurnsTo(g))
  BY <1>1 DEF Skips, Enters, Finishes, TurnsTo, Grows, Turns, Started
<1>2. CASE Plain
  <2>1. Len(work') = Len(work) /\ work'[Len(work)].at \notin Starts
    BY <1>2 DEF Plain, Resumed, Onwards
  <2> QED BY <2>1 DEF Started, Top
<1>3. ASSUME NEW f \in Frames, EntersBlock(f) PROVE Started'
  <2>1. Len(work') = Len(work) + 1 /\ work'[Len(work) + 1] = f /\ f.at = "list"
    BY <1>3 DEF EntersBlock, Nested, Frame
  <2> QED BY <2>1 DEF Started, Top, Starts
<1>4. CASE LeavesBlock
  <2>1. /\ work # <<>> /\ Popped(work') /\ Len(work) # 1
    BY <1>4, TopFacts DEF LeavesBlock, IInv
  <2>2. Len(work) \in Nat /\ Len(work) >= 1 /\ DOMAIN work = 1 .. Len(work)
    BY <2>1, WorkLength DEF IInv
  <2>3. Len(work) - 1 \in 1 .. Len(work) - 1 /\ Len(work) - 1 \in DOMAIN work /\ Len(work) - 1 < Len(work)
    BY <2>1, <2>2
  <2>4. Len(work') = Len(work) - 1 /\ work'[Len(work) - 1] = work[Len(work) - 1]
    BY <2>1, <2>3 DEF Popped, Below
  <2> QED BY <2>3, <2>4 DEF Started, Top, Shaped, IInv
<1>5. ASSUME NEW g \in Frames, Returns(g) PROVE Started'
  <2>1. Len(work') = Len(work) /\ work'[Len(work)] = g /\ g.at = "bodyDone"
    BY <1>5 DEF Returns, Turned
  <2> QED BY <2>1 DEF Started, Top, Starts
<1>6. CASE Begins
  <2>1. ended' = <<FALSE>> /\ cur' = 1
    BY <1>6 DEF Begins
  <2> QED BY <2>1 DEF Started
<1>7. CASE Quits
  BY <1>7 DEF Quits, Started
<1> QED BY <1>1, <1>2, <1>3, <1>4, <1>5, <1>6, <1>7 DEF Move

LEMMA StillThereKept ==
  ASSUME IInv, Move, Typed
  PROVE  StillThere'
<1>1. CASE Plain \/ Skips
  <2>1. work # <<>> /\ Resumed(work') /\ (Stays \/ Grows)
    BY <1>1 DEF Plain, Skips, AtStatement
  <2>2. DOMAIN work' = 1 .. Len(work) /\ DOMAIN work = 1 .. Len(work)
    BY <2>1, LenProperties, WorkLength DEF Resumed, IInv
  <2>3. \A i \in 1 .. Len(work) : Begun(work'[i]) = Begun(work[i]) /\ work'[i].kind = work[i].kind
    BY <2>1, KeptParts DEF Resumed, IInv
  <2> SUFFICES ASSUME NEW i \in DOMAIN work', NEW b \in Begun(work'[i])
               PROVE  /\ b \in DOMAIN ended'
                      /\ ended'[b] \/ (b = cur' /\ \A k \in DOMAIN work' : k > i => work'[k].kind = "block")
    BY DEF StillThere
  <2>4. /\ b \in DOMAIN ended
        /\ ended[b] \/ (b = cur /\ \A k \in DOMAIN work : k > i => work[k].kind = "block")
    BY <2>2, <2>3 DEF StillThere, IInv
  <2>5. b \in DOMAIN ended' /\ (ended[b] => ended'[b])
    BY <2>1, <2>4, Untouched
  <2>6. CASE Stays
    BY <2>2, <2>3, <2>4, <2>5, <2>6 DEF Stays
  <2>7. CASE Grows
    BY <2>4, <2>5, <2>7 DEF Grows
  <2> QED BY <2>1, <2>6, <2>7
<1>2. ASSUME NEW f \in Frames, Enters(f) \/ EntersBlock(f) PROVE StillThere'
  <2>1. work # <<>> /\ Nested(work', f) /\ (Stays \/ Grows)
    BY <1>2 DEF Enters, EntersBlock, AtStatement, Stays
  <2>2. /\ DOMAIN work' = 1 .. Len(work) + 1 /\ DOMAIN work = 1 .. Len(work)
        /\ Len(work) \in Nat
    BY <2>1, LenProperties, WorkLength DEF Nested, IInv
  <2>3. \A i \in 1 .. Len(work) : Begun(work'[i]) = Begun(work[i]) /\ work'[i].kind = work[i].kind
    BY <2>1, KeptParts DEF Nested, IInv
  <2>4. work'[Len(work) + 1] = f
    BY <2>1 DEF Nested
  <2>5. \A i \in DOMAIN work' : i \in 1 .. Len(work) \/ i = Len(work) + 1
    BY <2>2
  <2> SUFFICES ASSUME NEW i \in DOMAIN work', NEW b \in Begun(work'[i])
               PROVE  /\ b \in DOMAIN ended'
                      /\ ended'[b] \/ (b = cur' /\ \A k \in DOMAIN work' : k > i => work'[k].kind = "block")
    BY DEF StillThere
  <2>6. CASE i \in 1 .. Len(work)
    <3>1. /\ b \in DOMAIN ended
          /\ ended[b] \/ (b = cur /\ \A k \in DOMAIN work : k > i => work[k].kind = "block")
      BY <2>2, <2>3, <2>6 DEF StillThere, IInv
    <3>2. b \in DOMAIN ended' /\ (ended[b] => ended'[b])
      BY <2>1, <3>1, Untouched
    <3>3. CASE Enters(f)
      BY <3>1, <3>2, <3>3 DEF Enters, Grows
    <3>4. CASE EntersBlock(f)
      <4>1. f.kind = "block" /\ cur' = cur
        BY <3>4 DEF EntersBlock, Frame
      <4> QED BY <2>2, <2>3, <2>4, <2>5, <3>1, <3>2, <4>1
    <3> QED BY <1>2, <3>3, <3>4
  <2>7. CASE i = Len(work) + 1
    <3>1. \A k \in DOMAIN work' : ~ (k > i)
      BY <2>2, <2>7
    <3>2. CASE Enters(f)
      <4>1. b = cur' /\ cur' \in Len(ended) + 1 .. Len(ended')
        BY <2>4, <2>7, <3>2 DEF Enters, Grows
      <4> QED BY <3>1, <4>1, EndedTypes
    <3>3. CASE EntersBlock(f)
      <4>1. f.kind = "block"
        BY <3>3 DEF EntersBlock, Frame
      <4> QED BY <2>4, <2>7, <4>1 DEF Begun
    <3> QED BY <1>2, <3>2, <3>3
  <2> QED BY <2>5, <2>6, <2>7
<1>3. CASE LeavesBlock \/ Finishes
  <2>1. work # <<>> /\ Popped(work') /\ (Stays \/ Turns)
    BY <1>3 DEF LeavesBlock, Finishes, Stays
  <2>2. DOMAIN work' = 1 .. Len(work) - 1 /\ DOMAIN work = 1 .. Len(work) /\ Len(work) \in Nat
        /\ Len(work) \in DOMAIN work
    BY <2>1, LenProperties, WorkLength DEF Popped, IInv
  <2>3. \A i \in 1 .. Len(work) - 1 : work'[i] = work[i]
    BY <2>1 DEF Popped, Below
  <2> SUFFICES ASSUME NEW i \in DOMAIN work', NEW b \in Begun(work'[i])
               PROVE  /\ b \in DOMAIN ended'
                      /\ ended'[b] \/ (b = cur' /\ \A k \in DOMAIN work' : k > i => work'[k].kind = "block")
    BY DEF StillThere
  <2>4. i \in DOMAIN work /\ i < Len(work)
    BY <2>2, Indices
  <2>5. /\ b \in DOMAIN ended
        /\ ended[b] \/ (b = cur /\ \A k \in DOMAIN work : k > i => work[k].kind = "block")
    BY <2>2, <2>3, <2>4 DEF StillThere, IInv
  <2>6. b \in DOMAIN ended' /\ (ended[b] => ended'[b])
    BY <2>1, <2>5, Untouched
  <2>7. CASE LeavesBlock
    <3>1. cur' = cur
      BY <2>7 DEF LeavesBlock
    <3>2. \A k \in DOMAIN work' : k \in DOMAIN work /\ work'[k] = work[k]
      BY <2>2, <2>3, Indices
    <3> QED BY <2>5, <2>6, <3>1, <3>2
  <2>8. CASE Finishes
    <3>1. work[Len(work)].kind # "block" /\ Len(work) > i
      BY <2>2, <2>4, <2>8 DEF Finishes, Top
    <3> QED BY <2>2, <2>5, <2>6, <3>1
  <2> QED BY <1>3, <2>7, <2>8
<1>4. ASSUME NEW g \in Frames, TurnsTo(g) \/ Returns(g) PROVE StillThere'
  <2>1. work # <<>> /\ Turned(work', g) /\ (Stays \/ Turns)
    BY <1>4 DEF TurnsTo, Returns
  <2>2. DOMAIN work' = 1 .. Len(work) /\ DOMAIN work = 1 .. Len(work) /\ Len(work) \in Nat
        /\ Len(work) \in DOMAIN work
    BY <2>1, LenProperties, WorkLength DEF Turned, IInv
  <2>3. \A i \in 1 .. Len(work) : i # Len(work) => i \in 1 .. Len(work) - 1 /\ i < Len(work)
    BY <2>2, Indices
  <2>4. \A i \in 1 .. Len(work) - 1 : work'[i] = work[i]
    BY <2>1 DEF Turned, Below
  <2>5. work'[Len(work)] = g
    BY <2>1 DEF Turned
  <2> SUFFICES ASSUME NEW i \in DOMAIN work', NEW b \in Begun(work'[i])
               PROVE  /\ b \in DOMAIN ended'
                      /\ ended'[b] \/ (b = cur' /\ \A k \in DOMAIN work' : k > i => work'[k].kind = "block")
    BY DEF StillThere
  <2>6. CASE i = Len(work)
    <3>1. \A k \in DOMAIN work' : ~ (k > i)
      BY <2>2, <2>6
    <3>2. CASE TurnsTo(g)
      <4>1. b = cur' /\ cur' \in Left(work[Len(work)]) /\ Turns
        BY <2>5, <2>6, <3>2 DEF TurnsTo, Turns, Top
      <4>2. cur' \in DOMAIN ended
        BY <2>2, <4>1 DEF Fresh, IInv
      <4>3. cur' \in DOMAIN ended'
        BY <4>1, <4>2, EndedTypes DEF Turns
      <4> QED BY <3>1, <4>1, <4>3
    <3>3. CASE Returns(g)
      <4>1. g.kind = "function"
        BY <3>3 DEF Returns
      <4> QED BY <2>5, <2>6, <4>1 DEF Begun
    <3> QED BY <1>4, <3>2, <3>3
  <2>7. CASE i # Len(work)
    <3>1. work'[i] = work[i] /\ i \in DOMAIN work /\ i < Len(work)
      BY <2>2, <2>3, <2>4, <2>7
    <3>2. /\ b \in DOMAIN ended
          /\ ended[b] \/ (b = cur /\ \A k \in DOMAIN work : k > i => work[k].kind = "block")
      BY <3>1 DEF StillThere, IInv
    <3>3. b \in DOMAIN ended' /\ (ended[b] => ended'[b])
      BY <2>1, <3>2, Untouched
    <3>4. work[Len(work)].kind # "block" /\ Len(work) > i
      BY <1>4, <2>2, <3>1 DEF TurnsTo, Returns, Top
    <3> QED BY <2>2, <3>2, <3>3, <3>4
  <2> QED BY <2>6, <2>7
<1>5. CASE Begins
  <2>1. work' = <<Frame("function", "list", <<>>)>>
    BY <1>5 DEF Begins
  <2> DEFINE f == Frame("function", "list", <<>>)
  <2>2. f.kind = "function"
    BY FirstFrame
  <2> HIDE DEF f
  <2>3. DOMAIN work' = {1} /\ work'[1] = f
    BY <2>1 DEF f
  <2>4. Begun(f) = {}
    BY <2>2 DEF Begun
  <2> QED BY <2>3, <2>4 DEF StillThere
<1>6. CASE Quits
  <2>1. DOMAIN work' = {}
    BY <1>6 DEF Quits
  <2> QED BY <2>1 DEF StillThere
<1> QED BY <1>1, <1>2, <1>3, <1>4, <1>5, <1>6 DEF Move

LEMMA OwnKept ==
  ASSUME IInv, Move, Typed
  PROVE  \A i \in DOMAIN work' : \A k \in DOMAIN work'[i].own : work'[i].own[k] \in DOMAIN ended'
<1>1. \A i \in DOMAIN work : \A k \in DOMAIN work[i].own : work[i].own[k] \in DOMAIN ended
  BY DEF IInv, TypeOK
<1>2. ASSUME work # <<>>, Len(ended') >= Len(ended)
      PROVE  \A b \in DOMAIN ended : b \in DOMAIN ended'
  BY <1>2, EndedTypes
<1>3. CASE Plain \/ Skips
  <2>1. work # <<>> /\ Resumed(work') /\ (Stays \/ Grows)
    BY <1>3 DEF Plain, Skips, AtStatement
  <2>4. Len(ended') >= Len(ended)
    <3>1. Len(ended) \in Nat
      BY EndedTypes
    <3>2. CASE Stays
      BY <3>1, <3>2 DEF Stays
    <3>3. CASE Grows
      BY <3>3 DEF Grows
    <3> QED BY <2>1, <3>2, <3>3
  <2>2. DOMAIN work' = 1 .. Len(work) /\ DOMAIN work = 1 .. Len(work)
    BY <2>1, LenProperties, WorkLength DEF Resumed, IInv
  <2>3. \A i \in 1 .. Len(work) : work'[i].own = work[i].own
    BY <2>1, KeptParts DEF Resumed, IInv
  <2> QED BY <1>1, <1>2, <2>1, <2>2, <2>3, <2>4
<1>4. ASSUME NEW f \in Frames, Enters(f) \/ EntersBlock(f)
      PROVE  \A i \in DOMAIN work' : \A k \in DOMAIN work'[i].own : work'[i].own[k] \in DOMAIN ended'
  <2>1. work # <<>> /\ Nested(work', f) /\ Len(ended') >= Len(ended)
    BY <1>4, EndedTypes DEF Enters, EntersBlock, AtStatement, Grows
  <2>2. /\ DOMAIN work' = 1 .. Len(work) + 1 /\ DOMAIN work = 1 .. Len(work)
        /\ Len(work) \in Nat
    BY <2>1, LenProperties, WorkLength DEF Nested, IInv
  <2>3. \A i \in 1 .. Len(work) : work'[i].own = work[i].own
    BY <2>1, KeptParts DEF Nested, IInv
  <2>4. work'[Len(work) + 1] = f
    BY <2>1 DEF Nested
  <2>5. \A i \in DOMAIN work' : i \in 1 .. Len(work) \/ i = Len(work) + 1
    BY <2>2
  <2>6. ASSUME NEW k \in DOMAIN f.own PROVE f.own[k] \in DOMAIN ended'
    <3>1. CASE Enters(f)
      <4>1. f.own[k] \in Len(ended) + 1 .. Len(ended')
        BY <2>6, <3>1 DEF Enters
      <4> QED BY <4>1, EndedTypes
    <3>2. CASE EntersBlock(f)
      BY <2>6, <3>2 DEF EntersBlock, Frame
    <3> QED BY <1>4, <3>1, <3>2
  <2> QED BY <1>1, <1>2, <2>1, <2>2, <2>3, <2>4, <2>5, <2>6
<1>5. CASE LeavesBlock \/ Finishes
  <2>1. work # <<>> /\ Popped(work') /\ Len(ended') = Len(ended)
    BY <1>5 DEF LeavesBlock, Finishes, Turns
  <2>2. DOMAIN work' = 1 .. Len(work) - 1 /\ DOMAIN work = 1 .. Len(work) /\ Len(work) \in Nat
    BY <2>1, LenProperties, WorkLength DEF Popped, IInv
  <2>3. \A i \in 1 .. Len(work) - 1 : work'[i] = work[i] /\ i \in DOMAIN work
    BY <2>1, <2>2, Indices DEF Popped, Below
  <2>4. \A b \in DOMAIN ended : b \in DOMAIN ended'
    BY <2>1, EndedTypes
  <2> QED BY <1>1, <2>2, <2>3, <2>4
<1>6. ASSUME NEW g \in Frames, TurnsTo(g) \/ Returns(g)
      PROVE  \A i \in DOMAIN work' : \A k \in DOMAIN work'[i].own : work'[i].own[k] \in DOMAIN ended'
  <2>1. work # <<>> /\ Turned(work', g) /\ Len(ended') = Len(ended)
    BY <1>6 DEF TurnsTo, Returns, Stays, Turns
  <2>2. DOMAIN work' = 1 .. Len(work) /\ DOMAIN work = 1 .. Len(work) /\ Len(work) \in Nat
    BY <2>1, LenProperties, WorkLength DEF Turned, IInv
  <2>3. \A i \in 1 .. Len(work) : i # Len(work) => work'[i] = work[i] /\ i \in DOMAIN work
    BY <2>1, <2>2, Indices DEF Turned, Below
  <2>4. \A b \in DOMAIN ended : b \in DOMAIN ended'
    BY <2>1, EndedTypes
  <2>5. work'[Len(work)] = g
    BY <2>1 DEF Turned
  <2>6. ASSUME NEW k \in DOMAIN g.own PROVE g.own[k] \in DOMAIN ended'
    <3>1. CASE TurnsTo(g)
      BY <2>4, <2>6, <3>1 DEF TurnsTo
    <3>2. CASE Returns(g)
      <4>1. g \in Frames /\ Len(g.own) = 0
        BY <3>2 DEF Returns, Fits
      <4>2. DOMAIN g.own = 1 .. 0
        BY <4>1, LenProperties DEF Frames
      <4> QED BY <2>6, <4>2
    <3> QED BY <1>6, <3>1, <3>2
  <2> QED BY <1>1, <2>2, <2>3, <2>4, <2>5, <2>6
<1>7. CASE Begins
  <2>1. work' = <<Frame("function", "list", <<>>)>>
    BY <1>7 DEF Begins
  <2> DEFINE f == Frame("function", "list", <<>>)
  <2>2. f.own = <<>>
    BY FirstFrame
  <2> HIDE DEF f
  <2>3. DOMAIN work' = {1} /\ work'[1] = f
    BY <2>1 DEF f
  <2> QED BY <2>2, <2>3
<1>8. CASE Quits
  BY <1>8 DEF Quits
<1> QED BY <1>3, <1>4, <1>5, <1>6, <1>7, <1>8 DEF Move
-----------------------------------------------------------------------------
(* Counting frames.                                                        *)

Tally(w, kinds, i) == Cardinality({j \in 1 .. i : w[j].kind \in kinds})

LEMMA TallyType ==
  ASSUME NEW w, NEW kinds, NEW i \in Nat
  PROVE  /\ IsFiniteSet({j \in 1 .. i : w[j].kind \in kinds})
         /\ Tally(w, kinds, i) \in Nat
<1>1. IsFiniteSet(1 .. i)
  BY FS_Interval
<1> QED BY <1>1, FS_Subset, FS_CardinalityType DEF Tally

LEMMA TallyNone ==
  ASSUME NEW w, NEW kinds PROVE Tally(w, kinds, 0) = 0
<1>1. {j \in 1 .. 0 : w[j].kind \in kinds} = {}
  OBVIOUS
<1> QED BY <1>1, FS_EmptySet DEF Tally

LEMMA TallyNext ==
  ASSUME NEW w, NEW kinds, NEW i \in Nat
  PROVE  Tally(w, kinds, i + 1) = Tally(w, kinds, i) + IF w[i + 1].kind \in kinds THEN 1 ELSE 0
<1> DEFINE S(n) == {j \in 1 .. n : w[j].kind \in kinds}
<1>1. IsFiniteSet(S(i)) /\ Cardinality(S(i)) \in Nat
  BY TallyType DEF Tally
<1>2. 1 .. i + 1 = (1 .. i) \cup {i + 1} /\ i + 1 \notin 1 .. i
  OBVIOUS
<1>3. CASE w[i + 1].kind \in kinds
  <2>1. S(i + 1) = S(i) \cup {i + 1} /\ i + 1 \notin S(i)
    BY <1>2, <1>3
  <2>2. Cardinality(S(i + 1)) = Cardinality(S(i)) + 1
    <3> HIDE DEF S
    <3> QED BY <1>1, <2>1, FS_AddElement
  <2> QED BY <1>3, <2>2 DEF Tally
<1>4. CASE w[i + 1].kind \notin kinds
  <2>1. S(i + 1) = S(i)
    BY <1>2, <1>4
  <2>2. Cardinality(S(i + 1)) = Cardinality(S(i)) + 0
    <3> HIDE DEF S
    <3> QED BY <1>1, <2>1
  <2> QED BY <1>4, <2>2 DEF Tally
<1> QED BY <1>3, <1>4

LEMMA TallyAlike ==
  ASSUME NEW v, NEW w, NEW kinds, NEW i \in Nat, \A j \in 1 .. i : v[j].kind = w[j].kind
  PROVE  Tally(v, kinds, i) = Tally(w, kinds, i)
<1>1. {j \in 1 .. i : v[j].kind \in kinds} = {j \in 1 .. i : w[j].kind \in kinds}
  OBVIOUS
<1> QED BY <1>1 DEF Tally

\* A frame of these kinds is one of those counted.
LEMMA TallyOrder ==
  ASSUME NEW w, NEW kinds, NEW n \in Nat, NEW i \in 1 .. n
  PROVE  /\ Tally(w, kinds, i) <= Tally(w, kinds, n)
         /\ w[i].kind \in kinds => 1 <= Tally(w, kinds, i)
<1> DEFINE S(m) == {j \in 1 .. m : w[j].kind \in kinds}
<1>1. i \in Nat /\ S(i) \subseteq S(n)
  OBVIOUS
<1>2. /\ IsFiniteSet(S(n)) /\ IsFiniteSet(S(i))
      /\ Cardinality(S(n)) \in Nat /\ Cardinality(S(i)) \in Nat
  BY <1>1, TallyType DEF Tally
<1>3. w[i].kind \in kinds => i \in S(i)
  BY <1>1
<1> HIDE DEF S
<1>4. Cardinality(S(i)) <= Cardinality(S(n))
  BY <1>1, <1>2, FS_Subset
<1>5. w[i].kind \in kinds => Cardinality(S(i)) # 0
  BY <1>2, <1>3, FS_EmptySet
<1> QED BY <1>2, <1>4, <1>5 DEF Tally, S

LEMMA DepthIsTally ==
  \A kinds, i : /\ Depth(kinds, i) = Tally(work, kinds, i)
                /\ Depth(kinds, i)' = Tally(work', kinds, i)
BY DEF Depth, Tally

\* The stacks of targets and of scopes, said with Tally.
LEMMA InStep ==
  ASSUME IInv
  PROVE  /\ Len(loops) = Tally(work, Catchers, Len(work))
         /\ \A i \in DOMAIN work :
              work[i].kind \in Catchers => loops[Tally(work, Catchers, i)] = Targets(work[i])
         /\ Len(scopes) = Tally(work, Scoping, Len(work))
BY DepthIsTally DEF IInv, LoopsMatch, ScopesMatch

LEMMA NextInStep ==
  ASSUME work' \in Seq(Frames),
         Len(loops') = Tally(work', Catchers, Len(work')),
         \A i \in 1 .. Len(work') :
           work'[i].kind \in Catchers => loops'[Tally(work', Catchers, i)] = Targets(work'[i]),
         Len(scopes') = Tally(work', Scoping, Len(work'))
  PROVE  LoopsMatch' /\ ScopesMatch'
<1>1. DOMAIN work' = 1 .. Len(work')
  BY LenProperties
<1>2. \A kinds : Depth(kinds, Len(work))' = Tally(work', kinds, Len(work'))
  BY DEF Depth, Tally
<1>3. \A i : Depth(Catchers, i)' = Tally(work', Catchers, i)
  BY DEF Depth, Tally
<1> QED BY <1>1, <1>2, <1>3 DEF LoopsMatch, ScopesMatch

LEMMA TargetsAlike ==
  ASSUME NEW f, NEW g, g.kind = f.kind, g.own = f.own, g.kind \in Catchers
  PROVE  Targets(g) = Targets(f)
BY DEF Targets, Catchers

\* No frame comes or goes.
LEMMA AlikeInStep ==
  ASSUME IInv, work # <<>>, work' \in Seq(Frames), Len(work') = Len(work),
         \A i \in 1 .. Len(work) :
           /\ work'[i].kind = work[i].kind
           /\ work[i].kind \in Catchers => Targets(work'[i]) = Targets(work[i]),
         loops' = loops, Len(scopes') = Len(scopes)
  PROVE  LoopsMatch' /\ ScopesMatch'
<1>1. Len(work) \in Nat /\ DOMAIN work = 1 .. Len(work)
  BY WorkLength DEF IInv
<1>2. \A i \in 1 .. Len(work) : i \in Nat /\ \A j \in 1 .. i : work'[j].kind = work[j].kind
  BY <1>1
<1>3. \A kinds : \A i \in 1 .. Len(work) : Tally(work', kinds, i) = Tally(work, kinds, i)
  BY <1>2, TallyAlike
<1>4. Len(work) \in 1 .. Len(work)
  BY <1>1, WorkLength DEF IInv
<1> QED BY <1>1, <1>3, <1>4, InStep, NextInStep

\* A frame f comes.
LEMMA NestedInStep ==
  ASSUME IInv, work # <<>>, NEW f \in Frames, Nested(work', f),
         loops \in Seq((1 .. MaxBlocks) \X (1 .. MaxBlocks)),
         f.kind \in Catchers => Targets(f) \in (1 .. MaxBlocks) \X (1 .. MaxBlocks),
         loops' = IF f.kind \in Catchers THEN Append(loops, Targets(f)) ELSE loops,
         Len(scopes') = Len(scopes) + IF f.kind \in Scoping THEN 1 ELSE 0
  PROVE  LoopsMatch' /\ ScopesMatch'
<1> DEFINE n == Len(work)
<1>1. n \in Nat /\ n >= 1 /\ DOMAIN work = 1 .. n
  BY WorkLength DEF IInv
<1>2. work' \in Seq(Frames) /\ Len(work') = n + 1 /\ work'[n + 1] = f
  BY DEF Nested
<1>3. \A i \in 1 .. n : work'[i].kind = work[i].kind /\ work'[i].own = work[i].own
  BY KeptParts DEF Nested, IInv
<1> HIDE DEF n
<1>4. \A kinds : \A i \in 1 .. n : Tally(work', kinds, i) = Tally(work, kinds, i)
  <2>1. \A i \in 1 .. n : i \in Nat /\ \A j \in 1 .. i : work'[j].kind = work[j].kind
    BY <1>1, <1>3
  <2> QED BY <2>1, TallyAlike
<1>5. n \in 1 .. n
  BY <1>1
<1>6. \A kinds : Tally(work', kinds, n + 1)
                 = Tally(work, kinds, n) + IF f.kind \in kinds THEN 1 ELSE 0
  <2> SUFFICES ASSUME NEW kinds
               PROVE  Tally(work', kinds, n + 1) = Tally(work, kinds, n) + IF f.kind \in kinds THEN 1 ELSE 0
    OBVIOUS
  <2>1. Tally(work', kinds, n + 1) = Tally(work', kinds, n) + IF work'[n + 1].kind \in kinds THEN 1 ELSE 0
    BY <1>1, TallyNext
  <2>2. Tally(work', kinds, n) = Tally(work, kinds, n)
    BY <1>4, <1>5
  <2> QED BY <1>2, <2>1, <2>2
<1>7. /\ Len(loops) = Tally(work, Catchers, n) /\ Len(scopes) = Tally(work, Scoping, n)
      /\ \A i \in 1 .. n : work[i].kind \in Catchers => loops[Tally(work, Catchers, i)] = Targets(work[i])
  BY <1>1, InStep DEF n
<1>8. Tally(work, Catchers, n) \in Nat
  BY <1>1, TallyType
<1>9. Len(scopes') = Tally(work', Scoping, Len(work'))
  BY <1>2, <1>6, <1>7
<1>10. Len(loops') = Tally(work', Catchers, Len(work'))
       /\ \A k \in 1 .. Len(loops) : loops'[k] = loops[k]
  <2>1. CASE f.kind \in Catchers
    BY <1>2, <1>6, <1>7, <1>8, <2>1, AppendProperties
  <2>2. CASE f.kind \notin Catchers
    BY <1>2, <1>6, <1>7, <1>8, <2>2
  <2> QED BY <2>1, <2>2
<1>11. ASSUME NEW i \in 1 .. n, work'[i].kind \in Catchers
       PROVE  loops'[Tally(work', Catchers, i)] = Targets(work'[i])
  <2>1. work[i].kind \in Catchers /\ Targets(work'[i]) = Targets(work[i])
    BY <1>3, <1>11, TargetsAlike
  <2>2. i \in Nat
    BY <1>1
  <2>3. Tally(work, Catchers, i) \in Nat
    BY <2>2, TallyType
  <2>4. Tally(work, Catchers, i) \in 1 .. Len(loops)
    BY <1>1, <1>7, <1>8, <2>1, <2>3, TallyOrder
  <2> QED BY <1>4, <1>7, <1>10, <2>1, <2>4
<1>12. f.kind \in Catchers => loops'[Tally(work', Catchers, n + 1)] = Targets(f)
  <2> SUFFICES ASSUME f.kind \in Catchers PROVE loops'[Tally(work', Catchers, n + 1)] = Targets(f)
    OBVIOUS
  <2>1. Tally(work', Catchers, n + 1) = Len(loops) + 1
    BY <1>6, <1>7
  <2>2. loops' = Append(loops, Targets(f)) /\ Targets(f) \in (1 .. MaxBlocks) \X (1 .. MaxBlocks)
    OBVIOUS
  <2>3. Append(loops, Targets(f))[Len(loops) + 1] = Targets(f)
    BY <2>2, AppendProperties
  <2> QED BY <2>1, <2>2, <2>3
<1>13. \A i \in 1 .. n + 1 : i \in 1 .. n \/ i = n + 1
  BY <1>1
<1>14. \A i \in 1 .. Len(work') :
         work'[i].kind \in Catchers => loops'[Tally(work', Catchers, i)] = Targets(work'[i])
  BY <1>2, <1>11, <1>12, <1>13
<1> QED BY <1>2, <1>9, <1>10, <1>14, NextInStep

\* The last frame goes.
LEMMA PoppedInStep ==
  ASSUME IInv, work # <<>>, Popped(work'),
         loops \in Seq((1 .. MaxBlocks) \X (1 .. MaxBlocks)),
         loops' = IF Top.kind \in Catchers THEN Pop(loops) ELSE loops,
         Len(scopes') = Len(scopes) - IF Top.kind \in Scoping THEN 1 ELSE 0
  PROVE  LoopsMatch' /\ ScopesMatch'
<1> DEFINE n == Len(work)
           m == n - 1
<1>1. n \in Nat /\ n >= 1 /\ DOMAIN work = 1 .. n
  BY WorkLength DEF IInv
<1>2. /\ work' \in Seq(Frames) /\ Len(work') = m
      /\ \A i \in 1 .. m : work'[i] = work[i]
  BY DEF Popped, Below
<1>3. m \in Nat /\ n = m + 1 /\ Top = work[m + 1]
  BY <1>1 DEF Top
<1> HIDE DEF n, m
<1>4. \A kinds : \A i \in 1 .. m : Tally(work', kinds, i) = Tally(work, kinds, i)
  <2>1. \A i \in 1 .. m : i \in Nat /\ \A j \in 1 .. i : work'[j].kind = work[j].kind
    BY <1>2, <1>3
  <2> QED BY <2>1, TallyAlike
<1>5. \A kinds : Tally(work', kinds, m) = Tally(work, kinds, m)
  <2>1. \A j \in 1 .. m : work'[j].kind = work[j].kind
    BY <1>2
  <2> QED BY <1>3, <2>1, TallyAlike
<1>6. \A kinds : Tally(work, kinds, n) = Tally(work, kinds, m) + IF Top.kind \in kinds THEN 1 ELSE 0
  <2> SUFFICES ASSUME NEW kinds
               PROVE  Tally(work, kinds, n) = Tally(work, kinds, m) + IF Top.kind \in kinds THEN 1 ELSE 0
    OBVIOUS
  <2>1. Tally(work, kinds, m + 1) = Tally(work, kinds, m) + IF work[m + 1].kind \in kinds THEN 1 ELSE 0
    BY <1>3, TallyNext
  <2> QED BY <1>3, <2>1
<1>7. /\ Len(loops) = Tally(work, Catchers, n) /\ Len(scopes) = Tally(work, Scoping, n)
      /\ \A i \in 1 .. n : work[i].kind \in Catchers => loops[Tally(work, Catchers, i)] = Targets(work[i])
  BY <1>1, InStep DEF n
<1>8. Tally(work, Catchers, m) \in Nat /\ Tally(work, Scoping, m) \in Nat
  BY <1>3, TallyType
<1>9. Len(scopes') = Tally(work', Scoping, Len(work'))
  BY <1>2, <1>5, <1>6, <1>7, <1>8
<1>10. Len(loops') = Tally(work, Catchers, m)
       /\ \A k \in 1 .. Tally(work, Catchers, m) : loops'[k] = loops[k]
  <2>1. CASE Top.kind \in Catchers
    <3>1. Len(loops) = Tally(work, Catchers, m) + 1 /\ Len(loops) >= 1
      BY <1>6, <1>7, <1>8, <2>1
    <3>2. /\ Len(Pop(loops)) = Len(loops) - 1
          /\ \A i \in 1 .. Len(loops) - 1 : Pop(loops)[i] = loops[i]
      BY <3>1, PopFacts
    <3>3. Len(loops) - 1 = Tally(work, Catchers, m)
      BY <1>8, <3>1
    <3> QED BY <2>1, <3>2, <3>3
  <2>2. CASE Top.kind \notin Catchers
    BY <1>6, <1>7, <1>8, <2>2
  <2> QED BY <2>1, <2>2
<1>11. ASSUME NEW i \in 1 .. m, work'[i].kind \in Catchers
       PROVE  loops'[Tally(work', Catchers, i)] = Targets(work'[i])
  <2>1. work'[i] = work[i] /\ work[i].kind \in Catchers
    BY <1>2, <1>11
  <2>2. i \in Nat /\ i \in 1 .. n
    BY <1>3
  <2>3. Tally(work, Catchers, i) \in Nat
    BY <2>2, TallyType
  <2>4. Tally(work, Catchers, i) \in 1 .. Tally(work, Catchers, m)
    BY <1>3, <1>8, <2>1, <2>3, TallyOrder
  <2> QED BY <1>4, <1>7, <1>10, <2>1, <2>2, <2>4
<1>12. Len(loops') = Tally(work', Catchers, Len(work'))
  BY <1>2, <1>5, <1>10
<1> QED BY <1>2, <1>9, <1>11, <1>12, NextInStep

LEMMA StacksKept ==
  ASSUME IInv, Move, Typed
  PROVE  LoopsMatch' /\ ScopesMatch'
<1>1. loops \in Seq((1 .. MaxBlocks) \X (1 .. MaxBlocks))
  BY DEF IInv, TypeOK
<1>2. CASE Plain \/ Skips
  <2>1. work # <<>> /\ Resumed(work') /\ loops' = loops /\ Len(scopes') = Len(scopes)
    BY <1>2 DEF Plain, Skips, AtStatement
  <2>2. \A i \in 1 .. Len(work) : work'[i].kind = work[i].kind /\ work'[i].own = work[i].own
    BY <2>1, KeptParts DEF Resumed, IInv
  <2>3. \A i \in 1 .. Len(work) : work[i].kind \in Catchers => Targets(work'[i]) = Targets(work[i])
    BY <2>2, TargetsAlike
  <2> QED BY <2>1, <2>2, <2>3, AlikeInStep DEF Resumed
<1>3. ASSUME NEW f \in Frames, Enters(f) PROVE LoopsMatch' /\ ScopesMatch'
  BY <1>1, <1>3, NestedInStep DEF Enters, AtStatement
<1>4. ASSUME NEW f \in Frames, EntersBlock(f) PROVE LoopsMatch' /\ ScopesMatch'
  <2>1. f.kind = "block"
    BY <1>4 DEF EntersBlock, Frame
  <2>2. f.kind \notin Catchers /\ f.kind \in Scoping
    BY <2>1 DEF Catchers, Scoping
  <2> QED BY <1>1, <1>4, <2>2, NestedInStep DEF EntersBlock, AtStatement
<1>5. CASE LeavesBlock
  <2>1. Top.kind \notin Catchers /\ Top.kind \in Scoping
    BY <1>5 DEF LeavesBlock, Catchers, Scoping
  <2> QED BY <1>1, <1>5, <2>1, PoppedInStep DEF LeavesBlock
<1>6. CASE Finishes
  BY <1>1, <1>6, PoppedInStep DEF Finishes
<1>7. ASSUME NEW g \in Frames, TurnsTo(g) \/ Returns(g) PROVE LoopsMatch' /\ ScopesMatch'
  <2>1. work # <<>> /\ Turned(work', g) /\ loops' = loops /\ Len(scopes') = Len(scopes)
    BY <1>7 DEF TurnsTo, Returns
  <2>2. Len(work) \in Nat /\ work' \in Seq(Frames) /\ Len(work') = Len(work)
    BY <2>1, WorkLength DEF Turned, IInv
  <2>3. \A i \in 1 .. Len(work) : i # Len(work) => work'[i] = work[i]
    BY <2>1, <2>2, Indices DEF Turned, Below
  <2>4. /\ work'[Len(work)] = g /\ g.kind = Top.kind
        /\ g.kind \in Catchers => Targets(g) = Targets(Top)
    <3>1. CASE TurnsTo(g)
      BY <2>1, <3>1 DEF TurnsTo, Turned
    <3>2. CASE Returns(g)
      BY <2>1, <3>2 DEF Returns, Turned, Catchers
    <3> QED BY <1>7, <3>1, <3>2
  <2>5. \A i \in 1 .. Len(work) :
          /\ work'[i].kind = work[i].kind
          /\ work[i].kind \in Catchers => Targets(work'[i]) = Targets(work[i])
    BY <2>3, <2>4 DEF Top
  <2> QED BY <2>1, <2>2, <2>5, AlikeInStep
<1>8. CASE Begins
  <2> DEFINE f == Frame("function", "list", <<>>)
  <2>1. f \in Frames /\ f.kind = "function"
    BY FirstFrame
  <2>2. work = <<>> /\ work' = <<f>> /\ loops' = loops /\ Len(scopes') = 1
    BY <1>8 DEF Begins
  <2> HIDE DEF f
  <2>3. work' \in Seq(Frames) /\ Len(work') = 1 /\ work'[1] = f
    BY <2>1, <2>2
  <2>4. Len(loops) = 0
    <3>1. Len(work) = 0
      BY <2>2, EmptySeq
    <3> QED BY <3>1, InStep, TallyNone
  <2>5. f.kind \notin Catchers /\ f.kind \in Scoping
    BY <2>1 DEF Catchers, Scoping
  <2>6. Tally(work', Catchers, 1) = 0 /\ Tally(work', Scoping, 1) = 1
    <3>1. \A kinds : Tally(work', kinds, 0 + 1) = Tally(work', kinds, 0) + IF work'[0 + 1].kind \in kinds THEN 1 ELSE 0
      BY TallyNext
    <3> QED BY <2>3, <2>5, <3>1, TallyNone
  <2> QED BY <2>2, <2>3, <2>4, <2>5, <2>6, NextInStep
<1>9. CASE Quits
  <2>1. work' = <<>> /\ loops' = <<>> /\ scopes' = <<>>
    BY <1>9 DEF Quits
  <2>2. work' \in Seq(Frames) /\ Len(work') = 0 /\ Len(loops') = 0 /\ Len(scopes') = 0
    BY <2>1, EmptySeq
  <2>3. \A kinds : Tally(work', kinds, 0) = 0
    BY TallyNone
  <2>4. 1 .. Len(work') = {}
    BY <2>2
  <2> QED BY <2>2, <2>3, <2>4, NextInStep
<1> QED BY <1>2, <1>3, <1>4, <1>5, <1>6, <1>7, <1>8, <1>9 DEF Move

\* What holds before a move holds after it.
LEMMA MoveKeeps ==
  ASSUME IInv, Move, Typed
  PROVE  IInv'
<1>1. TypeOK'
  BY ShapedKept, OwnKept, BuilderType DEF TypeOK, Typed
<1>2. Shaped' /\ Fresh' /\ Apart' /\ StillThere' /\ Started' /\ LoopsMatch' /\ ScopesMatch'
  BY ShapedKept, FreshKept, StillThereKept, StartedKept, StacksKept
<1>3. Len(ended') <= MaxBlocks /\ OnlyRestsLate'
  BY DEF Typed, OnlyRestsLate
<1> QED BY <1>1, <1>2, <1>3 DEF IInv
-----------------------------------------------------------------------------
(* Every action is a move.                                                 *)

\* Where a statement is emitted the block is open.
LEMMA StatementOpen ==
  ASSUME IInv, AtStatement
  PROVE  work # <<>> /\ ~ ended[cur] /\ cur \in DOMAIN ended
BY TopFacts DEF AtStatement, IInv, Started, Starts

LEMMA ScopesOpen ==
  ASSUME IInv, work # <<>>
  PROVE  Len(scopes) \in Nat /\ Len(scopes) >= 1
<1>1. Len(work) \in Nat /\ Len(work) >= 1 /\ DOMAIN work = 1 .. Len(work)
  BY WorkLength DEF IInv
<1>2. 1 \in 1 .. Len(work)
  BY <1>1
<1>3. work[1].kind \in Scoping
  BY <1>1, <1>2 DEF IInv, Shaped, Scoping
<1>4. 1 <= Tally(work, Scoping, 1) /\ Tally(work, Scoping, 1) <= Tally(work, Scoping, Len(work))
  BY <1>1, <1>2, <1>3, TallyOrder
<1>5. Tally(work, Scoping, 1) \in Nat /\ Tally(work, Scoping, Len(work)) \in Nat
  BY <1>1, TallyType
<1> QED BY <1>4, <1>5, InStep

Tables == [Names -> 0 .. MaxDecls]

LEMMA DeclaredType ==
  ASSUME IInv, NEW table \in Tables, NEW x, CanDeclare(x)
  PROVE  Declared(table, x) \in Tables
<1>1. locals \in Tables
  BY DEF IInv, TypeOK, Tables
<1>2. CASE x \in Names
  <2>1. locals[x] + 1 \in 0 .. MaxDecls
    BY <1>1, <1>2, BoundsAssumption DEF Tables, CanDeclare
  <2> QED BY <1>2, <2>1 DEF Declared, Tables
<1>3. CASE x \notin Names
  BY <1>3 DEF Declared
<1> QED BY <1>2, <1>3

LEMMA LastScope ==
  ASSUME IInv, work # <<>>
  PROVE  /\ scopes \in Seq(Tables) /\ scopes[Len(scopes)] \in Tables
         /\ Pop(scopes) \in Seq(Tables) /\ Len(Pop(scopes)) = Len(scopes) - 1
<1>1. scopes \in Seq(Tables)
  BY DEF IInv, TypeOK, Tables
<1>2. Len(scopes) \in 1 .. Len(scopes)
  BY ScopesOpen
<1> QED BY <1>1, <1>2, ElementOfSeq, PopFacts, ScopesOpen

\* The blocks after one has ended.
LEMMA TerminateFacts ==
  ASSUME NEW s \in Seq(BOOLEAN), NEW b \in 1 .. Len(s)
  PROVE  /\ Terminate(s, b) \in Seq(BOOLEAN) /\ Len(Terminate(s, b)) = Len(s)
         /\ Terminate(s, b)[b] = TRUE
         /\ \A j \in 1 .. Len(s) : j # b => Terminate(s, b)[j] = s[j]
<1>1. \A v \in BOOLEAN :
        /\ [s EXCEPT ![b] = v] \in Seq(BOOLEAN)
        /\ Len([s EXCEPT ![b] = v]) = Len(s)
        /\ \A j \in 1 .. Len(s) : [s EXCEPT ![b] = v][j] = IF j = b THEN v ELSE s[j]
  BY ExceptSeq
<1>2. /\ [s EXCEPT ![b] = TRUE] \in Seq(BOOLEAN)
      /\ Len([s EXCEPT ![b] = TRUE]) = Len(s)
      /\ \A j \in 1 .. Len(s) : [s EXCEPT ![b] = TRUE][j] = IF j = b THEN TRUE ELSE s[j]
  BY <1>1, Zenon
<1> QED BY <1>2, Zenon DEF Terminate

LEMMA CloseFacts ==
  ASSUME IInv, work # <<>>, NEW open \in BOOLEAN
  PROVE  /\ Close(open) \in Seq(BOOLEAN) /\ Len(Close(open)) = Len(ended)
         /\ open => Close(open)[cur]
         /\ \A b \in DOMAIN ended : (b # cur => Close(open)[b] = ended[b]) /\ (ended[b] => Close(open)[b])
<1>1. ended \in Seq(BOOLEAN) /\ DOMAIN ended = 1 .. Len(ended) /\ cur \in 1 .. Len(ended)
  BY TopFacts DEF IInv
<1>2. CASE open
  <2>1. Close(open) = Terminate(ended, cur)
    BY <1>2 DEF Close
  <2>2. /\ Terminate(ended, cur) \in Seq(BOOLEAN) /\ Len(Terminate(ended, cur)) = Len(ended)
        /\ Terminate(ended, cur)[cur] = TRUE
        /\ \A j \in 1 .. Len(ended) : j # cur => Terminate(ended, cur)[j] = ended[j]
    BY <1>1, TerminateFacts
  <2> QED BY <1>1, <2>1, <2>2, Zenon
<1>3. CASE ~ open
  BY <1>1, <1>3 DEF Close
<1> QED BY <1>2, <1>3

\* The blocks when the builder's has ended and n are new.
LEMMA GrownFacts ==
  ASSUME IInv, work # <<>>, NEW n \in Nat
  PROVE  LET e == Terminate(Appended(n), cur)
         IN  /\ e \in Seq(BOOLEAN) /\ Len(e) = Len(ended) + n /\ e[cur]
             /\ \A b \in DOMAIN ended : b # cur => e[b] = ended[b]
             /\ \A b \in Len(ended) + 1 .. Len(ended) + n : e[b] = FALSE
<1> DEFINE t == [k \in 1 .. n |-> FALSE]
           a == ended \o t
           e == Terminate(Appended(n), cur)
<1>1. /\ ended \in Seq(BOOLEAN) /\ DOMAIN ended = 1 .. Len(ended) /\ cur \in 1 .. Len(ended)
      /\ Len(ended) \in Nat
  BY TopFacts DEF IInv
<1>2. t \in Seq(BOOLEAN) /\ Len(t) = n /\ \A k \in 1 .. n : t[k] = FALSE
  OBVIOUS
<1> HIDE DEF t
<1>3. /\ a \in Seq(BOOLEAN) /\ Len(a) = Len(ended) + n
      /\ \A i \in 1 .. Len(ended) + Len(t) : a[i] = IF i <= Len(ended) THEN ended[i] ELSE t[i - Len(ended)]
  BY <1>1, <1>2, ConcatProperties
<1>4. e = Terminate(a, cur)
  BY DEF Appended, t
<1> HIDE DEF a, e
<1>5. cur \in 1 .. Len(a)
  BY <1>1, <1>3
<1>6. /\ e \in Seq(BOOLEAN) /\ Len(e) = Len(a) /\ e[cur] = TRUE
      /\ \A j \in 1 .. Len(a) : j # cur => e[j] = a[j]
  <2>1. /\ Terminate(a, cur) \in Seq(BOOLEAN) /\ Len(Terminate(a, cur)) = Len(a)
        /\ Terminate(a, cur)[cur] = TRUE
        /\ \A j \in 1 .. Len(a) : j # cur => Terminate(a, cur)[j] = a[j]
    BY <1>3, <1>5, TerminateFacts
  <2> QED BY <1>4, <2>1, Zenon
<1>7. \A b \in DOMAIN ended : b # cur => e[b] = ended[b]
  <2> SUFFICES ASSUME NEW b \in DOMAIN ended, b # cur PROVE e[b] = ended[b]
    OBVIOUS
  <2>1. b \in 1 .. Len(a) /\ b \in 1 .. Len(ended) + Len(t) /\ b <= Len(ended)
    BY <1>1, <1>2, <1>3
  <2> QED BY <1>3, <1>6, <2>1
<1>8. \A b \in Len(ended) + 1 .. Len(ended) + n : e[b] = FALSE
  <2> SUFFICES ASSUME NEW b \in Len(ended) + 1 .. Len(ended) + n PROVE e[b] = FALSE
    OBVIOUS
  <2>1. /\ b \in 1 .. Len(a) /\ b \in 1 .. Len(ended) + Len(t) /\ ~ (b <= Len(ended))
        /\ b # cur /\ b - Len(ended) \in 1 .. n
    BY <1>1, <1>2, <1>3
  <2> QED BY <1>2, <1>3, <1>6, <2>1
<1> QED BY <1>3, <1>6, <1>7, <1>8 DEF e

\* The types the actions that leave a variable alone keep.
LEMMA Types ==
  ASSUME IInv
  PROVE  /\ ended \in Seq(BOOLEAN) /\ Len(ended) <= MaxBlocks /\ late \subseteq {"rest"}
         /\ loops \in Seq((1 .. MaxBlocks) \X (1 .. MaxBlocks))
         /\ locals \in Tables /\ scopes \in Seq(Tables)
BY DEF IInv, TypeOK, OnlyRestsLate, Tables

\* In blocks that are open nothing is emitted behind what another statement has ended.
LEMMA EmitRests ==
  ASSUME IInv, NEW where, NEW rest, Emit(where, rest), \A b \in where : ~ ended[b]
  PROVE  late' \subseteq {"rest"}
<1>1. {w \in {"other"} : \E b \in where : ended[b]} = {}
  OBVIOUS
<1>2. late \subseteq {"rest"}
  BY Types
<1> QED BY <1>1, <1>2 DEF Emit

\* Nor where the builder stands in an open block.
LEMMA EmitHere ==
  ASSUME IInv, NEW rest, Emit({cur}, rest), ~ ended[cur]
  PROVE  late' \subseteq {"rest"}
<1>1. \A b \in {cur} : ~ ended[b]
  OBVIOUS
<1> QED BY <1>1, EmitRests

LEMMA IsPlain ==
  ASSUME IInv, AtStatement, work' = Advance, UNCHANGED <<cur, loops>>,
         \E open \in BOOLEAN : ended' = Close(open),
         (\E rest \in BOOLEAN : Emit({cur}, rest)) \/ late' = late,
         locals' \in Tables, scopes' \in Seq(Tables), Len(scopes') = Len(scopes)
  PROVE  Move /\ Typed
<1>1. work # <<>> /\ ~ ended[cur]
  BY StatementOpen
<1>2. Resumed(work')
  BY <1>1, AdvanceFacts DEF IInv
<1>3. PICK open \in BOOLEAN : ended' = Close(open)
  OBVIOUS
<1>4. ended' \in Seq(BOOLEAN) /\ Stays
  BY <1>1, <1>3, CloseFacts DEF Stays
<1>5. late' \subseteq {"rest"}
  BY <1>1, Types, EmitHere
<1>6. Len(ended') = Len(ended) /\ Len(ended) <= MaxBlocks
  BY <1>4, Types DEF Stays
<1>7. Plain
  BY <1>2, <1>4 DEF Plain
<1> QED BY <1>4, <1>5, <1>6, <1>7, Types DEF Move, Typed, Tables

LEMMA PlainMoves ==
  ASSUME IInv,
         \/ \E ends, rest \in BOOLEAN :
              Simple(ends, rest) \/ \E x \in Names : VarDecl(x, ends, rest)
         \/ Nothing \/ (\E rest \in BOOLEAN : Return(rest)) \/ Jump
  PROVE  Move /\ Typed
<1>1. ASSUME NEW ends \in BOOLEAN, NEW rest \in BOOLEAN, Simple(ends, rest) PROVE Move /\ Typed
  BY <1>1, IsPlain, Types DEF Simple
<1>2. ASSUME NEW ends \in BOOLEAN, NEW rest \in BOOLEAN, NEW x \in Names, VarDecl(x, ends, rest)
      PROVE  Move /\ Typed
  <2>1. work # <<>> /\ CanDeclare(x)
    BY <1>2 DEF VarDecl, AtStatement
  <2>2. locals' \in Tables
    BY <1>2, <2>1, DeclaredType, Types DEF VarDecl
  <2> DEFINE n == Len(scopes)
             t == Declared(scopes[n], x)
  <2>3. t \in Tables /\ scopes \in Seq(Tables) /\ n \in 1 .. Len(scopes)
    BY <2>1, LastScope, DeclaredType, ScopesOpen
  <2>4. scopes' = [scopes EXCEPT ![n] = t]
    BY <1>2 DEF VarDecl
  <2> HIDE DEF n, t
  <2>5. [scopes EXCEPT ![n] = t] \in Seq(Tables) /\ Len([scopes EXCEPT ![n] = t]) = Len(scopes)
    BY <2>3, ExceptSeq
  <2> QED BY <1>2, <2>2, <2>4, <2>5, IsPlain DEF VarDecl
<1>3. CASE Nothing
  <2>1. ended' = Close(FALSE)
    BY <1>3 DEF Nothing, Close
  <2>2. \E open \in BOOLEAN : ended' = Close(open)
    BY <2>1
  <2> QED BY <1>3, <2>2, IsPlain, Types DEF Nothing
<1>4. CASE (\E rest \in BOOLEAN : Return(rest)) \/ Jump
  <2>1. ended' = Close(TRUE)
    BY <1>4 DEF Return, Jump
  <2>2. \E open \in BOOLEAN : ended' = Close(open)
    BY <2>1
  <2> QED BY <1>4, <2>2, IsPlain, Types DEF Return, Jump
<1> QED BY <1>1, <1>2, <1>3, <1>4

\* n new blocks after those there are, of which those in D have ended.
BlocksMade(n, D) ==
  /\ ended' \in Seq(BOOLEAN) /\ Len(ended') = Len(ended) + n /\ ended'[cur]
  /\ \A b \in DOMAIN ended : b # cur => ended'[b] = ended[b]
  /\ \A j \in (1 .. n) \ D : ~ ended'[New(j)]

LEMMA NewBlocks ==
  ASSUME IInv, NEW n \in Nat, Room(n), Len(ended') = Len(ended) + n
  PROVE  /\ \A j \in 1 .. n : /\ New(j) \in Len(ended) + 1 .. Len(ended')
                              /\ New(j) \in 1 .. MaxBlocks
         /\ \A j, k \in 1 .. n : New(j) = New(k) => j = k
<1>1. Len(ended) \in Nat /\ MaxBlocks \in Nat
  BY LenProperties, Types, BoundsAssumption
<1> QED BY <1>1 DEF New, Room

LEMMA OpenMade ==
  ASSUME IInv, work # <<>>, NEW n \in Nat, ended' = Terminate(Appended(n), cur)
  PROVE  BlocksMade(n, {})
<1> DEFINE e == Terminate(Appended(n), cur)
<1>1. /\ e \in Seq(BOOLEAN) /\ Len(e) = Len(ended) + n /\ e[cur]
      /\ \A b \in DOMAIN ended : b # cur => e[b] = ended[b]
      /\ \A b \in Len(ended) + 1 .. Len(ended) + n : e[b] = FALSE
  BY GrownFacts
<1>2. ended' = e
  OBVIOUS
<1> HIDE DEF e
<1>3. Len(ended) \in Nat
  BY LenProperties, Types
<1>4. \A j \in 1 .. n : New(j) \in Len(ended) + 1 .. Len(ended) + n
  BY <1>3 DEF New
<1> QED BY <1>1, <1>2, <1>4 DEF BlocksMade

LEMMA FirstMade ==
  ASSUME IInv, work # <<>>, NEW n \in Nat, n >= 1,
         ended' = Terminate(Terminate(Appended(n), cur), New(1))
  PROVE  BlocksMade(n, {1})
<1> DEFINE e == Terminate(Appended(n), cur)
<1>1. /\ e \in Seq(BOOLEAN) /\ Len(e) = Len(ended) + n /\ e[cur]
      /\ \A b \in DOMAIN ended : b # cur => e[b] = ended[b]
      /\ \A b \in Len(ended) + 1 .. Len(ended) + n : e[b] = FALSE
  BY GrownFacts
<1>2. ended' = Terminate(e, New(1))
  OBVIOUS
<1> HIDE DEF e
<1>3. Len(ended) \in Nat /\ DOMAIN ended = 1 .. Len(ended) /\ cur \in DOMAIN ended
  BY TopFacts DEF IInv
<1>4. New(1) \in 1 .. Len(e) /\ \A b \in DOMAIN ended : b # New(1) /\ b \in 1 .. Len(e)
  BY <1>1, <1>3 DEF New
<1>5. /\ Terminate(e, New(1)) \in Seq(BOOLEAN) /\ Len(Terminate(e, New(1))) = Len(e)
      /\ \A j \in 1 .. Len(e) : j # New(1) => Terminate(e, New(1))[j] = e[j]
  BY <1>1, <1>4, TerminateFacts
<1>6. \A j \in (1 .. n) \ {1} : /\ New(j) \in Len(ended) + 1 .. Len(ended) + n
                                /\ New(j) # New(1) /\ New(j) \in 1 .. Len(e)
  BY <1>1, <1>3 DEF New
<1> QED BY <1>1, <1>2, <1>3, <1>4, <1>5, <1>6 DEF BlocksMade

LEMMA MadeGrows ==
  ASSUME IInv, work # <<>>, NEW n \in Nat, Room(n), NEW D, BlocksMade(n, D),
         NEW k \in (1 .. n) \ D, cur' = New(k)
  PROVE  Grows /\ Len(ended') <= MaxBlocks
<1>1. Len(ended) \in Nat /\ Len(ended') = Len(ended) + n
  BY LenProperties, Types DEF BlocksMade
<1>2. New(k) \in Len(ended) + 1 .. Len(ended') /\ Len(ended') >= Len(ended)
  BY <1>1, NewBlocks
<1>3. Len(ended') <= MaxBlocks
  BY <1>1 DEF Room
<1> QED BY <1>2, <1>3 DEF Grows, BlocksMade

LEMMA OwnType ==
  ASSUME NEW n \in Nat, NEW own \in Seq(Nat), Len(own) = n, \A j \in 1 .. n : own[j] = New(j),
         \A j \in 1 .. n : New(j) \in 1 .. MaxBlocks
  PROVE  own \in Seq(1 .. MaxBlocks)
<1>1. own \in [1 .. n -> Nat] /\ \A j \in 1 .. n : own[j] \in 1 .. MaxBlocks
  BY LenProperties, Zenon
<1>2. own \in [1 .. n -> 1 .. MaxBlocks]
  BY <1>1
<1>3. \A S : [1 .. n -> S] \subseteq Seq(S)
  <2> SUFFICES ASSUME NEW S PROVE [1 .. n -> S] \subseteq Seq(S)
    OBVIOUS
  <2>1. [1 .. n -> S] \in {[1 .. m -> S] : m \in Nat}
    BY Zenon
  <2>2. Seq(S) = UNION {[1 .. m -> S] : m \in Nat}
    BY SeqDef
  <2> QED BY <2>1, <2>2, Zenon
<1> QED BY <1>2, <1>3

\* A compound statement that makes n blocks, the builder going on in the kth.
LEMMA IsEntered ==
  ASSUME IInv, NEW n \in Nat, CanNest(n), NEW rest, Emit({cur}, rest), NEW D, BlocksMade(n, D),
         NEW k \in (1 .. n) \ D, cur' = New(k),
         NEW f \in [kind : {"if", "while", "do", "for", "switch"}, at : Places, own : Seq(Nat)],
         Len(f.own) = n, \A j \in 1 .. n : f.own[j] = New(j),
         Fits(f),
         Left(f) \subseteq {New(j) : j \in (1 .. n) \ (D \cup {k})}, Begun(f) \subseteq {New(k)},
         f.kind \in Catchers => \E i, j \in 1 .. n : Targets(f) = <<New(i), New(j)>>,
         work' = Push(f),
         loops' = IF f.kind \in Catchers THEN Append(loops, Targets(f)) ELSE loops,
         locals' \in Tables, scopes' \in Seq(Tables),
         Len(scopes') = Len(scopes) + IF f.kind \in Scoping THEN 1 ELSE 0
  PROVE  Move /\ Typed
<1>1. work # <<>> /\ AtStatement /\ Room(n) /\ ~ ended[cur]
  BY StatementOpen DEF CanNest
<1>2. Grows /\ Len(ended') <= MaxBlocks
  BY <1>1, MadeGrows
<1>3. /\ \A j \in 1 .. n : New(j) \in Len(ended) + 1 .. Len(ended') /\ New(j) \in 1 .. MaxBlocks
      /\ \A i, j \in 1 .. n : New(i) = New(j) => i = j
  BY <1>1, NewBlocks DEF BlocksMade
<1>4. f.own \in Seq(Nat) /\ DOMAIN f.own = 1 .. n /\ f.kind \notin {"function", "block"}
  BY LenProperties
<1>5. f.own \in Seq(1 .. MaxBlocks)
  <2>1. \A j \in 1 .. n : New(j) \in 1 .. MaxBlocks
    BY <1>3
  <2> QED BY <1>4, <2>1, OwnType
<1>6. f \in Frames
  BY <1>5 DEF Fits, Frame, Frames, Places
<1>7. Distinct(f)
  BY <1>3, <1>4 DEF Distinct
<1>8. \A b \in Left(f) : b \in Len(ended) + 1 .. Len(ended') /\ ~ ended'[b] /\ b # cur'
  BY <1>3 DEF BlocksMade
<1>9. f.kind \in Catchers => Targets(f) \in (1 .. MaxBlocks) \X (1 .. MaxBlocks)
  BY <1>3
<1>10. Nested(work', f)
  BY <1>1, <1>6, PushFacts DEF IInv
<1>11. Enters(f)
  BY <1>1, <1>2, <1>3, <1>4, <1>7, <1>8, <1>9, <1>10 DEF Enters
<1>12. loops' \in Seq((1 .. MaxBlocks) \X (1 .. MaxBlocks))
  BY <1>9, Types, AppendProperties
<1>13. late' \subseteq {"rest"} /\ ended' \in Seq(BOOLEAN)
  BY <1>1, EmitHere DEF BlocksMade
<1> QED BY <1>2, <1>6, <1>11, <1>12, <1>13 DEF Move, Typed, Tables

LEMMA NewType == ASSUME IInv, NEW k \in Nat PROVE New(k) \in Nat
<1>1. Len(ended) \in Nat
  BY LenProperties, Types
<1> QED BY <1>1 DEF New

LEMMA IfMoves ==
  ASSUME IInv, NEW rest, If(rest) PROVE Move /\ Typed
<1> DEFINE own == <<New(1), New(2), New(3)>>
           f == Frame("if", "arm", own)
<1>1. /\ CanNest(3) /\ Emit({cur}, rest) /\ cur' = New(1) /\ work' = Push(f)
      /\ ended' = Terminate(Appended(3), cur) /\ UNCHANGED <<loops, locals, scopes>>
  BY DEF If
<1>2. own \in Seq(Nat) /\ Len(own) = 3 /\ own[1] = New(1) /\ own[2] = New(2) /\ own[3] = New(3)
  BY NewType
<1> HIDE DEF own
<1>3. f.kind = "if" /\ f.at = "arm" /\ f.own = own
  BY DEF Frame
<1>4. f \in [kind : {"if", "while", "do", "for", "switch"}, at : Places, own : Seq(Nat)]
  BY <1>2 DEF Frame, Places
<1> HIDE DEF f
<1>5. \A j \in 1 .. 3 : f.own[j] = New(j)
  BY <1>2, <1>3
<1>6. Fits(f) /\ f.kind \notin Catchers /\ f.kind \notin Scoping
  BY <1>2, <1>3 DEF Fits, Catchers, Scoping
<1>7. Left(f) = {New(2), New(3)} /\ Begun(f) = {New(1)}
  BY <1>2, <1>3 DEF Left, Begun
<1>8. Left(f) \subseteq {New(j) : j \in (1 .. 3) \ ({} \cup {1})}
  BY <1>7
<1>9. work # <<>>
  BY <1>1 DEF CanNest, AtStatement
<1>10. BlocksMade(3, {})
  BY <1>1, <1>9, OpenMade
<1>11. 1 \in (1 .. 3) \ {} /\ Len(f.own) = 3 /\ Len(scopes) \in Nat
  BY <1>2, <1>3, <1>9, ScopesOpen
<1>12. /\ locals' \in Tables /\ scopes' \in Seq(Tables) /\ Len(scopes') = Len(scopes) + 0
       /\ loops' = IF f.kind \in Catchers THEN Append(loops, Targets(f)) ELSE loops
  BY <1>1, <1>6, <1>7, <1>11, Types
<1> QED BY <1>1, <1>4, <1>5, <1>6, <1>7, <1>8, <1>10, <1>11, <1>12, IsEntered

LEMMA SwitchMoves ==
  ASSUME IInv, NEW n \in 1 .. MaxCases, NEW rest, Switch(n, rest) PROVE Move /\ Typed
<1> DEFINE m == n + 1
           own == [k \in 1 .. m |-> New(k)]
           f == Frame("switch", "list", own)
<1>1. /\ CanNest(m) /\ Emit({cur}, rest) /\ cur' = New(2) /\ work' = Push(f)
      /\ ended' = Terminate(Appended(m), cur) /\ UNCHANGED <<locals, scopes>>
      /\ loops' = Append(loops, <<New(1), New(1)>>)
  BY DEF Switch
<1>2. m \in Nat /\ m >= 2 /\ 1 \in 1 .. m /\ 2 \in 1 .. m
  BY BoundsAssumption
<1> HIDE DEF m
<1>3. own \in Seq(Nat) /\ Len(own) = m /\ DOMAIN own = 1 .. m /\ \A j \in 1 .. m : own[j] = New(j)
  BY <1>2, NewType
<1> HIDE DEF own
<1>4. f.kind = "switch" /\ f.at = "list" /\ f.own = own
  BY DEF Frame
<1>5. f \in [kind : {"if", "while", "do", "for", "switch"}, at : Places, own : Seq(Nat)]
  BY <1>3 DEF Frame, Places
<1> HIDE DEF f
<1>6. Fits(f) /\ f.kind \in Catchers /\ f.kind \notin Scoping
  BY <1>2, <1>3, <1>4 DEF Fits, Catchers, Scoping
<1>7. Left(f) = {f.own[k] : k \in DOMAIN f.own \ {2}} /\ Begun(f) = {f.own[2]}
  BY <1>4 DEF Left, Begun
<1>8. Left(f) \subseteq {New(j) : j \in (1 .. m) \ ({} \cup {2})} /\ Begun(f) = {New(2)}
  BY <1>2, <1>3, <1>4, <1>7
<1>9. Targets(f) = <<New(1), New(1)>>
  BY <1>2, <1>3, <1>4 DEF Targets
<1>10. work # <<>>
  BY <1>1 DEF CanNest, AtStatement
<1>11. BlocksMade(m, {})
  BY <1>1, <1>2, <1>10, OpenMade
<1>12. 2 \in (1 .. m) \ {} /\ Len(f.own) = m /\ Len(scopes) \in Nat
       /\ \A j \in 1 .. m : f.own[j] = New(j)
  BY <1>2, <1>3, <1>4, <1>10, ScopesOpen
<1>13. \E i, j \in 1 .. m : Targets(f) = <<New(i), New(j)>>
  BY <1>2, <1>9
<1>14. /\ locals' \in Tables /\ scopes' \in Seq(Tables) /\ Len(scopes') = Len(scopes) + 0
       /\ loops' = IF f.kind \in Catchers THEN Append(loops, Targets(f)) ELSE loops
  BY <1>1, <1>6, <1>9, <1>13, Types
<1> QED BY <1>1, <1>2, <1>5, <1>6, <1>8, <1>9, <1>11, <1>12, <1>13, <1>14, IsEntered

LEMMA WhileMoves ==
  ASSUME IInv, NEW rest, While(rest) PROVE Move /\ Typed
<1> DEFINE own == <<New(1), New(2), New(3)>>
           f == Frame("while", "body", own)
<1>1. /\ CanNest(3) /\ Emit({cur}, rest) /\ cur' = New(2) /\ work' = Push(f)
      /\ ended' = Terminate(Terminate(Appended(3), cur), New(1)) /\ UNCHANGED <<locals, scopes>>
      /\ loops' = Append(loops, <<New(3), New(1)>>)
  BY DEF While, EnterLoop
<1>2. own \in Seq(Nat) /\ Len(own) = 3 /\ own[1] = New(1) /\ own[2] = New(2) /\ own[3] = New(3)
  BY NewType
<1> HIDE DEF own
<1>3. f.kind = "while" /\ f.at = "body" /\ f.own = own
  BY DEF Frame
<1>4. f \in [kind : {"if", "while", "do", "for", "switch"}, at : Places, own : Seq(Nat)]
  BY <1>2 DEF Frame, Places
<1> HIDE DEF f
<1>5. \A j \in 1 .. 3 : f.own[j] = New(j)
  BY <1>2, <1>3
<1>6. Fits(f) /\ f.kind \in Catchers /\ f.kind \notin Scoping
  BY <1>2, <1>3 DEF Fits, Catchers, Scoping
<1>7. Left(f) = {New(3)} /\ Begun(f) = {} /\ Targets(f) = <<New(3), New(1)>>
  BY <1>2, <1>3 DEF Left, Begun, Targets
<1>8. Left(f) \subseteq {New(j) : j \in (1 .. 3) \ ({1} \cup {2})}
  BY <1>7
<1>9. work # <<>>
  BY <1>1 DEF CanNest, AtStatement
<1>10. BlocksMade(3, {1})
  BY <1>1, <1>9, FirstMade
<1>11. 2 \in (1 .. 3) \ {1} /\ Len(f.own) = 3 /\ Len(scopes) \in Nat
  BY <1>2, <1>3, <1>9, ScopesOpen
<1>12. \E i, j \in 1 .. 3 : Targets(f) = <<New(i), New(j)>>
  BY <1>7
<1>13. /\ locals' \in Tables /\ scopes' \in Seq(Tables) /\ Len(scopes') = Len(scopes) + 0
       /\ loops' = IF f.kind \in Catchers THEN Append(loops, Targets(f)) ELSE loops
  BY <1>1, <1>6, <1>7, <1>12, Types
<1> QED BY <1>1, <1>4, <1>5, <1>6, <1>7, <1>8, <1>10, <1>11, <1>12, <1>13, IsEntered

LEMMA DoWhileMoves ==
  ASSUME IInv, DoWhile PROVE Move /\ Typed
<1> DEFINE own == <<New(1), New(2), New(3)>>
           f == Frame("do", "body", own)
<1>1. /\ CanNest(3) /\ Emit({cur}, FALSE) /\ cur' = New(1) /\ work' = Push(f)
      /\ ended' = Terminate(Appended(3), cur) /\ UNCHANGED <<locals, scopes>>
      /\ loops' = Append(loops, <<New(3), New(2)>>)
  BY DEF DoWhile, EnterLoop
<1>2. own \in Seq(Nat) /\ Len(own) = 3 /\ own[1] = New(1) /\ own[2] = New(2) /\ own[3] = New(3)
  BY NewType
<1> HIDE DEF own
<1>3. f.kind = "do" /\ f.at = "body" /\ f.own = own
  BY DEF Frame
<1>4. f \in [kind : {"if", "while", "do", "for", "switch"}, at : Places, own : Seq(Nat)]
  BY <1>2 DEF Frame, Places
<1> HIDE DEF f
<1>5. \A j \in 1 .. 3 : f.own[j] = New(j)
  BY <1>2, <1>3
<1>6. Fits(f) /\ f.kind \in Catchers /\ f.kind \notin Scoping
  BY <1>2, <1>3 DEF Fits, Catchers, Scoping
<1>7. Left(f) = {New(2), New(3)} /\ Begun(f) = {} /\ Targets(f) = <<New(3), New(2)>>
  BY <1>2, <1>3 DEF Left, Begun, Targets
<1>8. Left(f) \subseteq {New(j) : j \in (1 .. 3) \ ({} \cup {1})}
  BY <1>7
<1>9. work # <<>>
  BY <1>1 DEF CanNest, AtStatement
<1>10. BlocksMade(3, {})
  BY <1>1, <1>9, OpenMade
<1>11. 1 \in (1 .. 3) \ {} /\ Len(f.own) = 3 /\ Len(scopes) \in Nat
  BY <1>2, <1>3, <1>9, ScopesOpen
<1>12. \E i, j \in 1 .. 3 : Targets(f) = <<New(i), New(j)>>
  BY <1>7
<1>13. /\ locals' \in Tables /\ scopes' \in Seq(Tables) /\ Len(scopes') = Len(scopes) + 0
       /\ loops' = IF f.kind \in Catchers THEN Append(loops, Targets(f)) ELSE loops
  BY <1>1, <1>6, <1>7, <1>12, Types
<1> QED BY <1>1, <1>4, <1>5, <1>6, <1>7, <1>8, <1>10, <1>11, <1>12, <1>13, IsEntered

LEMMA ForMoves ==
  ASSUME IInv, NEW x \in Names \cup {NoName}, NEW rest, For(x, rest) PROVE Move /\ Typed
<1> DEFINE own == <<New(1), New(2), New(3), New(4)>>
           f == Frame("for", "body", own)
           t == Declared(scopes[Len(scopes)], x)
<1>1. /\ CanNest(4) /\ CanDeclare(x) /\ Emit({cur}, rest) /\ cur' = New(2) /\ work' = Push(f)
      /\ ended' = Terminate(Terminate(Appended(4), cur), New(1))
      /\ locals' = Declared(locals, x) /\ scopes' = Append(scopes, t)
      /\ loops' = Append(loops, <<New(4), New(3)>>)
  BY DEF For, EnterLoop
<1>2. /\ own \in Seq(Nat) /\ Len(own) = 4
      /\ own[1] = New(1) /\ own[2] = New(2) /\ own[3] = New(3) /\ own[4] = New(4)
  BY NewType
<1> HIDE DEF own
<1>3. f.kind = "for" /\ f.at = "body" /\ f.own = own
  BY DEF Frame
<1>4. f \in [kind : {"if", "while", "do", "for", "switch"}, at : Places, own : Seq(Nat)]
  BY <1>2 DEF Frame, Places
<1> HIDE DEF f
<1>5. \A j \in 1 .. 4 : f.own[j] = New(j)
  BY <1>2, <1>3
<1>6. Fits(f) /\ f.kind \in Catchers /\ f.kind \in Scoping
  BY <1>2, <1>3 DEF Fits, Catchers, Scoping
<1>7. Left(f) = {New(3), New(4)} /\ Begun(f) = {} /\ Targets(f) = <<New(4), New(3)>>
  BY <1>2, <1>3 DEF Left, Begun, Targets
<1>8. Left(f) \subseteq {New(j) : j \in (1 .. 4) \ ({1} \cup {2})}
  BY <1>7
<1>9. work # <<>>
  BY <1>1 DEF CanNest, AtStatement
<1>10. BlocksMade(4, {1})
  BY <1>1, <1>9, FirstMade
<1>11. 2 \in (1 .. 4) \ {1} /\ Len(f.own) = 4 /\ Len(scopes) \in Nat
  BY <1>2, <1>3, <1>9, ScopesOpen
<1>12. \E i, j \in 1 .. 4 : Targets(f) = <<New(i), New(j)>>
  BY <1>7
<1>13. locals' \in Tables /\ t \in Tables /\ scopes \in Seq(Tables)
  BY <1>1, <1>9, DeclaredType, LastScope, Types
<1> HIDE DEF t
<1>14. scopes' \in Seq(Tables) /\ Len(scopes') = Len(scopes) + 1
  BY <1>1, <1>13, AppendProperties
<1> QED BY <1>1, <1>4, <1>5, <1>6, <1>7, <1>8, <1>10, <1>11, <1>12, <1>13, <1>14, IsEntered

LEMMA EmptySwitchMoves ==
  ASSUME IInv, NEW rest, EmptySwitch(rest) PROVE Move /\ Typed
<1>1. /\ CanNest(1) /\ Emit({cur}, rest) /\ cur' = New(1) /\ work' = Advance
      /\ ended' = Terminate(Appended(1), cur) /\ UNCHANGED <<loops, locals, scopes>>
  BY DEF EmptySwitch
<1>2. work # <<>> /\ AtStatement /\ Room(1) /\ ~ ended[cur]
  BY <1>1, StatementOpen DEF CanNest
<1>3. BlocksMade(1, {})
  BY <1>1, <1>2, OpenMade
<1>4. 1 \in (1 .. 1) \ {}
  OBVIOUS
<1>5. Grows /\ Len(ended') <= MaxBlocks
  BY <1>1, <1>2, <1>3, <1>4, MadeGrows
<1>6. Resumed(work')
  BY <1>1, <1>2, AdvanceFacts DEF IInv
<1>7. Skips
  BY <1>1, <1>2, <1>5, <1>6 DEF Skips
<1>8. late' \subseteq {"rest"} /\ ended' \in Seq(BOOLEAN)
  BY <1>1, <1>2, <1>3, EmitHere DEF BlocksMade
<1> QED BY <1>1, <1>5, <1>7, <1>8, Types DEF Move, Typed, Tables

LEMMA BlockMoves ==
  ASSUME IInv, Block PROVE Move /\ Typed
<1> DEFINE f == Frame("block", "list", <<>>)
<1>1. /\ AtStatement /\ work' = Push(f) /\ scopes' = Append(scopes, scopes[Len(scopes)])
      /\ UNCHANGED <<ended, cur, loops, locals, late>>
  BY DEF Block, CanNest, EnterScope
<1>2. work # <<>>
  BY <1>1 DEF AtStatement
<1>3. f \in Frames
  <2>1. <<>> \in Seq(1 .. MaxBlocks)
    BY EmptySeq
  <2> QED BY <2>1 DEF Frame, Frames, Places
<1>4. Nested(work', f)
  BY <1>1, <1>2, <1>3, PushFacts DEF IInv
<1>5. scopes' \in Seq(Tables) /\ Len(scopes') = Len(scopes) + 1
  BY <1>1, <1>2, LastScope, AppendProperties
<1>6. EntersBlock(f)
  BY <1>1, <1>4, <1>5 DEF EntersBlock
<1> QED BY <1>1, <1>3, <1>5, <1>6, Types DEF Move, Typed, Tables

LEMMA EndBlockMoves ==
  ASSUME IInv, EndBlock PROVE Move /\ Typed
<1>1. /\ work # <<>> /\ Top.kind = "block" /\ work' = Pop(work) /\ scopes' = Pop(scopes)
      /\ UNCHANGED <<ended, cur, loops, locals, late>>
  BY DEF EndBlock, At, LeaveScope
<1>2. Popped(work')
  BY <1>1, WorkPops DEF IInv
<1>3. scopes' \in Seq(Tables) /\ Len(scopes') = Len(scopes) - 1
  BY <1>1, LastScope
<1>4. LeavesBlock
  BY <1>1, <1>2, <1>3 DEF LeavesBlock
<1> QED BY <1>1, <1>3, <1>4, Types DEF Move, Typed, Tables

\* The blocks of the last statement: they are the function's and all different, and those
\* yet to be filled are open and not the builder's.
LEMMA OwnBlocks ==
  ASSUME IInv, work # <<>>
  PROVE  /\ Top \in Frames /\ Fits(Top) /\ Top.own \in Seq(1 .. MaxBlocks)
         /\ DOMAIN Top.own = 1 .. Len(Top.own)
         /\ \A j, k \in 1 .. Len(Top.own) : Top.own[j] = Top.own[k] => j = k
         /\ \A k \in 1 .. Len(Top.own) : Top.own[k] \in DOMAIN ended
         /\ \A b \in Left(Top) : b \in DOMAIN ended /\ ~ ended[b] /\ b # cur
         /\ DOMAIN ended = 1 .. Len(ended) /\ Len(ended) \in Nat /\ cur \in DOMAIN ended
<1>1. Top \in Frames /\ Fits(Top) /\ Distinct(Top) /\ Len(work) \in DOMAIN work
      /\ \A k \in DOMAIN Top.own : Top.own[k] \in DOMAIN ended
  BY TopFacts DEF IInv
<1>2. Top.own \in Seq(1 .. MaxBlocks)
  BY <1>1 DEF Frames
<1>3. DOMAIN Top.own = 1 .. Len(Top.own)
  BY <1>2, LenProperties
<1>4. \A b \in Left(Top) : b \in DOMAIN ended /\ ~ ended[b] /\ b # cur
  BY <1>1 DEF IInv, Fresh, Top
<1>5. DOMAIN ended = 1 .. Len(ended) /\ Len(ended) \in Nat /\ cur \in DOMAIN ended
  BY TopFacts DEF IInv
<1> QED BY <1>1, <1>2, <1>3, <1>4, <1>5 DEF Distinct

\* If the block where an arm or a case began is open, the builder is in it.
LEMMA StillOpen ==
  ASSUME IInv, work # <<>>, NEW b \in Begun(Top), ~ ended[b]
  PROVE  b = cur
<1>1. Len(work) \in DOMAIN work
  BY TopFacts DEF IInv
<1> QED BY <1>1 DEF IInv, StillThere, Top

\* The builder leaves the last statement's block for one of those to be filled.
LEMMA IsTurned ==
  ASSUME IInv, work # <<>>, NEW open \in BOOLEAN, ended' = Close(open), cur' \in Left(Top),
         open \/ ended[cur] \/ Top.at \in {"armDone", "elseDone"} \/ Top.kind = "switch"
  PROVE  /\ Turns /\ ended' \in Seq(BOOLEAN) /\ Len(ended') <= MaxBlocks
         /\ \A b \in Left(Top) : ended'[b] = ended[b]
<1>1. /\ ended' \in Seq(BOOLEAN) /\ Len(ended') = Len(ended)
      /\ open => ended'[cur]
      /\ \A b \in DOMAIN ended : (b # cur => ended'[b] = ended[b]) /\ (ended[b] => ended'[b])
  BY CloseFacts
<1>2. \A b \in Left(Top) : b \in DOMAIN ended /\ ~ ended[b] /\ b # cur
  BY OwnBlocks
<1>3. \A b \in Left(Top) : ended'[b] = ended[b]
  BY <1>1, <1>2
<1>4. ~ ended'[cur']
  BY <1>2, <1>3
<1>5. ended'[cur] \/ Top.at \in {"armDone", "elseDone"} \/ Top.kind = "switch"
  <2>1. cur \in DOMAIN ended
    BY OwnBlocks
  <2> QED BY <1>1, <2>1
<1>6. Turns
  BY <1>1, <1>4, <1>5 DEF Turns
<1> QED BY <1>1, <1>3, <1>6, Types

\* Closing where the statement began is never late.
LEMMA ClosedInTime ==
  ASSUME IInv, work # <<>>, NEW b \in Begun(Top), Emit(Here(~ ended[b]), FALSE)
  PROVE  late' \subseteq {"rest"}
<1>1. \A d \in Here(~ ended[b]) : ~ ended[d]
  BY StillOpen DEF Here
<1> QED BY <1>1, EmitRests

LEMMA EndArmMoves ==
  ASSUME IInv, NEW hasElse \in BOOLEAN, EndArm(hasElse) PROVE Move /\ Typed
<1> DEFINE at == IF hasElse THEN "else" ELSE "elseDone"
           g == [Top EXCEPT !.at = at]
           open == ~ ended[Top.own[1]]
<1>1. /\ work # <<>> /\ Top.kind = "if" /\ Top.at = "armDone"
      /\ Emit(Here(open), FALSE) /\ ended' = Close(open) /\ cur' = Top.own[2] /\ work' = MoveTo(at)
      /\ UNCHANGED <<loops, locals, scopes>>
  BY DEF EndArm, At
<1>2. at \in {"else", "elseDone"} /\ at \in Places
  BY DEF Places
<1> HIDE DEF at
<1>3. g \in Frames /\ Turned(work', g)
  BY <1>1, <1>2, MoveToFacts DEF IInv
<1>4. g.kind = "if" /\ g.own = Top.own /\ g.at = at
  BY <1>1, OwnBlocks DEF Frames
<1> HIDE DEF g
<1>5. Len(Top.own) = 3
  BY <1>1, OwnBlocks DEF Fits
<1>6. /\ Left(Top) = {Top.own[2], Top.own[3]} /\ Begun(Top) = {Top.own[1]}
      /\ Left(g) = {Top.own[3]} /\ Begun(g) = {Top.own[2]}
  BY <1>1, <1>2, <1>4 DEF Left, Begun
<1>7. Top.own[2] # Top.own[3]
  BY <1>1, <1>5, OwnBlocks
<1>8. Left(g) = Left(Top) \ {cur'} /\ Begun(g) = {cur'}
  BY <1>1, <1>6, <1>7
<1>9. open \in BOOLEAN
  OBVIOUS
<1>10. late' \subseteq {"rest"}
  BY <1>1, <1>6, ClosedInTime
<1> HIDE DEF open
<1>11. /\ Turns /\ ended' \in Seq(BOOLEAN) /\ Len(ended') <= MaxBlocks
       /\ \A b \in Left(Top) : ended'[b] = ended[b]
  BY <1>1, <1>6, <1>9, IsTurned
<1>12. Fits(g) /\ g.kind \notin Catchers
  BY <1>2, <1>4, <1>5 DEF Fits, Catchers
<1>13. Distinct(g) /\ \A k \in DOMAIN g.own : g.own[k] \in DOMAIN ended
  BY <1>1, <1>4, TopFacts DEF Distinct, IInv
<1>14. TurnsTo(g)
  BY <1>1, <1>3, <1>4, <1>8, <1>11, <1>12, <1>13 DEF TurnsTo
<1> QED BY <1>1, <1>3, <1>10, <1>11, <1>14, Types DEF Move, Typed, Tables

LEMMA EndIfMoves ==
  ASSUME IInv, EndIf PROVE Move /\ Typed
<1> DEFINE open == ~ ended[Top.own[2]]
<1>1. /\ work # <<>> /\ Top.kind = "if" /\ Top.at = "elseDone"
      /\ Emit(Here(open), FALSE) /\ ended' = Close(open) /\ cur' = Top.own[3] /\ work' = Pop(work)
      /\ UNCHANGED <<loops, locals, scopes>>
  BY DEF EndIf, At
<1>2. Left(Top) = {Top.own[3]} /\ Begun(Top) = {Top.own[2]}
  BY <1>1 DEF Left, Begun
<1>3. open \in BOOLEAN
  OBVIOUS
<1>4. late' \subseteq {"rest"}
  BY <1>1, <1>2, ClosedInTime
<1> HIDE DEF open
<1>5. Turns /\ ended' \in Seq(BOOLEAN) /\ Len(ended') <= MaxBlocks
  BY <1>1, <1>2, <1>3, IsTurned
<1>6. Popped(work')
  BY <1>1, WorkPops DEF IInv
<1>7. Top.kind \notin Catchers /\ Top.kind \notin Scoping /\ Len(scopes) \in Nat
  BY <1>1, ScopesOpen DEF Catchers, Scoping
<1>8. Finishes
  BY <1>1, <1>2, <1>5, <1>6, <1>7 DEF Finishes
<1> QED BY <1>1, <1>4, <1>5, <1>8, Types DEF Move, Typed, Tables

\* The targets of the statement that ends come off the stack.
LEMMA LoopsPop ==
  ASSUME IInv, work # <<>>, Top.kind \in Catchers
  PROVE  Pop(loops) \in Seq((1 .. MaxBlocks) \X (1 .. MaxBlocks))
<1>1. Len(work) \in Nat /\ Len(work) >= 1 /\ Len(work) \in 1 .. Len(work)
  BY WorkLength DEF IInv
<1>2. 1 <= Tally(work, Catchers, Len(work))
  BY <1>1, TallyOrder DEF Top
<1>3. Len(loops) >= 1
  BY <1>2, InStep
<1> QED BY <1>3, Types, PopFacts

\* The exit and the cases left, without the first of them.
CaseDone(s) == <<s[1]>> \o SubSeq(s, 3, Len(s))

LEMMA Dropped ==
  ASSUME NEW S, NEW s \in Seq(S), Len(s) > 2, NEW t, t = CaseDone(s)
  PROVE  /\ t \in Seq(S) /\ Len(t) = Len(s) - 1 /\ t[1] = s[1]
         /\ \A i \in 2 .. Len(s) - 1 : t[i] = s[i + 1]
<1> DEFINE n == Len(s)
           one == <<s[1]>>
           rest == SubSeq(s, 3, n)
<1>1. n \in Nat /\ n > 2 /\ 3 \in Int /\ n \in Int /\ 1 \in 1 .. n
  BY LenProperties
<1>2. s[1] \in S /\ \A k \in 3 .. n : s[k] \in S
  <2>1. \A k \in 1 .. n : s[k] \in S
    BY ElementOfSeq
  <2>2. \A k \in 3 .. n : k \in 1 .. n
    BY <1>1
  <2> QED BY <1>1, <2>1, <2>2
<1> HIDE DEF n
<1>3. /\ rest \in Seq(S)
      /\ Len(rest) = IF 3 <= n THEN n - 3 + 1 ELSE 0
      /\ \A i \in 1 .. n - 3 + 1 : rest[i] = s[3 + i - 1]
  BY <1>1, <1>2, SubSeqProperties
<1> HIDE DEF rest
<1>4. Len(rest) = n - 2 /\ \A i \in 1 .. n - 2 : rest[i] = s[i + 2]
  <2>1. n - 3 + 1 = n - 2 /\ \A i \in 1 .. n - 2 : 3 + i - 1 = i + 2
    BY <1>1
  <2> QED BY <1>1, <1>3, <2>1
<1>5. one \in Seq(S) /\ Len(one) = 1 /\ one[1] = s[1]
  BY <1>2
<1> HIDE DEF one
<1>6. /\ one \o rest \in Seq(S) /\ Len(one \o rest) = Len(one) + Len(rest)
      /\ \A i \in 1 .. Len(one) + Len(rest) :
           (one \o rest)[i] = IF i <= Len(one) THEN one[i] ELSE rest[i - Len(one)]
  BY <1>3, <1>5, ConcatProperties
<1>7. Len(one) + Len(rest) = n - 1 /\ 1 \in 1 .. n - 1
      /\ \A i \in 2 .. n - 1 : i \in 1 .. n - 1 /\ ~ (i <= 1) /\ i - 1 \in 1 .. n - 2 /\ i - 1 + 2 = i + 1
  BY <1>1, <1>4, <1>5
<1>8. t = one \o rest
  BY DEF CaseDone, one, rest, n
<1>9. t[1] = s[1]
  BY <1>5, <1>6, <1>7, <1>8
<1>10. \A i \in 2 .. n - 1 : t[i] = s[i + 1]
  BY <1>4, <1>5, <1>6, <1>7, <1>8
<1> QED BY <1>6, <1>7, <1>8, <1>9, <1>10 DEF n

LEMMA EndCaseMoves ==
  ASSUME IInv, EndCase PROVE Move /\ Typed
<1> DEFINE open == ~ ended[Top.own[2]]
           own == Top.own
           n == Len(own)
<1>1. /\ work # <<>> /\ Top.kind = "switch" /\ Top.at = "list"
      /\ Emit(Here(open), FALSE) /\ ended' = Close(open) /\ UNCHANGED <<locals, scopes>>
  BY DEF EndCase, At
<1>2. Left(Top) = {Top.own[k] : k \in DOMAIN Top.own \ {2}} /\ Begun(Top) = {Top.own[2]}
  BY <1>1 DEF Left, Begun
<1>3. open \in BOOLEAN
  OBVIOUS
<1>4. late' \subseteq {"rest"}
  BY <1>1, <1>2, ClosedInTime
<1> HIDE DEF open
<1>5. n \in Nat /\ n >= 2 /\ own \in Seq(1 .. MaxBlocks) /\ DOMAIN own = 1 .. n
      /\ \A j, k \in 1 .. n : own[j] = own[k] => j = k
  BY <1>1, OwnBlocks, LenProperties DEF Fits
<1>6. Top.kind \in Catchers /\ Top.kind \notin Scoping /\ Len(scopes) \in Nat
  BY <1>1, ScopesOpen DEF Catchers, Scoping
<1>7. CASE n > 2
  <2> DEFINE next == <<own[1]>> \o SubSeq(own, 3, n)
             g == [Top EXCEPT !.own = next]
  <2>1. cur' = own[3] /\ work' = [work EXCEPT ![Len(work)].own = next] /\ loops' = loops
    BY <1>7 DEF EndCase, Top
  <2>2. next \in Seq(1 .. MaxBlocks) /\ Len(next) = n - 1 /\ next[1] = own[1]
        /\ \A i \in 2 .. n - 1 : next[i] = own[i + 1]
    <3>1. own \in Seq(1 .. MaxBlocks) /\ Len(own) > 2 /\ n = Len(own) /\ next = CaseDone(own)
      BY <1>5, <1>7 DEF CaseDone
    <3> HIDE DEF own, n, next, g
    <3>2. /\ next \in Seq(1 .. MaxBlocks) /\ Len(next) = Len(own) - 1 /\ next[1] = own[1]
          /\ \A i \in 2 .. Len(own) - 1 : next[i] = own[i + 1]
      BY <3>1, Dropped
    <3> QED BY <3>1, <3>2
  <2>3. DOMAIN next = 1 .. Len(next)
    BY <2>2, LenProperties
  <2> HIDE DEF next, own, n
  <2>4. /\ next \in Seq(1 .. MaxBlocks) /\ Len(next) = n - 1 /\ DOMAIN next = 1 .. n - 1
        /\ next[1] = own[1] /\ \A i \in 2 .. n - 1 : next[i] = own[i + 1]
    BY <2>2, <2>3
  <2>5. g \in Frames /\ g.kind = "switch" /\ g.at = "list" /\ g.own = next
    BY <1>1, <2>4, OwnBlocks DEF Frames
  <2>6. work' = [work EXCEPT ![Len(work)] = g]
    BY <1>1, <2>1, TopFacts DEF Top, IInv
  <2> HIDE DEF g
  <2>7. Turned(work', g)
    BY <1>1, <2>5, <2>6, PutFacts DEF IInv
  <2>8. Fits(g)
    BY <1>5, <1>7, <2>4, <2>5 DEF Fits
  <2> DEFINE from(i) == IF i = 1 THEN 1 ELSE i + 1
  <2>9. \A i \in 1 .. n - 1 : next[i] = own[from(i)] /\ from(i) \in 1 .. n
    <3> SUFFICES ASSUME NEW i \in 1 .. n - 1 PROVE next[i] = own[from(i)] /\ from(i) \in 1 .. n
      OBVIOUS
    <3>1. CASE i = 1
      BY <1>5, <2>4, <3>1
    <3>2. CASE i # 1
      <4>1. i \in 2 .. n - 1 /\ i + 1 \in 1 .. n
        BY <1>5, <3>2
      <4> QED BY <2>4, <3>2, <4>1
    <3> QED BY <3>1, <3>2
  <2>10. Distinct(g)
    <3> SUFFICES ASSUME NEW j \in 1 .. n - 1, NEW k \in 1 .. n - 1, next[j] = next[k] PROVE j = k
      BY <2>4, <2>5 DEF Distinct
    <3>1. from(j) = from(k)
      BY <1>5, <2>9
    <3> QED BY <1>5, <3>1
  <2>11. \A k \in DOMAIN g.own : g.own[k] \in DOMAIN ended
    <3>1. \A k \in 1 .. n : own[k] \in DOMAIN ended
      BY <1>1, OwnBlocks DEF own, n
    <3> QED BY <2>4, <2>5, <2>9, <3>1
  <2>12. Begun(g) = {cur'} /\ Targets(g) = Targets(Top)
    <3>1. 2 \in 2 .. n - 1 /\ 2 + 1 = 3
      BY <1>5, <1>7
    <3>2. next[2] = own[3]
      BY <2>4, <3>1
    <3> QED BY <1>1, <2>1, <2>4, <2>5, <3>2 DEF Begun, Targets, own
  <2>13. Left(g) = {next[k] : k \in (1 .. n - 1) \ {2}}
    BY <2>4, <2>5 DEF Left
  <2>14. Left(g) = Left(Top) \ {cur'}
    <3>1. ASSUME NEW k \in (1 .. n - 1) \ {2} PROVE next[k] \in Left(Top) /\ next[k] # own[3]
      <4>1. from(k) \in (1 .. n) \ {2} /\ from(k) # 3 /\ 3 \in 1 .. n
        BY <1>5, <1>7
      <4>2. next[k] = own[from(k)]
        BY <2>9
      <4>3. own[from(k)] \in Left(Top)
        BY <1>2, <1>5, <4>1 DEF own
      <4>4. own[from(k)] # own[3]
        BY <1>5, <4>1
      <4> QED BY <4>2, <4>3, <4>4
    <3>2. ASSUME NEW k \in (1 .. n) \ {2}, own[k] # own[3] PROVE own[k] \in Left(g)
      <4>1. CASE k = 1
        <5>1. 1 \in (1 .. n - 1) \ {2}
          BY <1>5, <1>7
        <5> QED BY <2>4, <2>13, <4>1, <5>1
      <4>2. CASE k # 1
        <5>1. k # 3
          BY <3>2
        <5>2. k - 1 \in (1 .. n - 1) \ {2} /\ k - 1 \in 2 .. n - 1 /\ k - 1 + 1 = k
          BY <1>5, <4>2, <5>1
        <5>3. next[k - 1] = own[k]
          BY <2>4, <5>2
        <5> QED BY <2>13, <5>2, <5>3
      <4> QED BY <4>1, <4>2
    <3>3. Left(g) \subseteq Left(Top) \ {cur'}
      BY <2>1, <2>13, <3>1
    <3>4. Left(Top) = {own[k] : k \in (1 .. n) \ {2}}
      BY <1>2, <1>5 DEF own
    <3>5. Left(Top) \ {cur'} \subseteq Left(g)
      BY <2>1, <3>2, <3>4
    <3> QED BY <3>3, <3>5
  <2>15. cur' \in Left(Top)
    <3>1. 3 \in (1 .. n) \ {2}
      BY <1>5, <1>7
    <3> QED BY <1>2, <1>5, <2>1, <3>1 DEF own
  <2>16. /\ Turns /\ ended' \in Seq(BOOLEAN) /\ Len(ended') <= MaxBlocks
         /\ \A b \in Left(Top) : ended'[b] = ended[b]
    BY <1>1, <1>3, <2>15, IsTurned
  <2>17. TurnsTo(g)
    BY <1>1, <2>1, <2>5, <2>7, <2>8, <2>10, <2>11, <2>12, <2>14, <2>16 DEF TurnsTo
  <2> QED BY <1>1, <1>4, <2>1, <2>5, <2>16, <2>17, Types DEF Move, Typed, Tables
<1>8. CASE ~ (n > 2)
  <2>1. cur' = own[1] /\ work' = Pop(work) /\ loops' = Pop(loops)
    BY <1>8 DEF EndCase
  <2> HIDE DEF own, n
  <2>2. n = 2
    BY <1>5, <1>8
  <2>3. DOMAIN own \ {2} = {1}
    BY <1>5, <2>2
  <2>4. Left(Top) = {own[1]}
    BY <1>2, <2>3 DEF own
  <2>5. Turns /\ ended' \in Seq(BOOLEAN) /\ Len(ended') <= MaxBlocks
    BY <1>1, <1>3, <2>1, <2>4, IsTurned
  <2>6. Popped(work')
    BY <1>1, <2>1, WorkPops DEF IInv
  <2>7. Finishes
    BY <1>1, <1>6, <2>1, <2>4, <2>5, <2>6 DEF Finishes
  <2>8. loops' \in Seq((1 .. MaxBlocks) \X (1 .. MaxBlocks))
    BY <1>1, <1>6, <2>1, LoopsPop
  <2> QED BY <1>1, <1>4, <2>5, <2>7, <2>8, Types DEF Move, Typed, Tables
<1> QED BY <1>7, <1>8

\* The last statement, a loop, ends: the builder goes on in its exit, the block in which
\* the body ended jumps, and so does that in which the step or the condition is emitted.
LEMMA IsLeft ==
  ASSUME IInv, work # <<>>, Top.kind \in {"while", "do", "for"}, NEW exit \in Left(Top),
         NEW closed, NEW more, NEW rest, more \subseteq Left(Top), Leave(exit, more, rest, closed),
         \/ closed = Close(~ ended[cur]) /\ Left(Top) = {exit}
         \/ \E b \in Left(Top) : /\ closed = Terminate(Close(~ ended[cur]), b)
                                 /\ Left(Top) = {b, exit} /\ b # exit,
         locals' = locals, scopes' \in Seq(Tables),
         Len(scopes') = Len(scopes) - IF Top.kind \in Scoping THEN 1 ELSE 0
  PROVE  Move /\ Typed
<1> DEFINE open == ~ ended[cur]
           c == Close(open)
<1>1. /\ Emit(Here(open) \cup more, rest) /\ ended' = closed /\ cur' = exit
      /\ work' = Pop(work) /\ loops' = Pop(loops)
  BY DEF Leave
<1>2. late' \subseteq {"rest"}
  <2>1. \A b \in Here(open) \cup more : ~ ended[b]
    BY OwnBlocks DEF Here
  <2> QED BY <1>1, <2>1, EmitRests
<1>3. open \in BOOLEAN /\ (open \/ ended[cur])
  OBVIOUS
<1>4. cur \in DOMAIN ended /\ DOMAIN ended = 1 .. Len(ended)
      /\ \A b \in Left(Top) : b \in DOMAIN ended /\ ~ ended[b] /\ b # cur
  BY OwnBlocks
<1> HIDE DEF open
<1>5. /\ c \in Seq(BOOLEAN) /\ Len(c) = Len(ended) /\ (open => c[cur])
      /\ \A b \in DOMAIN ended : (b # cur => c[b] = ended[b]) /\ (ended[b] => c[b])
  BY <1>3, CloseFacts
<1>6. c[cur]
  BY <1>3, <1>4, <1>5
<1>7. \/ closed = c /\ Left(Top) = {exit}
      \/ \E b \in Left(Top) : closed = Terminate(c, b) /\ Left(Top) = {b, exit} /\ b # exit
  BY DEF open
<1> HIDE DEF c
<1>8. /\ ended' \in Seq(BOOLEAN) /\ Len(ended') = Len(ended) /\ ended'[cur]
      /\ \A b \in DOMAIN ended : b \notin Left(Top) \cup {cur} => ended'[b] = ended[b]
      /\ \A b \in DOMAIN ended : ended[b] => ended'[b]
      /\ ~ ended'[exit] /\ \A b \in Left(Top) : b = exit \/ ended'[b]
  <2>1. CASE closed = c /\ Left(Top) = {exit}
    BY <1>1, <1>4, <1>5, <1>6, <2>1
  <2>2. ASSUME NEW b \in Left(Top), closed = Terminate(c, b), Left(Top) = {b, exit}, b # exit
        PROVE  /\ ended' \in Seq(BOOLEAN) /\ Len(ended') = Len(ended) /\ ended'[cur]
               /\ \A d \in DOMAIN ended : d \notin Left(Top) \cup {cur} => ended'[d] = ended[d]
               /\ \A d \in DOMAIN ended : ended[d] => ended'[d]
               /\ ~ ended'[exit] /\ \A d \in Left(Top) : d = exit \/ ended'[d]
    <3>1. b \in 1 .. Len(c) /\ b # cur /\ ~ ended[b] /\ exit \in DOMAIN ended /\ ~ ended[exit] /\ exit # cur
      BY <1>4, <1>5, <2>2
    <3>2. /\ Terminate(c, b) \in Seq(BOOLEAN) /\ Len(Terminate(c, b)) = Len(c)
          /\ Terminate(c, b)[b] = TRUE
          /\ \A j \in 1 .. Len(c) : j # b => Terminate(c, b)[j] = c[j]
      BY <1>5, <3>1, TerminateFacts
    <3>3. /\ ended' \in Seq(BOOLEAN) /\ Len(ended') = Len(ended) /\ ended'[b]
          /\ \A d \in DOMAIN ended : d # b => ended'[d] = c[d]
      BY <1>1, <1>4, <1>5, <2>2, <3>2
    <3> QED BY <1>4, <1>5, <1>6, <2>2, <3>1, <3>3
  <2> QED BY <1>7, <2>1, <2>2
<1>9. Turns
  BY <1>1, <1>8 DEF Turns
<1>10. Popped(work')
  BY <1>1, WorkPops DEF IInv
<1>11. Top.kind \in Catchers /\ Top.kind \notin {"function", "block"}
  BY DEF Catchers
<1>12. loops' \in Seq((1 .. MaxBlocks) \X (1 .. MaxBlocks))
  BY <1>1, <1>11, LoopsPop
<1>13. Finishes
  BY <1>1, <1>8, <1>9, <1>10, <1>11 DEF Finishes
<1>14. Len(ended') <= MaxBlocks
  BY <1>8, Types
<1> QED BY <1>2, <1>8, <1>12, <1>13, <1>14, Types DEF Move, Typed, Tables

LEMMA EndLoopMoves ==
  ASSUME IInv, NEW rest, EndWhile \/ EndDoWhile(rest) \/ EndFor(rest) PROVE Move /\ Typed
<1>1. CASE EndWhile
  <2> DEFINE none == {}
             closed == Close(~ ended[cur])
  <2>1. /\ work # <<>> /\ Top.kind = "while" /\ Leave(Top.own[3], none, FALSE, closed)
        /\ UNCHANGED <<locals, scopes>>
    BY <1>1 DEF EndWhile, At
  <2>2. Left(Top) = {Top.own[3]}
    BY <2>1 DEF Left
  <2>3. Len(scopes') = Len(scopes) - IF Top.kind \in Scoping THEN 1 ELSE 0
    BY <2>1, ScopesOpen DEF Scoping
  <2>4. Top.own[3] \in Left(Top) /\ none \subseteq Left(Top)
    BY <2>2
  <2>5. closed = Close(~ ended[cur]) /\ scopes' \in Seq(Tables)
    BY <2>1, Types
  <2> HIDE DEF none, closed
  <2> QED BY <2>1, <2>2, <2>3, <2>4, <2>5, IsLeft
<1>2. CASE EndDoWhile(rest)
  <2>1. /\ work # <<>> /\ Top.kind = "do"
        /\ Leave(Top.own[3], {Top.own[2]}, rest, Terminate(Close(~ ended[cur]), Top.own[2]))
        /\ UNCHANGED <<locals, scopes>>
    BY <1>2 DEF EndDoWhile, At
  <2>2. Left(Top) = {Top.own[2], Top.own[3]}
    BY <2>1 DEF Left
  <2>3. Len(Top.own) = 3
    BY <2>1, OwnBlocks DEF Fits
  <2>4. Top.own[2] # Top.own[3]
    BY <2>1, <2>3, OwnBlocks
  <2>5. Len(scopes') = Len(scopes) - IF Top.kind \in Scoping THEN 1 ELSE 0
    BY <2>1, ScopesOpen DEF Scoping
  <2>6. /\ Top.own[2] \in Left(Top) /\ Top.own[3] \in Left(Top)
        /\ Left(Top) = {Top.own[2], Top.own[3]}
    BY <2>2
  <2> QED BY <2>1, <2>4, <2>5, <2>6, IsLeft, Types
<1>3. CASE EndFor(rest)
  <2>1. /\ work # <<>> /\ Top.kind = "for"
        /\ Leave(Top.own[4], {Top.own[3]}, rest, Terminate(Close(~ ended[cur]), Top.own[3]))
        /\ scopes' = Pop(scopes) /\ locals' = locals
    BY <1>3 DEF EndFor, At, LeaveScope
  <2>2. Left(Top) = {Top.own[3], Top.own[4]}
    BY <2>1 DEF Left
  <2>3. Len(Top.own) = 4
    BY <2>1, OwnBlocks DEF Fits
  <2>4. Top.own[3] # Top.own[4]
    BY <2>1, <2>3, OwnBlocks
  <2>5. /\ Len(scopes') = Len(scopes) - IF Top.kind \in Scoping THEN 1 ELSE 0
        /\ scopes' \in Seq(Tables)
    BY <2>1, LastScope DEF Scoping
  <2>6. /\ Top.own[3] \in Left(Top) /\ Top.own[4] \in Left(Top)
        /\ Left(Top) = {Top.own[3], Top.own[4]}
    BY <2>2
  <2> QED BY <2>1, <2>4, <2>5, <2>6, IsLeft, Types
<1> QED BY <1>1, <1>2, <1>3

LEMMA FunctionMoves ==
  ASSUME IInv, \/ \E params \in SUBSET Names : StartFunction(params)
               \/ EndFunction \/ NextFunction \/ Fail
  PROVE  Move /\ Typed
<1>1. ASSUME NEW params \in SUBSET Names, StartFunction(params) PROVE Move /\ Typed
  <2>1. /\ work = <<>> /\ work' = <<Frame("function", "list", <<>>)>> /\ ended' = <<FALSE>>
        /\ cur' = 1 /\ loops' = loops /\ late' = late
        /\ locals' = [x \in Names |-> IF x \in params THEN 1 ELSE 0] /\ scopes' = <<locals'>>
    BY <1>1 DEF StartFunction
  <2>2. locals' \in Tables
    BY <2>1, BoundsAssumption DEF Tables
  <2>3. scopes' \in Seq(Tables) /\ Len(scopes') = 1 /\ ended' \in Seq(BOOLEAN) /\ Len(ended') = 1
    BY <2>1, <2>2
  <2>4. Begins
    BY <2>1, <2>3 DEF Begins
  <2>5. Len(ended') <= MaxBlocks
    BY <2>3, BoundsAssumption
  <2> QED BY <2>1, <2>2, <2>3, <2>4, <2>5, Types DEF Move, Typed, Tables
<1>2. CASE EndFunction
  <2> DEFINE g == [Top EXCEPT !.at = "bodyDone"]
             open == ~ ended[cur]
  <2>1. /\ work # <<>> /\ Top.kind = "function" /\ work' = MoveTo("bodyDone")
        /\ ended' = Close(open) /\ UNCHANGED <<cur, loops, locals, scopes, late>>
    BY <1>2 DEF EndFunction, At
  <2>2. g \in Frames /\ Turned(work', g)
    <3>1. "bodyDone" \in Places
      BY DEF Places
    <3> QED BY <2>1, <3>1, MoveToFacts DEF IInv
  <2>3. g.kind = "function" /\ g.at = "bodyDone" /\ g.own = Top.own
    BY <2>1, OwnBlocks DEF Frames
  <2> HIDE DEF g
  <2>4. Fits(g) /\ Distinct(g)
    BY <2>1, <2>3, TopFacts DEF Fits, Distinct, IInv
  <2>5. open \in BOOLEAN /\ (open \/ ended[cur]) /\ cur \in DOMAIN ended
    BY <2>1, OwnBlocks
  <2> HIDE DEF open
  <2>6. /\ ended' \in Seq(BOOLEAN) /\ Len(ended') = Len(ended) /\ (open => ended'[cur])
        /\ \A b \in DOMAIN ended : (b # cur => ended'[b] = ended[b]) /\ (ended[b] => ended'[b])
    BY <2>1, <2>5, CloseFacts
  <2>7. Stays /\ ended'[cur] /\ Len(ended') <= MaxBlocks
    BY <2>1, <2>5, <2>6, Types DEF Stays
  <2>8. Returns(g)
    BY <2>1, <2>2, <2>3, <2>4, <2>7 DEF Returns
  <2> QED BY <2>1, <2>2, <2>6, <2>7, <2>8, Types DEF Move, Typed, Tables
<1>3. CASE NextFunction
  <2>1. /\ work # <<>> /\ Top.kind = "function" /\ work' = <<>> /\ ended' = <<>> /\ cur' = 0
        /\ scopes' = <<>> /\ UNCHANGED <<loops, locals, late>>
    BY <1>3 DEF NextFunction, At
  <2>2. Len(work) = 1 /\ work[1].kind = "function"
    BY <2>1, TopFacts DEF IInv, Top
  <2>3. Tally(work, Catchers, 0 + 1) = Tally(work, Catchers, 0) + IF work[0 + 1].kind \in Catchers THEN 1 ELSE 0
    BY TallyNext
  <2>4. Len(loops) = 0
    BY <2>2, <2>3, TallyNone, InStep DEF Catchers
  <2>5. loops = <<>>
    BY <2>4, Types, EmptySeq
  <2>6. /\ ended' \in Seq(BOOLEAN) /\ Len(ended') = 0 /\ scopes' \in Seq(Tables) /\ 0 <= MaxBlocks
    BY <2>1, EmptySeq, BoundsAssumption
  <2>7. Quits
    BY <2>1, <2>5 DEF Quits
  <2> QED BY <2>1, <2>6, <2>7, Types DEF Move, Typed, Tables
<1>4. CASE Fail
  <2>1. /\ work' = <<>> /\ ended' = <<>> /\ cur' = 0 /\ loops' = <<>> /\ scopes' = <<>>
        /\ locals' = NoLocals /\ late' = {}
    BY <1>4 DEF Fail
  <2>2. locals' \in Tables
    BY <2>1, BoundsAssumption DEF NoLocals, Tables
  <2>3. /\ ended' \in Seq(BOOLEAN) /\ Len(ended') = 0 /\ scopes' \in Seq(Tables) /\ 0 <= MaxBlocks
        /\ loops' \in Seq((1 .. MaxBlocks) \X (1 .. MaxBlocks))
    BY <2>1, EmptySeq, BoundsAssumption
  <2>4. Quits
    BY <2>1 DEF Quits
  <2> QED BY <2>1, <2>2, <2>3, <2>4 DEF Move, Typed, Tables
<1> QED BY <1>1, <1>2, <1>3, <1>4

LEMMA NextMoves ==
  ASSUME IInv, Next PROVE Move /\ Typed
BY PlainMoves, IfMoves, SwitchMoves, WhileMoves, DoWhileMoves, ForMoves, EmptySwitchMoves,
   BlockMoves, EndBlockMoves, EndArmMoves, EndIfMoves, EndCaseMoves, EndLoopMoves, FunctionMoves
DEF Next

-----------------------------------------------------------------------------
(* The invariant.                                                          *)

LEMMA InitKept == Init => IInv
<1> SUFFICES ASSUME Init PROVE IInv
  OBVIOUS
<1>1. /\ work = <<>> /\ ended = <<>> /\ cur = 0 /\ loops = <<>> /\ scopes = <<>>
      /\ locals = NoLocals /\ late = {}
  BY DEF Init
<1>2. DOMAIN work = {} /\ Len(work) = 0 /\ Len(ended) = 0 /\ Len(loops) = 0 /\ Len(scopes) = 0
  BY <1>1, EmptySeq
<1>3. TypeOK /\ Len(ended) <= MaxBlocks
  <2>1. /\ work \in Seq(Frames) /\ ended \in Seq(BOOLEAN)
        /\ loops \in Seq((1 .. MaxBlocks) \X (1 .. MaxBlocks))
        /\ scopes \in Seq([Names -> 0 .. MaxDecls])
    BY <1>1, EmptySeq
  <2>2. locals \in [Names -> 0 .. MaxDecls] /\ 0 <= MaxBlocks
    BY <1>1, BoundsAssumption DEF NoLocals
  <2> QED BY <1>1, <1>2, <2>1, <2>2 DEF TypeOK
<1>4. Shaped /\ Fresh /\ Apart /\ StillThere /\ Started /\ OnlyRestsLate
  BY <1>1, <1>2 DEF Shaped, Fresh, Apart, StillThere, Started, OnlyRestsLate
<1>5. Depth(Catchers, 0) = 0 /\ Depth(Scoping, 0) = 0
  BY DepthIsTally, TallyNone
<1> QED BY <1>2, <1>3, <1>4, <1>5 DEF LoopsMatch, ScopesMatch, IInv

LEMMA NextKeeps == IInv /\ [Next]_vars => IInv'
<1> SUFFICES ASSUME IInv, [Next]_vars PROVE IInv'
  OBVIOUS
<1>1. CASE Next
  BY <1>1, NextMoves, MoveKeeps
<1>2. CASE UNCHANGED vars
  BY <1>2 DEF vars, IInv, TypeOK, Shaped, Fresh, Apart, StillThere, Started, Top,
     OnlyRestsLate, LoopsMatch, ScopesMatch, Depth
<1> QED BY <1>1, <1>2

LEMMA Invariance == Spec => []IInv
BY InitKept, NextKeeps, PTL DEF Spec

\* The state of the emitter keeps its shape, and every block a statement knows of is
\* one of the function's.
THEOREM TypeCorrect == Spec => []TypeOK
<1>1. IInv => TypeOK
  BY DEF IInv
<1> QED BY <1>1, Invariance, PTL

\* Right behind a terminator there is nothing but the rest of the expression or statement
\* that called Exit: emit_stmts stops at an ended block, each start of an arm, of a body,
\* of a loop's step and condition finds an open one, and so does each closing jump.
THEOREM OthersNeverLate == Spec => []OnlyRestsLate
<1>1. IInv => OnlyRestsLate
  BY DEF IInv
<1> QED BY <1>1, Invariance, PTL

\* loop_stack holds the targets of the loops and switches around the statement, however
\* they are nested and however they were left.
THEOREM LoopsCorrect == Spec => []LoopsMatch
<1>1. IInv => LoopsMatch
  BY DEF IInv
<1> QED BY <1>1, Invariance, PTL

LEMMA ToFillFresh == IInv => BlocksFresh
<1> SUFFICES ASSUME IInv PROVE BlocksFresh
  OBVIOUS
<1>1. \A i \in DOMAIN work : \A b \in Left(work[i]) : b \in DOMAIN ended /\ ~ ended[b] /\ b # cur
  BY DEF IInv, Fresh
<1>2. ToFill \subseteq Open \ {cur}
  BY <1>1 DEF ToFill, Open
<1> QED BY <1>2 DEF BlocksFresh, IInv, Apart

\* A merge, an exit or a case that is yet to be filled has one owner, is open, and the
\* builder is elsewhere.
THEOREM BlocksStayFresh == Spec => []BlocksFresh
BY ToFillFresh, Invariance, PTL
-----------------------------------------------------------------------------
(* What is left open.                                                      *)

LEMMA ToFillNext ==
  ASSUME work' \in Seq(Frames)
  PROVE  \A i \in 1 .. Len(work') : Left(work'[i]) \subseteq ToFill'
<1>1. DOMAIN work' = 1 .. Len(work')
  BY LenProperties
<1> QED BY <1>1 DEF ToFill, Left

\* The blocks of the statements below are still to be filled.
LEMMA FilledByTop ==
  ASSUME IInv, work # <<>>, work' \in Seq(Frames), Below(work'), Len(work') >= Len(work) - 1,
         NEW b \in ToFill
  PROVE  b \in Left(Top) \/ b \in ToFill'
<1>1. Len(work) \in Nat /\ DOMAIN work = 1 .. Len(work) /\ Len(work') \in Nat
  BY WorkLength, LenProperties DEF IInv
<1>2. PICK i \in 1 .. Len(work) : b \in Left(work[i])
  BY <1>1 DEF ToFill
<1>3. CASE i = Len(work)
  BY <1>2, <1>3 DEF Top
<1>4. CASE i # Len(work)
  <2>1. i \in 1 .. Len(work) - 1 /\ i \in 1 .. Len(work')
    <3>1. ASSUME NEW m \in Nat, NEW n \in Nat, n >= m - 1, NEW k \in 1 .. m, k # m
          PROVE  k \in 1 .. m - 1 /\ k \in 1 .. n
      BY <3>1
    <3> QED BY <1>1, <1>4, <3>1
  <2>2. work'[i] = work[i]
    BY <2>1 DEF Below
  <2> QED BY <1>2, <2>1, <2>2, ToFillNext
<1> QED BY <1>3, <1>4

Strands ==
  \A b \in Open \cap (ToFill \cup {cur}) :
    work' # <<>> /\ ~ ended'[b] =>
      \/ b \in (ToFill \cup {cur})'
      \/ b = cur /\ (Top.at \in {"armDone", "elseDone"} \/ Top.kind = "switch")

LEMMA MoveStrands ==
  ASSUME IInv, Move PROVE Strands
<1> SUFFICES ASSUME NEW b \in Open, b \in ToFill \cup {cur}, work' # <<>>, ~ ended'[b]
             PROVE  \/ b \in ToFill' \/ b = cur'
                    \/ b = cur /\ (Top.at \in {"armDone", "elseDone"} \/ Top.kind = "switch")
  BY DEF Strands
<1>1. b \in DOMAIN ended /\ ~ ended[b]
  BY DEF Open
<1>2. work # <<>>
  <2>1. ASSUME work = <<>> PROVE FALSE
    <3>1. cur = 0 /\ DOMAIN work = {} /\ DOMAIN ended = 1 .. Len(ended)
      BY <2>1, EmptySeq, LenProperties DEF IInv, TypeOK
    <3>2. ToFill = {}
      BY <3>1 DEF ToFill
    <3> QED BY <1>1, <3>1, <3>2
  <2> QED BY <2>1
<1>3. Len(work) \in Nat /\ Len(work) >= 1
  BY <1>2, WorkLength DEF IInv
<1>4. CASE Plain \/ Skips
  <2>1. Resumed(work') /\ (cur' = cur \/ ended'[cur])
    BY <1>4 DEF Plain, Skips, Stays, Grows
  <2>2. /\ work' \in Seq(Frames) /\ Len(work') = Len(work) /\ Below(work')
        /\ Left(work'[Len(work)]) = Left(Top)
    BY <2>1 DEF Resumed, Onwards
  <2>3. Left(Top) \subseteq ToFill'
    BY <1>3, <2>2, ToFillNext
  <2> QED BY <1>2, <1>3, <2>1, <2>2, <2>3, FilledByTop
<1>5. ASSUME NEW f \in Frames, Enters(f) \/ EntersBlock(f)
      PROVE  b \in ToFill' \/ b = cur'
  <2>1. Nested(work', f) /\ (cur' = cur \/ ended'[cur])
    BY <1>5 DEF Enters, EntersBlock, Grows
  <2>2. /\ work' \in Seq(Frames) /\ Len(work') = Len(work) + 1 /\ Below(work')
        /\ Left(work'[Len(work)]) = Left(Top)
    BY <2>1 DEF Nested, Onwards
  <2>3. Left(Top) \subseteq ToFill'
    BY <1>3, <2>2, ToFillNext
  <2> QED BY <1>2, <1>3, <2>1, <2>2, <2>3, FilledByTop
<1>6. CASE LeavesBlock
  <2>1. /\ work' \in Seq(Frames) /\ Len(work') = Len(work) - 1 /\ Below(work')
        /\ cur' = cur /\ Top.kind = "block"
    BY <1>6 DEF LeavesBlock, Popped
  <2>2. Left(Top) = {}
    BY <2>1 DEF Left
  <2> QED BY <1>2, <1>3, <2>1, <2>2, FilledByTop
<1>7. ASSUME NEW g \in Frames, TurnsTo(g)
      PROVE  \/ b \in ToFill' \/ b = cur'
             \/ b = cur /\ (Top.at \in {"armDone", "elseDone"} \/ Top.kind = "switch")
  <2>1. /\ work' \in Seq(Frames) /\ Len(work') = Len(work) /\ Below(work')
        /\ work'[Len(work)] = g /\ Left(g) = Left(Top) \ {cur'}
    BY <1>7 DEF TurnsTo, Turned
  <2>2. ended'[cur] \/ Top.at \in {"armDone", "elseDone"} \/ Top.kind = "switch"
    BY <1>7 DEF TurnsTo, Turns
  <2>3. Left(g) \subseteq ToFill'
    BY <1>3, <2>1, ToFillNext
  <2> QED BY <1>2, <1>3, <2>1, <2>2, <2>3, FilledByTop
<1>8. CASE Finishes
  <2>1. /\ work' \in Seq(Frames) /\ Len(work') = Len(work) - 1 /\ Below(work')
        /\ \A d \in Left(Top) : d = cur' \/ ended'[d]
    BY <1>8 DEF Finishes, Popped
  <2>2. ended'[cur] \/ Top.at \in {"armDone", "elseDone"} \/ Top.kind = "switch"
    BY <1>8 DEF Finishes, Turns
  <2> QED BY <1>2, <1>3, <2>1, <2>2, FilledByTop
<1>9. ASSUME NEW g \in Frames, Returns(g) PROVE b \in ToFill'
  <2>1. /\ work' \in Seq(Frames) /\ Len(work') = Len(work) /\ Below(work')
        /\ ended'[cur] /\ Top.kind = "function"
    BY <1>9 DEF Returns, Turned
  <2>2. Left(Top) = {}
    BY <2>1 DEF Left
  <2> QED BY <1>2, <1>3, <2>1, <2>2, FilledByTop
<1>10. ~ Begins /\ ~ Quits
  BY <1>2 DEF Begins, Quits
<1> QED BY <1>4, <1>5, <1>6, <1>7, <1>8, <1>9, <1>10 DEF Move

\* Of the blocks that are open and could still be ended, a step forgets none but that
\* in which an arm or a case ended: a loop, a block or the end of a function closes or
\* keeps every other.
THEOREM ArmsAloneStrand == Spec => OnlyArmsStrand
<1>1. IInv /\ [Next]_vars => [Strands]_vars
  BY NextMoves, MoveStrands
<1> QED BY <1>1, Invariance, PTL DEF Spec, OnlyArmsStrand, Strands
=============================================================================
