------------------------------- MODULE HeapProofs -------------------------------
(***************************************************************************)
(* For every buffer, every set of request sizes and every stored word: the *)
(* heap keeps its blocks tiled, its counter right and its owners apart,    *)
(* and implements the abstract allocator.                                  *)
(***************************************************************************)
EXTENDS Heap, TLAPS, FiniteSetTheorems

\* alloc walks for a request some caller made, which is never empty.
Asking == pc = "walk" => want \in Requests

\* The inductive invariant.  TypeOK and BlocksTile carry each other; WalkSound
\* needs BlocksTile to know that no header hides between pos and the next one;
\* OwnedInUse needs WalkSound to know that Reuse and Bump touch no used block.
IInv ==
  /\ TypeOK /\ Asking
  /\ BlocksTile /\ LiveCounts /\ WalkSound /\ ReachWithinBlock /\ OwnedInUse

LEMMA AlignUpPositive ==
  ASSUME NEW b \in Nat, b > 0
  PROVE  AlignUp(b) \in Nat /\ AlignUp(b) > 0
BY DEF AlignUp

LEMMA RequestsPositive ==
  ASSUME NEW w \in Requests
  PROVE  w \in Nat /\ w > 0
BY AlignUpPositive, RequestAssumption DEF Requests

LEMMA ZeroIsHeader == Zero \in Header
BY DEF Zero, Header

LEMMA InitIInv == Init => IInv
<1> SUFFICES ASSUME Init PROVE IInv
  OBVIOUS
<1>1. TypeOK
  <2>1. Zero \in Header
    BY ZeroIsHeader
  <2>2. Ok \in Results
    BY CapacityAssumption DEF Ok, Results, Words
  <2>3. 1 \in 1 .. Capacity
    BY CapacityAssumption
  <2> QED
    BY <2>1, <2>2, <2>3 DEF Init, TypeOK
<1>2. Granted = {}
  BY DEF Init, Granted
<1>3. Cardinality({h \in heads : ~mem[h].free}) = 0
  <2>1. {h \in heads : ~mem[h].free} = {}
    BY DEF Init
  <2> QED
    BY <2>1, FS_EmptySet
<1> QED
  BY <1>1, <1>2, <1>3 DEF Init, IInv, Asking, BlocksTile, LiveCounts, WalkSound,
     ReachWithinBlock, OwnedInUse
-----------------------------------------------------------------------------
(* Facts about a tiled buffer.                                             *)

\* The next header is above this one and no higher than the mark.
LEMMA NextBounds ==
  ASSUME TypeOK, BlocksTile, NEW h \in heads
  PROVE  h \in Words /\ h \in Nat /\ mem[h] \in Header /\ h + 1 < NextHeader(h)
         /\ NextHeader(h) <= bump /\ h + 1 \in Words
<1>1. h \in Words /\ mem[h] \in Header /\ bump \in Nat /\ bump <= Capacity
  BY CapacityAssumption DEF TypeOK, Words
<1>2. h \in Nat /\ mem[h].size \in Nat /\ mem[h].size > 0
  BY <1>1 DEF Header, BlocksTile, Words
<1>3. NextHeader(h) \in heads \cup {bump}
  BY DEF BlocksTile
<1>4. NextHeader(h) <= bump
  BY <1>1, <1>2, <1>3 DEF BlocksTile, NextHeader
<1> QED
  BY <1>1, <1>2, <1>4, CapacityAssumption DEF NextHeader, Words

\* No header stands in the data of a block.
LEMMA NoHeaderInData ==
  ASSUME TypeOK, BlocksTile, NEW g \in heads, NEW n \in Nat, n <= mem[g].size,
         NEW h \in heads
  PROVE  h \notin Region(g + 1, n)
<1> SUFFICES ASSUME h \in Region(g + 1, n) PROVE FALSE
  OBVIOUS
<1>1. g < h /\ h < NextHeader(g)
  BY NextBounds DEF Region, NextHeader, Header
<1>2. NextHeader(g) <= h
  BY <1>1 DEF BlocksTile
<1> QED
  BY <1>1, <1>2, NextBounds DEF NextHeader, Header

LEMMA HeadsFinite ==
  ASSUME TypeOK
  PROVE  IsFiniteSet(heads) /\ IsFiniteSet({h \in heads : ~mem[h].free})
<1>1. IsFiniteSet(Words)
  BY CapacityAssumption, FS_Interval DEF Words
<1>2. heads \subseteq Words /\ {h \in heads : ~mem[h].free} \subseteq heads
  BY DEF TypeOK
<1> QED
  BY <1>1, <1>2, FS_Subset

\* A step that leaves every header and the bookkeeping as they are.
LEMMA SameHeaders ==
  ASSUME IInv, mem' \in [Words -> Header],
         \A h \in heads : mem'[h] = mem[h],
         UNCHANGED <<bump, live, heads, reach, owned, misused>>
  PROVE  /\ BlocksTile' /\ LiveCounts' /\ ReachWithinBlock' /\ OwnedInUse'
         /\ \A h \in heads, n \in Nat : Fits(h, n)' = Fits(h, n)
<1>1. \A h \in heads : NextHeader(h)' = NextHeader(h)
  BY DEF NextHeader
<1>2. BlocksTile'
  BY <1>1 DEF IInv, BlocksTile
<1>3. {h \in heads : ~mem[h].free}' = {h \in heads : ~mem[h].free}
  OBVIOUS
<1>4. LiveCounts' /\ OwnedInUse'
  BY <1>3 DEF IInv, LiveCounts, OwnedInUse
<1>5. ReachWithinBlock'
  BY DEF IInv, ReachWithinBlock, Granted
<1> QED
  BY <1>2, <1>4, <1>5 DEF Fits
-----------------------------------------------------------------------------
(* Each action keeps the invariant.                                        *)

LEMMA IdleStep ==
  ASSUME IInv, UNCHANGED <<heap, client, heads>>,
         pc' = "idle" \/ UNCHANGED call, ret' \in Results, UNCHANGED <<pos, want, text>>
  PROVE  IInv'
<1>1. TypeOK'
  BY DEF IInv, TypeOK, heap, client, call
<1>2. BlocksTile' /\ LiveCounts' /\ ReachWithinBlock' /\ OwnedInUse'
  BY SameHeaders DEF IInv, TypeOK, heap, client
<1>3. WalkSound' /\ Asking'
  BY DEF IInv, WalkSound, Asking, Fits, heap, client, call
<1> QED
  BY <1>1, <1>2, <1>3 DEF IInv

LEMMA AllocStartStep ==
  ASSUME IInv, NEW b \in RequestSizes, NEW isText \in BOOLEAN, AllocStart(b, isText)
  PROVE  IInv'
<1>1. want' \in Nat /\ want' \in Requests
  BY AlignUpPositive, RequestAssumption DEF AllocStart, Requests
<1>2. TypeOK' /\ Asking'
  BY <1>1 DEF IInv, TypeOK, Asking, AllocStart, heap, client
<1>3. BlocksTile' /\ LiveCounts' /\ ReachWithinBlock' /\ OwnedInUse'
  BY SameHeaders DEF IInv, TypeOK, AllocStart, heap, client
<1>4. WalkSound'
  <2>1. pos' = 1 /\ pos' \in heads' \cup {bump'}
    BY DEF IInv, BlocksTile, AllocStart, heap
  <2>2. \A h \in heads' : ~(h < pos')
    BY <2>1, NextBounds DEF IInv, BlocksTile, AllocStart
  <2> QED
    BY <2>1, <2>2 DEF WalkSound
<1> QED
  BY <1>2, <1>3, <1>4 DEF IInv

LEMMA SkipStep ==
  ASSUME IInv, Skip
  PROVE  IInv'
<1>1. pos \in heads
  BY DEF IInv, TypeOK, WalkSound, Skip, AtHeader
<1>2. NextHeader(pos) \in Nat
  BY <1>1, NextBounds DEF IInv, NextHeader, Header
<1>3. TypeOK' /\ Asking'
  BY <1>2 DEF IInv, TypeOK, Asking, Skip, heap, client
<1>4. BlocksTile' /\ LiveCounts' /\ ReachWithinBlock' /\ OwnedInUse'
  BY SameHeaders DEF IInv, TypeOK, Skip, heap, client
<1>5. WalkSound'
  <2>1. pos' \in heads' \cup {bump'}
    BY <1>1 DEF IInv, BlocksTile, Skip, heap
  <2>2. ASSUME NEW h \in heads, h < NextHeader(pos)
        PROVE  ~Fits(h, want)
    <3>1. ~(pos < h)
      BY <1>1, <1>2, <2>2, NextBounds DEF IInv, BlocksTile
    <3>2. h < pos \/ h = pos
      BY <1>1, <3>1, NextBounds DEF IInv
    <3> QED
      BY <3>2 DEF IInv, WalkSound, Skip
  <2> QED
    BY <2>1, <2>2 DEF WalkSound, Skip, Fits, heap
<1> QED
  BY <1>3, <1>4, <1>5 DEF IInv

\* The effect of clearing or filling a region: only its words change.
LEMMA FilledEffect ==
  ASSUME TypeOK, NEW m \in [Words -> Header], NEW p \in Nat, Filled(m, p, text)
  PROVE  /\ mem' \in [Words -> Header]
         /\ \A i \in Words : i \notin Region(p, want) => mem'[i] = m[i]
BY ZeroIsHeader, JunkAssumption DEF Filled

LEMMA WantAsked ==
  ASSUME IInv, pc = "walk"
  PROVE  want \in Requests /\ want \in Nat /\ want > 0
BY RequestsPositive DEF IInv, Asking

\* What Reuse does to the headers: it marks the one it stands on, and no other.
LEMMA ReuseEffect ==
  ASSUME IInv, Reuse
  PROVE  /\ pos \in heads /\ pos \in Words /\ pos \in Nat /\ pos + 1 \in Words
         /\ mem[pos] \in Header /\ mem[pos].free /\ want <= mem[pos].size
         /\ want \in Nat /\ want > 0 /\ want \in Requests
         /\ mem' \in [Words -> Header]
         /\ mem'[pos].size = mem[pos].size /\ ~mem'[pos].free
         /\ \A h \in heads : h # pos => mem'[h] = mem[h]
         /\ \A i \in Words : i \notin Region(pos, want + 1) => mem'[i] = mem[i]
         /\ pc' = "idle" /\ ret' = Ptr(pos + 1) /\ owned' = owned \cup {pos + 1}
         /\ reach' = [reach EXCEPT ![pos + 1] = IF @ > want THEN @ ELSE want]
         /\ live' = live + 1
         /\ UNCHANGED <<bump, heads, pos, want, text, misused>>
<1> DEFINE m == [mem EXCEPT ![pos].free = FALSE]
<1>1. pos \in heads
  BY DEF IInv, TypeOK, WalkSound, Reuse, AtHeader
<1>2. /\ pos \in Words /\ pos \in Nat /\ mem[pos] \in Header /\ pos + 1 \in Words
      /\ mem[pos].free /\ want <= mem[pos].size /\ want \in Nat /\ want > 0
  BY <1>1, NextBounds, RequestsPositive DEF IInv, Reuse, Fits, TypeOK, Asking, Header
<1>3. m \in [Words -> Header] /\ Filled(m, pos + 1, text)
  <2>1. m \in [Words -> Header]
    BY <1>2 DEF IInv, TypeOK, Header
  <2> QED
    BY <2>1 DEF Reuse
<1>4. /\ mem' \in [Words -> Header]
      /\ \A i \in Words : i \notin Region(pos + 1, want) => mem'[i] = m[i]
  <2>1. pos + 1 \in Nat
    BY <1>2
  <2> HIDE DEF m
  <2> QED
    BY <1>3, <2>1, FilledEffect DEF IInv
<1>5. \A h \in heads : mem'[h] = m[h]
  BY <1>1, <1>2, <1>4, NoHeaderInData, NextBounds DEF IInv
<1>6. /\ mem'[pos].size = mem[pos].size /\ ~mem'[pos].free
      /\ \A h \in heads : h # pos => mem'[h] = mem[h]
  BY <1>1, <1>2, <1>5 DEF Header, IInv, TypeOK
<1>7. /\ pc' = "idle" /\ ret' = Ptr(pos + 1) /\ owned' = owned \cup {pos + 1}
      /\ reach' = [reach EXCEPT ![pos + 1] = IF @ > want THEN @ ELSE want]
      /\ live' = live + 1
      /\ UNCHANGED <<bump, heads, pos, want, text, misused>>
  BY DEF Reuse, Grant, Done
<1>8. \A i \in Words : i \notin Region(pos, want + 1) => mem'[i] = mem[i]
  BY <1>2, <1>4 DEF Region, Words, IInv, TypeOK
<1> QED
  BY <1>1, <1>2, <1>4, <1>6, <1>7, <1>8, WantAsked DEF Reuse

LEMMA ReuseStep ==
  ASSUME IInv, Reuse
  PROVE  IInv'
<1> DEFINE Busy == {h \in heads : ~mem[h].free}
<1>1. pos \in heads
  BY ReuseEffect
<1>2. /\ pos \in Words /\ pos \in Nat /\ mem[pos] \in Header /\ pos + 1 \in Words
      /\ mem[pos].free /\ want <= mem[pos].size /\ want \in Nat /\ want > 0
  BY ReuseEffect
<1>4. mem' \in [Words -> Header]
  BY ReuseEffect
<1>6. /\ mem'[pos].size = mem[pos].size /\ ~mem'[pos].free
      /\ \A h \in heads : h # pos => mem'[h] = mem[h]
  BY ReuseEffect
<1>7. /\ pc' = "idle" /\ ret' = Ptr(pos + 1) /\ owned' = owned \cup {pos + 1}
      /\ reach' = [reach EXCEPT ![pos + 1] = IF @ > want THEN @ ELSE want]
      /\ live' = live + 1
      /\ UNCHANGED <<bump, heads, pos, want, text, misused>>
  BY ReuseEffect
<1>8. TypeOK'
  BY <1>2, <1>4, <1>7 DEF IInv, TypeOK, Results, Ptr
<1>9. BlocksTile'
  <2>1. \A h \in heads : mem'[h].size = mem[h].size
    BY <1>6
  <2> QED
    BY <1>7, <2>1 DEF IInv, BlocksTile, NextHeader
<1>10. {h \in heads : ~mem[h].free}' = Busy \cup {pos}
  BY <1>1, <1>6, <1>7
<1>11. LiveCounts'
  <2>1. pos \notin Busy
    BY <1>2
  <2>2. Cardinality(Busy \cup {pos}) = Cardinality(Busy) + 1
    BY <2>1, HeadsFinite, FS_AddElement DEF IInv
  <2> QED
    BY <1>7, <1>10, <2>2 DEF IInv, LiveCounts
<1>12. ReachWithinBlock'
  <2>1. owned' \subseteq Granted'
    BY <1>2, <1>7 DEF IInv, ReachWithinBlock, Granted, TypeOK
  <2>2. ASSUME NEW p \in Granted'
        PROVE  p - 1 \in heads /\ reach'[p] <= mem'[p - 1].size
    <3>1. CASE p = pos + 1
      BY <1>1, <1>2, <1>6, <1>7, <3>1 DEF IInv, ReachWithinBlock, Granted, TypeOK, Header
    <3>2. CASE p # pos + 1
      <4>1. p \in Granted /\ reach'[p] = reach[p] /\ p - 1 # pos
        BY <1>2, <1>7, <3>2 DEF IInv, Granted, TypeOK, Words
      <4> QED
        BY <1>6, <4>1 DEF IInv, ReachWithinBlock
    <3> QED
      BY <3>1, <3>2
  <2> QED
    BY <1>7, <2>1, <2>2 DEF ReachWithinBlock
<1>13. OwnedInUse'
  <2>1. {p - 1 : p \in owned \cup {pos + 1}} = {p - 1 : p \in owned} \cup {pos}
    BY <1>2
  <2> QED
    BY <1>7, <1>10, <2>1 DEF IInv, OwnedInUse
<1>14. WalkSound' /\ Asking'
  BY <1>7 DEF WalkSound, Asking
<1> QED
  BY <1>8, <1>9, <1>11, <1>12, <1>13, <1>14 DEF IInv

\* What Bump does to the headers: it writes one at the mark, above all others.
LEMMA BumpEffect ==
  ASSUME IInv, Bump
  PROVE  /\ want \in Nat /\ want > 0 /\ want \in Requests
         /\ bump \in Nat /\ bump > 0 /\ bump + 1 + want <= Capacity
         /\ bump \in Words /\ bump + 1 \in Words /\ bump + 1 \in Nat
         /\ bump \notin heads
         /\ mem' \in [Words -> Header]
         /\ \A h \in heads : mem'[h] = mem[h]
         /\ \A i \in Words : i < bump => mem'[i] = mem[i]
         /\ mem'[bump].size = want /\ ~mem'[bump].free
         /\ pc' = "idle" /\ ret' = Ptr(bump + 1) /\ owned' = owned \cup {bump + 1}
         /\ reach' = [reach EXCEPT ![bump + 1] = IF @ > want THEN @ ELSE want]
         /\ live' = live + 1 /\ bump' = bump + 1 + want /\ heads' = heads \cup {bump}
         /\ UNCHANGED <<pos, want, text, misused>>
<1> DEFINE m == [mem EXCEPT ![bump] = [size |-> want % SizeSpan, free |-> FALSE]]
<1>1. /\ want \in Nat /\ want > 0 /\ bump \in Nat /\ bump > 0
      /\ bump + 1 + want <= Capacity
      /\ bump \in Words /\ bump + 1 \in Words /\ bump + 1 \in Nat
  BY CapacityAssumption, RequestsPositive DEF IInv, TypeOK, Asking, Bump, End, Words
<1>2. want % SizeSpan = want
  <2>1. want < SizeSpan
    BY <1>1, SizeSpanAssumption, CapacityAssumption
  <2> QED
    BY <1>1, <2>1, SizeSpanAssumption
<1>3. bump \notin heads
  BY <1>1 DEF IInv, BlocksTile
<1>4. m \in [Words -> Header] /\ Filled(m, bump + 1, text)
  BY <1>1, <1>2 DEF IInv, TypeOK, Header, Bump
<1>5. /\ mem' \in [Words -> Header]
      /\ \A i \in Words : i \notin Region(bump + 1, want) => mem'[i] = m[i]
  BY <1>1, <1>4, FilledEffect DEF IInv
<1>6. \A h \in heads : mem'[h] = mem[h]
  <2> TAKE h \in heads
  <2>1. h \in Words /\ h < bump
    BY NextBounds DEF IInv, BlocksTile
  <2> QED
    BY <1>1, <1>5, <2>1 DEF Region, Words, IInv, TypeOK
<1>7. mem'[bump].size = want /\ ~mem'[bump].free
  BY <1>1, <1>2, <1>5 DEF Region, IInv, TypeOK
<1>8. /\ pc' = "idle" /\ ret' = Ptr(bump + 1) /\ owned' = owned \cup {bump + 1}
      /\ reach' = [reach EXCEPT ![bump + 1] = IF @ > want THEN @ ELSE want]
      /\ live' = live + 1 /\ bump' = bump + 1 + want /\ heads' = heads \cup {bump}
      /\ UNCHANGED <<pos, want, text, misused>>
  BY DEF Bump, Grant, Done, End
<1>9. \A i \in Words : i < bump => mem'[i] = mem[i]
  BY <1>1, <1>5 DEF Region, Words, IInv, TypeOK
<1> QED
  BY <1>1, <1>3, <1>5, <1>6, <1>7, <1>8, <1>9, WantAsked DEF Bump

LEMMA BumpStep ==
  ASSUME IInv, Bump
  PROVE  IInv'
<1> DEFINE Busy == {h \in heads : ~mem[h].free}
<1>1. /\ want \in Nat /\ want > 0 /\ bump \in Nat /\ bump > 0
      /\ bump + 1 + want <= Capacity
      /\ bump \in Words /\ bump + 1 \in Words /\ bump + 1 \in Nat
  BY BumpEffect
<1>3. bump \notin heads
  BY BumpEffect
<1>5. mem' \in [Words -> Header]
  BY BumpEffect
<1>6. \A h \in heads : mem'[h] = mem[h]
  BY BumpEffect
<1>7. mem'[bump].size = want /\ ~mem'[bump].free
  BY BumpEffect
<1>8. /\ pc' = "idle" /\ ret' = Ptr(bump + 1) /\ owned' = owned \cup {bump + 1}
      /\ reach' = [reach EXCEPT ![bump + 1] = IF @ > want THEN @ ELSE want]
      /\ live' = live + 1 /\ bump' = bump + 1 + want /\ heads' = heads \cup {bump}
      /\ UNCHANGED <<pos, want, text, misused>>
  BY BumpEffect
<1>9. TypeOK'
  BY <1>1, <1>5, <1>8 DEF IInv, TypeOK, Results, Ptr
<1>10. BlocksTile'
  <2>1. \A h \in heads : h + 1 + mem'[h].size = NextHeader(h) /\ h < bump
    BY <1>6 DEF NextHeader, IInv, BlocksTile
  <2>2. bump + 1 + mem'[bump].size = bump'
    BY <1>7, <1>8
  <2>3. \A h \in heads : NextHeader(h) <= bump
    BY NextBounds DEF IInv
  <2>4. 1 \in heads' \cup {bump'}
    BY <1>8 DEF IInv, BlocksTile
  <2>5. \A h \in heads' : 0 < h /\ h < bump' /\ mem'[h].size > 0
    BY <1>1, <1>6, <1>7, <1>8, NextBounds DEF IInv, BlocksTile
  <2>6. \A h \in heads' : h + 1 + mem'[h].size \in heads' \cup {bump'}
    BY <1>8, <2>1, <2>2 DEF IInv, BlocksTile
  <2>7. \A g, h \in heads' : g < h => g + 1 + mem'[g].size <= h
    <3> SUFFICES ASSUME NEW g \in heads', NEW h \in heads', g < h
                 PROVE  g + 1 + mem'[g].size <= h
      OBVIOUS
    <3>1. g \in heads
      BY <1>1, <1>8, <2>1, NextBounds DEF IInv
    <3> QED
      BY <1>8, <2>1, <2>3, <3>1 DEF IInv, BlocksTile
  <2> QED
    BY <2>4, <2>5, <2>6, <2>7 DEF BlocksTile, NextHeader
<1>11. {h \in heads : ~mem[h].free}' = Busy \cup {bump}
  BY <1>3, <1>6, <1>7, <1>8
<1>12. LiveCounts'
  <2>1. Cardinality(Busy \cup {bump}) = Cardinality(Busy) + 1
    BY <1>3, HeadsFinite, FS_AddElement DEF IInv
  <2> QED
    BY <1>8, <1>11, <2>1 DEF IInv, LiveCounts
<1>13. ReachWithinBlock'
  <2>1. owned' \subseteq Granted'
    BY <1>1, <1>8 DEF IInv, ReachWithinBlock, Granted, TypeOK
  <2>2. ASSUME NEW p \in Granted'
        PROVE  p - 1 \in heads' /\ reach'[p] <= mem'[p - 1].size
    <3>1. CASE p = bump + 1
      <4>1. bump + 1 \notin Granted
        BY <1>1, <1>3 DEF IInv, ReachWithinBlock
      <4>2. reach'[p] = want
        BY <1>1, <1>8, <3>1, <4>1 DEF IInv, Granted, TypeOK
      <4> QED
        BY <1>1, <1>7, <1>8, <3>1, <4>2
    <3>2. CASE p # bump + 1
      <4>1. p \in Granted /\ reach'[p] = reach[p]
        BY <1>1, <1>8, <3>2 DEF IInv, Granted, TypeOK, Words
      <4> QED
        BY <1>6, <1>8, <4>1 DEF IInv, ReachWithinBlock
    <3> QED
      BY <3>1, <3>2
  <2> QED
    BY <2>1, <2>2 DEF ReachWithinBlock
<1>14. OwnedInUse'
  <2>1. {p - 1 : p \in owned \cup {bump + 1}} = {p - 1 : p \in owned} \cup {bump}
    BY <1>1
  <2> QED
    BY <1>8, <1>11, <2>1 DEF IInv, OwnedInUse
<1>15. WalkSound' /\ Asking'
  BY <1>8 DEF WalkSound, Asking
<1> QED
  BY <1>9, <1>10, <1>12, <1>13, <1>14, <1>15 DEF IInv

LEMMA FreeStep ==
  ASSUME IInv, NEW p \in Granted, Free(p)
  PROVE  IInv'
<1> DEFINE Busy == {h \in heads : ~mem[h].free}
<1>1. /\ p - 1 \in heads /\ p \in Words /\ p \in Nat /\ p > 0
      /\ p - 1 \in Words /\ mem[p - 1] \in Header
  BY NextBounds DEF IInv, ReachWithinBlock, Granted, Words
<1>2. CASE mem[p - 1].free
  BY <1>2, IdleStep, CapacityAssumption
     DEF Free, Done, Err, Results, Words, IInv, heap, client, call
<1>3. CASE ~mem[p - 1].free
  <2>1. /\ mem' = [mem EXCEPT ![p - 1].free = TRUE]
        /\ live' = IF live = 0 THEN 0 ELSE live - 1
        /\ owned' = owned \ {p} /\ misused' = (misused \/ p \notin owned)
        /\ ret' = Ok
        /\ UNCHANGED <<bump, reach, heads, pc, pos, want, text>>
    BY <1>3 DEF Free, Done, call
  <2>2. /\ mem'[p - 1].free /\ mem'[p - 1].size = mem[p - 1].size
        /\ \A h \in heads : h # p - 1 => mem'[h] = mem[h]
        /\ mem' \in [Words -> Header]
    BY <1>1, <2>1 DEF IInv, TypeOK, Header
  <2>3. {h \in heads : ~mem[h].free}' = Busy \ {p - 1} /\ p - 1 \in Busy
    BY <1>1, <1>3, <2>1, <2>2
  <2>4. /\ Cardinality(Busy \ {p - 1}) = Cardinality(Busy) - 1
        /\ Cardinality(Busy) \in Nat /\ Cardinality(Busy \ {p - 1}) \in Nat
    <3>1. Cardinality(Busy \ {p - 1}) = Cardinality(Busy) - 1
      BY <2>3, HeadsFinite, FS_RemoveElement DEF IInv
    <3>2. IsFiniteSet(Busy) /\ IsFiniteSet(Busy \ {p - 1})
      BY HeadsFinite, FS_Subset DEF IInv
    <3> QED
      BY <3>1, <3>2, FS_CardinalityType
  <2>5. LiveCounts'
    <3>1. live = Cardinality(Busy)
      BY DEF IInv, LiveCounts
    <3>2. live' = live - 1
      BY <2>1, <2>4, <3>1
    <3> QED
      BY <2>3, <2>4, <3>1, <3>2 DEF LiveCounts
  <2>6. TypeOK'
    <3>1. Ok \in Results
      BY CapacityAssumption DEF Ok, Results, Words
    <3>2. live' \in Nat /\ owned' \in SUBSET Words
      BY <2>1 DEF IInv, TypeOK
    <3>3. misused' \in BOOLEAN
      BY <2>1
    <3> QED
      BY <2>1, <2>2, <3>1, <3>2, <3>3 DEF IInv, TypeOK
  <2>7. BlocksTile'
    <3>1. \A h \in heads : mem'[h].size = mem[h].size
      BY <2>2
    <3> QED
      BY <2>1, <3>1 DEF IInv, BlocksTile, NextHeader
  <2>8. ReachWithinBlock'
    <3>1. \A q \in Granted : mem'[q - 1].size = mem[q - 1].size
      BY <2>2 DEF IInv, ReachWithinBlock
    <3> QED
      BY <2>1, <3>1 DEF IInv, ReachWithinBlock, Granted
  <2>9. OwnedInUse'
    <3>1. CASE misused'
      BY <3>1 DEF OwnedInUse
    <3>2. CASE ~misused'
      <4>1. Busy = {q - 1 : q \in owned} /\ p \in owned
        BY <2>1, <3>2 DEF IInv, OwnedInUse
      <4>2. {q - 1 : q \in owned \ {p}} = {q - 1 : q \in owned} \ {p - 1}
        BY <1>1 DEF IInv, TypeOK, Words
      <4> QED
        BY <2>1, <2>3, <4>1, <4>2 DEF OwnedInUse
    <3> QED
      BY <3>1, <3>2
  <2>10. WalkSound' /\ Asking'
    BY <2>1 DEF IInv, WalkSound, Asking, Free
  <2> QED
    BY <2>5, <2>6, <2>7, <2>8, <2>9, <2>10 DEF IInv
<1> QED
  BY <1>2, <1>3

\* Words a program may name are data of one block.
LEMMA SliceIsData ==
  ASSUME IInv, NEW p \in Words, NEW n \in Words, Slice(p, n), p # 0, NEW h \in heads
  PROVE  h \notin Region(p, n)
<1>1. PICK q \in Granted : q <= p /\ p + n <= q + reach[q]
  BY DEF Slice
<1>2. /\ q - 1 \in heads /\ reach[q] \in Nat /\ reach[q] <= mem[q - 1].size
      /\ q \in Nat /\ q - 1 \in Nat /\ p \in Nat /\ n \in Nat
  <2>1. q \in Words /\ q - 1 \in heads
    BY DEF IInv, ReachWithinBlock, Granted
  <2>2. q - 1 \in Nat
    BY <2>1, NextBounds DEF IInv
  <2> QED
    BY <2>1, <2>2 DEF IInv, ReachWithinBlock, Granted, TypeOK, Words
<1>3. h \notin Region(q - 1 + 1, reach[q])
  BY <1>2, NoHeaderInData DEF IInv
<1>4. h \in Nat
  BY NextBounds DEF IInv
<1> QED
  BY <1>1, <1>2, <1>3, <1>4 DEF Region

\* A write through a pointer leaves headers and bookkeeping alone.
HeadersKept ==
  /\ mem' \in [Words -> Header]
  /\ \A h \in heads : mem'[h] = mem[h]
  /\ pc = "idle" /\ ret' \in {Ok, Err}
  /\ UNCHANGED <<bump, live, heads, reach, owned, misused, pc, pos, want, text>>

LEMMA MemSetEffect ==
  ASSUME IInv, NEW p \in Words, NEW n \in Words, NEW v \in Junk \cup {Zero},
         Slice(p, n), MemSet(p, n, v)
  PROVE  HeadersKept
<1>1. CASE ~CheckBounds(p, n)
  BY <1>1 DEF MemSet, Done, IInv, TypeOK, HeadersKept, client, call
<1>2. CASE CheckBounds(p, n)
  <2>1. /\ mem' = [i \in Words |-> IF i \in Region(p, n) THEN v ELSE mem[i]]
        /\ pc = "idle" /\ ret' = Ok
        /\ UNCHANGED <<bump, live, heads, reach, owned, misused, pc, pos, want, text>>
    BY <1>2 DEF MemSet, Done, call, client
  <2>2. mem' \in [Words -> Header]
    BY <2>1, JunkAssumption, ZeroIsHeader DEF IInv, TypeOK
  <2>3. \A h \in heads : h \in Words /\ h \notin Region(p, n)
    BY <1>2, SliceIsData, NextBounds DEF IInv, CheckBounds
  <2> QED
    BY <2>1, <2>2, <2>3 DEF HeadersKept
<1> QED
  BY <1>1, <1>2

LEMMA MemCpyEffect ==
  ASSUME IInv, NEW d \in Words, NEW s \in Words, NEW n \in Words,
         Slice(d, n), Slice(s, n), MemCpy(d, s, n)
  PROVE  HeadersKept
<1> DEFINE Safe == CheckBounds(s, n) /\ CheckBounds(d, n)
<1>1. CASE ~Safe
  BY <1>1 DEF MemCpy, Done, IInv, TypeOK, HeadersKept, client, call
<1>2. CASE Safe
  <2>1. /\ mem' = [i \in Words |->
                     IF i \in Region(d, n) THEN mem[s + (i - d)] ELSE mem[i]]
        /\ pc = "idle" /\ ret' = Ok
        /\ UNCHANGED <<bump, live, heads, reach, owned, misused, pc, pos, want, text>>
    BY <1>2 DEF MemCpy, Done, call, client
  <2>2. \A i \in Region(d, n) : s + (i - d) \in Words
    BY <1>2, CapacityAssumption DEF CheckBounds, Region, Words
  <2>3. mem' \in [Words -> Header]
    BY <2>1, <2>2 DEF IInv, TypeOK
  <2>4. \A h \in heads : h \in Words /\ h \notin Region(d, n)
    BY <1>2, SliceIsData, NextBounds DEF IInv, CheckBounds
  <2> QED
    BY <2>1, <2>3, <2>4 DEF HeadersKept
<1> QED
  BY <1>1, <1>2

LEMMA WriteStep ==
  ASSUME IInv, HeadersKept
  PROVE  IInv'
<1>1. Ok \in Results /\ Err \in Results
  BY CapacityAssumption DEF Ok, Err, Results, Words
<1>2. BlocksTile' /\ LiveCounts' /\ ReachWithinBlock' /\ OwnedInUse'
  BY SameHeaders DEF HeadersKept
<1>3. TypeOK' /\ WalkSound' /\ Asking'
  BY <1>1 DEF IInv, TypeOK, WalkSound, Asking, HeadersKept
<1> QED
  BY <1>2, <1>3 DEF IInv
-----------------------------------------------------------------------------
(* The theorems.                                                           *)

\* The calls that change neither the blocks nor the program's pointers.
LEMMA QuietStep ==
  ASSUME IInv, AllocZero \/ OutOfMemory \/ FreeNull \/ FreeSentinel
  PROVE  IInv' /\ ret' \in {Ok, Err, Oom, Sentinel} /\ UNCHANGED <<heap, heads>>
<1>1. {Ok, Err, Oom, Sentinel} \subseteq Results
  BY CapacityAssumption DEF Ok, Err, Oom, Sentinel, Results, Words
<1>2. /\ ret' \in {Ok, Err, Oom, Sentinel}
      /\ UNCHANGED <<heap, client, heads>>
      /\ pc' = "idle" \/ UNCHANGED call
      /\ UNCHANGED <<pos, want, text>>
  BY DEF AllocZero, OutOfMemory, FreeNull, FreeSentinel, Done, call
<1> QED
  BY <1>1, <1>2, IdleStep

LEMMA NextIInv == IInv /\ [Next]_vars => IInv'
<1> SUFFICES ASSUME IInv, [Next]_vars PROVE IInv'
  OBVIOUS
<1>1. CASE AllocZero \/ OutOfMemory \/ FreeNull \/ FreeSentinel
  BY <1>1, QuietStep
<1>2. CASE \E bytes \in RequestSizes, isText \in BOOLEAN : AllocStart(bytes, isText)
  BY <1>2, AllocStartStep
<1>3. CASE Skip
  BY <1>3, SkipStep
<1>4. CASE Reuse
  BY <1>4, ReuseStep
<1>5. CASE Bump
  BY <1>5, BumpStep
<1>6. CASE \E p \in Granted : Free(p)
  BY <1>6, FreeStep
<1>7. CASE \E p, n \in Words, v \in Junk \cup {Zero} : Slice(p, n) /\ MemSet(p, n, v)
  BY <1>7, MemSetEffect, WriteStep
<1>8. CASE \E d, s, n \in Words : Slice(d, n) /\ Slice(s, n) /\ MemCpy(d, s, n)
  BY <1>8, MemCpyEffect, WriteStep
<1>9. CASE UNCHANGED vars
  BY <1>9 DEF vars, IInv, TypeOK, Asking, BlocksTile, LiveCounts, WalkSound,
     ReachWithinBlock, OwnedInUse, NextHeader, Fits, Granted
<1> QED
  BY <1>1, <1>2, <1>3, <1>4, <1>5, <1>6, <1>7, <1>8, <1>9 DEF Next

\* The inductive invariant holds in every reachable state.
THEOREM Invariant == Spec => []IInv
BY InitIInv, NextIInv, PTL DEF Spec

\* Every variable keeps its type; the mark never passes the end of the buffer.
THEOREM TypeCorrect == Spec => []TypeOK
<1>1. IInv => TypeOK
  BY DEF IInv
<1> QED
  BY <1>1, Invariant, PTL

\* Headers and blocks tile the buffer for ever.
THEOREM TilingHolds == Spec => []BlocksTile
<1>1. IInv => BlocksTile
  BY DEF IInv
<1> QED
  BY <1>1, Invariant, PTL

\* live_allocs() counts the blocks in use.
THEOREM LiveHolds == Spec => []LiveCounts
<1>1. IInv => LiveCounts
  BY DEF IInv
<1> QED
  BY <1>1, Invariant, PTL

\* The walk misses no block that would have served.
THEOREM WalkHolds == Spec => []WalkSound
<1>1. IInv => WalkSound
  BY DEF IInv
<1> QED
  BY <1>1, Invariant, PTL

\* Without a stale free, no block has two owners and none is lost.
THEOREM OwnersHold == Spec => []OwnedInUse
<1>1. IInv => OwnedInUse
  BY DEF IInv
<1> QED
  BY <1>1, Invariant, PTL

\* Every pointer the program holds leads into a block large enough for it.
THEOREM ReachHolds == Spec => []ReachWithinBlock
<1>1. IInv => ReachWithinBlock
  BY DEF IInv
<1> QED
  BY <1>1, Invariant, PTL
-----------------------------------------------------------------------------
(* Properties of the steps.                                                *)

\* The ways a step goes on that neither grants a block nor runs out of memory.
Continues == pc' = "walk" /\ UNCHANGED <<mem, bump, live, heads, ret>>
Answers   == pc = "idle" /\ ret' \in {Ok, Err, Sentinel} /\ UNCHANGED <<mem, bump, live, heads>>
Releases(p) == Free(p) /\ ~mem[p - 1].free

LEMMA StepKinds ==
  ASSUME IInv, Next
  PROVE  \/ Reuse \/ Bump \/ OutOfMemory
         \/ Continues \/ Answers \/ HeadersKept
         \/ \E p \in Granted : Releases(p)
<1>1. CASE AllocZero \/ FreeNull \/ FreeSentinel
  BY <1>1 DEF AllocZero, FreeNull, FreeSentinel, Done, heap, Answers
<1>2. CASE \E bytes \in RequestSizes, isText \in BOOLEAN : AllocStart(bytes, isText)
  BY <1>2 DEF AllocStart, heap, Continues
<1>3. CASE Skip
  BY <1>3 DEF Skip, heap, Continues
<1>4. CASE \E p \in Granted : Free(p)
  BY <1>4 DEF Free, Done, heap, Answers, Releases
<1>5. CASE \E p, n \in Words, v \in Junk \cup {Zero} : Slice(p, n) /\ MemSet(p, n, v)
  BY <1>5, MemSetEffect
<1>6. CASE \E d, s, n \in Words : Slice(d, n) /\ Slice(s, n) /\ MemCpy(d, s, n)
  BY <1>6, MemCpyEffect
<1> QED
  BY <1>1, <1>2, <1>3, <1>4, <1>5, <1>6 DEF Next

LEMMA ReleaseEffect ==
  ASSUME IInv, NEW p \in Granted, Releases(p)
  PROVE  /\ p - 1 \in heads /\ p \in Nat /\ ~mem[p - 1].free
         /\ mem'[p - 1].free /\ mem'[p - 1].size = mem[p - 1].size
         /\ \A h \in heads : h # p - 1 => mem'[h] = mem[h]
         /\ pc = "idle" /\ live' = live - 1 /\ ret' = Ok
         /\ UNCHANGED <<bump, heads>>
<1>1. /\ p - 1 \in heads /\ p \in Words /\ p \in Nat
      /\ p - 1 \in Words /\ mem[p - 1] \in Header
  BY NextBounds DEF IInv, ReachWithinBlock, Granted, Words
<1>2. /\ mem' = [mem EXCEPT ![p - 1].free = TRUE]
      /\ live' = IF live = 0 THEN 0 ELSE live - 1
      /\ pc = "idle" /\ ret' = Ok /\ ~mem[p - 1].free /\ UNCHANGED <<bump, heads>>
  BY DEF Releases, Free, Done
<1>3. live # 0
  <2> DEFINE Busy == {h \in heads : ~mem[h].free}
  <2>1. p - 1 \in Busy
    BY <1>1, <1>2
  <2>2. Cardinality(Busy) # 0
    BY <2>1, HeadsFinite, FS_EmptySet DEF IInv
  <2> QED
    BY <2>2 DEF IInv, LiveCounts
<1> QED
  BY <1>1, <1>2, <1>3 DEF IInv, TypeOK, Header

\* At the mark, the walk has ruled out every block.
LEMMA WalkedOut ==
  ASSUME IInv, pc = "walk", ~AtHeader
  PROVE  \A h \in heads : ~Fits(h, want)
<1>1. pos \in heads \cup {bump} /\ pos + 1 > bump
  BY DEF IInv, TypeOK, WalkSound, AtHeader
<1>2. \A h \in heads : h \in Nat /\ h + 1 < bump
  <2> TAKE h \in heads
  <2>1. h \in Nat /\ mem[h].size \in Nat /\ h + 1 < NextHeader(h) /\ NextHeader(h) <= bump
    BY NextBounds DEF IInv, Header
  <2> QED
    BY <2>1 DEF NextHeader, IInv, TypeOK
<1>3. pos = bump
  BY <1>1, <1>2 DEF IInv, TypeOK
<1> QED
  BY <1>2, <1>3 DEF IInv, WalkSound, BlocksTile

LEMMA BlocksPermanentStep ==
  ASSUME IInv, [Next]_vars
  PROVE  /\ heads \subseteq heads'
         /\ \A h \in heads : mem'[h].size = mem[h].size
         /\ \A h \in heads : mem'[h].free # mem[h].free =>
              \/ pc = "walk" /\ Granting(h + 1)
              \/ pc = "idle" /\ live' = live - 1
<1>1. CASE Reuse
  <2>1. pc = "walk"
    BY <1>1 DEF Reuse
  <2> QED
    BY <1>1, <2>1, ReuseEffect DEF Granting
<1>2. CASE Bump
  BY <1>2, BumpEffect
<1>3. CASE OutOfMemory
  BY <1>3 DEF OutOfMemory, heap
<1>4. CASE Continues \/ Answers \/ HeadersKept
  BY <1>4 DEF Continues, Answers, HeadersKept
<1>5. CASE \E p \in Granted : Releases(p)
  BY <1>5, ReleaseEffect
<1>6. CASE UNCHANGED vars
  BY <1>6 DEF vars
<1> QED
  BY <1>1, <1>2, <1>3, <1>4, <1>5, <1>6, StepKinds

\* No step splits, merges, moves or resizes a block, and a header's mark changes
\* only when alloc grants the block and when free releases it.
THEOREM BlocksStay == Spec => BlocksPermanent
BY BlocksPermanentStep, Invariant, PTL DEF Spec, BlocksPermanent

LEMMA GrantingIs ==
  ASSUME IInv, [Next]_vars, NEW p \in Words, Granting(p)
  PROVE  (Reuse /\ p = pos + 1) \/ (Bump /\ p = bump + 1)
<1>1. CASE Reuse
  BY <1>1, ReuseEffect DEF Granting, Ptr
<1>2. CASE Bump
  BY <1>2, BumpEffect DEF Granting, Ptr
<1>3. CASE OutOfMemory
  BY <1>3 DEF OutOfMemory, Done, Granting, Oom, Ptr
<1>4. CASE Continues \/ Answers \/ HeadersKept
  BY <1>4 DEF Granting, Continues, Answers, HeadersKept
<1>5. CASE \E q \in Granted : Releases(q)
  BY <1>5, ReleaseEffect DEF Granting
<1>6. CASE UNCHANGED vars
  BY <1>6 DEF Granting, vars
<1> QED
  BY <1>1, <1>2, <1>3, <1>4, <1>5, <1>6, StepKinds

LEMMA FreshZeroedStep ==
  ASSUME IInv, [Next]_vars, NEW p \in Words, Granting(p), ~text,
         NEW i \in Region(p, want)
  PROVE  mem'[i] = Zero
<1>1. want \in Nat /\ mem \in [Words -> Header] /\ p \in Nat
  BY WantAsked DEF Granting, IInv, TypeOK, Words
<1>2. CASE Reuse /\ p = pos + 1
  <2>1. /\ pos \in heads /\ pos \in Nat /\ want <= mem[pos].size
        /\ mem[pos].size \in Nat
    BY <1>2, ReuseEffect DEF Header
  <2>2. pos + 1 + mem[pos].size <= Capacity
    BY <2>1, NextBounds, CapacityAssumption DEF NextHeader, IInv, TypeOK
  <2>3. i \in Words
    BY <1>1, <1>2, <2>1, <2>2, CapacityAssumption DEF Region, Words
  <2> QED
    BY <1>2, <2>3 DEF Reuse, Filled
<1>3. CASE Bump /\ p = bump + 1
  <2>1. i \in Words
    BY <1>1, <1>3, BumpEffect, CapacityAssumption DEF Region, Words
  <2> QED
    BY <1>3, <2>1 DEF Bump, Filled
<1> QED
  BY <1>2, <1>3, GrantingIs

\* Memory from alloc is zero over the whole request, reused or new.
THEOREM FreshIsZero == Spec => FreshZeroed
<1>1. IInv /\ [Next]_vars =>
        (\A p \in Words : Granting(p) /\ ~text => \A i \in Region(p, want) : mem'[i] = Zero)
  BY FreshZeroedStep
<1> QED
  BY <1>1, Invariant, PTL DEF Spec, FreshZeroed

LEMMA LiveDataKeptStep ==
  ASSUME IInv, [Next]_vars, pc = "walk", ~misused, NEW p \in owned
  PROVE  /\ ~Granting(p)
         /\ \A i \in Region(p - 1, mem[p - 1].size + 1) : mem'[i] = mem[i]
<1> DEFINE h == p - 1
<1> DEFINE Mine == Region(h, mem[h].size + 1)
<1>1. h \in heads /\ ~mem[h].free /\ p \in Words /\ p \in Nat
  BY DEF IInv, OwnedInUse, ReachWithinBlock, Granted, TypeOK, Words
<1>2. /\ h \in Nat /\ mem[h].size \in Nat /\ NextHeader(h) = h + 1 + mem[h].size
      /\ NextHeader(h) <= bump /\ bump <= Capacity /\ bump \in Nat
  BY <1>1, NextBounds DEF IInv, Header, NextHeader, TypeOK
<1>3. Mine \subseteq Words /\ \A i \in Mine : i \in Nat /\ h <= i /\ i < NextHeader(h)
  BY <1>2, CapacityAssumption DEF Region, Words
<1> HIDE DEF h, Mine
<1>4. (\A i \in Mine : mem'[i] = mem[i]) /\ ~Granting(p)
  <2>1. CASE Reuse
    <3>1. pos \in heads /\ pos \in Nat /\ want \in Nat /\ want <= mem[pos].size /\ pos # h
      BY <1>1, <2>1, ReuseEffect
    <3>2. /\ NextHeader(pos) = pos + 1 + mem[pos].size /\ mem[pos].size \in Nat
          /\ NextHeader(pos) \in Nat
      BY <3>1, NextBounds DEF IInv, Header, NextHeader
    <3>3. NextHeader(pos) <= h \/ NextHeader(h) <= pos
      BY <1>1, <1>2, <3>1 DEF IInv, BlocksTile
    <3>4. \A i \in Mine : i \notin Region(pos, want + 1)
      BY <1>2, <1>3, <3>1, <3>2, <3>3 DEF Region
    <3>5. \A i \in Mine : mem'[i] = mem[i]
      BY <1>3, <2>1, <3>4, ReuseEffect
    <3>6. ~Granting(p)
      BY <1>1, <2>1, <3>1, ReuseEffect DEF Granting, Ptr, h
    <3> QED
      BY <3>5, <3>6
  <2>2. CASE Bump
    <3>1. \A i \in Mine : mem'[i] = mem[i]
      BY <1>2, <1>3, <2>2, BumpEffect
    <3>2. ~Granting(p)
      BY <1>1, <2>2, BumpEffect DEF Granting, Ptr, h
    <3> QED
      BY <3>1, <3>2
  <2>3. CASE OutOfMemory
    BY <2>3 DEF OutOfMemory, Done, heap, Granting, Oom, Ptr
  <2>4. CASE Continues \/ Answers \/ HeadersKept
    BY <2>4 DEF Continues, Answers, HeadersKept, Granting
  <2>5. CASE \E q \in Granted : Releases(q)
    BY <2>5, ReleaseEffect
  <2>6. CASE UNCHANGED vars
    BY <2>6 DEF vars, Granting
  <2> QED
    BY <2>1, <2>2, <2>3, <2>4, <2>5, <2>6, StepKinds
<1> QED
  BY <1>4 DEF h, Mine

\* Serving a request leaves every block the program still owns alone.
THEOREM LiveDataIsKept == Spec => LiveDataKept
<1>1. IInv /\ [Next]_vars =>
        (pc = "walk" /\ ~misused =>
           \A p \in owned : /\ ~Granting(p)
                            /\ \A i \in Region(p - 1, mem[p - 1].size + 1) :
                                 mem'[i] = mem[i])
  BY LiveDataKeptStep
<1> QED
  BY <1>1, Invariant, PTL DEF Spec, LiveDataKept
-----------------------------------------------------------------------------
(* The heap implements Allocator.                                          *)

LEMMA BlocksAre ==
  ASSUME TypeOK, NEW p
  PROVE  p \in Blocks <=> p \in Nat /\ p - 1 \in heads
BY DEF TypeOK, Blocks, Words

\* A block the abstract allocator may choose is one the walk would stop at.
LEMMA CandidatesFit ==
  ASSUME TypeOK, NEW n, NEW p
  PROVE  p \in Promise!Candidates(n) <=> p \in Blocks /\ Fits(p - 1, n)
BY DEF Promise!Candidates, BlockSize, InUse, Fits

LEMMA InitRefines == Init => Promise!Init
<1> SUFFICES ASSUME Init PROVE Promise!Init
  OBVIOUS
<1>1. Blocks = {}
  BY DEF Init, Blocks
<1>2. BlockSize = [p \in {} |-> 0] /\ InUse = {}
  BY <1>1 DEF BlockSize, InUse
<1> QED
  BY <1>2 DEF Init, Promise!Init, Ok

\* Same headers, same blocks.
LEMMA SameBlocks ==
  ASSUME TypeOK, UNCHANGED heads, \A h \in heads : mem'[h] = mem[h]
  PROVE  UNCHANGED <<Blocks, BlockSize, InUse>>
<1>1. UNCHANGED Blocks
  BY DEF Blocks
<1>2. \A p \in Blocks : mem'[p - 1] = mem[p - 1]
  BY BlocksAre
<1> QED
  BY <1>1, <1>2 DEF BlockSize, InUse

LEMMA ReuseRefines ==
  ASSUME IInv, Reuse
  PROVE  \E n \in Requests : Promise!Reuse(n)
<1> DEFINE q == pos + 1
<1>1. /\ pos \in heads /\ pos \in Nat /\ want \in Requests
      /\ UNCHANGED <<bump, heads>> /\ ret' = Ptr(q)
      /\ mem'[pos].size = mem[pos].size /\ ~mem'[pos].free
      /\ \A h \in heads : h # pos => mem'[h] = mem[h]
  BY ReuseEffect
<1>2. q \in Promise!Candidates(want)
  BY <1>1, BlocksAre, CandidatesFit DEF Reuse, IInv
<1>3. \A p \in Promise!Candidates(want) : q <= p
  <2> TAKE p \in Promise!Candidates(want)
  <2>1. p \in Nat /\ p - 1 \in heads /\ Fits(p - 1, want)
    BY BlocksAre, CandidatesFit DEF IInv
  <2>2. ~(p - 1 < pos)
    BY <2>1 DEF IInv, WalkSound, Reuse
  <2> QED
    BY <1>1, <2>1, <2>2
<1>4. UNCHANGED <<Blocks, BlockSize>>
  <2>1. UNCHANGED Blocks
    BY <1>1 DEF Blocks
  <2>2. \A p \in Blocks : mem'[p - 1].size = mem[p - 1].size
    BY <1>1, BlocksAre DEF IInv
  <2> QED
    BY <2>1, <2>2 DEF BlockSize
<1>5. InUse' = InUse \cup {q}
  <2>1. Blocks' = Blocks /\ q \in Blocks
    BY <1>1, <1>4, BlocksAre DEF IInv
  <2>2. \A p \in Blocks : p # q => mem'[p - 1].free = mem[p - 1].free
    BY <1>1, BlocksAre DEF IInv
  <2>3. ~mem'[q - 1].free
    BY <1>1
  <2> QED
    BY <2>1, <2>2, <2>3 DEF InUse
<1> HIDE DEF q
<1> QED
  BY <1>1, <1>2, <1>3, <1>4, <1>5 DEF Promise!Reuse, Promise!Hand, Ptr

LEMMA BumpRefines ==
  ASSUME IInv, Bump
  PROVE  \E n \in Requests : Promise!Extend(n)
<1>1. /\ want \in Requests /\ want \in Nat /\ bump \in Nat /\ bump \notin heads
      /\ bump + 1 + want <= Capacity /\ bump' = bump + 1 + want
      /\ heads' = heads \cup {bump} /\ ret' = Ptr(bump + 1)
      /\ mem'[bump].size = want /\ ~mem'[bump].free
      /\ \A h \in heads : mem'[h] = mem[h]
  BY BumpEffect
<1>2. Promise!Candidates(want) = {}
  <2>1. \A h \in heads : ~Fits(h, want)
    BY WalkedOut DEF Bump
  <2> QED
    BY <2>1, BlocksAre, CandidatesFit DEF IInv
<1>3. Blocks' = Blocks \cup {bump + 1}
  BY <1>1 DEF Blocks
<1>4. \A p \in Blocks : p # bump + 1 /\ mem'[p - 1] = mem[p - 1]
  BY <1>1, BlocksAre DEF IInv
<1>5. bump + 1 - 1 = bump
  BY <1>1
<1>6. BlockSize' = [p \in Blocks \cup {bump + 1} |->
                      IF p = bump + 1 THEN want ELSE BlockSize[p]]
  BY <1>1, <1>3, <1>4, <1>5 DEF BlockSize
<1>7. InUse' = InUse \cup {bump + 1}
  BY <1>1, <1>3, <1>4, <1>5 DEF InUse
<1>8. DOMAIN BlockSize = Blocks
  BY DEF BlockSize
<1> QED
  BY <1>1, <1>2, <1>6, <1>7, <1>8 DEF Promise!Extend, Promise!Hand, Ptr

LEMMA OutOfMemoryRefines ==
  ASSUME IInv, OutOfMemory
  PROVE  \E n \in Requests : Promise!Refuse(n)
<1>1. want \in Requests /\ \A h \in heads : ~Fits(h, want)
  BY WalkedOut, WantAsked DEF OutOfMemory
<1>2. Promise!Candidates(want) = {}
  BY <1>1, BlocksAre, CandidatesFit DEF IInv
<1>3. UNCHANGED <<BlockSize, InUse>>
  BY SameBlocks DEF OutOfMemory, heap, IInv
<1> QED
  BY <1>1, <1>2, <1>3 DEF OutOfMemory, heap, Done, Oom, End, Promise!Refuse

LEMMA ReleaseRefines ==
  ASSUME IInv, NEW p \in Granted, Releases(p)
  PROVE  \E q \in InUse : Promise!Release(q)
<1>1. /\ p - 1 \in heads /\ p \in Nat /\ ~mem[p - 1].free
      /\ mem'[p - 1].free /\ mem'[p - 1].size = mem[p - 1].size
      /\ \A h \in heads : h # p - 1 => mem'[h] = mem[h]
      /\ ret' = Ok /\ UNCHANGED <<bump, heads>>
  BY ReleaseEffect
<1>2. p \in Blocks /\ p \in InUse /\ UNCHANGED Blocks
  BY <1>1, BlocksAre DEF IInv, InUse, Blocks
<1>3. \A r \in Blocks : r # p => mem'[r - 1] = mem[r - 1]
  BY <1>1, BlocksAre DEF IInv
<1>4. UNCHANGED BlockSize
  BY <1>1, <1>2, <1>3 DEF BlockSize
<1>5. InUse' = InUse \ {p}
  BY <1>1, <1>2, <1>3 DEF InUse
<1> QED
  BY <1>1, <1>2, <1>4, <1>5 DEF Promise!Release, Ok

LEMMA StepRefines ==
  ASSUME IInv, [Next]_vars
  PROVE  [Promise!Next]_(Promise!vars)
<1>1. CASE Reuse
  BY <1>1, ReuseRefines DEF Promise!Next
<1>2. CASE Bump
  BY <1>2, BumpRefines DEF Promise!Next
<1>3. CASE OutOfMemory
  BY <1>3, OutOfMemoryRefines DEF Promise!Next
<1>4. CASE Continues \/ UNCHANGED vars
  BY <1>4, SameBlocks DEF Continues, vars, Promise!vars, IInv
<1>5. CASE Answers \/ HeadersKept
  <2>1. UNCHANGED <<BlockSize, InUse, bump>>
    BY <1>5, SameBlocks DEF Answers, HeadersKept, IInv
  <2>2. ret' \in [kind : {"sentinel", "ok", "error"}, ptr : {0}]
    BY <1>5 DEF Answers, HeadersKept, Ok, Err, Sentinel
  <2> QED
    BY <2>1, <2>2 DEF Promise!Next, Promise!Other
<1>6. CASE \E p \in Granted : Releases(p)
  BY <1>6, ReleaseRefines DEF Promise!Next
<1> QED
  BY <1>1, <1>2, <1>3, <1>4, <1>5, <1>6, StepKinds

\* Step by step over headers in memory, the heap does what the abstract allocator
\* does: the lowest block that fits, a new one only when none does, refusal only
\* when there is no room at the top either.
THEOREM ImplementsAllocator == Spec => FirstFit
<1>1. Init => Promise!Init
  BY InitRefines
<1>2. IInv /\ [Next]_vars => [Promise!Next]_(Promise!vars)
  BY StepRefines
<1> QED
  BY <1>1, <1>2, Invariant, PTL DEF Spec, FirstFit, Promise!Spec
=============================================================================
