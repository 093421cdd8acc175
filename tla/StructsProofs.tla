------------------------------ MODULE StructsProofs ------------------------------
(***************************************************************************)
(* The layouts of classes are sound for any session: any number of names,  *)
(* fields and definitions, typedefs in a cycle, classes defined again; and *)
(* the members of its variables keep their bytes to themselves.            *)
(***************************************************************************)
EXTENDS Structs, Descent, SequenceTheorems, FiniteSetTheorems, TLAPS

Aligns == {1, 2, 4, 8}

\* Fields one behind the other up to end.
Laid(fields, end) ==
  /\ \E S : fields \in Seq(S)
  /\ end \in Nat
  /\ \A i \in DOMAIN fields : fields[i].offset \in Nat /\ fields[i].size \in Nat
  /\ Tight(fields, end)

Sound(layout) ==
  /\ layout.size \in Nat /\ layout.align \in Aligns
  /\ Laid(layout.fields, layout.size)
  /\ layout.size % layout.align = 0

\* What the loop has so far is laid out up to its offset.
LayoutInv ==
  /\ \A n \in DOMAIN structs : Sound(structs[n])
  /\ cur # Idle => \E n, offset, fields : \E align \in Aligns :
       cur = [at |-> n, offset |-> offset, align |-> align, fields |-> fields] /\ Laid(fields, offset)
-----------------------------------------------------------------------------
LEMMA PrimsKnown == \A p \in DOMAIN PrimSize : PrimSize[p] \in Nat /\ PrimAlign[p] \in Aligns
<1>1. DOMAIN PrimSize = {"U0", "I8", "I16", "I32", "I64", "Ptr"}
  BY SMT DEF PrimSize
<1>2. \A p \in DOMAIN PrimSize : PrimSize[p] \in {0, 1, 2, 4, 8}
  BY <1>1, SMT DEF PrimSize
<1>3. \A p \in DOMAIN PrimSize : PrimAlign[p] = IF PrimSize[p] \in {1, 2, 4} THEN PrimSize[p] ELSE 8
  BY SMT DEF PrimAlign
<1> QED BY <1>2, <1>3, SMT DEF Aligns

\* next_multiple_of for an alignment.
LEMMA RoundsUp ==
  ASSUME NEW n \in Nat, NEW a \in Aligns
  PROVE  RoundUp(n, a) \in Nat /\ RoundUp(n, a) >= n /\ RoundUp(n, a) % a = 0
<1>1. CASE a = 1 BY <1>1, SMT DEF RoundUp
<1>2. CASE a = 2 BY <1>2, SMT DEF RoundUp
<1>3. CASE a = 4 BY <1>3, SMT DEF RoundUp
<1>4. CASE a = 8 BY <1>4, SMT DEF RoundUp
<1> QED BY <1>1, <1>2, <1>3, <1>4 DEF Aligns

\* Whatever a type resolves to, a known layout or none: it has a size and an alignment.
LEMMA SizesKnown == ASSUME LayoutInv, NEW ty PROVE SizeOf(ty) \in Nat /\ AlignOf(ty) \in Aligns
<1> DEFINE r == Resolve(ty)
<1>1. CASE r \in Prims
  BY <1>1, PrimsKnown, TypesAssumption DEF SizeOf, AlignOf
<1>2. CASE r \notin Prims /\ r \in DOMAIN structs
  BY <1>2 DEF SizeOf, AlignOf, LayoutInv, Sound
<1>3. CASE r \notin Prims /\ r \notin DOMAIN structs
  <2>1. SizeOf(ty) = 8 /\ AlignOf(ty) = 1
    BY <1>3 DEF SizeOf, AlignOf
  <2> QED BY <2>1, SMT DEF Aligns
<1> QED BY <1>1, <1>2, <1>3

LEMMA NoFieldsLaid == Laid(<<>>, 0)
<1>1. <<>> \in Seq(Nat)
  BY EmptySeq
<1> QED BY <1>1, SMT DEF Laid, Tight

\* One more field, behind all others.
LEMMA AppendLaid ==
  ASSUME NEW fields, NEW end, Laid(fields, end),
         NEW offset \in Nat, offset >= end, NEW size \in Nat, NEW f, f.offset = offset, f.size = size
  PROVE  Laid(Append(fields, f), offset + size)
<1>1. PICK S : fields \in Seq(S)
  BY DEF Laid
<1> DEFINE T == S \cup {f}
           more == Append(fields, f)
<1>2. fields \in Seq(T)
  <2>1. fields \in [1 .. Len(fields) -> T] /\ Len(fields) \in Nat
    BY <1>1, LenProperties, SMT
  <2> QED BY <2>1, IsASeq
<1>3. /\ more \in Seq(T) /\ Len(more) = Len(fields) + 1 /\ Len(fields) \in Nat
      /\ \A i \in 1 .. Len(fields) : more[i] = fields[i]
      /\ more[Len(fields) + 1] = f
  BY <1>2, AppendProperties, LenProperties
<1>4. DOMAIN more = 1 .. Len(fields) + 1 /\ DOMAIN fields = 1 .. Len(fields)
  BY <1>2, <1>3, LenProperties
<1> HIDE DEF more
<1>5. ASSUME NEW i \in DOMAIN more PROVE more[i].offset \in Nat /\ more[i].size \in Nat
  BY <1>3, <1>4, <1>5, SMT DEF Laid
<1>6. ASSUME NEW i \in DOMAIN more
      PROVE  more[i].offset + more[i].size <= IF i = Len(more) THEN offset + size ELSE more[i + 1].offset
  <2>1. CASE i = Len(fields) + 1
    BY <2>1, <1>3, SMT
  <2>2. CASE i = Len(fields)
    <3>1. i \in DOMAIN fields
      BY <2>2, <1>3, <1>4, <1>6, SMT
    <3>2. fields[i].offset + fields[i].size <= end
      BY <2>2, <3>1 DEF Laid, Tight
    <3> QED BY <2>2, <3>1, <3>2, <1>3, <1>4, SMT DEF Laid
  <2>3. CASE i \in 1 .. Len(fields) - 1
    <3>1. i \in DOMAIN fields /\ i # Len(fields) /\ i # Len(more) /\ i + 1 \in 1 .. Len(fields)
      BY <2>3, <1>3, <1>4, SMT
    <3>2. fields[i].offset + fields[i].size <= fields[i + 1].offset
      BY <3>1 DEF Laid, Tight
    <3> QED BY <3>1, <3>2, <1>3, <1>4
  <2> QED BY <2>1, <2>2, <2>3, <1>3, <1>4, <1>6, SMT
<1>7. offset + size \in Nat
  OBVIOUS
<1>8. Tight(more, offset + size)
  BY <1>6 DEF Tight
<1> QED BY <1>3, <1>5, <1>7, <1>8 DEF Laid, more

\* A size that is rounded up still has all fields.
LEMMA RoundLaid ==
  ASSUME NEW fields, NEW end, Laid(fields, end), NEW size \in Nat, size >= end
  PROVE  Laid(fields, size)
<1>1. ASSUME NEW i \in DOMAIN fields
      PROVE  fields[i].offset + fields[i].size <= IF i = Len(fields) THEN size ELSE fields[i + 1].offset
  BY <1>1, SMT DEF Laid, Tight
<1> QED BY <1>1 DEF Laid, Tight
-----------------------------------------------------------------------------
LEMMA LayoutStart == Init => LayoutInv
BY SMT DEF Init, TypesInit, LayoutInv

LEMMA LayFieldKeeps == ASSUME LayoutInv, NEW f, NEW ty, LayField(f, ty) PROVE LayoutInv'
<1>1. PICK n, offset, fields : \E align \in Aligns :
        cur = [at |-> n, offset |-> offset, align |-> align, fields |-> fields] /\ Laid(fields, offset)
  BY DEF LayoutInv, LayField
<1>2. PICK align \in Aligns :
        cur = [at |-> n, offset |-> offset, align |-> align, fields |-> fields] /\ Laid(fields, offset)
  BY <1>1
<1> DEFINE r == Resolve(ty)
           o == RoundUp(offset, AlignOf(r))
           e == [name |-> f, offset |-> o, size |-> SizeOf(r), ty |-> r]
<1>3. SizeOf(r) \in Nat /\ AlignOf(r) \in Aligns
  BY SizesKnown
<1>4. offset \in Nat /\ o \in Nat /\ o >= offset
  BY <1>2, <1>3, RoundsUp DEF Laid
<1>5. Laid(Append(fields, e), o + SizeOf(r))
  BY <1>2, <1>3, <1>4, AppendLaid
<1>6. Longer(align, AlignOf(r)) \in Aligns
  BY <1>3 DEF Longer
<1>7. cur' = [at |-> n, offset |-> o + SizeOf(r), align |-> Longer(align, AlignOf(r)), fields |-> Append(fields, e)]
  BY <1>2, Zenon DEF LayField
<1>8. structs' = structs
  BY DEF LayField
<1> QED BY <1>5, <1>6, <1>7, <1>8 DEF LayoutInv

LEMMA FinishLayoutKeeps == ASSUME LayoutInv, FinishLayout PROVE LayoutInv'
<1>1. PICK n, offset, fields : \E align \in Aligns :
        cur = [at |-> n, offset |-> offset, align |-> align, fields |-> fields] /\ Laid(fields, offset)
  BY DEF LayoutInv, FinishLayout
<1>2. PICK align \in Aligns :
        cur = [at |-> n, offset |-> offset, align |-> align, fields |-> fields] /\ Laid(fields, offset)
  BY <1>1
<1> DEFINE layout == [size |-> RoundUp(offset, align), align |-> align, fields |-> fields]
<1>3. offset \in Nat /\ RoundUp(offset, align) \in Nat /\ RoundUp(offset, align) >= offset /\ RoundUp(offset, align) % align = 0
  BY <1>2, RoundsUp DEF Laid
<1>4. Sound(layout)
  <2>1. Laid(fields, RoundUp(offset, align))
    BY <1>2, <1>3, RoundLaid
  <2> QED BY <1>3, <2>1 DEF Sound
<1>5. cur.at = n /\ cur.offset = offset /\ cur.align = align /\ cur.fields = fields
  BY <1>2
<1>6. /\ structs' = [m \in DOMAIN structs \cup {n} |-> IF m = n THEN layout ELSE structs[m]]
      /\ cur' = Idle
  BY <1>5 DEF FinishLayout
<1>7. ASSUME NEW m \in DOMAIN structs' PROVE Sound(structs'[m])
  BY <1>4, <1>6, <1>7 DEF LayoutInv
<1> QED BY <1>6, <1>7 DEF LayoutInv

LEMMA LayoutKept == LayoutInv /\ [Next]_vars => LayoutInv'
<1> SUFFICES ASSUME LayoutInv, [Next]_vars PROVE LayoutInv'
  OBVIOUS
<1>1. ASSUME structs' = structs, cur' = cur PROVE LayoutInv'
  BY <1>1 DEF LayoutInv
<1>2. CASE UNCHANGED vars
  BY <1>1, <1>2 DEF vars, types
<1>3. ASSUME NEW v, NEW ty, Declare(v, ty) PROVE LayoutInv'
  BY <1>1, <1>3 DEF Declare, types
<1>4. ASSUME NEW v, NEW p, NEW val, Assign(v, p, val) PROVE LayoutInv'
  BY <1>1, <1>4 DEF Assign, types
<1>5. CASE Define
  <2>1. ASSUME NEW n \in Names, StartLayout(n) PROVE LayoutInv'
    <3>1. cur' = [at |-> n, offset |-> 0, align |-> 1, fields |-> <<>>] /\ structs' = structs /\ 1 \in Aligns
      BY <2>1 DEF StartLayout, Aligns
    <3> QED BY <3>1, NoFieldsLaid DEF LayoutInv
  <2>2. ASSUME NEW f \in Fields, NEW ty \in Type, LayField(f, ty) PROVE LayoutInv'
    BY <2>2, LayFieldKeeps
  <2>3. CASE FinishLayout
    BY <2>3, FinishLayoutKeeps
  <2>4. ASSUME NEW n, NEW ty, AddTypedef(n, ty) PROVE LayoutInv'
    BY <1>1, <2>4 DEF AddTypedef
  <2> QED BY <1>5, <2>1, <2>2, <2>3, <2>4 DEF Define
<1> QED BY <1>2, <1>3, <1>4, <1>5 DEF Next, DefineType

\* Whatever is defined, in whatever order, every layout that a session holds has its
\* fields one behind the other within a size that is a multiple of its alignment.
THEOREM LayoutsStaySound == Spec => []LayoutsSound
<1>1. LayoutInv => LayoutsSound
  BY DEF LayoutInv, Sound, Laid, LayoutsSound
<1> QED BY <1>1, LayoutStart, LayoutKept, PTL DEF Spec
-----------------------------------------------------------------------------
LEMMA FieldsAreSeq == ASSUME NEW layout, Sound(layout)
                      PROVE Len(layout.fields) \in Nat /\ DOMAIN layout.fields = 1 .. Len(layout.fields)
BY LenProperties DEF Sound, Laid

\* The largest field that did not end before the end would be the last, or the one
\* behind it larger still.
LEMMA FieldInside ==
  ASSUME NEW layout, Sound(layout), NEW i \in DOMAIN layout.fields
  PROVE  /\ layout.fields[i].offset \in Nat /\ layout.fields[i].size \in Nat
         /\ layout.fields[i].offset + layout.fields[i].size <= layout.size
<1> DEFINE fs == layout.fields
           T  == {j \in DOMAIN fs : ~ (fs[j].offset + fs[j].size <= layout.size)}
<1>1. DOMAIN fs = 1 .. Len(fs) /\ Len(fs) \in Nat
  BY FieldsAreSeq
<1>2. \A j \in DOMAIN fs : fs[j].offset \in Nat /\ fs[j].size \in Nat
  BY DEF Sound, Laid
<1>3. layout.size \in Nat
  BY DEF Sound
<1>4. \A j \in DOMAIN fs : fs[j].offset + fs[j].size <= IF j = Len(fs) THEN layout.size ELSE fs[j + 1].offset
  BY DEF Sound, Laid, Tight
<1>5. ASSUME T # {} PROVE FALSE
  <2>1. PICK j \in T : \A k \in T : k <= j
    BY <1>1, <1>5, Largest
  <2>2. j # Len(fs)
    BY <1>4
  <2>3. j + 1 \in DOMAIN fs /\ j \in Nat
    BY <1>1, <2>2, SMT
  <2>4. fs[j].offset + fs[j].size <= fs[j + 1].offset
    BY <1>4, <2>2
  <2>5. ~ (fs[j + 1].offset + fs[j + 1].size <= layout.size)
    BY <1>2, <1>3, <2>3, <2>4, SMT
  <2>6. j + 1 <= j
    BY <2>1, <2>3, <2>5
  <2> QED BY <2>3, <2>6, SMT
<1> QED BY <1>2, <1>5
-----------------------------------------------------------------------------
\* Beside sound layouts: the walk through the map comes to every struct, and a block is
\* as large as the struct was when the variable was declared.
BlockInv ==
  /\ LayoutInv
  /\ DOMAIN structs \subseteq Names /\ (cur # Idle => cur.at \in Names)
  /\ IsFiniteSet(DOMAIN structs) /\ order \in Orders(DOMAIN structs)
  /\ brk \in Nat /\ 1 <= brk
  /\ objs = [v \in Vars |-> objs[v]]
  /\ \A v \in Vars :
       /\ objs[v].base \in Nat
       /\ DOMAIN objs[v].seen \subseteq DOMAIN structs
       /\ \A n \in DOMAIN objs[v].seen : Sound(objs[v].seen[n])
       /\ objs[v].ty \in DOMAIN objs[v].seen => objs[v].size = objs[v].seen[objs[v].ty].size
       /\ objs[v] # NoObject => objs[v].ty \in DOMAIN objs[v].seen

LEMMA BlockStart == Init => BlockInv
<1> SUFFICES ASSUME Init PROVE BlockInv
  OBVIOUS
<1>1. LayoutInv
  BY LayoutStart
<1>2. DOMAIN structs = {} /\ cur = Idle /\ order = <<>> /\ brk = Header /\ objs = [v \in Vars |-> NoObject]
  BY DEF Init, TypesInit
<1>3. IsFiniteSet(DOMAIN structs) /\ order \in Orders(DOMAIN structs)
  <2>1. Cardinality({}) = 0 /\ IsFiniteSet({})
    BY FS_EmptySet
  <2>2. <<>> \in [1 .. 0 -> {}]
    BY EmptySeq, LenProperties
  <2> QED BY <1>2, <2>1, <2>2 DEF Orders
<1>4. \A v \in Vars : objs[v] = NoObject
  BY <1>2
<1>5. NoObject.base \in Nat /\ DOMAIN NoObject.seen = {} /\ brk \in Nat /\ 1 <= brk
  BY <1>2 DEF NoObject, Sentinel, Header
<1> QED BY <1>1, <1>2, <1>3, <1>4, <1>5 DEF BlockInv

LEMMA InParts == ASSUME NEW n \in DOMAIN structs PROVE n \in Parts(n)
BY DEF Parts

\* What v is once it is declared as n at b.
Object(n, b) == [base |-> b, size |-> structs[n].size, ty |-> n, seen |-> [m \in Parts(n) |-> structs[m]]]

\* A block is either none, or behind all others, or somewhere after a write has strayed.
Taken(n, b) ==
  \/ structs[n].size = 0 /\ b = Sentinel /\ mem' = mem
  \/ strayed = TRUE
  \/ /\ b = brk + Header /\ b + structs[n].size <= brk'
     /\ \E end : mem' = [a \in DOMAIN mem \ (brk .. end) |-> mem[a]]

LEMMA DeclareStep ==
  ASSUME BlockInv, NEW v \in Vars, NEW ty, Declare(v, ty)
  PROVE  /\ objs[v] = NoObject
         /\ UNCHANGED <<structs, cur, order, strayed, last>>
         /\ brk' \in Nat /\ brk <= brk'
         /\ \E n \in DOMAIN structs, b \in Nat : objs' = [objs EXCEPT ![v] = Object(n, b)] /\ Taken(n, b)
<1> DEFINE n      == Resolve(ty)
           size   == structs[n].size
           room   == RoundUp(size, 8)
<1>1. /\ n \in DOMAIN structs /\ objs[v] = NoObject
      /\ UNCHANGED <<structs, cur, order, strayed, last>>
      /\ \/ size = 0 /\ objs' = [objs EXCEPT ![v] = Object(n, Sentinel)] /\ mem' = mem /\ brk' = brk
         \/ /\ size > 0
            /\ \E base \in Places :
                 /\ objs' = [objs EXCEPT ![v] = Object(n, base)]
                 /\ brk' = Longer(brk, IF base = brk + Header THEN base + room ELSE brk)
                 /\ mem' = [a \in DOMAIN mem \ (base - Header .. base + room - 1) |-> mem[a]]
  BY DEF Declare, types, Object
<1>2. size \in Nat /\ brk \in Nat
  BY <1>1 DEF BlockInv, LayoutInv, Sound
<1>3. room \in Nat /\ room >= size
  BY <1>2, RoundsUp DEF Aligns
<1>4. CASE size = 0 /\ objs' = [objs EXCEPT ![v] = Object(n, Sentinel)] /\ mem' = mem /\ brk' = brk
  <2>1. Sentinel \in Nat /\ brk' \in Nat /\ brk <= brk'
    BY <1>2, <1>4, SMT DEF Sentinel
  <2>2. Taken(n, Sentinel)
    BY <1>4 DEF Taken
  <2>3. n \in DOMAIN structs /\ objs[v] = NoObject /\ UNCHANGED <<structs, cur, order, strayed, last>>
    BY <1>1
  <2> HIDE DEF n, size, room
  <2>4. \E k \in DOMAIN structs, c \in Nat : objs' = [objs EXCEPT ![v] = Object(k, c)] /\ Taken(k, c)
    BY <1>4, <2>1, <2>2, <2>3
  <2> QED BY <2>1, <2>3, <2>4
<1>5. ASSUME NEW b \in Places,
             objs' = [objs EXCEPT ![v] = Object(n, b)],
             brk' = Longer(brk, IF b = brk + Header THEN b + room ELSE brk),
             mem' = [a \in DOMAIN mem \ (b - Header .. b + room - 1) |-> mem[a]]
      PROVE  b \in Nat /\ brk' \in Nat /\ brk <= brk' /\ Taken(n, b)
  <2> HIDE DEF room
  <2>1. CASE b = brk + Header
    <3>1. /\ b \in Nat /\ b + room > brk /\ b - Header = brk /\ b + room \in Nat
          /\ b + size <= b + room /\ brk <= b + room
      BY <1>2, <1>3, <2>1, SMT DEF Header
    <3>2. brk' = b + room
      BY <1>5, <2>1, <3>1 DEF Longer
    <3>3. b + size <= brk' /\ mem' = [a \in DOMAIN mem \ (brk .. b + room - 1) |-> mem[a]]
      BY <1>5, <3>1, <3>2
    <3> QED BY <2>1, <3>1, <3>2, <3>3 DEF Taken
  <2>2. CASE b # brk + Header
    <3>1. strayed = TRUE /\ b \in Memory
      BY <1>5, <2>2, Zenon DEF Places
    <3>2. brk' = brk /\ brk <= brk
      BY <1>2, <1>5, <2>2, SMT DEF Longer
    <3>3. b \in Nat
      BY <3>1, StructsAssumption
    <3> QED BY <1>2, <3>1, <3>2, <3>3 DEF Taken
  <2> QED BY <2>1, <2>2
<1>6. ASSUME NEW b \in Places,
             objs' = [objs EXCEPT ![v] = Object(n, b)],
             brk' = Longer(brk, IF b = brk + Header THEN b + room ELSE brk),
             mem' = [a \in DOMAIN mem \ (b - Header .. b + room - 1) |-> mem[a]]
      PROVE  /\ brk' \in Nat /\ brk <= brk'
             /\ \E k \in DOMAIN structs, c \in Nat : objs' = [objs EXCEPT ![v] = Object(k, c)] /\ Taken(k, c)
  <2>1. b \in Nat /\ brk' \in Nat /\ brk <= brk' /\ Taken(n, b)
    BY <1>5, <1>6
  <2> HIDE DEF n
  <2> QED BY <1>1, <1>6, <2>1
<1> HIDE DEF n, room, size
<1> QED BY <1>1, <1>4, <1>6

LEMMA BlockKept == BlockInv /\ [Next]_vars => BlockInv'
<1> SUFFICES ASSUME BlockInv, [Next]_vars PROVE BlockInv'
  OBVIOUS
<1>1. LayoutInv'
  BY LayoutKept DEF BlockInv
<1>2. CASE UNCHANGED vars
  BY <1>1, <1>2 DEF BlockInv, vars, types
<1>3. ASSUME NEW v \in Vars, NEW p, NEW val, Assign(v, p, val) PROVE BlockInv'
  BY <1>1, <1>3 DEF Assign, BlockInv, types
<1>4. ASSUME NEW v \in Vars, NEW ty \in Names, Declare(v, ty) PROVE BlockInv'
  <2>1. UNCHANGED <<structs, cur, order>> /\ brk' \in Nat /\ 1 <= brk'
    BY <1>4, DeclareStep DEF BlockInv
  <2>2. PICK n \in DOMAIN structs, b \in Nat : objs' = [objs EXCEPT ![v] = Object(n, b)]
    BY <1>4, DeclareStep
  <2> DEFINE o == Object(n, b)
  <2>3. n \in Parts(n) /\ Parts(n) \subseteq DOMAIN structs
    BY InParts DEF Parts
  <2>4. \A m \in DOMAIN structs : Sound(structs[m])
    BY DEF BlockInv, LayoutInv
  <2>5. /\ o.base \in Nat /\ DOMAIN o.seen \subseteq DOMAIN structs
        /\ \A m \in DOMAIN o.seen : Sound(o.seen[m])
        /\ o.ty \in DOMAIN o.seen /\ o.size = o.seen[o.ty].size
    BY <2>3, <2>4 DEF Object
  <2> HIDE DEF o
  <2>6. \A u \in Vars : objs'[u] = IF u = v THEN o ELSE objs[u]
    BY <2>2 DEF BlockInv, o
  <2>7. objs' = [u \in Vars |-> objs'[u]]
    BY <2>2 DEF BlockInv
  <2> QED BY <1>1, <2>1, <2>5, <2>6, <2>7 DEF BlockInv
<1>5. CASE DefineType
  <2>1. Rehash /\ UNCHANGED <<brk, objs>> /\ Define
    BY <1>5 DEF DefineType
  <2>2. /\ DOMAIN structs \subseteq DOMAIN structs'
        /\ DOMAIN structs' \subseteq Names /\ IsFiniteSet(DOMAIN structs') /\ (cur' # Idle => cur'.at \in Names)
    <3>1. ASSUME NEW n \in Names, StartLayout(n) PROVE UNCHANGED structs /\ cur'.at = n
      BY <3>1 DEF StartLayout
    <3>2. ASSUME NEW f, NEW ty, LayField(f, ty) PROVE UNCHANGED structs /\ cur # Idle /\ cur'.at = cur.at
      <4>1. PICK n, offset, fields : \E align \in Aligns :
              cur = [at |-> n, offset |-> offset, align |-> align, fields |-> fields] /\ Laid(fields, offset)
        BY <3>2 DEF BlockInv, LayoutInv, LayField
      <4>2. PICK align : cur = [at |-> n, offset |-> offset, align |-> align, fields |-> fields]
        BY <4>1
      <4>3. cur'.at = n
        BY <3>2, <4>2, Zenon DEF LayField
      <4> QED BY <3>2, <4>2, <4>3 DEF LayField
    <3>3. CASE FinishLayout
      <4>1. DOMAIN structs' = DOMAIN structs \cup {cur.at} /\ cur' = Idle /\ cur # Idle
        BY <3>3 DEF FinishLayout
      <4> QED BY <4>1, FS_AddElement DEF BlockInv
    <3>4. ASSUME NEW n, NEW ty, AddTypedef(n, ty) PROVE UNCHANGED <<structs, cur>>
      BY <3>4 DEF AddTypedef
    <3> QED BY <2>1, <3>1, <3>2, <3>3, <3>4 DEF Define, BlockInv
  <2>3. order' \in Orders(DOMAIN structs')
    BY <2>1 DEF Rehash, BlockInv
  <2> QED BY <1>1, <2>1, <2>2, <2>3 DEF BlockInv
<1> QED BY <1>2, <1>3, <1>4, <1>5 DEF Next

\* The first holder of a field, and the last, are structs that have it.
LEMMA HoldersFound ==
  ASSUME BlockInv, NEW m \in DOMAIN structs, NEW f, Has(m, f)
  PROVE  /\ \E k \in DOMAIN structs : Has(k, f) /\ ReadLayout(f) = FieldOf(k, f)
         /\ \E k \in DOMAIN structs : Has(k, f) /\ WriteLayout(f) = FieldOf(k, f)
<1> DEFINE c == Cardinality(DOMAIN structs)
<1>1. c \in Nat
  BY FS_CardinalityType DEF BlockInv
<1>2. order \in [1 .. c -> DOMAIN structs] /\ \E i \in DOMAIN order : order[i] = m
  BY DEF BlockInv, Orders
<1>3. Holders(f) \subseteq 1 .. c /\ Holders(f) # {}
  BY <1>2 DEF Holders
<1>4. \E i \in Holders(f) : \A j \in Holders(f) : j <= i
  BY <1>1, <1>3, Largest
<1>5. \E i \in Holders(f) : \A j \in Holders(f) : i <= j
  <2>1. Holders(f) \subseteq Nat
    BY <1>1, <1>3, SMT
  <2> QED BY <1>3, <2>1, Smallest
<1>6. \A i \in Holders(f) : order[i] \in DOMAIN structs /\ Has(order[i], f)
  BY <1>2 DEF Holders
<1>7. PICK i \in Holders(f) : ReadLayout(f) = FieldOf(order[i], f)
  BY <1>4, Zenon DEF ReadLayout
<1>8. PICK k \in Holders(f) : WriteLayout(f) = FieldOf(order[k], f)
  BY <1>5, Zenon DEF WriteLayout
<1> QED BY <1>6, <1>7, <1>8

\* In a clear variable a name leads to the field that its struct has.
LEMMA ClearFields ==
  ASSUME BlockInv, NEW v \in Vars, Clear(v), NEW m \in Parts(objs[v].ty), NEW f, Has(m, f)
  PROVE  ReadLayout(f) = FieldOf(m, f) /\ WriteLayout(f) = FieldOf(m, f)
<1>1. m \in DOMAIN structs
  BY DEF Parts
<1>2. PICK i \in DOMAIN structs[m].fields : structs[m].fields[i].name = f
  BY DEF Has
<1>3. \A k \in DOMAIN structs : Has(k, f) => FieldOf(k, f) = FieldOf(m, f)
  BY <1>2 DEF Clear
<1> QED BY <1>1, <1>3, HoldersFound

-----------------------------------------------------------------------------
(* What the members of a variable read: the layouts are taken as they were *)
(* when the variable was declared, since Clear may come and go between two *)
(* writes, while these do not change.                                      *)

First(fs, f)   == fs[CHOOSE i \in DOMAIN fs : fs[i].name = f /\ \A j \in 1 .. i - 1 : fs[j].name # f]
Carries(fs, f) == \E i \in DOMAIN fs : fs[i].name = f

Live(v)        == objs[v].ty \in DOMAIN objs[v].seen
Part(v, m, f)  == First(objs[v].seen[m].fields, f)

\* w are the structs that p goes through and o the addresses of the fields, from the
\* block on; a struct has the size that the field has for it.
Track(v, p, w, o) ==
  /\ w[1] = objs[v].ty /\ o[0] = objs[v].base
  /\ \A i \in DOMAIN p :
       /\ w[i] \in DOMAIN objs[v].seen /\ Carries(objs[v].seen[w[i]].fields, p[i])
       /\ o[i] = o[i - 1] + Part(v, w[i], p[i]).offset
       /\ i # Len(p) => /\ Part(v, w[i], p[i]).ty = w[i + 1]
                        /\ Part(v, w[i], p[i]).size = objs[v].seen[w[i + 1]].size

Target(v, p, w) == Part(v, w[Len(p)], p[Len(p)])

\* p is a member that is no struct, and its bytes are those of what was last written.
Filled(at, width, val) == \A k \in 0 .. width - 1 : at + k \in DOMAIN mem /\ mem[at + k] = Piece(val, k)
Held(v, p) == \E w, o :
  /\ Track(v, p, w, o) /\ Target(v, p, w).ty \notin Names
  /\ Filled(o[Len(p)], Target(v, p, w).size, last[v][p])

Behind(u, v) == objs[u].base + objs[u].size <= objs[v].base

\* As long as no write has strayed the blocks stand apart; what is remembered is there.
ReadInv ==
  /\ BlockInv
  /\ ~ strayed =>
       /\ \A v \in Vars : Live(v) => 1 <= objs[v].base /\ objs[v].base + objs[v].size <= brk
       /\ \A u \in Vars, v \in Vars : Live(u) /\ Live(v) /\ u # v => Behind(u, v) \/ Behind(v, u)
  /\ \A v \in Vars, p \in Paths : last[v][p] # None => ~ strayed /\ Held(v, p)
-----------------------------------------------------------------------------
\* A row of fields is laid out in the order of its fields, not only each beside the next.
LEMMA FieldsApart ==
  ASSUME NEW layout, Sound(layout), NEW i \in DOMAIN layout.fields, NEW j \in DOMAIN layout.fields, i < j
  PROVE  layout.fields[i].offset + layout.fields[i].size <= layout.fields[j].offset
<1> DEFINE fs == layout.fields
           T  == {k \in DOMAIN fs : i < k /\ ~ (fs[i].offset + fs[i].size <= fs[k].offset)}
<1>1. DOMAIN fs = 1 .. Len(fs) /\ Len(fs) \in Nat
  BY FieldsAreSeq
<1>2. \A k \in DOMAIN fs : fs[k].offset \in Nat /\ fs[k].size \in Nat
  BY DEF Sound, Laid
<1>3. \A k \in DOMAIN fs : k # Len(fs) => fs[k].offset + fs[k].size <= fs[k + 1].offset
  BY DEF Sound, Laid, Tight
<1>4. ASSUME T # {} PROVE FALSE
  <2>1. T \subseteq Nat
    BY <1>1, SMT
  <2>2. PICK k \in T : \A y \in T : k <= y
    BY <1>4, <2>1, Smallest
  <2> DEFINE h == k - 1
  <2>3. h \in DOMAIN fs /\ h # Len(fs) /\ h + 1 = k /\ k \in DOMAIN fs /\ i <= h
    BY <1>1, SMT
  <2>4. fs[h].offset + fs[h].size <= fs[k].offset
    BY <1>3, <2>3
  <2>5. CASE i = h
    BY <2>4, <2>5
  <2>6. CASE i < h
    <3>1. h \notin T
      BY <2>2, <2>3, <1>1, SMT
    <3>2. fs[i].offset + fs[i].size <= fs[h].offset
      BY <2>3, <2>6, <3>1
    <3>3. fs[i].offset \in Nat /\ fs[i].size \in Nat /\ fs[h].offset \in Nat /\ fs[h].size \in Nat /\ fs[k].offset \in Nat
      BY <1>2, <2>3
    <3> HIDE DEF h
    <3>4. fs[i].offset + fs[i].size <= fs[k].offset
      BY <2>4, <3>2, <3>3, SMT
    <3> QED BY <3>4
  <2> QED BY <2>3, <2>5, <2>6, <1>1, SMT
<1> QED BY <1>4

LEMMA FirstFound ==
  ASSUME NEW layout, Sound(layout), NEW f, Carries(layout.fields, f)
  PROVE  \E i \in DOMAIN layout.fields : First(layout.fields, f) = layout.fields[i] /\ layout.fields[i].name = f
<1> DEFINE fs == layout.fields
           T  == {i \in DOMAIN fs : fs[i].name = f}
<1>1. DOMAIN fs = 1 .. Len(fs) /\ Len(fs) \in Nat
  BY FieldsAreSeq
<1>2. T \subseteq Nat /\ T # {}
  BY <1>1, SMT DEF Carries
<1>3. PICK x \in T : \A y \in T : x <= y
  BY <1>2, Smallest
<1>4. ASSUME NEW j \in 1 .. x - 1 PROVE fs[j].name # f
  <2>1. j \in DOMAIN fs /\ j < x /\ j \in Nat /\ x \in Nat
    BY <1>1, SMT
  <2> QED BY <1>3, <2>1, SMT
<1>5. \E i \in DOMAIN fs : fs[i].name = f /\ \A j \in 1 .. i - 1 : fs[j].name # f
  BY <1>4
<1> QED BY <1>5, Zenon DEF First

LEMMA PathLen == ASSUME NEW p \in Paths PROVE Len(p) \in Nat /\ 1 <= Len(p) /\ DOMAIN p = 1 .. Len(p)
<1>1. PICK n \in 1 .. Depth : p \in [1 .. n -> Fields]
  BY DEF Paths
<1>2. n \in Nat /\ 1 <= n
  BY StructsAssumption, SMT
<1>3. p \in Seq(Fields)
  BY <1>1, <1>2, IsASeq
<1>4. DOMAIN p = 1 .. Len(p) /\ Len(p) \in Nat
  BY <1>3, LenProperties
<1>5. DOMAIN p = 1 .. n
  BY <1>1
<1> QED BY <1>2, <1>4, <1>5, SMT

\* The field that the track comes to at i is one of the struct it has come to.
LEMMA TrackField ==
  ASSUME BlockInv, NEW v \in Vars, NEW p \in Paths, NEW w, NEW o, Track(v, p, w, o), NEW i \in DOMAIN p
  PROVE  LET m == objs[v].seen[w[i]]
             f == Part(v, w[i], p[i])
         IN  /\ Sound(m) /\ m.size \in Nat
             /\ \E j \in DOMAIN m.fields : f = m.fields[j] /\ f.name = p[i]
             /\ f.offset \in Nat /\ f.size \in Nat /\ f.offset + f.size <= m.size
<1> DEFINE m == objs[v].seen[w[i]]
           f == Part(v, w[i], p[i])
<1>1. Sound(m) /\ Carries(m.fields, p[i])
  BY DEF Track, BlockInv
<1>2. f = First(m.fields, p[i])
  BY DEF Part
<1> HIDE DEF m
<1>3. PICK j \in DOMAIN m.fields : First(m.fields, p[i]) = m.fields[j] /\ m.fields[j].name = p[i]
  BY <1>1, FirstFound
<1>4. m.fields[j].offset \in Nat /\ m.fields[j].size \in Nat /\ m.fields[j].offset + m.fields[j].size <= m.size
  BY <1>1, FieldInside
<1>5. m.size \in Nat
  BY <1>1 DEF Sound
<1> HIDE DEF f
<1>6. /\ Sound(m) /\ m.size \in Nat
      /\ \E k \in DOMAIN m.fields : f = m.fields[k] /\ f.name = p[i]
      /\ f.offset \in Nat /\ f.size \in Nat /\ f.offset + f.size <= m.size
  BY <1>1, <1>2, <1>3, <1>4, <1>5
<1> QED BY <1>6 DEF m, f

\* Every field of a track lies in the block.
LEMMA TrackInBlock ==
  ASSUME BlockInv, NEW v \in Vars, NEW p \in Paths, NEW w, NEW o, Track(v, p, w, o)
  PROVE  /\ objs[v].base \in Nat /\ objs[v].size \in Nat
         /\ \A i \in DOMAIN p :
              /\ o[i] \in Nat /\ Part(v, w[i], p[i]).size \in Nat
              /\ objs[v].base <= o[i] /\ o[i] + Part(v, w[i], p[i]).size <= objs[v].base + objs[v].size
<1> DEFINE b    == objs[v].base
           z    == objs[v].size
           F(i) == Part(v, w[i], p[i])
           S(i) == objs[v].seen[w[i]].size
           In(i) == /\ o[i] \in Nat /\ b <= o[i] /\ o[i] + F(i).size <= b + z
                    /\ i # Len(p) => S(i + 1) = F(i).size
           T == {k \in Nat : k + 1 \in DOMAIN p => In(k + 1)}
<1>1. Len(p) \in Nat /\ 1 <= Len(p) /\ DOMAIN p = 1 .. Len(p)
  BY PathLen
<1>2. \A i \in DOMAIN p : F(i).offset \in Nat /\ F(i).size \in Nat /\ S(i) \in Nat /\ F(i).offset + F(i).size <= S(i)
  BY TrackField
<1>3. \A i \in DOMAIN p : o[i] = o[i - 1] + F(i).offset /\ (i # Len(p) => S(i + 1) = F(i).size)
  BY DEF Track
<1>4. o[0] = b /\ b \in Nat /\ z = S(1)
  <2>1. 1 \in DOMAIN p
    BY <1>1, SMT
  <2> QED BY <2>1 DEF Track, BlockInv
<1>5. 0 \in T
  <2>1. 0 + 1 = 1 /\ 1 - 1 = 0 /\ 1 \in DOMAIN p /\ 0 \in Nat
    BY <1>1, SMT
  <2>2. o[1] = b + F(1).offset
    BY <1>3, <1>4, <2>1
  <2>3. F(1).offset \in Nat /\ F(1).size \in Nat /\ S(1) \in Nat /\ F(1).offset + F(1).size <= S(1)
    BY <1>2, <2>1
  <2>4. \A x \in Nat, y \in Nat, s \in Nat : x + y <= s => b + x \in Nat /\ b <= b + x /\ b + x + y <= b + s
    BY <1>4, SMT
  <2>5. /\ b + F(1).offset \in Nat /\ b <= b + F(1).offset
        /\ b + F(1).offset + F(1).size <= b + S(1)
    BY <2>3, <2>4
  <2>6. 1 # Len(p) => S(1 + 1) = F(1).size
    BY <1>3, <2>1
  <2> HIDE DEF F, S
  <2>7. In(1)
    BY <1>4, <2>2, <2>5, <2>6
  <2> QED BY <2>1, <2>7
<1>6. ASSUME NEW k \in Nat, k \in T PROVE k + 1 \in T
  <2> SUFFICES ASSUME k + 1 + 1 \in DOMAIN p PROVE In(k + 1 + 1)
    BY <1>6
  <2>1. k + 1 \in DOMAIN p /\ k + 1 # Len(p) /\ k + 1 + 1 - 1 = k + 1 /\ k + 1 + 1 \in DOMAIN p
    BY <1>1, <1>6, SMT
  <2> DEFINE i == k + 1
             j == k + 1 + 1
  <2>2. In(i)
    BY <1>6, <2>1
  <2>3. o[j] = o[i] + F(j).offset /\ S(j) = F(i).size /\ (j # Len(p) => S(j + 1) = F(j).size)
    BY <1>3, <2>1, <2>2
  <2>4. /\ F(j).offset \in Nat /\ F(j).size \in Nat /\ F(j).offset + F(j).size <= S(j)
        /\ F(i).size \in Nat /\ o[i] \in Nat /\ z \in Nat
    <3>1. 1 \in DOMAIN p
      BY <1>1, SMT
    <3> QED BY <1>2, <1>4, <2>1, <2>2, <3>1
  <2> HIDE DEF i, j, F, S
  <2>5. o[j] \in Nat /\ b <= o[j] /\ o[j] + F(j).size <= b + z
    <3>1. \A a \in Nat, x \in Nat, y \in Nat, s \in Nat : x + y <= s /\ b <= a /\ a + s <= b + z
            => a + x \in Nat /\ b <= a + x /\ a + x + y <= b + z
      BY <1>4, <2>4, SMT
    <3> QED BY <2>2, <2>3, <2>4, <3>1 DEF In
  <2> QED BY <2>3, <2>5 DEF In, j
<1> HIDE DEF T
<1>7. \A k \in Nat : k \in T
  BY <1>5, <1>6, AllNumbers
<1>8. ASSUME NEW i \in DOMAIN p PROVE In(i)
  <2>1. i - 1 \in Nat /\ i - 1 + 1 = i
    BY <1>1, SMT
  <2>2. i - 1 \in T
    BY <1>7, <2>1
  <2> QED BY <2>1, <2>2 DEF T
<1>9. z \in Nat
  <2>1. 1 \in DOMAIN p
    BY <1>1, SMT
  <2> QED BY <1>2, <1>4, <2>1
<1> QED BY <1>2, <1>4, <1>8, <1>9

\* A field of a track lies in each that leads to it.
LEMMA TrackNests ==
  ASSUME BlockInv, NEW v \in Vars, NEW p \in Paths, NEW w, NEW o, Track(v, p, w, o),
         NEW i \in DOMAIN p
  PROVE  /\ o[i] <= o[Len(p)]
         /\ o[Len(p)] + Target(v, p, w).size <= o[i] + Part(v, w[i], p[i]).size
<1> DEFINE F(k) == Part(v, w[k], p[k])
           In(k) == o[i] <= o[k] /\ o[k] + F(k).size <= o[i] + F(i).size
           T == {d \in Nat : i + d \in DOMAIN p => In(i + d)}
<1>1. Len(p) \in Nat /\ 1 <= Len(p) /\ DOMAIN p = 1 .. Len(p) /\ i \in Nat
  BY PathLen, SMT
<1>2. \A k \in DOMAIN p : o[k] \in Nat /\ F(k).size \in Nat /\ F(k).offset \in Nat
  BY TrackInBlock, TrackField
<1>3. 0 \in T
  <2>1. i + 0 = i
    BY <1>1, SMT
  <2>2. o[i] <= o[i] /\ o[i] + F(i).size <= o[i] + F(i).size
    BY <1>2, SMT
  <2> QED BY <2>1, <2>2
<1>4. ASSUME NEW d \in Nat, d \in T PROVE d + 1 \in T
  <2> DEFINE a == i + d
             c == i + (d + 1)
  <2> SUFFICES ASSUME c \in DOMAIN p PROVE In(c)
    BY <1>4
  <2>1. a \in DOMAIN p /\ a # Len(p) /\ c = a + 1 /\ c - 1 = a
    BY <1>1, <1>4, SMT
  <2>2. In(a)
    BY <1>4, <2>1
  <2>3. o[c] = o[a] + F(c).offset /\ F(a).size = objs[v].seen[w[c]].size
    BY <2>1 DEF Track
  <2>4. F(c).offset + F(c).size <= F(a).size
    BY <2>3, TrackField
  <2>5. /\ o[i] \in Nat /\ o[a] \in Nat /\ F(i).size \in Nat /\ F(a).size \in Nat
        /\ F(c).offset \in Nat /\ F(c).size \in Nat
    BY <1>2, <2>1
  <2> HIDE DEF a, c, F
  <2>6. \A x \in Nat, y \in Nat, s \in Nat, t \in Nat, u \in Nat, e \in Nat :
          x + y <= s /\ t <= u /\ u + s <= t + e => t <= u + x /\ u + x + y <= t + e
    BY SMT
  <2> QED BY <2>2, <2>3, <2>4, <2>5, <2>6 DEF In
<1> HIDE DEF T
<1>5. \A d \in Nat : d \in T
  BY <1>3, <1>4, AllNumbers
<1>6. Len(p) - i \in Nat /\ i + (Len(p) - i) = Len(p) /\ Len(p) \in DOMAIN p
  BY <1>1, SMT
<1>7. Len(p) - i \in T
  BY <1>5, <1>6
<1> QED BY <1>6, <1>7 DEF T, Target

\* As far as two paths are the same, so are their tracks.
LEMMA TracksAgree ==
  ASSUME NEW v \in Vars, NEW p \in Paths, NEW q \in Paths, NEW w, NEW o, NEW x, NEW m,
         Track(v, p, w, o), Track(v, q, x, m),
         NEW d \in DOMAIN p, d \in DOMAIN q, \A i \in 1 .. d - 1 : p[i] = q[i]
  PROVE  w[d] = x[d] /\ o[d - 1] = m[d - 1]
<1> DEFINE T == {k \in Nat : k + 1 <= d => w[k + 1] = x[k + 1] /\ o[k] = m[k]}
<1>1. /\ Len(p) \in Nat /\ DOMAIN p = 1 .. Len(p) /\ Len(q) \in Nat /\ DOMAIN q = 1 .. Len(q)
      /\ d \in Nat /\ 1 <= d /\ d <= Len(p) /\ d <= Len(q)
  BY PathLen, SMT
<1>2. 0 \in T
  BY DEF Track
<1>3. ASSUME NEW k \in Nat, k \in T PROVE k + 1 \in T
  <2> SUFFICES ASSUME k + 1 + 1 <= d PROVE w[k + 1 + 1] = x[k + 1 + 1] /\ o[k + 1] = m[k + 1]
    BY <1>3
  <2> DEFINE e == Len(p)
             f == Len(q)
  <2>1. /\ k + 1 \in 1 .. e /\ k + 1 \in 1 .. f /\ k + 1 # e /\ k + 1 # f
        /\ k + 1 \in 1 .. d - 1 /\ k + 1 <= d /\ k + 1 - 1 = k
    <3>1. e \in Nat /\ f \in Nat /\ d \in Nat /\ d <= e /\ d <= f
      BY <1>1
    <3> HIDE DEF e, f, T
    <3> QED BY <3>1, SMT
  <2>2. k + 1 \in DOMAIN p /\ k + 1 \in DOMAIN q
    BY <1>1, <2>1
  <2>3. w[k + 1] = x[k + 1] /\ o[k] = m[k] /\ p[k + 1] = q[k + 1]
    BY <1>3, <2>1
  <2>4. /\ o[k + 1] = o[k] + Part(v, w[k + 1], p[k + 1]).offset
        /\ Part(v, w[k + 1], p[k + 1]).ty = w[k + 1 + 1]
    BY <2>1, <2>2 DEF Track
  <2>5. /\ m[k + 1] = m[k] + Part(v, x[k + 1], q[k + 1]).offset
        /\ Part(v, x[k + 1], q[k + 1]).ty = x[k + 1 + 1]
    BY <2>1, <2>2 DEF Track
  <2> QED BY <2>3, <2>4, <2>5
<1> HIDE DEF T
<1>4. \A k \in Nat : k \in T
  BY <1>2, <1>3, AllNumbers
<1>5. d - 1 \in Nat /\ d - 1 + 1 = d /\ d <= d
  BY <1>1, SMT
<1>6. d - 1 \in T
  BY <1>4, <1>5
<1> QED BY <1>5, <1>6 DEF T

Disjoint(a, s, b, t) == a + s <= b \/ b + t <= a

\* Members of which neither is in the other share no byte: where their paths part they
\* go to two fields of one struct.
LEMMA TracksApart ==
  ASSUME BlockInv, NEW v \in Vars, NEW p \in Paths, NEW q \in Paths, NEW w, NEW o, NEW x, NEW m,
         Track(v, p, w, o), Track(v, q, x, m), ~ Within(p, q), ~ Within(q, p)
  PROVE  Disjoint(o[Len(p)], Target(v, p, w).size, m[Len(q)], Target(v, q, x).size)
<1> DEFINE D == {k \in Nat : k \in DOMAIN p /\ k \in DOMAIN q /\ p[k] # q[k]}
<1>1. /\ Len(p) \in Nat /\ 1 <= Len(p) /\ DOMAIN p = 1 .. Len(p)
      /\ Len(q) \in Nat /\ 1 <= Len(q) /\ DOMAIN q = 1 .. Len(q)
  BY PathLen
<1>2. D # {}
  <2>1. ASSUME D = {} PROVE FALSE
    <3>1. ASSUME NEW k, k \in DOMAIN p, k \in DOMAIN q PROVE p[k] = q[k]
      <4>1. k \in Nat
        BY <1>1, <3>1, SMT
      <4> QED BY <2>1, <3>1, <4>1
    <3>2. CASE Len(p) <= Len(q)
      <4>1. \A k \in DOMAIN p : k \in DOMAIN q
        BY <1>1, <3>2, SMT
      <4> QED BY <3>1, <3>2, <4>1 DEF Within
    <3>3. CASE Len(q) <= Len(p)
      <4>1. \A k \in DOMAIN q : k \in DOMAIN p
        BY <1>1, <3>3, SMT
      <4> QED BY <3>1, <3>3, <4>1 DEF Within
    <3> QED BY <1>1, <3>2, <3>3, SMT
  <2> QED BY <2>1
<1>3. PICK d \in D : \A k \in D : d <= k
  <2>1. D \subseteq Nat
    OBVIOUS
  <2> HIDE DEF D
  <2> QED BY <1>2, <2>1, Smallest
<1>4. d \in DOMAIN p /\ d \in DOMAIN q /\ p[d] # q[d]
  OBVIOUS
<1>5. ASSUME NEW i \in 1 .. d - 1 PROVE p[i] = q[i]
  <2>1. i \in Nat /\ i \in DOMAIN p /\ i \in DOMAIN q /\ ~ (d <= i)
    BY <1>1, <1>4, SMT
  <2>2. i \notin D
    BY <1>3, <2>1
  <2> QED BY <2>1, <2>2
<1> HIDE DEF D
<1>6. w[d] = x[d] /\ o[d - 1] = m[d - 1]
  BY <1>4, <1>5, TracksAgree
<1> DEFINE layout == objs[v].seen[w[d]]
           f      == Part(v, w[d], p[d])
           g      == Part(v, x[d], q[d])
<1>7. /\ Sound(layout) /\ f.offset \in Nat /\ f.size \in Nat
      /\ \E j \in DOMAIN layout.fields : f = layout.fields[j] /\ f.name = p[d]
  BY <1>4, TrackField
<1>8. /\ g.offset \in Nat /\ g.size \in Nat
      /\ \E j \in DOMAIN layout.fields : g = layout.fields[j] /\ g.name = q[d]
  BY <1>4, <1>6, TrackField
<1>9. o[d] = o[d - 1] + f.offset /\ m[d] = o[d - 1] + g.offset
  BY <1>4, <1>6 DEF Track
<1>10. /\ o[d] \in Nat /\ m[d] \in Nat /\ o[Len(p)] \in Nat /\ m[Len(q)] \in Nat
       /\ Target(v, p, w).size \in Nat /\ Target(v, q, x).size \in Nat
  <2>1. Len(p) \in DOMAIN p /\ Len(q) \in DOMAIN q
    BY <1>1, SMT
  <2>2. \A i \in DOMAIN p : o[i] \in Nat /\ Part(v, w[i], p[i]).size \in Nat
    BY TrackInBlock
  <2>3. \A i \in DOMAIN q : m[i] \in Nat /\ Part(v, x[i], q[i]).size \in Nat
    BY TrackInBlock
  <2> QED BY <1>4, <2>1, <2>2, <2>3 DEF Target
<1>11. o[d] <= o[Len(p)] /\ o[Len(p)] + Target(v, p, w).size <= o[d] + f.size
  BY <1>4, TrackNests
<1>12. m[d] <= m[Len(q)] /\ m[Len(q)] + Target(v, q, x).size <= m[d] + g.size
  BY <1>4, TrackNests
<1> HIDE DEF layout, f, g
<1>13. f.offset + f.size <= g.offset \/ g.offset + g.size <= f.offset
  <2>1. PICK i \in DOMAIN layout.fields : f = layout.fields[i] /\ f.name = p[d]
    BY <1>7
  <2>2. PICK j \in DOMAIN layout.fields : g = layout.fields[j] /\ g.name = q[d]
    BY <1>8
  <2>3. i # j
    BY <1>4, <2>1, <2>2
  <2>4. i < j \/ j < i
    <3>1. DOMAIN layout.fields = 1 .. Len(layout.fields) /\ Len(layout.fields) \in Nat
      BY <1>7, FieldsAreSeq
    <3>2. i \in Nat /\ j \in Nat
      BY <2>1, <2>2, <3>1, SMT
    <3> QED BY <2>3, <3>2, SMT
  <2> QED BY <1>7, <2>1, <2>2, <2>4, FieldsApart
<1>14. o[d - 1] \in Int
  <2>1. CASE d = 1
    BY <2>1, TrackInBlock DEF Track
  <2>2. CASE d # 1
    <3>1. d - 1 \in DOMAIN p
      BY <1>1, <1>4, <2>2, SMT
    <3>2. o[d - 1] \in Nat
      BY <3>1, TrackInBlock
    <3> QED BY <3>2
  <2> QED BY <2>1, <2>2
<1> DEFINE c  == o[d - 1]
           a  == o[Len(p)]
           b  == m[Len(q)]
           s  == Target(v, p, w).size
           t  == Target(v, q, x).size
           fo == f.offset
           fs == f.size
           go == g.offset
           gs == g.size
<1>15. /\ c \in Int /\ a \in Nat /\ b \in Nat /\ s \in Nat /\ t \in Nat
       /\ fo \in Nat /\ fs \in Nat /\ go \in Nat /\ gs \in Nat
       /\ fo + fs <= go \/ go + gs <= fo
       /\ c + fo <= a /\ a + s <= c + fo + fs /\ c + go <= b /\ b + t <= c + go + gs
  BY <1>7, <1>8, <1>9, <1>10, <1>11, <1>12, <1>13, <1>14
<1> HIDE DEF a, b, c, s, t, fo, fs, go, gs
<1>16. a + s <= b \/ b + t <= a
  BY <1>15, SMT
<1> QED BY <1>16 DEF Disjoint, a, b, s, t

-----------------------------------------------------------------------------
\* The recursion of Base is what it says, where the offsets are numbers.
Bases(f, v, p) ==
  f = [i \in 0 .. Len(p) - 1 |-> IF i = 0 THEN objs[v].base ELSE f[i - 1] + ReadLayout(p[i]).offset]

LEMMA BaseSteps ==
  ASSUME NEW v, objs[v].base \in Nat, NEW p \in Paths, \A i \in DOMAIN p : ReadLayout(p[i]).offset \in Nat
  PROVE  \E g : /\ g[0] = objs[v].base
                /\ \A i \in 1 .. Len(p) - 1 : g[i] = g[i - 1] + ReadLayout(p[i]).offset
                /\ Base(v, p) = g[Len(p) - 1]
<1> DEFINE m      == Len(p) - 1
           b      == objs[v].base
           Off(i) == ReadLayout(p[i]).offset
           step   == [t \in Nat \X Nat |-> t[2] + Off(t[1])]
<1>1. m \in Nat /\ \A i \in 1 .. m : i \in Nat /\ i \in DOMAIN p /\ i # 0 /\ i \in 0 .. m /\ i - 1 \in 0 .. m
  BY PathLen, SMT
<1>2. 0 \in 0 .. m
  BY <1>1, SMT
<1>3. PICK g : Row(g, m, b, step)
  BY <1>1, RowExists
<1>4. g[0] = b /\ \A k \in 1 .. m : g[k] = step[<<k, g[k - 1]>>]
  BY <1>1, <1>3, RowSteps
<1>5. \A k \in Nat, y \in Nat : step[<<k, y>>] = y + Off(k)
  OBVIOUS
<1>6. \A k \in 1 .. m : Off(k) \in Nat
  BY <1>1
<1> HIDE DEF m, b, Off, step
<1>7. \A k \in 0 .. m : g[k] \in Nat
  <2> DEFINE T == {k \in Nat : k <= m => g[k] \in Nat}
  <2>1. 0 \in T
    BY <1>4 DEF b
  <2>2. ASSUME NEW k \in Nat, k \in T PROVE k + 1 \in T
    <3> SUFFICES ASSUME k + 1 <= m PROVE g[k + 1] \in Nat
      OBVIOUS
    <3>1. k + 1 \in 1 .. m /\ k + 1 - 1 = k /\ k <= m /\ k + 1 \in Nat
      BY <1>1, SMT
    <3>2. g[k] \in Nat
      BY <2>2, <3>1
    <3>3. g[k + 1] = g[k] + Off(k + 1)
      <4>1. g[k + 1] = step[<<k + 1, g[k]>>]
        BY <1>4, <3>1
      <4>2. step[<<k + 1, g[k]>>] = g[k] + Off(k + 1)
        BY <1>5, <3>1, <3>2
      <4> QED BY <4>1, <4>2
    <3>4. Off(k + 1) \in Nat
      BY <1>6, <3>1
    <3> QED BY <3>2, <3>3, <3>4
  <2> HIDE DEF T
  <2>3. \A k \in Nat : k \in T
    BY <2>1, <2>2, AllNumbers
  <2>4. \A k \in 0 .. m : k \in Nat /\ k <= m
    BY SMT
  <2> QED BY <2>3, <2>4 DEF T
<1>8. ASSUME NEW k \in 1 .. m PROVE step[<<k, g[k - 1]>>] = g[k - 1] + Off(k)
  BY <1>1, <1>5, <1>7, <1>8
<1>9. Bases(g, v, p)
  <2> DEFINE h == [k \in 0 .. m |-> IF k = 0 THEN b ELSE step[<<k, g[k - 1]>>]]
             e == [k \in 0 .. m |-> IF k = 0 THEN b ELSE g[k - 1] + Off(k)]
  <2>1. g = h
    BY <1>3 DEF Row
  <2>2. ASSUME NEW k \in 0 .. m PROVE h[k] = e[k]
    <3>1. k = 0 \/ k \in 1 .. m
      BY <1>1, SMT
    <3> QED BY <1>8, <3>1
  <2>3. h = e
    BY <2>2
  <2> HIDE DEF h
  <2> QED BY <2>1, <2>3 DEF Bases, m, b, Off
<1> DEFINE f == CHOOSE f : Bases(f, v, p)
<1>10. Bases(f, v, p)
  BY <1>9
<1>11. Base(v, p) = f[m]
  BY Zenon DEF Base, Bases, m
<1> HIDE DEF f
<1>12. f[0] = b /\ \A i \in 1 .. m : f[i] = f[i - 1] + Off(i)
  <2> DEFINE e == [i \in 0 .. m |-> IF i = 0 THEN b ELSE f[i - 1] + Off(i)]
  <2>1. f = e
    BY <1>10 DEF Bases, m, b, Off
  <2>2. e[0] = b /\ \A i \in 1 .. m : e[i] = f[i - 1] + Off(i)
    BY <1>1, <1>2
  <2> HIDE DEF e
  <2> QED BY <2>1, <2>2
<1> QED BY <1>11, <1>12 DEF m, b, Off

LEMMA PartsClosed ==
  ASSUME NEW n, NEW m \in Parts(n), NEW i \in DOMAIN structs[m].fields, structs[m].fields[i].ty \in DOMAIN structs
  PROVE  structs[m].fields[i].ty \in Parts(n)
BY DEF Parts, Closed

\* A member that can be named without ambiguity has a track, and is read and written there.
LEMMA MemberTracked ==
  ASSUME BlockInv, NEW v \in Vars, Clear(v), NEW p \in Paths, MemberOf(v, p)
  PROVE  \E w, o : /\ Track(v, p, w, o)
                   /\ ReadLayout(p[Len(p)]) = Target(v, p, w) /\ WriteLayout(p[Len(p)]) = Target(v, p, w)
                   /\ ReadAt(v, p) = o[Len(p)] /\ WriteAt(v, p) = o[Len(p)]
<1> DEFINE n    == objs[v].ty
           l    == Len(p)
           seen == objs[v].seen
<1>1. l \in Nat /\ 1 <= l /\ DOMAIN p = 1 .. l
  BY PathLen
<1>2. PICK w \in [DOMAIN p -> DOMAIN structs] :
        /\ w[1] = n
        /\ \A i \in DOMAIN p : Has(w[i], p[i]) /\ (i # l => FieldOf(w[i], p[i]).ty = w[i + 1])
  BY DEF MemberOf
<1> DEFINE F(i) == FieldOf(w[i], p[i])
<1>3. ASSUME NEW i \in DOMAIN p
      PROVE  /\ w[i] \in DOMAIN structs /\ Sound(structs[w[i]])
             /\ \E j \in DOMAIN structs[w[i]].fields : F(i) = structs[w[i]].fields[j] /\ F(i).name = p[i]
  <2> DEFINE layout == structs[w[i]]
  <2>1. w[i] \in DOMAIN structs /\ Sound(layout)
    BY <1>2 DEF BlockInv, LayoutInv
  <2>2. Carries(layout.fields, p[i])
    BY <1>2 DEF Has, Carries
  <2>3. F(i) = First(layout.fields, p[i])
    BY Zenon DEF FieldOf, First
  <2> HIDE DEF layout
  <2>4. PICK j \in DOMAIN layout.fields : First(layout.fields, p[i]) = layout.fields[j] /\ layout.fields[j].name = p[i]
    BY <2>1, <2>2, FirstFound
  <2> HIDE DEF F
  <2> QED BY <2>1, <2>3, <2>4 DEF layout
<1>4. \A i \in DOMAIN p : w[i] \in Parts(n)
  <2> DEFINE T == {k \in Nat : k + 1 \in DOMAIN p => w[k + 1] \in Parts(n)}
  <2>1. 0 \in T
    <3>1. n \in Parts(n)
      BY InParts DEF Clear
    <3> QED BY <1>2, <3>1
  <2>2. ASSUME NEW k \in Nat, k \in T PROVE k + 1 \in T
    <3> SUFFICES ASSUME k + 1 + 1 \in DOMAIN p PROVE w[k + 1 + 1] \in Parts(n)
      OBVIOUS
    <3>1. k + 1 \in DOMAIN p /\ k + 1 # l
      <4> HIDE DEF l, T
      <4> QED BY <1>1, SMT
    <3>2. w[k + 1] \in Parts(n) /\ F(k + 1).ty = w[k + 1 + 1] /\ w[k + 1 + 1] \in DOMAIN structs
      BY <1>2, <2>2, <3>1
    <3>3. PICK j \in DOMAIN structs[w[k + 1]].fields : F(k + 1) = structs[w[k + 1]].fields[j]
      BY <1>3, <3>1
    <3> HIDE DEF F
    <3> QED BY <3>2, <3>3, PartsClosed
  <2> HIDE DEF T
  <2>3. \A k \in Nat : k \in T
    BY <2>1, <2>2, AllNumbers
  <2>4. \A i \in DOMAIN p : i - 1 \in Nat /\ i - 1 + 1 = i
    BY <1>1, SMT
  <2>5. \A i \in DOMAIN p : i - 1 \in T
    BY <2>3, <2>4
  <2> QED BY <2>4, <2>5 DEF T
<1>5. ASSUME NEW i \in DOMAIN p
      PROVE  /\ ReadLayout(p[i]) = F(i) /\ WriteLayout(p[i]) = F(i) /\ F(i).offset \in Nat
             /\ w[i] \in DOMAIN seen /\ seen[w[i]] = structs[w[i]]
             /\ F(i) = Part(v, w[i], p[i]) /\ Carries(seen[w[i]].fields, p[i])
             /\ F(i).ty \in Names => F(i).size = structs[F(i).ty].size
  <2>1. ReadLayout(p[i]) = F(i) /\ WriteLayout(p[i]) = F(i)
    BY <1>2, <1>4, ClearFields
  <2>2. PICK j \in DOMAIN structs[w[i]].fields : F(i) = structs[w[i]].fields[j] /\ F(i).name = p[i]
    BY <1>3
  <2>3. structs[w[i]].fields[j].offset \in Nat
    BY <1>3, FieldInside
  <2>4. /\ w[i] \in DOMAIN seen /\ seen[w[i]] = structs[w[i]]
        /\ structs[w[i]].fields[j].ty \in Names => structs[w[i]].fields[j].size = structs[structs[w[i]].fields[j].ty].size
    BY <1>4 DEF Clear
  <2>5. F(i) = Part(v, w[i], p[i])
    BY <2>4, Zenon DEF FieldOf, Part, First
  <2>6. Carries(seen[w[i]].fields, p[i])
    BY <1>2, <2>4 DEF Has, Carries
  <2> HIDE DEF F
  <2> QED BY <2>1, <2>2, <2>3, <2>4, <2>5, <2>6
<1>6. PICK g : /\ g[0] = objs[v].base
               /\ \A i \in 1 .. l - 1 : g[i] = g[i - 1] + ReadLayout(p[i]).offset
               /\ Base(v, p) = g[l - 1]
  <2>1. objs[v].base \in Nat
    BY DEF BlockInv
  <2>2. \A i \in DOMAIN p : ReadLayout(p[i]).offset \in Nat
    BY <1>5
  <2> QED BY <2>1, <2>2, BaseSteps
<1> DEFINE o == [i \in 0 .. l |-> IF i = l THEN ReadAt(v, p) ELSE g[i]]
<1>7. ASSUME NEW i \in DOMAIN p PROVE o[i] = o[i - 1] + F(i).offset
  <2>1. i \in 0 .. l /\ i - 1 \in 0 .. l /\ i - 1 # l
    BY <1>1, SMT
  <2>2. CASE i = l
    BY <1>5, <1>6, <2>1, <2>2 DEF ReadAt
  <2>3. CASE i # l
    <3>1. i \in 1 .. l - 1
      BY <1>1, <2>3, SMT
    <3> QED BY <1>5, <1>6, <2>1, <2>3, <3>1
  <2> QED BY <2>2, <2>3
<1>8. o[0] = objs[v].base /\ o[l] = ReadAt(v, p)
  <2>1. 0 \in 0 .. l /\ 0 # l /\ l \in 0 .. l
    BY <1>1, SMT
  <2> QED BY <1>6, <2>1
<1> HIDE DEF o
<1>9. ASSUME NEW i \in DOMAIN p, i # l PROVE F(i).ty = w[i + 1] /\ F(i).size = seen[w[i + 1]].size
  <2>1. i + 1 \in DOMAIN p
    BY <1>1, <1>9, SMT
  <2>2. F(i).ty = w[i + 1] /\ w[i + 1] \in DOMAIN structs
    BY <1>2, <1>9, <2>1
  <2>3. F(i).ty \in Names
    BY <2>2 DEF BlockInv
  <2> QED BY <1>5, <2>1, <2>2, <2>3
<1> HIDE DEF F
<1>10. Track(v, p, w, o)
  BY <1>2, <1>5, <1>7, <1>8, <1>9 DEF Track
<1>11. l \in DOMAIN p
  BY <1>1, SMT
<1>12. ReadLayout(p[l]) = Target(v, p, w) /\ WriteLayout(p[l]) = Target(v, p, w)
  BY <1>5, <1>11 DEF Target
<1>13. WriteAt(v, p) = o[l]
  BY <1>8, <1>12 DEF ReadAt, WriteAt
<1> QED BY <1>8, <1>10, <1>12, <1>13

\* Members of clear variables at any depth, also ones that are structs, lie in the block of
\* the variable: no assignment to one reaches a header or another variable.
THEOREM WritesStayInside == Spec => []InsideBlock
<1>1. ASSUME BlockInv, NEW v \in Vars, Clear(v), NEW p \in Paths, MemberOf(v, p)
      PROVE  WriteAt(v, p) >= objs[v].base /\ WriteAt(v, p) + Width(p) <= objs[v].base + objs[v].size
  <2>1. PICK w, o : /\ Track(v, p, w, o) /\ WriteLayout(p[Len(p)]) = Target(v, p, w)
                    /\ WriteAt(v, p) = o[Len(p)]
    BY <1>1, MemberTracked
  <2>2. Len(p) \in DOMAIN p
    BY PathLen, SMT
  <2>3. /\ objs[v].base \in Nat /\ objs[v].size \in Nat /\ o[Len(p)] \in Nat /\ Target(v, p, w).size \in Nat
        /\ objs[v].base <= o[Len(p)] /\ o[Len(p)] + Target(v, p, w).size <= objs[v].base + objs[v].size
    BY <1>1, <2>1, <2>2, TrackInBlock DEF Target
  <2>4. Width(p) = Target(v, p, w).size
    BY <2>1 DEF Width
  <2> QED BY <2>1, <2>3, <2>4
<1>2. BlockInv => InsideBlock
  BY <1>1 DEF InsideBlock
<1> QED BY <1>2, BlockStart, BlockKept, PTL DEF Spec

-----------------------------------------------------------------------------
LEMMA ReadStart == Init => ReadInv
<1> SUFFICES ASSUME Init PROVE ReadInv
  OBVIOUS
<1>1. BlockInv
  BY BlockStart
<1>2. \A v \in Vars : objs[v] = NoObject
  BY DEF Init
<1>3. \A v \in Vars : ~ Live(v)
  BY <1>2 DEF Live, NoObject
<1>4. \A v \in Vars, p \in Paths : last[v][p] = None
  BY DEF Init
<1> QED BY <1>1, <1>3, <1>4 DEF ReadInv

\* What a track needs after a step that leaves the variable where it is.
LEMMA HeldAfter ==
  ASSUME NEW v, NEW p, NEW w, NEW o, Track(v, p, w, o), Target(v, p, w).ty \notin Names, objs'[v] = objs[v],
         \A k \in 0 .. Target(v, p, w).size - 1 :
           o[Len(p)] + k \in DOMAIN mem' /\ mem'[o[Len(p)] + k] = Piece(last'[v][p], k)
  PROVE  Held(v, p)'
<1>1. Track(v, p, w, o)' /\ Target(v, p, w)' = Target(v, p, w)
  BY DEF Track, Target, Part
<1>2. /\ Target(v, p, w)'.ty \notin Names
      /\ \A k \in 0 .. Target(v, p, w)'.size - 1 :
           o[Len(p)] + k \in DOMAIN mem' /\ mem'[o[Len(p)] + k] = Piece(last'[v][p], k)
  BY <1>1
<1> QED BY <1>1, <1>2 DEF Held, Filled

\* Only what is remembered, the blocks and the memory count.
LEMMA ReadSame ==
  ASSUME ReadInv, BlockInv', UNCHANGED <<mem, brk, objs, strayed, last>>
  PROVE  ReadInv'
<1>1. \A v \in Vars : Live(v)' <=> Live(v)
  BY DEF Live
<1>2. \A u \in Vars, v \in Vars : Behind(u, v)' <=> Behind(u, v)
  BY DEF Behind
<1>3. ASSUME NEW v \in Vars, NEW p \in Paths, Held(v, p) PROVE Held(v, p)'
  <2>1. PICK w, o : /\ Track(v, p, w, o) /\ Target(v, p, w).ty \notin Names
                    /\ Filled(o[Len(p)], Target(v, p, w).size, last[v][p])
    BY <1>3 DEF Held
  <2>2. \A k \in 0 .. Target(v, p, w).size - 1 :
          o[Len(p)] + k \in DOMAIN mem' /\ mem'[o[Len(p)] + k] = Piece(last'[v][p], k)
    BY <2>1 DEF Filled
  <2> QED BY <2>1, <2>2, HeldAfter
<1> QED BY <1>1, <1>2, <1>3 DEF ReadInv

\* Who has a track is declared, and its bytes are in the block.
LEMMA HeldInside ==
  ASSUME BlockInv, NEW v \in Vars, NEW p \in Paths, NEW w, NEW o, Track(v, p, w, o)
  PROVE  /\ Live(v)
         /\ objs[v].base \in Nat /\ objs[v].size \in Nat /\ o[Len(p)] \in Nat /\ Target(v, p, w).size \in Nat
         /\ objs[v].base <= o[Len(p)] /\ o[Len(p)] + Target(v, p, w).size <= objs[v].base + objs[v].size
<1>1. Len(p) \in DOMAIN p /\ 1 \in DOMAIN p
  BY PathLen, SMT
<1>2. Live(v)
  BY <1>1 DEF Track, Live
<1> QED BY <1>1, <1>2, TrackInBlock DEF Target

\* A new block has none of the bytes of the others.
LEMMA ReadDeclare ==
  ASSUME ReadInv, BlockInv', NEW v \in Vars, NEW ty, Declare(v, ty)
  PROVE  ReadInv'
<1>1. /\ BlockInv /\ objs[v] = NoObject /\ UNCHANGED <<strayed, last>>
      /\ brk' \in Nat /\ brk <= brk' /\ brk \in Nat /\ 1 <= brk
  BY DeclareStep DEF ReadInv, BlockInv
<1>2. PICK n \in DOMAIN structs, b \in Nat : objs' = [objs EXCEPT ![v] = Object(n, b)] /\ Taken(n, b)
  BY <1>1, DeclareStep
<1>3. objs'[v] = Object(n, b) /\ \A u \in Vars : u # v => objs'[u] = objs[u]
  BY <1>2 DEF ReadInv, BlockInv
<1>4. ~ Live(v)
  BY <1>1 DEF Live, NoObject
<1>5. CASE strayed = TRUE
  BY <1>1, <1>5 DEF ReadInv
<1>6. CASE ~ strayed
  <2> DEFINE z == structs[n].size
  <2>1. z \in Nat /\ objs'[v].base = b /\ objs'[v].size = z
    BY <1>1, <1>3 DEF Object, BlockInv, LayoutInv, Sound
  <2>2. \/ z = 0 /\ b = 1 /\ mem' = mem
        \/ /\ b = brk + 8 /\ b + z <= brk'
           /\ \E end : mem' = [a \in DOMAIN mem \ (brk .. end) |-> mem[a]]
    <3>1. strayed # TRUE
      BY <1>6
    <3> QED BY <1>2, <3>1, Zenon DEF Taken, Sentinel, Header
  <2> HIDE DEF z
  <2>3. ASSUME NEW u \in Vars, Live(u)
        PROVE  /\ objs[u].base \in Nat /\ objs[u].size \in Nat
               /\ 1 <= objs[u].base /\ objs[u].base + objs[u].size <= brk
    <3>1. objs[u].base \in Nat /\ objs[u].size = objs[u].seen[objs[u].ty].size /\ Sound(objs[u].seen[objs[u].ty])
      BY <1>1, <2>3 DEF BlockInv, Live
    <3> QED BY <1>6, <2>3, <3>1 DEF ReadInv, Sound
  <2>4. \A u \in Vars : u # v => (Live(u)' <=> Live(u))
    BY <1>3 DEF Live
  <2>5. ASSUME NEW u \in Vars, Live(u)' PROVE 1 <= objs'[u].base /\ objs'[u].base + objs'[u].size <= brk'
    <3>1. CASE u = v
      BY <1>1, <2>1, <2>2, <3>1, SMT
    <3>2. CASE u # v
      <4>1. objs'[u] = objs[u] /\ Live(u)
        BY <1>3, <2>4, <2>5, <3>2
      <4>2. /\ objs[u].base \in Nat /\ objs[u].size \in Nat
            /\ 1 <= objs[u].base /\ objs[u].base + objs[u].size <= brk
        BY <2>3, <4>1
      <4> QED BY <1>1, <4>1, <4>2
    <3> QED BY <3>1, <3>2
  <2>6. ASSUME NEW u \in Vars, u # v, Live(u)' PROVE Behind(u, v)' \/ Behind(v, u)'
    <3>1. objs'[u] = objs[u] /\ Live(u)
      BY <1>3, <2>4, <2>6
    <3>2. /\ objs[u].base \in Nat /\ objs[u].size \in Nat
          /\ 1 <= objs[u].base /\ objs[u].base + objs[u].size <= brk
      BY <2>3, <3>1
    <3>3. objs[u].base + objs[u].size <= b \/ b + z <= objs[u].base
      BY <1>1, <2>1, <2>2, <3>2, SMT
    <3> QED BY <2>1, <3>1, <3>3 DEF Behind
  <2>7. ASSUME NEW u \in Vars, NEW y \in Vars, Live(u)', Live(y)', u # y PROVE Behind(u, y)' \/ Behind(y, u)'
    <3>1. CASE u = v \/ y = v
      BY <2>6, <2>7, <3>1
    <3>2. CASE u # v /\ y # v
      <4>1. Live(u) /\ Live(y) /\ objs'[u] = objs[u] /\ objs'[y] = objs[y]
        BY <1>3, <2>4, <2>7, <3>2
      <4>2. Behind(u, y) \/ Behind(y, u)
        BY <1>6, <2>7, <4>1 DEF ReadInv
      <4> QED BY <4>1, <4>2 DEF Behind
    <3> QED BY <3>1, <3>2
  <2>8. ASSUME NEW u \in Vars, NEW p \in Paths, last'[u][p] # None PROVE Held(u, p)'
    <3>1. Held(u, p) /\ last'[u][p] = last[u][p]
      BY <1>1, <2>8 DEF ReadInv
    <3>2. PICK w, o : /\ Track(u, p, w, o) /\ Target(u, p, w).ty \notin Names
                      /\ Filled(o[Len(p)], Target(u, p, w).size, last[u][p])
      BY <3>1 DEF Held
    <3>3. /\ Live(u)
          /\ o[Len(p)] \in Nat /\ Target(u, p, w).size \in Nat
          /\ o[Len(p)] + Target(u, p, w).size <= objs[u].base + objs[u].size
      BY <1>1, <3>2, HeldInside
    <3>4. u # v /\ objs'[u] = objs[u]
      BY <1>3, <1>4, <3>3
    <3> DEFINE at == o[Len(p)]
               e  == Target(u, p, w).size
    <3>5. at \in Nat /\ e \in Nat /\ at + e <= brk
      <4>1. objs[u].base + objs[u].size <= brk /\ objs[u].base \in Nat /\ objs[u].size \in Nat
        BY <2>3, <3>3
      <4> QED BY <1>1, <3>3, <4>1, SMT
    <3> HIDE DEF at, e
    <3>6. ASSUME NEW k \in 0 .. e - 1 PROVE at + k \in DOMAIN mem' /\ mem'[at + k] = mem[at + k]
      <4>1. at + k \in DOMAIN mem
        BY <3>2 DEF Filled, at, e
      <4>2. \A end : at + k \notin brk .. end
        <5>1. at + k < brk
          BY <1>1, <3>5, SMT
        <5> QED BY <1>1, <3>5, <5>1, SMT
      <4> QED BY <2>2, <4>1, <4>2
    <3>7. \A k \in 0 .. e - 1 : at + k \in DOMAIN mem' /\ mem'[at + k] = Piece(last'[u][p], k)
      BY <3>1, <3>2, <3>6 DEF Filled, at, e
    <3> QED BY <3>2, <3>4, <3>7, HeldAfter DEF at, e
  <2> QED BY <1>1, <1>6, <2>5, <2>7, <2>8 DEF ReadInv
<1> QED BY <1>5, <1>6

\* Where a member that is no struct is read, it is in no track that goes on.
LEMMA LeafEnds ==
  ASSUME BlockInv, NEW v \in Vars, NEW p \in Paths, NEW q \in Paths, NEW w, NEW o, NEW x, NEW m,
         Track(v, p, w, o), Track(v, q, x, m), Target(v, q, x).ty \notin Names, Within(p, q)
  PROVE  Within(q, p)
<1>1. /\ Len(p) \in Nat /\ 1 <= Len(p) /\ DOMAIN p = 1 .. Len(p)
      /\ Len(q) \in Nat /\ 1 <= Len(q) /\ DOMAIN q = 1 .. Len(q)
  BY PathLen
<1>2. Len(q) <= Len(p) /\ \A i \in DOMAIN q : p[i] = q[i]
  BY DEF Within
<1>3. ASSUME Len(q) # Len(p) PROVE FALSE
  <2> DEFINE d == Len(q)
             e == Len(p)
  <2>1. d \in 1 .. e /\ d # e /\ d + 1 \in 1 .. e /\ d \in 1 .. d /\ \A i \in 1 .. d - 1 : i \in 1 .. d
    <3>1. d \in Nat /\ e \in Nat /\ 1 <= d /\ d <= e /\ d # e
      BY <1>1, <1>2, <1>3
    <3> HIDE DEF d, e
    <3> QED BY <3>1, SMT
  <2>2. d \in DOMAIN p /\ d + 1 \in DOMAIN p /\ d \in DOMAIN q /\ \A i \in 1 .. d - 1 : i \in DOMAIN q
    BY <1>1, <2>1
  <2>3. w[d] = x[d]
    BY <1>2, <2>2, TracksAgree
  <2>4. Part(v, w[d], p[d]).ty = w[d + 1] /\ w[d + 1] \in DOMAIN objs[v].seen
    BY <2>1, <2>2 DEF Track
  <2>5. Part(v, w[d], p[d]) = Target(v, q, x)
    BY <1>2, <2>2, <2>3 DEF Target
  <2> QED BY <2>4, <2>5 DEF BlockInv
<1>4. Len(p) = Len(q) /\ DOMAIN p = DOMAIN q
  BY <1>1, <1>3
<1>5. Len(p) <= Len(q)
  BY <1>1, <1>4
<1> QED BY <1>2, <1>4, <1>5 DEF Within

\* What is written changes no other member that is still remembered.
LEMMA ReadAssign ==
  ASSUME ReadInv, BlockInv', NEW v \in Vars, NEW p \in Paths, NEW val, Assign(v, p, val)
  PROVE  ReadInv'
<1> DEFINE at     == WriteAt(v, p)
           here   == at .. at + Width(p) - 1
           member == Clear(v) /\ MemberOf(v, p)
           leaf   == member /\ ReadLayout(p[Len(p)]).ty \notin Names
<1>1. BlockInv /\ objs[v] # NoObject /\ UNCHANGED <<brk, objs>>
  BY DEF Assign, ReadInv
<1>2. strayed' = (strayed \/ ~ (here \subseteq Block(v)))
  BY DEF Assign
<1>3. mem' = IF strayed' THEN Unwritten
             ELSE [a \in DOMAIN mem \cup here |-> IF a \in here THEN Piece(val, a - at) ELSE mem[a]]
  BY Zenon DEF Assign
<1>4. last' = [u \in Vars |-> [q \in Paths |->
                IF strayed' THEN None
                ELSE IF u # v \/ (member /\ ~ Within(q, p)) THEN last[u][q]
                ELSE IF leaf /\ q = p THEN val ELSE None]]
  BY Zenon DEF Assign
<1> HIDE DEF at, here, member, leaf
<1>5. CASE strayed'
  <2>1. \A u \in Vars, q \in Paths : last'[u][q] = None
    BY <1>4, <1>5
  <2> QED BY <1>5, <2>1 DEF ReadInv
<1>6. CASE ~ strayed'
  <2>1. ~ strayed /\ here \subseteq Block(v)
    BY <1>2, <1>6
  <2>2. mem' = [a \in DOMAIN mem \cup here |-> IF a \in here THEN Piece(val, a - at) ELSE mem[a]]
    BY <1>3, <1>6
  <2>3. \A u \in Vars, q \in Paths :
          last'[u][q] = IF u # v \/ (member /\ ~ Within(q, p)) THEN last[u][q]
                        ELSE IF leaf /\ q = p THEN val ELSE None
    BY <1>4, <1>6
  <2>4. ASSUME NEW u \in Vars, NEW q \in Paths, NEW x, NEW m, Track(u, q, x, m), Target(u, q, x).ty \notin Names,
               Filled(m[Len(q)], Target(u, q, x).size, last[u][q]), last'[u][q] = last[u][q],
               \A k \in 0 .. Target(u, q, x).size - 1 : m[Len(q)] + k \notin here
        PROVE  Held(u, q)'
    <3>1. \A k \in 0 .. Target(u, q, x).size - 1 :
            m[Len(q)] + k \in DOMAIN mem' /\ mem'[m[Len(q)] + k] = Piece(last'[u][q], k)
      BY <2>2, <2>4 DEF Filled
    <3> QED BY <1>1, <2>4, <3>1, HeldAfter
  <2>5. ASSUME NEW u \in Vars, NEW q \in Paths, u # v, last'[u][q] # None PROVE Held(u, q)'
    <3>1. last'[u][q] = last[u][q]
      BY <2>3, <2>5
    <3>2. PICK x, m : /\ Track(u, q, x, m) /\ Target(u, q, x).ty \notin Names
                      /\ Filled(m[Len(q)], Target(u, q, x).size, last[u][q])
      BY <2>5, <3>1 DEF ReadInv, Held
    <3>3. /\ Live(u)
          /\ objs[u].base \in Nat /\ objs[u].size \in Nat /\ m[Len(q)] \in Nat /\ Target(u, q, x).size \in Nat
          /\ objs[u].base <= m[Len(q)] /\ m[Len(q)] + Target(u, q, x).size <= objs[u].base + objs[u].size
      BY <1>1, <3>2, HeldInside
    <3>4. /\ Live(v) /\ objs[v].base \in Nat /\ objs[v].size \in Nat
      BY <1>1 DEF BlockInv, Live, Sound
    <3>5. objs[u].base + objs[u].size <= objs[v].base \/ objs[v].base + objs[v].size <= objs[u].base
      BY <2>1, <2>5, <3>3, <3>4 DEF ReadInv, Behind
    <3> DEFINE b  == objs[u].base
               z  == objs[u].size
               bb == objs[v].base
               zz == objs[v].size
               a  == m[Len(q)]
               e  == Target(u, q, x).size
    <3>6. /\ b \in Nat /\ z \in Nat /\ bb \in Nat /\ zz \in Nat /\ a \in Nat /\ e \in Nat
          /\ b <= a /\ a + e <= b + z /\ (b + z <= bb \/ bb + zz <= b)
          /\ here \subseteq bb .. bb + zz - 1
      BY <2>1, <3>3, <3>4, <3>5 DEF Block
    <3>7. \A k \in 0 .. e - 1 : a + k \notin here
      <4> HIDE DEF a, b, e, z, bb, zz
      <4>1. \A k \in 0 .. e - 1 : a + k \notin bb .. bb + zz - 1
        BY <3>6, SMT
      <4> QED BY <3>6, <4>1
    <3> QED BY <2>4, <3>1, <3>2, <3>7
  <2>6. ASSUME member
        PROVE  \E w, o : /\ Track(v, p, w, o) /\ ReadLayout(p[Len(p)]) = Target(v, p, w)
                         /\ here = o[Len(p)] .. o[Len(p)] + Target(v, p, w).size - 1 /\ at = o[Len(p)]
                         /\ o[Len(p)] \in Nat /\ Target(v, p, w).size \in Nat
    <3>1. PICK w, o : /\ Track(v, p, w, o)
                      /\ ReadLayout(p[Len(p)]) = Target(v, p, w) /\ WriteLayout(p[Len(p)]) = Target(v, p, w)
                      /\ WriteAt(v, p) = o[Len(p)]
      BY <1>1, <2>6, MemberTracked DEF member
    <3>2. o[Len(p)] \in Nat /\ Target(v, p, w).size \in Nat
      BY <1>1, <3>1, HeldInside
    <3> QED BY <3>1, <3>2 DEF here, at, Width
  <2>7. ASSUME NEW q \in Paths, member, ~ Within(q, p), last'[v][q] # None PROVE Held(v, q)'
    <3>1. last'[v][q] = last[v][q]
      BY <2>3, <2>7
    <3>2. PICK x, m : /\ Track(v, q, x, m) /\ Target(v, q, x).ty \notin Names
                      /\ Filled(m[Len(q)], Target(v, q, x).size, last[v][q])
      BY <2>7, <3>1 DEF ReadInv, Held
    <3>3. PICK w, o : /\ Track(v, p, w, o)
                      /\ here = o[Len(p)] .. o[Len(p)] + Target(v, p, w).size - 1
                      /\ o[Len(p)] \in Nat /\ Target(v, p, w).size \in Nat
      BY <2>6, <2>7
    <3>4. ~ Within(p, q)
      BY <1>1, <2>7, <3>2, <3>3, LeafEnds
    <3>5. Disjoint(o[Len(p)], Target(v, p, w).size, m[Len(q)], Target(v, q, x).size)
      BY <1>1, <2>7, <3>2, <3>3, <3>4, TracksApart
    <3>6. m[Len(q)] \in Nat /\ Target(v, q, x).size \in Nat
      BY <1>1, <3>2, HeldInside
    <3> DEFINE a == m[Len(q)]
               e == Target(v, q, x).size
               c == o[Len(p)]
               s == Target(v, p, w).size
    <3>7. /\ a \in Nat /\ e \in Nat /\ c \in Nat /\ s \in Nat /\ (c + s <= a \/ a + e <= c)
          /\ here = c .. c + s - 1
      BY <3>3, <3>5, <3>6 DEF Disjoint
    <3>8. \A k \in 0 .. e - 1 : a + k \notin here
      <4> HIDE DEF a, c, e, s
      <4>1. \A k \in 0 .. e - 1 : a + k \notin c .. c + s - 1
        BY <3>7, SMT
      <4> QED BY <3>7, <4>1
    <3> QED BY <2>4, <3>1, <3>2, <3>8
  <2>8. ASSUME leaf, last'[v][p] = val PROVE Held(v, p)'
    <3>1. PICK w, o : /\ Track(v, p, w, o) /\ ReadLayout(p[Len(p)]) = Target(v, p, w)
                      /\ here = o[Len(p)] .. o[Len(p)] + Target(v, p, w).size - 1 /\ at = o[Len(p)]
                      /\ o[Len(p)] \in Nat /\ Target(v, p, w).size \in Nat
      BY <2>6, <2>8 DEF leaf
    <3>2. Target(v, p, w).ty \notin Names
      BY <2>8, <3>1 DEF leaf
    <3> DEFINE s == Target(v, p, w).size
    <3>3. \A k \in 0 .. s - 1 : at + k \in at .. at + s - 1 /\ (at + k) - at = k
      <4>1. s \in Nat /\ at \in Nat
        BY <3>1
      <4> HIDE DEF s
      <4> QED BY <4>1, SMT
    <3>4. ASSUME NEW a \in here PROVE a \in DOMAIN mem' /\ mem'[a] = Piece(val, a - at)
      <4> DEFINE h == [b \in DOMAIN mem \cup here |-> IF b \in here THEN Piece(val, b - at) ELSE mem[b]]
      <4>1. a \in DOMAIN h /\ h[a] = Piece(val, a - at)
        BY <3>4
      <4>2. mem' = h
        BY <2>2
      <4> HIDE DEF h
      <4> QED BY <4>1, <4>2
    <3>5. here = at .. at + s - 1
      BY <3>1
    <3> HIDE DEF s
    <3>6. ASSUME NEW k \in 0 .. s - 1 PROVE at + k \in DOMAIN mem' /\ mem'[at + k] = Piece(val, k)
      <4> DEFINE a == at + k
      <4>1. a \in here /\ a - at = k
        BY <3>3, <3>5
      <4> HIDE DEF a
      <4>2. a \in DOMAIN mem' /\ mem'[a] = Piece(val, a - at)
        BY <3>4, <4>1
      <4> QED BY <4>1, <4>2 DEF a
    <3> QED BY <1>1, <2>8, <3>1, <3>2, <3>6, HeldAfter DEF s
  <2>9. ASSUME NEW u \in Vars, NEW q \in Paths, last'[u][q] # None PROVE Held(u, q)'
    <3>1. CASE u # v
      BY <2>5, <2>9, <3>1
    <3>2. CASE u = v /\ member /\ ~ Within(q, p)
      BY <2>7, <2>9, <3>2
    <3>3. CASE u = v /\ ~ (member /\ ~ Within(q, p))
      <4>1. leaf /\ q = p /\ last'[u][q] = val
        BY <2>3, <2>9, <3>3
      <4> QED BY <2>8, <3>3, <4>1
    <3> QED BY <3>1, <3>2, <3>3
  <2>10. \A u \in Vars, y \in Vars : (Live(u)' <=> Live(u)) /\ (Behind(u, y)' <=> Behind(u, y))
    BY <1>1 DEF Live, Behind
  <2>11. /\ \A u \in Vars : Live(u) => 1 <= objs[u].base /\ objs[u].base + objs[u].size <= brk
         /\ \A u \in Vars, y \in Vars : Live(u) /\ Live(y) /\ u # y => Behind(u, y) \/ Behind(y, u)
    BY <2>1 DEF ReadInv
  <2>12. /\ \A u \in Vars : Live(u)' => 1 <= objs'[u].base /\ objs'[u].base + objs'[u].size <= brk'
         /\ \A u \in Vars, y \in Vars : Live(u)' /\ Live(y)' /\ u # y => Behind(u, y)' \/ Behind(y, u)'
    BY <1>1, <2>10, <2>11
  <2> QED BY <1>6, <2>9, <2>12 DEF ReadInv
<1> QED BY <1>5, <1>6

LEMMA ReadKept == ReadInv /\ [Next]_vars => ReadInv'
<1> SUFFICES ASSUME ReadInv, [Next]_vars PROVE ReadInv'
  OBVIOUS
<1>1. BlockInv'
  BY BlockKept DEF ReadInv
<1>2. CASE UNCHANGED vars
  BY <1>1, <1>2, ReadSame DEF vars
<1>3. CASE DefineType
  BY <1>1, <1>3, ReadSame DEF DefineType
<1>4. ASSUME NEW v \in Vars, NEW ty \in Names, Declare(v, ty) PROVE ReadInv'
  BY <1>1, <1>4, ReadDeclare
<1>5. ASSUME NEW v \in Vars, NEW p \in Paths, NEW val \in Values, Assign(v, p, val) PROVE ReadInv'
  BY <1>1, <1>5, ReadAssign
<1> QED BY <1>2, <1>3, <1>4, <1>5 DEF Next

\* As long as no write at all has left the block of its variable, a member of a clear variable
\* that is no struct reads as it was last written, at any depth, whatever was since
\* written to members and variables, declared or defined; but for a write to a struct that
\* it is in, and to its variable by a name that is not clear or no member's.
THEOREM MembersReadBack == Spec => []ReadBack
<1>1. ASSUME ReadInv, NEW v \in Vars, Clear(v), NEW p \in Paths, last[v][p] # None, Leaf(v, p)
      PROVE  Load(v, p) = Pieces(last[v][p], WriteLayout(p[Len(p)]).size)
  <2>1. BlockInv /\ MemberOf(v, p)
    BY <1>1 DEF ReadInv, Leaf
  <2>2. PICK w, o : /\ Track(v, p, w, o)
                    /\ ReadLayout(p[Len(p)]) = Target(v, p, w) /\ WriteLayout(p[Len(p)]) = Target(v, p, w)
                    /\ ReadAt(v, p) = o[Len(p)]
    BY <1>1, <2>1, MemberTracked
  <2>3. PICK x, m : Track(v, p, x, m) /\ Filled(m[Len(p)], Target(v, p, x).size, last[v][p])
    BY <1>1 DEF ReadInv, Held
  <2>4. Len(p) \in DOMAIN p
    BY PathLen, SMT
  <2>5. w[Len(p)] = x[Len(p)] /\ o[Len(p) - 1] = m[Len(p) - 1]
    BY <2>2, <2>3, <2>4, TracksAgree
  <2>6. Target(v, p, w) = Target(v, p, x)
    BY <2>5 DEF Target
  <2>7. o[Len(p)] = m[Len(p)]
    BY <2>2, <2>3, <2>4, <2>5 DEF Track
  <2> DEFINE a == ReadAt(v, p)
             s == Target(v, p, w).size
  <2>8. ReadLayout(p[Len(p)]).size = s /\ WriteLayout(p[Len(p)]).size = s
    BY <2>2
  <2>9. \A k \in 0 .. s - 1 : a + k \in DOMAIN mem /\ mem[a + k] = Piece(last[v][p], k)
    BY <2>2, <2>3, <2>6, <2>7 DEF Filled
  <2> HIDE DEF a, s
  <2>10. Load(v, p) = [k \in 0 .. s - 1 |-> IF a + k \in DOMAIN mem THEN mem[a + k] ELSE Zero]
    BY <2>8, Zenon DEF Load, a
  <2>11. Pieces(last[v][p], s) = [k \in 0 .. s - 1 |-> Piece(last[v][p], k)]
    BY DEF Pieces
  <2> QED BY <2>8, <2>9, <2>10, <2>11
<1>2. ReadInv => ReadBack
  BY <1>1 DEF ReadBack
<1> QED BY <1>2, ReadStart, ReadKept, PTL DEF Spec

-----------------------------------------------------------------------------
(* Typedefs.                                                               *)

Aliased(ty) == {ty} \cup {typedefs[n] : n \in DOMAIN typedefs}
StepOf(ty)  == [t \in Nat \X Aliased(ty) |-> ResolveOne(t[2])]
Chain(f, ty, m) == f = [k \in 0 .. m |-> IF k = 0 THEN ty ELSE ResolveOne(f[k - 1])]

LEMMA ChainIsRow == ASSUME NEW f, NEW ty, NEW m \in Nat PROVE Chain(f, ty, m) <=> Row(f, m, ty, StepOf(ty))
<1> DEFINE S == Aliased(ty)
           step == StepOf(ty)
<1>1. \A x \in S : ResolveOne(x) \in S
  BY DEF Aliased, ResolveOne
<1>2. \A k \in Nat, x \in S : step[<<k, x>>] = ResolveOne(x)
  BY DEF StepOf
<1>3. ty \in S
  BY DEF Aliased
<1>4. \A k \in 1 .. m : k \in 0 .. m /\ k # 0 /\ k \in Nat /\ k - 1 \in 0 .. m
  BY SMT
<1> HIDE DEF S, step
<1>5. ASSUME f[0] = ty,
             \/ \A k \in 1 .. m : f[k] = ResolveOne(f[k - 1])
             \/ \A k \in 1 .. m : f[k] = step[<<k, f[k - 1]>>]
      PROVE  \A k \in 0 .. m : f[k] \in S
  <2> DEFINE T == {k \in Nat : k <= m => f[k] \in S}
  <2>1. 0 \in T
    BY <1>3, <1>5
  <2>2. ASSUME NEW k \in Nat, k \in T PROVE k + 1 \in T
    <3>1. SUFFICES ASSUME k + 1 <= m PROVE f[k + 1] \in S
      OBVIOUS
    <3>2. k + 1 \in 1 .. m /\ k + 1 - 1 = k /\ k <= m /\ k + 1 \in Nat
      BY <3>1, SMT
    <3>3. f[k] \in S
      BY <2>2, <3>2
    <3>4. f[k + 1] = ResolveOne(f[k])
      <4>1. f[k + 1] = ResolveOne(f[k]) \/ f[k + 1] = step[<<k + 1, f[k]>>]
        BY <1>5, <3>2
      <4>2. step[<<k + 1, f[k]>>] = ResolveOne(f[k])
        BY <1>2, <3>2, <3>3
      <4> QED BY <4>1, <4>2
    <3> QED BY <1>1, <3>3, <3>4
  <2> HIDE DEF T
  <2>3. \A k \in Nat : k \in T
    BY <2>1, <2>2, AllNumbers
  <2>4. \A k \in 0 .. m : k \in Nat /\ k <= m
    BY SMT
  <2> QED BY <2>3, <2>4 DEF T
<1>6. ASSUME Chain(f, ty, m) PROVE Row(f, m, ty, step)
  <2> DEFINE g == [k \in 0 .. m |-> IF k = 0 THEN ty ELSE ResolveOne(f[k - 1])]
             h == [k \in 0 .. m |-> IF k = 0 THEN ty ELSE step[<<k, f[k - 1]>>]]
  <2>1. f = g
    BY <1>6 DEF Chain
  <2>2. g[0] = ty /\ \A k \in 1 .. m : g[k] = ResolveOne(f[k - 1])
    BY <1>4, SMT
  <2>3. f[0] = ty /\ \A k \in 1 .. m : f[k] = ResolveOne(f[k - 1])
    BY <2>1, <2>2
  <2>4. \A k \in 0 .. m : f[k] \in S
    BY <1>5, <2>3
  <2>5. ASSUME NEW k \in 0 .. m PROVE g[k] = h[k]
    <3>1. k = 0 \/ k \in 1 .. m
      BY SMT
    <3> QED BY <1>2, <1>4, <2>4, <3>1
  <2>6. g = h
    BY <2>5
  <2> QED BY <2>1, <2>6 DEF Row
<1>7. ASSUME Row(f, m, ty, step) PROVE Chain(f, ty, m)
  <2> DEFINE g == [k \in 0 .. m |-> IF k = 0 THEN ty ELSE ResolveOne(f[k - 1])]
             h == [k \in 0 .. m |-> IF k = 0 THEN ty ELSE step[<<k, f[k - 1]>>]]
  <2>1. f = h
    BY <1>7 DEF Row
  <2>2. f[0] = ty /\ \A k \in 1 .. m : f[k] = step[<<k, f[k - 1]>>]
    BY <1>7, RowSteps
  <2>3. \A k \in 0 .. m : f[k] \in S
    BY <1>5, <2>2
  <2>4. ASSUME NEW k \in 0 .. m PROVE g[k] = h[k]
    <3>1. k = 0 \/ k \in 1 .. m
      BY SMT
    <3> QED BY <1>2, <1>4, <2>3, <3>1
  <2>5. g = h
    BY <2>4
  <2> QED BY <2>1, <2>5 DEF Chain
<1> QED BY <1>6, <1>7 DEF step

\* The recursion of After is what it says.
LEMMA AfterSteps == ASSUME NEW ty PROVE After(ty, 0) = ty /\ \A k \in Nat : After(ty, k + 1) = ResolveOne(After(ty, k))
<1>1. ASSUME NEW m \in Nat
      PROVE  \E f : Chain(f, ty, m) /\ After(ty, m) = f[m]
  <2> DEFINE f == CHOOSE f : Chain(f, ty, m)
  <2>1. \E g : Chain(g, ty, m)
    BY RowExists, ChainIsRow
  <2>2. Chain(f, ty, m)
    BY <2>1
  <2>3. After(ty, m) = f[m]
    BY Zenon DEF After, Chain
  <2> QED BY <2>2, <2>3
<1>2. ASSUME NEW m \in Nat, NEW n \in Nat, NEW f, NEW g, Chain(f, ty, m), Chain(g, ty, n)
      PROVE  \A k \in Nat : k <= m /\ k <= n => f[k] = g[k]
  BY <1>2, ChainIsRow, RowsAgree
<1>3. After(ty, 0) = ty
  <2>1. PICK f : Chain(f, ty, 0) /\ After(ty, 0) = f[0]
    BY <1>1
  <2>2. Row(f, 0, ty, StepOf(ty))
    BY <2>1, ChainIsRow
  <2> QED BY <2>1, <2>2, RowSteps
<1>4. ASSUME NEW k \in Nat PROVE After(ty, k + 1) = ResolveOne(After(ty, k))
  <2>1. k + 1 \in Nat /\ k + 1 \in 0 .. k + 1 /\ k + 1 # 0 /\ k + 1 - 1 = k /\ k <= k + 1 /\ k <= k
    BY SMT
  <2>2. PICK f : Chain(f, ty, k + 1) /\ After(ty, k + 1) = f[k + 1]
    BY <1>1, <2>1
  <2>3. PICK g : Chain(g, ty, k) /\ After(ty, k) = g[k]
    BY <1>1
  <2>4. f[k] = g[k]
    BY <1>2, <2>1, <2>2, <2>3
  <2>5. f[k + 1] = ResolveOne(f[k])
    <3> DEFINE h == [j \in 0 .. k + 1 |-> IF j = 0 THEN ty ELSE ResolveOne(f[j - 1])]
    <3>1. f = h
      BY <2>2 DEF Chain
    <3>2. h[k + 1] = ResolveOne(f[k])
      BY <2>1
    <3> HIDE DEF h
    <3> QED BY <3>1, <3>2
  <2> QED BY <2>2, <2>3, <2>4, <2>5
<1> QED BY <1>3, <1>4

LEMMA AfterAdds == ASSUME NEW ty, NEW m \in Nat PROVE \A k \in Nat : After(ty, m + k) = After(After(ty, m), k)
<1> DEFINE T == {k \in Nat : After(ty, m + k) = After(After(ty, m), k)}
<1>1. 0 \in T
  <2>1. m + 0 = m
    OBVIOUS
  <2> QED BY <2>1, AfterSteps
<1>2. ASSUME NEW k \in Nat, k \in T PROVE k + 1 \in T
  <2>1. m + (k + 1) = (m + k) + 1 /\ m + k \in Nat
    BY SMT
  <2>2. After(ty, (m + k) + 1) = ResolveOne(After(ty, m + k))
    BY <2>1, AfterSteps
  <2>3. After(After(ty, m), k + 1) = ResolveOne(After(After(ty, m), k))
    BY AfterSteps
  <2> QED BY <1>2, <2>1, <2>2, <2>3
<1> HIDE DEF T
<1>3. \A k \in Nat : k \in T
  BY <1>1, <1>2, AllNumbers
<1> QED BY <1>3 DEF T

\* What is no typedef stays.
LEMMA AfterStays == ASSUME NEW ty, ty \notin DOMAIN typedefs PROVE \A k \in Nat : After(ty, k) = ty
<1> DEFINE T == {k \in Nat : After(ty, k) = ty}
<1>1. 0 \in T
  BY AfterSteps
<1>2. ASSUME NEW k \in Nat, k \in T PROVE k + 1 \in T
  <2>1. After(ty, k + 1) = ResolveOne(ty)
    BY <1>2, AfterSteps
  <2>2. ResolveOne(ty) = ty
    BY DEF ResolveOne
  <2> QED BY <2>1, <2>2
<1> HIDE DEF T
<1>3. \A k \in Nat : k \in T
  BY <1>1, <1>2, AllNumbers
<1> QED BY <1>3 DEF T

\* The early return of resolve gives what the loop would.
LEMMA ResolveIsAfter == ASSUME NEW ty PROVE Resolve(ty) = After(ty, Limit)
<1>1. Limit \in Nat
  BY SMT DEF Limit
<1> DEFINE T == {k \in Nat : ResolveOne(ty) = ty => After(ty, k) = ty}
<1>2. 0 \in T
  BY AfterSteps
<1>3. ASSUME NEW k \in Nat, k \in T PROVE k + 1 \in T
  BY <1>3, AfterSteps
<1> HIDE DEF T
<1>4. \A k \in Nat : k \in T
  BY <1>2, <1>3, AllNumbers
<1> QED BY <1>1, <1>4, Zenon DEF T, Resolve

AliasInv == IsFiniteSet(DOMAIN typedefs)

LEMMA AliasKept == AliasInv /\ [Next]_vars => AliasInv'
<1> SUFFICES ASSUME AliasInv, [Next]_vars PROVE AliasInv'
  OBVIOUS
<1>1. ASSUME NEW n, NEW ty, AddTypedef(n, ty) PROVE AliasInv'
  <2>1. DOMAIN typedefs' = DOMAIN typedefs \cup {n}
    BY <1>1 DEF AddTypedef
  <2> QED BY <2>1, FS_AddElement DEF AliasInv
<1>2. ASSUME NEW n, StartLayout(n) PROVE AliasInv'
  BY <1>2 DEF StartLayout, AliasInv
<1>3. ASSUME NEW f, NEW ty, LayField(f, ty) PROVE AliasInv'
  BY <1>3 DEF LayField, AliasInv
<1>4. CASE FinishLayout
  BY <1>4 DEF FinishLayout, AliasInv
<1>5. ASSUME NEW v, NEW ty, Declare(v, ty) PROVE AliasInv'
  BY <1>5 DEF Declare, types, AliasInv
<1>6. ASSUME NEW v, NEW p, NEW val, Assign(v, p, val) PROVE AliasInv'
  BY <1>6 DEF Assign, types, AliasInv
<1>7. CASE UNCHANGED vars
  BY <1>7 DEF vars, types, AliasInv
<1> QED BY <1>1, <1>2, <1>3, <1>4, <1>5, <1>6, <1>7 DEF Next, DefineType, Define

\* Of the aliases that were passed two are one, since there are more steps than typedefs;
\* so the chain has come round before, and what is left at last is on its circle.
THEOREM AliasesAreExpanded == Spec => []AliasesExpanded
<1>1. AliasInv => AliasesExpanded
  <2> DEFINE D == DOMAIN typedefs
             c == Cardinality(D)
  <2> SUFFICES ASSUME AliasInv, NEW n \in Names, Resolve(n) \in D, ~ (c > Limit)
               PROVE  Circular(Resolve(n))
    BY DEF AliasesExpanded
  <2>1. IsFiniteSet(D) /\ c \in Nat /\ c <= Limit /\ Limit \in Nat
    <3>1. c \in Nat
      BY FS_CardinalityType DEF AliasInv
    <3> QED BY <3>1, SMT DEF AliasInv, Limit
  <2>2. ASSUME NEW k \in 0 .. Limit PROVE After(n, k) \in D
    <3>1. k \in Nat /\ Limit - k \in Nat /\ k + (Limit - k) = Limit
      BY <2>1, SMT
    <3>2. After(n, Limit) = After(After(n, k), Limit - k)
      BY <3>1, AfterAdds
    <3> QED BY <3>1, <3>2, AfterStays, ResolveIsAfter
  <2> DEFINE f == [k \in 0 .. c |-> After(n, k)]
  <2>3. f \in [0 .. c -> D]
    <3>1. \A k \in 0 .. c : k \in 0 .. Limit
      BY <2>1, SMT
    <3> QED BY <2>2, <3>1
  <2>4. IsFiniteSet(0 .. c) /\ Cardinality(0 .. c) = c + 1
    <3>1. 0 \in Int /\ c \in Int /\ ~ (0 > c) /\ c - 0 + 1 = c + 1
      BY <2>1, SMT
    <3> QED BY <3>1, FS_Interval
  <2>5. PICK x \in 0 .. c, y \in 0 .. c : x # y /\ f[x] = f[y]
    <3>1. c < c + 1
      BY <2>1, SMT
    <3> HIDE DEF f
    <3> QED BY <2>1, <2>3, <2>4, <3>1, FS_PigeonHole
  <2>6. \E i \in 0 .. c, j \in 0 .. c : i < j /\ After(n, i) = After(n, j)
    <3>1. After(n, x) = After(n, y)
      BY <2>5
    <3>2. x < y \/ y < x
      BY <2>1, <2>5, SMT
    <3> QED BY <3>1, <3>2
  <2>7. PICK i \in 0 .. c, j \in 0 .. c : i < j /\ After(n, i) = After(n, j)
    BY <2>6
  <2> DEFINE d == j - i
             r == Limit - i
  <2>8. /\ i \in Nat /\ j \in Nat /\ d \in 1 .. c /\ d \in Nat /\ r \in Nat
        /\ i + r = Limit /\ j + r = Limit + d
    BY <2>1, <2>7, SMT
  <2>9. After(n, Limit + d) = After(n, Limit)
    <3>1. After(n, i + r) = After(After(n, i), r) /\ After(n, j + r) = After(After(n, j), r)
      BY <2>8, AfterAdds
    <3> QED BY <2>7, <2>8, <3>1
  <2>10. After(n, Limit + d) = After(After(n, Limit), d)
    BY <2>1, <2>8, AfterAdds
  <2> QED BY <2>8, <2>9, <2>10, ResolveIsAfter DEF Circular
<1>2. Init => AliasInv
  BY FS_EmptySet DEF Init, TypesInit, AliasInv
<1> QED BY <1>1, <1>2, AliasKept, PTL DEF Spec
=============================================================================
