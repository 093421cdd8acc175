-------------------------------- MODULE Structs --------------------------------
(***************************************************************************)
(* Variables of struct type in the interpreter (vm.rs): a declaration      *)
(* allocates as many bytes as the layout says, and a member is found by    *)
(* the name of its field alone, in whichever struct has one of that name.  *)
(*                                                                         *)
(* The memory is a row of blocks with a header in front, none of which is  *)
(* freed; an address holds the piece of a value that was last written      *)
(* there.  Pointers and blocks that a program makes itself are left out: a *)
(* variable keeps the block of its declaration, and nothing is reached     *)
(* through a field of pointer type.                                        *)
(***************************************************************************)
EXTENDS Types

CONSTANTS
  Vars,    \* variables of struct type
  Values,  \* values of fields
  Memory,  \* addresses of the buffer
  Depth    \* fields of an access: v.f.g has two

ASSUME StructsAssumption == Memory \subseteq Nat /\ Depth \in Nat \ {0}

VARIABLES
  order,   \* the order in which the map of structs is walked
  mem,     \* what was written, by its address, as long as no write has strayed
  brk,     \* the end of the blocks
  objs,    \* of each variable: its block, its struct, and what that was made of then
  strayed, \* a write has left the block of its variable
  last     \* what was last written to each member, while that is known (history)

vars == <<types, order, mem, brk, objs, strayed, last>>

Header == 8
Sentinel == 1  \* the address of every block without bytes
Paths  == UNION {[1 .. n -> Fields] : n \in 1 .. Depth}
None   == "none"
Zero   == <<None, 0>>
Unwritten == [a \in {} |-> Zero]
NoObject  == [base |-> Sentinel, size |-> 0, ty |-> None, seen |-> [n \in {} |-> 0]]

Init ==
  /\ TypesInit /\ order = <<>> /\ brk = Header
  /\ mem = Unwritten
  /\ objs = [v \in Vars |-> NoObject] /\ strayed = FALSE
  /\ last = [v \in Vars |-> [p \in Paths |-> None]]

\* The map may be walked in any order, and a new entry may change it.
Orders(D) == {w \in [1 .. Cardinality(D) -> D] : \A n \in D : \E i \in DOMAIN w : w[i] = n}

Rehash == IF DOMAIN structs' = DOMAIN structs THEN UNCHANGED order ELSE order' \in Orders(DOMAIN structs')

\* field: the first of that name in a struct
Has(n, f)      == \E i \in DOMAIN structs[n].fields : structs[n].fields[i].name = f
FieldOf(n, f)  == LET fs == structs[n].fields
                  IN  fs[CHOOSE i \in DOMAIN fs : fs[i].name = f /\ \A j \in 1 .. i - 1 : fs[j].name # f]

Holders(f)     == {i \in DOMAIN order : Has(order[i], f)}
\* To read, the last struct that has the field; to write, the first.
ReadLayout(f)  == LET h == Holders(f) IN FieldOf(order[CHOOSE i \in h : \A j \in h : j <= i], f)
WriteLayout(f) == LET h == Holders(f) IN FieldOf(order[CHOOSE i \in h : \A j \in h : i <= j], f)

Known(p)   == \A i \in DOMAIN p : Holders(p[i]) # {}
\* A member of struct type is the address of the struct in the struct, whatever struct
\* that is.
Whole(p)   == \A i \in 1 .. Len(p) - 1 : ReadLayout(p[i]).ty \in Names
Base(v, p) == LET at[i \in 0 .. Len(p) - 1] == IF i = 0 THEN objs[v].base ELSE at[i - 1] + ReadLayout(p[i]).offset
              IN  at[Len(p) - 1]

ReadAt(v, p)  == Base(v, p) + ReadLayout(p[Len(p)]).offset
WriteAt(v, p) == Base(v, p) + WriteLayout(p[Len(p)]).offset

\* The shift that takes piece k from a number of eight bytes goes round (a debug build
\* panics, and the program is over).
Piece(val, k)  == <<val, k % 8>>
Pieces(val, w) == [k \in 0 .. w - 1 |-> Piece(val, k)]
-----------------------------------------------------------------------------
(* What a program may count on.                                            *)

\* The structs that n is made of, at any depth.
Closed(S) == \A m \in S : \A i \in DOMAIN structs[m].fields :
               structs[m].fields[i].ty \in DOMAIN structs => structs[m].fields[i].ty \in S
Parts(n)  == {m \in DOMAIN structs : \A S \in SUBSET DOMAIN structs : n \in S /\ Closed(S) => m \in S}

\* The struct of v is as it was, what is in it has the size it was given, and what else
\* has a field of the same name has it at the same place.
Clear(v) ==
  LET n == objs[v].ty IN
  /\ n \in DOMAIN structs /\ n \in DOMAIN objs[v].seen
  /\ \A m \in Parts(n) :
       /\ m \in DOMAIN objs[v].seen /\ structs[m] = objs[v].seen[m]
       /\ \A i \in DOMAIN structs[m].fields :
            LET f == structs[m].fields[i] IN
            /\ f.ty \in Names => f.ty \in DOMAIN structs /\ f.size = structs[f.ty].size
            /\ \A k \in DOMAIN structs : Has(k, f.name) => FieldOf(k, f.name) = FieldOf(m, f.name)

\* Each field of p is one of the struct that was reached, and the first of that of v.
MemberOf(v, p) ==
  \E w \in [DOMAIN p -> DOMAIN structs] :
    /\ w[1] = objs[v].ty
    /\ \A i \in DOMAIN p : Has(w[i], p[i]) /\ (i # Len(p) => FieldOf(w[i], p[i]).ty = w[i + 1])

\* A member that is no struct itself.
Leaf(v, p) == MemberOf(v, p) /\ ReadLayout(p[Len(p)]).ty \notin Names

\* q is p or a member in p.
Within(q, p) == Len(p) <= Len(q) /\ \A i \in DOMAIN p : q[i] = p[i]
-----------------------------------------------------------------------------
DefineType == Define /\ Rehash /\ UNCHANGED <<mem, brk, objs, strayed, last>>

\* alloc: behind all blocks; where the walk over the headers ends once one may have been
\* overwritten is left open.
Places ==
  {brk + Header} \cup IF strayed THEN {a \in Memory : a % 8 = 0 /\ 2 * Header <= a /\ a <= brk} ELSE {}

\* VarDecl without an initialiser.
Declare(v, ty) ==
  /\ cur = Idle /\ objs[v] = NoObject
  /\ LET n      == Resolve(ty)
         size   == structs[n].size
         room   == RoundUp(size, 8)
         At(a)  == [objs EXCEPT ![v] = [base |-> a, size |-> size, ty |-> n, seen |-> [m \in Parts(n) |-> structs[m]]]]
     IN  /\ n \in DOMAIN structs
         /\ \/ size = 0 /\ objs' = At(Sentinel) /\ UNCHANGED <<mem, brk>>
            \/ /\ size > 0
               /\ \E base \in Places :
                    /\ base + room - 1 \in Memory
                    /\ objs' = At(base)
                    /\ brk' = Longer(brk, IF base = brk + Header THEN base + room ELSE brk)
                    /\ mem' = [a \in DOMAIN mem \ (base - Header .. base + room - 1) |-> mem[a]]
  /\ UNCHANGED <<types, order, strayed, last>>

\* Fault: a whole word is written whatever the size of the field.
FaultWidth(p) == 8
Width(p)      == WriteLayout(p[Len(p)]).size

Block(v) == objs[v].base .. objs[v].base + objs[v].size - 1

\* v.f = val and v.f.g = val, for any field of any struct, also one that is a struct.
\* Nothing is written where check_bounds fails.  A member is remembered until it, or
\* what it is in, is written again; a name that is not clear or no member of v may mean
\* any part of v.  What is in memory after a write has left its block is not followed.
Assign(v, p, val) ==
  /\ cur = Idle /\ objs[v] # NoObject
  /\ Known(p) /\ Whole(p)
  /\ LET at     == WriteAt(v, p)
         here   == at .. at + Width(p) - 1
         member == Clear(v) /\ MemberOf(v, p)
         leaf   == member /\ ReadLayout(p[Len(p)]).ty \notin Names
     IN  /\ here \subseteq Memory
         /\ strayed' = (strayed \/ ~ (here \subseteq Block(v)))
         /\ mem' = IF strayed' THEN Unwritten
                   ELSE [a \in DOMAIN mem \cup here |-> IF a \in here THEN Piece(val, a - at) ELSE mem[a]]
         /\ last' = [u \in Vars |-> [q \in Paths |->
              IF strayed' THEN None
              ELSE IF u # v \/ (member /\ ~ Within(q, p)) THEN last[u][q]
              ELSE IF leaf /\ q = p THEN val ELSE None]]
  /\ UNCHANGED <<types, order, brk, objs>>

Next ==
  \/ DefineType
  \/ \E v \in Vars, ty \in Names : Declare(v, ty)
  \/ \E v \in Vars, p \in Paths, val \in Values : Assign(v, p, val)

Spec == Init /\ [][Next]_vars
-----------------------------------------------------------------------------
Load(v, p) == LET f == ReadLayout(p[Len(p)])
              IN  [k \in 0 .. f.size - 1 |-> IF ReadAt(v, p) + k \in DOMAIN mem THEN mem[ReadAt(v, p) + k] ELSE Zero]

\* Every member of a clear variable, at any depth and also one that is a struct, is
\* inside its block, so that no write to it changes a header or another variable.
InsideBlock ==
  cur = Idle => \A v \in {u \in Vars : Clear(u)}, p \in Paths : MemberOf(v, p) =>
    WriteAt(v, p) >= objs[v].base /\ WriteAt(v, p) + Width(p) <= objs[v].base + objs[v].size

\* A member of a clear variable reads as it was last written, whatever was since written
\* to other members and variables, declared or defined, as long as no write at all has left
\* the block of the variable it was to (vm.rs checks for none of the fields that it is one of the
\* variable's).  It is forgotten when a struct that it is in is written as a whole, and
\* when its variable is written by a name that is not clear or no member's: then nothing
\* is promised.  What is compared is the bytes; a number that does not fit into the field
\* unsigned, or a float of four bytes, is another value when they are read (vm.rs:626, 933).
ReadBack ==
  cur = Idle => \A v \in {u \in Vars : Clear(u)}, p \in Paths : last[v][p] # None /\ Leaf(v, p) =>
    Load(v, p) = Pieces(last[v][p], WriteLayout(p[Len(p)]).size)
=============================================================================
