--------------------------------- MODULE Types ---------------------------------
(***************************************************************************)
(* The types of a session (holyc_frontend/src/layout.rs and types.rs): the *)
(* layouts of classes and the typedefs, entered as the first pass of each  *)
(* module comes to them.  The loop of compute_layout is taken step by step.*)
(*                                                                         *)
(* Types that have the same size and are read the same way are one.  A     *)
(* function pointer or an array cannot be written for a field.             *)
(***************************************************************************)
EXTENDS Integers, Sequences, FiniteSets

CONSTANTS
  Prims,      \* primitive types in use
  Names,      \* names of classes and typedefs
  Fields,     \* names of fields
  MaxClasses, \* classes that a session defines
  MaxItems    \* fields and typedefs that it has

VARIABLES
  structs,   \* TypeEnv.structs
  typedefs,  \* TypeEnv.typedefs
  cur,       \* the loop of compute_layout: what it has so far
  classes,   \* classes so far
  items      \* fields and typedefs so far

types == <<structs, typedefs, cur, classes, items>>

PrimSize  == [U0 |-> 0, I8 |-> 1, I16 |-> 2, I32 |-> 4, I64 |-> 8, Ptr |-> 8]
PrimAlign == [p \in DOMAIN PrimSize |-> IF PrimSize[p] \in {1, 2, 4} THEN PrimSize[p] ELSE 8]
Type      == Prims \cup Names

ASSUME TypesAssumption ==
  Prims \subseteq DOMAIN PrimSize /\ Names \cap DOMAIN PrimSize = {} /\ MaxClasses \in Nat /\ MaxItems \in Nat

Partial(S, T) == UNION {[D -> T] : D \in SUBSET S}

Field  == [name : Fields, offset : Nat, size : Nat, ty : Type]
Layout == [size : Nat, align : {1, 2, 4, 8}, fields : Seq(Field)]

Idle   == [at |-> "idle"]
TypesInit ==
  /\ structs = [n \in {} |-> 0] /\ typedefs = [n \in {} |-> 0]
  /\ cur = Idle /\ classes = 0 /\ items = 0
-----------------------------------------------------------------------------
ResolveOne(ty) == IF ty \in DOMAIN typedefs THEN typedefs[ty] ELSE ty

\* Fault: a single level is expanded.
FaultResolve(ty) == ResolveOne(ty)

\* What is left of ty after k steps.
After(ty, k) == LET after[j \in 0 .. k] == IF j = 0 THEN ty ELSE ResolveOne(after[j - 1]) IN after[k]

\* What is no alias is left at once, a cycle of typedefs after 32 steps, wherever that is.
Limit == 32
Resolve(ty) == IF ResolveOne(ty) = ty THEN ty ELSE After(ty, Limit)

\* size_of, with the 8 of unwrap_or for a type that is not known.
SizeOf(ty) ==
  LET r == Resolve(ty)
  IN  IF r \in Prims THEN PrimSize[r] ELSE IF r \in DOMAIN structs THEN structs[r].size ELSE 8
AlignOf(ty) ==
  LET r == Resolve(ty)
  IN  IF r \in Prims THEN PrimAlign[r] ELSE IF r \in DOMAIN structs THEN structs[r].align ELSE 1

\* div_ceil(a) * a.  Fault: div(a) * a
FaultRoundUp(n, a) == (n \div a) * a
RoundUp(n, a) == ((n + a - 1) \div a) * a

Longer(a, b) == IF b > a THEN b ELSE a
-----------------------------------------------------------------------------
StartLayout(n) ==
  /\ cur = Idle /\ classes < MaxClasses
  /\ cur' = [at |-> n, offset |-> 0, align |-> 1, fields |-> <<>>]
  /\ classes' = classes + 1
  /\ UNCHANGED <<structs, typedefs, items>>

LayField(f, ty) ==
  /\ cur # Idle /\ items < MaxItems
  /\ LET resolved == Resolve(ty)
         size     == SizeOf(resolved)
         align    == AlignOf(resolved)
         offset   == RoundUp(cur.offset, align)
     IN  cur' = [cur EXCEPT !.offset = offset + size, !.align = Longer(@, align),
                            !.fields = Append(@, [name |-> f, offset |-> offset, size |-> size, ty |-> resolved])]
  /\ items' = items + 1
  /\ UNCHANGED <<structs, typedefs, classes>>

\* Fault: the size is rounded down.
FaultFinishLayout ==
  /\ cur # Idle
  /\ LET layout == [size |-> (cur.offset \div cur.align) * cur.align, align |-> cur.align, fields |-> cur.fields]
     IN  structs' = [n \in DOMAIN structs \cup {cur.at} |-> IF n = cur.at THEN layout ELSE structs[n]]
  /\ cur' = Idle
  /\ UNCHANGED <<typedefs, classes, items>>

FinishLayout ==
  /\ cur # Idle
  /\ LET layout == [size |-> RoundUp(cur.offset, cur.align), align |-> cur.align, fields |-> cur.fields]
     IN  structs' = [n \in DOMAIN structs \cup {cur.at} |-> IF n = cur.at THEN layout ELSE structs[n]]
  /\ cur' = Idle
  /\ UNCHANGED <<typedefs, classes, items>>

AddTypedef(alias, ty) ==
  /\ cur = Idle /\ items < MaxItems
  /\ typedefs' = [n \in DOMAIN typedefs \cup {alias} |-> IF n = alias THEN ty ELSE typedefs[n]]
  /\ items' = items + 1
  /\ UNCHANGED <<structs, cur, classes>>

Define ==
  \/ \E n \in Names : StartLayout(n)
  \/ \E f \in Fields, ty \in Type : LayField(f, ty)
  \/ FinishLayout
  \/ \E n \in Names, ty \in Type : AddTypedef(n, ty)
-----------------------------------------------------------------------------
\* The fields stand one behind the other and end before the end.
Tight(fields, end) ==
  \A i \in DOMAIN fields :
    fields[i].offset + fields[i].size <= IF i = Len(fields) THEN end ELSE fields[i + 1].offset

\* A layout has its fields one behind the other, in a size that is a multiple of its
\* alignment.
LayoutsSound ==
  \A n \in DOMAIN structs :
    /\ Tight(structs[n].fields, structs[n].size)
    /\ structs[n].size % structs[n].align = 0

\* What is left of an alias when all is expanded is a type, but for a cycle of typedefs
\* (of which then a member is left) and for more typedefs than there are steps.
Circular(n) == \E k \in 1 .. Cardinality(DOMAIN typedefs) : After(n, k) = n
AliasesExpanded ==
  \A n \in Names : Resolve(n) \in DOMAIN typedefs =>
    Circular(Resolve(n)) \/ Cardinality(DOMAIN typedefs) > Limit
=============================================================================
