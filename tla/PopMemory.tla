----------------------------- MODULE PopMemory -----------------------------
(* Pointers, loads and stores of the POP dialect: the patterns that rewrite
   them and the handlers that interpret them at compile time
   (src/overlay/Mojo/lib/POPDialect/POPOpsFolders.cpp).

   A program is a short sequence of statements over pointer expressions; each
   memory access is plain, atomic or volatile.  The rewriter applies
   folds and patterns to it in any order.  Interpret runs a program the way the
   interpreter does, on bytes: a stored byte remembers the value it is part of
   and its place in it.                                                      *)
EXTENDS Integers, Sequences, FiniteSets

CONSTANTS Programs,   \* the programs the rewriter starts from
          PtrSize,    \* the bytes of a pointer on the target
          IndexMax    \* the largest index a constant holds

ASSUME SizesAssumption == PtrSize \in Nat \ {0} /\ IndexMax \in Nat

VARIABLES written,       \* the program as written
          prog,       \* the program as rewritten so far
          turn        \* parity of the rewrites done

memoryVars == <<written, prog, turn>>
-----------------------------------------------------------------------------
(* Types and their layout.  "wide" is a type whose store size is not a multiple
   of its alignment.                                                         *)
Ty(k, n, e) == [k |-> k, n |-> n, e |-> e]
IntTy == Ty("int", 0, <<>>)
WideTy == Ty("wide", 0, <<>>)
PointerTo(t) == Ty("ptr", 0, <<t>>)
ArrayOf(n, t) == Ty("array", n, <<t>>)
StructOf(ts) == Ty("struct", 0, ts)
VariantOf(ts) == Ty("variant", 0, ts)

RoundUp(x, a) == ((x + a - 1) \div a) * a
MaxOf(f) == CHOOSE x \in {f[i] : i \in DOMAIN f} : \A i \in DOMAIN f : f[i] <= x

RECURSIVE AllocSize(_), ABIAlign(_)
ABIAlign(t) ==
  CASE t.k = "int" -> 1 [] t.k = "wide" -> 2 [] t.k = "ptr" -> PtrSize
    [] OTHER -> MaxOf([i \in DOMAIN t.e |-> ABIAlign(t.e[i])])
\* The offset of field i of a struct
FieldOffset(t, i) ==
  LET Off[k \in 1..Len(t.e)] ==
        IF k = 1 THEN 0 ELSE RoundUp(Off[k - 1] + AllocSize(t.e[k - 1]), ABIAlign(t.e[k]))
  IN Off[i]
\* The bytes of a variant that its alternatives share; the discriminator follows
ContentSize(t) == MaxOf([i \in DOMAIN t.e |-> AllocSize(t.e[i])])
AllocSize(t) ==
  CASE t.k = "int" -> 1 [] t.k = "wide" -> 4 [] t.k = "ptr" -> PtrSize
    [] t.k = "array" -> t.n * AllocSize(t.e[1])
    [] t.k = "struct" -> RoundUp(FieldOffset(t, Len(t.e)) + AllocSize(t.e[Len(t.e)]), ABIAlign(t))
    [] t.k = "variant" -> RoundUp(ContentSize(t) + 1, ABIAlign(t))
StoreSize(t) == IF t.k = "wide" THEN 3 ELSE AllocSize(t)

(* Pointer expressions.  ty is the type pointed to, i an index; an expression
   whose index is not a constant has known = FALSE.  as is the address space,
   that of the operand unless a bitcast changes it.                          *)
Pointer(op, ty, a, i, known) ==
  [op |-> op, ty |-> ty, a |-> a, i |-> i, known |-> known, n |-> 1,
   as |-> IF a = <<>> THEN 0 ELSE a[1].as]
\* An allocation of n elements of type ty, or the name of a compiler global
Base(op, ty, id, n) == [Pointer(op, ty, <<>>, id, TRUE) EXCEPT !.n = n]
Gep(p, i, known) == Pointer("gep", p.ty.e[1], <<p>>, i, known)
Offset(p, i, known) == Pointer("offset", p.ty, <<p>>, i, known)
BitcastTo(p, ty, as) == [Pointer("bitcast", ty, <<p>>, 0, TRUE) EXCEPT !.as = as]
Bitcast(p, ty) == BitcastTo(p, ty, p.as)
VariantBitcast(p, ty) == Pointer("variant", ty, <<p>>, 0, TRUE)
UnionBitcast(p, ty) == Pointer("union", ty, <<p>>, 0, TRUE)
StructGep(p, i) == Pointer("sgep", p.ty.e[i], <<p>>, i, TRUE)
Discr(p) == Pointer("discr", IntTy, <<p>>, 0, TRUE)

(* Values: one of the program's, an element of a constant, the result of the
   load it replaced, or undefined.                                           *)
Value(op, id, i, ty) == [op |-> op, id |-> id, i |-> i, ty |-> ty]

Statement(op, p, v, plain) == [op |-> op, p |-> p, v |-> v, plain |-> plain]
NoPointer == Base("none", IntTy, 0, 1)
NoValue == Value("none", 0, 0, IntTy)
-----------------------------------------------------------------------------
(* Interpretation of pointers.  An allocation has the bytes of its elements;
   allocations lie a page apart, which satisfies every alignment.            *)
Page == 16
StackAllocSize(count, ty) == count * AllocSize(ty)
GlobalAllocSize(count, ty) == count * AllocSize(ty)
PayloadSize(p) ==
  IF p.op = "global" THEN GlobalAllocSize(p.n, p.ty) ELSE StackAllocSize(p.n, p.ty)

\* VariantDiscrGEPOp::compile: the discriminator lies behind the content.
DiscrOffset(t) == ContentSize(t)
\* OffsetOp strides by the alloc size, as the GEP lowering does.
OffsetBytes(t, i) == i * AllocSize(t)
GepBytes(t, i) == i * AllocSize(t)

RECURSIVE Addr(_)
Addr(p) ==
  CASE p.a = <<>> -> p.i * Page
    [] p.op = "offset" -> Addr(p.a[1]) + OffsetBytes(p.ty, p.i)
    [] p.op = "gep" -> Addr(p.a[1]) + GepBytes(p.ty, p.i)
    [] p.op \in {"bitcast", "variant", "union"} -> Addr(p.a[1])
    [] p.op = "sgep" -> Addr(p.a[1]) + FieldOffset(p.a[1].ty, p.i)
    [] p.op = "discr" -> Addr(p.a[1]) + DiscrOffset(p.a[1].ty)

RECURSIVE BaseOf(_)
BaseOf(p) == IF p.a = <<>> THEN p ELSE BaseOf(p.a[1])

(* Memory.  Constant globals hold their elements from the start, other memory
   what was there.  A byte is <<the value it is part of, its element, its place>>. *)
Memory == 0..(4 * Page - 1)
Untouched(a) == <<-1, a, 0>>
Element(p, a) == LET s == AllocSize(p.ty.e[1])  o == a - p.i * Page IN <<o \div s, (o % s) + 1>>
InitialByte(constants, a) ==
  LET C == {c \in constants : a \in (c.i * Page)..(c.i * Page + PayloadSize(c) - 1)}
  IN IF C = {} THEN Untouched(a)
     ELSE LET c == CHOOSE c \in C : TRUE  e == Element(c, a) IN
          IF e[2] <= StoreSize(c.ty.e[1]) THEN <<-2, c.i * 10 + e[1], e[2]>> ELSE Untouched(a)
ConstElement(c, i) == Value("elem", -2, c.i * 10 + i, c.ty.e[1])
ConstantsOf(pr) == {b \in {BaseOf(pr[k].p) : k \in DOMAIN pr} : b.op = "gconst"}

\* The bytes of a value; those of an undefined value are <<0, 0, 0>>
BytesOf(v) ==
  [k \in 1..StoreSize(v.ty) |->
     CASE v.op = "undef" -> <<0, 0, 0>>
       [] v.op = "whole" -> InitialByte(ConstantsOf(written), v.id * Page + k - 1)
       [] OTHER -> <<v.id, v.i, k>>]

(* Interpretation of a statement s in the state r: memory, what was returned,
   the named compiler globals, and whether interpretation has failed.        *)
Returns(r, bytes) == [r EXCEPT !.out = Append(@, bytes)]
StoreInterpret(r, s) ==
  LET at == Addr(s.p)  b == BytesOf(s.v) IN
  [r EXCEPT !.mem = [a \in Memory |-> IF a \in at..(at + Len(b) - 1) THEN b[a - at + 1] ELSE r.mem[a]]]
LoadInterpret(r, s) == Returns(r, [j \in 1..StoreSize(s.p.ty) |-> r.mem[Addr(s.p) + j - 1]])
FreeInterpret(r, s) ==
  LET at == Addr(s.p) IN
  IF \E b \in r.heap : b.i * Page = at
  THEN [r EXCEPT !.heap = {b \in @ : b.i * Page # at}] ELSE [r EXCEPT !.failed = TRUE]
\* interpreterWrite: what is asked for is written once a pointer's worth of bytes is readable.
Live(r) == r.heap \cup {b \in {BaseOf(written[k].p) : k \in DOMAIN written} :
                           b.op \in {"alloc", "global", "gconst"}}
Readable(r, a, n) == \E b \in Live(r) : a >= b.i * Page /\ a + n <= b.i * Page + PayloadSize(b)
WriteInterpret(r, s) ==
  IF Readable(r, Addr(s.p), PtrSize) THEN Returns(r, [j \in 1..s.v.id |-> r.mem[Addr(s.p) + j - 1]])
  ELSE [r EXCEPT !.failed = TRUE]
\* External calls the interpreter knows; malloc is where a heap allocation comes from.
CallInterpret(r, s) ==
  CASE s.v.op = "free" -> FreeInterpret(r, s)
    [] s.v.op = "write" -> WriteInterpret(r, s)
    [] s.v.op = "GetStackTrace" -> Returns(r, <<<<-4, 0, 0>>>>)
    [] OTHER -> [r EXCEPT !.failed = TRUE]
AddressInterpret(r, s) == Returns(r, <<<<-3, Addr(s.p), 0>>>>)
\* Compiler globals are kept by name; instantiations that share a name may differ in type.
GlobalStoreInterpret(r, s) == [r EXCEPT !.named[s.p.i] = <<s.v>>]
GlobalLoadInterpret(r, s) ==
  IF r.named[s.p.i] = <<>> \/ r.named[s.p.i][1].ty # s.p.ty
  THEN [r EXCEPT !.failed = TRUE] ELSE Returns(r, BytesOf(r.named[s.p.i][1]))

Names == 0..1
Start(pr) ==
  [mem |-> [a \in Memory |-> InitialByte(ConstantsOf(pr), a)], out |-> <<>>,
   heap |-> {b \in {BaseOf(pr[k].p) : k \in DOMAIN pr} : b.op = "heap"},
   named |-> [x \in Names |-> <<>>], failed |-> FALSE]
Interpret(pr) ==
  LET Run[k \in 0..Len(pr)] ==
        IF k = 0 THEN Start(written)
        ELSE LET s == pr[k]  r == Run[k - 1] IN
             CASE r.failed -> r
               [] ~r.failed /\ s.op = "store" -> StoreInterpret(r, s)
               [] ~r.failed /\ s.op = "load" -> LoadInterpret(r, s)
               [] ~r.failed /\ s.op = "value" -> Returns(r, BytesOf(s.v))
               [] ~r.failed /\ s.op = "address" -> AddressInterpret(r, s)
               [] ~r.failed /\ s.op = "free" -> FreeInterpret(r, s)
               [] ~r.failed /\ s.op = "call" -> CallInterpret(r, s)
               [] ~r.failed /\ s.op = "gstore" -> GlobalStoreInterpret(r, s)
               [] ~r.failed /\ s.op = "gload" -> GlobalLoadInterpret(r, s)
  IN Run[Len(pr)]
-----------------------------------------------------------------------------
(* Folds and patterns on pointers: {} where they do not apply.               *)
Provided(p, r) == IF p THEN {r} ELSE {}
RECURSIVE Occurs(_, _)
Occurs(q, p) == p = q \/ (p.a # <<>> /\ Occurs(q, p.a[1]))
\* The value has one use: one statement, and there one expression, reads it.
HasOneUse(q) == Cardinality({k \in DOMAIN prog : Occurs(q, prog[k].p)}) = 1

PointerBitcastFold(p) ==
  Provided(/\ p.op = "bitcast" /\ p.a[1].op = "bitcast"
           /\ p.a[1].a[1].ty = p.ty /\ p.a[1].a[1].as = p.as, p.a[1].a[1])
BitcastOfBitcast(p) ==
  Provided(p.op = "bitcast" /\ p.a[1].op = "bitcast" /\ HasOneUse(p.a[1]), BitcastTo(p.a[1].a[1], p.ty, p.as))
\* Only a cast to address space zero; the gep has the type of the cast.
BitcastOfArray(p) ==
  Provided(/\ p.op = "bitcast" /\ ~(p.a[1].op = "bitcast" /\ HasOneUse(p.a[1]))
       /\ p.a[1].ty.k = "array" /\ p.ty = p.a[1].ty.e[1] /\ p.as = 0,
       [Gep(p.a[1], 0, TRUE) EXCEPT !.as = p.as])
OffsetFold(p) == Provided(p.op = "offset" /\ p.known /\ p.i = 0, p.a[1])
\* Mutant: the index of the element offset from is dropped.
OffsetOfGepAnyIndex(p) == Provided(p.op = "offset" /\ p.a[1].op = "gep", Gep(p.a[1].a[1], p.i, p.known))
OffsetOfGep(p) ==
  Provided(p.op = "offset" /\ p.a[1].op = "gep" /\ p.a[1].known /\ p.a[1].i = 0,
       [Gep(p.a[1].a[1], p.i, p.known) EXCEPT !.as = p.as])
OffsetOfOffset(p) ==
  Provided(/\ p.op = "offset" /\ p.known /\ p.a[1].op = "offset" /\ p.a[1].known
       /\ p.i + p.a[1].i \in (-IndexMax - 1)..IndexMax,
       [Offset(p.a[1].a[1], p.i + p.a[1].i, TRUE) EXCEPT !.as = p.as])
ArrayGEPCanonicalize(p) ==
  Provided(p.op = "gep" /\ p.a[1].ty.n = 1 /\ ~p.known, [Gep(p.a[1], 0, TRUE) EXCEPT !.as = p.as])

(* Folds and patterns on statement k: the statements that take its place.    *)
Plain(s) == s.plain = "plain"
LoadOf(k) == prog[k].op = "load" /\ Plain(prog[k])

\* findValueAt: element i of a constant array, when it is what is loaded
FindValueAt(c, i, ty) == Provided(c.ty.k = "array" /\ i \in 0..(c.ty.n - 1) /\ c.ty.e[1] = ty, ConstElement(c, i))
FoldedLoad(p) ==
  LET q == IF p.a = <<>> THEN p ELSE p.a[1]
      r == IF q.a = <<>> THEN q ELSE q.a[1]
  IN CASE p.op = "gconst" -> {Value("whole", p.i, 0, p.ty)}
       [] p.op = "gep" /\ q.op = "gconst" /\ p.known -> FindValueAt(q, p.i, p.ty)
       [] p.op = "offset" /\ q.op = "bitcast" /\ r.op = "gconst" /\ p.known -> FindValueAt(r, p.i, p.ty)
       [] p.op = "bitcast" /\ q.op = "gconst" -> FindValueAt(q, 0, p.ty)
       [] OTHER -> {}
LoadFold(k) ==
  IF LoadOf(k) THEN {<<Statement("value", NoPointer, v, "plain")>> : v \in FoldedLoad(prog[k].p)} ELSE {}

\* Only the statement just before the load is looked at.
LoadAfterStore(k) ==
  Provided(/\ LoadOf(k) /\ k > 1 /\ prog[k - 1].op = "store"
       /\ prog[k - 1].p = prog[k].p /\ prog[k - 1].plain # "atomic",
       <<Statement("value", NoPointer, prog[k - 1].v, "plain")>>)

\* The pointer to the leading element of type ty, nested as deep as it takes
RECURSIVE Leading(_, _)
Leading(p, ty) ==
  IF p.ty = ty THEN {p} ELSE IF p.ty.k # "struct" \/ p.ty.e = <<>> THEN {} ELSE Leading(StructGep(p, 1), ty)
LoadLeadingElement(k) ==
  LET p == prog[k].p IN
  IF LoadOf(k) /\ p.op = "bitcast" /\ p.a[1].ty.k = "struct" /\ p.a[1].ty # p.ty /\ p.a[1].as = p.as
  THEN {<<[prog[k] EXCEPT !.p = q]>> : q \in Leading(p.a[1], p.ty)} ELSE {}

\* The access is to the pointer before the bitcast; a pointer keeps its bits.
PointersBothSides(p) == p.op = "bitcast" /\ p.ty.k = "ptr" /\ p.a[1].ty.k = "ptr"
LoadOfBitcast(k) ==
  Provided(LoadOf(k) /\ PointersBothSides(prog[k].p) /\ HasOneUse(prog[k].p),
       <<[prog[k] EXCEPT !.p = prog[k].p.a[1]]>>)
StoreToBitcast(k) ==
  Provided(prog[k].op = "store" /\ Plain(prog[k]) /\ PointersBothSides(prog[k].p),
       <<[prog[k] EXCEPT !.p = prog[k].p.a[1], !.v.ty = prog[k].p.a[1].ty]>>)
StoreUndef(k) == Provided(prog[k].op = "store" /\ Plain(prog[k]) /\ prog[k].v.op = "undef", <<>>)
\* AlignedFreeOp and PointerToIndexOp look through a bitcast, PointerToIndexOp only to a pointer.
IsPointer(p) == p.op # "word"
ThroughBitcast(k) ==
  Provided(/\ prog[k].op \in {"free", "address"} /\ prog[k].p.op = "bitcast"
           /\ prog[k].op = "address" => IsPointer(prog[k].p.a[1]),
       <<[prog[k] EXCEPT !.p = prog[k].p.a[1]]>>)
-----------------------------------------------------------------------------
MemoryInit == written \in Programs /\ prog = written /\ turn = 0

\* A rewritten pointer is rewritten in every statement that reads it.
RECURSIVE Substituted(_, _, _)
Substituted(p, q, r) == IF p = q THEN r ELSE IF p.a = <<>> THEN p ELSE [p EXCEPT !.a = <<Substituted(p.a[1], q, r)>>]
RECURSIVE Parts(_)
Parts(p) == {p} \cup (IF p.a = <<>> THEN {} ELSE Parts(p.a[1]))
RewritePointer(F(_)) ==
  /\ \E q \in UNION {Parts(prog[k].p) : k \in DOMAIN prog} : \E r \in F(q) :
       prog' = [k \in DOMAIN prog |-> [prog[k] EXCEPT !.p = Substituted(@, q, r)]]
  /\ turn' = 1 - turn /\ UNCHANGED written
RewriteStatement(F(_)) ==
  /\ \E k \in DOMAIN prog : \E new \in F(k) :
       prog' = SubSeq(prog, 1, k - 1) \o new \o SubSeq(prog, k + 1, Len(prog))
  /\ turn' = 1 - turn /\ UNCHANGED written

FoldBitcast == RewritePointer(PointerBitcastFold)
MergeBitcasts == RewritePointer(BitcastOfBitcast)
BitcastToGep == RewritePointer(BitcastOfArray)
FoldOffset == RewritePointer(OffsetFold)
OffsetToGep == RewritePointer(OffsetOfGep)
MergeOffsets == RewritePointer(OffsetOfOffset)
GepOfOne == RewritePointer(ArrayGEPCanonicalize)
FoldLoad == RewriteStatement(LoadFold)
ForwardStore == RewriteStatement(LoadAfterStore)
LoadLeading == RewriteStatement(LoadLeadingElement)
LoadUncast == RewriteStatement(LoadOfBitcast)
StoreUncast == RewriteStatement(StoreToBitcast)
EraseUndef == RewriteStatement(StoreUndef)
LookThrough == RewriteStatement(ThroughBitcast)

MemoryNext ==
  \/ FoldBitcast \/ MergeBitcasts \/ BitcastToGep \/ FoldOffset \/ OffsetToGep \/ MergeOffsets
  \/ GepOfOne \/ FoldLoad \/ ForwardStore \/ LoadLeading \/ LoadUncast \/ StoreUncast
  \/ EraseUndef \/ LookThrough

MemorySpec == MemoryInit /\ [][MemoryNext]_memoryVars /\ WF_memoryVars(MemoryNext)
-----------------------------------------------------------------------------
SameByte(o, r) == o = <<0, 0, 0>> \/ o = r

\* Two elements of one array, or the content of a variant and its discriminator
Distinct(p, q) ==
  \/ /\ p.op \in {"gep", "offset"} /\ q.op \in {"gep", "offset"} /\ p.ty = q.ty
     /\ BaseOf(p) = BaseOf(q) /\ Len(p.a) = 1 /\ Len(q.a) = 1
     /\ p.a[1] \in {BaseOf(p), Bitcast(BaseOf(p), p.ty)} /\ q.a[1] \in {BaseOf(p), Bitcast(BaseOf(p), p.ty)}
     /\ p.i # q.i
  \/ p.op = "discr" /\ q.op = "variant" /\ q.a = p.a
Span(p) == Addr(p)..(Addr(p) + StoreSize(p.ty) - 1)

ElementsApart ==
  /\ \A j, k \in DOMAIN prog : Distinct(prog[j].p, prog[k].p) => Span(prog[j].p) \cap Span(prog[k].p) = {}
  /\ \A k \in DOMAIN prog : prog[k].op \in {"load", "store"} =>
       LET b == BaseOf(prog[k].p) IN Span(prog[k].p) \subseteq (b.i * Page)..(b.i * Page + PayloadSize(b) - 1)

(* However a program is rewritten, interpreting it at compile time returns what
   the program as written returns and leaves memory as it does; a byte that was
   given an undefined value may hold anything.  Storing to one element of an
   array, through whichever operations it was reached, never touches another,
   nor does storing to the content of a variant touch its discriminator; and
   every access stays inside its allocation.                                 *)
ProgramKept ==
  LET o == Interpret(written)  r == Interpret(prog) IN
  /\ \A a \in Memory : SameByte(o.mem[a], r.mem[a])
  /\ Len(o.out) = Len(r.out) /\ o.failed = r.failed /\ o.heap = r.heap
  /\ \A i \in DOMAIN o.out : /\ Len(o.out[i]) = Len(r.out[i])
                             /\ \A j \in DOMAIN o.out[i] : SameByte(o.out[i][j], r.out[i][j])
  /\ ElementsApart

=============================================================================
