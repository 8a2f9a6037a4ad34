------------------------------ MODULE TypeLowering ------------------------------
(***************************************************************************)
(* KGEN and POP types and constants lowered to LLVM (LLVMLoweringUtils.cpp).*)
(*                                                                         *)
(* Two layouts meet here.  The KGEN data layout decides where the fields of *)
(* a value are (the compile-time interpreter and size_of use it); the LLVM  *)
(* struct that a type is converted to has a layout of its own.  The         *)
(* converter adds padding fields and picks a union's representative so that *)
(* the two agree, and constants are inserted field by field, a union's by   *)
(* packing its bits.                                                        *)
(***************************************************************************)
EXTENDS StructLayouts

CONSTANTS
  IndexBits,      \* width of the target's index type
  Attributes      \* the constants handed to the lowering

VARIABLES attr, out
typeVars == <<attr, out>>

IndexTy == IntTy(IndexBits)

-----------------------------------------------------------------------------
(* LLVMDataLayout *)

RECURSIVE LLVMLayout(_)
LLVMLayout(t) == LayoutFrom(t, [i \in 1..Len(t.es) |-> LLVMLayout(t.es[i])])

AlignAndScalar(l) == [a |-> l.align, t |-> l.scalar]
getTypeABIAlignAndType(t) == AlignAndScalar(LLVMLayout(t))
getTypeSizeInBits(t) == LLVMLayout(t).bits
ABIAlign(t) == LLVMLayout(t).align
StoreSize(t) == StoreBytes(LLVMLayout(t))
AllocSize(t) == AllocBytes(LLVMLayout(t))

-----------------------------------------------------------------------------
(* The KGEN data layout (DataLayoutInterface), as the converter uses it *)

DTypeBits == [d \in {"bool", "si8", "si16", "si32", "f4", "f6", "f8", "f16", "f32", "index", "address"} |->
                CASE d = "bool" -> 1 [] d = "f4" -> 4 [] d = "f6" -> 6 [] d \in {"si8", "f8"} -> 8 [] d \in {"si16", "f16"} -> 16
                  [] d \in {"si32", "f32"} -> 32 [] d = "index" -> IndexBits [] OTHER -> 8 * PointerBytes]

KLayoutFrom(t, ls, align) ==
  CASE t.k = "simd" -> KL(ScalarAlign(DTypeBits[t.d]), t.n * ((DTypeBits[t.d] + 7) \div 8), <<>>)
    [] t.k = "struct" -> KStruct(ls, align)
    [] t.k = "union" -> KL(align, AlignTo(FoldLeft(LAMBDA m, l : MaxOf(m, l.alloc), 0, ls), align), <<>>)
    [] t.k = "array" -> KL(ls[1].align, t.n * ls[1].alloc, <<>>)
    [] t.k = "dtype" -> KL(1, 1, <<>>)
    [] t.k = "string" -> KL(PointerBytes, AlignTo(PointerBytes + IndexBits \div 8, PointerBytes), <<>>)
    [] t.k = "closure" -> KL(PointerBytes, 2 * PointerBytes, <<>>)
    [] OTHER -> KL(PointerBytes, PointerBytes, <<>>)

RECURSIVE KLayout(_)
KLayout(t) ==
  LET ls == [i \in 1..Len(t.es) |-> KLayout(t.es[i])]
  IN  KLayoutFrom(t, ls, FoldLeft(LAMBDA m, l : MaxOf(m, l.align), MaxOf(t.w, 1), ls))

KAlign(t) == KLayout(t).align
KAlloc(t) == KLayout(t).alloc

-----------------------------------------------------------------------------
(* Type conversion *)

\* Floats of four, six and eight bits become integers of that width.
isFPTyLoweredAsInt(d) == d \in {"f4", "f6", "f8"}

getMLIRTypeForDType(d) ==
  CASE d = "bool" -> IntTy(1)
    [] d = "address" -> PtrTy
    [] d = "index" -> IndexTy
    [] d \in {"si8", "si16", "si32"} -> IntTy(DTypeBits[d])
    [] OTHER -> IF isFPTyLoweredAsInt(d) THEN IntTy(DTypeBits[d]) ELSE FloatTy(DTypeBits[d])

getLLVMTypeForKGENStringType == StructTy(<<PtrTy, IndexTy>>)

\* Whether a type's value fills its own storage, so that it can carry the
\* bits of the other members of a union.
isSafeUnionReprTypeAny(t) == TRUE
isSafeUnionReprType(t) == getTypeSizeInBits(t) = 8 * StoreSize(t)

\* A union member is paired with the type it converts to: [k, l].
getUnionPayloadSize(members) ==
  FoldLeft(LAMBDA m, u : MaxOf(m, MaxOf(AllocSize(u.l), KAlloc(u.k))), 0, members)

\* The most aligned safe candidate of the members, or i8, widened to an
\* integer of the union's alignment where that integer is so aligned.
Widened(repr, wide, align) == IF align > ABIAlign(repr) /\ ABIAlign(wide) >= align THEN wide ELSE repr
getUnionReprType(align, members) ==
  LET Better(p, c) == IF c.t # NoTy /\ isSafeUnionReprType(c.t) /\ c.a >= p.a THEN c ELSE p
      Next(p, u) == Better(p, getTypeABIAlignAndType(u.l))
      best == FoldLeft(Next, [a |-> 1, t |-> IntTy(8)], members)
  IN  Widened(best.t, IntTy(8 * align), align)

\* A struct's fields, which convert to the LLVM types ls.
FieldsOf(t, ls) == [i \in 1..Len(ls) |-> [t |-> ls[i], l |-> LLVMLayout(ls[i]), k |-> KLayout(t.es[i])]]
StructLowered(t, ls) ==
  LET es == PaddedStruct(StructFields(FieldsOf(t, ls)), KAlign(t)) IN StructTy([i \in 1..Len(es) |-> es[i].t])

\* The representative and the bytes that it does not cover.
UnionOf(repr, payload) ==
  LET tail == payload - AllocSize(repr)
  IN  IF payload = 0 THEN StructTy(<<>>)
      ELSE StructTy(<<repr>> \o IF tail = 0 THEN <<>> ELSE <<ArrTy(tail, IntTy(8))>>)
UnionLowered(t, members) == UnionOf(getUnionReprType(KAlign(t), members), getUnionPayloadSize(members))

\* A type that is not resolved, or has an element that is not, has no LLVM type.
Unconvertible(t, ls) == t.k = "unresolved" \/ \E i \in 1..Len(ls) : ls[i] = NoTy
ConvertedFrom(t, ls) ==
  CASE Unconvertible(t, ls) -> NoTy
    [] t.k \in {"none", "never"} -> StructTy(<<>>)
    [] t.k = "string" -> getLLVMTypeForKGENStringType
    [] t.k = "closure" -> StructTy(<<PtrTy, PtrTy>>)
    [] t.k \in {"func", "pointer", "coroutine"} -> PtrTy
    [] t.k = "dtype" -> IntTy(8)
    [] t.k = "array" -> ArrTy(t.n, ls[1])
    [] t.k = "simd" -> IF t.n = 1 THEN getMLIRTypeForDType(t.d) ELSE VecTy(t.n, getMLIRTypeForDType(t.d))
    [] t.k = "struct" -> StructLowered(t, ls)
    [] t.k = "union" -> UnionLowered(t, [i \in 1..Len(ls) |-> [k |-> t.es[i], l |-> ls[i]]])

RECURSIVE convertType(_)
convertType(t) == ConvertedFrom(t, [i \in 1..Len(t.es) |-> convertType(t.es[i])])

\* The LLVM field that holds each logical field.
getRemappedFieldIndex(t) == StructFields(FieldsOf(t, [j \in 1..Len(t.es) |-> convertType(t.es[j])])).idx

-----------------------------------------------------------------------------
(* Values: the bits a value of an LLVM type has in memory *)

Undef(t) == [ok |-> TRUE, t |-> t, img |-> {}]
Failed == [ok |-> FALSE, t |-> NoTy, img |-> {}]
Leaf(t, tag) == [ok |-> TRUE, t |-> t, img |-> {<<b, tag, b>> : b \in 0..getTypeSizeInBits(t) - 1}]

\* Bit position of element i of an LLVM aggregate.
ElementBit(t, i) ==
  CASE t.k = "struct" -> 8 * LLVMLayout(t).at[i]
    [] t.k = "arr" -> 8 * (i - 1) * AllocSize(t.es[1])
    [] t.k = "vec" -> (i - 1) * getTypeSizeInBits(t.es[1])

InsertValue(agg, v, i) == [agg EXCEPT !.img = @ \cup Shift(v.img, ElementBit(agg.t, i))]

-----------------------------------------------------------------------------
(* VariantHelper: a member packed into the storage of a union.  The walk   *)
(* keeps the storage cell, the offset in it, the offset in the layout and   *)
(* the bits put so far.                                                     *)

advanceStoragePtr(st, widths, amt) ==
  LET by == MinOf(amt, widths[st.it] - st.so)
  IN  IF st.so + by = widths[st.it] THEN [st EXCEPT !.it = @ + 1, !.so = 0, !.off = @ + by]
                                    ELSE [st EXCEPT !.so = @ + by, !.off = @ + by]

\* Padding runs over the cells; past the last one the walk is out of bounds.
RECURSIVE Pad(_, _, _)
Pad(st, widths, amt) ==
  CASE amt = 0 -> st
    [] amt > 0 /\ st.it > Len(widths) -> [st EXCEPT !.bad = TRUE]
    [] OTHER -> LET n == advanceStoragePtr(st, widths, amt) IN Pad(n, widths, amt - (n.off - st.off))

addStoragePadding(st, widths, align) == Pad(st, widths, AlignTo(st.off, 8 * align) - st.off)

\* The bits of a leaf go into the cells it spans: shifted down past what is
\* stored, cut or extended to the cell, shifted up to the free bits, or-ed in.
RECURSIVE PutLeaf(_, _, _, _)
PutLeaf(st, widths, bits, size) ==
  LET done == size[1]  all == size[2]
      room == widths[st.it] - st.so
      now == {b \in bits : b[1] >= done /\ b[1] < done + room}
      n == advanceStoragePtr(st, widths, all - done)
  IN  CASE done = all -> st
        [] done < all /\ st.it > Len(widths) -> [st EXCEPT !.bad = TRUE]
        [] OTHER -> PutLeaf([n EXCEPT !.cells[st.it] = @ \cup {<<b[1] - done + st.so, b[2], b[3]>> : b \in now}],
                            widths, bits, <<done + (n.off - st.off), all>>)

RECURSIVE walkAndCreateVariant(_, _, _, _, _)
walkAndCreateVariant(st, widths, t, img, base) ==
  LET s == addStoragePadding(st, widths, ABIAlign(t))
      bits == getTypeSizeInBits(t)
      elt(i) == IF t.k = "struct" THEN t.es[i] ELSE t.es[1]
      n == IF t.k = "struct" THEN Len(t.es) ELSE t.n
  IN  IF s.bad THEN s
      ELSE IF t.k \in {"int", "float", "ptr"}
      THEN PutLeaf(s, widths, {<<b[1] - base, b[2], b[3]>> : b \in {c \in img : c[1] >= base /\ c[1] < base + bits}},
                   <<0, bits>>)
      ELSE FoldLeft(LAMBDA a, i : walkAndCreateVariant(a, widths, elt(i), img, base + ElementBit(t, i)),
                    s, [i \in 1..n |-> i])

\* The cells: the representative, then one for each byte of the tail.
CellWidths(u) ==
  <<getTypeSizeInBits(u.es[1])>> \o IF Len(u.es) = 2 THEN [i \in 1..u.es[2].n |-> 8] ELSE <<>>
CellsImage(u, cells) ==
  UNION {Shift(cells[i], IF i = 1 THEN 0 ELSE ElementBit(u, 2) + 8 * (i - 2)) : i \in 1..Len(cells)}
Packed(widths, v) ==
  walkAndCreateVariant([it |-> 1, so |-> 0, off |-> 0, bad |-> FALSE, cells |-> [i \in 1..Len(widths) |-> {}]],
                       widths, v.t, v.img, 0)
Stored(u, st) == IF st.bad THEN Failed ELSE [ok |-> TRUE, t |-> u, img |-> CellsImage(u, st.cells)]
materializeLLVMUnion(u, v) == IF u.es = <<>> THEN Undef(u) ELSE Stored(u, Packed(CellWidths(u), v))

-----------------------------------------------------------------------------
(* Constants.  An attribute is [k, t, vs, es]: kind, KGEN type, leaf tags    *)
(* and nested attributes.                                                   *)

\* An address is written as an integer of the index type, which keeps its low
\* bits, and IntToPtr puts zeros above them.
FromIndex(t, tag) ==
  [Leaf(t, tag) EXCEPT !.img = {b \in @ : b[1] < IndexBits} \cup {<<b, 0, 0>> : b \in IndexBits..8 * PointerBytes - 1}]
convertSIMDAttr(a, t, e) ==
  LET Element(i) == IF a.t.d = "address" THEN FromIndex(e, a.vs[i]) ELSE Leaf(e, a.vs[i])
  IN  IF Len(a.vs) = 1 THEN Element(1)
      ELSE FoldLeft(LAMBDA agg, i : InsertValue(agg, Element(i), i), Undef(t), [i \in 1..Len(a.vs) |-> i])

lowerStringToGlobalConstant(a) ==
  InsertValue(InsertValue(Undef(getLLVMTypeForKGENStringType), Leaf(PtrTy, a.vs[1]), 1), Leaf(IndexTy, a.vs[2]), 2)

\* Elements are lowered in order and inserted at the index the layout gives
\* them; the first error is the result.
Aggregate(t, vs, idx) ==
  LET Add(agg, i) == IF agg.ok /\ vs[i].ok THEN InsertValue(agg, vs[i], idx[i]) ELSE Failed
  IN  FoldLeft(Add, Undef(t), [i \in 1..Len(vs) |-> i])

\* An attribute as a value of its LLVM type t, its elements lowered to vs.
ParameterValue(a, t, vs) ==
  CASE t = NoTy -> Failed                  \* unknown type
    [] a.k \in {"uninit", "none"} -> Undef(t)
    [] a.k \in {"int", "float", "dtype", "function"} -> Leaf(t, a.vs[1])
    [] a.k = "pointer" -> FromIndex(t, a.vs[1])
    [] a.k = "store" -> IF vs[1].ok THEN Leaf(PtrTy, a.vs[1]) ELSE Failed
    [] a.k = "string" -> lowerStringToGlobalConstant(a)
    [] a.k = "simd" -> convertSIMDAttr(a, t, getMLIRTypeForDType(a.t.d))
    [] a.k \in {"array", "struct"} ->
         Aggregate(t, vs, IF a.k = "array" THEN [i \in 1..Len(vs) |-> i] ELSE getRemappedFieldIndex(a.t))
    [] a.k = "union" -> IF vs[1].ok THEN materializeLLVMUnion(t, vs[1]) ELSE Failed
    [] OTHER -> Failed     \* capturing closures, unfolded parameters, strings without a memory model

RECURSIVE convertParameterToLLVM(_)
convertParameterToLLVM(a) ==
  ParameterValue(a, convertType(a.t), [i \in 1..Len(a.es) |-> convertParameterToLLVM(a.es[i])])

-----------------------------------------------------------------------------
(* The interpreter's image of the constant: the reference *)

\* The images of the elements are es, where the KGEN layout l puts them.
ImageFrom(a, es, l) ==
  CASE a.k \in {"uninit", "none"} -> {}
    [] a.k = "simd" -> UNION {Shift(Leaf(getMLIRTypeForDType(a.t.d), a.vs[i]).img,
                                    8 * (i - 1) * ((DTypeBits[a.t.d] + 7) \div 8)) : i \in 1..Len(a.vs)}
    [] a.k = "string" -> Leaf(PtrTy, a.vs[1]).img \cup Shift(Leaf(IndexTy, a.vs[2]).img, 8 * PointerBytes)
    [] a.k = "array" -> UNION {Shift(es[i], 8 * (i - 1) * (l.alloc \div a.t.n)) : i \in 1..Len(es)}
    [] a.k = "struct" -> UNION {Shift(es[i], 8 * l.at[i]) : i \in 1..Len(es)}
    [] a.k = "union" -> es[1]
    [] OTHER -> Leaf(convertType(a.t), a.vs[1]).img

RECURSIVE Image(_)
Image(a) == ImageFrom(a, [i \in 1..Len(a.es) |-> Image(a.es[i])], KLayout(a.t))

\* What has a runtime value and a type with an LLVM type.
RECURSIVE Resolved(_)
Resolved(t) == t.k # "unresolved" /\ \A i \in 1..Len(t.es) : Resolved(t.es[i])
RECURSIVE Lowerable(_)
Lowerable(a) ==
  a.k \notin {"closure", "param", "bareString"} /\ Resolved(a.t) /\ \A i \in 1..Len(a.es) : Lowerable(a.es[i])

TypeInit == attr \in Attributes /\ out = [done |-> FALSE, r |-> Failed]
LowerConstant ==
  /\ ~out.done
  /\ out' = [done |-> TRUE, r |-> convertParameterToLLVM(attr)]
  /\ UNCHANGED attr

\* A vector of elements that do not fill their bytes: LLVM packs them, KGEN
\* gives each its bytes.
RECURSIVE HasPacked(_)
HasPacked(t) == (t.k = "simd" /\ t.n > 1 /\ DTypeBits[t.d] % 8 # 0) \/ \E i \in 1..Len(t.es) : HasPacked(t.es[i])

\* A lowered constant has, bit for bit and in size, the memory image that the
\* compile-time interpreter's layout gives it: padding fields move no value,
\* a union's packed bits are where its member is read, and only attributes
\* without a runtime value or a known type are refused.  Of a vector that LLVM
\* packs closer than KGEN this is asked inside a union, which is as large as its
\* largest member in either layout and has each lane at KGEN's byte (convertParameterToLLVM, the struct and union conversions,
\* getUnionPayloadSize, VariantHelper).
ImageKept ==
  out.done =>
    IF Lowerable(attr)
    THEN /\ out.r.ok
         /\ ~HasPacked(attr.t) =>
              /\ out.r.img = Image(attr)
              /\ attr.t.k \in {"struct", "union", "array", "simd"} => AllocSize(out.r.t) = KAlloc(attr.t)
         /\ attr.t.k = "union" => AllocSize(out.r.t) = KAlloc(attr.t) /\ (attr.es[1].k = "simd" => out.r.img = Image(attr))
    ELSE ~out.r.ok
=============================================================================
