----------------------------- MODULE StructLayouts -----------------------------
(***************************************************************************)
(* Where the fields of a struct are.  KGEN's data layout and that of the   *)
(* LLVM struct it is converted to put them one after the other, each by    *)
(* its own sizes and alignments; the conversion adds padding fields where  *)
(* KGEN's alignment is the stricter one (LLVMDataLayout and the struct      *)
(* conversion of LLVMLoweringUtils.cpp).                                    *)
(***************************************************************************)
EXTENDS LLVMTypes

CONSTANTS
  PointerBytes,   \* size and alignment of a pointer
  StructAlign,    \* the data layout's ABI alignment of aggregates
  MaxIntAlign     \* the data layout's largest integer alignment, in bytes

ASSUME DataLayoutAssumption == StructAlign \in Nat \ {0} /\ MaxIntAlign \in Nat \ {0}

AlignTo(x, a) == ((x + a - 1) \div a) * a
MaxOf(a, b) == IF a >= b THEN a ELSE b
MinOf(a, b) == IF a <= b THEN a ELSE b

\* Values one after the other, each aligned: [align, size, t] each, t being
\* the scalar that is so aligned.  The offsets, the end, the strictest
\* alignment and, of equally aligned ones, the last scalar.
NoFields == [at |-> <<>>, end |-> 0, a |-> 1, t |-> NoTy]
AddField(acc, m) ==
  LET at == AlignTo(acc.end, m.align)
  IN  [at |-> Append(acc.at, at), end |-> at + m.size, a |-> MaxOf(acc.a, m.align),
       t |-> IF m.align >= acc.a THEN m.t ELSE acc.t]
InOrder(ms) ==
  LET upto[i \in 0..Len(ms)] == IF i = 0 THEN NoFields ELSE AddField(upto[i - 1], ms[i])
  IN  upto[Len(ms)]

-----------------------------------------------------------------------------
(* LLVMDataLayout *)

\* The alignment LLVM's data layout gives an integer or a float: its bytes
\* rounded up to a power of two, up to the largest the target knows.
ScalarAlign(bits) ==
  LET bytes == (bits + 7) \div 8
      p == CHOOSE q \in {1, 2, 4, 8, 16, 32} : q >= bytes /\ \A r \in {1, 2, 4, 8, 16, 32} : r >= bytes => q <= r
  IN  MinOf(p, MaxIntAlign)

\* LLVM's layout of a type: its size in bits, its ABI alignment, the scalar
\* inside it that is so aligned, and the byte offsets of a struct's fields,
\* each aligned and taking its allocation size.
LayoutOf(bits, align, scalar, at) == [bits |-> bits, align |-> align, scalar |-> scalar, at |-> at]
StoreBytes(l) == (l.bits + 7) \div 8
AllocBytes(l) == AlignTo(StoreBytes(l), l.align)

Slot(l) == [align |-> l.align, size |-> AllocBytes(l), t |-> l.scalar]
StructLayout(ls) ==
  LET s == InOrder([i \in 1..Len(ls) |-> Slot(ls[i])])
  IN  LayoutOf(8 * AlignTo(s.end, s.a), MaxOf(s.a, StructAlign), s.t, s.at)

LayoutFrom(t, ls) ==
  CASE t.k \in {"int", "float"} -> LayoutOf(t.w, ScalarAlign(t.w), t, <<>>)
    [] t.k = "ptr" -> LayoutOf(8 * PointerBytes, PointerBytes, t, <<>>)
    [] t.k = "vec" -> [ls[1] EXCEPT !.bits = t.n * @, !.at = <<>>]
    [] t.k = "arr" -> [ls[1] EXCEPT !.bits = t.n * StoreBytes(ls[1]) * 8, !.at = <<>>]
    [] t.k = "struct" -> StructLayout(ls)

-----------------------------------------------------------------------------
(* KGEN's data layout of a struct with the alignment align, its own and that *)
(* of its fields included.                                                  *)

KL(align, size, at) == [align |-> align, alloc |-> size, at |-> at]
KSlot(k) == [align |-> k.align, size |-> k.alloc, t |-> NoTy]
KStruct(ks, align) ==
  LET s == InOrder([i \in 1..Len(ks) |-> KSlot(ks[i])])
  IN  KL(align, AlignTo(s.end, align), s.at)

-----------------------------------------------------------------------------
(* The conversion.  A field is its LLVM type and layout with KGEN's layout of *)
(* it: [t, l, k]; a field of the LLVM struct is [t, l].                       *)

Field(t, l) == [t |-> t, l |-> l]
Padding(n) == Field(ArrTy(n, IntTy(8)), LayoutFrom(ArrTy(n, IntTy(8)), <<LayoutFrom(IntTy(8), <<>>)>>))

\* The fields of the LLVM struct so far, the cache from logical to LLVM field
\* index and the offset reached; padding goes before a field whose KGEN offset
\* is past the one LLVM would give it.
NoTypes == [es |-> <<>>, idx |-> <<>>, offset |-> 0]
AddType(acc, f) ==
  LET kgenOffset == AlignTo(acc.offset, f.k.align)
      es == IF kgenOffset > AlignTo(acc.offset, f.l.align)
            THEN Append(acc.es, Padding(kgenOffset - acc.offset)) ELSE acc.es
  IN  [es |-> Append(es, Field(f.t, f.l)), idx |-> Append(acc.idx, Len(es) + 1),
       offset |-> kgenOffset + f.k.alloc]
StructFields(fs) ==
  LET upto[i \in 0..Len(fs)] == IF i = 0 THEN NoTypes ELSE AddType(upto[i - 1], fs[i])
  IN  upto[Len(fs)]

\* Padding after the last, if LLVM would not add it by itself.
LayoutsOf(es) == [i \in 1..Len(es) |-> es[i].l]
PaddedStruct(s, align) ==
  LET kgenOffset == AlignTo(s.offset, align)
  IN  IF kgenOffset > AlignTo(s.offset, StructLayout(LayoutsOf(s.es)).align)
      THEN Append(s.es, Padding(kgenOffset - s.offset)) ELSE s.es
-----------------------------------------------------------------------------
\* A field of which KGEN's layout asks for at least the alignment that LLVM
\* gives it, and which takes the same room in both.
FieldFits(f, A) ==
  /\ f.l.align \in A /\ f.k.align \in A /\ f.l.align <= f.k.align
  /\ f.k.alloc \in Nat /\ AllocBytes(f.l) = f.k.alloc
================================================================================
