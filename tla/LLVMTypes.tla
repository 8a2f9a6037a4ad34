------------------------------- MODULE LLVMTypes -------------------------------
(***************************************************************************)
(* LLVM types and values, as the lowering to LLVM builds them.  A type is a *)
(* record of kind, dtype, width (or declared alignment), length and         *)
(* elements; a value is the set of the bits it has in memory, each          *)
(* <<bit position, leaf, bit of the leaf>>.                                 *)
(***************************************************************************)
EXTENDS Naturals, Sequences, FiniteSets, SequencesExt

Ty(k, d, w, n, es) == [k |-> k, d |-> d, w |-> w, n |-> n, es |-> es]
IntTy(w)    == Ty("int", "", w, 1, <<>>)
FloatTy(w)  == Ty("float", "", w, 1, <<>>)
PtrTy       == Ty("ptr", "", 0, 1, <<>>)
VecTy(n, e) == Ty("vec", "", 0, n, <<e>>)
ArrTy(n, e) == Ty("arr", "", 0, n, <<e>>)
StructTy(es) == Ty("struct", "", 0, 1, es)
NoTy        == Ty("null", "", 0, 0, <<>>)

Shift(img, by) == {<<b[1] + by, b[2], b[3]>> : b \in img}
================================================================================
