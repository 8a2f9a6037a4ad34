---------------------------- MODULE MCPopMemory ----------------------------
(* The programs TLC starts the rewriter from.                                *)
EXTENDS PopMemory

Arr == Base("alloc", ArrayOf(2, WideTy), 0, 1)
One == Base("alloc", ArrayOf(1, IntTy), 0, 1)
Table == Base("gconst", ArrayOf(3, WideTy), 1, 1)
Pair == Base("alloc", StructOf(<<StructOf(<<IntTy, WideTy>>), IntTy>>), 2, 1)
Slot == Base("heap", PointerTo(IntTy), 2, 1)
Row == Base("alloc", WideTy, 0, 2)
Kept == Base("global", WideTy, 0, 2)
Overlay == Base("alloc", WideTy, 3, 1)
Word == Base("word", IntTy, 1, 1)   \* no pointer: an integer that a bitcast makes one
Either == Base("alloc", VariantOf(<<IntTy, WideTy>>), 3, 1)

Elements(b) == {Gep(b, i, known) : i \in 0..(b.ty.n - 1), known \in BOOLEAN}
Decayed(b) == Bitcast(b, b.ty.e[1])
Walks(b) == {Offset(Decayed(b), i, known) : i \in 0..(b.ty.n - 1), known \in BOOLEAN}
            \cup {Offset(Gep(b, i, TRUE), 1 - i, TRUE) : i \in 0..1}
            \cup {Offset(Offset(Decayed(b), 2, TRUE), -1, TRUE)}
Pointers == {Arr, Pair, Slot, Table, Gep(One, 0, FALSE), Decayed(Arr), Decayed(Table)}
  \cup Elements(Arr) \cup Walks(Arr) \cup Elements(Table) \cup Walks(Table)
  \cup {Bitcast(Pair, IntTy), Bitcast(Pair, Pair.ty.e[1]), StructGep(StructGep(Pair, 1), 2),
        Bitcast(Bitcast(Pair, WideTy), Pair.ty), Bitcast(Bitcast(Pair, WideTy), IntTy),
        BitcastTo(Pair, IntTy, 1), BitcastTo(Bitcast(Pair, WideTy), Pair.ty, 1),
        BitcastTo(Arr, WideTy, 1), BitcastTo(BitcastTo(Arr, Arr.ty, 1), WideTy, 0),
        Offset(BitcastTo(BitcastTo(Arr, Arr.ty, 1), WideTy, 0), 1, TRUE),
        Bitcast(Slot, PointerTo(WideTy)), VariantBitcast(Either, WideTy), Discr(Either),
        UnionBitcast(Overlay, IntTy)}
  \cup {Offset(b, i, TRUE) : b \in {Row, Kept}, i \in 0..1}

Writable == {p \in Pointers : BaseOf(p).op # "gconst"}
\* Of a store and a load, at most one is atomic or volatile.
Accesses == {<<f, "plain">> : f \in {"plain", "atomic", "volatile"}} \cup {<<"plain", g>> : g \in {"atomic", "volatile"}}
Store(p, v, f) == Statement("store", p, Value(v, 1, 0, p.ty), f)
Second(p) == Statement("store", p, Value("val", 2, 0, p.ty), "plain")
Load(p, f) == Statement("load", p, NoValue, f)

MCPrograms ==
  {<<Store(p, v, f[1]), Load(q, f[2])>> : p \in Writable, v \in {"val", "undef"}, q \in Pointers, f \in Accesses}
  \cup {<<Store(p, "val", "plain"), Second(q), Load(p, "plain")>> : p \in Writable, q \in Writable}
  \cup {<<Store(p, "val", "plain"), Store(q, "undef", "plain"), Load(p, "plain")>> : p \in Writable, q \in Writable}
  \cup {<<Store(Slot, "val", "plain"), Statement(op, p, NoValue, "plain"), Load(p, "plain")>> :
          op \in {"free", "address"}, p \in {Slot, Bitcast(Slot, IntTy), Bitcast(Slot, PointerTo(WideTy))}}
  \cup {<<Statement("address", Bitcast(Word, IntTy), NoValue, "plain")>>}
  \cup {<<Second(q), Statement("call", p, Value("write", n, 0, IntTy), "plain"), Statement("free", Slot, NoValue, "plain"),
          Statement("call", p, Value("write", n, 0, IntTy), "plain")>> :
          p \in {Slot, Bitcast(Slot, IntTy), Arr, Decayed(Table), Gep(One, 0, TRUE), Bitcast(Bitcast(Pair, WideTy), IntTy)},
          q \in {Slot, Gep(Arr, 0, TRUE), Bitcast(Pair, IntTy)}, n \in 1..3}
  \cup {<<Statement("call", p, Value(f, 0, 0, IntTy), "plain"), Statement(op, q, NoValue, "plain")>> :
          f \in {"free", "GetStackTrace", "other"}, op \in {"free", "address"},
          p \in {Slot, Bitcast(Slot, IntTy), Arr}, q \in {Slot, Bitcast(Slot, IntTy)}}
  \cup {<<Statement("gstore", Base("name", t, x, 1), Value("val", 1, 0, t), "plain"),
          Statement("gstore", Base("name", u, 1, 1), Value("val", 2, 0, u), "plain"),
          Statement("gload", Base("name", w, 0, 1), NoValue, "plain")>> :
          x \in Names, t \in {IntTy, WideTy}, u \in {IntTy, WideTy}, w \in {IntTy, WideTy}}
=============================================================================
