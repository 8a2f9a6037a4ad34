----------------------------- MODULE MCPopFold -----------------------------
(* The terms and targets TLC starts the rewriter from.                       *)
EXTENDS PopFold, MCPopMemory

CONSTANT Floats   \* the float formats casts go through

F32 == Float(4, 3, 3)
F16 == Float(3, 3, 1)
BF16 == Float(3, 2, 2)
OneFormatPerWidth == {F32, F16}
TwoFormatsOfOneWidth == {F32, F16, BF16}

Little == [known |-> TRUE, index |-> 2, little |-> TRUE]
Big == [known |-> TRUE, index |-> 3, little |-> FALSE]
NoTarget == [known |-> FALSE, index |-> 2, little |-> TRUE]
MCTargets == {Little, Big, NoTarget}

Types == {<<UI(2), 2>>, <<SI(2), 1>>, <<UIndex, 1>>}
VecConsts == {<<0, 0>>, <<1, 1>>, <<3, 3>>, <<0, 1>>, <<1, 2>>, <<2, 1>>}
ConstsOf(ty) == {Const(ty[1], v) : v \in IF ty[2] = 2 THEN VecConsts ELSE {<<b>> : b \in 0..3}}
VarsOfType(ty) == {Var(1, ty[1], ty[2]), Var(2, ty[1], ty[2])}
Leaves(ty) == VarsOfType(ty) \cup ConstsOf(ty)

BinaryTerms == UNION {{Op(op, ty[1], ty[2], <<a, b>>) :
    op \in Binary \ {"and", "or", "xor", "cmp"}, a \in Leaves(ty), b \in Leaves(ty)} : ty \in Types}
UnaryTerms == UNION {{Op(op, ty[1], ty[2], <<a>>) : op \in Unary, a \in Leaves(ty)} : ty \in Types}
FMATerms == {Op("fma", SI(2), 1, <<a, b, c>>) :
    a \in Leaves(<<SI(2), 1>>), b \in ConstsOf(<<SI(2), 1>>), c \in ConstsOf(<<SI(2), 1>>)}

\* (a op c) op d, of unknown booleans and of vectors
BoolTy == <<Bool, 1>>
BoolLeaves == VarsOfType(BoolTy) \cup {Const(Bool, <<0>>), Const(Bool, <<1>>)}
BoolTerms == {Op(op, Bool, 1, <<a, b>>) : op \in {"and", "or", "xor", "sxor", "cmp"},
                                          a \in BoolLeaves, b \in BoolLeaves}
NestedXOr == {Op(op, Bool, 1, <<Op(op, Bool, 1, <<a, b>>), c>>) :
                op \in {"xor", "sxor"}, a \in BoolLeaves, b \in BoolLeaves, c \in BoolLeaves}
             \cup {Op("sxor", UI(2), 2, <<Op("sxor", UI(2), 2, <<a, b>>), c>>) :
                a \in VarsOfType(<<UI(2), 2>>), b \in ConstsOf(<<UI(2), 2>>), c \in ConstsOf(<<UI(2), 2>>)}

CastTypes == {SI(2), UI(2), SI(3), UI(3), SI(4), UI(4), Index, UIndex, Bool} \cup Floats
CastTerms == {Op("cast", T3, 1, <<Op("cast", T2, 1, <<Var(1, T1, 1)>>)>>) :
                T1 \in CastTypes, T2 \in CastTypes, T3 \in CastTypes}
             \cup {Op("cast", T, 1, <<Const(UI(3), <<v>>)>>) : T \in CastTypes, v \in 0..7}

BitTypes == {<<UI(4), 1>>, <<UI(2), 2>>, <<Bool, 4>>, <<SI(2), 2>>, <<UI(1), 4>>}
BitLanes(ty) == IF ty[1] = Bool THEN 0..1 ELSE 0..(2^ty[1].w - 1)
BitcastTerms == UNION {{Op("bitcast", out[1], out[2], <<Const(in[1], v)>>) :
                  v \in [1..in[2] -> BitLanes(in)]} : in \in BitTypes, out \in BitTypes}

Vec == <<UI(2), 2>>
VecLeaves == {Var(1, UI(2), 2)} \cup ConstsOf(Vec)
Scalars == {Var(2, UI(2), 1), Var(3, UI(2), 1)} \cup ConstsOf(<<UI(2), 1>>)
VecTerms ==
  {OpAt("extract", UI(2), 1, <<a>>, p) : a \in VecLeaves \cup Scalars, p \in {<<>>, <<1>>}}
  \cup {OpAt("insert", UI(2), 2, <<a, b>>, p) : a \in VecLeaves \cup {Undef(UI(2), 2)},
                                                b \in Scalars, p \in {<<>>, <<1>>, <<2>>}}
  \cup {OpAt("shuffle", UI(2), 2, <<a, b>>, p) : a \in VecLeaves, b \in {Const(UI(2), <<1, 2>>)},
                                                 p \in {<<1, 4>>, <<3, 2>>}}
  \cup {Op("splat", UI(2), n, <<a>>) : n \in 1..3, a \in Scalars}

Conds(n) == {Var(3, Bool, n)} \cup {Const(Bool, v) : v \in [1..n -> 0..1]}
BoolVec == {Var(1, Bool, 2)} \cup {Const(Bool, v) : v \in [1..2 -> 0..1]}
SIMDSelectTerms ==
  {Op("sselect", UI(2), 2, <<c, a, b>>) : c \in Conds(2), a \in VarsOfType(Vec) \cup {Const(UI(2), <<1, 2>>)},
                                          b \in VarsOfType(Vec) \cup {Const(UI(2), <<2, 2>>)}}
  \cup {Op("sselect", Bool, 2, <<c, a, b>>) : c \in Conds(2), a \in BoolVec, b \in BoolVec}

Branch == BoolLeaves \cup {Undef(Bool, 1)}
Cond1 == Conds(1) \cup {Var(1, Bool, 1)}
Selects(T) == {Op("select", Bool, 1, <<c, a, b>>) : c \in Cond1, a \in T, b \in T}
SomeSelects == Selects({Var(1, Bool, 1), Const(Bool, <<0>>)})
SelectTerms ==
  Selects(Branch)
  \cup {Op("select", Bool, 1, <<c, s, b>>) : c \in Cond1, s \in SomeSelects, b \in Branch}
  \cup {Op("select", Bool, 1, <<c, a, s>>) : c \in Cond1, s \in SomeSelects, a \in Branch}
  \cup {Op("select", Bool, 1, <<c, s, r>>) : c \in Cond1, s \in SomeSelects, r \in SomeSelects}

Arrays == {Op("create", UI(2), 2, <<a, b>>) : a \in Scalars, b \in Scalars}
          \cup {Op("repeat", UI(2), 3, <<a, b>>) : a \in Scalars, b \in Scalars}
          \cup ConstsOf(Vec) \cup {Var(1, UI(2), 2), Undef(UI(2), 2)}
Replaced == {OpAt("areplace", UI(2), 2, <<arr, a>>, <<i>>) :
               arr \in {r \in Arrays : r.n = 2 /\ r.op \in {"create", "const", "var"}}, a \in Scalars, i \in 1..2}
ArrayTerms == {OpAt("aget", UI(2), 1, <<arr>>, p) : arr \in Arrays, p \in {<<1>>, <<2>>, <<3>>}}
              \cup Replaced
              \cup {OpAt("aget", UI(2), 1, <<r>>, <<1>>) : r \in Replaced}

\* There and back, through types that are and are not the same
Undo(there, back, out, mid, in) ==
  {Op(back, o, 1, <<Op(there, mid, 1, <<x>>)>>) : o \in out, x \in {Var(1, in, 1), Const(in, <<1>>)}}
RoundTrips == Undo("frombuiltin", "tobuiltin", {Builtin(2)}, UI(2), Builtin(2))
              \cup Undo("tobuiltin", "frombuiltin", {UI(2), SI(2)}, Builtin(2), UI(2))
              \cup Undo("unwrap", "wrap", {UnionTy(2)}, UI(2), UnionTy(2))
              \cup Undo("wrap", "unwrap", {UI(2), SI(2)}, UnionTy(2), UI(2))

MCTerms == BinaryTerms \cup UnaryTerms \cup FMATerms \cup BoolTerms \cup NestedXOr \cup CastTerms
           \cup BitcastTerms \cup VecTerms \cup SIMDSelectTerms \cup SelectTerms \cup ArrayTerms
           \cup RoundTrips

\* Either a term is rewritten or a program, the other one is at rest.
VARIABLE job
Resting == Var(1, Bool, 1)
MCInit == \/ job = "terms" /\ Init /\ written = <<>> /\ prog = <<>> /\ turn = 0
          \/ job = "programs" /\ MemoryInit /\ tgt = NoTarget /\ orig = Resting /\ term = Resting /\ parity = 0
MCNext == \/ job = "terms" /\ Next /\ UNCHANGED <<job, memoryVars>>
          \/ job = "programs" /\ MemoryNext /\ UNCHANGED <<job, vars>>
\* The greedy driver goes on while a pattern applies.
MCSpec == MCInit /\ [][MCNext]_<<job, vars, memoryVars>> /\ WF_<<job, vars, memoryVars>>(MCNext)

(* The patterns do not feed one another for ever, and none goes on succeeding
   without changing anything: every term and every program reaches a form that
   nothing rewrites.                                                         *)
Settles == <>[][FALSE]_<<vars, memoryVars>>
=============================================================================
