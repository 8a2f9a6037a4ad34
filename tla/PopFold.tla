------------------------------ MODULE PopFold ------------------------------
(* The folders and canonicalization patterns of the POP dialect on values:
   arithmetic, bits, casts, bitcasts, SIMD, selects and arrays
   (src/overlay/Mojo/lib/POPDialect/POPOpsFolders.cpp).

   A term is an operation with its operands; a leaf is a constant, an undefined
   constant or an SSA value nobody knows ("var").  The rewriter starts from any
   term of Terms and applies folds and patterns, at the root or at an operand,
   in any order, until none applies.  Eval says what an operation computes: the
   set of its possible results, every value of the type where the operation is
   undefined.  A bit pattern is a natural number, a float the integer it stands
   for in units of the smallest step.                                        *)
EXTENDS Integers, Sequences, FiniteSets, TLC, Bitwise

CONSTANTS
  Targets,  \* the targets: [known, index, little]
  Terms     \* the terms the rewriter starts from

VARIABLES
  tgt,      \* the target of the compilation; known: lookupTargetInfo finds it
  orig,     \* the term as written
  term,     \* the term as rewritten so far
  parity    \* of the rewrites done: one that changes nothing is a step too

vars == <<tgt, orig, term, parity>>
-----------------------------------------------------------------------------
(* Data types.  A float type has p bits of precision and emax exponents.     *)
SI(w) == [k |-> "si", w |-> w, p |-> 0, emax |-> 0]
UI(w) == [k |-> "ui", w |-> w, p |-> 0, emax |-> 0]
Index == [k |-> "index", w |-> -1, p |-> 0, emax |-> 0]
UIndex == [k |-> "uindex", w |-> -1, p |-> 0, emax |-> 0]
Bool == [k |-> "bool", w |-> 8, p |-> 0, emax |-> 0]
Builtin(w) == [k |-> "builtin", w |-> w, p |-> 0, emax |-> 0]
UnionTy(w) == [k |-> "union", w |-> w, p |-> 0, emax |-> 0]
Float(w, p, emax) == [k |-> "float", w |-> w, p |-> p, emax |-> emax]

IsIndex(dt) == dt.k \in {"index", "uindex"}
IsIntLike(dt) == dt.k \in {"si", "ui", "index", "uindex"}
IsInt(dt) == dt.k \in {"si", "ui"}
IsSInt(dt) == dt.k \in {"si", "index"}
IsUInt(dt) == dt.k \in {"ui", "uindex"}
IsFloat(dt) == dt.k = "float"

\* The bits of a value of type dt on the target
Bits(dt) == IF dt.k = "bool" THEN 1 ELSE IF IsIndex(dt) THEN tgt.index ELSE dt.w

Infinity == 1000
Representable(dt) == {m * 2^e : m \in 0..(2^dt.p - 1), e \in 0..dt.emax}
LaneVals(dt) == IF IsFloat(dt) THEN Representable(dt) \cup {Infinity} ELSE 0..(2^Bits(dt) - 1)
Vals(dt, n) == [1..n -> LaneVals(dt)]

\* The number a bit pattern stands for
Num(v, dt) == IF IsSInt(dt) /\ v >= 2^(Bits(dt) - 1) THEN v - 2^Bits(dt) ELSE v

Dist(a, b) == IF a < b THEN b - a ELSE a - b
Round(x, dt) ==
  LET R == Representable(dt) IN
  IF x < 0 THEN 0
  ELSE IF \A r \in R : r < x THEN Infinity
  ELSE CHOOSE r \in R : \A s \in R : Dist(r, x) < Dist(s, x) \/ (Dist(r, x) = Dist(s, x) /\ r <= s)

(* pop.cast of one lane: a number becomes the nearest float, or its low bits *)
CastLane(v, from, to) ==
  IF IsFloat(to) THEN Round(Num(v, from), to) ELSE Num(v, from) % 2^Bits(to)
-----------------------------------------------------------------------------
(* Terms                                                                     *)
Const(dt, v) == [op |-> "const", dt |-> dt, n |-> Len(v), a |-> <<>>, v |-> v]
Undef(dt, n) == [op |-> "undef", dt |-> dt, n |-> n, a |-> <<>>, v |-> <<>>]
Var(x, dt, n) == [op |-> "var", dt |-> dt, n |-> n, a |-> <<>>, v |-> <<x>>]
Op(op, dt, n, a) == [op |-> op, dt |-> dt, n |-> n, a |-> a, v |-> <<>>]
OpAt(op, dt, n, a, v) == [op |-> op, dt |-> dt, n |-> n, a |-> a, v |-> v]

IsConst(t) == t.op = "const"
AllConst(t) == \A i \in DOMAIN t.a : IsConst(t.a[i])
Splat(x, n) == [l \in 1..n |-> x]
AllLanes(t, x) == IsConst(t) /\ \A l \in 1..t.n : t.v[l] = x

Unary == {"neg", "abs", "floor", "ceil", "trunc", "round"}
Binary == {"add", "sub", "mul", "div", "rem", "floordiv", "max", "min", "shl", "shr",
           "cmp", "and", "or", "xor", "sand", "sor", "sxor"}
Lanewise == Unary \cup Binary \cup {"fma", "cast", "select", "sselect"}

(* What an operation computes for one lane; {} where it is undefined.        *)
Quotient(a, b) == LET q == (IF a < 0 THEN -a ELSE a) \div (IF b < 0 THEN -b ELSE b)
                  IN IF (a < 0) = (b < 0) THEN q ELSE -q
Lane(t, s) ==
  LET dt == t.dt  w == Bits(dt)  m == 2^w
      x == Num(s[1], dt)  y == Num(s[Len(s)], dt)
      greater == IF IsSInt(dt) THEN x > y ELSE s[1] > s[Len(s)]
  IN CASE t.op \in {"floor", "ceil", "trunc", "round"} -> {s[1]}
       [] t.op = "neg" -> {(-x) % m}
       [] t.op = "abs" -> {(IF x < 0 THEN -x ELSE x) % m}
       [] t.op = "add" -> {(x + y) % m}
       [] t.op = "sub" -> {(x - y) % m}
       [] t.op = "mul" -> {(x * y) % m}
       [] t.op = "div" -> IF y = 0 THEN {} ELSE {Quotient(x, y) % m}
       [] t.op = "rem" -> IF y = 0 THEN {} ELSE {(x - y * Quotient(x, y)) % m}
       [] t.op = "floordiv" -> IF y = 0 THEN {}
            ELSE {(IF y < 0 THEN (-x) \div (-y) ELSE x \div y) % m}
       [] t.op = "max" -> {IF greater THEN s[1] ELSE s[2]}
       [] t.op = "min" -> {IF greater THEN s[2] ELSE s[1]}
       [] t.op = "shl" -> IF s[2] >= w THEN {} ELSE {(s[1] * 2^s[2]) % m}
       [] t.op = "shr" -> IF s[2] >= w THEN {} ELSE {(x \div 2^s[2]) % m}
       [] t.op = "cmp" -> {IF s[1] = s[2] THEN 1 ELSE 0}
       [] t.op \in {"and", "sand"} -> {s[1] & s[2]}
       [] t.op \in {"or", "sor"} -> {s[1] | s[2]}
       [] t.op \in {"xor", "sxor"} -> {s[1] ^^ s[2]}
       [] t.op = "fma" -> {(x * Num(s[2], dt) + y) % m}
       [] t.op = "cast" -> {CastLane(s[1], t.a[1].dt, dt)}
       [] t.op \in {"select", "sselect"} -> {IF s[1] = 1 THEN s[2] ELSE s[3]}

\* Bit b of memory, counted from the first lane, of a vector of lanes w bits wide
MemoryBit(v, w, b) ==
  LET lane == v[b \div w + 1]  i == b % w
  IN (lane \div 2^(IF tgt.little THEN i ELSE w - 1 - i)) % 2
(* What a bitcast computes: the lanes whose memory holds the same bits.      *)
Reinterpreted(v, from, to, n) ==
  {r \in Vals(to, n) : \A b \in 0..(n * Bits(to) - 1) :
      MemoryBit(r, Bits(to), b) = MemoryBit(v, Bits(from), b)}
-----------------------------------------------------------------------------
(* What a term computes, as the set of its possible results, when the values
   nobody knows are e.                                                       *)
LaneArgs(t, s, l) == [i \in DOMAIN s |-> s[i][IF Len(s[i]) = 1 THEN 1 ELSE l]]
Position(t, e) == IF t.v = <<>> THEN e.i ELSE t.v[1]
Apply(t, s, e) ==
  LET at == Position(t, e) IN
  CASE t.op \in Lanewise ->
         IF \E l \in 1..t.n : Lane(t, LaneArgs(t, s, l)) = {} THEN Vals(t.dt, t.n)
         ELSE {[l \in 1..t.n |-> CHOOSE x \in Lane(t, LaneArgs(t, s, l)) : TRUE]}
    [] t.op = "bitcast" -> Reinterpreted(s[1], t.a[1].dt, t.dt, t.n)
    [] t.op \in {"extract", "aget"} ->
         IF at \in DOMAIN s[1] THEN {<<s[1][at]>>} ELSE Vals(t.dt, 1)
    [] t.op \in {"insert", "areplace"} -> {[s[1] EXCEPT ![at] = s[2][1]]}
    [] t.op = "shuffle" -> {[l \in 1..t.n |-> (s[1] \o s[2])[t.v[l]]]}
    [] t.op \in {"tobuiltin", "frombuiltin", "wrap", "unwrap"} -> {s[1]}
    [] t.op = "splat" -> {Splat(s[1][1], t.n)}
    [] t.op = "create" -> {[l \in 1..t.n |-> s[l][1]]}
    [] t.op = "repeat" -> {[l \in 1..t.n |-> s[((l - 1) % Len(s)) + 1][1]]}

RECURSIVE Eval(_, _)
Eval(t, e) ==
  LET Args[k \in 0..Len(t.a)] ==
        IF k = 0 THEN {<<>>}
        ELSE {Append(s, v) : s \in Args[k - 1], v \in Eval(t.a[k], e)}
  IN CASE t.op = "const" -> {t.v}
       [] t.op = "undef" -> Vals(t.dt, t.n)
       [] t.op = "var" -> {e.val[t.v[1]]}
       [] OTHER -> UNION {Apply(t, s, e) : s \in Args[Len(t.a)]}

RECURSIVE VarsOf(_)
VarsOf(t) == IF t.op = "var" THEN {t} ELSE UNION {VarsOf(t.a[i]) : i \in DOMAIN t.a}

\* The values of t's unknowns, numbered 1 to 3; one t does not have is left at one value
Unknown(t, x) == LET V == {u \in VarsOf(t) : u.v[1] = x}
                 IN IF V = {} THEN {<<0>>} ELSE UNION {Vals(u.dt, u.n) : u \in V}
Envs(t) == {[val |-> <<x, y, z>>, i |-> i] :
              x \in Unknown(t, 1), y \in Unknown(t, 2), z \in Unknown(t, 3), i \in 1..2}
-----------------------------------------------------------------------------
(* Results of a fold: {} where it does not apply.                            *)
When(p, r) == IF p THEN {r} ELSE {}
Else(first, second) == IF first # {} THEN first ELSE second

(* What the folds compute for the bit patterns s of a lane, as APSInt does it:
   modulo the width, comparing and dividing by the sign of the type.  The folds
   that are not written out in the file are taken to compute Lane.           *)
Wrap(t, x) == x % 2^Bits(t.dt)
SignBit(t, x) == IsSInt(t.dt) /\ x >= 2^(Bits(t.dt) - 1)
Magnitude(t, x) == IF SignBit(t, x) THEN 2^Bits(t.dt) - x ELSE x
UnaryLane(t, s) == IF t.op = "neg" THEN Wrap(t, 2^Bits(t.dt) - s[1]) ELSE s[1]
ArithmeticLane(t, s) ==
  CASE t.op = "add" -> Wrap(t, s[1] + s[2])
    [] t.op = "sub" -> Wrap(t, s[1] + 2^Bits(t.dt) - s[2])
    [] t.op = "mul" -> Wrap(t, s[1] * s[2])
RemLane(t, s) ==
  LET r == Magnitude(t, s[1]) % Magnitude(t, s[2])
  IN IF SignBit(t, s[1]) THEN Wrap(t, 2^Bits(t.dt) - r) ELSE r
MaxMinLane(t, s) ==
  LET greater == IF SignBit(t, s[1]) = SignBit(t, s[2]) THEN s[1] > s[2] ELSE SignBit(t, s[2])
  IN IF greater = (t.op = "max") THEN s[1] ELSE s[2]
FMALane(t, s) == Wrap(t, s[1] * s[2] + s[3])
BitLane(t, s) ==
  CASE t.op = "sand" -> s[1] & s[2] [] t.op = "sor" -> s[1] | s[2] [] t.op = "sxor" -> s[1] ^^ s[2]
BoolLane(t, s) ==
  CASE t.op = "and" -> IF s[1] = 1 /\ s[2] = 1 THEN 1 ELSE 0
    [] t.op = "or" -> IF s[1] = 1 \/ s[2] = 1 THEN 1 ELSE 0
    [] t.op = "xor" -> IF s[1] # s[2] THEN 1 ELSE 0
FoldedLane(t, s) ==
  CASE t.op \in {"neg", "floor", "ceil", "trunc"} -> {UnaryLane(t, s)}
    [] t.op \in {"add", "sub", "mul"} -> {ArithmeticLane(t, s)}
    [] t.op = "rem" -> IF s[2] = 0 THEN {} ELSE {RemLane(t, s)}
    [] t.op \in {"max", "min"} -> {MaxMinLane(t, s)}
    [] t.op = "fma" -> {FMALane(t, s)}
    [] t.op \in {"sand", "sor", "sxor"} -> {BitLane(t, s)}
    [] t.op \in {"and", "or", "xor"} -> {BoolLane(t, s)}
    [] OTHER -> Lane(t, s)

(* foldSIMDOp and its kin fold lane by lane when every operand is a constant,
   every lane has a result and the width of the type is known.               *)
FoldSIMD(t) ==
  LET Result(l) == FoldedLane(t, LaneArgs(t, [i \in DOMAIN t.a |-> t.a[i].v], l))
  IN When(/\ AllConst(t) /\ (IsIndex(t.dt) => tgt.known) /\ \A l \in 1..t.n : Result(l) # {},
          Const(t.dt, [l \in 1..t.n |-> CHOOSE x \in Result(l) : TRUE]))

\* getIntVal: the constant all lanes share, and isIntZero
GetIntVal(t) == IF IsConst(t) /\ \A l \in 1..t.n : t.v[l] = t.v[1] THEN {t.v[1]} ELSE {}
IsIntZero(t) == GetIntVal(t) = {0}

\* Mutant: an addition of a constant is rewritten with its operands exchanged.
AddFoldSwaps(t) ==
  Else(FoldSIMD(t), When(IsConst(t.a[1]) \/ IsConst(t.a[2]), Op("add", t.dt, t.n, <<t.a[2], t.a[1]>>)))
AddFold(t) ==
  Else(FoldSIMD(t), Else(When(IsIntLike(t.dt) /\ IsIntZero(t.a[1]), t.a[2]),
                         When(IsIntLike(t.dt) /\ IsIntZero(t.a[2]), t.a[1])))
SubFold(t) == Else(FoldSIMD(t), When(IsIntLike(t.dt) /\ IsIntZero(t.a[2]), t.a[1]))

FoldTrivialMultiplication(lhs, rhs) ==
  Else(When(GetIntVal(lhs) = {0}, lhs), When(GetIntVal(lhs) = {1}, rhs))
MulFold(t) ==
  Else(FoldSIMD(t),
       IF ~IsIntLike(t.dt) THEN {}
       ELSE Else(FoldTrivialMultiplication(t.a[1], t.a[2]),
                 FoldTrivialMultiplication(t.a[2], t.a[1])))

\* isStrictlyPositive() reads the top bit as a sign, also of an unsigned value
PositivePowerOf2(v, w) == v < 2^(w - 1) /\ \E k \in 0..(w - 1) : v = 2^k
LogBase2(v) == CHOOSE k \in 0..v : v = 2^k
DivCanonicalize(t) ==
  When(/\ IsUInt(t.dt) /\ IsConst(t.a[2]) /\ (IsIndex(t.dt) => tgt.known)
       /\ \A l \in 1..t.n : PositivePowerOf2(t.a[2].v[l], Bits(t.dt)),
       Op("shr", t.dt, t.n,
          <<t.a[1], Const(t.dt, [l \in 1..t.n |-> LogBase2(t.a[2].v[l])])>>))

\* A remainder by zero has no result and is not folded.
RemFold(t) == FoldSIMD(t)
MaxMinFold(t) == Else(FoldSIMD(t), When(t.a[1] = t.a[2], t.a[1]))

(* pop.and, pop.or and pop.xor of i1: the constant operand is the second.    *)
AndFold(t) ==
  Else(FoldSIMD(t), Else(When(AllLanes(t.a[2], 1), t.a[1]), When(AllLanes(t.a[2], 0), t.a[2])))
OrFold(t) ==
  Else(FoldSIMD(t), Else(When(AllLanes(t.a[2], 0), t.a[1]), When(AllLanes(t.a[2], 1), t.a[2])))
XOrFold(t) ==
  Else(FoldSIMD(t),
       Else(When(AllLanes(t.a[2], 0), t.a[1]),
            When(IsConst(t.a[2]) /\ t.a[1].op = "xor" /\ AllLanes(t.a[1].a[2], 1), t.a[1].a[1])))

(* xor(xor(x, c), c) where c is all ones in every lane                       *)
SIMDXOrFold(t) ==
  Else(FoldSIMD(t),
       Else(When(AllLanes(t.a[2], 0), t.a[1]),
            When(/\ AllLanes(t.a[2], 2^Bits(t.dt) - 1)
                 /\ t.a[1].op = "sxor" /\ t.a[1].a[2] = t.a[2], t.a[1].a[1])))
-----------------------------------------------------------------------------
(* pop.bitcast.  reshape combines or splits lanes; the little end comes first
   unless the target says otherwise.  A bool lane is one bit of data.        *)
LittleEndian == tgt.known => tgt.little
Shift(i, count, w) == (IF LittleEndian THEN i ELSE count - 1 - i) * w

RECURSIVE Combined(_, _, _, _)
Combined(v, first, i, per) ==
  IF i = per THEN 0
  ELSE LET w == v.w IN v.v[first + i] * 2^Shift(i, per, w) + Combined(v, first, i + 1, per)

Reshape(t) ==
  LET in == t.a[1]  iw == Bits(in.dt)  ow == Bits(t.dt)
      per == ow \div iw  chunks == iw \div ow
  IN When(in.n * iw = t.n * ow,
       Const(t.dt, [l \in 1..t.n |->
         IF iw < ow THEN Combined([v |-> in.v, w |-> iw], (l - 1) * per + 1, 0, per)
         ELSE (in.v[((l - 1) \div chunks) + 1] \div 2^Shift((l - 1) % chunks, chunks, ow)) % 2^ow]))

EvaluateBitcastOp(t) ==
  LET in == t.a[1] IN
  IF ~IsConst(in) THEN {}
  ELSE IF in.n # t.n \/ in.dt.k = "bool" \/ t.dt.k = "bool" THEN Reshape(t)
  ELSE When(IsIndex(in.dt) => tgt.known, Const(t.dt, in.v))
-----------------------------------------------------------------------------
(* pop.cast                                                                  *)
CastFold(t) ==
  IF IsConst(t.a[1]) THEN When(IsIndex(t.dt) => tgt.known,
                               Const(t.dt, [l \in 1..t.n |-> CastLane(t.a[1].v[l], t.a[1].dt, t.dt)]))
  ELSE When(t.a[1].dt = t.dt, t.a[1])

\* getWidthInBits of CastOp::canonicalize
WidthInBits(dt) == IF dt.w # -1 THEN dt.w ELSE IF tgt.known THEN tgt.index ELSE -1
Unsupported(dt) == ~IsIntLike(dt) /\ ~IsFloat(dt)

\* The three cases in which the cast to T2 changes what the cast to T3 sees
NarrowingAffects(T1, T2, T3) ==
  IF IsIntLike(T1) THEN WidthInBits(T3) > WidthInBits(T1)
  ELSE WidthInBits(T2) <= WidthInBits(T1)
\* Mutant: the sign of the first type is forgotten.
WideningIgnoresSign(T1, T2, T3) ==
  \/ IsIntLike(T2) /\ IsSInt(T2) # IsSInt(T3)
  \/ WidthInBits(T2) <= WidthInBits(T1)
WideningAffects(T1, T2, T3) ==
  \/ IsIntLike(T2) /\ IsSInt(T2) # IsSInt(T3)
  \/ WidthInBits(T2) <= WidthInBits(T1)
  \/ IsSInt(T1) /\ ~IsSInt(T2)
SameWidthAffects(T1, T2, T3) ==
  \/ WidthInBits(T2) < WidthInBits(T1)
  \/ IsInt(T2) /\ ~IsIndex(T3) /\ IsSInt(T2) # IsSInt(T3)
IntermediateAffects(T1, T2, T3) ==
  LET mid == WidthInBits(T2)  out == WidthInBits(T3)
  IN IF out < mid THEN NarrowingAffects(T1, T2, T3)
     ELSE IF out > mid THEN WideningAffects(T1, T2, T3) ELSE SameWidthAffects(T1, T2, T3)

(* cast(cast(x : T1 to T2) : T3) -> cast(x : T3).  A term is a tree: the inner
   cast has no other use.  It is not marked fast, which accepts any rounding. *)
CastCanonicalize(t) ==
  LET inner == t.a[1]  T1 == inner.a[1].dt  T2 == inner.dt  T3 == t.dt
  IN When(/\ inner.op = "cast"
          /\ \A T \in {T1, T2, T3} : ~Unsupported(T) /\ WidthInBits(T) # -1
          /\ IsIntLike(T2) = IsIntLike(T1) /\ IsIntLike(T2) = IsIntLike(T3)
          /\ ~IntermediateAffects(T1, T2, T3),
          Op("cast", T3, t.n, <<inner.a[1]>>))
-----------------------------------------------------------------------------
(* SIMD elements, selects and arrays.  v is the constant position, index or
   mask; it is empty where the position is not a constant.                   *)
ExtractFold(t) ==
  IF t.a[1].n = 1 THEN {t.a[1]}
  ELSE When(IsConst(t.a[1]) /\ t.v # <<>>, Const(t.dt, <<t.a[1].v[t.v[1]]>>))
\* An insert into an undefined vector is an insert into zero.
InsertFold(t) ==
  LET vec == IF t.a[1].op = "undef" THEN Splat(0, t.n) ELSE t.a[1].v
  IN When(t.a[1].op \in {"const", "undef"} /\ IsConst(t.a[2]) /\ t.v # <<>>,
          Const(t.dt, [vec EXCEPT ![t.v[1]] = t.a[2].v[1]]))
ShuffleFold(t) ==
  When(AllConst(t), Const(t.dt, [l \in 1..t.n |-> (t.a[1].v \o t.a[2].v)[t.v[l]]]))
SplatFold(t) ==
  Else(When(t.n = 1, t.a[1]), When(IsConst(t.a[1]), Const(t.dt, Splat(t.a[1].v[1], t.n))))
\* validateSIMDConstruction: the interpreter, not the fold, refuses other widths.
PowersOf2 == {2^k : k \in 0..15}
SplatInterpret(t) ==
  Else(When(t.n = 1 /\ IsConst(t.a[1]), t.a[1]),
       When(IsConst(t.a[1]) /\ t.n \in PowersOf2, Const(t.dt, Splat(t.a[1].v[1], t.n))))

SIMDSelectFold(t) ==
  Else(FoldSIMD(t),
  Else(When(t.a[2] = t.a[3], t.a[2]),
  Else(When(AllLanes(t.a[1], 1), t.a[2]),
  Else(When(AllLanes(t.a[1], 0), t.a[3]),
       When(t.dt = Bool /\ AllLanes(t.a[2], 1) /\ AllLanes(t.a[3], 0), t.a[1])))))
SIMDSelectCanonicalize(t) ==
  When(t.dt = Bool /\ AllLanes(t.a[2], 0) /\ AllLanes(t.a[3], 1),
       Op("sxor", t.dt, t.n, <<t.a[1], t.a[3]>>))

SelectFold(t) ==
  IF IsConst(t.a[1]) THEN {IF t.a[1].v[1] = 1 THEN t.a[2] ELSE t.a[3]}
  ELSE Else(When(/\ t.a[1].dt = t.dt /\ t.a[1].n = t.n
                 /\ AllLanes(t.a[2], 1) /\ AllLanes(t.a[3], 0), t.a[1]),
       Else(When(t.a[2].op = "undef", t.a[3]),
       Else(When(t.a[3].op = "undef", t.a[2]), When(t.a[2] = t.a[3], t.a[2]))))
\* Only the true branch is looked at when it is a select, whatever its condition.
SelectOfSelect(t) ==
  LET k == IF t.a[2].op = "select" THEN 2 ELSE 3
  IN When(t.a[k].op = "select" /\ t.a[k].a[1] = t.a[1], [t EXCEPT !.a[k] = t.a[k].a[k]])

ArrayCreateFold(t) == When(AllConst(t), Const(t.dt, [l \in 1..t.n |-> t.a[l].v[1]]))
ArrayRepeatFold(t) ==
  When(AllConst(t), Const(t.dt, [l \in 1..t.n |-> t.a[((l - 1) % Len(t.a)) + 1].v[1]]))
ArrayGetFold(t) ==
  LET arr == t.a[1]  i == t.v[1]
  IN IF arr.op = "undef" THEN {Undef(t.dt, 1)}
     ELSE IF t.v = <<>> \/ i \notin 1..arr.n THEN {}
     ELSE CASE arr.op = "const" -> {Const(t.dt, <<arr.v[i]>>)}
            [] arr.op = "create" -> {arr.a[i]}
            [] arr.op = "repeat" -> {arr.a[((i - 1) % Len(arr.a)) + 1]}
            [] OTHER -> {}
ArrayReplaceFold(t) ==
  When(AllConst(t) /\ t.v # <<>>, Const(t.dt, [t.a[1].v EXCEPT ![t.v[1]] = t.a[2].v[1]]))
\* The array is no undefined constant and has the index: the code asserts the one
\* (cast<ArrayAttr>) and does not check the other.
ArrayReplaceCanonicalize(t) ==
  LET arr == t.a[1]
      elements == IF arr.op = "create" THEN arr.a ELSE [l \in 1..t.n |-> Const(t.dt, <<arr.v[l]>>)]
  IN When(t.v # <<>> /\ arr.op \in {"create", "const"},
          Op("create", t.dt, t.n, [elements EXCEPT ![t.v[1]] = t.a[2]]))
-----------------------------------------------------------------------------
(* Casts to and from builtin types and unions keep the bits.  A constant is
   converted; A -> B -> A is undone when the types are the same.             *)
Undone(t, converse) ==
  Else(When(IsConst(t.a[1]), Const(t.dt, t.a[1].v)),
       When(t.a[1].op = converse /\ t.a[1].a[1].dt = t.dt, t.a[1].a[1]))
CastToBuiltinFold(t) == Undone(t, "frombuiltin")
CastFromBuiltinFold(t) == Undone(t, "tobuiltin")
UnionWrapFold(t) == Undone(t, "unwrap")
\* A constant union remembers the type of what it holds; here it is what is asked for.
UnionUnwrapFold(t) == Undone(t, "wrap")
-----------------------------------------------------------------------------
(* The rewriter: a fold or a pattern at the root, or at an operand.          *)
Init == tgt \in Targets /\ orig \in Terms /\ term = orig /\ parity = 0

Rewrite(ops, F(_)) ==
  /\ \/ term.op \in ops /\ term' \in F(term)
     \/ \E i \in DOMAIN term.a :
          /\ term.a[i].op \in ops
          /\ \E r \in F(term.a[i]) : term' = [term EXCEPT !.a[i] = r]
  /\ parity' = 1 - parity /\ UNCHANGED <<tgt, orig>>

\* Operations whose fold is foldSIMDOp or one of its kin and nothing else
ConstantOnly == Unary \cup {"div", "floordiv", "shl", "shr", "cmp", "fma", "sand", "sor"}
Constants == Rewrite(ConstantOnly, FoldSIMD)
Add == Rewrite({"add"}, AddFold)
Sub == Rewrite({"sub"}, SubFold)
Mul == Rewrite({"mul"}, MulFold)
DivToShift == Rewrite({"div"}, DivCanonicalize)
Rem == Rewrite({"rem"}, RemFold)
MaxMin == Rewrite({"max", "min"}, MaxMinFold)
BoolAnd == Rewrite({"and"}, AndFold)
BoolOr == Rewrite({"or"}, OrFold)
BoolXOr == Rewrite({"xor"}, XOrFold)
SIMDXOr == Rewrite({"sxor"}, SIMDXOrFold)
BitcastConstant == Rewrite({"bitcast"}, EvaluateBitcastOp)
Cast == Rewrite({"cast"}, CastFold)
CastOfCast == Rewrite({"cast"}, CastCanonicalize)
Extract == Rewrite({"extract"}, ExtractFold)
Insert == Rewrite({"insert"}, InsertFold)
Shuffle == Rewrite({"shuffle"}, ShuffleFold)
SplatScalar == Rewrite({"splat"}, SplatFold)
SplatInterpreted == Rewrite({"splat"}, SplatInterpret)
SIMDSelect == Rewrite({"sselect"}, SIMDSelectFold)
SIMDSelectNot == Rewrite({"sselect"}, SIMDSelectCanonicalize)
Select == Rewrite({"select"}, SelectFold)
SelectNested == Rewrite({"select"}, SelectOfSelect)
ArrayCreate == Rewrite({"create"}, ArrayCreateFold)
ArrayRepeat == Rewrite({"repeat"}, ArrayRepeatFold)
ArrayGet == Rewrite({"aget"}, ArrayGetFold)
ArrayReplace == Rewrite({"areplace"}, ArrayReplaceFold)
ArrayReplaceCreate == Rewrite({"areplace"}, ArrayReplaceCanonicalize)
ToBuiltin == Rewrite({"tobuiltin"}, CastToBuiltinFold)
FromBuiltin == Rewrite({"frombuiltin"}, CastFromBuiltinFold)
UnionWrap == Rewrite({"wrap"}, UnionWrapFold)
UnionUnwrap == Rewrite({"unwrap"}, UnionUnwrapFold)

Next ==
  \/ Constants \/ Add \/ Sub \/ Mul \/ DivToShift \/ Rem \/ MaxMin \/ BoolAnd \/ BoolOr \/ BoolXOr \/ SIMDXOr
  \/ BitcastConstant \/ Cast \/ CastOfCast \/ Extract \/ Insert \/ Shuffle \/ SplatScalar \/ SplatInterpreted
  \/ SIMDSelect \/ SIMDSelectNot \/ Select \/ SelectNested
  \/ ArrayCreate \/ ArrayRepeat \/ ArrayGet \/ ArrayReplace \/ ArrayReplaceCreate
  \/ ToBuiltin \/ FromBuiltin \/ UnionWrap \/ UnionUnwrap

\* The greedy driver goes on while a pattern applies.
Spec == Init /\ [][Next]_vars /\ WF_vars(Next)
-----------------------------------------------------------------------------

(* Whatever folds and patterns were applied, in whatever order, the term
   computes what the term as written computes, for every value of its unknowns
   and on the target, and has its type (MLIR rejects a fold to another).     *)
MeaningKept ==
  /\ term.dt = orig.dt /\ term.n = orig.n
  /\ \A e \in Envs(orig) : Eval(term, e) \subseteq Eval(orig, e)
=============================================================================
