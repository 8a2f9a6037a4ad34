------------------------------ MODULE CallLowering ------------------------------
(***************************************************************************)
(* Calls lowered to LLVM: C ABI functions (CABILowering, CABIWin64,         *)
(* LowerKGENToLLVMRewriteCABIFns) and closures and indirect calls           *)
(* (LowerKGENClosuresToLLVM).                                               *)
(*                                                                         *)
(* A call site and a function definition are lowered apart; they only meet  *)
(* at run time, in registers and memory.  A call is lowered at both ends    *)
(* and the arguments followed from one to the other.  A parameter is        *)
(* [t, img, to]: its type, the bits in it and, for a pointer, the bits it   *)
(* points to.                                                               *)
(***************************************************************************)
EXTENDS LLVMTypes

CONSTANTS
  Calls,         \* the calls lowered: [kind, arch, windows, coerce, captures, args, ret]
  CallTypes,     \* the LLVM types in them, and the structs inside those
  StoreBytesOf(_), AllocBytesOf(_),  \* the target's data layout: bytes a value and its slot take,
  FieldBit(_, _)                     \* and the bit where field i of a struct is

VARIABLES call, met
callVars == <<call, met>>

\* Only closures capture.
ASSUME CallAssumption ==
  \A c \in Calls :
    /\ c.kind \in {"cabi", "closure", "function"}
    /\ c.args \in Seq(CallTypes) /\ c.captures \in Seq(CallTypes) /\ c.ret \in CallTypes \cup {NoTy}
    /\ c.kind # "closure" => c.captures = <<>>

\* What any data layout says of registers, slots and the fields of a struct.
RegisterPairTy == StructTy(<<IntTy(64), IntTy(64)>>)
ASSUME LayoutAssumption ==
  /\ \A t \in CallTypes : StoreBytesOf(t) \in Nat /\ AllocBytesOf(t) \in Nat /\ StoreBytesOf(t) <= AllocBytesOf(t)
  /\ \A n \in {1, 2, 4, 8} : StoreBytesOf(IntTy(8 * n)) = n
  /\ StoreBytesOf(VecTy(2, FloatTy(32))) = 8
  /\ StoreBytesOf(RegisterPairTy) = 16 /\ FieldBit(RegisterPairTy, 2) \in Nat
  /\ \A c \in Calls : \A i \in 1..Len(c.captures) :
       /\ FieldBit(StructTy(c.captures), i) \in Nat
       /\ \A j \in 1..Len(c.captures) : i < j =>
            FieldBit(StructTy(c.captures), i) + 8 * StoreBytesOf(c.captures[i]) <= FieldBit(StructTy(c.captures), j)

-----------------------------------------------------------------------------
(* Classification *)

CoercionInfo(class, t1, t2, ind, byval, sret) ==
  [class |-> class, t1 |-> t1, t2 |-> t2, useIndirect |-> ind, useByval |-> byval, useSRet |-> sret]
Identity == CoercionInfo("NoClass", NoTy, NoTy, FALSE, FALSE, FALSE)
indirectArgument(byval) == CoercionInfo("Memory", NoTy, NoTy, TRUE, byval, FALSE)
sretReturn == CoercionInfo("Memory", NoTy, NoTy, FALSE, FALSE, TRUE)
isIdentity(c) == c.class = "NoClass"
isTwoRegister(c) == c.class \in {"IntegerPair", "SSEPair", "Mixed"}

getStructSize(t) == StoreBytesOf(t)

\* The width of the float that every leaf of a struct is, 0 if there is none.
getLeafFloatBitWidth[t \in CallTypes] ==
  LET Width(f) == IF f.k = "float" THEN f.w
                  ELSE IF f.k = "vec" /\ f.es[1].k = "float" THEN f.es[1].w
                  ELSE IF f.k = "struct" THEN getLeafFloatBitWidth[f] ELSE 0
      widths == {Width(t.es[i]) : i \in 1..Len(t.es)}
  IN  IF Cardinality(widths) = 1 THEN CHOOSE w \in widths : TRUE ELSE 0

isAllFloatStruct(t) == Len(t.es) \in 1..4 /\ getLeafFloatBitWidth[t] # 0

getIntegerTypeForSize(size) ==
  IntTy(IF size = 1 THEN 8 ELSE IF size = 2 THEN 16 ELSE IF size <= 4 THEN 32 ELSE 64)
classifySmallIntegerStruct(size) ==
  CoercionInfo("Integer", getIntegerTypeForSize(size), NoTy, FALSE, FALSE, FALSE)

\* Windows on x86-64: a struct of 1, 2, 4 or 8 bytes is an integer of that
\* size, any other is passed by reference or returned through a pointer.
\* A plausible bug: every size up to eight goes in a register.
classifyAggregateUpTo8(t, useSRet) ==
  IF t.k # "struct" THEN Identity
  ELSE IF getStructSize(t) > 8
       THEN IF useSRet THEN sretReturn ELSE indirectArgument(FALSE)
       ELSE classifySmallIntegerStruct(getStructSize(t))
classifyAggregate(t, useSRet) ==
  IF t.k # "struct" THEN Identity
  ELSE IF getStructSize(t) \notin {1, 2, 4, 8}
       THEN IF useSRet THEN sretReturn ELSE indirectArgument(FALSE)
       ELSE classifySmallIntegerStruct(getStructSize(t))
Win64Argument(t) == IF t.k = "arr" THEN indirectArgument(FALSE) ELSE classifyAggregate(t, FALSE)
Win64Return(t) == classifyAggregate(t, TRUE)

\* System V and AAPCS, as the rewriting sees them: up to two registers that
\* cover the struct exactly, or memory, with byval where the ABI says so.
RegisterPair(t, useSRet, byval) ==
  IF t.k # "struct" THEN Identity
  ELSE IF isAllFloatStruct(t) /\ getStructSize(t) = 8
  THEN CoercionInfo("SSE", VecTy(2, FloatTy(32)), NoTy, FALSE, FALSE, FALSE)
  ELSE IF ~isAllFloatStruct(t) /\ getStructSize(t) \in {1, 2, 4, 8} THEN classifySmallIntegerStruct(getStructSize(t))
  ELSE IF getStructSize(t) = 16 THEN CoercionInfo("IntegerPair", IntTy(64), IntTy(64), FALSE, FALSE, FALSE)
  ELSE IF useSRet THEN sretReturn ELSE indirectArgument(byval)

createCABIInfo(c) ==
  IF c.coerce /\ c.arch = "x86_64" THEN IF c.windows THEN "win64" ELSE "sysv"
  ELSE IF c.coerce /\ c.arch = "aarch64" THEN "aapcs" ELSE "default"

classifyArgumentType(abi, t) ==
  IF abi = "default" THEN Identity
  ELSE IF abi = "win64" THEN Win64Argument(t) ELSE RegisterPair(t, FALSE, abi = "sysv")
classifyReturnType(abi, t) ==
  IF abi = "default" THEN Identity
  ELSE IF abi = "win64" THEN Win64Return(t) ELSE RegisterPair(t, TRUE, FALSE)

computeSignatureInfo(c) ==
  LET abi == createCABIInfo(c)
  IN  [args |-> [i \in 1..Len(c.args) |-> classifyArgumentType(abi, c.args[i])],
       ret |-> IF c.ret = NoTy THEN Identity ELSE classifyReturnType(abi, c.ret)]

-----------------------------------------------------------------------------
(* The function definition *)

PairTy(c) == StructTy(<<c.t1, c.t2>>)
NewParamTypes(c, t) ==
  IF isIdentity(c) THEN <<t>>
  ELSE IF c.useIndirect THEN <<PtrTy>>
  ELSE IF isTwoRegister(c) THEN <<c.t1, c.t2>> ELSE <<c.t1>>

\* The parameters one argument after the other; a byval attribute names the
\* parameter by how many there are before it.
AddParams(f, sig, acc, i) ==
  [params |-> acc.params \o NewParamTypes(sig.args[i], f.args[i]),
   byval |-> acc.byval \cup IF ~isIdentity(sig.args[i]) /\ sig.args[i].useIndirect /\ sig.args[i].useByval
                            THEN {<<Len(acc.params) + 1, f.args[i]>>} ELSE {}]
NewParams(f, sig) ==
  LET upto[i \in 0..Len(f.args)] ==
        IF i = 0 THEN [params |-> IF sig.ret.useSRet THEN <<PtrTy>> ELSE <<>>, byval |-> {}]
        ELSE AddParams(f, sig, upto[i - 1], i)
  IN  upto[Len(f.args)]
CoercedType(c, t) == IF isTwoRegister(c) THEN PairTy(c) ELSE IF c.t1 # NoTy THEN c.t1 ELSE t

\* The lowered signature: parameters, byval and sret attributes by parameter
\* index, return type.
processCABIFunctionDefinition(f) ==
  LET sig == computeSignatureInfo(f)
  IN  IF isIdentity(sig.ret) /\ \A i \in 1..Len(f.args) : isIdentity(sig.args[i])
      THEN [params |-> f.args, byval |-> {}, sret |-> {}, ret |-> f.ret]
      ELSE [params |-> NewParams(f, sig).params, byval |-> NewParams(f, sig).byval,
            sret |-> IF sig.ret.useSRet THEN {<<1, f.ret>>} ELSE {},
            ret |-> IF sig.ret.useSRet THEN NoTy ELSE CoercedType(sig.ret, f.ret)]

\* A value stored as one type and loaded as another keeps the bits that both
\* have; the slot is as large as the original type.
ThroughAlloca(img, t) == {b \in img : b[1] < 8 * StoreBytesOf(t)}
FitsSlot(stored, t) == StoreBytesOf(stored) <= AllocBytesOf(t)

\* The argument a parameter list carries at position p.
reconstructCABIArgument(c, t, ps, p) ==
  IF isIdentity(c) THEN ps[p].img
  ELSE IF c.useIndirect THEN ps[p].to
  ELSE IF isTwoRegister(c)
  THEN ThroughAlloca(ps[p].img \cup Shift(ps[p + 1].img, FieldBit(PairTy(c), 2)), t)
  ELSE ThroughAlloca(ps[p].img, t)

\* The parameter that is next when i arguments have been reconstructed.
NextIdx(sig, p, i) == p + IF ~isIdentity(sig.args[i]) /\ ~sig.args[i].useIndirect /\ isTwoRegister(sig.args[i]) THEN 2 ELSE 1
ParamIdx(sig) ==
  LET paramIdx[i \in 0..Len(sig.args)] ==
        IF i = 0 THEN IF sig.ret.useSRet THEN 2 ELSE 1 ELSE NextIdx(sig, paramIdx[i - 1], i)
  IN  paramIdx

reconstructCABIArguments(f, ps) ==
  LET sig == computeSignatureInfo(f)
  IN  [i \in 1..Len(f.args) |-> reconstructCABIArgument(sig.args[i], f.args[i], ps, ParamIdx(sig)[i - 1])]

\* What the call leaves for the caller: the return register, loaded from the
\* slot the result was stored in, and what was stored through the result
\* pointer.
applyCABIReturnCoercion(c, t, img) ==
  IF c.useSRet THEN [reg |-> {}, to |-> img]
  ELSE [reg |-> IF isIdentity(c) THEN img ELSE ThroughAlloca(img, CoercedType(c, t)), to |-> {}]

-----------------------------------------------------------------------------
(* The call site *)

Param(t, img, to) == [t |-> t, img |-> img, to |-> to]
Bits(t, tag) == {<<b, tag, b>> : b \in 0..8 * StoreBytesOf(t) - 1}
Given(ts, from) == [i \in 1..Len(ts) |-> Bits(ts[i], from + i)]

\* One argument as C ABI parameters (CABICallHelper::prepareCall).
Passed(c, t, img) ==
  IF isIdentity(c) THEN <<Param(t, img, {})>>
  ELSE IF c.useIndirect THEN <<Param(PtrTy, {}, img)>>
  ELSE IF isTwoRegister(c)
  THEN <<Param(c.t1, {b \in img : b[1] < FieldBit(PairTy(c), 2)}, {}),
         Param(c.t2, {<<b[1] - FieldBit(PairTy(c), 2), b[2], b[3]>> : b \in {d \in img : d[1] >= FieldBit(PairTy(c), 2)}}, {})>>
  ELSE <<Param(c.t1, img, {})>>

AddPassed(c, sig, imgs, ps, i) == ps \o Passed(sig.args[i], c.args[i], imgs[i])
prepareCall(c, imgs) ==
  LET sig == computeSignatureInfo(c)
      upto[i \in 0..Len(c.args)] ==
        IF i = 0 THEN IF sig.ret.useSRet THEN <<Param(PtrTy, {}, {})>> ELSE <<>>
        ELSE AddPassed(c, sig, imgs, upto[i - 1], i)
  IN  upto[Len(c.args)]

-----------------------------------------------------------------------------
(* Closures: a pair of the wrapper and an environment that holds the        *)
(* captures; the wrapper loads them back and calls the lifted function.     *)

liftedFunctionCaptureType(ts) == StructTy(ts)

generateClosureStruct(ts, imgs) ==
  UNION {Shift(imgs[i], FieldBit(liftedFunctionCaptureType(ts), i)) : i \in 1..Len(ts)}

\* The wrapper takes the environment and the arguments that are not captured.
generateWrapperFunction(c) == <<PtrTy>> \o c.args

\* A closure without captures whose type need not capture is the address of
\* its callee; any other carries its environment.
CreateClosure(c, captured) ==
  IF c.kind = "function" THEN <<>>
  ELSE <<Param(PtrTy, {}, generateClosureStruct(c.captures, captured))>>

Captured(env, at, t) ==
  {<<b[1] - at, b[2], b[3]>> : b \in {d \in env : d[1] >= at /\ d[1] < at + 8 * StoreBytesOf(t)}}
populateBodyOfWrapperFunction(c, ps) ==
  [i \in 1..Len(c.captures) |-> Captured(ps[1].to, FieldBit(liftedFunctionCaptureType(c.captures), i), c.captures[i])]
    \o [i \in 1..Len(c.args) |-> ps[i + 1].img]

\* An indirect call: of a C ABI pointer, of a closure through its wrapper, or
\* of a Mojo function with the arguments as they are.
CallIndirect(c, imgs, captured) ==
  IF c.kind = "cabi" THEN prepareCall(c, imgs)
  ELSE CreateClosure(c, captured) \o [i \in 1..Len(c.args) |-> Param(c.args[i], imgs[i], {})]

Received(c, ps) ==
  IF c.kind = "cabi" THEN reconstructCABIArguments(c, ps)
  ELSE IF c.kind = "closure" THEN populateBodyOfWrapperFunction(c, ps)
  ELSE [i \in 1..Len(ps) |-> ps[i].img]

CallInit == call \in Calls /\ met = [done |-> FALSE, params |-> <<>>, got |-> <<>>, back |-> [reg |-> {}, to |-> {}]]

\* A call lowered at both ends: the parameters passed, what the callee
\* receives and what it leaves for the caller.
Lowered(c) ==
  LET imgs == Given(c.args, Len(c.captures))
      ps == CallIndirect(c, imgs, Given(c.captures, 0))
      ret == IF c.kind = "cabi" THEN computeSignatureInfo(c).ret ELSE Identity
  IN  [done |-> TRUE, params |-> ps, got |-> Received(c, ps),
       back |-> IF c.ret = NoTy THEN [reg |-> {}, to |-> {}] ELSE applyCABIReturnCoercion(ret, c.ret, Bits(c.ret, 0))]
LowerCall == ~met.done /\ met' = Lowered(call) /\ UNCHANGED call

CallSpec == CallInit /\ [][LowerCall]_callVars

\* The callee receives what the caller passed: the captures as they were at
\* creation, then the arguments, in order and whole; the call site's
\* parameters are those of the lowered definition, byval and sret mark
\* pointer parameters, no register is stored past its slot, and the caller
\* finds the result where its signature says.
Arrived(c, m) ==
  \A def \in {processCABIFunctionDefinition(c)}, sig \in {computeSignatureInfo(c)} :
    /\ m.got = Given(c.captures, 0) \o Given(c.args, Len(c.captures))
    /\ c.kind = "closure" => [i \in 1..Len(m.params) |-> m.params[i].t] = generateWrapperFunction(c)
    /\ c.kind = "cabi" =>
         /\ [i \in 1..Len(m.params) |-> m.params[i].t] = def.params
         /\ \A p \in def.byval \cup def.sret : m.params[p[1]].t = PtrTy
         /\ \A p \in def.byval : \E i \in 1..Len(c.args) :
              c.args[i] = p[2] /\ m.params[p[1]].to = Given(c.args, Len(c.captures))[i]
         /\ \A i \in 1..Len(c.args) : FitsSlot(CoercedType(sig.args[i], c.args[i]), c.args[i])
         /\ c.ret # NoTy =>
              /\ FitsSlot(CoercedType(sig.ret, c.ret), c.ret)
              /\ (IF def.sret # {} THEN m.back.to ELSE m.back.reg) = Bits(c.ret, 0)

\* Whatever call is lowered, its arguments and its result arrive.
ArgumentsArrive == met.done => Arrived(call, met)
=============================================================================
