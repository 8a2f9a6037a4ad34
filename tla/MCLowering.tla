------------------------------- MODULE MCLowering -------------------------------
EXTENDS TypeLowering, CallLowering, InterpMemory

K(k, d, w, n, es) == Ty(k, d, w, n, es)
Scalar(d) == K("simd", d, 0, 1, <<>>)
Simd(d, n) == K("simd", d, 0, n, <<>>)
Struct(al, es) == K("struct", "", al, 1, es)
Union(es) == K("union", "", 0, 1, es)
Array(n, e) == K("array", "", 0, n, <<e>>)

\* Every constant of a type: a struct has one, a union one for each member.
RECURSIVE Fill(_, _)
Fill(t, tag) ==
  CASE t.k = "simd" -> {[k |-> "simd", t |-> t, vs |-> [i \in 1..t.n |-> 8 * tag + i], es |-> <<>>]}
    [] t.k = "struct" -> {[k |-> "struct", t |-> t, vs |-> <<>>, es |-> e] :
                            e \in {f \in [1..Len(t.es) -> UNION {Fill(t.es[i], 8 * tag + i) : i \in 1..Len(t.es)}] :
                                     \A i \in 1..Len(t.es) : f[i] \in Fill(t.es[i], 8 * tag + i)}}
    [] t.k = "array" -> {[k |-> "array", t |-> t, vs |-> <<>>,
                          es |-> [i \in 1..t.n |-> CHOOSE e \in Fill(t.es[1], 8 * tag + i) : TRUE]]}
    [] t.k = "union" -> UNION {{[k |-> "union", t |-> t, vs |-> <<>>, es |-> <<e>>] : e \in Fill(t.es[i], 8 * tag + i)} :
                               i \in 1..Len(t.es)}

Scalars == {Scalar(d) : d \in {"bool", "si8", "si32", "f4", "f6", "f16", "address"}}
Aligned == {Struct(4, <<Scalar("si8")>>), Struct(16, <<Scalar("si16")>>), Struct(0, <<Scalar("si32"), Scalar("f32")>>),
            Simd("f32", 2), Simd("bool", 3), Simd("address", 2), Array(5, Scalar("si8")), Array(2, Struct(4, <<Scalar("si8"), Scalar("si8")>>))}
Unions == {Union(<<a, b>>) : a \in Aligned, b \in Scalars}
Structs == {Struct(al, <<a, b>>) : al \in {0, 8}, a \in Scalars \cup Aligned, b \in Scalars \cup Aligned}
             \cup {Struct(0, <<a, b, c>>) : a \in {Scalar("bool")}, b \in Unions, c \in {Scalar("si8"), Scalar("si32")}}
Types == Scalars \cup Aligned \cup Unions \cup Structs
           \cup {Union(<<Array(3, Scalar("si8")), s>>) : s \in {Struct(0, <<a, b>>) : a \in Scalars, b \in Scalars}}

Other == {[k |-> k, t |-> K(k, "", 0, 1, <<>>), vs |-> <<1, 2>>, es |-> <<>>] : k \in {"none", "string", "dtype", "pointer"}}
           \cup {[k |-> "bareString", t |-> K("string", "", 0, 1, <<>>), vs |-> <<1, 2>>, es |-> <<>>],
                 [k |-> "uninit", t |-> Struct(0, <<Scalar("si8"), K("unresolved", "", 0, 1, <<>>)>>), vs |-> <<>>, es |-> <<>>]}
           \cup {[k |-> k, t |-> K("closure", "", 0, 1, <<>>), vs |-> <<1>>, es |-> <<>>] : k \in {"closure", "param"}}
InStruct(a) == [k |-> "struct", t |-> Struct(0, <<Scalar("si8"), a.t>>), vs |-> <<>>,
                es |-> <<CHOOSE e \in Fill(Scalar("si8"), 5) : TRUE, a>>]
MCAttributes == UNION {Fill(t, 1) : t \in Types} \cup Other
                  \cup {InStruct(a) : a \in {b \in Other : b.k \in {"string", "dtype", "pointer", "closure", "uninit"}}}
                  \cup {[k |-> "union", t |-> Union(<<a.t, Scalar("si8")>>), vs |-> <<>>, es |-> <<a>>] : a \in {b \in Other : b.k \in {"pointer", "uninit"}}}

\* Every field of the structs among them is one that StructLayoutsAgree is
\* about: it has KGEN's size and no more than KGEN's alignment.
RECURSIVE StructsIn(_)
StructsIn(t) == (IF t.k = "struct" THEN {t} ELSE {}) \cup UNION {StructsIn(t.es[i]) : i \in 1..Len(t.es)}
ASSUME FieldsFit ==
  \A t \in {s \in UNION {StructsIn(a.t) : a \in MCAttributes} : Resolved(s) /\ ~HasPacked(s)} :
    LET fs == FieldsOf(t, [j \in 1..Len(t.es) |-> convertType(t.es[j])])
    IN  \A i \in 1..Len(fs) : FieldFits(fs[i], {1, 2, 4, 8, 16})

\* Arguments around the sizes that the conventions tell apart.
ArgTypes == {IntTy(32), PtrTy, FloatTy(32), ArrTy(2, IntTy(8)), StructTy(<<>>), StructTy(<<IntTy(8)>>),
             StructTy(<<IntTy(8), IntTy(8), IntTy(8)>>), StructTy(<<FloatTy(32), FloatTy(32)>>),
             StructTy(<<StructTy(<<FloatTy(32)>>), FloatTy(32)>>), StructTy(<<IntTy(32), IntTy(8)>>), StructTy(<<PtrTy, IntTy(32)>>), StructTy(<<PtrTy, PtrTy, IntTy(8)>>)}
MCCallTypes == ArgTypes \cup {StructTy(<<FloatTy(32)>>)}
Targets == {<<"x86_64", TRUE, TRUE>>, <<"x86_64", FALSE, TRUE>>, <<"aarch64", FALSE, TRUE>>, <<"x86", TRUE, TRUE>>,
            <<"x86_64", TRUE, FALSE>>}
MCCalls ==
  {[kind |-> "cabi", arch |-> a[1], windows |-> a[2], coerce |-> a[3], captures |-> <<>>, args |-> ts, ret |-> r] :
     a \in Targets, ts \in {<<x, y>> : x \in ArgTypes, y \in ArgTypes}, r \in {NoTy, IntTy(32)} \cup {t \in ArgTypes : t.k = "struct"}}
  \cup
  {[kind |-> k, arch |-> "x86_64", windows |-> TRUE, coerce |-> TRUE, captures |-> c, args |-> ts, ret |-> IntTy(32)] :
     k \in {"closure"}, c \in {<<>>} \cup {<<x, y>> : x \in ArgTypes, y \in ArgTypes}, ts \in {<<>>} \cup {<<x>> : x \in ArgTypes}}
  \cup
  {[kind |-> "function", arch |-> "x86_64", windows |-> TRUE, coerce |-> TRUE, captures |-> <<>>, args |-> ts, ret |-> NoTy] :
     ts \in {<<x, y>> : x \in ArgTypes, y \in ArgTypes}}

\* Spaces of three blobs: a pointer at the start, inside and across a chunk,
\* runs of equal bytes shorter and longer than eight SIMD widths.
Blob(kind, data, rs) == [kind |-> kind, data |-> data, regions |-> rs]
Data == {<<>>, <<1>>, <<1, 1, 1, 1, 1, 1, 1>>, <<1, 1, 2, 2, 2, 1>>, <<1, 2, 0, 0, 0, 1>>,
         [k \in 1..20 |-> IF k > 18 THEN 2 ELSE 1], [k \in 1..19 |-> IF k > 17 THEN 2 ELSE 1]}
Pointing(n, targets) ==
  {<<>>} \cup {<<[offset |-> o, blob |-> t, at |-> 1]>> : o \in {x \in {0, 1, 2, 3} : x + 2 <= n}, t \in targets}
    \cup {<<[offset |-> o, blob |-> 2, at |-> 0], [offset |-> o + 2, blob |-> 3, at |-> 1]>> : o \in {x \in {0, 1} : x + 4 <= n}}
MCSpaces ==
  UNION {{<<Blob(k, d, rs), Blob("Heap", <<1, 2, 3, 3, 3, 3>>, r2), Blob(k3, <<7, 7>>, <<>>)>> :
            k \in {"Stack", "Heap"}, rs \in Pointing(Len(d), {1, 2, 3}),
            r2 \in Pointing(4, {1, 3}), k3 \in {"ConstGlobal", "Heap"}} : d \in Data}

\* One of the three is exercised, the others are idle.
VARIABLE job
IdleType == attr = [k |-> "closure", t |-> K("closure", "", 0, 1, <<>>), vs |-> <<1>>, es |-> <<>>] /\ out = [done |-> FALSE, r |-> Failed]
IdleCall == call = [kind |-> "function", arch |-> "x86_64", windows |-> TRUE, coerce |-> TRUE, captures |-> <<>>, args |-> <<>>, ret |-> NoTy] /\ met = [done |-> FALSE, params |-> <<>>, got |-> <<>>, back |-> [reg |-> {}, to |-> {}]]
IdleMem == space = <<>> /\ mem = <<>> /\ globals = <<>> /\ blobs = <<>> /\ refused = FALSE
MCInit == \/ job = "constant" /\ TypeInit /\ IdleCall /\ IdleMem
          \/ job = "call" /\ IdleType /\ CallInit /\ IdleMem
          \/ job = "memory" /\ IdleType /\ IdleCall /\ MemInit
MCNext == \/ job = "constant" /\ LowerConstant /\ UNCHANGED <<job, callVars, memVars>>
          \/ job = "call" /\ LowerCall /\ UNCHANGED <<job, typeVars, memVars>>
          \/ job = "memory" /\ MemNext /\ UNCHANGED <<job, typeVars, callVars>>
MCSpec == MCInit /\ [][MCNext]_<<job, typeVars, callVars, memVars>>
================================================================================
