---------------------------- MODULE OffloadKernels ----------------------------
(***************************************************************************)
(* Compilation of a bundle of offload kernels                               *)
(* (ObjectCompiler::emitOffloadKernels and the two lowerLLVMModuleToObject).*)
(*                                                                         *)
(* The bundle is split into one piece per exported function.  The task of a *)
(* piece reads the kernel id, links the bitcode libraries and starts one    *)
(* emission per kind asked for, each behind the transform cache; two        *)
(* promises per piece, its buffers and its id, are what the caller awaits.  *)
(* The installation's link arguments may change between two invocations.    *)
(***************************************************************************)
EXTENDS LinkLine, FiniteSets

CONSTANTS
  Kernels,        \* the pieces of the bundle
  KernelIdOf,     \* [Kernels -> Nat], 0 where no function carries an id
  BitcodeOf,      \* [Kernels -> bitcode once the id attribute is gone]
  Kinds,          \* [ids -> SUBSET EmitAs]: kernelEmissionKinds
  KernelOptions,  \* [saveTemps, isOffload] of one invocation
  LinkConfigs,    \* link arguments an installation may have
  KernelFormat,   \* the object format of the kernels' triple
  KernelNeeds,    \* names a kernel's object takes from libraries
  LibDefines,     \* [library -> names]
  MaxRuns, MaxKernelFaults

EmitAs == {"ASM", "OBJECT", "LLVM", "LLVM_OPT", "LLVM_BITCODE", "LLVM_OPT_BITCODE"}

\* An id is one kernel's, and the kinds asked for are given by id.  The tasks look
\* the id up with operator[], which would insert one that is missing into the map
\* they share.
ASSUME KernelAssumption ==
  /\ KernelIdOf \in [Kernels -> Nat]
  /\ \A s \in Kernels : KernelIdOf[s] # 0 => /\ KernelIdOf[s] \in DOMAIN Kinds /\ Kinds[KernelIdOf[s]] \subseteq EmitAs
                                             /\ \A x \in Kernels : KernelIdOf[x] = KernelIdOf[s] => x = s
  /\ KernelOptions \subseteq [saveTemps : BOOLEAN, isOffload : BOOLEAN]

VARIABLES
  kcache,   \* transform cache: set of [key, val]
  kopts, kcfg, kpc,
  ktask,    \* [Kernels -> [st, bufs, id, em, own]]
  kresult,  \* what emitOffloadKernels returned
  kfaults, kruns

kernelVars == <<kcache, kopts, kcfg, kpc, ktask, kresult, kfaults, kruns>>

Extra == "ASM for saveTemps"
KindOf(e) == IF e = Extra THEN "ASM" ELSE e
NoBuf == [kind |-> None, bitcode |-> None, from |-> <<>>]
Fresh == [st |-> "queued", bufs |-> "pending", id |-> "pending", em |-> <<>>, own |-> FALSE]
NoKernels == [ok |-> FALSE, kind |-> "pending", bufs |-> <<>>]
KernelError == [ok |-> FALSE, kind |-> "error", bufs |-> <<>>]

KFault == kfaults < MaxKernelFaults /\ kfaults' = kfaults + 1
NoKFault == UNCHANGED kfaults

-----------------------------------------------------------------------------
\* The attribute is removed, so two kernels of the same code have one bitcode.
getKernelIDFromLLVMModule(s) == KernelIdOf[s]

\* The key names all that the transformation below depends on.
kernelKeyNoLink(s, e) == [bitcode |-> BitcodeOf[s], emitAs |-> KindOf(e), link |-> <<>>]
kernelKey(s, e) == [bitcode |-> BitcodeOf[s], emitAs |-> KindOf(e), link |-> kcfg]

\* What an emission makes of the module; only an object is linked.
EmitBuffer(s, e) ==
  [kind |-> KindOf(e), bitcode |-> BitcodeOf[s],
   from |-> IF KindOf(e) = "OBJECT"
            THEN createSharedObject(KernelFormat, <<>>, kcfg, [needs |-> KernelNeeds, marked |-> {}, visible |-> {}], LibDefines).from
            ELSE <<>>]
LinksObject(e) ==
  KindOf(e) = "OBJECT" =>
    createSharedObject(KernelFormat, <<>>, kcfg, [needs |-> KernelNeeds, marked |-> {}, visible |-> {}], LibDefines).ok

kinds(s) == Kinds[getKernelIDFromLLVMModule(s)]
shouldRunExtraAsm(s) == kopts.saveTemps /\ "OBJECT" \in kinds(s) /\ "ASM" \notin kinds(s)
shouldDeserialize(s) == Cardinality(kinds(s)) > 1 \/ shouldRunExtraAsm(s)
Emissions(s) == kinds(s) \cup (IF shouldRunExtraAsm(s) THEN {Extra} ELSE {})

-----------------------------------------------------------------------------
RunKernels(k, c) ==
  /\ kpc \in {"idle", "done"} /\ kruns < MaxRuns
  /\ kopts' = k /\ kcfg' = c /\ kruns' = kruns + 1 /\ kpc' = "lower" /\ kfaults' = 0
  /\ ktask' = [s \in Kernels |-> Fresh] /\ kresult' = NoKernels /\ UNCHANGED kcache

\* lowerAllFuncsToLLVM and the splitting, each piece a task.
LowerKernels ==
  /\ kpc = "lower"
  /\ \/ KFault /\ kpc' = "done" /\ kresult' = KernelError
     \/ NoKFault /\ kpc' = "await" /\ UNCHANGED kresult
  /\ UNCHANGED <<kcache, kopts, kcfg, ktask, kruns>>

KHits(key) == {h \in kcache : h.key = key}

\* No id: both promises are errors.
FailBoth == [Fresh EXCEPT !.st = "done", !.bufs = "error", !.id = "error"]
FailBuffers == [Fresh EXCEPT !.st = "done", !.bufs = "error"]

\* The first half of a task, up to the launch of its emissions.  A library
\* that fails to link resolves the buffers and leaves the id pending.
StartKernel(s) ==
  /\ kpc = "await" /\ ktask[s].st = "queued"
  /\ \/ getKernelIDFromLLVMModule(s) = 0 /\ NoKFault /\ ktask' = [ktask EXCEPT ![s] = FailBoth]
     \/ getKernelIDFromLLVMModule(s) # 0 /\ KFault /\ ktask' = [ktask EXCEPT ![s] = FailBuffers]
     \/ /\ getKernelIDFromLLVMModule(s) # 0 /\ NoKFault
        /\ ktask' = [ktask EXCEPT ![s] =
                       [@ EXCEPT !.st = "emitting", !.own = shouldDeserialize(s),
                                 !.em = [e \in Emissions(s) |-> IF KHits(kernelKey(s, e)) = {}
                                           THEN [st |-> "launched", buf |-> NoBuf]
                                           ELSE [st |-> "done", buf |-> (CHOOSE h \in KHits(kernelKey(s, e)) : TRUE).val]]]]
  /\ UNCHANGED <<kcache, kopts, kcfg, kpc, kresult, kruns>>

\* An emission runs on its own copy of the module or on the piece's.
BeginEmission(s, e) ==
  /\ kpc = "await" /\ ktask[s].st = "emitting" /\ e \in DOMAIN ktask[s].em
  /\ ktask[s].em[e].st = "launched"
  /\ ktask' = [ktask EXCEPT ![s].em[e].st = "running"]
  /\ UNCHANGED <<kcache, kopts, kcfg, kpc, kresult, kfaults, kruns>>

EndEmission(s, e) ==
  /\ kpc = "await" /\ ktask[s].st = "emitting" /\ e \in DOMAIN ktask[s].em
  /\ ktask[s].em[e].st = "running"
  /\ \/ /\ (KFault \/ (~LinksObject(e) /\ NoKFault))
        /\ ktask' = [ktask EXCEPT ![s].em[e].st = "error"] /\ UNCHANGED kcache
     \/ /\ LinksObject(e) /\ NoKFault
        /\ ktask' = [ktask EXCEPT ![s].em[e] = [st |-> "done", buf |-> EmitBuffer(s, e)]]
        /\ kcache' = kcache \cup {[key |-> kernelKey(s, e), val |-> EmitBuffer(s, e)]}
  /\ UNCHANGED <<kopts, kcfg, kpc, kresult, kruns>>

\* The buffers' promise; the emission for saved assembly is not looked at.
BuffersOnSuccess(s) == IF \E e \in kinds(s) : ktask[s].em[e].st = "error" THEN "pending" ELSE "ok"
Buffers(s) == IF \E e \in kinds(s) : ktask[s].em[e].st = "error" THEN "error" ELSE "ok"

\* The second half: both promises.
FinishKernel(s) ==
  /\ kpc = "await" /\ ktask[s].st = "emitting"
  /\ \A e \in DOMAIN ktask[s].em : ktask[s].em[e].st \in {"done", "error"}
  /\ ktask' = [ktask EXCEPT ![s].st = "done", ![s].id = "ok", ![s].bufs = Buffers(s)]
  /\ UNCHANGED <<kcache, kopts, kcfg, kpc, kresult, kfaults, kruns>>

-----------------------------------------------------------------------------
Resolved(s) == ktask[s].bufs # "pending" /\ ktask[s].id # "pending"
Refused(s) == (ktask[s].id = "error" /\ kopts.isOffload) \/ (ktask[s].id = "ok" /\ ktask[s].bufs = "error")
Found == {s \in Kernels : ktask[s].id = "ok"}

\* The callback behind all promises, and the await of the caller.
emitOffloadKernels ==
  /\ kpc = "await" /\ \A s \in Kernels : Resolved(s)
  /\ kpc' = "done"
  /\ kresult' = IF \E s \in Kernels : Refused(s) THEN KernelError
                ELSE [ok |-> TRUE, kind |-> "kernels",
                      bufs |-> [i \in {KernelIdOf[s] : s \in Found} |->
                                  LET s == CHOOSE x \in Found : KernelIdOf[x] = i
                                  IN  [e \in kinds(s) |-> ktask[s].em[e].buf]]]
  /\ UNCHANGED <<kcache, kopts, kcfg, ktask, kfaults, kruns>>

KernelInit ==
  /\ kcache = {} /\ kopts = [saveTemps |-> FALSE, isOffload |-> FALSE] /\ kcfg = <<>> /\ kpc = "idle"
  /\ ktask = [s \in Kernels |-> Fresh] /\ kresult = NoKernels /\ kfaults = 0 /\ kruns = 0

KernelTask(s) == StartKernel(s) \/ (\E e \in EmitAs \cup {Extra} : BeginEmission(s, e) \/ EndEmission(s, e)) \/ FinishKernel(s)
KernelCaller == LowerKernels \/ emitOffloadKernels
KernelNext == (\E k \in KernelOptions, c \in LinkConfigs : RunKernels(k, c)) \/ KernelCaller \/ (\E s \in Kernels : KernelTask(s))

\* The caller awaits and the work queue runs its tasks.
KernelFairness == WF_kernelVars(KernelCaller) /\ \A s \in Kernels : WF_kernelVars(KernelTask(s))
KernelSafe == KernelInit /\ [][KernelNext]_kernelVars
KernelSpec == KernelInit /\ [][KernelNext]_kernelVars /\ KernelFairness

-----------------------------------------------------------------------------
(* Properties.                                                              *)

EmissionsApart(s) ==
  ktask[s].st = "emitting" /\ ~ktask[s].own =>
    Cardinality({e \in DOMAIN ktask[s].em : ktask[s].em[e].st \in {"launched", "running"}}) <= 1

\* A bundle that compiles gives each kernel with an id its own code in exactly
\* the kinds asked for, linked the way the installation is configured now even
\* when the buffer comes from the cache, and on an offload target no kernel is
\* missing.  The emissions of one kernel run in parallel, and never are two at
\* work on the one module that the piece's task owns.
KernelsRight ==
  /\ \A s \in Kernels : EmissionsApart(s)
  /\ kresult.ok =>
       /\ kopts.isOffload => \A s \in Kernels : KernelIdOf[s] \in DOMAIN kresult.bufs
       /\ \A s \in Kernels : KernelIdOf[s] # 0 =>
            /\ KernelIdOf[s] \in DOMAIN kresult.bufs
            /\ DOMAIN kresult.bufs[KernelIdOf[s]] = Kinds[KernelIdOf[s]]
            /\ \A e \in Kinds[KernelIdOf[s]] : kresult.bufs[KernelIdOf[s]][e] = EmitBuffer(s, e)

\* emitOffloadKernels returns, unless a library failed to link: then the id of
\* that kernel is never resolved and the caller waits for ever.
KernelsReturn ==
  (kpc = "await") ~> (kpc = "done" \/ \E s \in Kernels : ktask[s].bufs = "error" /\ ktask[s].id = "pending")
=============================================================================
