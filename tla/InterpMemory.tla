------------------------------ MODULE InterpMemory ------------------------------
(***************************************************************************)
(* Memory of the compile-time interpreter brought to run time               *)
(* (InterpreterMemoryConverter, LLVMLoweringUtils.cpp).                     *)
(*                                                                         *)
(* A memory space is a list of blobs: bytes and, at some offsets, pointers  *)
(* into other blobs.  Lowering a memref materialises its blob and all that  *)
(* it reaches, as globals or as allocations filled by vector stores, memsets *)
(* and pointer stores, and caches the blobs of the scope.  mem is the memory *)
(* the generated code builds: one entry per global or allocation, its cells *)
(* <<0, byte>>, <<1, target, offset, byte of the pointer>>, or <<>> when     *)
(* nothing was stored.                                                      *)
(***************************************************************************)
EXTENDS Naturals, Sequences, FiniteSets, SequencesExt

CONSTANTS
  Spaces,       \* the memory spaces the constants of a module refer to
  SimdWidth,    \* the target's SIMD width in bytes
  PointerSize,  \* the target's pointer size in bytes
  MaxEntries    \* bound: no function is started behind more entries

VARIABLES
  space,    \* the space the scope's memrefs are in
  mem,      \* globals and allocations the generated code has made
  globals,  \* the converter's global for each blob, 0 if none yet
  blobs,    \* the scope's cache: entry of mem for each blob, 0 if none
  refused   \* a memref was refused

memVars == <<space, mem, globals, blobs, refused>>

Index == 1..Len(space)
isGlobalBlob(b) == b.kind = "ConstGlobal"
Size(b) == Len(b.data)

\* Pointer regions lie inside their blob, in order and apart; globals have none.
BlobOf(s, b) ==
  /\ b.data \in Seq(Range(b.data)) /\ b.regions \in Seq(Range(b.regions))
  /\ isGlobalBlob(b) => b.regions = <<>>
  /\ \A m \in 1..Len(b.regions) :
       b.regions[m].blob \in 1..Len(s) /\ b.regions[m].offset \in Nat /\ b.regions[m].offset + PointerSize <= Size(b)
  /\ \A m, n \in 1..Len(b.regions) : m < n => b.regions[m].offset + PointerSize <= b.regions[n].offset
ASSUME SpaceAssumption ==
  /\ SimdWidth \in Nat \ {0} /\ PointerSize \in Nat \ {0}
  /\ \A s \in Spaces : s \in Seq(Range(s)) /\ \A i \in 1..Len(s) : BlobOf(s, s[i])

\* The blobs a memref needs: its own and all behind pointer regions.
Closed(S) == \A i \in S : \A r \in Range(space[i].regions) : r.blob \in S
materializePtrRegionBlobs(ref) == {i \in Index : \A S \in SUBSET Index : ref \in S /\ Closed(S) => i \in S}

\* Interpreter stack memory may be referred to, not pointed to.
PointsToStack(ref) == \E i \in materializePtrRegionBlobs(ref) \ {ref} : space[i].kind = "Stack"

-----------------------------------------------------------------------------
(* Filling an allocation.  A fill is [i, r, run, img]: the next byte, the   *)
(* next pointer region, the run of equal bytes not yet stored, the cells.   *)
(* Bytes are counted from 0, cells from 1.                                  *)

Cells(idx, n) == idx + 1..idx + n
Least(m, n) == IF m <= n THEN m ELSE n
\* The cells stored when n bytes are left and cut[n] of them, block[n], go next.
InChunks(size, cut, block) ==
  LET left[n \in 0..size] == IF n = 0 THEN {} ELSE block[n] \cup left[n - cut[n]]
  IN  left[size]

IsPowerOf2(p) == \A d \in 2..p : p % d = 0 => d % 2 = 0
LargestPowerOf2(n) == Max({p \in 1..n : IsPowerOf2(p)})

\* Stores of the largest power of two that is left, down to single bytes.
materializeVectorStores(idx, size) ==
  InChunks(size, [n \in 1..size |-> LargestPowerOf2(n)], [n \in 1..size |-> Cells(idx + size - n, LargestPowerOf2(n))])
CopyBytes(img, data, cells) == [k \in DOMAIN img |-> IF k \in cells THEN <<0, data[k]>> ELSE img[k]]
Memset(img, cells, value) == [k \in DOMAIN img |-> IF k \in cells THEN <<0, value>> ELSE img[k]]

NoRun == [start |-> 0, value |-> 0, reps |-> 0]

\* A run of up to eight SIMD widths is stored in SIMD widths, a longer one is
\* a memset.
RunStores(c) ==
  InChunks(c.reps, [n \in 1..c.reps |-> Least(SimdWidth, n)],
           [n \in 1..c.reps |-> materializeVectorStores(c.start + c.reps - n, Least(SimdWidth, n))])
commitCompressedStores(f, data) ==
  IF f.run.reps = 0 THEN f
  ELSE [f EXCEPT !.run = NoRun,
                 !.img = IF f.run.reps <= 8 * SimdWidth THEN CopyBytes(@, data, RunStores(f.run))
                         ELSE Memset(@, Cells(f.run.start, f.run.reps), f.run.value)]

AllEqual(data, idx, size) == \A k \in Cells(idx, size) : data[k] = data[idx + 1]
RunOf(data, idx, size) == [start |-> idx, value |-> data[idx + 1], reps |-> size]
StoreNow(f, data, cells) == [f EXCEPT !.img = CopyBytes(@, data, cells)]
\* A plausible bug: a run goes on whatever the value of the next chunk.
materializeStoreSame(f, data, idx, size) ==
  IF size = 0 THEN f
  ELSE IF ~AllEqual(data, idx, size)
  THEN StoreNow(commitCompressedStores(f, data), data, materializeVectorStores(idx, size))
  ELSE IF f.run.reps = 0 THEN [f EXCEPT !.run = RunOf(data, idx, size)]
  ELSE [f EXCEPT !.run.reps = @ + size]
\* A chunk of equal bytes starts or extends a run; any other is stored at
\* once, after the run before it.
materializeStore(f, data, idx, size) ==
  IF size = 0 THEN f
  ELSE IF ~AllEqual(data, idx, size)
  THEN StoreNow(commitCompressedStores(f, data), data, materializeVectorStores(idx, size))
  ELSE IF f.run.reps = 0 THEN [f EXCEPT !.run = RunOf(data, idx, size)]
  ELSE IF f.run.value = data[idx + 1] THEN [f EXCEPT !.run.reps = @ + size]
  ELSE [commitCompressedStores(f, data) EXCEPT !.run = RunOf(data, idx, size)]

StorePointer(img, at, target, offset) ==
  [k \in DOMAIN img |-> IF k \in Cells(at, PointerSize) THEN <<1, target, offset, k - 1 - at>> ELSE img[k]]

\* The bytes of a blob in chunks of the SIMD width, each pointer region a
\* pointer to what its blob became; the loop ends within Size(b) rounds.
FillStep(b, at, f) ==
  IF f.i >= Size(b) THEN f
  ELSE IF f.r <= Len(b.regions) /\ f.i <= b.regions[f.r].offset /\ b.regions[f.r].offset < f.i + SimdWidth
  THEN LET r == b.regions[f.r]
           g == commitCompressedStores(materializeStore(f, b.data, f.i, r.offset - f.i), b.data)
       IN  [g EXCEPT !.i = r.offset + PointerSize, !.r = @ + 1, !.img = StorePointer(@, r.offset, at[r.blob], r.at)]
  ELSE [materializeStore(f, b.data, f.i, Least(SimdWidth, Size(b) - f.i)) EXCEPT !.i = @ + SimdWidth]
FillStart(b) == [i |-> 0, r |-> 1, run |-> NoRun, img |-> [k \in 1..Size(b) |-> <<>>]]
FillLoop(b, at) ==
  LET loop[n \in 0..Size(b)] == IF n = 0 THEN FillStart(b) ELSE FillStep(b, at, loop[n - 1])
  IN  loop[Size(b)]
Filled(b, at) ==
  IF isGlobalBlob(b) THEN [k \in 1..Size(b) |-> <<0, b.data[k]>>]
  ELSE commitCompressedStores(FillLoop(b, at), b.data).img

-----------------------------------------------------------------------------

MemInit ==
  /\ space \in Spaces
  /\ mem = <<>> /\ refused = FALSE
  /\ globals = [i \in Index |-> 0]
  /\ blobs = [i \in Index |-> 0]

\* Entries for the blobs of S, and where every blob is then.
Placed(fresh) ==
  [i \in Index |-> IF \E k \in 1..Len(fresh) : fresh[k] = i
                   THEN Len(mem) + CHOOSE k \in 1..Len(fresh) : fresh[k] = i ELSE globals[i]]
Materialize(S) ==
  LET fresh == SetToSeq(S)
  IN  /\ mem' = mem \o [k \in 1..Len(fresh) |-> [blob |-> fresh[k], img |-> Filled(space[fresh[k]], Placed(fresh))]]
      /\ globals' = [i \in Index |-> IF isGlobalBlob(space[i]) THEN Placed(fresh)[i] ELSE globals[i]]

\* A memref whose blob the scope has is a pointer to it.  Otherwise its blob
\* and what it reaches get an entry each (globals are shared by all scopes),
\* the allocations are filled, and the blobs that the scope did not have are
\* remembered.  Pointing to stack memory is an error that caches no blob; the
\* globals that the search met before it, whichever they are, stay.  Equal
\* constant blobs, one global in the code, have an entry each here.
getOrMaterialize(ref) ==
  LET need == materializePtrRegionBlobs(ref)
      made == {i \in need : isGlobalBlob(space[i]) /\ globals[i] # 0}
      fresh == SetToSeq(need \ made)
  IN  /\ UNCHANGED space
      /\ \/ blobs[ref] # 0 /\ UNCHANGED <<mem, globals, blobs, refused>>
         \/ /\ blobs[ref] = 0 /\ PointsToStack(ref)
            /\ refused' = TRUE /\ UNCHANGED blobs
            /\ \E S \in SUBSET {i \in need \ made : isGlobalBlob(space[i])} : Materialize(S)
         \/ /\ blobs[ref] = 0 /\ ~PointsToStack(ref)
            /\ Materialize(need \ made)
            /\ blobs' = [i \in Index |-> IF blobs[i] = 0 /\ i \in need THEN Placed(fresh)[i] ELSE blobs[i]]
            /\ UNCHANGED refused

convertMemRef(ref) == getOrMaterialize(ref)

\* Another function is lowered: its scope starts empty, the globals stay.
NewScope ==
  /\ \E i \in Index : blobs[i] # 0
  /\ Len(mem) <= MaxEntries
  /\ blobs' = [i \in Index |-> 0]
  /\ UNCHANGED <<space, mem, globals, refused>>

MemNext == \/ \E ref \in Index : convertMemRef(ref)
           \/ NewScope

MemSpec == MemInit /\ [][MemNext]_memVars

RegionsAt(b, k) == {r \in Range(b.regions) : k \in Cells(r.offset, PointerSize)}

\* What a run of the generated code finds in each global and allocation is
\* what the interpreter had: every byte, whatever runs and chunks it was
\* stored in, and every pointer at the entry of the blob it pointed to, at
\* its offset; a cached blob is an entry for that blob (getOrMaterialize).
BlobsRestored ==
  /\ \A a \in 1..Len(mem) :
       LET b == space[mem[a].blob]
       IN  \A k \in 1..Size(b) :
             IF RegionsAt(b, k) = {} THEN mem[a].img[k] = <<0, b.data[k]>>
             ELSE \E r \in RegionsAt(b, k), t \in 1..Len(mem) :
                    mem[a].img[k] = <<1, t, r.at, k - 1 - r.offset>> /\ mem[t].blob = r.blob
  /\ \A i \in Index : blobs[i] # 0 => mem[blobs[i]].blob = i
  /\ \A i \in Index : globals[i] # 0 => mem[globals[i]].blob = i

=============================================================================
