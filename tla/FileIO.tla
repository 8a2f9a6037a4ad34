------------------------------- MODULE FileIO -------------------------------
(***************************************************************************)
(* FileHandle of std/io/file.mojo and FileDescriptor of                    *)
(* std/io/file_descriptor.mojo over the descriptor calls of                *)
(* std/sys/_fd.mojo.                                                       *)
(*                                                                         *)
(* A call of the library is a loop over system calls.  Each system call is *)
(* one step, so the calls of several handles, and of other programs that   *)
(* have the same file open (which are handles like any other here), mix.   *)
(* A system call moves as many bytes as it likes up to what was asked for  *)
(* and up to MaxTransfer, and can fail.                                    *)
(*                                                                         *)
(* A byte is the handle that wrote it and its index in what was written.   *)
(***************************************************************************)
EXTENDS Integers, Sequences

CONSTANTS
  Handles,      \* the FileHandle objects
  Files,        \* the names of files
  MaxFd,        \* size of the descriptor table
  Modes,        \* of {"r", "w", "rw", "a"}
  MaxTransfer,  \* _MAX_TRANSFER: the most one system call moves
  FirstChunk,   \* 256: what read_bytes() asks for first
  DataLen,      \* how long a write is
  Sizes,        \* what read_bytes is asked for: -1 is to the end
  MaxSize,      \* bound on the length of a file
  MaxOps,       \* bound on the calls made on one handle
  NoFile

ASSUME BoundsAssumption ==
  /\ MaxFd \in Nat /\ DataLen \in Nat \ {0} /\ MaxSize \in Nat /\ MaxOps \in Nat
  /\ MaxTransfer \in Nat \ {0} /\ FirstChunk \in Nat \ {0}
  /\ Sizes \subseteq Nat \union {-1}
  /\ Modes \subseteq {"r", "w", "rw", "a"}
  /\ NoFile \notin Files

VARIABLES
  exists,     \* the files there are
  content,    \* what is in them
  fdFile,     \* the descriptor table: the file, or NoFile for a free entry
  fdPos,      \* the offset
  fdMode,     \* the mode it was opened in
  handle,     \* self.handle, -1 when closed
  ioPc,         \* what the handle is doing
  total,      \* total_written, or num_read
  buf,        \* read_bytes: what has been read so far
  room,       \* read_bytes: len(result)
  size,       \* read_bytes: the argument
  start,      \* the offset at which the call began
  disturbed,  \* another handle has truncated the file since the call began, or
              \* written to it other than by appending
  ops         \* the number of calls made

sys == <<exists, content, fdFile, fdPos, fdMode>>
call == <<total, buf, room, size, start, disturbed>>
fileVars == <<sys, handle, ioPc, call, ops>>

Fds == 0 .. (MaxFd - 1)
Data(h) == [k \in 1 .. DataLen |-> [by |-> h, k |-> k]]
Zero == [by |-> NoFile, k |-> 0]

Least(a, b) == IF a <= b THEN a ELSE b

-----------------------------------------------------------------------------
(* The system *)

\* open and _wopen take the lowest free entry.
Free(fd) == fdFile[fd] = NoFile
NextFd(fd) == Free(fd) /\ \A other \in Fds : Free(other) => fd <= other

Appends(fd) == fdMode[fd] = "a"

\* The bytes c, written at offset at of s; a gap is filled with zeros.
Overwrite(s, at, c) ==
  LET end == at + Len(c)
      n   == IF Len(s) > end THEN Len(s) ELSE end
  IN [i \in 1 .. n |-> IF i > at /\ i <= end THEN c[i - at]
                       ELSE IF i <= Len(s) THEN s[i] ELSE Zero]

OthersOn(h, f) == {g \in Handles \ {h} : handle[g] >= 0 /\ fdFile[handle[g]] = f}

\* One write(2) or _write, of which these bytes go out.  MaxSize bounds the
\* files of the model; a write that has no room left can still fail.
SysWrite(h, bytes) ==
  LET fd == handle[h]
      f  == fdFile[fd]
      at == IF Appends(fd) THEN Len(content[f]) ELSE fdPos[fd]
  IN /\ at + Len(bytes) <= MaxSize
     /\ content' = [content EXCEPT ![f] = IF bytes = <<>> THEN @ ELSE Overwrite(@, at, bytes)]
     /\ fdPos' = [fdPos EXCEPT ![fd] = at + Len(bytes)]
     /\ disturbed' = [g \in Handles |-> disturbed[g] \/ (~ Appends(fd) /\ g \in OthersOn(h, f))]

-----------------------------------------------------------------------------
(* open, close and __deinit__ *)

Idle(h) == ioPc[h] = "idle" /\ ops[h] < MaxOps
CountOp(h) == ops' = [ops EXCEPT ![h] = @ + 1]

\* _open_file: "w" truncates, every mode but "r" creates.
Open(h, f, m) ==
  /\ Idle(h) /\ handle[h] < 0
  /\ m = "r" => f \in exists
  /\ \E fd \in Fds :
       /\ NextFd(fd)
       /\ handle' = [handle EXCEPT ![h] = fd]
       /\ fdFile' = [fdFile EXCEPT ![fd] = f]
       /\ fdPos' = [fdPos EXCEPT ![fd] = 0]
       /\ fdMode' = [fdMode EXCEPT ![fd] = m]
  /\ exists' = exists \union {f}
  /\ content' = IF m = "w" THEN [content EXCEPT ![f] = <<>>] ELSE content
  /\ disturbed' = [g \in Handles |-> disturbed[g] \/ (m = "w" /\ g \in OthersOn(h, f))]
  /\ CountOp(h)
  /\ UNCHANGED <<ioPc, total, buf, room, size, start>>

\* The directories cannot be made, or the file cannot be opened.
OpenFails(h) ==
  /\ Idle(h) /\ handle[h] < 0
  /\ CountOp(h)
  /\ UNCHANGED <<sys, handle, ioPc, call>>

\* close(2) gives the descriptor back even when it reports an error, and the
\* handle is marked closed either way.  __deinit__ is close with the error
\* dropped.
Released(h) == fdFile' = [fdFile EXCEPT ![handle[h]] = NoFile]
CloseKeepsOnError(h) ==
  /\ Idle(h) /\ handle[h] >= 0
  /\ Released(h)
  /\ \E failed \in BOOLEAN : handle' = [handle EXCEPT ![h] = IF failed THEN @ ELSE -1]
  /\ CountOp(h)
  /\ UNCHANGED <<exists, content, fdPos, fdMode, ioPc, call>>
Close(h) ==
  /\ Idle(h) /\ handle[h] >= 0
  /\ Released(h)
  /\ handle' = [handle EXCEPT ![h] = -1]
  /\ CountOp(h)
  /\ UNCHANGED <<exists, content, fdPos, fdMode, ioPc, call>>

\* Any method but close on a closed handle raises "invalid file handle".
UseClosed(h) ==
  /\ Idle(h) /\ handle[h] < 0
  /\ CountOp(h)
  /\ UNCHANGED <<sys, handle, ioPc, call>>

Readable(h) == handle[h] >= 0 /\ fdMode[handle[h]] \in {"r", "rw"}
Writable(h) == handle[h] >= 0 /\ fdMode[handle[h]] # "r"

\* seek(offset, SEEK_SET); an offset past the end is allowed.
Seek(h, to) ==
  /\ Idle(h) /\ handle[h] >= 0
  /\ fdPos' = [fdPos EXCEPT ![handle[h]] = to]
  /\ CountOp(h)
  /\ UNCHANGED <<exists, content, fdFile, fdMode, handle, ioPc, call>>

-----------------------------------------------------------------------------
(* Writing *)

Begin(h, op) ==
  /\ Idle(h) /\ handle[h] >= 0
  /\ ioPc' = [ioPc EXCEPT ![h] = op]
  /\ total' = [total EXCEPT ![h] = 0]
  /\ start' = [start EXCEPT ![h] = fdPos[handle[h]]]
  /\ disturbed' = [disturbed EXCEPT ![h] = FALSE]
  /\ CountOp(h)
  /\ UNCHANGED <<sys, handle>>

Finish(h) == ioPc' = [ioPc EXCEPT ![h] = "idle"]

\* write_all, write_bytes and _write are the same loop; they differ in what
\* they do on an error, which is to raise or to abort.
WriteAll(h) ==
  /\ Writable(h)
  /\ Begin(h, "write")
  /\ UNCHANGED <<buf, room, size>>

Rest(h) == DataLen - total[h]

\* One turn of the loop, which wrote n bytes; 0 is an error of its own.
WriteChunkOnce(h, n) ==
  /\ ioPc[h] = "write"
  /\ n \in 1 .. Least(Rest(h), MaxTransfer)
  /\ SysWrite(h, SubSeq(Data(h), total[h] + 1, total[h] + n))
  /\ total' = [total EXCEPT ![h] = DataLen]
  /\ Finish(h)
  /\ UNCHANGED <<exists, fdFile, fdMode, handle, buf, room, size, start, ops>>
WriteChunk(h, n) ==
  /\ ioPc[h] = "write"
  /\ n \in 1 .. Least(Rest(h), MaxTransfer)
  /\ SysWrite(h, SubSeq(Data(h), total[h] + 1, total[h] + n))
  /\ total' = [total EXCEPT ![h] = @ + n]
  /\ IF n = Rest(h) THEN Finish(h) ELSE UNCHANGED ioPc
  /\ UNCHANGED <<exists, fdFile, fdMode, handle, buf, room, size, start, ops>>

\* The system call fails, or moved nothing: the call raises (write_bytes
\* aborts the program).  What was written before stays.
CallFails(h) ==
  /\ ioPc[h] \in {"write", "read"}
  /\ ioPc' = [ioPc EXCEPT ![h] = "raised"]
  /\ UNCHANGED <<sys, handle, call, ops>>

\* The caller goes on after the error.
Caught(h) ==
  /\ ioPc[h] = "raised"
  /\ Finish(h)
  /\ UNCHANGED <<sys, handle, call, ops>>

\* write_once, which tells its caller how much was written.
WriteOnce(h, n) ==
  /\ Idle(h) /\ Writable(h)
  /\ n \in 0 .. Least(DataLen, MaxTransfer)
  /\ SysWrite(h, SubSeq(Data(h), 1, n))
  /\ total' = [total EXCEPT ![h] = n]
  /\ CountOp(h)
  /\ UNCHANGED <<exists, fdFile, fdMode, handle, ioPc, buf, room, size, start>>

\* FileHandle.write, which prints through FileDescriptor.write_bytes: one
\* system call, whose count only an assertion looks at.
PrintTo(h, n) ==
  /\ Idle(h) /\ Writable(h)
  /\ n \in 0 .. Least(DataLen, MaxTransfer)
  /\ SysWrite(h, SubSeq(Data(h), 1, n))
  /\ total' = [total EXCEPT ![h] = n]
  /\ ioPc' = [ioPc EXCEPT ![h] = "printed"]
  /\ CountOp(h)
  /\ UNCHANGED <<exists, fdFile, fdMode, handle, buf, room, size, start>>

Printed(h) ==
  /\ ioPc[h] = "printed"
  /\ Finish(h)
  /\ UNCHANGED <<sys, handle, call, ops>>

-----------------------------------------------------------------------------
(* Reading *)

\* What is left of the file.
Left(h) == LET s == content[fdFile[handle[h]]] IN
  IF fdPos[handle[h]] < Len(s) THEN SubSeq(s, fdPos[handle[h]] + 1, Len(s)) ELSE <<>>

\* read into a span and FileDescriptor.read_bytes: one system call.
ReadOnce(h, n) ==
  /\ Idle(h) /\ Readable(h)
  /\ n \in 1 .. Least(Len(Left(h)), MaxTransfer)
  /\ fdPos' = [fdPos EXCEPT ![handle[h]] = @ + n]
  /\ CountOp(h)
  /\ UNCHANGED <<exists, content, fdFile, fdMode, handle, ioPc, call>>

\* read and read_bytes.
ReadBytes(h, n) ==
  /\ Readable(h)
  /\ Begin(h, "read")
  /\ size' = [size EXCEPT ![h] = n]
  /\ room' = [room EXCEPT ![h] = IF n >= 0 THEN n ELSE FirstChunk]
  /\ buf' = [buf EXCEPT ![h] = <<>>]

\* resize when reading to the end.
GrowHalf(n) == n + n \div 2
Grow(n) == n * 2

\* One turn of the loop, which read n bytes.  A short read is not the end;
\* no bytes at all is, unless none were asked for.
ReadChunk(h, n) ==
  LET asked == room[h] - total[h]
      most  == Least(Least(asked, MaxTransfer), Len(Left(h)))
      upTo  == total[h] + n
  IN /\ ioPc[h] = "read"
     /\ n \in 0 .. most
     /\ n = 0 => most = 0
     /\ buf' = [buf EXCEPT ![h] = @ \o SubSeq(Left(h), 1, n)]
     /\ fdPos' = [fdPos EXCEPT ![handle[h]] = @ + n]
     /\ total' = [total EXCEPT ![h] = upTo]
     /\ IF upTo = size[h] \/ n = 0
          THEN Finish(h) /\ UNCHANGED room
          ELSE /\ room' = [room EXCEPT ![h] = IF size[h] < 0 THEN Grow(upTo) ELSE @]
               /\ UNCHANGED ioPc
     /\ UNCHANGED <<exists, content, fdFile, fdMode, handle, size, start, disturbed, ops>>

-----------------------------------------------------------------------------

FileInit ==
  /\ exists \in SUBSET Files
  /\ content = [f \in Files |-> <<>>]
  /\ fdFile = [fd \in Fds |-> NoFile]
  /\ fdPos = [fd \in Fds |-> 0]
  /\ fdMode = [fd \in Fds |-> "r"]
  /\ handle = [h \in Handles |-> -1]
  /\ ioPc = [h \in Handles |-> "idle"]
  /\ total = [h \in Handles |-> 0]
  /\ buf = [h \in Handles |-> <<>>]
  /\ room = [h \in Handles |-> 0]
  /\ size = [h \in Handles |-> 0]
  /\ start = [h \in Handles |-> 0]
  /\ disturbed = [h \in Handles |-> FALSE]
  /\ ops = [h \in Handles |-> 0]

Step(h) ==
  \/ \E f \in Files, m \in Modes : Open(h, f, m)
  \/ OpenFails(h) \/ Close(h) \/ UseClosed(h)
  \/ \E to \in 0 .. MaxSize : Seek(h, to)
  \/ WriteAll(h) \/ (\E n \in 1 .. DataLen : WriteChunk(h, n))
  \/ \E n \in 0 .. DataLen : WriteOnce(h, n)
  \/ \E n \in 0 .. DataLen : PrintTo(h, n)
  \/ Printed(h)
  \/ CallFails(h) \/ Caught(h)
  \/ \E n \in 1 .. MaxSize : ReadOnce(h, n)
  \/ (\E n \in Sizes : ReadBytes(h, n)) \/ (\E n \in 0 .. MaxSize : ReadChunk(h, n))

FileNext == \E h \in Handles : Step(h)

FileSpec == FileInit /\ [][FileNext]_fileVars

-----------------------------------------------------------------------------
(* Properties *)

Bytes == [by : Handles, k : 1 .. DataLen] \union {Zero}

\* The variables have their types.
FileTypeOK ==
  /\ exists \subseteq Files
  /\ content \in [Files -> Seq(Bytes)]
  /\ fdFile \in [Fds -> Files \union {NoFile}]
  /\ fdPos \in [Fds -> Nat]
  /\ fdMode \in [Fds -> {"r", "w", "rw", "a"}]
  /\ handle \in [Handles -> Fds \union {-1}]
  /\ ioPc \in [Handles -> {"idle", "write", "read", "raised", "printed"}]
  /\ total \in [Handles -> Nat]
  /\ buf \in [Handles -> Seq(Bytes)]
  /\ room \in [Handles -> Nat]
  /\ size \in [Handles -> Nat \union {-1}]
  /\ start \in [Handles -> Nat]
  /\ disturbed \in [Handles -> BOOLEAN]
  /\ ops \in [Handles -> Nat]

\* A descriptor has one owner: no two handles have the same one, a handle that
\* is open has one that is in use, and none is in use without a handle.  A
\* second close of one handle would otherwise close the file of another.
OwnDescriptor ==
  /\ \A h \in Handles : handle[h] >= 0 => ~ Free(handle[h])
  /\ \A g, h \in Handles : g # h /\ handle[g] >= 0 => handle[g] # handle[h]
  /\ \A fd \in Fds : Free(fd) \/ \E h \in Handles : handle[h] = fd

Returns(h, op) == ioPc[h] = op /\ ioPc'[h] = "idle"

\* The last bytes in s that h wrote are t: t stands at increasing places of s,
\* and h's other bytes are before all of them.
LastOf(h, s, t) ==
  \E place \in [1 .. Len(t) -> 1 .. Len(s)] :
    /\ \A j, k \in 1 .. Len(t) : j < k => place[j] < place[k]
    /\ \A k \in 1 .. Len(t) : s[place[k]] = t[k]
    /\ \A i \in 1 .. Len(s) : s[i].by = h =>
         (\E k \in 1 .. Len(t) : i = place[k]) \/ (\A k \in 1 .. Len(t) : i < place[k])
HasAt(s, at, t) == at >= 0 /\ at + Len(t) <= Len(s) /\ SubSeq(s, at + 1, at + Len(t)) = t

\* "This method guarantees that all bytes are written": when write_all returns,
\* the file has all of them in order and once, where the call began, or, in
\* append mode, at the end as far as other appenders leave room; whatever the
\* system made of the single writes.
WriteAllWhole ==
  [][\A h \in Handles : Returns(h, "write") /\ ~ disturbed'[h] =>
       LET fd == handle[h]
           s  == content'[fdFile[fd]]
       IN IF Appends(fd) THEN LastOf(h, s, Data(h))
          ELSE HasAt(s, start[h], Data(h))]_fileVars

\* read_bytes returns what is in the file from where it began: all of it for
\* -1, and as much as there is up to size otherwise, however short the single
\* reads are and while others append.
ReadWhole ==
  [][\A h \in Handles : Returns(h, "read") /\ ~ disturbed[h] =>
       LET s == content[fdFile[handle[h]]]
           n == Len(buf'[h])
       IN /\ n > 0 => HasAt(s, start[h], buf'[h])
          /\ n = size[h] \/ start[h] + n >= Len(s)]_fileVars

=============================================================================
